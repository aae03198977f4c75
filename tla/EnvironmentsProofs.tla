------------------------- MODULE EnvironmentsProofs -------------------------
(***************************************************************************)
(* The sandboxes of a worker host, for any tasks, workers, slots and       *)
(* workspaces and any amount of trouble.                                   *)
(***************************************************************************)
EXTENDS Environments, FiniteSetTheorems, TLAPS

\* Places without a slot, where the slot is being furnished, and with both a
\* slot and a workspace in it; a handler may have neither.
Bare == {"idle", "load", "await"}
Filling == {"attaching", "populating"}
Settling == {"adopt", "lease", "run", "stop", "mark", "releasing"}

\* Slot and workspace of an execution go together.
Shaped(x) ==
  /\ x.at \in Bare => x.slot = None
  /\ x.at \in Filling => /\ x.slot # None /\ x.space = None
                         /\ \E e \in Spaces \ litter : place[e] = x.slot
  /\ x.at \in Settling => x.slot # None
  /\ x.at \notin Filling => (x.slot = None <=> x.space = None)
  /\ x.space # None => place[x.space] = x.slot /\ x.space \notin litter

\* No two trees are in one slot, and what is removed in part is somewhere.
Separate ==
  /\ \A e \in Spaces \ litter : place[e] \notin Range(pool)
  /\ \A e, f \in Spaces \ litter : place[e] = place[f] /\ place[e] \in Slots => e = f
  /\ \A e \in litter : place[e] # "gone"

Shape == \A w \in Workers : Shaped(exec[w])

ExecOK ==
  /\ exec \in [Workers -> Executions]
  /\ \A w \in Workers : (exec[w].at = "idle") <=> (exec[w].on = None)

HostOK ==
  /\ pool \in Seq(Slots)
  /\ place \in [Spaces -> Slots \cup {"saved", "gone"}]
  /\ litter \subseteq Spaces
  /\ dropped \subseteq Slots
  /\ SlotsAccounted
  /\ Separate
  /\ Shape

RowsOK ==
  /\ status \in [Tasks -> Status]
  /\ home \in [Tasks -> Spaces \cup {None}]
  /\ queue \subseteq Tasks
  /\ signals \subseteq Tasks
  /\ made \in [Spaces -> Tasks \cup {None}]
  /\ lease \in [Spaces -> {"none", "busy", "ready", "stopped"}]
  /\ trouble \in Nat

HostInv == ExecOK /\ HostOK /\ RowsOK

(***************************************************************************)
(* The pool as a queue without repetitions.                                *)
(***************************************************************************)
LEMMA TailOfPool ==
  ASSUME NEW p \in Seq(Slots), IsInjective(p), p # <<>>
  PROVE  /\ Head(p) \in Slots /\ Head(p) \in Range(p)
         /\ Tail(p) \in Seq(Slots) /\ IsInjective(Tail(p))
         /\ Range(Tail(p)) = Range(p) \ {Head(p)}
<1> DEFINE q == Tail(p)
<1>1. /\ Len(p) \in Nat /\ Len(p) >= 1 /\ DOMAIN p = 1..Len(p)
      /\ Head(p) = p[1] /\ p[1] \in Slots
  OBVIOUS
<1>2. /\ q \in Seq(Slots) /\ DOMAIN q = 1..(Len(p) - 1)
      /\ \A i \in DOMAIN q : q[i] = p[i + 1]
  OBVIOUS
<1> HIDE DEF q
<1>3. \A i \in DOMAIN q : i + 1 \in DOMAIN p /\ i + 1 # 1
  BY <1>1, <1>2
<1>4. \A i \in DOMAIN p : i # 1 => i - 1 \in DOMAIN q /\ q[i - 1] = p[i]
  BY <1>1, <1>2
<1>5. IsInjective(q)
  <2>1. ASSUME NEW i \in DOMAIN q, NEW j \in DOMAIN q, q[i] = q[j]
        PROVE  i = j
    <3>1. i + 1 = j + 1
      BY <1>2, <1>3, <2>1 DEF IsInjective
    <3>2. QED
      BY <1>1, <1>2, <3>1
  <2>2. QED
    BY <2>1 DEF IsInjective
<1>6. Range(q) \subseteq Range(p) \ {Head(p)}
  <2>1. ASSUME NEW i \in DOMAIN q
        PROVE  q[i] \in Range(p) /\ q[i] # Head(p)
    <3>1. i + 1 \in DOMAIN p /\ i + 1 # 1 /\ q[i] = p[i + 1] /\ 1 \in DOMAIN p
      BY <1>1, <1>2, <1>3
    <3>2. QED
      BY <1>1, <3>1 DEF IsInjective, Range
  <2>2. QED
    BY <2>1 DEF Range
<1>7. Range(p) \ {Head(p)} \subseteq Range(q)
  BY <1>1, <1>4 DEF Range
<1>8. Head(p) \in Range(p)
  BY <1>1 DEF Range
<1>9. QED
  BY <1>1, <1>2, <1>5, <1>6, <1>7, <1>8 DEF q

LEMMA AppendToPool ==
  ASSUME NEW p \in Seq(Slots), IsInjective(p), NEW s \in Slots, s \notin Range(p)
  PROVE  /\ Append(p, s) \in Seq(Slots) /\ IsInjective(Append(p, s))
         /\ Range(Append(p, s)) = Range(p) \cup {s}
<1> DEFINE q == Append(p, s)
<1>1. /\ Len(p) \in Nat /\ DOMAIN p = 1..Len(p)
      /\ q \in Seq(Slots) /\ DOMAIN q = 1..(Len(p) + 1)
      /\ \A i \in DOMAIN p : q[i] = p[i]
      /\ q[Len(p) + 1] = s
  OBVIOUS
<1> HIDE DEF q
<1>2. DOMAIN q = DOMAIN p \cup {Len(p) + 1}
  BY <1>1
<1>3. Range(q) = Range(p) \cup {s}
  BY <1>1, <1>2 DEF Range
<1>4. \A i \in DOMAIN p : q[i] # s
  BY <1>1 DEF Range
<1>5. IsInjective(q)
  BY <1>1, <1>2, <1>4 DEF IsInjective
<1>6. QED
  BY <1>1, <1>3, <1>5 DEF q

\* prepare puts every slot into the pool, and each one once.
LEMMA FillingHasAll ==
  ASSUME NEW p \in Fillings
  PROVE  p \in Seq(Slots) /\ IsInjective(p) /\ Range(p) = Slots
<1> DEFINE n == Cardinality(Slots)
<1>1. n \in Nat
  BY PoolAssumption, FS_CardinalityType
<1>2. p \in Injection(1..n, Slots)
  BY DEF Fillings
<1>3. IsFiniteSet(1..n) /\ Cardinality(1..n) = n
  BY <1>1, FS_Interval
<1> HIDE DEF n
<1>4. p \in Surjection(1..n, Slots)
  BY <1>2, <1>3, PoolAssumption, FS_Injection DEF n
<1>5. p \in [1..n -> Slots] /\ IsInjective(p)
  BY <1>2 DEF Injection
<1>6. Range(p) = Slots
  BY <1>4, <1>5 DEF Surjection, Range
<1>7. p \in Seq(Slots)
  BY <1>1, <1>5
<1>8. QED
  BY <1>5, <1>6, <1>7

-----------------------------------------------------------------------------
(***************************************************************************)
(* What a step can do to the host: nothing, take a slot out of the pool,   *)
(* free one, leave one behind, or start anew.                              *)
(***************************************************************************)
Others(w) == \A v \in Workers \ {w} : exec'[v] = exec[v]

LEMMA Becoming ==
  ASSUME ExecOK, NEW w \in Workers, NEW x \in Executions, Becomes(w, x),
         (x.at = "idle") <=> (x.on = None)
  PROVE  ExecOK' /\ exec'[w] = x /\ Others(w)
BY DEF ExecOK, Becomes, Others

LEMMA SlotsOfExecutions ==
  ASSUME ExecOK, HostOK, NEW w \in Workers
  PROVE  /\ exec[w] \in Executions /\ Shaped(exec[w])
         /\ exec[w].slot # None => exec[w].slot \in Held /\ exec[w].slot \in Slots
         /\ \A v \in Workers : exec[v].slot = exec[w].slot /\ exec[v].slot # None
                                 => v = w
<1>1. exec[w] \in Executions
  BY DEF ExecOK
<1>2. exec[w].slot # None => exec[w].slot \in Held /\ exec[w].slot \in Slots
  BY <1>1 DEF Held, Executions
<1>3. QED
  BY <1>1, <1>2 DEF HostOK, Shape, SlotsAccounted

LEMMA QuietHost ==
  ASSUME ExecOK, HostOK, NEW w \in Workers, NEW x \in Executions,
         exec'[w] = x, Others(w), x.slot = exec[w].slot, Shaped(x),
         UNCHANGED <<pool, place, litter, dropped>>
  PROVE  HostOK'
<1>1. \A v \in Workers : exec'[v].slot = exec[v].slot
  BY DEF Others
<1>2. Held' = Held
  BY <1>1 DEF Held
<1>3. SlotsAccounted'
  BY <1>1, <1>2 DEF SlotsAccounted, HostOK
<1>4. Shape'
  BY DEF Shape, Shaped, Others, HostOK
<1>5. Separate'
  BY DEF Separate, HostOK
<1>6. QED
  BY <1>3, <1>4, <1>5 DEF HostOK

LEMMA TakingSlot ==
  ASSUME ExecOK, HostOK, NEW w \in Workers, NEW x \in Executions,
         exec'[w] = x, Others(w), exec[w].slot = None, pool # <<>>,
         x.at \in Filling, x.slot = Head(pool), x.space = None,
         NEW e \in Spaces \ litter, place[e] \notin Slots,
         place' = [place EXCEPT ![e] = Head(pool)],
         pool' = Tail(pool), UNCHANGED <<litter, dropped>>
  PROVE  HostOK'
<1> DEFINE s == Head(pool)
<1>1. /\ s \in Slots /\ s \in Range(pool) /\ s # None
      /\ pool' \in Seq(Slots) /\ IsInjective(pool')
      /\ Range(pool') = Range(pool) \ {s}
  BY TailOfPool, NoneAssumption DEF HostOK, SlotsAccounted
<1> HIDE DEF s
<1>2. /\ exec'[w].slot = s
      /\ \A v \in Workers \ {w} : exec'[v].slot = exec[v].slot
  BY DEF Others, s
<1>3. Held' = Held \cup {s}
  BY <1>1, <1>2 DEF Held
<1>4. \A v \in Workers : exec[v].slot # s
  BY <1>1 DEF Held, HostOK, SlotsAccounted
<1>5. SlotsAccounted'
  <2>1. \A u, v \in Workers : exec'[u].slot = exec'[v].slot /\ exec'[u].slot # None
                               => u = v
    BY <1>2, <1>4 DEF HostOK, SlotsAccounted
  <2>2. /\ Range(pool') \cup Held' \cup dropped' = Slots
        /\ Range(pool') \cap (Held' \cup dropped') = {}
        /\ Held' \cap dropped' = {}
    BY <1>1, <1>3 DEF HostOK, SlotsAccounted
  <2>3. QED
    BY <1>1, <2>1, <2>2 DEF SlotsAccounted
<1>6. /\ place' \in [Spaces -> Slots \cup {"saved", "gone"}]
      /\ place'[e] = s
      /\ \A f \in Spaces \ {e} : place'[f] = place[f]
  BY <1>1 DEF HostOK, s
<1>7. Separate'
  BY <1>1, <1>6 DEF Separate, HostOK
<1>8. Shape'
  <2>1. ASSUME NEW v \in Workers \ {w}
        PROVE  Shaped(exec[v])'
    <3>1. /\ exec[v] \in Executions /\ Shaped(exec[v])
          /\ exec[v].slot # None => exec[v].slot \in Slots
      BY SlotsOfExecutions
    <3>2. exec'[v] = exec[v]
      BY DEF Others
    <3>3. exec[v].space # None => exec[v].space \in Spaces \ {e}
      BY <3>1 DEF Shaped, Executions
    <3>4. exec[v].at \in Filling =>
            \E f \in Spaces \ (litter \cup {e}) : place[f] = exec[v].slot
      BY <3>1 DEF Shaped
    <3>5. QED
      BY <1>6, <3>1, <3>2, <3>3, <3>4 DEF Shaped
  <2>2. Shaped(exec[w])'
    BY <1>1, <1>6 DEF Shaped, Filling, Bare, Settling, s
  <2>3. QED
    BY <2>1, <2>2 DEF Shape
<1>9. QED
  BY <1>1, <1>5, <1>6, <1>7, <1>8 DEF HostOK

LEMMA LosingSlot ==
  ASSUME ExecOK, HostOK, NEW w \in Workers, NEW x \in Executions,
         exec'[w] = x, Others(w), exec[w].slot = None, pool # <<>>,
         x.slot = None, Shaped(x), UNCHANGED <<place, litter>>,
         pool' = Tail(pool), dropped' = dropped \cup {Head(pool)}
  PROVE  HostOK'
<1> DEFINE s == Head(pool)
<1>1. /\ s \in Slots /\ s \in Range(pool)
      /\ pool' \in Seq(Slots) /\ IsInjective(pool')
      /\ Range(pool') = Range(pool) \ {s}
  BY TailOfPool DEF HostOK, SlotsAccounted
<1> HIDE DEF s
<1>2. \A v \in Workers : exec'[v].slot = exec[v].slot
  BY DEF Others
<1>3. Held' = Held
  BY <1>2 DEF Held
<1>4. SlotsAccounted'
  <2>1. dropped' = dropped \cup {s}
    BY DEF s
  <2>2. /\ Range(pool') \cup Held' \cup dropped' = Slots
        /\ Range(pool') \cap (Held' \cup dropped') = {}
        /\ Held' \cap dropped' = {}
    BY <1>1, <1>3, <2>1 DEF HostOK, SlotsAccounted
  <2>3. QED
    BY <1>1, <1>2, <2>2 DEF HostOK, SlotsAccounted
<1>5. Separate'
  BY <1>1 DEF Separate, HostOK
<1>6. Shape'
  BY DEF Shape, Shaped, Others, HostOK
<1>7. QED
  BY <1>1, <1>4, <1>5, <1>6 DEF HostOK, s

\* A tree has left its slot, or is not one any more.
Cleared(e) ==
  \/ \E p \in {"saved", "gone"} :
       place' = [place EXCEPT ![e] = p] /\ UNCHANGED litter
  \/ litter' = litter \cup {e} /\ UNCHANGED place

LEMMA FreeingSlot ==
  ASSUME ExecOK, HostOK, NEW w \in Workers, NEW x \in Executions,
         exec'[w] = x, Others(w), exec[w].slot # None,
         x.at \notin Filling \cup Settling, x.slot = None, x.space = None,
         NEW e \in Spaces \ litter, place[e] = exec[w].slot, Cleared(e),
         pool' = Append(pool, exec[w].slot), UNCHANGED dropped
  PROVE  HostOK'
<1> DEFINE s == exec[w].slot
<1>1. /\ s \in Slots /\ s \in Held /\ s # None
      /\ \A v \in Workers : exec[v].slot = s => v = w
  BY SlotsOfExecutions
<1>2. s \notin Range(pool) /\ s \notin dropped
  BY <1>1 DEF HostOK, SlotsAccounted
<1>3. /\ pool' \in Seq(Slots) /\ IsInjective(pool')
      /\ Range(pool') = Range(pool) \cup {s}
  BY <1>1, <1>2, AppendToPool DEF HostOK, SlotsAccounted
<1>4. /\ exec'[w].slot = None
      /\ \A v \in Workers \ {w} : exec'[v].slot = exec[v].slot
  BY DEF Others
<1> HIDE DEF s
<1>5. Held' = Held \ {s}
  BY <1>1, <1>4 DEF Held, s
<1>6. SlotsAccounted'
  <2>1. /\ Range(pool') \cup Held' \cup dropped' = Slots
        /\ Range(pool') \cap (Held' \cup dropped') = {}
        /\ Held' \cap dropped' = {}
    BY <1>1, <1>2, <1>3, <1>5 DEF HostOK, SlotsAccounted
  <2>2. \A u, v \in Workers : exec'[u].slot = exec'[v].slot /\ exec'[u].slot # None
                               => u = v
    BY <1>4 DEF HostOK, SlotsAccounted
  <2>3. QED
    BY <1>3, <2>1, <2>2 DEF SlotsAccounted
<1>7. /\ place' \in [Spaces -> Slots \cup {"saved", "gone"}]
      /\ litter' \subseteq Spaces /\ litter \subseteq litter'
      /\ litter' \subseteq litter \cup {e}
      /\ e \notin litter' => place'[e] \notin Slots
      /\ e \in litter' => place'[e] # "gone"
      /\ place[e] = s
      /\ \A f \in Spaces \ {e} : place'[f] = place[f]
      /\ \A f \in Spaces \ (litter \cup {e}) : place[f] # s
  BY <1>1, PlacesAssumption DEF HostOK, Separate, Cleared, s
<1>8. Separate'
  <2>1. \A f \in Spaces \ litter' : place'[f] \notin Range(pool')
    <3>1. Range(pool') \subseteq Slots
      BY <1>1, <1>3 DEF HostOK, SlotsAccounted
    <3>2. QED
      BY <1>3, <1>7, <3>1 DEF HostOK, Separate
  <2>2. \A f, g \in Spaces \ litter' :
          place'[f] = place'[g] /\ place'[f] \in Slots => f = g
    BY <1>7 DEF HostOK, Separate
  <2>3. \A f \in litter' : place'[f] # "gone"
    BY <1>7 DEF HostOK, Separate
  <2>4. QED
    BY <2>1, <2>2, <2>3 DEF Separate
<1>9. Shape'
  <2>1. ASSUME NEW v \in Workers \ {w}
        PROVE  Shaped(exec[v])'
    <3>1. /\ exec[v] \in Executions /\ Shaped(exec[v])
          /\ exec[v].slot # s
      BY <1>1, SlotsOfExecutions
    <3>2. exec'[v] = exec[v]
      BY DEF Others
    <3>3. exec[v].space # None => exec[v].space \in Spaces \ {e}
      BY <1>7, <3>1 DEF Shaped, Executions
    <3>4. exec[v].at \in Filling =>
            \E f \in Spaces \ (litter \cup {e}) : place[f] = exec[v].slot
      BY <1>7, <3>1 DEF Shaped
    <3>5. QED
      BY <1>7, <3>1, <3>2, <3>3, <3>4 DEF Shaped
  <2>2. Shaped(exec[w])'
    BY DEF Shaped
  <2>3. QED
    BY <2>1, <2>2 DEF Shape
<1>10. QED
  BY <1>3, <1>6, <1>7, <1>8, <1>9 DEF HostOK

LEMMA LeavingSlot ==
  ASSUME ExecOK, HostOK, NEW w \in Workers, NEW x \in Executions,
         exec'[w] = x, Others(w), exec[w].slot # None,
         x.slot = None, Shaped(x), UNCHANGED <<pool, place, litter>>,
         dropped' = dropped \cup {exec[w].slot}
  PROVE  HostOK'
<1>1. /\ exec[w].slot \in Slots /\ exec[w].slot \in Held
      /\ \A v \in Workers : exec[v].slot = exec[w].slot => v = w
  BY SlotsOfExecutions
<1>2. /\ exec'[w].slot = None
      /\ \A v \in Workers \ {w} : exec'[v].slot = exec[v].slot
  BY DEF Others
<1>3. Held' = Held \ {exec[w].slot}
  BY <1>1, <1>2 DEF Held
<1>4. SlotsAccounted'
  <2>1. /\ Range(pool') \cup Held' \cup dropped' = Slots
        /\ Range(pool') \cap (Held' \cup dropped') = {}
        /\ Held' \cap dropped' = {}
    BY <1>1, <1>3 DEF HostOK, SlotsAccounted
  <2>2. \A u, v \in Workers : exec'[u].slot = exec'[v].slot /\ exec'[u].slot # None
                               => u = v
    BY <1>2 DEF HostOK, SlotsAccounted
  <2>3. QED
    BY <2>1, <2>2 DEF HostOK, SlotsAccounted
<1>5. Separate'
  BY DEF Separate, HostOK
<1>6. Shape'
  BY DEF Shape, Shaped, Others, HostOK
<1>7. QED
  BY <1>1, <1>4, <1>5, <1>6 DEF HostOK

LEMMA StartingAnew ==
  ASSUME HostOK, exec' = [w \in Workers |-> NoExecution], pool' \in Fillings,
         place' \in [Spaces -> {"saved", "gone"}], dropped' = {},
         litter' \subseteq Spaces, \A e \in litter' : place'[e] # "gone"
  PROVE  HostOK'
<1>1. pool' \in Seq(Slots) /\ IsInjective(pool') /\ Range(pool') = Slots
  BY FillingHasAll
<1>2. \A w \in Workers : exec'[w] = NoExecution
  OBVIOUS
<1>3. Held' = {}
  BY <1>2 DEF Held, NoExecution
<1>4. SlotsAccounted'
  BY <1>1, <1>2, <1>3 DEF SlotsAccounted, NoExecution
<1>5. \A e \in Spaces : place'[e] \notin Slots
  BY PlacesAssumption
<1>6. Separate'
  BY <1>1, <1>5 DEF Separate
<1>7. Shape'
  BY <1>2 DEF Shape, Shaped, NoExecution, Bare, Filling, Settling
<1>8. QED
  BY <1>1, <1>4, <1>6, <1>7 DEF HostOK

-----------------------------------------------------------------------------
LEMMA QuietStep ==
  ASSUME ExecOK, HostOK, NEW w \in Workers, NEW x \in Executions,
         (x.at = "idle") <=> (x.on = None),
         Becomes(w, x), x.slot = exec[w].slot, Shaped(x),
         UNCHANGED <<pool, place, litter, dropped>>
  PROVE  ExecOK' /\ HostOK'
<1>1. ExecOK' /\ exec'[w] = x /\ Others(w)
  BY Becoming
<1>2. QED
  BY <1>1, QuietHost

\* An execution goes on from place to place with what it has.
LEMMA GoingOn ==
  ASSUME ExecOK, HostOK, NEW w \in Workers, NEW p \in Places, Goto(w, p),
         At(w, "idle") <=> p = "idle", exec[w].at \notin Filling,
         p \notin Bare \cup Filling,
         p \in Settling => exec[w].slot # None,
         UNCHANGED <<pool, place, litter, dropped>>
  PROVE  ExecOK' /\ HostOK'
<1> DEFINE x == [exec[w] EXCEPT !.at = p]
<1>1. /\ exec[w] \in Executions /\ Shaped(exec[w])
      /\ At(w, "idle") <=> exec[w].on = None
  BY SlotsOfExecutions DEF ExecOK, At
<1>2. /\ x \in Executions /\ x.at = p /\ x.on = exec[w].on
      /\ x.slot = exec[w].slot /\ x.space = exec[w].space
  BY <1>1 DEF Executions
<1>3. Becomes(w, x)
  BY DEF Goto, Becomes, ExecOK
<1> HIDE DEF x
<1>4. Shaped(x)
  BY <1>1, <1>2 DEF Shaped
<1>5. QED
  BY <1>1, <1>2, <1>3, <1>4, QuietStep

LEMMA NobodyThere ==
  /\ NoExecution \in Executions
  /\ NoExecution.at = "idle" /\ NoExecution.on = None
  /\ NoExecution.slot = None /\ NoExecution.space = None
  /\ NoExecution.doomed = FALSE
  /\ Shaped(NoExecution)
BY DEF NoExecution, Executions, Places, Status, Shaped, Bare, Filling, Settling

LEMMA LeavingBare ==
  ASSUME ExecOK, HostOK, NEW w \in Workers, Leave(w), exec[w].slot = None,
         UNCHANGED <<pool, place, litter, dropped>>
  PROVE  ExecOK' /\ HostOK'
BY NobodyThere, QuietStep DEF Leave

LEMMA TreeInSlot ==
  ASSUME HostOK, NEW w \in Workers, Shaped(exec[w]), exec[w].at \in Filling
  PROVE  InSlot(w) \in Spaces \ litter /\ place[InSlot(w)] = exec[w].slot
<1>1. \E e \in Spaces \ litter : place[e] = exec[w].slot
  BY DEF Shaped
<1>2. QED
  BY <1>1 DEF InSlot

LEMMA UndoStep ==
  ASSUME ExecOK, HostOK, NEW w \in Workers, NEW p \in {"failed", "cancelled"},
         exec[w].at \in Filling, Undo(w, p) \/ UndoFails(w)
  PROVE  ExecOK' /\ HostOK'
<1>1. PICK q \in {"failed", "cancelled"} : Unclaimed(w, q)
  BY DEF Undo, UndoFails
<1>2. PICK x : x = [exec[w] EXCEPT !.at = q, !.slot = None] /\ Becomes(w, x)
  BY <1>1 DEF Unclaimed
<1>3. exec[w] \in Executions /\ Shaped(exec[w])
  BY SlotsOfExecutions
<1>4. /\ x \in Executions /\ x.at = q /\ x.on = exec[w].on
      /\ x.slot = None /\ x.space = None /\ exec[w].slot # None
  BY <1>2, <1>3 DEF Executions, Places, Body, Handlers, Shaped
<1>5. exec[w].on # None /\ q # "idle"
  BY DEF ExecOK, Filling
<1>6. ExecOK' /\ exec'[w] = x /\ Others(w)
  BY <1>2, <1>4, <1>5, Becoming
<1>7. x.at \notin Filling \cup Settling
  BY <1>4 DEF Filling, Settling
<1>8. CASE Undo(w, p)
  <2>1. PICK e \in Spaces \ litter : e = InSlot(w) /\ place[e] = exec[w].slot
    BY <1>3, TreeInSlot
  <2>2. Cleared(e)
    BY <1>8, <2>1 DEF Undo, Withdrawn, Removed, Cleared
  <2>3. pool' = Append(pool, exec[w].slot) /\ UNCHANGED dropped
    BY <1>8 DEF Undo
  <2>4. QED
    BY <1>4, <1>6, <1>7, <2>1, <2>2, <2>3, FreeingSlot
<1>9. CASE UndoFails(w)
  <2>1. Shaped(x)
    BY <1>4, <1>7 DEF Shaped, Bare
  <2>2. UNCHANGED <<pool, place, litter>> /\ dropped' = dropped \cup {exec[w].slot}
    BY <1>9 DEF UndoFails
  <2>3. QED
    BY <1>4, <1>6, <2>1, <2>2, LeavingSlot
<1>10. QED
  BY <1>8, <1>9

LEMMA AbandonStep ==
  ASSUME ExecOK, HostOK, NEW w \in Workers, exec[w].at \notin Filling,
         AbandonSlot(w)
  PROVE  ExecOK' /\ HostOK'
<1>1. exec[w] \in Executions /\ Shaped(exec[w]) /\ exec[w].space # None
  BY SlotsOfExecutions DEF AbandonSlot
<1>2. exec[w].slot # None
  BY <1>1 DEF Shaped
<1>3. ExecOK' /\ exec'[w] = NoExecution /\ Others(w)
  BY NobodyThere, Becoming DEF AbandonSlot, Leave
<1>4. UNCHANGED <<pool, place, litter>> /\ dropped' = dropped \cup {exec[w].slot}
  BY DEF AbandonSlot
<1>5. QED
  BY <1>2, <1>3, <1>4, NobodyThere, LeavingSlot

LEMMA ReleaseStep ==
  ASSUME ExecOK, HostOK, NEW w \in Workers, Release(w)
  PROVE  ExecOK' /\ HostOK'
<1>1. exec[w] \in Executions /\ Shaped(exec[w]) /\ exec[w].at = "releasing"
  BY SlotsOfExecutions DEF Release, ReleaseTo, At
<1>2. PICK e : e = exec[w].space
  OBVIOUS
<1>3. exec[w].slot # None /\ e \in Spaces \ litter /\ place[e] = exec[w].slot
  BY <1>1, <1>2 DEF Shaped, Settling, Filling, Executions
<1>4. ExecOK' /\ exec'[w] = NoExecution /\ Others(w)
  BY NobodyThere, Becoming DEF Release, ReleaseTo, Leave
<1>5. Cleared(e)
  BY <1>2 DEF Release, ReleaseTo, Removed, Cleared
<1>6. pool' = Append(pool, exec[w].slot) /\ UNCHANGED dropped
  BY DEF Release, ReleaseTo
<1>7. QED
  BY <1>3, <1>4, <1>5, <1>6, NobodyThere, FreeingSlot DEF Filling, Settling

\* w has got the next slot and is otherwise what it was.
Claimed(w, p) ==
  /\ exec'[w].at = p /\ exec'[w].slot = Head(pool)
  /\ exec'[w].on = exec[w].on /\ exec'[w].view = exec[w].view
  /\ exec'[w].space = exec[w].space /\ exec'[w].doomed = exec[w].doomed

LEMMA ClaimStep ==
  ASSUME ExecOK, HostOK, NEW w \in Workers, NEW p \in Filling, Claim(w, p),
         NEW e \in Spaces \ litter, place[e] \in {"saved", "gone"},
         place' = [place EXCEPT ![e] = Head(pool)], UNCHANGED <<litter, dropped>>
  PROVE  /\ ExecOK' /\ HostOK'
         /\ Others(w) /\ Head(pool) \in Slots
         /\ Claimed(w, p)
<1>1. PICK x : /\ x = [exec[w] EXCEPT !.at = p, !.slot = Head(pool)]
               /\ Becomes(w, x)
  BY DEF Claim
<1>2. /\ exec[w] \in Executions /\ Shaped(exec[w]) /\ exec[w].at = "await"
      /\ exec[w].on # None
  BY SlotsOfExecutions DEF Claim, At, ExecOK
<1>3. pool # <<>> /\ pool' = Tail(pool) /\ Head(pool) \in Slots
  BY TailOfPool DEF Claim, HostOK, SlotsAccounted
<1>4. exec[w].slot = None /\ exec[w].space = None
  BY <1>2 DEF Shaped, Bare, Filling
<1>5. /\ x \in Executions /\ x.at = p /\ x.on = exec[w].on
      /\ x.slot = Head(pool) /\ x.space = None
      /\ x.view = exec[w].view /\ x.doomed = exec[w].doomed
  BY <1>1, <1>2, <1>3, <1>4 DEF Executions, Places, Body, Filling
<1>6. ExecOK' /\ exec'[w] = x /\ Others(w)
  BY <1>1, <1>2, <1>5, Becoming DEF Filling
<1>7. place[e] \notin Slots
  BY PlacesAssumption
<1>8. Claimed(w, p)
  BY <1>4, <1>5, <1>6 DEF Claimed
<1>9. QED
  BY <1>3, <1>4, <1>5, <1>6, <1>7, <1>8, TakingSlot

\* Steps that leave the executions and the host alone.
RequestStep ==
  \/ \E t \in Tasks : Retry(t) \/ Cancel(t) \/ SignalNobody(t)
  \/ UNCHANGED vars

Boot == Restart \/ Relocate

\* What somebody may come back to is whole.
Returnable ==
  \A w \in Workers : exec[w].at = "await" => home[exec[w].on] \notin litter

LEMMA HostStep ==
  ASSUME HostInv, Returnable, [Next]_vars
  PROVE  ExecOK' /\ HostOK'
<1> USE DEF HostInv
<1>1. ASSUME NEW w \in Workers, Take(w)
      PROVE  ExecOK' /\ HostOK'
  <2>1. PICK t \in queue :
          \/ UNCHANGED exec
          \/ Becomes(w, [NoExecution EXCEPT !.at = "load", !.on = t])
    BY <1>1 DEF Take
  <2>2. UNCHANGED <<pool, place, litter, dropped>> /\ exec[w].at = "idle"
    BY <1>1 DEF Take, host, At
  <2>3. CASE UNCHANGED exec
    BY <2>2, <2>3 DEF ExecOK, HostOK, SlotsAccounted, Separate, Shape,
                      Shaped, Held
  <2>4. CASE Becomes(w, [NoExecution EXCEPT !.at = "load", !.on = t])
    <3>1. PICK x : /\ x = [NoExecution EXCEPT !.at = "load", !.on = t]
                   /\ Becomes(w, x)
      BY <2>4
    <3>2. /\ x \in Executions /\ x.at = "load" /\ x.on = t /\ t \in Tasks
          /\ x.slot = None /\ x.space = None
      BY <3>1 DEF RowsOK, NoExecution, Executions, Places, Body, Status
    <3>3. exec[w].slot = None
      BY <2>2, SlotsOfExecutions DEF Shaped, Bare
    <3>4. Shaped(x) /\ t # None
      BY <3>2, NoneAssumption DEF Shaped, Bare, Filling, Settling
    <3>5. QED
      BY <2>2, <3>1, <3>2, <3>3, <3>4, QuietStep
  <2>5. QED
    BY <2>1, <2>3, <2>4
<1>2. ASSUME NEW w \in Workers, Load(w)
      PROVE  ExecOK' /\ HostOK'
  <2>1. PICK s : s = IF status[On(w)] = "queued" THEN "provisioning"
                     ELSE status[On(w)]
    OBVIOUS
  <2>2. /\ UNCHANGED <<pool, place, litter, dropped>>
        /\ exec[w].at = "load"
        /\ Leave(w) \/ Becomes(w, [exec[w] EXCEPT !.at = "await", !.view = s])
    BY <1>2, <2>1 DEF Load, host, At
  <2>3. /\ exec[w] \in Executions /\ Shaped(exec[w])
        /\ exec[w].on \in Tasks
    BY <2>2, SlotsOfExecutions DEF ExecOK, Executions
  <2>4. exec[w].slot = None /\ exec[w].space = None
    BY <2>2, <2>3 DEF Shaped, Bare, Filling
  <2>5. CASE Leave(w)
    BY <2>2, <2>4, <2>5, LeavingBare
  <2>6. CASE Becomes(w, [exec[w] EXCEPT !.at = "await", !.view = s])
    <3>1. PICK x : /\ x = [exec[w] EXCEPT !.at = "await", !.view = s]
                   /\ Becomes(w, x)
      BY <2>6
    <3>2. s \in Status
      BY <2>1, <2>3 DEF RowsOK, On, Status
    <3>3. /\ x \in Executions /\ x.at = "await" /\ x.on = exec[w].on
          /\ x.slot = None /\ x.space = None
      BY <2>3, <2>4, <3>1, <3>2 DEF Executions, Places, Body
    <3>4. Shaped(x) /\ x.on # None
      BY <2>3, <3>3, NoneAssumption DEF Shaped, Bare, Filling, Settling
    <3>5. QED
      BY <2>2, <2>4, <3>1, <3>3, <3>4, QuietStep
  <2>7. QED
    BY <2>2, <2>5, <2>6
<1>3. ASSUME NEW w \in Workers, Attach(w)
      PROVE  ExecOK' /\ HostOK'
  <2>1. exec[w].on \in Tasks
    BY <1>3 DEF Attach, Claim, At, ExecOK, Executions
  <2>2. PICK e : e = home[On(w)]
    OBVIOUS
  <2>3. e \in Spaces \ litter /\ place[e] = "saved"
    BY <1>3, <2>1, <2>2 DEF Attach, Claim, At, HasSaved, RowsOK, On, Returnable
  <2>4. place' = [place EXCEPT ![e] = Head(pool)]
    BY <1>3, <2>2 DEF Attach
  <2>5. Claim(w, "attaching") /\ UNCHANGED <<litter, dropped>>
    BY <1>3 DEF Attach
  <2>6. QED
    BY <2>3, <2>4, <2>5, ClaimStep DEF Filling
<1>4. ASSUME NEW w \in Workers, Allocate(w)
      PROVE  ExecOK' /\ HostOK'
  <2>1. PICK e : e = CHOOSE f \in Spaces : Fresh(f)
    OBVIOUS
  <2>2. e \in Spaces /\ Fresh(e)
    BY <1>4, <2>1 DEF Allocate
  <2>3. place[e] = "gone" /\ e \notin litter
    BY <2>2 DEF Fresh, HostOK, Separate
  <2>4. place' = [place EXCEPT ![e] = Head(pool)]
    BY <1>4, <2>1 DEF Allocate
  <2>5. Claim(w, "populating") /\ UNCHANGED <<litter, dropped>>
    BY <1>4 DEF Allocate
  <2>6. QED
    BY <2>2, <2>3, <2>4, <2>5, ClaimStep DEF Filling
<1>5. ASSUME NEW w \in Workers, MkdirFails(w)
      PROVE  ExecOK' /\ HostOK'
  <2>1. PICK x : x = [exec[w] EXCEPT !.at = "failed"]
    OBVIOUS
  <2>2. /\ exec[w] \in Executions /\ Shaped(exec[w]) /\ exec[w].at = "await"
        /\ exec[w].on # None
    BY <1>5, SlotsOfExecutions DEF MkdirFails, At, ExecOK
  <2>3. exec[w].slot = None /\ exec[w].space = None
    BY <2>2 DEF Shaped, Bare, Filling
  <2>4. /\ x \in Executions /\ x.at = "failed" /\ x.on # None
        /\ x.slot = None /\ x.space = None
    BY <2>1, <2>2, <2>3 DEF Executions, Places, Handlers
  <2>5. Becomes(w, x)
    BY <1>5, <2>1 DEF MkdirFails, Goto, Becomes, ExecOK
  <2>6. Shaped(x)
    BY <2>4 DEF Shaped, Bare, Filling, Settling
  <2>7. ExecOK' /\ exec'[w] = x /\ Others(w)
    BY <2>4, <2>5, Becoming
  <2>8. /\ pool # <<>> /\ pool' = Tail(pool) /\ UNCHANGED <<place, litter>>
        /\ dropped' = dropped \cup {Head(pool)}
    BY <1>5 DEF MkdirFails
  <2>9. QED
    BY <2>3, <2>4, <2>6, <2>7, <2>8, LosingSlot
<1>6. ASSUME NEW w \in Workers, Furnished(w)
      PROVE  ExecOK' /\ HostOK'
  <2>1. PICK e : e = InSlot(w)
    OBVIOUS
  <2>2. /\ exec[w] \in Executions /\ Shaped(exec[w])
        /\ exec[w].at \in Filling /\ exec[w].on # None
    BY <1>6, SlotsOfExecutions DEF Furnished, At, ExecOK, Filling
  <2>3. /\ e \in Spaces \ litter /\ place[e] = exec[w].slot
        /\ exec[w].slot # None
    BY <2>1, <2>2, TreeInSlot DEF Shaped
  <2>4. PICK x : /\ x = [exec[w] EXCEPT !.at = "adopt", !.space = e]
                 /\ Becomes(w, x)
    BY <1>6, <2>1 DEF Furnished
  <2>5. /\ x \in Executions /\ x.at = "adopt" /\ x.on = exec[w].on
        /\ x.slot = exec[w].slot /\ x.space = e
    BY <2>2, <2>3, <2>4 DEF Executions, Places, Body
  <2>6. Shaped(x)
    BY <2>3, <2>5, NoneAssumption DEF Shaped, Bare, Filling, Settling
  <2>7. UNCHANGED <<pool, place, litter, dropped>>
    BY <1>6 DEF Furnished, host
  <2>8. QED
    BY <2>2, <2>4, <2>5, <2>6, <2>7, QuietStep
<1>7. ASSUME NEW w \in Workers, FurnishFails(w)
      PROVE  ExecOK' /\ HostOK'
  BY <1>7, UndoStep DEF FurnishFails, At, Filling
<1>8. ASSUME NEW w \in Workers,
             Adopt(w) \/ MarkBusy(w) \/ Complete(w)
      PROVE  ExecOK' /\ HostOK'
  <2>1. /\ UNCHANGED <<pool, place, litter, dropped>>
        /\ exec[w].at \in {"adopt", "lease", "run"}
        /\ Goto(w, "lease") \/ Goto(w, "run") \/ Goto(w, "stop")
    BY <1>8 DEF Adopt, AdoptAs, MarkBusy, Lease, Complete, host, At
  <2>2. exec[w].slot # None
    BY <2>1, SlotsOfExecutions DEF Shaped, Settling
  <2>3. PICK q \in {"lease", "run", "stop"} : Goto(w, q)
    BY <2>1
  <2>4. QED
    BY <2>1, <2>2, <2>3, GoingOn
       DEF Places, Body, Bare, Filling, Settling, At
<1>9. ASSUME NEW w \in Workers,
             \/ MarkStopped(w) \/ MarkReady(w) \/ Fail(w)
             \/ HandleCancel(w) \/ HandlerFails(w)
      PROVE  ExecOK' /\ HostOK'
  <2>1. /\ UNCHANGED <<pool, place, litter, dropped>>
        /\ exec[w].at \in {"stop", "mark", "load", "adopt", "lease", "run"}
                            \cup Handlers
        /\ Goto(w, "closing") \/ Goto(w, "failed")
    BY <1>9 DEF MarkStopped, MarkReady, Lease, Fail, HandleCancel, HandlerFails,
                host, At, Handlers
  <2>2. PICK q \in {"closing", "failed"} : Goto(w, q)
    BY <2>1
  <2>3. QED
    BY <2>1, <2>2, GoingOn
       DEF Places, Handlers, Bare, Filling, Settling, At
<1>10. ASSUME NEW w \in Workers, HandleFailure(w)
       PROVE  ExecOK' /\ HostOK'
  <2>1. PICK q \in {"closing", "mark"} :
          Goto(w, q) /\ (q = "mark" => exec[w].space # None)
    BY <1>10 DEF HandleFailure
  <2>2. /\ UNCHANGED <<pool, place, litter, dropped>> /\ exec[w].at = "failed"
    BY <1>10 DEF HandleFailure, host, At
  <2>3. q = "mark" => exec[w].slot # None
    BY <2>1, <2>2, SlotsOfExecutions DEF Shaped, Filling
  <2>4. QED
    BY <2>1, <2>2, <2>3, GoingOn
       DEF Places, Handlers, Bare, Filling, Settling, At
<1>11. ASSUME NEW w \in Workers, Close(w)
       PROVE  ExecOK' /\ HostOK'
  <2>1. /\ UNCHANGED <<pool, place, litter, dropped>> /\ exec[w].at = "closing"
        /\ exec[w] \in Executions /\ Shaped(exec[w]) /\ exec[w].on # None
    BY <1>11, SlotsOfExecutions DEF Close, host, At, ExecOK
  <2>2. exec[w].slot = None <=> exec[w].space = None
    BY <2>1 DEF Shaped, Filling
  <2>3. CASE exec[w].space = None
    BY <1>11, <2>1, <2>2, <2>3, LeavingBare DEF Close
  <2>4. CASE exec[w].space # None
    <3>1. PICK d : d = Doomed(On(w))
      OBVIOUS
    <3>2. PICK x : /\ x = [exec[w] EXCEPT !.at = "releasing", !.doomed = d]
                   /\ Becomes(w, x)
      BY <1>11, <2>4, <3>1 DEF Close
    <3>3. d \in BOOLEAN
      BY <3>1 DEF Doomed
    <3>4. /\ x \in Executions /\ x.at = "releasing" /\ x.on = exec[w].on
          /\ x.slot = exec[w].slot /\ x.space = exec[w].space
      BY <2>1, <3>2, <3>3 DEF Executions, Places
    <3>5. Shaped(x)
      BY <2>1, <2>2, <2>4, <3>4 DEF Shaped, Bare, Filling, Settling
    <3>6. QED
      BY <2>1, <3>2, <3>4, <3>5, QuietStep
  <2>5. QED
    BY <2>3, <2>4
<1>12. ASSUME NEW w \in Workers, Release(w)
       PROVE  ExecOK' /\ HostOK'
  BY <1>12, ReleaseStep
<1>13. ASSUME NEW w \in Workers, CleanupFails(w) \/ ReleaseFails(w)
       PROVE  ExecOK' /\ HostOK'
  BY <1>13, AbandonStep DEF CleanupFails, ReleaseFails, At, Filling
<1>14. ASSUME NEW w \in Workers, SignalRunning(w)
       PROVE  ExecOK' /\ HostOK'
  <2>1. CASE Interrupt(w)
    <3>1. CASE /\ exec[w].at \in Filling
               /\ Undo(w, "cancelled") \/ UndoFails(w)
      BY <3>1, UndoStep
    <3>2. CASE /\ exec[w].at \in Body \ Filling
               /\ Goto(w, "cancelled") /\ Untouched
      BY <3>2, GoingOn
         DEF Untouched, Places, Body, Handlers, Bare, Filling, Settling, At
    <3>3. QED
      BY <2>1, <3>1, <3>2 DEF Interrupt, Filling, At
  <2>2. CASE InterruptUnborn(w)
    <3>1. exec[w].at = "load" /\ exec[w].slot = None
      BY <2>2, SlotsOfExecutions DEF InterruptUnborn, At, Shaped, Bare
    <3>2. QED
      BY <2>2, <3>1, LeavingBare DEF InterruptUnborn, Untouched
  <2>3. CASE InterruptHandler(w)
    BY <2>3, GoingOn DEF InterruptHandler, Untouched, Places, Handlers, Bare,
                         Filling, Settling, At
  <2>4. CASE InterruptCleanup(w)
    <3>1. CASE UNCHANGED exec /\ Untouched
      BY <3>1 DEF Untouched, ExecOK, HostOK, SlotsAccounted, Separate,
                  Shape, Shaped, Held
    <3>2. CASE exec[w].at \in {"closing", "releasing"} /\ AbandonSlot(w)
      BY <3>2, AbandonStep DEF Filling
    <3>3. QED
      BY <2>4, <3>1, <3>2 DEF InterruptCleanup
  <2>5. QED
    BY <1>14, <2>1, <2>2, <2>3, <2>4 DEF SignalRunning
<1>15. ASSUME RequestStep
       PROVE  ExecOK' /\ HostOK'
  <2>1. UNCHANGED <<exec, pool, place, litter, dropped>>
    BY <1>15 DEF RequestStep, Retry, Cancel, SignalNobody, vars, host
  <2>2. QED
    BY <2>1 DEF ExecOK, HostOK, SlotsAccounted, Separate, Shape, Shaped,
                Held
<1>16. ASSUME Boot
       PROVE  ExecOK' /\ HostOK'
  <2>1. /\ exec' = [w \in Workers |-> NoExecution] /\ pool' \in Fillings
        /\ dropped' = {}
    BY <1>16 DEF Boot, Restart, Relocate, Reboot
  <2>2. place' \in [Spaces -> {"saved", "gone"}]
    BY <1>16 DEF Boot, Restart, Relocate, HostOK
  <2>3. litter' \subseteq Spaces /\ \A e \in litter' : place'[e] # "gone"
    BY <1>16 DEF Boot, Restart, Relocate, HostOK, Separate
  <2>4. ExecOK'
    BY <2>1, NobodyThere DEF ExecOK
  <2>5. QED
    BY <2>1, <2>2, <2>3, <2>4, StartingAnew
<1>17. QED
  BY <1>1, <1>2, <1>3, <1>4, <1>5, <1>6, <1>7, <1>8, <1>9, <1>10, <1>11,
     <1>12, <1>13, <1>14, <1>15, <1>16
     DEF Next, Enter, Step, RequestStep, Boot

LEMMA RowsStep ==
  ASSUME HostInv, [Next]_vars
  PROVE  RowsOK'
<1> USE DEF HostInv, RowsOK
<1>1. \A w \in Workers : exec[w] \in Executions
  BY DEF ExecOK
<1>2. trouble' = trouble + 1 => trouble' \in Nat
  OBVIOUS
<1>3. \A w \in Workers : exec[w].at # "idle" => On(w) \in Tasks
  BY <1>1 DEF ExecOK, On, Executions
<1>4. ASSUME NEW w \in Workers,
             \/ Take(w) \/ Attach(w) \/ Furnished(w) \/ Fail(w) \/ Close(w)
      PROVE  RowsOK'
  BY <1>4 DEF Take, Attach, Furnished, Fail, Close, table, host
<1>5. ASSUME NEW w \in Workers, FurnishFails(w) \/ Release(w) \/ SignalRunning(w)
      PROVE  RowsOK'
  <2>1. ASSUME NEW e, Removed(e)
        PROVE  UNCHANGED trouble \/ trouble' = trouble + 1
    BY <2>1 DEF Removed, Trouble
  <2>2. ASSUME NEW p, Undo(w, p) \/ UndoFails(w)
        PROVE  UNCHANGED trouble \/ trouble' = trouble + 1
    BY <2>1, <2>2 DEF Undo, Withdrawn, UndoFails, Trouble
  <2>3. /\ UNCHANGED <<status, home, queue, made, lease>> /\ signals' \subseteq Tasks
        /\ UNCHANGED trouble \/ trouble' = trouble + 1
    <3>1. CASE FurnishFails(w)
      BY <2>2, <3>1 DEF FurnishFails, table
    <3>2. CASE Release(w)
      BY <2>1, <3>2 DEF Release, ReleaseTo, table
    <3>3. CASE SignalRunning(w)
      BY <2>2, <3>3 DEF SignalRunning, Interrupt
    <3>4. QED
      BY <1>5, <3>1, <3>2, <3>3
  <2>4. QED
    BY <1>2, <2>3
<1>6. ASSUME NEW w \in Workers, Allocate(w)
      PROVE  RowsOK'
  <2>1. PICK e \in Spaces : /\ made' = [made EXCEPT ![e] = On(w)]
                            /\ lease' = [lease EXCEPT ![e] = "none"]
    BY <1>6 DEF Allocate
  <2>2. On(w) \in Tasks
    BY <1>3, <1>6 DEF Allocate, Claim, At
  <2>3. UNCHANGED <<table, trouble>>
    BY <1>6 DEF Allocate
  <2>4. QED
    BY <2>1, <2>2, <2>3 DEF table
<1>7. ASSUME NEW w \in Workers,
             \/ MkdirFails(w) \/ HandlerFails(w) \/ CleanupFails(w)
             \/ ReleaseFails(w)
      PROVE  RowsOK'
  <2>1. /\ UNCHANGED <<status, home, queue, signals, made, lease>>
        /\ trouble' = trouble + 1
    BY <1>7 DEF MkdirFails, HandlerFails, CleanupFails, ReleaseFails, Trouble,
                table, host
  <2>2. QED
    BY <1>2, <2>1
<1>8. ASSUME NEW w \in Workers, Load(w) \/ Complete(w) \/ HandleFailure(w)
                                 \/ HandleCancel(w)
      PROVE  RowsOK'
  <2>1. exec[w].at # "idle"
    BY <1>8 DEF Load, Complete, HandleFailure, HandleCancel, At
  <2>2. PICK s \in Status :
          SetStatus(On(w), s) \/ UNCHANGED status
    BY <1>3, <1>8, <2>1 DEF Load, Complete, HandleFailure, HandleCancel,
                            Cancelled, Status
  <2>3. status' \in [Tasks -> Status]
    BY <2>2 DEF SetStatus
  <2>4. UNCHANGED <<home, queue, signals, made, lease, trouble>>
    BY <1>8 DEF Load, Complete, HandleFailure, HandleCancel, host
  <2>5. QED
    BY <2>3, <2>4
<1>9. ASSUME NEW w \in Workers, Adopt(w)
      PROVE  RowsOK'
  <2>1. PICK s, h :
          /\ s = IF exec[w].view = "provisioning" THEN "running"
                 ELSE status[On(w)]
          /\ h = IF exec[w].view \in {"provisioning", "running"}
                 THEN exec[w].space ELSE home[On(w)]
          /\ SetStatus(On(w), s)
          /\ home' = [home EXCEPT ![On(w)] = h]
    BY <1>9, <1>3 DEF Adopt, AdoptAs, At
  <2>2. s \in Status
    BY <1>3, <1>9, <2>1 DEF Adopt, AdoptAs, At, Status
  <2>3. h \in Spaces \cup {None}
    BY <1>1, <1>3, <1>9, <2>1 DEF Adopt, AdoptAs, At, Executions
  <2>4. /\ status' \in [Tasks -> Status]
        /\ home' \in [Tasks -> Spaces \cup {None}]
    BY <2>1, <2>2, <2>3 DEF SetStatus
  <2>5. UNCHANGED <<queue, signals, made, lease, trouble>>
    BY <1>9 DEF Adopt, AdoptAs, host
  <2>6. QED
    BY <2>4, <2>5
<1>10. ASSUME NEW w \in Workers, MarkBusy(w) \/ MarkStopped(w) \/ MarkReady(w)
      PROVE  RowsOK'
  BY <1>10 DEF MarkBusy, MarkStopped, MarkReady, Lease, table, host
<1>11. ASSUME RequestStep
       PROVE  RowsOK'
  <2>1. CASE UNCHANGED vars
    BY <2>1 DEF vars, table, host
  <2>2. ASSUME NEW t \in Tasks, Retry(t) \/ Cancel(t)
        PROVE  RowsOK'
    <3>1. PICK s \in {"queued", "cancelling"} : status' = [status EXCEPT ![t] = s]
      BY <2>2 DEF Retry, Cancel, SetStatus
    <3>2. status' \in [Tasks -> Status]
      BY <3>1 DEF Status
    <3>3. /\ UNCHANGED <<home, made, lease>> /\ trouble' = trouble + 1
          /\ queue' \subseteq Tasks /\ signals' \subseteq Tasks
      BY <2>2 DEF Retry, Cancel, Trouble, host
    <3>4. QED
      BY <1>2, <3>2, <3>3
  <2>3. ASSUME NEW t \in Tasks, SignalNobody(t)
        PROVE  RowsOK'
    <3>1. Cancelled(t) \in Status
      BY DEF Cancelled, Status
    <3>2. QED
      BY <2>3, <3>1 DEF SignalNobody, SetStatus, host
  <2>4. QED
    BY <1>11, <2>1, <2>2, <2>3 DEF RequestStep
<1>12. ASSUME Boot
       PROVE  RowsOK'
  <2>1. \A t \in Tasks : Cancelled(t) \in Status
    BY DEF Cancelled, Status
  <2>2. QED
    BY <1>12, <2>1 DEF Boot, Restart, Relocate, Reboot, Trouble
<1>13. QED
  BY <1>4, <1>5, <1>6, <1>7, <1>8, <1>9, <1>10, <1>11, <1>12
     DEF Next, Enter, Step, RequestStep, Boot

LEMMA HostInit == Init => HostInv
<1> SUFFICES ASSUME Init PROVE HostInv
  OBVIOUS
<1>1. pool \in Seq(Slots) /\ IsInjective(pool) /\ Range(pool) = Slots
  BY FillingHasAll DEF Init
<1>2. \A w \in Workers : exec[w] = NoExecution
  BY DEF Init
<1>3. Held = {}
  BY <1>2 DEF Held, NoExecution
<1>4. ExecOK
  BY <1>2, NobodyThere DEF Init, ExecOK
<1>5. SlotsAccounted
  BY <1>1, <1>2, <1>3, NobodyThere DEF SlotsAccounted, Init
<1>6. /\ place \in [Spaces -> Slots \cup {"saved", "gone"}]
      /\ \A e \in Spaces : place[e] \notin Slots
  BY PlacesAssumption DEF Init
<1>7. Separate
  BY <1>1, <1>6 DEF Separate, Init
<1>8. Shape
  BY <1>2, NobodyThere DEF Shape
<1>9. RowsOK
  BY DEF RowsOK, Init, Status
<1>10. QED
  BY <1>1, <1>4, <1>5, <1>6, <1>7, <1>8, <1>9 DEF HostInv, HostOK, Init

-----------------------------------------------------------------------------
(***************************************************************************)
(* Whose workspace is whose.  Tree(w): what w finds in its slot.           *)
(***************************************************************************)
Tree(w) ==
  {e \in Spaces \ litter : exec[w].slot # None /\ place[e] = exec[w].slot}

OneRun ==
  \A v, w \in Workers : exec[v].on = exec[w].on /\ exec[v].on # None => v = w

\* The row of a task leads to a workspace made for it; so does the slot of its
\* execution; and no row leads to one that is being populated.
Owned ==
  /\ \A t \in Tasks : home[t] # None => made[home[t]] = t
  /\ \A w \in Workers : \A e \in Tree(w) : made[e] = exec[w].on
  /\ \A w \in Workers : exec[w].at = "populating" =>
       \A e \in Tree(w), t \in Tasks : home[t] # e

Working == {"await", "attaching", "populating", "adopt", "lease", "run"}

\* What an execution knows of its task while it works.
Informed(x) ==
  /\ x.at \in Working => x.view \in {"provisioning", "running", "cancelling"}
  /\ x.at \in Working => ~Doomed(x.on)
  /\ x.at \in {"lease", "run"} => home[x.on] = x.space \/ x.view = "cancelling"
  /\ x.at = "run" => lease[x.space] = "busy"
  /\ x.doomed => x.at = "releasing" /\ Doomed(x.on)

\* The statuses a submitted task of this component comes to.
Lived == Status \ {"created", "waiting_for_user"}

Settled ==
  /\ \A t \in Tasks : status[t] \in Lived
  /\ \A w \in Workers : Informed(exec[w])

\* Nobody comes back to what was removed.
Strewn == \A e \in litter, t \in Tasks : home[t] = e => Doomed(t)

AgentInv == HostInv /\ OneRun /\ Owned /\ Settled /\ Strewn

\* Steps in which an execution neither begins nor gets a slot.
Onward == \/ \E w \in Workers :
               \/ Step(w) \/ MkdirFails(w) \/ HandlerFails(w) \/ CleanupFails(w)
               \/ ReleaseFails(w) \/ SignalRunning(w)
          \/ RequestStep \/ Boot

\* An execution stays what it is, gives its slot back, or ends.
Recedes(w) ==
  /\ exec'[w].on \in {exec[w].on, None}
  /\ exec'[w].slot # None =>
       exec'[w].slot = exec[w].slot /\ exec'[w].on = exec[w].on
  /\ exec'[w].at = "populating" => exec[w].at = "populating"

\* What is in a slot was there, and does not become a tree again.
Lying == \A e \in Spaces : place'[e] \in Slots =>
           place'[e] = place[e] /\ (e \in litter => e \in litter')

LEMMA ClearedLies ==
  ASSUME HostOK, NEW e, Cleared(e)
  PROVE  Lying
BY PlacesAssumption DEF Cleared, Lying, HostOK

LEMMA RemovedCleared ==
  ASSUME NEW e, Removed(e)
  PROVE  Cleared(e)
BY DEF Removed, Cleared

LEMMA OnwardRecedes ==
  ASSUME ExecOK, HostOK, Onward
  PROVE  (\A w \in Workers : Recedes(w)) /\ Lying
<1> USE DEF Recedes
<1>1. \A w \in Workers :
        exec[w] \in [at : Places, on : Tasks \cup {None}, view : Status,
                    space : Spaces \cup {None}, slot : Slots \cup {None},
                    doomed : BOOLEAN]
  BY DEF ExecOK, Executions
<1>2. ASSUME NEW w \in Workers, NEW p \in Places \ {"populating"}, Goto(w, p)
      PROVE  \A v \in Workers : Recedes(v)
  BY <1>1, <1>2 DEF Goto, ExecOK
<1>3. ASSUME NEW w \in Workers, Leave(w)
      PROVE  \A v \in Workers : Recedes(v)
  <2>1. PICK x : x = NoExecution /\ Becomes(w, x)
    BY <1>3 DEF Leave
  <2>2. x.on = None /\ x.slot = None /\ x.at = "idle"
    BY <2>1, NobodyThere
  <2>3. exec'[w] = x /\ \A v \in Workers \ {w} : exec'[v] = exec[v]
    BY <2>1 DEF Becomes, ExecOK
  <2>4. QED
    BY <2>2, <2>3
<1>4. ASSUME NEW w \in Workers, NEW p \in Handlers, Undo(w, p) \/ UndoFails(w),
             At(w, "attaching") \/ At(w, "populating")
      PROVE  /\ \A v \in Workers : Recedes(v)
             /\ Lying
  <2>1. PICK q \in Handlers : Unclaimed(w, q)
    BY <1>4 DEF Undo, UndoFails, Handlers
  <2>2. PICK x : x = [exec[w] EXCEPT !.at = q, !.slot = None] /\ Becomes(w, x)
    BY <2>1 DEF Unclaimed
  <2>3. x.on = exec[w].on /\ x.slot = None /\ x.at = q
    BY <1>1, <2>2
  <2>4. exec'[w] = x /\ \A v \in Workers \ {w} : exec'[v] = exec[v]
    BY <2>2 DEF Becomes, ExecOK
  <2>5. \A v \in Workers : Recedes(v)
    BY <2>3, <2>4 DEF Handlers
  <2>6. CASE Undo(w, p)
    <3>1. Cleared(InSlot(w))
      BY <2>6 DEF Undo, Withdrawn, Removed, Cleared
    <3>2. QED
      BY <2>5, <3>1, ClearedLies
  <2>7. CASE UndoFails(w)
    BY <2>5, <2>7 DEF UndoFails, Lying
  <2>8. QED
    BY <1>4, <2>6, <2>7
<1>5. ASSUME NEW w \in Workers,
             \/ Adopt(w) \/ MarkBusy(w) \/ Complete(w) \/ MarkStopped(w)
             \/ MarkReady(w) \/ Fail(w) \/ HandleFailure(w) \/ HandleCancel(w)
             \/ HandlerFails(w) \/ MkdirFails(w)
      PROVE  /\ \A v \in Workers : Recedes(v)
             /\ UNCHANGED <<place, litter>>
  <2>1. UNCHANGED <<place, litter>>
    BY <1>5 DEF Adopt, AdoptAs, MarkBusy, Complete, MarkStopped, MarkReady, Lease,
                Fail, HandleFailure, HandleCancel, HandlerFails, MkdirFails, host
  <2>2. PICK p \in {"lease", "run", "stop", "closing", "failed", "mark"} : Goto(w, p)
    BY <1>5 DEF Adopt, AdoptAs, MarkBusy, Complete, MarkStopped, MarkReady, Lease,
                Fail, HandleFailure, HandleCancel, HandlerFails, MkdirFails
  <2>3. QED
    BY <1>2, <2>1, <2>2 DEF Places, Body, Handlers
<1>6. ASSUME NEW w \in Workers, Load(w) \/ Furnished(w) \/ Close(w)
      PROVE  /\ \A v \in Workers : Recedes(v)
             /\ UNCHANGED <<place, litter>>
  <2>1. UNCHANGED <<place, litter>>
    BY <1>6 DEF Load, Furnished, Close, host
  <2>2. CASE Leave(w)
    BY <1>3, <2>1, <2>2
  <2>3. ASSUME NEW x, Becomes(w, x), x.on = exec[w].on, x.slot = exec[w].slot,
               x.at # "populating"
        PROVE  \A v \in Workers : Recedes(v)
    <3>1. exec'[w] = x /\ \A v \in Workers \ {w} : exec'[v] = exec[v]
      BY <2>3 DEF Becomes, ExecOK
    <3>2. QED
      BY <2>3, <3>1
  <2>4. CASE Load(w) /\ ~Leave(w)
    <3>1. PICK s, x : /\ x = [exec[w] EXCEPT !.at = "await", !.view = s]
                     /\ Becomes(w, x)
      BY <2>4 DEF Load
    <3>2. x.on = exec[w].on /\ x.slot = exec[w].slot /\ x.at = "await"
      BY <1>1, <3>1
    <3>3. QED
      BY <2>1, <2>3, <3>1, <3>2
  <2>5. CASE Furnished(w)
    <3>1. PICK e, x : /\ x = [exec[w] EXCEPT !.at = "adopt", !.space = e]
                     /\ Becomes(w, x)
      BY <2>5 DEF Furnished
    <3>2. x.on = exec[w].on /\ x.slot = exec[w].slot /\ x.at = "adopt"
      BY <1>1, <3>1
    <3>3. QED
      BY <2>1, <2>3, <3>1, <3>2
  <2>6. CASE Close(w) /\ ~Leave(w)
    <3>1. PICK d, x : /\ x = [exec[w] EXCEPT !.at = "releasing", !.doomed = d]
                     /\ Becomes(w, x)
      BY <2>6 DEF Close
    <3>2. x.on = exec[w].on /\ x.slot = exec[w].slot /\ x.at = "releasing"
      BY <1>1, <3>1
    <3>3. QED
      BY <2>1, <2>3, <3>1, <3>2
  <2>7. QED
    BY <1>6, <2>2, <2>4, <2>5, <2>6
<1>7. ASSUME NEW w \in Workers, FurnishFails(w)
      PROVE  /\ \A v \in Workers : Recedes(v)
             /\ Lying
  BY <1>4, <1>7 DEF FurnishFails, Handlers
<1>8. ASSUME NEW w \in Workers, Release(w)
      PROVE  /\ \A v \in Workers : Recedes(v)
             /\ Lying
  <2>1. Cleared(exec[w].space)
    BY <1>8 DEF Release, ReleaseTo, Removed, Cleared
  <2>2. Leave(w)
    BY <1>8 DEF Release, ReleaseTo
  <2>3. QED
    BY <1>3, <2>1, <2>2, ClearedLies
<1>9. ASSUME NEW w \in Workers, CleanupFails(w) \/ ReleaseFails(w)
      PROVE  /\ \A v \in Workers : Recedes(v)
             /\ UNCHANGED <<place, litter>>
  BY <1>3, <1>9 DEF CleanupFails, ReleaseFails, AbandonSlot
<1>10. ASSUME NEW w \in Workers, SignalRunning(w)
       PROVE  /\ \A v \in Workers : Recedes(v)
              /\ Lying
  <2>1. CASE /\ At(w, "attaching") \/ At(w, "populating")
             /\ Undo(w, "cancelled") \/ UndoFails(w)
    BY <1>4, <2>1 DEF Handlers
  <2>2. CASE (Goto(w, "cancelled") \/ Goto(w, "closing")) /\ UNCHANGED <<place, litter>>
    BY <1>2, <2>2 DEF Places, Handlers, Lying
  <2>3. CASE Leave(w) /\ UNCHANGED <<place, litter>>
    BY <1>3, <2>3 DEF Lying
  <2>4. CASE UNCHANGED <<exec, place, litter>>
    BY <2>4 DEF Lying
  <2>5. QED
    BY <1>10, <2>1, <2>2, <2>3, <2>4
       DEF SignalRunning, Interrupt, InterruptUnborn, InterruptHandler,
           InterruptCleanup, AbandonSlot, Untouched
<1>11. ASSUME RequestStep
       PROVE  UNCHANGED <<exec, place, litter>>
  BY <1>11 DEF RequestStep, Retry, Cancel, SignalNobody, vars, host
<1>12. ASSUME Boot
       PROVE  /\ \A v \in Workers : Recedes(v)
              /\ Lying
  <2>1. \A v \in Workers : exec'[v] = NoExecution
    BY <1>12 DEF Boot, Restart, Relocate, Reboot
  <2>2. Lying
    BY <1>12, PlacesAssumption DEF Boot, Restart, Relocate, Lying
  <2>3. QED
    BY <2>1, <2>2, NobodyThere
<1>13. QED
  BY <1>5, <1>6, <1>7, <1>8, <1>9, <1>10, <1>11, <1>12 DEF Onward, Step, Lying

LEMMA NextCases ==
  ASSUME [Next]_vars
  PROVE  \/ \E w \in Workers : Take(w) \/ Attach(w) \/ Allocate(w)
         \/ Onward
BY DEF Next, Enter, Onward, RequestStep, Boot

LEMMA TakingUp ==
  ASSUME HostInv, NEW w \in Workers, Take(w)
  PROVE  /\ UNCHANGED <<status, home, place, litter, made, lease>> /\ exec[w].on = None
         /\ \/ UNCHANGED exec
            \/ \E t \in Tasks : /\ \A v \in Workers : exec[v].on # t
                               /\ exec'[w].at = "load" /\ exec'[w].on = t
                               /\ exec'[w].slot = None /\ ~exec'[w].doomed
                               /\ Others(w)
<1>1. UNCHANGED <<status, home, place, litter, made, lease>> /\ exec[w].on = None
  BY DEF Take, host, At, HostInv, ExecOK
<1>2. PICK t \in queue :
        IF Running(t) THEN UNCHANGED exec
        ELSE Becomes(w, [NoExecution EXCEPT !.at = "load", !.on = t])
  BY DEF Take
<1>3. ASSUME ~Running(t)
      PROVE  /\ t \in Tasks /\ \A v \in Workers : exec[v].on # t
             /\ exec'[w].at = "load" /\ exec'[w].on = t
             /\ exec'[w].slot = None /\ ~exec'[w].doomed
             /\ Others(w)
  <2>1. PICK x : x = [NoExecution EXCEPT !.at = "load", !.on = t] /\ Becomes(w, x)
    BY <1>2, <1>3
  <2>2. x.at = "load" /\ x.on = t /\ x.slot = None /\ ~x.doomed
    BY <2>1 DEF NoExecution
  <2>3. exec'[w] = x /\ Others(w)
    BY <2>1 DEF Becomes, Others, HostInv, ExecOK
  <2>4. t \in Tasks /\ \A v \in Workers : exec[v].on # t
    BY <1>3 DEF Running, On, HostInv, RowsOK
  <2>5. QED
    BY <2>2, <2>3, <2>4
<1>4. QED
  BY <1>1, <1>2, <1>3

\* An execution that gets a slot: its tree is one workspace, and the trees of
\* the others stay what they are.
LEMMA TreeOfClaim ==
  ASSUME HostInv, NEW w \in Workers, NEW p \in Filling, Claim(w, p),
         NEW e \in Spaces \ litter, place[e] \in {"saved", "gone"},
         place' = [place EXCEPT ![e] = Head(pool)], UNCHANGED <<litter, dropped>>
  PROVE  /\ Tree(w)' = {e}
         /\ \A v \in Workers \ {w} : Tree(v)' = Tree(v) /\ e \notin Tree(v)
         /\ Claimed(w, p)
         /\ exec[w] \in Executions /\ exec[w].at = "await"
         /\ exec[w].on \in Tasks /\ Others(w)
<1> USE DEF HostInv
<1>1. /\ HostOK' /\ ExecOK' /\ Others(w) /\ Head(pool) \in Slots
      /\ Claimed(w, p)
  BY ClaimStep
<1>2. /\ exec[w] \in Executions /\ exec[w].at = "await" /\ exec[w].on \in Tasks
  BY DEF ExecOK, Executions, Claim, At
<1>3. exec'[w].slot = Head(pool) /\ Head(pool) # None
  BY <1>1, NoneAssumption DEF Claimed
<1>4. place'[e] = Head(pool) /\ \A f \in Spaces \ {e} : place'[f] = place[f]
  BY DEF HostOK
<1>5. Head(pool) \in Range(pool)
  BY TailOfPool DEF HostOK, SlotsAccounted, Claim
<1>6. Tree(w)' = {e}
  BY <1>3, <1>4, <1>5 DEF Tree, HostOK, Separate
<1>7. ASSUME NEW v \in Workers \ {w}
      PROVE  Tree(v)' = Tree(v) /\ e \notin Tree(v)
  <2>1. exec'[v] = exec[v]
    BY <1>1 DEF Others
  <2>2. exec[v].slot # None => exec[v].slot \in Slots /\ exec[v].slot # Head(pool)
    BY <1>5, SlotsOfExecutions DEF HostOK, SlotsAccounted
  <2>3. exec[v].slot # None => place[e] # exec[v].slot
    BY <2>2, PlacesAssumption
  <2>4. QED
    BY <1>4, <2>1, <2>2, <2>3 DEF Tree
<1>8. QED
  BY <1>1, <1>2, <1>6, <1>7

LEMMA AttachClaims ==
  ASSUME HostInv, Returnable, NEW w \in Workers, Attach(w)
  PROVE  \E e \in Spaces \ litter :
           /\ Claim(w, "attaching") /\ place[e] \in {"saved", "gone"}
           /\ e = home[exec[w].on]
           /\ place' = [place EXCEPT ![e] = Head(pool)]
           /\ UNCHANGED <<status, home, made, lease, litter, dropped>>
<1>1. exec[w].on \in Tasks
  BY DEF Attach, Claim, At, HostInv, ExecOK, Executions
<1>2. PICK e : e = home[exec[w].on]
  OBVIOUS
<1>3. e \in Spaces \ litter /\ place[e] = "saved"
  BY <1>1, <1>2 DEF Attach, Claim, At, HasSaved, HostInv, RowsOK, On, Returnable
<1>4. /\ Claim(w, "attaching") /\ UNCHANGED <<status, home, made, lease, litter, dropped>>
      /\ place' = [place EXCEPT ![e] = Head(pool)]
  BY <1>2 DEF Attach, table, On
<1>5. QED
  BY <1>2, <1>3, <1>4

LEMMA AllocateClaims ==
  ASSUME HostInv, NEW w \in Workers, Allocate(w)
  PROVE  \E e \in Spaces \ litter :
           /\ Claim(w, "populating") /\ place[e] \in {"saved", "gone"}
           /\ \A t \in Tasks : home[t] # e
           /\ \A v \in Workers : exec[v].space # e
           /\ place' = [place EXCEPT ![e] = Head(pool)]
           /\ made' = [made EXCEPT ![e] = exec[w].on]
           /\ lease' = [lease EXCEPT ![e] = "none"]
           /\ UNCHANGED <<status, home, litter, dropped>>
<1>1. PICK e : e = CHOOSE f \in Spaces : Fresh(f)
  OBVIOUS
<1>2. e \in Spaces \ litter /\ Fresh(e)
  BY <1>1 DEF Allocate, Fresh, HostInv, HostOK, Separate
<1>3. /\ Claim(w, "populating") /\ UNCHANGED <<status, home, litter, dropped>>
      /\ place' = [place EXCEPT ![e] = Head(pool)]
      /\ made' = [made EXCEPT ![e] = exec[w].on]
      /\ lease' = [lease EXCEPT ![e] = "none"]
  BY <1>1 DEF Allocate, table, On
<1>4. QED
  BY <1>2, <1>3 DEF Fresh

\* A task that somebody works for is not taken up by anybody else.
LEMMA RunStep ==
  ASSUME HostInv, Returnable, OneRun, [Next]_vars
  PROVE  OneRun'
<1>1. ASSUME NEW w \in Workers, Take(w)
      PROVE  OneRun'
  <2>1. CASE UNCHANGED exec
    BY <2>1 DEF OneRun
  <2>2. CASE exec' # exec
    <3>1. PICK t \in Tasks :
            /\ \A v \in Workers : exec[v].on # t
            /\ exec'[w].on = t /\ Others(w)
      BY <1>1, <2>2, TakingUp
    <3>2. QED
      BY <3>1 DEF OneRun, Others
  <2>3. QED
    BY <2>1, <2>2
<1>2. ASSUME NEW w \in Workers, Attach(w) \/ Allocate(w)
      PROVE  OneRun'
  <2>1. PICK p \in Filling : Others(w) /\ Claimed(w, p)
    BY <1>2, AttachClaims, AllocateClaims, TreeOfClaim DEF Filling
  <2>2. QED
    BY <2>1 DEF OneRun, Others, Claimed
<1>3. ASSUME Onward
      PROVE  OneRun'
  BY <1>3, OnwardRecedes DEF OneRun, Recedes, HostInv
<1>4. QED
  BY <1>1, <1>2, <1>3, NextCases

LEMMA Adopting ==
  ASSUME HostInv, NEW w \in Workers, Adopt(w)
  PROVE  /\ exec[w] \in Executions /\ exec[w].at = "adopt" /\ exec[w].on \in Tasks
         /\ exec[w].space \in Tree(w)
         /\ exec[w].view \in {"provisioning", "running"}
              => home' = [home EXCEPT ![exec[w].on] = exec[w].space]
         /\ exec[w].view \notin {"provisioning", "running"} => UNCHANGED home
         /\ UNCHANGED <<made, lease, place, litter>>
         /\ exec'[w] = [exec[w] EXCEPT !.at = "lease"] /\ Others(w)
<1>1. /\ exec[w] \in Executions /\ exec[w].at = "adopt" /\ exec[w].on \in Tasks
      /\ Shaped(exec[w])
  BY SlotsOfExecutions DEF Adopt, AdoptAs, At, HostInv, ExecOK, Executions
<1>2. exec[w].space \in Tree(w)
  BY <1>1 DEF Shaped, Settling, Filling, Tree, Executions
<1>3. UNCHANGED <<made, lease, place, litter>> /\ Goto(w, "lease")
  BY DEF Adopt, AdoptAs, host
<1>4. home' = [home EXCEPT ![exec[w].on] =
                 IF exec[w].view \in {"provisioning", "running"}
                 THEN exec[w].space ELSE @]
  BY DEF Adopt, AdoptAs, On
<1>5. exec[w].view \notin {"provisioning", "running"} => UNCHANGED home
  BY <1>4 DEF HostInv, RowsOK
<1>6. exec'[w] = [exec[w] EXCEPT !.at = "lease"] /\ Others(w)
  BY <1>3 DEF Goto, HostInv, ExecOK, Others
<1>7. QED
  BY <1>1, <1>2, <1>3, <1>4, <1>5, <1>6

LEMMA OnwardKeepsRows ==
  ASSUME Onward
  PROVE  /\ UNCHANGED made
         /\ UNCHANGED home \/ \E w \in Workers : Adopt(w)
<1>1. ASSUME NEW w \in Workers,
             \/ Load(w) \/ Furnished(w) \/ FurnishFails(w) \/ MarkBusy(w)
             \/ Complete(w) \/ MarkStopped(w) \/ Fail(w) \/ HandleFailure(w)
             \/ MarkReady(w) \/ HandleCancel(w) \/ Close(w) \/ Release(w)
             \/ MkdirFails(w) \/ HandlerFails(w) \/ CleanupFails(w)
             \/ ReleaseFails(w) \/ SignalRunning(w)
      PROVE  UNCHANGED <<made, home>>
  BY <1>1 DEF Load, Furnished, FurnishFails, MarkBusy, Complete, MarkStopped,
              Fail, HandleFailure, MarkReady, HandleCancel, Close, Release,
              ReleaseTo, MkdirFails, HandlerFails, CleanupFails, ReleaseFails, SignalRunning,
              Lease, table, host
<1>2. ASSUME NEW w \in Workers, Adopt(w)
      PROVE  UNCHANGED made
  BY <1>2 DEF Adopt, AdoptAs, host
<1>3. ASSUME RequestStep \/ Boot
      PROVE  UNCHANGED <<made, home>>
  BY <1>3 DEF RequestStep, Boot, Retry, Cancel, SignalNobody, Restart, Relocate,
              Reboot, vars, table, host
<1>4. QED
  BY <1>1, <1>2, <1>3 DEF Onward, Step

LEMMA OwnedStep ==
  ASSUME HostInv, Returnable, OneRun, Owned, [Next]_vars
  PROVE  Owned'
<1> USE DEF Owned
<1>1. ASSUME NEW w \in Workers, Take(w)
      PROVE  Owned'
  <2>1. /\ UNCHANGED <<home, made, place, litter>>
        /\ \A v \in Workers : \/ exec'[v] = exec[v]
                              \/ exec'[v].slot = None /\ exec'[v].at = "load"
    <3>1. UNCHANGED <<home, made, place, litter>>
      BY <1>1, TakingUp
    <3>2. CASE UNCHANGED exec
      BY <3>1, <3>2
    <3>3. CASE exec' # exec
      <4>1. Others(w) /\ exec'[w].slot = None /\ exec'[w].at = "load"
        BY <1>1, <3>3, TakingUp
      <4>2. QED
        BY <3>1, <4>1 DEF Others
    <3>4. QED
      BY <3>2, <3>3
  <2>2. QED
    BY <2>1 DEF Tree
<1>2. ASSUME NEW w \in Workers, Attach(w)
      PROVE  Owned'
  <2>1. PICK e \in Spaces \ litter :
          /\ Claim(w, "attaching") /\ place[e] \in {"saved", "gone"}
          /\ e = home[exec[w].on]
          /\ place' = [place EXCEPT ![e] = Head(pool)]
          /\ UNCHANGED <<home, made, litter, dropped>>
    BY <1>2, AttachClaims
  <2>2. /\ Tree(w)' = {e}
        /\ \A v \in Workers \ {w} : Tree(v)' = Tree(v)
        /\ Claimed(w, "attaching") /\ exec[w].on \in Tasks /\ Others(w)
    BY <2>1, TreeOfClaim DEF Filling
  <2>3. exec'[w].at = "attaching" /\ exec'[w].on = exec[w].on
    BY <2>2 DEF Claimed
  <2>4. made[e] = exec[w].on
    BY <2>1, <2>2, NoneAssumption
  <2>5. \A v \in Workers : \A f \in Tree(v)' : made'[f] = exec'[v].on
    BY <2>1, <2>2, <2>3, <2>4 DEF Others
  <2>6. \A v \in Workers : exec'[v].at = "populating" =>
          \A f \in Tree(v)', t \in Tasks : home'[t] # f
    BY <2>1, <2>2, <2>3 DEF Others
  <2>7. QED
    BY <2>1, <2>5, <2>6
<1>3. ASSUME NEW w \in Workers, Allocate(w)
      PROVE  Owned'
  <2>1. PICK e \in Spaces \ litter :
          /\ Claim(w, "populating") /\ place[e] \in {"saved", "gone"}
          /\ \A t \in Tasks : home[t] # e
          /\ place' = [place EXCEPT ![e] = Head(pool)]
          /\ made' = [made EXCEPT ![e] = exec[w].on]
          /\ UNCHANGED <<home, litter, dropped>>
    BY <1>3, AllocateClaims
  <2>2. /\ Tree(w)' = {e}
        /\ \A v \in Workers \ {w} : Tree(v)' = Tree(v) /\ e \notin Tree(v)
        /\ Claimed(w, "populating") /\ exec[w].on \in Tasks /\ Others(w)
    BY <2>1, TreeOfClaim DEF Filling
  <2>3. exec'[w].at = "populating" /\ exec'[w].on = exec[w].on
    BY <2>2 DEF Claimed
  <2>4. made'[e] = exec[w].on /\ \A f \in Spaces \ {e} : made'[f] = made[f]
    BY <2>1 DEF HostInv, RowsOK
  <2>5. \A t \in Tasks : home[t] # None => home[t] \in Spaces \ {e}
    BY <2>1 DEF HostInv, RowsOK
  <2>6. \A v \in Workers \ {w} : Tree(v) \subseteq Spaces \ {e}
    BY <2>2 DEF Tree
  <2>7. \A v \in Workers : \A f \in Tree(v)' : made'[f] = exec'[v].on
    BY <2>2, <2>3, <2>4, <2>6 DEF Others
  <2>8. \A v \in Workers : exec'[v].at = "populating" =>
          \A f \in Tree(v)', t \in Tasks : home'[t] # f
    BY <2>1, <2>2 DEF Others
  <2>9. \A t \in Tasks : home'[t] # None => made'[home'[t]] = t
    BY <2>1, <2>4, <2>5
  <2>10. QED
    BY <2>7, <2>8, <2>9
<1>4. ASSUME Onward
      PROVE  Owned'
  <2>1. (\A v \in Workers : Recedes(v)) /\ Lying
    BY <1>4, OnwardRecedes DEF HostInv
  <2>2. \A v \in Workers : exec'[v] \in Executions
    BY HostStep DEF ExecOK
  <2>3. ASSUME NEW v \in Workers, NEW e \in Tree(v)'
        PROVE  e \in Tree(v) /\ exec'[v].on = exec[v].on
    <3>1. /\ exec'[v].slot # None /\ place'[e] = exec'[v].slot
          /\ e \in Spaces \ litter'
      BY <2>3 DEF Tree
    <3>2. exec'[v].slot \in Slots
      BY <2>2, <3>1 DEF Executions
    <3>3. QED
      BY <2>1, <3>1, <3>2 DEF Recedes, Lying, Tree
  <2>4. UNCHANGED made
    BY <1>4, OnwardKeepsRows
  <2>5. CASE UNCHANGED home
    <3>1. \A v \in Workers : \A e \in Tree(v)' : made'[e] = exec'[v].on
      BY <2>3, <2>4
    <3>2. \A v \in Workers : exec'[v].at = "populating" =>
            \A e \in Tree(v)', t \in Tasks : home'[t] # e
      BY <2>1, <2>3, <2>5 DEF Recedes
    <3>3. QED
      BY <2>4, <2>5, <3>1, <3>2
  <2>6. ASSUME NEW w \in Workers, Adopt(w), ~UNCHANGED home
        PROVE  Owned'
    <3>1. /\ exec[w].at = "adopt" /\ exec[w].on \in Tasks
          /\ exec[w].space \in Tree(w)
          /\ home' = [home EXCEPT ![exec[w].on] = exec[w].space]
      BY <2>6, Adopting
    <3>2. /\ home'[exec[w].on] = exec[w].space
          /\ \A t \in Tasks \ {exec[w].on} : home'[t] = home[t]
      BY <3>1 DEF HostInv, RowsOK
    <3>3. \A t \in Tasks : home'[t] # None => made[home'[t]] = t
      BY <3>1, <3>2
    <3>4. \A v \in Workers \ {w} : exec[w].space \notin Tree(v)
      BY <3>1, SlotsOfExecutions DEF Tree, HostInv
    <3>5. \A v \in Workers : \A e \in Tree(v)' : made'[e] = exec'[v].on
      BY <2>3, <2>4
    <3>6. ASSUME NEW v \in Workers, exec'[v].at = "populating",
                 NEW e \in Tree(v)', NEW t \in Tasks
          PROVE  home'[t] # e
      <4>1. exec[v].at = "populating" /\ e \in Tree(v)
        BY <2>1, <2>3, <3>6 DEF Recedes
      <4>2. v # w /\ home[t] # e /\ exec[w].space # e
        BY <3>1, <3>4, <4>1
      <4>3. QED
        BY <3>2, <4>2
    <3>7. QED
      BY <2>4, <3>3, <3>5, <3>6
  <2>7. QED
    BY <1>4, <2>5, <2>6, OnwardKeepsRows
<1>5. QED
  BY <1>1, <1>2, <1>3, <1>4, NextCases

-----------------------------------------------------------------------------
(***************************************************************************)
(* What executions know stays true while they rely on it.                  *)
(***************************************************************************)
\* w has gone to place p and kept the rest, but for its slot.
Moved(w, p) ==
  /\ exec'[w].at = p
  /\ exec'[w].on = exec[w].on /\ exec'[w].view = exec[w].view
  /\ exec'[w].space = exec[w].space /\ exec'[w].doomed = exec[w].doomed

LEMMA Moving ==
  ASSUME ExecOK, NEW w \in Workers, NEW p,
         Goto(w, p) \/ Unclaimed(w, p)
  PROVE  Moved(w, p) /\ Others(w)
<1>1. exec[w] \in [at : Places, on : Tasks \cup {None}, view : Status,
                  space : Spaces \cup {None}, slot : Slots \cup {None},
                  doomed : BOOLEAN]
  BY DEF ExecOK, Executions
<1>2. CASE Goto(w, p)
  BY <1>1, <1>2 DEF Goto, Moved, Others, ExecOK
<1>3. CASE Unclaimed(w, p)
  <2>1. PICK x : x = [exec[w] EXCEPT !.at = p, !.slot = None] /\ Becomes(w, x)
    BY <1>3 DEF Unclaimed
  <2>2. /\ x.at = p /\ x.on = exec[w].on /\ x.view = exec[w].view
        /\ x.space = exec[w].space /\ x.doomed = exec[w].doomed
    BY <1>1, <2>1
  <2>3. exec'[w] = x /\ Others(w)
    BY <2>1 DEF Becomes, ExecOK, Others
  <2>4. QED
    BY <2>2, <2>3 DEF Moved
<1>4. QED
  BY <1>2, <1>3

LEMMA LeavingAll ==
  ASSUME ExecOK, NEW w \in Workers, Leave(w)
  PROVE  exec'[w].at = "idle" /\ ~exec'[w].doomed /\ Others(w)
BY NobodyThere DEF Leave, Becomes, ExecOK, Others

\* What w does to its task and to its workspace is no concern of the others.
LEMMA OthersInformed ==
  ASSUME HostInv, OneRun, Settled, NEW w \in Workers, Others(w),
         \A t \in Tasks \ {exec[w].on} :
           status'[t] = status[t] /\ home'[t] = home[t],
         \A v \in Workers \ {w} :
           exec[v].space # None => lease'[exec[v].space] = lease[exec[v].space]
  PROVE  \A v \in Workers \ {w} : Informed(exec[v])'
<1>1. SUFFICES ASSUME NEW v \in Workers \ {w} PROVE Informed(exec[v])'
  OBVIOUS
<1>2. /\ exec'[v] = exec[v] /\ Informed(exec[v]) /\ Shaped(exec[v])
      /\ exec[v] \in Executions
  BY SlotsOfExecutions DEF Others, Settled, HostInv
<1>3. exec[v].at = "run" => exec[v].space # None
  BY <1>2 DEF Shaped, Settling, Filling
<1>4. CASE exec[v].on = None
  <2>1. exec[v].at = "idle"
    BY <1>4 DEF HostInv, ExecOK
  <2>2. QED
    BY <1>2, <2>1 DEF Informed, Working
<1>5. CASE exec[v].on # None
  <2>1. exec[v].on \in Tasks \ {exec[w].on}
    BY <1>2, <1>5 DEF OneRun, Executions
  <2>2. /\ status'[exec[v].on] = status[exec[v].on]
        /\ home'[exec[v].on] = home[exec[v].on]
    BY <2>1
  <2>3. QED
    BY <1>2, <1>3, <2>2 DEF Informed, Doomed
<1>6. QED
  BY <1>4, <1>5

\* Two executions have two workspaces.
LEMMA SpacesApart ==
  ASSUME HostInv, NEW v \in Workers, NEW w \in Workers,
         exec[v].space # None, exec[v].space = exec[w].space
  PROVE  v = w
<1>1. /\ Shaped(exec[v]) /\ Shaped(exec[w])
      /\ exec[w].slot = exec[v].slot /\ exec[v].slot # None => v = w
  BY SlotsOfExecutions DEF HostInv
<1>2. exec[v].slot = exec[w].slot /\ exec[v].slot # None
  BY <1>1 DEF Shaped
<1>3. QED
  BY <1>1, <1>2

\* Steps of w that change only the status of its task.
LEMMA StatusAlone ==
  ASSUME HostInv, OneRun, Settled, NEW w \in Workers, Others(w),
         UNCHANGED <<home, lease>>,
         NEW s \in Lived, SetStatus(exec[w].on, s) \/ UNCHANGED status,
         Informed(exec[w])'
  PROVE  Settled'
<1>1. \A t \in Tasks \ {exec[w].on} : status'[t] = status[t]
  BY DEF SetStatus, HostInv, RowsOK
<1>2. \A v \in Workers \ {w} : Informed(exec[v])'
  BY <1>1, OthersInformed
<1>3. \A t \in Tasks : status'[t] \in Lived
  BY <1>1 DEF SetStatus, HostInv, RowsOK, Settled
<1>4. QED
  BY <1>2, <1>3 DEF Settled

LEMMA SettledStep ==
  ASSUME HostInv, Returnable, OneRun, Settled, [Next]_vars
  PROVE  Settled'
<1>1. \A w \in Workers :
        /\ exec[w] \in Executions /\ Informed(exec[w]) /\ Shaped(exec[w])
        /\ exec[w].at # "idle" => exec[w].on \in Tasks
        /\ exec[w].at # "releasing" => ~exec[w].doomed
  BY SlotsOfExecutions DEF HostInv, ExecOK, Executions, Settled, Informed
<1>2. ASSUME NEW w \in Workers, Take(w)
      PROVE  Settled'
  <2>1. UNCHANGED <<status, home, lease>>
    BY <1>2, TakingUp
  <2>2. CASE UNCHANGED exec
    BY <2>1, <2>2 DEF Settled, Informed, Doomed
  <2>3. CASE exec' # exec
    <3>1. exec'[w].at = "load" /\ ~exec'[w].doomed /\ Others(w)
      BY <1>2, <2>3, TakingUp
    <3>2. Informed(exec[w])'
      BY <3>1 DEF Informed, Working
    <3>3. "queued" \in Lived
      BY DEF Lived, Status
    <3>4. QED
      BY <2>1, <3>1, <3>2, <3>3, StatusAlone
  <2>4. QED
    BY <2>2, <2>3
<1>3. ASSUME NEW w \in Workers, Attach(w)
      PROVE  Settled'
  <2>1. UNCHANGED <<status, home, lease>>
    BY <1>3, AttachClaims
  <2>2. Claimed(w, "attaching") /\ Others(w) /\ exec[w].at = "await"
    BY <1>3, AttachClaims, TreeOfClaim DEF Filling
  <2>3. Informed(exec[w])'
    BY <1>1, <2>1, <2>2 DEF Claimed, Informed, Working, Doomed
  <2>4. "queued" \in Lived
    BY DEF Lived, Status
  <2>5. QED
    BY <2>1, <2>2, <2>3, <2>4, StatusAlone
<1>4. ASSUME NEW w \in Workers, Allocate(w)
      PROVE  Settled'
  <2>1. PICK e \in Spaces : /\ \A v \in Workers : exec[v].space # e
                            /\ lease' = [lease EXCEPT ![e] = "none"]
    BY <1>4, AllocateClaims
  <2>2. UNCHANGED <<status, home>>
    BY <1>4, AllocateClaims
  <2>3. Claimed(w, "populating") /\ Others(w) /\ exec[w].at = "await"
    BY <1>4, AllocateClaims, TreeOfClaim DEF Filling
  <2>4. Informed(exec[w])'
    BY <1>1, <2>2, <2>3 DEF Claimed, Informed, Working, Doomed
  <2>5. \A v \in Workers \ {w} :
          exec[v].space # None => lease'[exec[v].space] = lease[exec[v].space]
    BY <1>1, <2>1 DEF HostInv, RowsOK, Executions
  <2>6. \A v \in Workers \ {w} : Informed(exec[v])'
    BY <2>2, <2>3, <2>5, OthersInformed
  <2>7. QED
    BY <2>2, <2>4, <2>6 DEF Settled
<1>5. ASSUME NEW w \in Workers, Leave(w), UNCHANGED <<status, home, lease>>
      PROVE  Settled'
  <2>1. exec'[w].at = "idle" /\ ~exec'[w].doomed /\ Others(w)
    BY <1>5, LeavingAll DEF HostInv
  <2>2. Informed(exec[w])'
    BY <2>1 DEF Informed, Working
  <2>3. "queued" \in Lived
    BY DEF Lived, Status
  <2>4. QED
    BY <1>5, <2>1, <2>2, <2>3, StatusAlone
<1>6. ASSUME NEW w \in Workers, Load(w)
      PROVE  Settled'
  <2>1. exec[w].at = "load" /\ exec[w].on \in Tasks
    BY <1>1, <1>6 DEF Load, At
  <2>2. UNCHANGED <<home, lease>>
    BY <1>6 DEF Load
  <2>3. CASE Leave(w) /\ UNCHANGED status
    BY <1>5, <2>2, <2>3
  <2>4. CASE ~(Leave(w) /\ UNCHANGED status)
    <3>1. PICK s, x :
            /\ s = IF status[exec[w].on] = "queued" THEN "provisioning"
                   ELSE status[exec[w].on]
            /\ x = [exec[w] EXCEPT !.at = "await", !.view = s]
            /\ SetStatus(exec[w].on, s) /\ Becomes(w, x)
            /\ status[exec[w].on] \notin Finished
      BY <1>6, <2>4 DEF Load, On
    <3>2. status[exec[w].on] \in Lived
      BY <2>1 DEF Settled
    <3>3. s \in {"provisioning", "running", "cancelling"}
      BY <3>1, <3>2 DEF Lived, Status, Finished
    <3>4. s \in Lived
      BY <3>3 DEF Lived, Status
    <3>5. /\ x.at = "await" /\ x.view = s /\ x.doomed = exec[w].doomed
          /\ x.on = exec[w].on
      BY <1>1, <3>1 DEF Executions
    <3>6. exec'[w] = x /\ Others(w)
      BY <3>1 DEF Becomes, HostInv, ExecOK, Others
    <3>7. Informed(exec[w])'
      <4>1. status'[exec[w].on] = s
        BY <2>1, <3>1 DEF SetStatus, HostInv, RowsOK
      <4>2. QED
        BY <1>1, <2>1, <3>3, <3>5, <3>6, <4>1 DEF Informed, Working, Doomed
    <3>8. SetStatus(exec[w].on, s)
      BY <3>1
    <3>9. QED
      BY <2>2, <3>4, <3>6, <3>7, <3>8, StatusAlone
  <2>5. QED
    BY <2>3, <2>4
<1>7. ASSUME NEW w \in Workers, Furnished(w)
      PROVE  Settled'
  <2>1. exec[w].at \in Filling /\ UNCHANGED <<status, home, lease>>
    BY <1>7 DEF Furnished, At, Filling, table
  <2>2. PICK e, x : x = [exec[w] EXCEPT !.at = "adopt", !.space = e] /\ Becomes(w, x)
    BY <1>7 DEF Furnished
  <2>3. /\ x.at = "adopt" /\ x.view = exec[w].view /\ x.doomed = exec[w].doomed
        /\ x.on = exec[w].on
    BY <1>1, <2>2 DEF Executions
  <2>4. exec'[w] = x /\ Others(w)
    BY <2>2 DEF Becomes, HostInv, ExecOK, Others
  <2>5. Informed(exec[w])'
    BY <1>1, <2>1, <2>3, <2>4 DEF Informed, Working, Filling, Doomed
  <2>6. "queued" \in Lived
    BY DEF Lived, Status
  <2>7. QED
    BY <2>1, <2>4, <2>5, <2>6, StatusAlone
<1>8. ASSUME NEW w \in Workers, Adopt(w)
      PROVE  Settled'
  <2>1. /\ exec[w].at = "adopt" /\ exec[w].on \in Tasks /\ Others(w)
        /\ exec[w].view \in {"provisioning", "running"}
             => home' = [home EXCEPT ![exec[w].on] = exec[w].space]
        /\ exec[w].view \notin {"provisioning", "running"} => UNCHANGED home
        /\ UNCHANGED lease
    BY <1>8, Adopting
  <2>2. exec[w].view \in {"provisioning", "running", "cancelling"}
    BY <1>1, <2>1 DEF Informed, Working
  <2>3. Moved(w, "lease")
    BY <1>8, Moving DEF Adopt, AdoptAs, HostInv
  <2>4. \A t \in Tasks \ {exec[w].on} : home'[t] = home[t]
    BY <2>1 DEF HostInv, RowsOK
  <2>5. home'[exec[w].on] = exec[w].space \/ exec[w].view = "cancelling"
    BY <2>1, <2>2 DEF HostInv, RowsOK
  <2>6. PICK s : /\ s = IF exec[w].view = "provisioning" THEN "running"
                        ELSE status[exec[w].on]
                 /\ SetStatus(exec[w].on, s)
    BY <1>8 DEF Adopt, AdoptAs, On
  <2>7. Informed(exec[w])'
    <3>1. status'[exec[w].on] = s
      BY <2>1, <2>6 DEF SetStatus, HostInv, RowsOK
    <3>2. QED
      BY <1>1, <2>1, <2>2, <2>3, <2>5, <2>6, <3>1
         DEF Moved, Informed, Working, Doomed
  <2>8. s \in Lived
    BY <2>1, <2>6 DEF Settled, Lived, Status
  <2>9. /\ \A t \in Tasks \ {exec[w].on} : status'[t] = status[t]
        /\ \A t \in Tasks : status'[t] \in Lived
    BY <2>6, <2>8 DEF SetStatus, HostInv, RowsOK, Settled
  <2>10. \A v \in Workers \ {w} : Informed(exec[v])'
    BY <2>1, <2>4, <2>9, OthersInformed
  <2>11. QED
    BY <2>7, <2>9, <2>10 DEF Settled
<1>9. ASSUME NEW w \in Workers, MarkBusy(w) \/ MarkStopped(w) \/ MarkReady(w)
      PROVE  Settled'
  <2>1. PICK p, l, q :
          /\ p \in {"lease", "stop", "mark"} /\ Lease(w, p, l, q)
          /\ (p = "lease" /\ l = "busy" /\ q = "run") \/ q = "closing"
    BY <1>9 DEF MarkBusy, MarkStopped, MarkReady
  <2>2. /\ exec[w].at = p /\ UNCHANGED <<status, home>> /\ Goto(w, q)
        /\ lease' = [lease EXCEPT ![exec[w].space] = l]
    BY <2>1 DEF Lease, At, table
  <2>3. exec[w].space \in Spaces
    BY <1>1, <2>1, <2>2 DEF Shaped, Settling, Filling, Executions
  <2>4. /\ lease'[exec[w].space] = l
        /\ \A e \in Spaces \ {exec[w].space} : lease'[e] = lease[e]
    BY <2>2, <2>3 DEF HostInv, RowsOK
  <2>5. \A v \in Workers \ {w} :
          exec[v].space # None => exec[v].space \in Spaces \ {exec[w].space}
    BY <1>1, SpacesApart DEF Executions
  <2>6. Moved(w, q) /\ Others(w)
    BY <2>2, Moving DEF HostInv
  <2>7. \A v \in Workers \ {w} : Informed(exec[v])'
    BY <2>2, <2>4, <2>5, <2>6, OthersInformed
  <2>8. Informed(exec[w])'
    BY <1>1, <2>1, <2>2, <2>4, <2>6 DEF Moved, Informed, Working, Doomed
  <2>9. QED
    BY <2>2, <2>7, <2>8 DEF Settled
<1>10. ASSUME NEW w \in Workers, NEW p \in {"stop", "failed", "cancelled",
                                          "closing", "mark"},
              Goto(w, p) \/ Unclaimed(w, p), exec[w].at # "releasing",
              UNCHANGED <<home, lease>>,
              NEW s \in Lived, SetStatus(exec[w].on, s) \/ UNCHANGED status
       PROVE  Settled'
  <2>1. Moved(w, p) /\ Others(w)
    BY <1>10, Moving DEF HostInv
  <2>2. Informed(exec[w])'
    BY <1>1, <1>10, <2>1 DEF Moved, Informed, Working
  <2>3. QED
    BY <1>10, <2>1, <2>2, StatusAlone
<1>11. ASSUME NEW w \in Workers,
              \/ Complete(w) \/ HandleFailure(w) \/ HandleCancel(w)
       PROVE  Settled'
  <2>1. /\ exec[w].at \in {"run", "failed", "cancelled"}
        /\ UNCHANGED <<home, lease>>
    BY <1>11 DEF Complete, HandleFailure, HandleCancel, At
  <2>2. PICK p \in {"stop", "closing", "mark"} : Goto(w, p)
    BY <1>11 DEF Complete, HandleFailure, HandleCancel
  <2>3. Cancelled(exec[w].on) \in Lived
    BY <1>1, <2>1 DEF Cancelled, Settled, Lived, Status
  <2>4. PICK s \in Lived : SetStatus(exec[w].on, s) \/ UNCHANGED status
    BY <1>11, <2>3 DEF Complete, HandleFailure, HandleCancel, On, Lived, Status
  <2>5. QED
    BY <1>10, <2>1, <2>2, <2>4
<1>12. ASSUME NEW w \in Workers,
              Fail(w) \/ FurnishFails(w) \/ MkdirFails(w) \/ HandlerFails(w)
       PROVE  Settled'
  <2>1. exec[w].at # "releasing" /\ UNCHANGED <<status, home, lease>>
    BY <1>12 DEF Fail, FurnishFails, MkdirFails, HandlerFails, At, Handlers, table
  <2>2. PICK p \in {"failed", "closing"} : Goto(w, p) \/ Unclaimed(w, p)
    BY <1>12 DEF Fail, FurnishFails, Undo, UndoFails, MkdirFails, HandlerFails
  <2>3. "queued" \in Lived
    BY DEF Lived, Status
  <2>4. QED
    BY <1>10, <2>1, <2>2, <2>3
<1>13. ASSUME NEW w \in Workers, Close(w)
       PROVE  Settled'
  <2>1. exec[w].at = "closing" /\ UNCHANGED <<status, home, lease>>
    BY <1>13 DEF Close, At, table
  <2>2. CASE Leave(w)
    BY <1>5, <2>1, <2>2
  <2>3. CASE ~Leave(w)
    <3>1. PICK d, x : /\ d = Doomed(exec[w].on)
                      /\ x = [exec[w] EXCEPT !.at = "releasing", !.doomed = d]
                      /\ Becomes(w, x)
      BY <1>13, <2>3 DEF Close, On
    <3>2. x.at = "releasing" /\ x.on = exec[w].on /\ x.doomed = d
      BY <1>1, <3>1 DEF Executions
    <3>3. exec'[w] = x /\ Others(w)
      BY <3>1 DEF Becomes, HostInv, ExecOK, Others
    <3>4. Informed(exec[w])'
      BY <2>1, <3>1, <3>2, <3>3 DEF Informed, Working, Doomed
    <3>5. "queued" \in Lived
      BY DEF Lived, Status
    <3>6. QED
      BY <2>1, <3>3, <3>4, <3>5, StatusAlone
  <2>4. QED
    BY <2>2, <2>3
<1>14. ASSUME NEW w \in Workers,
              Release(w) \/ CleanupFails(w) \/ ReleaseFails(w)
       PROVE  Settled'
  BY <1>5, <1>14 DEF Release, ReleaseTo, CleanupFails, ReleaseFails, AbandonSlot,
                     table
<1>15. ASSUME NEW w \in Workers, SignalRunning(w)
       PROVE  Settled'
  <2>1. UNCHANGED <<status, home, lease>>
    BY <1>15 DEF SignalRunning
  <2>2. ASSUME NEW p \in {"failed", "cancelled", "closing"},
               Goto(w, p) \/ Unclaimed(w, p),
               exec[w].at # "releasing"
        PROVE  Settled'
    <3>1. "queued" \in Lived
      BY DEF Lived, Status
    <3>2. QED
      BY <1>10, <2>1, <2>2, <3>1
  <2>3. CASE Leave(w)
    BY <1>5, <2>1, <2>3
  <2>4. CASE UNCHANGED exec
    BY <2>1, <2>4 DEF Settled, Informed, Doomed
  <2>5. CASE Interrupt(w) \/ InterruptHandler(w)
    <3>1. exec[w].at # "releasing"
      BY <2>5 DEF Interrupt, InterruptHandler, At, Body, Handlers
    <3>2. PICK p \in {"failed", "cancelled", "closing"} :
            Goto(w, p) \/ Unclaimed(w, p)
      BY <2>5 DEF Interrupt, InterruptHandler, Undo, UndoFails
    <3>3. QED
      BY <2>2, <3>1, <3>2
  <2>6. QED
    BY <1>15, <2>3, <2>4, <2>5
       DEF SignalRunning, InterruptUnborn, InterruptCleanup, AbandonSlot
<1>16. ASSUME RequestStep
       PROVE  Settled'
  <2>1. UNCHANGED <<exec, home, lease>>
    BY <1>16 DEF RequestStep, Retry, Cancel, SignalNobody, vars, table
  <2>2. /\ \A t \in Tasks : status'[t] \in Lived
        /\ \A t \in Tasks : Doomed(t) => status'[t] = status[t]
        /\ \A t \in Tasks : Running(t) /\ ~Doomed(t) => ~Doomed(t)'
    <3>1. CASE UNCHANGED vars
      BY <3>1 DEF vars, table, Settled, Doomed
    <3>2. ASSUME NEW t \in Tasks, Retry(t) \/ Cancel(t) \/ SignalNobody(t)
          PROVE  <2>2!1 /\ <2>2!2 /\ <2>2!3
      <4>1. PICK s : /\ SetStatus(t, s) /\ s \in Lived
                     /\ Doomed(t) => s = status[t]
                     /\ Running(t) => s \in {"queued", "cancelling"}
        <5>1. CASE Retry(t)
          BY <5>1 DEF Retry, Doomed, Lived, Status
        <5>2. CASE Cancel(t)
          BY <5>2 DEF Cancel, Legal, Allowed, Doomed, Lived, Status
        <5>3. CASE SignalNobody(t)
          BY <5>3 DEF SignalNobody, Cancelled, Doomed, Settled, Lived, Status
        <5>4. QED
          BY <3>2, <5>1, <5>2, <5>3
      <4>2. status'[t] = s /\ \A u \in Tasks \ {t} : status'[u] = status[u]
        BY <4>1 DEF SetStatus, HostInv, RowsOK
      <4>3. QED
        BY <4>1, <4>2 DEF Settled, Doomed
    <3>3. QED
      BY <1>16, <3>1, <3>2 DEF RequestStep
  <2>3. \A w \in Workers : exec[w].at # "idle" =>
          exec[w].on \in Tasks /\ Running(exec[w].on)
    BY <1>1 DEF Running, On
  <2>4. \A w \in Workers : exec[w].doomed \/ exec[w].at \in Working
                             => exec[w].at # "idle"
    BY <1>1 DEF Working
  <2>5. \A w \in Workers : Informed(exec[w])'
    BY <1>1, <2>1, <2>2, <2>3, <2>4 DEF Informed, Doomed
  <2>6. QED
    BY <2>2, <2>5 DEF Settled
<1>17. ASSUME Boot
       PROVE  Settled'
  <2>1. \A w \in Workers : exec'[w] = NoExecution
    BY <1>17 DEF Boot, Restart, Relocate, Reboot
  <2>2. \A t \in Tasks : status'[t] \in Lived
    BY <1>17 DEF Boot, Restart, Relocate, Reboot, Cancelled, Settled, Lived, Status
  <2>3. \A w \in Workers : Informed(exec[w])'
    BY <2>1, NobodyThere DEF Informed, Working
  <2>4. QED
    BY <2>2, <2>3 DEF Settled
<1>18. QED
  BY <1>2, <1>3, <1>4, <1>6, <1>7, <1>8, <1>9, <1>11, <1>12, <1>13, <1>14,
     <1>15, <1>16, <1>17, NextCases DEF Onward, Step

-----------------------------------------------------------------------------
(***************************************************************************)
(* What is left of a workspace that was removed in part.                   *)
(***************************************************************************)
\* Where somebody waits for a slot his task has not come to its end.
LEMMA WaitersReturn ==
  ASSUME AgentInv
  PROVE  Returnable
<1> SUFFICES ASSUME NEW w \in Workers, exec[w].at = "await"
             PROVE  home[exec[w].on] \notin litter
  BY DEF Returnable
<1>1. exec[w].on \in Tasks /\ ~Doomed(exec[w].on)
  BY DEF AgentInv, HostInv, ExecOK, Executions, Settled, Informed, Working
<1>2. QED
  BY <1>1 DEF AgentInv, Strewn

\* What was completed or cancelled stays so.
LEMMA EndIsEnd ==
  ASSUME AgentInv, [Next]_vars, NEW t \in Tasks, Doomed(t)
  PROVE  Doomed(t)'
<1> USE DEF Doomed
<1>1. status \in [Tasks -> Status]
  BY DEF AgentInv, HostInv, RowsOK
<1>2. ASSUME NEW w \in Workers,
             \/ Load(w) \/ Adopt(w) \/ Complete(w) \/ HandleFailure(w)
             \/ HandleCancel(w)
      PROVE  Doomed(t)'
  <2>1. exec[w].on \in Tasks
    BY <1>2 DEF AgentInv, HostInv, ExecOK, Executions, Load, Adopt, AdoptAs,
                Complete, HandleFailure, HandleCancel, At
  <2>2. CASE Load(w)
    BY <1>1, <2>2 DEF Load, SetStatus, On, Finished
  <2>3. CASE Adopt(w)
    BY <1>1, <2>1, <2>3 DEF Adopt, AdoptAs, SetStatus, On, Legal, Allowed
  <2>4. CASE Complete(w)
    BY <1>1, <2>1, <2>4 DEF Complete, SetStatus, On
  <2>5. CASE HandleFailure(w)
    BY <1>1, <2>5 DEF HandleFailure, SetStatus, On, Finished
  <2>6. CASE HandleCancel(w)
    BY <1>1, <2>1, <2>6 DEF HandleCancel, SetStatus, On, Cancelled
  <2>7. QED
    BY <1>2, <2>2, <2>3, <2>4, <2>5, <2>6
<1>3. ASSUME NEW w \in Workers,
             \/ Take(w) \/ Attach(w) \/ Allocate(w) \/ Furnished(w)
             \/ FurnishFails(w) \/ MarkBusy(w) \/ MarkStopped(w) \/ MarkReady(w)
             \/ Fail(w) \/ Close(w) \/ Release(w) \/ MkdirFails(w)
             \/ HandlerFails(w) \/ CleanupFails(w) \/ ReleaseFails(w)
             \/ SignalRunning(w)
      PROVE  Doomed(t)'
  <2>1. UNCHANGED status
    BY <1>3 DEF Take, Attach, Allocate, Furnished, FurnishFails, MarkBusy,
                MarkStopped, MarkReady, Lease, Fail, Close, Release, ReleaseTo,
                MkdirFails, HandlerFails, CleanupFails, ReleaseFails,
                SignalRunning, table
  <2>2. QED
    BY <2>1
<1>4. ASSUME NEW u \in Tasks, Retry(u) \/ Cancel(u) \/ SignalNobody(u)
      PROVE  Doomed(t)'
  BY <1>1, <1>4 DEF Retry, Cancel, SignalNobody, SetStatus, Cancelled, Legal,
                    Allowed
<1>5. CASE Restart \/ Relocate
  BY <1>5 DEF Restart, Relocate, Reboot, Cancelled
<1>6. CASE UNCHANGED vars
  BY <1>6 DEF vars, table
<1>7. QED
  BY <1>2, <1>3, <1>4, <1>5, <1>6 DEF Next, Enter, Step

\* No task leads to what becomes litter, but one that has come to its end.
LEMMA NewLitter ==
  ASSUME AgentInv, [Next]_vars, NEW e \in litter' \ litter, NEW t \in Tasks,
         home[t] = e
  PROVE  Doomed(t)
<1> USE DEF AgentInv
<1>1. ASSUME NEW w \in Workers, NEW p, exec[w].at \in Filling, Undo(w, p)
      PROVE  Doomed(t)
  <2>1. /\ InSlot(w) \in Spaces \ litter /\ place[InSlot(w)] = exec[w].slot
        /\ exec[w].slot # None
    BY <1>1, SlotsOfExecutions, TreeInSlot DEF HostInv, Shaped
  <2>2. e = InSlot(w) /\ exec[w].at = "populating"
    BY <1>1 DEF Undo, Withdrawn, Removed, At, Filling
  <2>3. e \in Tree(w)
    BY <2>1, <2>2 DEF Tree
  <2>4. QED
    BY <2>2, <2>3 DEF Owned
<1>2. ASSUME NEW w \in Workers, Release(w)
      PROVE  Doomed(t)
  <2>1. /\ Shaped(exec[w]) /\ Informed(exec[w]) /\ exec[w].at = "releasing"
        /\ exec[w] \in Executions
    BY <1>2, SlotsOfExecutions DEF HostInv, Settled, Release, ReleaseTo, At
  <2>2. e = exec[w].space /\ exec[w].doomed
    BY <1>2 DEF Release, ReleaseTo, Removed
  <2>3. e \in Tree(w) /\ Doomed(exec[w].on)
    BY <2>1, <2>2 DEF Shaped, Settling, Filling, Tree, Executions, Informed
  <2>4. e # None
    BY <2>3, NoneAssumption DEF Tree
  <2>5. made[e] = exec[w].on /\ made[e] = t
    BY <2>3, <2>4 DEF Owned
  <2>6. QED
    BY <2>3, <2>5
<1>3. ~ (litter' \subseteq litter)
  OBVIOUS
<1>4. ASSUME NEW w \in Workers,
             \/ Take(w) \/ Attach(w) \/ Allocate(w) \/ Load(w) \/ Furnished(w)
             \/ Adopt(w) \/ MarkBusy(w) \/ Complete(w) \/ MarkStopped(w)
             \/ Fail(w) \/ HandleFailure(w) \/ MarkReady(w) \/ HandleCancel(w)
             \/ Close(w) \/ MkdirFails(w) \/ HandlerFails(w) \/ CleanupFails(w)
             \/ ReleaseFails(w)
      PROVE  FALSE
  BY <1>3, <1>4 DEF Take, Attach, Allocate, Load, Furnished, Adopt, AdoptAs,
                    MarkBusy, Complete, MarkStopped, Lease, Fail, HandleFailure,
                    MarkReady, HandleCancel, Close, MkdirFails, HandlerFails,
                    CleanupFails, ReleaseFails, AbandonSlot, host
<1>5. ASSUME NEW w \in Workers, FurnishFails(w) \/ SignalRunning(w)
      PROVE  Doomed(t)
  <2>1. CASE FurnishFails(w)
    BY <1>1, <1>3, <2>1 DEF FurnishFails, UndoFails, At, Filling
  <2>2. CASE SignalRunning(w)
    BY <1>1, <1>3, <2>2
       DEF SignalRunning, Interrupt, InterruptUnborn, InterruptHandler,
           InterruptCleanup, AbandonSlot, Untouched, UndoFails, At, Filling
  <2>3. QED
    BY <1>5, <2>1, <2>2
<1>6. ~ (RequestStep \/ Boot)
  BY <1>3 DEF RequestStep, Boot, Retry, Cancel, SignalNobody, Restart, Relocate,
              vars, host
<1>7. QED
  BY <1>2, <1>4, <1>5, <1>6 DEF Next, Enter, Step, RequestStep, Boot

LEMMA StrewnStep ==
  ASSUME AgentInv, [Next]_vars
  PROVE  Strewn'
<1>1. SUFFICES ASSUME NEW e \in litter', NEW t \in Tasks, home'[t] = e
               PROVE  Doomed(t)'
  BY DEF Strewn
<1>2. CASE home[t] = e
  <2>1. Doomed(t)
    BY <1>2, NewLitter DEF AgentInv, Strewn
  <2>2. QED
    BY <2>1, EndIsEnd
<1>3. CASE home[t] # e
  <2>1. PICK w \in Workers : Adopt(w)
    <3>1. ASSUME NEW w \in Workers, Take(w)
          PROVE  FALSE
      BY <1>1, <1>3, <3>1, TakingUp DEF AgentInv
    <3>2. ASSUME NEW w \in Workers, Attach(w) \/ Allocate(w)
          PROVE  FALSE
      BY <1>1, <1>3, <3>2 DEF Attach, Allocate, table
    <3>3. QED
      BY <1>1, <1>3, <3>1, <3>2, NextCases, OnwardKeepsRows
  <2>2. /\ exec[w].space \in Tree(w) /\ UNCHANGED litter
        /\ home'[t] \in {home[t], exec[w].space}
    BY <2>1, Adopting DEF AgentInv, HostInv, RowsOK
  <2>3. QED
    BY <1>1, <1>3, <2>2 DEF Tree
<1>4. QED
  BY <1>2, <1>3

LEMMA AgentInvariant == Spec => []AgentInv
<1>1. Init => AgentInv
  <2> SUFFICES ASSUME Init PROVE AgentInv
    OBVIOUS
  <2>1. \A w \in Workers : exec[w] = NoExecution
    BY DEF Init
  <2>2. OneRun
    BY <2>1, NobodyThere DEF OneRun
  <2>3. Owned
    BY <2>1, NobodyThere DEF Owned, Tree, Init
  <2>4. Settled
    BY <2>1, NobodyThere DEF Settled, Informed, Working, Init, Lived, Status
  <2>5. Strewn
    BY DEF Strewn, Init
  <2>6. QED
    BY <2>2, <2>3, <2>4, <2>5, HostInit DEF AgentInv
<1>2. AgentInv /\ [Next]_vars => AgentInv'
  BY WaitersReturn, HostStep, RowsStep, RunStep, OwnedStep, SettledStep, StrewnStep
     DEF AgentInv, HostInv
<1>3. QED
  BY <1>1, <1>2, PTL DEF Spec

(***************************************************************************)
(* Rows, executions, places and leases keep their types, and whoever is    *)
(* not idle works for a task (orchestrator.py, workspace.py).              *)
(***************************************************************************)
THEOREM EnvTypeCorrect == Spec => []EnvTypeOK
<1>1. AgentInv => EnvTypeOK
  BY DEF AgentInv, HostInv, ExecOK, HostOK, RowsOK, EnvTypeOK
<1>2. QED
  BY <1>1, AgentInvariant, PTL

(***************************************************************************)
(* Whatever fails, is cancelled or restarts, every slot is in the pool     *)
(* once, with one execution, or lost at one of the five points where the   *)
(* code loses it: a mkdir, a move back or a move to workspace_root that    *)
(* raises, or a clean-up that is hit before the slot is put back           *)
(* (workspace.py:355-424, orchestrator.py:413-431).                        *)
(***************************************************************************)
THEOREM SlotsConserved == Spec => []SlotsAccounted
<1>1. AgentInv => SlotsAccounted
  BY DEF AgentInv, HostInv, HostOK
<1>2. QED
  BY <1>1, AgentInvariant, PTL

(***************************************************************************)
(* Of the trees that can still be taken up a container sees the one of its *)
(* own task and no other, and a free one sees none; whatever an incomplete *)
(* removal leaves in a slot belongs to no task that could come back to it  *)
(* (workspace.py:366-370, 381-424).                                        *)
(***************************************************************************)
THEOREM TreesAreSeparate == Spec => []OneTreePerSlot
<1>1. AgentInv => OneTreePerSlot
  BY DEF AgentInv, HostInv, HostOK, Separate, Strewn, Doomed, OneTreePerSlot
<1>2. QED
  BY <1>1, AgentInvariant, PTL

(***************************************************************************)
(* An agent works in the slot of its execution, on a whole workspace made  *)
(* for its task, which the rows of the lease and the task name             *)
(* (orchestrator.py:292-330).                                              *)
(***************************************************************************)
THEOREM AgentsAreAtHome == Spec => []AgentIsAtHome
<1>1. AgentInv => AgentIsAtHome
  <2>1. SUFFICES ASSUME AgentInv, NEW w \in Workers, exec[w].at = "run"
                 PROVE  LET e == exec[w].space IN
                        /\ place[e] = exec[w].slot /\ exec[w].slot \in Slots
                        /\ e \notin litter
                        /\ made[e] = exec[w].on
                        /\ lease[e] = "busy"
                        /\ home[exec[w].on] = e \/ exec[w].view = "cancelling"
    BY DEF AgentIsAtHome, At, On
  <2>2. /\ Shaped(exec[w]) /\ Informed(exec[w]) /\ exec[w] \in Executions
        /\ exec[w].slot # None => exec[w].slot \in Slots
    BY <2>1, SlotsOfExecutions DEF AgentInv, HostInv, Settled
  <2>3. exec[w].slot \in Slots /\ exec[w].space \in Tree(w)
    BY <2>1, <2>2 DEF Shaped, Settling, Filling, Tree, Executions
  <2>4. QED
    BY <2>1, <2>2, <2>3 DEF Informed, Tree, AgentInv, Owned
<1>2. QED
  BY <1>1, AgentInvariant, PTL

(***************************************************************************)
(* A saved or used workspace that a task is to come back to is destroyed   *)
(* only when the task has completed or been cancelled, or with its host    *)
(* (orchestrator.py:421-431, workspace.py:399-424).                        *)
(***************************************************************************)
THEOREM WorkSurvives == Spec => WorkIsKept
<1> DEFINE Kept == \A t \in Tasks :
                     home[t] # None =>
                       LET e == home[t] IN
                       place[e] # "gone" /\ place'[e] = "gone" =>
                         status[t] \in {"completed", "cancelled"} \/ Relocate
<1>1. ASSUME AgentInv, Next
      PROVE  Kept
  <2>1. SUFFICES ASSUME NEW t \in Tasks, NEW e \in Spaces, home[t] = e,
                        place[e] # "gone", place'[e] = "gone", ~Relocate
                 PROVE  Doomed(t)
    BY <1>1 DEF AgentInv, HostInv, RowsOK, Doomed
  <2>2. place' # place
    BY <2>1
  <2>3. place \in [Spaces -> Slots \cup {"saved", "gone"}] /\ "gone" \notin Slots
    BY <1>1, PlacesAssumption DEF AgentInv, HostInv, HostOK
  <2>4. ~\E w \in Workers : Take(w) \/ Attach(w) \/ Allocate(w)
    <3>1. ASSUME NEW w \in Workers, Attach(w) \/ Allocate(w)
          PROVE  FALSE
      <4>1. PICK f \in Spaces : place' = [place EXCEPT ![f] = Head(pool)]
        BY <1>1, <3>1, WaitersReturn, AttachClaims, AllocateClaims DEF AgentInv
      <4>2. pool # <<>> /\ pool \in Seq(Slots) /\ IsInjective(pool)
        BY <1>1, <3>1 DEF Attach, Allocate, Claim, AgentInv, HostInv, HostOK,
                          SlotsAccounted
      <4>3. Head(pool) \in Slots
        BY <4>2, TailOfPool
      <4>4. QED
        BY <2>1, <2>3, <4>1, <4>3
    <3>2. ASSUME NEW w \in Workers, Take(w)
          PROVE  FALSE
      BY <2>2, <3>2 DEF Take, host
    <3>3. QED
      BY <3>1, <3>2
  <2>5. ASSUME NEW w \in Workers, NEW p, exec[w].at \in Filling, Undo(w, p)
        PROVE  FALSE
    <3>1. /\ InSlot(w) \in Spaces \ litter /\ place[InSlot(w)] = exec[w].slot
          /\ exec[w].slot # None
      BY <1>1, <2>5, SlotsOfExecutions, TreeInSlot DEF AgentInv, HostInv, Shaped
    <3>2. \/ UNCHANGED place
          \/ place' = [place EXCEPT ![InSlot(w)] =
                          IF exec[w].at = "attaching" THEN "saved" ELSE "gone"]
      BY <2>5 DEF Undo, Withdrawn, Removed, At
    <3>3. e = InSlot(w) /\ exec[w].at = "populating"
      BY <2>1, <2>3, <2>5, <3>1, <3>2 DEF Filling
    <3>4. e \in Tree(w)
      BY <3>1, <3>3 DEF Tree
    <3>5. QED
      BY <1>1, <2>1, <3>3, <3>4 DEF AgentInv, Owned
  <2>6. ASSUME NEW w \in Workers, Release(w)
        PROVE  Doomed(t)
    <3>1. /\ Shaped(exec[w]) /\ Informed(exec[w]) /\ exec[w].at = "releasing"
          /\ exec[w] \in Executions
      BY <1>1, <2>6, SlotsOfExecutions
         DEF AgentInv, HostInv, Settled, Release, ReleaseTo, At
    <3>2. \/ UNCHANGED place
          \/ place' = [place EXCEPT ![exec[w].space] =
                          IF exec[w].doomed THEN "gone" ELSE "saved"]
      BY <2>6 DEF Release, ReleaseTo, Removed
    <3>3. e = exec[w].space /\ exec[w].doomed
      BY <2>1, <2>3, <3>2
    <3>4. e \in Tree(w) /\ Doomed(exec[w].on)
      BY <3>1, <3>3 DEF Shaped, Settling, Filling, Tree, Executions, Informed
    <3>5. made[e] = exec[w].on /\ made[e] = t
      BY <1>1, <2>1, <3>4, NoneAssumption DEF AgentInv, Owned
    <3>6. QED
      BY <3>4, <3>5
  <2>7. ASSUME NEW w \in Workers,
               \/ Load(w) \/ Furnished(w) \/ Adopt(w) \/ MarkBusy(w)
               \/ Complete(w) \/ MarkStopped(w) \/ Fail(w) \/ HandleFailure(w)
               \/ MarkReady(w) \/ HandleCancel(w) \/ Close(w)
               \/ MkdirFails(w) \/ HandlerFails(w) \/ CleanupFails(w)
               \/ ReleaseFails(w)
        PROVE  FALSE
    BY <2>2, <2>7 DEF Load, Furnished, Adopt, AdoptAs, MarkBusy, Complete,
                      MarkStopped, Lease, Fail, HandleFailure, MarkReady,
                      HandleCancel, Close, MkdirFails, HandlerFails,
                      CleanupFails, ReleaseFails, AbandonSlot, host
  <2>8. ASSUME NEW w \in Workers, FurnishFails(w) \/ SignalRunning(w)
        PROVE  FALSE
    <3>1. CASE FurnishFails(w)
      BY <2>2, <2>5, <3>1 DEF FurnishFails, UndoFails, At, Filling
    <3>2. CASE SignalRunning(w)
      BY <2>2, <2>5, <3>2
         DEF SignalRunning, Interrupt, InterruptUnborn, InterruptHandler,
             InterruptCleanup, AbandonSlot, Untouched, UndoFails, At, Filling
    <3>3. QED
      BY <2>8, <3>1, <3>2
  <2>9. ~Restart
    BY <2>1, <2>3 DEF Restart
  <2>10. ~\E u \in Tasks : Retry(u) \/ Cancel(u) \/ SignalNobody(u)
    BY <2>2 DEF Retry, Cancel, SignalNobody, host
  <2>11. QED
    BY <1>1, <2>1, <2>4, <2>6, <2>7, <2>8, <2>9, <2>10 DEF Next, Enter, Step
<1>2. AgentInv /\ [Next]_vars => [Kept]_vars
  BY <1>1
<1>3. QED
  BY <1>2, AgentInvariant, PTL DEF Spec, WorkIsKept
=============================================================================
