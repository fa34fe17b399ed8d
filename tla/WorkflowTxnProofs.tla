-------------------------- MODULE WorkflowTxnProofs --------------------------
(***************************************************************************)
(* Proofs about WorkflowTxn and WorkflowEvents: what any number of         *)
(* overlapping requests keep, for every finite set of nodes and every      *)
(* definition.                                                             *)
(***************************************************************************)
EXTENDS WorkflowEvents, FiniteSetTheorems, InductionLemmas

-----------------------------------------------------------------------------
(* Sequences of nodes and of events.                                       *)

\* An order of a finite set is a sequence over it.
LEMMA OrdersAreSeqs ==
  ASSUME NEW S, IsFiniteSet(S), NEW q \in SetToSeqs(S)
  PROVE  q \in Seq(S)
<1>1. Cardinality(S) \in Nat
  BY FS_CardinalityType
<1>2. QED
  BY <1>1 DEF SetToSeqs

\* A single node has one order.
LEMMA OrderOfOne ==
  ASSUME NEW n, NEW q \in SetToSeqs({n})
  PROVE  q = <<n>>
<1>1. Cardinality({n}) = 1
  BY FS_Singleton
<1>2. QED
  BY <1>1 DEF SetToSeqs

\* The rest of a sequence names nothing new.
LEMMA QueueTail ==
  ASSUME NEW S, NEW q \in Seq(S), q # <<>>
  PROVE  /\ Tail(q) \in Seq(S) /\ ToSet(Tail(q)) \subseteq ToSet(q)
         /\ Tail(q) = <<>> <=> Len(q) = 1
<1>1. /\ Tail(q) \in Seq(S) /\ Len(q) \in Nat /\ Len(q) # 0 /\ Len(Tail(q)) = Len(q) - 1
      /\ \A i \in 1..Len(q) - 1 : Tail(q)[i] = q[i + 1]
  OBVIOUS
<1>2. ToSet(Tail(q)) \subseteq ToSet(q)
  <2>1. DOMAIN Tail(q) = 1..Len(q) - 1 /\ DOMAIN q = 1..Len(q)
    BY <1>1
  <2>2. \A i \in 1..Len(q) - 1 : i + 1 \in 1..Len(q)
    BY <1>1
  <2>3. QED
    BY <1>1, <2>1, <2>2 DEF ToSet
<1>3. Tail(q) = <<>> <=> Len(q) = 1
  BY <1>1, SMTT(30)
<1>4. QED
  BY <1>1, <1>2, <1>3

Distinct(q) == \A i, j \in 1..Len(q) : i # j => q[i] # q[j]

\* An order of a finite set names each of its members, and names it once.
LEMMA OrderIsComplete ==
  ASSUME NEW S, IsFiniteSet(S), NEW q \in SetToSeqs(S)
  PROVE  Distinct(q) /\ ToSet(q) = S
<1> DEFINE D == 1..Cardinality(S)
<1>1. /\ Cardinality(S) \in Nat /\ q \in [D -> S]
      /\ \A i, j \in D : i # j => q[i] # q[j]
  BY FS_CardinalityType DEF SetToSeqs
<1>2. q \in Seq(S) /\ Len(q) = Cardinality(S) /\ DOMAIN q = D
  BY <1>1
<1>3. Distinct(q)
  BY <1>1, <1>2 DEF Distinct
<1>4. q \in Injection(D, S)
  BY <1>1 DEF Injection, IsInjective
<1>5. IsFiniteSet(D) /\ Cardinality(D) = Cardinality(S)
  BY <1>1, FS_Interval
<1>6. q \in Surjection(D, S)
  BY <1>4, <1>5, FS_Injection
<1>7. \A x \in S : \E i \in D : q[i] = x
  BY <1>6 DEF Surjection
<1>8. QED
  BY <1>1, <1>2, <1>3, <1>7 DEF ToSet

\* Taking off the first node leaves the others.
LEMMA DistinctTail ==
  ASSUME NEW S, NEW q \in Seq(S), q # <<>>, Distinct(q)
  PROVE  /\ Distinct(Tail(q)) /\ Head(q) \in ToSet(q)
         /\ ToSet(Tail(q)) = ToSet(q) \ {Head(q)}
<1>1. /\ Tail(q) \in Seq(S) /\ Len(q) \in Nat /\ Len(q) # 0 /\ Len(Tail(q)) = Len(q) - 1
      /\ \A i \in 1..Len(q) - 1 : Tail(q)[i] = q[i + 1]
      /\ Head(q) = q[1] /\ DOMAIN q = 1..Len(q) /\ DOMAIN Tail(q) = 1..Len(q) - 1
  OBVIOUS
<1> DEFINE rest == Tail(q)
<1> HIDE DEF rest
<1>2. Distinct(rest)
  BY <1>1 DEF Distinct, rest
<1>3. \A x \in ToSet(rest) : x \in ToSet(q) /\ x # Head(q)
  BY <1>1 DEF Distinct, ToSet, rest
<1>4. \A x \in ToSet(q) : x # Head(q) => x \in ToSet(rest)
  <2>1. SUFFICES ASSUME NEW i \in 1..Len(q), q[i] # q[1]  PROVE q[i] \in ToSet(rest)
    BY <1>1 DEF ToSet
  <2>2. i - 1 \in 1..Len(q) - 1 /\ rest[i - 1] = q[i]
    BY <1>1, <2>1 DEF rest
  <2>3. QED
    BY <1>1, <2>2 DEF ToSet, rest
<1>5. Head(q) \in ToSet(q)
  BY <1>1 DEF ToSet
<1>6. QED
  BY <1>2, <1>3, <1>4, <1>5 DEF rest

-----------------------------------------------------------------------------
(* Rows and transitions.                                                   *)

\* The transitions runs.py writes: each has the event and the decision that
\* belong to its status.
Coherent == {Moves("ready", "node.ready"), Moves("completed", "node.completed"),
             Moves("failed", "node.failed"), Moves("skipped", "node.skipped"),
             [new_status |-> "completed", event_type |-> "gate.approved",
              gate_decision |-> "approved"],
             [new_status |-> "failed", event_type |-> "gate.rejected",
              gate_decision |-> "rejected"]}

\* The event of a node that was written last gives its status.
RowReplays(def, rows, n) == rows.node[n] = ReplayedStatus(def, rows, n)

\* The rows after one transition.
Moved(rows, n, move) == ApplyTransitions(rows, [m \in {n} |-> move])

LEMMA WriteFields ==
  ASSUME NEW rows \in Rows, NEW n \in Node, NEW move \in Coherent
  PROVE  LET new == Moved(rows, n, move) IN
         /\ new \in Rows
         /\ new.run = rows.run /\ new.completed_at = rows.completed_at
         /\ new.run_log = rows.run_log
         /\ new.node[n] = move.new_status
         /\ new.node_log[n] = Append(rows.node_log[n], move.event_type)
         /\ new.decision[n] = IF move.gate_decision = "none" THEN rows.decision[n]
                              ELSE move.gate_decision
         /\ \A m \in Node \ {n} : /\ new.node[m] = rows.node[m]
                                  /\ new.decision[m] = rows.decision[m]
                                  /\ new.node_log[m] = rows.node_log[m]
<1> DEFINE batch == [m \in {n} |-> move]  new == Moved(rows, n, move)
           node == [m \in Node |-> IF m = n THEN move.new_status ELSE rows.node[m]]
           decision == [m \in Node |-> IF m = n /\ move.gate_decision # "none"
                                       THEN move.gate_decision ELSE rows.decision[m]]
           log == [m \in Node |-> IF m = n THEN Append(rows.node_log[m], move.event_type)
                                           ELSE rows.node_log[m]]
<1>1. DOMAIN batch = {n} /\ batch[n] = move
  OBVIOUS
<1> HIDE DEF batch
<1>2. new = [rows EXCEPT !.node = node, !.decision = decision, !.node_log = log]
  BY <1>1 DEF Moved, ApplyTransitions, batch
<1> HIDE DEF new
<1>3. move.new_status \in NodeStatus /\ move.event_type \in NodeEvent
      /\ move.gate_decision \in GateDecision
  BY DEF Coherent, Moves, NodeStatus, NodeEvent, GateDecision
<1>4. /\ node \in [Node -> NodeStatus] /\ decision \in [Node -> GateDecision]
      /\ log \in [Node -> Seq(NodeEvent)]
  BY <1>3 DEF Rows
<1> HIDE DEF node, decision, log
<1>5. /\ new \in Rows
      /\ new.run = rows.run /\ new.completed_at = rows.completed_at
      /\ new.run_log = rows.run_log
      /\ new.node = node /\ new.decision = decision /\ new.node_log = log
  BY <1>2, <1>4 DEF Rows
<1>6. QED
  BY <1>5 DEF node, decision, log, new

\* The written row replays, because the transition is coherent.
LEMMA WriteReplays ==
  ASSUME NEW def, NEW rows \in Rows, NEW n \in Node, NEW move \in Coherent,
         NEW k \in Node, RowReplays(def, rows, k)
  PROVE  RowReplays(def, Moved(rows, n, move), k)
<1> DEFINE new == Moved(rows, n, move)
<1>1. /\ new.node[n] = move.new_status
      /\ new.node_log[n] = Append(rows.node_log[n], move.event_type)
      /\ \A m \in Node \ {n} : /\ new.node[m] = rows.node[m]
                               /\ new.node_log[m] = rows.node_log[m]
  BY WriteFields
<1> HIDE DEF new
<1>2. CASE k # n
  BY <1>1, <1>2 DEF new, RowReplays, ReplayedStatus
<1>3. CASE k = n
  <2>1. rows.node_log[n] \in Seq(NodeEvent) /\ move.event_type \in NodeEvent
    BY DEF Rows, Coherent, Moves, NodeEvent
  <2> DEFINE log == rows.node_log[n]  event == move.event_type
  <2>2. /\ Append(log, event) # <<>>
        /\ Append(log, event)[Len(Append(log, event))] = event
    BY <2>1
  <2>3. ReplayedStatus(def, new, n) = StatusAfter(event)
    BY <1>1, <2>2 DEF ReplayedStatus
  <2>4. move.new_status = StatusAfter(event)
    BY DEF Coherent, Moves, StatusAfter
  <2>5. QED
    BY <1>1, <1>3, <2>3, <2>4 DEF new, RowReplays
<1>4. QED
  BY <1>2, <1>3 DEF new

\* A transition adds its event and no other.
LEMMA WriteLogs ==
  ASSUME NEW rows \in Rows, NEW n \in Node, NEW move \in Coherent,
         NEW k \in Node, NEW event
  PROVE  Logged(Moved(rows, n, move), k, event) <=>
            Logged(rows, k, event) \/ (k = n /\ event = move.event_type)
<1> DEFINE new == Moved(rows, n, move)
<1>1. /\ new.node_log[n] = Append(rows.node_log[n], move.event_type)
      /\ \A m \in Node \ {n} : new.node_log[m] = rows.node_log[m]
  BY WriteFields
<1> HIDE DEF new
<1>2. CASE k # n
  BY <1>1, <1>2 DEF new, Logged
<1>3. CASE k = n
  <2> DEFINE log == rows.node_log[n]
  <2>1. /\ Len(log) \in Nat
        /\ Len(Append(log, move.event_type)) = Len(log) + 1
        /\ Append(log, move.event_type)[Len(log) + 1] = move.event_type
        /\ \A i \in 1..Len(log) : Append(log, move.event_type)[i] = log[i]
    <3>1. log \in Seq(NodeEvent) /\ move.event_type \in NodeEvent
      BY DEF Rows, Coherent, Moves, NodeEvent
    <3>2. QED
      BY <3>1
  <2> DEFINE longer == Append(log, move.event_type)
  <2> HIDE DEF log, longer
  <2>2. (\E i \in 1..Len(longer) : longer[i] = event) <=>
           (\E i \in 1..Len(log) : log[i] = event) \/ event = move.event_type
    BY <2>1 DEF longer
  <2>3. QED
    BY <1>1, <1>3, <2>2 DEF new, Logged, longer, log
<1>4. QED
  BY <1>2, <1>3 DEF new

-----------------------------------------------------------------------------
(* Transactions.                                                           *)

PC == {"idle", "dispatch", "advance", "write", "cancel", "finalize", "force_failed",
       "update_run", "commit"}

Batches == UNION {[S -> Coherent] : S \in SUBSET Node}

Txn == [pc : PC, mine : Rows, holds : SUBSET Node, holdsRun : BOOLEAN, batch : Batches,
        queue : Seq(Node), next : {"idle", "dispatch", "advance", "finalize", "force_failed"},
        dispatched : BOOLEAN, iteration : Nat, status : RunStatus \cup {"absent"}]

\* What transaction t sees where the rows of base are committed.
Seen(base, t) == Overlay(base, t.mine, t.holds, t.holdsRun)

LEMMA NoRowsType == NoRows \in Rows
BY DEF NoRows, Rows, NodeStatus, GateDecision

LEMMA NoTxnType == NoTxn \in Txn
<1>1. <<>> \in Batches
  <2>1. <<>> \in [{} -> Coherent]
    OBVIOUS
  <2>2. QED
    BY <2>1 DEF Batches
<1>2. QED
  BY <1>1, NoRowsType DEF NoTxn, Txn, PC

LEMMA OverlayFields ==
  ASSUME NEW base \in Rows, NEW over \in Rows, NEW nodes, NEW run \in BOOLEAN
  PROVE  LET r == Overlay(base, over, nodes, run) IN
         /\ r \in Rows
         /\ r.run = IF run THEN over.run ELSE base.run
         /\ r.completed_at = IF run THEN over.completed_at ELSE base.completed_at
         /\ r.run_log = IF run THEN over.run_log ELSE base.run_log
         /\ \A n \in Node :
               /\ r.node[n] = IF n \in nodes THEN over.node[n] ELSE base.node[n]
               /\ r.decision[n] = IF n \in nodes THEN over.decision[n] ELSE base.decision[n]
               /\ r.node_log[n] = IF n \in nodes THEN over.node_log[n] ELSE base.node_log[n]
BY DEF Overlay, Rows

\* What a transaction sees is a set of rows.
LEMMA SeenFields ==
  ASSUME NEW base \in Rows, NEW t \in Txn
  PROVE  /\ Seen(base, t) \in Rows
         /\ Seen(base, t).run = IF t.holdsRun THEN t.mine.run ELSE base.run
         /\ Seen(base, t).completed_at =
               IF t.holdsRun THEN t.mine.completed_at ELSE base.completed_at
         /\ Seen(base, t).run_log = IF t.holdsRun THEN t.mine.run_log ELSE base.run_log
         /\ \A n \in Node :
               IF n \in t.holds
               THEN /\ Seen(base, t).node[n] = t.mine.node[n]
                    /\ Seen(base, t).decision[n] = t.mine.decision[n]
                    /\ Seen(base, t).node_log[n] = t.mine.node_log[n]
               ELSE /\ Seen(base, t).node[n] = base.node[n]
                    /\ Seen(base, t).decision[n] = base.decision[n]
                    /\ Seen(base, t).node_log[n] = base.node_log[n]
<1>1. t.mine \in Rows /\ t.holdsRun \in BOOLEAN
  BY DEF Txn
<1>2. QED
  BY <1>1, OverlayFields DEF Seen

\* Rows are equal when their fields are.
LEMMA RowsEqual ==
  ASSUME NEW r \in Rows, NEW q \in Rows, r.run = q.run, r.completed_at = q.completed_at,
         r.run_log = q.run_log,
         \A n \in Node : /\ r.node[n] = q.node[n]
                         /\ r.decision[n] = q.decision[n]
                         /\ r.node_log[n] = q.node_log[n]
  PROVE  r = q
<1>1. r.node = q.node /\ r.decision = q.decision /\ r.node_log = q.node_log
  BY DEF Rows
<1>2. \A x \in Rows : x = [run |-> x.run, completed_at |-> x.completed_at, node |-> x.node,
                           decision |-> x.decision, node_log |-> x.node_log,
                           run_log |-> x.run_log]
  BY DEF Rows
<1>3. QED
  BY <1>1, <1>2, Zenon

\* A transaction sees what it has written, if it holds what it has changed.
Owned(base, rows, nodes, run) ==
    /\ rows \in Rows /\ nodes \in SUBSET Node /\ run \in BOOLEAN
    /\ ~run => /\ rows.run = base.run /\ rows.completed_at = base.completed_at
               /\ rows.run_log = base.run_log
    /\ \A n \in Node \ nodes : /\ rows.node[n] = base.node[n]
                               /\ rows.decision[n] = base.decision[n]
                               /\ rows.node_log[n] = base.node_log[n]

LEMMA SeenWritten ==
  ASSUME NEW base \in Rows, NEW rows, NEW nodes, NEW run, Owned(base, rows, nodes, run)
  PROVE  /\ Overlay(NoRows, rows, nodes, run) \in Rows
         /\ Overlay(base, Overlay(NoRows, rows, nodes, run), nodes, run) = rows
<1> DEFINE mine == Overlay(NoRows, rows, nodes, run)
           seen == Overlay(base, mine, nodes, run)
<1>1. rows \in Rows /\ run \in BOOLEAN
  BY DEF Owned
<1>2. /\ mine \in Rows
      /\ run => mine.run = rows.run /\ mine.completed_at = rows.completed_at
                /\ mine.run_log = rows.run_log
      /\ \A n \in Node : n \in nodes =>
            /\ mine.node[n] = rows.node[n]
            /\ mine.decision[n] = rows.decision[n]
            /\ mine.node_log[n] = rows.node_log[n]
  BY <1>1, NoRowsType, OverlayFields
<1> HIDE DEF mine
<1>3. /\ seen \in Rows
      /\ seen.run = IF run THEN mine.run ELSE base.run
      /\ seen.completed_at = IF run THEN mine.completed_at ELSE base.completed_at
      /\ seen.run_log = IF run THEN mine.run_log ELSE base.run_log
      /\ \A n \in Node :
            /\ seen.node[n] = IF n \in nodes THEN mine.node[n] ELSE base.node[n]
            /\ seen.decision[n] = IF n \in nodes THEN mine.decision[n] ELSE base.decision[n]
            /\ seen.node_log[n] = IF n \in nodes THEN mine.node_log[n] ELSE base.node_log[n]
  BY <1>1, <1>2, OverlayFields
<1> HIDE DEF seen
<1>4. seen = rows
  <2>1. /\ seen.run = rows.run /\ seen.completed_at = rows.completed_at
        /\ seen.run_log = rows.run_log
    BY <1>2, <1>3 DEF Owned
  <2>2. \A n \in Node : /\ seen.node[n] = rows.node[n]
                        /\ seen.decision[n] = rows.decision[n]
                        /\ seen.node_log[n] = rows.node_log[n]
    BY <1>2, <1>3 DEF Owned
  <2>3. QED
    BY <1>1, <1>3, <2>1, <2>2, RowsEqual
<1>5. QED
  BY <1>2, <1>4 DEF mine, seen

\* The events of rows bear out what was done.
Shown(r, events, n) == \E event \in events : Logged(r, n, event)

RunLogged(r, event) == \E i \in 1..Len(r.run_log) : r.run_log[i] = event

AllComplete(r) == \A n \in Node : Shown(r, Completing, n)
SomeFailed(r)  == \E n \in Node : Shown(r, Failing, n)

\* The upstream nodes of n let it start.
Startable(def, r, n) == \A u \in Upstream(def, n) : Shown(r, Completing, u)

Justified(def, r) ==
    /\ \A n \in Node : Logged(r, n, "node.ready") => Startable(def, r, n)
    /\ RunLogged(r, "run.completed") => AllComplete(r)
    /\ RunLogged(r, "run.failed") => SomeFailed(r)

\* Automated nodes that are ready.
Waiting(def, r) == {n \in Node : r.node[n] = "ready" /\ def.kind[n] = "automated"}

\* Every event of r is one of q.
LogsIn(r, q) == \A n \in Node, event \in NodeEvent : Logged(r, n, event) => Logged(q, n, event)

\* The events of n that r has beyond those of base: none of them is a verdict.
Unfinished(base, r, n) ==
    \A i \in (Len(base.node_log[n]) + 1)..Len(r.node_log[n]) : r.node_log[n][i] = "node.ready"

\* Rows r come after base: a node that got new events got its verdict last.
Continues(base, r) ==
    \A n \in Node :
        LET old == base.node_log[n]
            log == r.node_log[n]
        IN  /\ Len(old) <= Len(log)
            /\ Len(old) = Len(log) => log = old
            /\ \A i \in (Len(old) + 1)..(Len(log) - 1) : log[i] = "node.ready"

LEMMA ContinuesItself ==
  ASSUME NEW r \in Rows
  PROVE  Continues(r, r) /\ \A n \in Node : Unfinished(r, r, n)
<1>1. \A n \in Node : Len(r.node_log[n]) \in Nat
  BY DEF Rows
<1>2. QED
  BY <1>1 DEF Continues, Unfinished

\* A node that is not done has no verdict among its new events.
LEMMA OpenIsUnfinished ==
  ASSUME NEW def, NEW base \in Rows, NEW r \in Rows, NEW n \in Node,
         Continues(base, r), RowReplays(def, r, n), r.node[n] \notin Terminal
  PROVE  Unfinished(base, r, n)
<1> DEFINE old == base.node_log[n]  log == r.node_log[n]
<1>1. /\ old \in Seq(NodeEvent) /\ log \in Seq(NodeEvent)
      /\ Len(old) \in Nat /\ Len(log) \in Nat
      /\ \A i \in (Len(old) + 1)..(Len(log) - 1) : log[i] = "node.ready"
  BY DEF Rows, Continues
<1>2. ASSUME log # <<>>  PROVE log[Len(log)] = "node.ready"
  BY <1>2 DEF RowReplays, ReplayedStatus, StatusAfter, Terminal
<1> HIDE DEF old, log
<1>3. \A i \in (Len(old) + 1)..Len(log) : log[i] = "node.ready"
  BY <1>1, <1>2
<1>4. QED
  BY <1>3 DEF Unfinished, old, log

\* A transition continues rows in which its node is not done.
LEMMA MoveContinues ==
  ASSUME NEW base \in Rows, NEW r \in Rows, NEW n \in Node, NEW move \in Coherent,
         Continues(base, r), Unfinished(base, r, n)
  PROVE  Continues(base, Moved(r, n, move))
<1> DEFINE q == Moved(r, n, move)  event == move.event_type
<1>1. /\ q.node_log[n] = Append(r.node_log[n], event)
      /\ \A m \in Node \ {n} : q.node_log[m] = r.node_log[m]
  BY WriteFields
<1> HIDE DEF q
<1>2. SUFFICES ASSUME NEW m \in Node
               PROVE  LET old == base.node_log[m]
                          log == q.node_log[m]
                      IN  /\ Len(old) <= Len(log)
                          /\ Len(old) = Len(log) => log = old
                          /\ \A i \in (Len(old) + 1)..(Len(log) - 1) : log[i] = "node.ready"
  BY DEF Continues, q
<1>3. CASE m # n
  BY <1>1, <1>3 DEF Continues
<1>4. CASE m = n
  <2> DEFINE old == base.node_log[n]  log == r.node_log[n]
  <2>1. /\ log \in Seq(NodeEvent) /\ Len(old) \in Nat /\ Len(log) \in Nat
        /\ Len(old) <= Len(log)
        /\ \A i \in (Len(old) + 1)..Len(log) : log[i] = "node.ready"
    BY DEF Rows, Continues, Unfinished
  <2> HIDE DEF old, log
  <2>2. Len(Append(log, event)) = Len(log) + 1
        /\ \A i \in 1..Len(log) : Append(log, event)[i] = log[i]
    BY <2>1
  <2>3. q.node_log[n] = Append(log, event) /\ base.node_log[n] = old
    BY <1>1 DEF old, log
  <2> HIDE DEF event
  <2>4. QED
    BY <1>4, <2>1, <2>2, <2>3
<1>5. QED
  BY <1>3, <1>4

LEMMA MoreShown ==
  ASSUME NEW r, NEW q, LogsIn(r, q)
  PROVE  /\ \A n \in Node : Shown(r, Completing, n) => Shown(q, Completing, n)
         /\ \A n \in Node : Shown(r, Failing, n) => Shown(q, Failing, n)
         /\ AllComplete(r) => AllComplete(q)
         /\ SomeFailed(r) => SomeFailed(q)
         /\ \A def, n : Startable(def, r, n) => Startable(def, q, n)
<1>1. /\ \A n \in Node : Shown(r, Completing, n) => Shown(q, Completing, n)
      /\ \A n \in Node : Shown(r, Failing, n) => Shown(q, Failing, n)
  BY DEF LogsIn, Shown, Completing, Failing, NodeEvent
<1>2. QED
  BY <1>1 DEF AllComplete, SomeFailed, Startable, Upstream

\* The events of a node bear out its status.
LEMMA StatusShown ==
  ASSUME NEW def, NEW r \in Rows, NEW n \in Node, RowReplays(def, r, n)
  PROVE  /\ r.node[n] \in Passed => Shown(r, Completing, n)
         /\ r.node[n] = "failed" => Shown(r, Failing, n)
<1> DEFINE log == r.node_log[n]  event == log[Len(log)]
<1>1. log \in Seq(NodeEvent)
  BY DEF Rows
<1>2. CASE log = <<>>
  <2>1. r.node[n] \in {"ready", "pending"}
    BY <1>2 DEF RowReplays, ReplayedStatus, InitialNodeStates
  <2>2. QED
    BY <2>1 DEF Passed
<1>3. CASE log # <<>>
  <2>1. event \in NodeEvent /\ Logged(r, n, event)
    <3>1. Len(log) \in 1..Len(log)
      BY <1>1, <1>3
    <3>2. QED
      BY <1>1, <3>1 DEF Logged
  <2>2. r.node[n] = StatusAfter(event)
    BY <1>3 DEF RowReplays, ReplayedStatus
  <2> HIDE DEF event, log
  <2>3. QED
    BY <2>1, <2>2 DEF StatusAfter, NodeEvent, Passed, Shown, Completing, Failing
<1>4. QED
  BY <1>2, <1>3

-----------------------------------------------------------------------------
(* The inductive invariant: the committed rows, each transaction on its    *)
(* own, and the locks between them.                                        *)

Typed ==
    /\ definition \in Definition
    /\ db \in Rows
    /\ exhausted \in BOOLEAN
    /\ txn \in [Session -> Txn]

\* What has been committed; cut says that a drive was cut off.
Committed(def, base, cut) ==
    /\ base.run = "absent" => base = NoRows
    /\ base.run # "absent" => \A n \in Node : RowReplays(def, base, n)
    /\ Justified(def, base)
    /\ ~cut => Waiting(def, base) = {}

\* What an open transaction sees replays, is justified and loses no event; its
\* own events of a node end in the node's verdict.
OpenSound(def, base, t) ==
    /\ base.run = "absent" => t.holds = Node /\ t.holdsRun
    /\ Seen(base, t).run # "absent"
    /\ \A n \in Node : RowReplays(def, Seen(base, t), n)
    /\ Justified(def, Seen(base, t))
    /\ LogsIn(base, Seen(base, t))
    /\ Continues(base, Seen(base, t))

\* The transitions it has still to write were right when it computed them, and
\* are of nodes that it has not finished itself.
QueueSound(def, base, t) ==
    t.pc = "write" =>
        /\ t.next # "idle" /\ t.queue # <<>>
        /\ ToSet(t.queue) \subseteq DOMAIN t.batch
        /\ \A n \in DOMAIN t.batch :
              t.batch[n].event_type = "node.ready" => Startable(def, Seen(base, t), n)
        /\ t.next = "force_failed" =>
              Len(t.queue) = 1 /\ t.batch[Head(t.queue)].event_type = "gate.rejected"
        /\ Distinct(t.queue)
        /\ \A n \in ToSet(t.queue) : Unfinished(base, Seen(base, t), n)

\* The status it is about to give the run was right when it computed it.
StatusSound(base, t) ==
    /\ t.pc = "force_failed" => SomeFailed(Seen(base, t))
    /\ t.pc = "update_run" =>
          /\ t.status # "absent"
          /\ t.status = "completed" => AllComplete(Seen(base, t))
          /\ t.status = "failed" => SomeFailed(Seen(base, t))

\* Automated nodes it has made ready are work for its own loop.
LoopSound(def, base, t) ==
    /\ t.pc \notin {"dispatch", "advance", "write"} => Waiting(def, Seen(base, t)) = {}
    /\ t.pc = "advance" /\ ~t.dispatched =>
          \A n \in Waiting(def, Seen(base, t)) : def.tool[n] = "unset"
    /\ t.pc = "write" =>
          /\ t.next = "advance" => t.dispatched
          /\ t.next # "finalize"
          /\ t.next = "force_failed" => Waiting(def, Seen(base, t)) = {}

SessionSound(def, base, cut, t) ==
    /\ t.pc = "idle" => t = NoTxn
    /\ t.pc # "idle" => OpenSound(def, base, t)
    /\ QueueSound(def, base, t)
    /\ StatusSound(base, t)
    /\ ~cut => LoopSound(def, base, t)

\* Nobody writes a row that another transaction has written.
Apart(t, u) == t.holds \cap u.holds = {} /\ ~(t.holdsRun /\ u.holdsRun)

Exclusive == \A s, o \in Session : s # o => Apart(txn[s], txn[o])

IInv ==
    /\ Typed
    /\ Committed(definition, db, exhausted)
    /\ \A s \in Session : SessionSound(definition, db, exhausted, txn[s])
    /\ Exclusive

-----------------------------------------------------------------------------
(* Steps of one transaction that commit nothing.                           *)

\* A transaction that has written nothing sees what is committed.
LEMMA NoTxnSees ==
  ASSUME NEW base \in Rows
  PROVE  Seen(base, NoTxn) = base
<1> DEFINE r == Seen(base, NoTxn)
<1>1. NoTxn.holds = {} /\ NoTxn.holdsRun = FALSE
  BY DEF NoTxn
<1>2. /\ r \in Rows /\ r.run = base.run /\ r.completed_at = base.completed_at
      /\ r.run_log = base.run_log
      /\ \A n \in Node : /\ r.node[n] = base.node[n]
                         /\ r.decision[n] = base.decision[n]
                         /\ r.node_log[n] = base.node_log[n]
  BY <1>1, NoTxnType, SeenFields
<1>3. QED
  BY <1>2, RowsEqual

LEMMA NoTxnSound ==
  ASSUME NEW def, NEW base \in Rows, NEW cut, Committed(def, base, cut)
  PROVE  /\ SessionSound(def, base, cut, NoTxn)
         /\ base.run # "absent" => OpenSound(def, base, NoTxn)
<1>1. Seen(base, NoTxn) = base
  BY NoTxnSees
<1>2. NoTxn.pc = "idle"
  BY DEF NoTxn
<1>3. Continues(base, base)
  BY ContinuesItself
<1>4. QED
  BY <1>1, <1>2, <1>3
     DEF Committed, SessionSound, OpenSound, QueueSound, StatusSound, LoopSound, LogsIn

\* Another transaction does not depend on what this one does before it commits.
LEMMA LocalStep ==
  ASSUME IInv, NEW s \in Session, NEW w \in Txn, txn' = [txn EXCEPT ![s] = w],
         UNCHANGED <<definition, db>>, exhausted' \in BOOLEAN, exhausted => exhausted',
         SessionSound(definition, db, exhausted', w),
         \A o \in Session : o # s => Apart(w, txn[o])
  PROVE  IInv'
<1>1. \A o \in Session : txn'[o] = IF o = s THEN w ELSE txn[o]
  BY DEF IInv, Typed
<1>2. Typed'
  BY DEF IInv, Typed
<1>3. Committed(definition, db, exhausted)'
  BY DEF IInv, Committed
<1>4. \A o \in Session : SessionSound(definition, db, exhausted, txn[o])'
  <2>1. \A o \in Session : o # s => SessionSound(definition, db, exhausted', txn[o])
    BY DEF IInv, SessionSound
  <2>2. QED
    BY <1>1, <2>1
<1>5. Exclusive'
  <2>1. \A o, p \in Session : o # p => Apart(txn[o], txn[p])
    BY DEF IInv, Exclusive
  <2>2. \A o \in Session : o # s => Apart(txn[o], w)
    BY DEF Apart
  <2>3. QED
    BY <1>1, <2>1, <2>2 DEF Exclusive
<1>6. QED
  BY <1>2, <1>3, <1>4, <1>5 DEF IInv

\* What the invariant says of the transaction of one session.
LEMMA OneSession ==
  ASSUME IInv, NEW s \in Session
  PROVE  /\ definition \in Definition /\ db \in Rows /\ exhausted \in BOOLEAN
         /\ txn[s] \in Txn
         /\ SessionSound(definition, db, exhausted, txn[s])
         /\ View(s) = Seen(db, txn[s])
         /\ View(s) \in Rows
         /\ \A o \in Session : o # s => Apart(txn[s], txn[o])
         /\ Committed(definition, db, exhausted)
<1>1. db \in Rows /\ txn[s] \in Txn
  BY DEF IInv, Typed
<1>2. View(s) = Seen(db, txn[s])
  BY DEF View, Seen
<1>3. Seen(db, txn[s]) \in Rows
  BY <1>1, SeenFields
<1>4. QED
  BY <1>1, <1>2, <1>3 DEF IInv, Typed, Exclusive

\* A rollback leaves nothing.
LEMMA RollbackInv ==
  ASSUME IInv, NEW s \in Session, Rollback(s)
  PROVE  IInv'
<1>1. /\ txn' = [txn EXCEPT ![s] = NoTxn]
      /\ UNCHANGED <<definition, db, exhausted>>
  BY DEF Rollback, SetTxn
<1>2. SessionSound(definition, db, exhausted', NoTxn)
  BY <1>1, OneSession, NoTxnSound
<1>3. \A o \in Session : Apart(NoTxn, txn[o])
  BY DEF NoTxn, Apart
<1>4. exhausted' \in BOOLEAN /\ (exhausted => exhausted')
  BY <1>1, OneSession
<1>5. QED
  BY <1>1, <1>2, <1>3, <1>4, NoTxnType, LocalStep

-----------------------------------------------------------------------------
(* Requests arrive, and batches are planned.                               *)

\* The transaction that is about to apply a batch.
LEMMA PlannedFields ==
  ASSUME NEW t \in Txn, NEW batch \in Batches,
         NEW next \in {"idle", "dispatch", "advance", "finalize", "force_failed"},
         NEW w \in Planned(t, batch, next)
  PROVE  /\ w \in Txn
         /\ w.mine = t.mine /\ w.holds = t.holds /\ w.holdsRun = t.holdsRun
         /\ w.next = next /\ w.dispatched = t.dispatched /\ w.status = t.status
         /\ w.iteration = t.iteration
         /\ \/ w.pc = next /\ DOMAIN batch = {}
            \/ /\ w.pc = "write" /\ w.batch = batch /\ w.queue # <<>>
               /\ DOMAIN batch # {} /\ ToSet(w.queue) \subseteq DOMAIN batch
               /\ w.queue \in SetToSeqs(DOMAIN batch)
<1>1. PICK queue \in SetToSeqs(DOMAIN batch) :
         w = [t EXCEPT !.pc = IF queue = <<>> THEN next ELSE "write",
                       !.batch = IF queue = <<>> THEN <<>> ELSE batch,
                       !.queue = queue,
                       !.next = next]
  BY DEF Planned
<1>2. DOMAIN batch \subseteq Node /\ IsFiniteSet(DOMAIN batch)
  <2>1. DOMAIN batch \subseteq Node
    BY DEF Batches
  <2>2. QED
    BY <2>1, TxnAssumptions, FS_Subset
<1>3. queue \in Seq(DOMAIN batch)
  BY <1>2, OrdersAreSeqs
<1>4. queue \in Seq(Node) /\ ToSet(queue) \subseteq DOMAIN batch
  BY <1>2, <1>3 DEF ToSet
<1>5. queue = <<>> <=> DOMAIN batch = {}
  <2>1. queue # <<>> => DOMAIN batch # {}
    BY <1>3
  <2>2. ASSUME queue = <<>>  PROVE DOMAIN batch = {}
    <3>1. Cardinality(DOMAIN batch) \in Nat
      BY <1>2, FS_CardinalityType
    <3>2. 1..Cardinality(DOMAIN batch) = {}
      BY <2>2, <3>1 DEF SetToSeqs
    <3>3. Cardinality(DOMAIN batch) = 0
      BY <3>1, <3>2
    <3>4. QED
      BY <1>2, <3>3, FS_EmptySet
  <2>3. QED
    BY <2>1, <2>2
<1>6. <<>> \in Batches
  BY NoTxnType DEF Txn, NoTxn
<1> DEFINE pc == IF queue = <<>> THEN next ELSE "write"
           b == IF queue = <<>> THEN <<>> ELSE batch
<1>7. pc \in PC /\ b \in Batches
  BY <1>6 DEF PC
<1>8. w = [t EXCEPT !.pc = pc, !.batch = b, !.queue = queue, !.next = next]
  BY <1>1
<1> HIDE DEF pc, b
<1>9. /\ w \in Txn
      /\ w.mine = t.mine /\ w.holds = t.holds /\ w.holdsRun = t.holdsRun
      /\ w.next = next /\ w.dispatched = t.dispatched /\ w.status = t.status
      /\ w.iteration = t.iteration
      /\ w.pc = pc /\ w.batch = b /\ w.queue = queue
  BY <1>4, <1>7, <1>8 DEF Txn
<1>10. QED
  BY <1>4, <1>5, <1>9 DEF pc, b

\* Transactions that have written the same see the same.
LEMMA SameWritten ==
  ASSUME NEW def, NEW base, NEW t, NEW w,
         w.mine = t.mine, w.holds = t.holds, w.holdsRun = t.holdsRun
  PROVE  /\ Seen(base, w) = Seen(base, t)
         /\ OpenSound(def, base, t) => OpenSound(def, base, w)
         /\ \A u : Apart(t, u) => Apart(w, u)
<1>1. Seen(base, w) = Seen(base, t)
  BY DEF Seen
<1>2. QED
  BY <1>1 DEF OpenSound, Apart

\* When a batch may be planned by t and next be what follows it.
PlanSound(def, base, cut, t, batch, next) ==
    /\ \A n \in DOMAIN batch :
          /\ batch[n].event_type = "node.ready" => Startable(def, Seen(base, t), n)
          /\ Unfinished(base, Seen(base, t), n)
    /\ next = "force_failed" => \E n \in Node : DOMAIN batch = {n}
                                                /\ batch[n].event_type = "gate.rejected"
    /\ ~cut =>
          /\ next = "advance" =>
                IF DOMAIN batch = {}
                THEN ~t.dispatched => \A n \in Waiting(def, Seen(base, t)) : def.tool[n] = "unset"
                ELSE t.dispatched
          /\ next = "finalize" => DOMAIN batch = {} /\ Waiting(def, Seen(base, t)) = {}
          /\ next = "force_failed" => Waiting(def, Seen(base, t)) = {}

LEMMA PlanInv ==
  ASSUME IInv, NEW s \in Session, NEW t \in Txn, OpenSound(definition, db, t),
         \A o \in Session : o # s => Apart(t, txn[o]),
         NEW batch \in Batches,
         NEW next \in {"dispatch", "advance", "finalize", "force_failed"},
         exhausted' \in BOOLEAN, exhausted => exhausted',
         PlanSound(definition, db, exhausted', t, batch, next),
         \E w \in Planned(t, batch, next) : SetTxn(s, w),
         UNCHANGED <<definition, db>>
  PROVE  IInv'
<1>1. PICK w \in Planned(t, batch, next) : txn' = [txn EXCEPT ![s] = w]
  BY DEF SetTxn
<1>2. /\ w \in Txn
      /\ w.mine = t.mine /\ w.holds = t.holds /\ w.holdsRun = t.holdsRun
      /\ w.next = next /\ w.dispatched = t.dispatched
      /\ \/ w.pc = next /\ DOMAIN batch = {}
         \/ /\ w.pc = "write" /\ w.batch = batch /\ w.queue # <<>>
            /\ DOMAIN batch # {} /\ ToSet(w.queue) \subseteq DOMAIN batch
            /\ w.queue \in SetToSeqs(DOMAIN batch)
  BY PlannedFields
<1>3. /\ Seen(db, w) = Seen(db, t)
      /\ OpenSound(definition, db, w)
      /\ \A o \in Session : o # s => Apart(w, txn[o])
  BY <1>2, SameWritten
<1>4. next = "force_failed" => w.pc = "write" /\ Len(w.queue) = 1
                               /\ w.batch[Head(w.queue)].event_type = "gate.rejected"
  <2>1. ASSUME NEW n \in Node, DOMAIN batch = {n}, batch[n].event_type = "gate.rejected"
        PROVE  /\ w.pc = "write" /\ Len(w.queue) = 1
               /\ w.batch[Head(w.queue)].event_type = "gate.rejected"
    <3>1. w.pc = "write" /\ w.batch = batch /\ w.queue \in SetToSeqs({n})
      BY <1>2, <2>1
    <3>2. w.queue = <<n>>
      BY <3>1, OrderOfOne
    <3>3. QED
      BY <2>1, <3>1, <3>2
  <2>2. QED
    BY <2>1 DEF PlanSound
<1>5. QueueSound(definition, db, w)
  <2>1. DOMAIN batch \subseteq Node
    BY DEF Batches
  <2>2. IsFiniteSet(DOMAIN batch)
    BY <2>1, TxnAssumptions, FS_Subset
  <2>3. w.pc = "write" => Distinct(w.queue)
    BY <1>2, <2>2, OrderIsComplete
  <2>4. QED
    BY <1>2, <1>3, <1>4, <2>3 DEF QueueSound, PlanSound
<1>6. StatusSound(db, w)
  BY <1>2, <1>4 DEF StatusSound
<1>7. ~exhausted' => LoopSound(definition, db, w)
  BY <1>2, <1>3, <1>4 DEF LoopSound, PlanSound
<1>8. w.pc # "idle"
  BY <1>2
<1>9. SessionSound(definition, db, exhausted', w)
  BY <1>3, <1>5, <1>6, <1>7, <1>8 DEF SessionSound
<1>10. QED
  BY <1>1, <1>2, <1>3, <1>9, LocalStep

LEMMA MarkManualDoneInv ==
  ASSUME IInv, NEW s \in Session, NEW n \in Node, MarkManualDone(s, n)
  PROVE  IInv'
<1> DEFINE batch == ManualCompletion(n)
<1>1. /\ \E w \in Planned(NoTxn, batch, "dispatch") : SetTxn(s, w)
      /\ db.run # "absent" /\ UNCHANGED <<definition, db, exhausted>>
  BY DEF MarkManualDone
<1>2. batch \in Batches /\ \A m \in DOMAIN batch : batch[m].event_type = "node.completed"
  <2>1. batch \in [{n} -> Coherent]
    BY DEF ManualCompletion, Coherent
  <2>2. QED
    BY <2>1 DEF ManualCompletion, Moves, Batches
<1>3. PlanSound(definition, db, exhausted', NoTxn, batch, "dispatch")
  <2>1. Seen(db, NoTxn) = db /\ \A m \in Node : Unfinished(db, db, m)
    BY OneSession, NoTxnSees, ContinuesItself
  <2>2. DOMAIN batch \subseteq Node
    BY DEF ManualCompletion
  <2> HIDE DEF batch
  <2>3. QED
    BY <1>2, <2>1, <2>2 DEF PlanSound
<1>4. OpenSound(definition, db, NoTxn) /\ exhausted' \in BOOLEAN /\ (exhausted => exhausted')
  BY <1>1, OneSession, NoTxnSound
<1>5. \A o \in Session : Apart(NoTxn, txn[o])
  BY DEF NoTxn, Apart
<1> HIDE DEF batch
<1>6. QED
  BY <1>1, <1>2, <1>3, <1>4, <1>5, NoTxnType, PlanInv

LEMMA SubmitGateDecisionInv ==
  ASSUME IInv, NEW s \in Session, NEW n \in Node, NEW decision \in {"approved", "rejected"},
         SubmitGateDecision(s, n, decision)
  PROVE  IInv'
<1> DEFINE batch == GateTransition(n, decision)
           next == IF decision = "rejected" THEN "force_failed" ELSE "dispatch"
<1>1. /\ \E w \in Planned(NoTxn, batch, next) : SetTxn(s, w)
      /\ db.run # "absent" /\ UNCHANGED <<definition, db, exhausted>>
  BY DEF SubmitGateDecision
<1>2. /\ batch \in Batches /\ DOMAIN batch = {n}
      /\ batch[n].event_type = IF decision = "rejected" THEN "gate.rejected" ELSE "gate.approved"
  <2>1. batch \in [{n} -> Coherent]
    BY DEF GateTransition, Coherent
  <2>2. QED
    BY <2>1 DEF GateTransition, Batches
<1>3. OpenSound(definition, db, NoTxn) /\ exhausted' \in BOOLEAN /\ (exhausted => exhausted')
  BY <1>1, OneSession, NoTxnSound
<1> HIDE DEF batch
<1>4. PlanSound(definition, db, exhausted', NoTxn, batch, next)
  <2>1. Seen(db, NoTxn) = db /\ \A m \in Node : Unfinished(db, db, m)
    BY OneSession, NoTxnSees, ContinuesItself
  <2>2. ~exhausted' => Waiting(definition, db) = {}
    BY <1>1 DEF IInv, Committed
  <2>3. QED
    BY <1>2, <2>1, <2>2 DEF PlanSound
<1>5. \A o \in Session : Apart(NoTxn, txn[o])
  BY DEF NoTxn, Apart
<1>6. next \in {"dispatch", "advance", "finalize", "force_failed"}
  OBVIOUS
<1> HIDE DEF next
<1>7. QED
  BY <1>1, <1>2, <1>3, <1>4, <1>5, <1>6, NoTxnType, PlanInv

\* The rows of a new run.
LEMMA InsertedRows ==
  ASSUME NEW def \in Definition
  PROVE  LET r == Inserted(def) IN
         /\ r \in Rows /\ r.run = "running"
         /\ \A n \in Node : RowReplays(def, r, n) /\ r.node_log[n] = <<>>
         /\ Justified(def, r)
<1> DEFINE r == Inserted(def)
<1>1. InitialNodeStates(def) \in [Node -> NodeStatus]
  BY DEF InitialNodeStates, NodeStatus
<1>2. /\ NoRows.decision = [n \in Node |-> "none"] /\ NoRows.node_log = [n \in Node |-> <<>>]
      /\ NoRows \in Rows
  BY NoRowsType DEF NoRows
<1>3. /\ r \in Rows /\ r.run = "running" /\ r.node = InitialNodeStates(def)
      /\ r.decision = NoRows.decision /\ r.node_log = NoRows.node_log
      /\ r.run_log = <<"run.started">>
  <2> DEFINE log == <<"run.started">>
  <2>1. log \in Seq(RunEvent) /\ "running" \in RunStatus
    BY DEF RunEvent, RunStatus
  <2> HIDE DEF log
  <2>2. r = [NoRows EXCEPT !.run = "running", !.node = InitialNodeStates(def), !.run_log = log]
    BY DEF Inserted, log
  <2> HIDE DEF r
  <2>3. /\ r \in Rows /\ r.run = "running" /\ r.node = InitialNodeStates(def)
        /\ r.decision = NoRows.decision /\ r.node_log = NoRows.node_log /\ r.run_log = log
    BY <1>1, <1>2, <2>1, <2>2 DEF Rows
  <2>4. QED
    BY <2>3 DEF log, r
<1> HIDE DEF r
<1>4. \A n \in Node : r.node_log[n] = <<>> /\ r.node[n] = InitialNodeStates(def)[n]
  BY <1>2, <1>3
<1>5. \A n \in Node : RowReplays(def, r, n)
  BY <1>4 DEF RowReplays, ReplayedStatus
<1>6. Justified(def, r)
  <2>1. \A n \in Node : \A event : ~Logged(r, n, event)
    BY <1>4 DEF Logged
  <2>2. r.run_log = <<"run.started">>
    BY <1>3
  <2>3. ~RunLogged(r, "run.completed") /\ ~RunLogged(r, "run.failed")
    BY <2>2 DEF RunLogged
  <2>4. QED
    BY <2>1, <2>3 DEF Justified
<1>7. QED
  BY <1>3, <1>4, <1>5, <1>6 DEF r

LEMMA CreateRunInv == ASSUME IInv, NEW s \in Session, CreateRun(s)  PROVE IInv'
<1> DEFINE r == Inserted(definition)  run == TRUE
           w == Written(NoTxn, r, Node, run, "dispatch")
<1>1. /\ db.run = "absent" /\ \A o \in Session : txn[o].pc = "idle"
      /\ txn' = [txn EXCEPT ![s] = w]
      /\ UNCHANGED <<definition, db, exhausted>>
  BY DEF CreateRun, At, SetTxn
<1>2. /\ definition \in Definition /\ db \in Rows
      /\ db = NoRows
  BY <1>1, OneSession DEF Committed
<1>3. /\ r \in Rows /\ r.run = "running" /\ Justified(definition, r)
      /\ \A n \in Node : RowReplays(definition, r, n) /\ r.node_log[n] = <<>>
  BY <1>2, InsertedRows
<1> HIDE DEF r
<1>4. Owned(db, r, Node, run) /\ run \in BOOLEAN
  BY <1>3 DEF Owned
<1> HIDE DEF run
<1>5. /\ Overlay(NoRows, r, Node, run) \in Rows
      /\ Overlay(db, Overlay(NoRows, r, Node, run), Node, run) = r
  BY <1>2, <1>4, SeenWritten
<1>6. /\ w \in Txn /\ w.pc = "dispatch" /\ w.holds = Node /\ w.holdsRun = run
      /\ w.mine = Overlay(NoRows, r, Node, run)
  BY <1>4, <1>5, NoTxnType DEF Written, Txn, PC
<1> HIDE DEF w
<1>7. Seen(db, w) = r
  BY <1>5, <1>6 DEF Seen
<1>8. LogsIn(db, r) /\ Continues(db, r)
  <2>1. LogsIn(db, r)
    BY <1>2 DEF LogsIn, Logged, NoRows
  <2>2. \A n \in Node : db.node_log[n] = <<>> /\ r.node_log[n] = <<>>
    BY <1>2, <1>3 DEF NoRows
  <2>3. QED
    BY <2>1, <2>2 DEF Continues
<1>9. SessionSound(definition, db, exhausted', w)
  BY <1>3, <1>6, <1>7, <1>8
     DEF SessionSound, OpenSound, QueueSound, StatusSound, LoopSound, run
<1>10. \A o \in Session : txn[o] = NoTxn
  BY <1>1, OneSession DEF SessionSound
<1>11. \A o \in Session : o # s => Apart(w, txn[o])
  BY <1>10 DEF Apart, NoTxn
<1>12. exhausted' \in BOOLEAN /\ (exhausted => exhausted')
  BY <1>1, OneSession
<1>13. QED
  BY <1>1, <1>6, <1>9, <1>11, <1>12, LocalStep

LEMMA CancelRunInv == ASSUME IInv, NEW s \in Session, CancelRun(s)  PROVE IInv'
<1> DEFINE left == {n \in Node : db.node[n] \notin Terminal}
<1>1. PICK queue \in SetToSeqs(left) :
         txn' = [txn EXCEPT ![s] = [NoTxn EXCEPT !.pc = "cancel", !.queue = queue]]
  BY DEF CancelRun, SetTxn
<1>2. db.run # "absent" /\ UNCHANGED <<definition, db, exhausted>>
  BY DEF CancelRun
<1>3. queue \in Seq(Node)
  <2>1. IsFiniteSet(left)
    BY TxnAssumptions, FS_Subset
  <2>2. queue \in Seq(left)
    BY <2>1, OrdersAreSeqs
  <2>3. QED
    BY <2>2
<1> DEFINE w == [NoTxn EXCEPT !.pc = "cancel", !.queue = queue]
<1>4. /\ w \in Txn /\ w.pc = "cancel"
      /\ w.mine = NoTxn.mine /\ w.holds = NoTxn.holds /\ w.holdsRun = NoTxn.holdsRun
  BY <1>3, NoTxnType DEF Txn, PC
<1> HIDE DEF w
<1>5. Seen(db, w) = db
  BY <1>4, SameWritten, OneSession, NoTxnSees
<1>6. OpenSound(definition, db, w)
  BY <1>2, <1>4, OneSession, NoTxnSound, SameWritten
<1>7. exhausted' \in BOOLEAN /\ (exhausted => exhausted')
  BY <1>2, OneSession
<1>8. SessionSound(definition, db, exhausted', w)
  <2>1. ~exhausted' => Waiting(definition, db) = {}
    BY <1>2 DEF IInv, Committed
  <2>2. QED
    BY <1>4, <1>5, <1>6, <2>1 DEF SessionSound, QueueSound, StatusSound, LoopSound
<1>9. \A o \in Session : Apart(w, txn[o])
  BY <1>4 DEF NoTxn, Apart
<1>10. QED
  BY <1>1, <1>2, <1>4, <1>7, <1>8, <1>9, LocalStep DEF w


-----------------------------------------------------------------------------
(* The loop of _advance_until_blocked.                                     *)

LEMMA DispatchReadyAdaptersInv ==
  ASSUME IInv, NEW s \in Session, DispatchReadyAdapters(s)
  PROVE  IInv'
<1> DEFINE node == View(s).node
           t == [txn[s] EXCEPT !.dispatched = (Dispatchable(definition, node) # {})]
<1>1. PICK failing \in SUBSET Invocable(definition, node) :
         \E w \in Planned(t, Dispatch(definition, node, failing), "advance") : SetTxn(s, w)
  BY DEF DispatchReadyAdapters
<1>2. txn[s].pc = "dispatch" /\ UNCHANGED <<definition, db, exhausted>>
  BY DEF DispatchReadyAdapters, At
<1>3. OpenSound(definition, db, txn[s]) /\ \A o \in Session : o # s => Apart(txn[s], txn[o])
  BY <1>2, OneSession DEF SessionSound
<1>4. /\ t \in Txn /\ t.mine = txn[s].mine /\ t.holds = txn[s].holds
      /\ t.holdsRun = txn[s].holdsRun
      /\ t.dispatched = (Dispatchable(definition, node) # {})
  <2>1. txn[s] \in Txn
    BY OneSession
  <2>2. QED
    BY <2>1 DEF Txn
<1> DEFINE batch == Dispatch(definition, node, failing)
<1>5. /\ batch \in Batches /\ DOMAIN batch = Dispatchable(definition, node)
      /\ \A n \in DOMAIN batch : batch[n].event_type # "node.ready"
  <2>1. batch \in [Dispatchable(definition, node) -> Coherent]
    BY DEF Dispatch, Coherent
  <2>2. Dispatchable(definition, node) \in SUBSET Node
    BY DEF Dispatchable
  <2>3. batch \in Batches
    BY <2>1, <2>2 DEF Batches
  <2>4. QED
    BY <2>3 DEF Dispatch, Moves
<1> HIDE DEF t
<1>6. Seen(db, t) = View(s) /\ OpenSound(definition, db, t)
      /\ \A o \in Session : o # s => Apart(t, txn[o])
  BY <1>3, <1>4, OneSession, SameWritten
<1>7. Dispatchable(definition, node) = {} =>
         \A n \in Waiting(definition, View(s)) : definition.tool[n] = "unset"
  BY DEF Dispatchable, Waiting
<1>8. exhausted' \in BOOLEAN /\ (exhausted => exhausted')
  BY <1>2, OneSession
<1>9. \E w \in Planned(t, batch, "advance") : SetTxn(s, w)
  BY <1>1 DEF t
<1> HIDE DEF batch, node
<1>10. PlanSound(definition, db, exhausted', t, batch, "advance")
  <2>1. \A n \in DOMAIN batch : Unfinished(db, View(s), n)
    <3>1. \A n \in DOMAIN batch : n \in Node /\ View(s).node[n] \notin Terminal
      BY <1>5 DEF Dispatchable, Terminal, node
    <3>2. /\ View(s) \in Rows /\ db \in Rows /\ Continues(db, View(s))
          /\ \A n \in Node : RowReplays(definition, View(s), n)
      BY <1>6, OneSession DEF OpenSound
    <3>3. QED
      BY <3>1, <3>2, OpenIsUnfinished
  <2>2. QED
    BY <1>4, <1>5, <1>6, <1>7, <2>1 DEF PlanSound
<1>11. QED
  BY <1>2, <1>4, <1>5, <1>6, <1>8, <1>9, <1>10, PlanInv

\* What advance computes may be written: upstream nodes have passed.
LEMMA AdvanceBatch ==
  ASSUME NEW def, NEW r \in Rows, \A n \in Node : RowReplays(def, r, n)
  PROVE  LET batch == Advance(def, r.node) IN
         /\ batch \in Batches
         /\ \A n \in DOMAIN batch :
               /\ batch[n].event_type = "node.ready" => Startable(def, r, n)
               /\ n \in Node /\ r.node[n] \notin Terminal
         /\ DOMAIN batch = {} => \A n \in Waiting(def, r) : def.tool[n] # "unset"
<1> DEFINE batch == Advance(def, r.node)
<1>1. batch \in [Promotable(def, r.node) \cup Placeholders(def, r.node) -> Coherent]
  BY DEF Advance, Coherent
<1>2. Promotable(def, r.node) \cup Placeholders(def, r.node) \in SUBSET Node
  BY DEF Promotable, Placeholders
<1>3. batch \in Batches
  BY <1>1, <1>2 DEF Batches
<1>4. ASSUME NEW n \in DOMAIN batch, batch[n].event_type = "node.ready"
      PROVE  Startable(def, r, n)
  <2>1. n \in Promotable(def, r.node)
    BY <1>4 DEF Advance, Moves, Placeholders
  <2>2. \A u \in Upstream(def, n) : u \in Node /\ r.node[u] \in Passed
    BY <2>1 DEF Promotable, Upstream
  <2>3. QED
    BY <2>2, StatusShown DEF Startable
<1>5. DOMAIN batch = {} => \A n \in Waiting(def, r) : def.tool[n] # "unset"
  BY DEF Advance, Placeholders, Waiting
<1>6. \A n \in DOMAIN batch : n \in Node /\ r.node[n] \notin Terminal
  BY DEF Advance, Promotable, Placeholders, Terminal
<1>7. QED
  BY <1>3, <1>4, <1>5, <1>6

LEMMA AdvancePassInv ==
  ASSUME IInv, NEW s \in Session, AdvancePass(s)
  PROVE  IInv'
<1> DEFINE batch == Advance(definition, View(s).node)
           quiet == ~txn[s].dispatched /\ DOMAIN batch = {}
           last == txn[s].iteration + 1 = LoopLimit
           t == [txn[s] EXCEPT !.iteration = IF quiet \/ last THEN @ ELSE @ + 1]
           next == IF quiet \/ last THEN "finalize" ELSE "dispatch"
<1>1. /\ txn[s].pc = "advance"
      /\ \E w \in Planned(t, batch, next) : SetTxn(s, w)
      /\ exhausted' = (exhausted \/ (last /\ ~quiet))
      /\ UNCHANGED <<definition, db>>
  BY DEF AdvancePass, At
<1>2. /\ OpenSound(definition, db, txn[s]) /\ \A o \in Session : o # s => Apart(txn[s], txn[o])
      /\ ~exhausted => LoopSound(definition, db, txn[s])
      /\ View(s) = Seen(db, txn[s]) /\ View(s) \in Rows /\ exhausted \in BOOLEAN
      /\ txn[s] \in Txn
  BY <1>1, OneSession DEF SessionSound
<1>3. \A n \in Node : RowReplays(definition, View(s), n)
  BY <1>2 DEF OpenSound
<1>4. /\ batch \in Batches
      /\ \A n \in DOMAIN batch :
            /\ batch[n].event_type = "node.ready" => Startable(definition, View(s), n)
            /\ n \in Node /\ View(s).node[n] \notin Terminal
      /\ DOMAIN batch = {} => \A n \in Waiting(definition, View(s)) : definition.tool[n] # "unset"
  BY <1>2, <1>3, AdvanceBatch
<1> HIDE DEF batch
<1>5. /\ t \in Txn /\ t.mine = txn[s].mine /\ t.holds = txn[s].holds
      /\ t.holdsRun = txn[s].holdsRun /\ t.dispatched = txn[s].dispatched
  <2> DEFINE i == IF quiet \/ last THEN txn[s].iteration ELSE txn[s].iteration + 1
  <2>1. i \in Nat /\ t = [txn[s] EXCEPT !.iteration = i]
    BY <1>2 DEF Txn
  <2> HIDE DEF i, t
  <2>2. QED
    BY <1>2, <2>1 DEF Txn
<1> HIDE DEF t
<1>6. /\ Seen(db, t) = View(s) /\ OpenSound(definition, db, t)
      /\ \A o \in Session : o # s => Apart(t, txn[o])
  BY <1>2, <1>5, SameWritten
<1>7. exhausted' \in BOOLEAN /\ (exhausted => exhausted')
  BY <1>1, <1>2
<1>8. next \in {"dispatch", "finalize"} /\ next \in {"dispatch", "advance", "finalize", "force_failed"}
  OBVIOUS
<1>9. ~exhausted' /\ next = "finalize" =>
         DOMAIN batch = {} /\ Waiting(definition, View(s)) = {}
  <2>1. SUFFICES ASSUME ~exhausted', next = "finalize"
                 PROVE  DOMAIN batch = {} /\ Waiting(definition, View(s)) = {}
    OBVIOUS
  <2>2. quiet /\ ~exhausted
    BY <1>1, <2>1
  <2>3. \A n \in Waiting(definition, View(s)) : definition.tool[n] = "unset"
    BY <1>1, <1>2, <2>2 DEF LoopSound
  <2>4. QED
    BY <1>4, <2>2, <2>3
<1> HIDE DEF next
<1>10. PlanSound(definition, db, exhausted', t, batch, next)
  <2>1. \A n \in DOMAIN batch : Unfinished(db, View(s), n)
    <3>1. db \in Rows /\ Continues(db, View(s))
      BY <1>2, OneSession DEF OpenSound
    <3>2. QED
      BY <1>2, <1>3, <1>4, <3>1, OpenIsUnfinished
  <2>2. QED
    BY <1>4, <1>6, <1>8, <1>9, <2>1 DEF PlanSound
<1>11. QED
  BY <1>1, <1>4, <1>5, <1>6, <1>7, <1>8, <1>10, PlanInv

-----------------------------------------------------------------------------
(* Rows are written.                                                       *)

\* A transition keeps the events justified when its own event is.
LEMMA MovedJustified ==
  ASSUME NEW def, NEW r \in Rows, NEW n \in Node, NEW move \in Coherent, Justified(def, r),
         move.event_type = "node.ready" => Startable(def, r, n)
  PROVE  /\ Justified(def, Moved(r, n, move))
         /\ LogsIn(r, Moved(r, n, move))
<1> DEFINE q == Moved(r, n, move)
<1>1. LogsIn(r, q)
  BY WriteLogs DEF LogsIn
<1>2. /\ \A k \in Node : Startable(def, r, k) => Startable(def, q, k)
      /\ AllComplete(r) => AllComplete(q)
      /\ SomeFailed(r) => SomeFailed(q)
  BY <1>1, MoreShown
<1>3. q.run_log = r.run_log
  BY WriteFields
<1>4. \A k \in Node : Logged(q, k, "node.ready") =>
         Logged(r, k, "node.ready") \/ (k = n /\ move.event_type = "node.ready")
  BY WriteLogs
<1> HIDE DEF q
<1>5. Justified(def, q)
  BY <1>2, <1>3, <1>4 DEF Justified, RunLogged
<1>6. QED
  BY <1>1, <1>5 DEF q

\* What a transaction may have written.
MayWrite(def, base, rows, nodes, run) ==
    /\ Owned(base, rows, nodes, run)
    /\ base.run # "absent" \/ (nodes = Node /\ run)
    /\ rows.run # "absent"
    /\ \A n \in Node : RowReplays(def, rows, n)
    /\ Justified(def, rows)
    /\ LogsIn(base, rows)
    /\ Continues(base, rows)

LEMMA WrittenSound ==
  ASSUME NEW def, NEW base \in Rows, NEW rows, NEW nodes, NEW run, NEW w \in Txn,
         MayWrite(def, base, rows, nodes, run),
         w.mine = Overlay(NoRows, rows, nodes, run), w.holds = nodes, w.holdsRun = run
  PROVE  Seen(base, w) = rows /\ OpenSound(def, base, w)
<1>1. Owned(base, rows, nodes, run)
  BY DEF MayWrite
<1>2. Seen(base, w) = rows
  BY <1>1, SeenWritten DEF Seen
<1>3. QED
  BY <1>2 DEF MayWrite, OpenSound

\* A transition written by an open transaction.
LEMMA MoveMayWrite ==
  ASSUME NEW def, NEW base \in Rows, NEW t \in Txn, OpenSound(def, base, t),
         NEW n \in Node, NEW move \in Coherent,
         move.event_type = "node.ready" => Startable(def, Seen(base, t), n),
         Unfinished(base, Seen(base, t), n)
  PROVE  MayWrite(def, base, Moved(Seen(base, t), n, move), t.holds \cup {n}, t.holdsRun)
<1> DEFINE r == Seen(base, t)  q == Moved(r, n, move)
<1>1. /\ r \in Rows
      /\ ~t.holdsRun => r.run = base.run /\ r.completed_at = base.completed_at
                        /\ r.run_log = base.run_log
      /\ \A m \in Node \ t.holds : /\ r.node[m] = base.node[m]
                                   /\ r.decision[m] = base.decision[m]
                                   /\ r.node_log[m] = base.node_log[m]
  BY SeenFields
<1>2. /\ r.run # "absent" /\ Justified(def, r) /\ LogsIn(base, r)
      /\ \A k \in Node : RowReplays(def, r, k)
      /\ base.run # "absent" \/ (t.holds = Node /\ t.holdsRun)
  BY DEF OpenSound
<1>3. /\ move.event_type = "node.ready" => Startable(def, r, n)
      /\ Continues(base, r) /\ Unfinished(base, r, n)
  BY DEF OpenSound
<1> HIDE DEF r
<1>4. /\ q \in Rows /\ q.run = r.run /\ q.completed_at = r.completed_at
      /\ q.run_log = r.run_log
      /\ \A m \in Node \ {n} : /\ q.node[m] = r.node[m]
                               /\ q.decision[m] = r.decision[m]
                               /\ q.node_log[m] = r.node_log[m]
  BY <1>1, WriteFields
<1>5. \A k \in Node : RowReplays(def, q, k)
  BY <1>1, <1>2, WriteReplays
<1>6. Justified(def, q) /\ LogsIn(r, q) /\ Continues(base, q)
  BY <1>1, <1>2, <1>3, MovedJustified, MoveContinues
<1> HIDE DEF q
<1>7. LogsIn(base, q)
  BY <1>2, <1>6 DEF LogsIn
<1>8. t.holds \in SUBSET Node /\ t.holdsRun \in BOOLEAN
  BY DEF Txn
<1>9. Owned(base, q, t.holds \cup {n}, t.holdsRun)
  BY <1>1, <1>4, <1>8 DEF Owned
<1>10. (t.holds = Node /\ t.holdsRun) => (t.holds \cup {n} = Node /\ t.holdsRun)
  OBVIOUS
<1>11. MayWrite(def, base, q, t.holds \cup {n}, t.holdsRun)
  BY <1>2, <1>4, <1>5, <1>6, <1>7, <1>9, <1>10 DEF MayWrite
<1>12. QED
  BY <1>11 DEF q, r

LEMMA ApplyTransitionInv ==
  ASSUME IInv, NEW s \in Session, ApplyTransition(s)
  PROVE  IInv'
<1> DEFINE t == txn[s]  n == Head(t.queue)  move == t.batch[n]
           rows == Moved(Seen(db, t), n, move)
           nodes == t.holds \cup {n}
           pc == IF Len(t.queue) = 1 THEN t.next ELSE "write"
           batch == IF Len(t.queue) = 1 THEN <<>> ELSE t.batch
           w == [Written(t, rows, nodes, t.holdsRun, pc) EXCEPT
                    !.queue = Tail(t.queue), !.batch = batch]
<1>1. /\ t.pc = "write" /\ ~LockedByOther(s, n)
      /\ txn' = [txn EXCEPT ![s] = w]
      /\ UNCHANGED <<definition, db, exhausted>>
  <2>1. View(s) = Seen(db, t)
    BY OneSession
  <2>2. t.pc = "write" /\ ~LockedByOther(s, n) /\ UNCHANGED <<definition, db, exhausted>>
    BY DEF ApplyTransition, At
  <2>3. txn' = [txn EXCEPT ![s] = w]
    BY <2>1 DEF ApplyTransition, SetTxn, Moved, Written
  <2>4. QED
    BY <2>2, <2>3
<1>2. /\ t \in Txn /\ db \in Rows /\ definition \in Definition
      /\ OpenSound(definition, db, t) /\ QueueSound(definition, db, t)
      /\ ~exhausted => LoopSound(definition, db, t)
      /\ \A o \in Session : o # s => Apart(t, txn[o])
  BY <1>1, OneSession DEF SessionSound
<1>3. /\ t.next # "idle" /\ t.queue # <<>> /\ ToSet(t.queue) \subseteq DOMAIN t.batch
      /\ \A m \in DOMAIN t.batch :
            t.batch[m].event_type = "node.ready" => Startable(definition, Seen(db, t), m)
      /\ t.next = "force_failed" => Len(t.queue) = 1 /\ move.event_type = "gate.rejected"
      /\ Distinct(t.queue) /\ \A m \in ToSet(t.queue) : Unfinished(db, Seen(db, t), m)
  BY <1>1, <1>2 DEF QueueSound
<1>4. /\ t.queue \in Seq(Node) /\ t.batch \in Batches /\ t.holds \in SUBSET Node
      /\ t.holdsRun \in BOOLEAN
      /\ t.next \in {"idle", "dispatch", "advance", "finalize", "force_failed"}
  BY <1>2 DEF Txn
<1>5. n \in Node /\ n \in ToSet(t.queue) /\ n \in DOMAIN t.batch /\ move \in Coherent
  <2>1. n \in Node /\ n \in ToSet(t.queue)
    BY <1>3, <1>4 DEF ToSet
  <2>2. n \in DOMAIN t.batch
    BY <1>3, <2>1
  <2>3. QED
    BY <1>4, <2>1, <2>2 DEF Batches
<1>6. MayWrite(definition, db, rows, nodes, t.holdsRun)
  BY <1>2, <1>3, <1>5, MoveMayWrite
<1>7. /\ Tail(t.queue) \in Seq(Node) /\ ToSet(Tail(t.queue)) \subseteq ToSet(t.queue)
      /\ Tail(t.queue) = <<>> <=> Len(t.queue) = 1
      /\ Distinct(Tail(t.queue)) /\ ToSet(Tail(t.queue)) = ToSet(t.queue) \ {n}
  BY <1>3, <1>4, QueueTail, DistinctTail
<1>8. Overlay(NoRows, rows, nodes, t.holdsRun) \in Rows
  BY <1>2, <1>6, SeenWritten DEF MayWrite
<1>9. pc \in PC /\ pc # "idle" /\ batch \in Batches /\ nodes \in SUBSET Node
  <2>1. <<>> \in Batches
    BY NoTxnType DEF Txn, NoTxn
  <2>2. QED
    BY <1>3, <1>4, <1>5, <2>1 DEF PC
<1>10. /\ w \in Txn /\ w.pc = pc /\ w.batch = batch /\ w.queue = Tail(t.queue)
       /\ w.mine = Overlay(NoRows, rows, nodes, t.holdsRun) /\ w.holds = nodes
       /\ w.holdsRun = t.holdsRun /\ w.next = t.next /\ w.dispatched = t.dispatched
  <2> HIDE DEF nodes, rows, pc, batch
  <2>1. QED
    BY <1>2, <1>4, <1>7, <1>8, <1>9 DEF Written, Txn
<1>11. /\ LogsIn(Seen(db, t), rows)
       /\ rows.node[n] = move.new_status
       /\ \A m \in Node \ {n} : /\ rows.node[m] = Seen(db, t).node[m]
                                /\ rows.node_log[m] = Seen(db, t).node_log[m]
       /\ move.event_type = "gate.rejected" => SomeFailed(rows)
  <2>1. Seen(db, t) \in Rows
    BY <1>2, SeenFields
  <2> HIDE DEF n, move
  <2>2. Logged(rows, n, move.event_type)
    BY <1>5, <2>1, WriteLogs
  <2>3. move.event_type = "gate.rejected" => SomeFailed(rows)
    BY <1>5, <2>2 DEF SomeFailed, Shown, Failing
  <2>4. QED
    BY <1>5, <2>1, <2>3, WriteFields, WriteLogs DEF LogsIn
<1>12. move.event_type = "gate.rejected" => move.new_status = "failed"
  BY <1>5 DEF Coherent, Moves
<1> HIDE DEF w
<1>13. Seen(db, w) = rows /\ OpenSound(definition, db, w)
  BY <1>2, <1>6, <1>10, WrittenSound
<1> HIDE DEF rows, nodes
<1>14. \A m \in Node : Startable(definition, Seen(db, t), m) => Startable(definition, rows, m)
  BY <1>11, MoreShown
<1>15. QueueSound(definition, db, w)
  <2>1. SUFFICES ASSUME w.pc = "write"  PROVE QueueSound(definition, db, w)
    BY DEF QueueSound
  <2>2. Len(t.queue) # 1
    BY <1>1, <1>2, <1>3, <1>10, <2>1, <1>4
  <2>3. \A m \in DOMAIN t.batch : m \in Node
    BY <1>4 DEF Batches
  <2>4. t.next # "force_failed" /\ w.batch = t.batch
    BY <1>3, <1>10, <2>2
  <2>5. \A m \in ToSet(w.queue) : Unfinished(db, rows, m)
    <3>1. \A m \in ToSet(w.queue) : m \in Node \ {n} /\ m \in ToSet(t.queue)
      BY <1>4, <1>7, <1>10 DEF ToSet
    <3> HIDE DEF n
    <3>2. QED
      BY <1>3, <1>11, <3>1 DEF Unfinished
  <2> HIDE DEF move, n, batch, pc
  <2>6. QED
    BY <1>3, <1>7, <1>10, <1>13, <1>14, <2>2, <2>3, <2>4, <2>5 DEF QueueSound
<1>16. StatusSound(db, w)
  <2>1. pc # "update_run"
    BY <1>4
  <2>2. ASSUME pc = "force_failed"  PROVE SomeFailed(rows)
    <3>1. t.next = "force_failed"
      BY <2>2
    <3>2. QED
      BY <1>3, <1>11, <3>1
  <2> HIDE DEF pc
  <2>3. QED
    BY <1>10, <1>13, <2>1, <2>2 DEF StatusSound
<1>17. ~exhausted => LoopSound(definition, db, w)
  <2>1. SUFFICES ASSUME ~exhausted  PROVE LoopSound(definition, db, w)
    OBVIOUS
  <2>2. /\ t.next = "advance" => t.dispatched
        /\ t.next # "finalize"
        /\ t.next = "force_failed" => Waiting(definition, Seen(db, t)) = {}
    BY <1>1, <1>2, <2>1 DEF LoopSound
  <2>3. t.next = "force_failed" => Waiting(definition, rows) = {}
    BY <1>3, <1>5, <1>11, <1>12, <2>2 DEF Waiting
  <2>4. pc \in {"dispatch", "write"} \/ (pc = "advance" /\ t.dispatched)
        \/ (pc = "force_failed" /\ t.next = "force_failed")
    BY <1>3, <1>4, <2>2
  <2>5. t.next = "force_failed" => pc # "write"
    BY <1>3
  <2> HIDE DEF pc
  <2>6. QED
    BY <1>10, <1>13, <2>2, <2>3, <2>4, <2>5 DEF LoopSound
<1>18. SessionSound(definition, db, exhausted', w)
  BY <1>1, <1>9, <1>10, <1>13, <1>15, <1>16, <1>17 DEF SessionSound
<1>19. \A o \in Session : o # s => Apart(w, txn[o])
  BY <1>1, <1>2, <1>10 DEF Apart, LockedByOther, nodes
<1>20. exhausted' \in BOOLEAN /\ (exhausted => exhausted')
  BY <1>1, OneSession
<1>21. QED
  BY <1>1, <1>10, <1>18, <1>19, <1>20, LocalStep

\* An open transaction that has written nothing since may write what it sees.
LEMMA SameMayWrite ==
  ASSUME NEW def, NEW base \in Rows, NEW t \in Txn, OpenSound(def, base, t)
  PROVE  /\ MayWrite(def, base, Seen(base, t), t.holds, t.holdsRun)
         /\ \A n \in Node : MayWrite(def, base, Seen(base, t), t.holds \cup {n}, t.holdsRun)
<1> DEFINE r == Seen(base, t)
<1>1. /\ r \in Rows
      /\ ~t.holdsRun => r.run = base.run /\ r.completed_at = base.completed_at
                        /\ r.run_log = base.run_log
      /\ \A m \in Node \ t.holds : /\ r.node[m] = base.node[m]
                                   /\ r.decision[m] = base.decision[m]
                                   /\ r.node_log[m] = base.node_log[m]
      /\ t.holds \in SUBSET Node /\ t.holdsRun \in BOOLEAN
  BY SeenFields DEF Txn
<1>2. /\ r.run # "absent" /\ Justified(def, r) /\ LogsIn(base, r) /\ Continues(base, r)
      /\ \A k \in Node : RowReplays(def, r, k)
      /\ base.run # "absent" \/ (t.holds = Node /\ t.holdsRun)
  BY DEF OpenSound
<1> HIDE DEF r
<1>3. /\ Owned(base, r, t.holds, t.holdsRun)
      /\ \A n \in Node : Owned(base, r, t.holds \cup {n}, t.holdsRun)
  BY <1>1 DEF Owned
<1>4. t.holds = Node => \A n \in Node : t.holds \cup {n} = Node
  OBVIOUS
<1>5. /\ MayWrite(def, base, r, t.holds, t.holdsRun)
      /\ \A n \in Node : MayWrite(def, base, r, t.holds \cup {n}, t.holdsRun)
  BY <1>2, <1>3, <1>4 DEF MayWrite
<1>6. QED
  BY <1>5 DEF r

\* The run row may be written as well, if its new events say what is so.
LEMMA RunMayWrite ==
  ASSUME NEW def, NEW base \in Rows, NEW t \in Txn, OpenSound(def, base, t),
         NEW rows \in Rows, NEW run, run = TRUE, rows.run # "absent",
         rows.node = Seen(base, t).node, rows.decision = Seen(base, t).decision,
         rows.node_log = Seen(base, t).node_log,
         RunLogged(rows, "run.completed") => AllComplete(Seen(base, t)),
         RunLogged(rows, "run.failed") => SomeFailed(Seen(base, t))
  PROVE  MayWrite(def, base, rows, t.holds, run)
<1> DEFINE r == Seen(base, t)
<1>1. /\ r \in Rows
      /\ \A m \in Node \ t.holds : /\ r.node[m] = base.node[m]
                                   /\ r.decision[m] = base.decision[m]
                                   /\ r.node_log[m] = base.node_log[m]
      /\ t.holds \in SUBSET Node
  BY SeenFields DEF Txn
<1>2. /\ Justified(def, r) /\ LogsIn(base, r) /\ Continues(base, r)
      /\ \A k \in Node : RowReplays(def, r, k)
      /\ base.run # "absent" \/ t.holds = Node
  BY DEF OpenSound
<1>3. /\ rows.node = r.node /\ rows.decision = r.decision /\ rows.node_log = r.node_log
      /\ RunLogged(rows, "run.completed") => AllComplete(r)
      /\ RunLogged(rows, "run.failed") => SomeFailed(r)
  OBVIOUS
<1> HIDE DEF r
<1>4. \A n, event : Logged(rows, n, event) <=> Logged(r, n, event)
  BY <1>3 DEF Logged
<1>5. LogsIn(base, rows) /\ LogsIn(r, rows) /\ Continues(base, rows)
  BY <1>2, <1>3, <1>4 DEF LogsIn, Continues
<1>6. Justified(def, rows)
  <2>1. /\ \A n \in Node : Startable(def, r, n) => Startable(def, rows, n)
        /\ AllComplete(r) => AllComplete(rows)
        /\ SomeFailed(r) => SomeFailed(rows)
    BY <1>5, MoreShown
  <2>2. QED
    BY <1>2, <1>3, <1>4, <2>1 DEF Justified
<1>7. \A k \in Node : RowReplays(def, rows, k)
  BY <1>2, <1>3 DEF RowReplays, ReplayedStatus
<1>8. Owned(base, rows, t.holds, run)
  BY <1>1, <1>3 DEF Owned
<1>9. QED
  BY <1>2, <1>5, <1>6, <1>7, <1>8 DEF MayWrite

\* A transaction that is not amid a batch, and writes what it may.
LEMMA WriteInv ==
  ASSUME IInv, NEW s \in Session, NEW rows, NEW nodes, NEW run, NEW w \in Txn,
         MayWrite(definition, db, rows, nodes, run),
         w.mine = Overlay(NoRows, rows, nodes, run), w.holds = nodes, w.holdsRun = run,
         w.pc \in {"cancel", "commit"}, Waiting(definition, rows) = {} \/ exhausted,
         \A o \in Session : o # s => Apart(w, txn[o]),
         txn' = [txn EXCEPT ![s] = w], UNCHANGED <<definition, db, exhausted>>
  PROVE  IInv'
<1>1. db \in Rows /\ exhausted \in BOOLEAN
  BY OneSession
<1>2. Seen(db, w) = rows /\ OpenSound(definition, db, w)
  BY <1>1, WrittenSound
<1>3. SessionSound(definition, db, exhausted', w)
  BY <1>2 DEF SessionSound, QueueSound, StatusSound, LoopSound
<1>4. exhausted' \in BOOLEAN /\ (exhausted => exhausted')
  BY <1>1
<1>5. QED
  BY <1>3, <1>4, LocalStep

\* The record that Written makes.
LEMMA WrittenFields ==
  ASSUME NEW t \in Txn, NEW base \in Rows, NEW rows, NEW nodes, NEW run,
         Owned(base, rows, nodes, run), NEW label \in PC
  PROVE  LET w == Written(t, rows, nodes, run, label) IN
         /\ w \in Txn /\ w.pc = label
         /\ w.mine = Overlay(NoRows, rows, nodes, run) /\ w.holds = nodes /\ w.holdsRun = run
         /\ w.queue = t.queue
<1>1. Overlay(NoRows, rows, nodes, run) \in Rows
  BY SeenWritten
<1>2. nodes \in SUBSET Node /\ run \in BOOLEAN
  BY DEF Owned
<1>3. QED
  BY <1>1, <1>2 DEF Written, Txn

-----------------------------------------------------------------------------
(* A run is cancelled.                                                     *)

\* No transition, no change.
LEMMA NothingMoved == ASSUME NEW r \in Rows  PROVE ApplyTransitions(r, <<>>) = r
<1> DEFINE none == <<>>
<1>1. DOMAIN none = {}
  OBVIOUS
<1> HIDE DEF none
<1>2. ApplyTransitions(r, none) = [r EXCEPT !.node = [n \in Node |-> r.node[n]],
                                           !.decision = [n \in Node |-> r.decision[n]],
                                           !.node_log = [n \in Node |-> r.node_log[n]]]
  BY <1>1 DEF ApplyTransitions
<1>3. /\ [n \in Node |-> r.node[n]] = r.node
      /\ [n \in Node |-> r.decision[n]] = r.decision
      /\ [n \in Node |-> r.node_log[n]] = r.node_log
  BY DEF Rows
<1>4. ApplyTransitions(r, none) = [r EXCEPT !.node = r.node, !.decision = r.decision,
                                           !.node_log = r.node_log]
  BY <1>2, <1>3
<1>5. [r EXCEPT !.node = r.node, !.decision = r.decision, !.node_log = r.node_log] = r
  BY DEF Rows
<1>6. QED
  BY <1>4, <1>5 DEF none

LEMMA SkipNodeInv == ASSUME IInv, NEW s \in Session, SkipNode(s)  PROVE IInv'
<1> DEFINE t == txn[s]  n == Head(t.queue)  r == Seen(db, t)
           move == Moves("skipped", "node.skipped")
           skip == IF r.node[n] \in Terminal THEN <<>> ELSE [m \in {n} |-> move]
           rows == ApplyTransitions(r, skip)
           nodes == t.holds \cup {n}
           v == Written(t, rows, nodes, t.holdsRun, "cancel")
           w == [v EXCEPT !.queue = Tail(t.queue)]
<1>1. /\ t.pc = "cancel" /\ t.queue # <<>> /\ ~LockedByOther(s, n)
      /\ UNCHANGED <<definition, db, exhausted>>
  BY DEF SkipNode, At
<1>2. txn' = [txn EXCEPT ![s] = w]
  <2>1. View(s) = r
    BY OneSession
  <2>2. QED
    BY <2>1 DEF SkipNode, SetTxn, Written
<1>3. /\ t \in Txn /\ db \in Rows /\ definition \in Definition
      /\ OpenSound(definition, db, t)
      /\ ~exhausted => LoopSound(definition, db, t)
      /\ \A o \in Session : o # s => Apart(t, txn[o])
  BY <1>1, OneSession DEF SessionSound
<1>4. r \in Rows /\ t.queue \in Seq(Node)
  BY <1>3, SeenFields DEF Txn
<1>5. n \in Node /\ Tail(t.queue) \in Seq(Node)
  BY <1>1, <1>4
<1>6. move \in Coherent /\ move.event_type # "node.ready" /\ move.new_status = "skipped"
  BY DEF Coherent, Moves
<1> HIDE DEF move
<1>7. /\ MayWrite(definition, db, rows, nodes, t.holdsRun)
      /\ \A m \in Node : rows.node[m] = "ready" => r.node[m] = "ready"
  <2>1. CASE r.node[n] \in Terminal
    <3>1. skip = <<>>
      BY <2>1
    <3>2. rows = r
      BY <1>4, <3>1, NothingMoved
    <3> HIDE DEF rows, n
    <3>3. QED
      BY <1>3, <1>5, <3>2, SameMayWrite DEF n
  <2>2. CASE r.node[n] \notin Terminal
    <3>1. rows = Moved(r, n, move)
      BY <2>2 DEF Moved
    <3> HIDE DEF rows
    <3>2. MayWrite(definition, db, rows, nodes, t.holdsRun)
      <4>1. Unfinished(db, r, n)
        <5> HIDE DEF n
        <5>1. Continues(db, r) /\ RowReplays(definition, r, n)
          BY <1>3, <1>5 DEF OpenSound
        <5> HIDE DEF r
        <5>2. QED
          BY <1>3, <1>4, <1>5, <2>2, <5>1, OpenIsUnfinished
      <4>2. QED
        BY <1>3, <1>5, <1>6, <3>1, <4>1, MoveMayWrite
    <3> HIDE DEF n, nodes, r
    <3>3. rows.node[n] = "skipped" /\ \A m \in Node \ {n} : rows.node[m] = r.node[m]
      BY <1>4, <1>5, <1>6, <3>1, WriteFields
    <3>4. QED
      BY <3>2, <3>3
  <2>3. QED
    BY <2>1, <2>2
<1> HIDE DEF rows, nodes
<1>8. /\ v \in Txn /\ v.pc = "cancel" /\ v.mine = Overlay(NoRows, rows, nodes, t.holdsRun)
      /\ v.holds = nodes /\ v.holdsRun = t.holdsRun
  <2>1. Owned(db, rows, nodes, t.holdsRun)
    BY <1>7 DEF MayWrite
  <2>2. "cancel" \in PC
    BY DEF PC
  <2>3. QED
    BY <1>3, <2>1, <2>2, WrittenFields
<1> HIDE DEF v
<1>9. /\ w \in Txn /\ w.pc = "cancel" /\ w.mine = Overlay(NoRows, rows, nodes, t.holdsRun)
      /\ w.holds = nodes /\ w.holdsRun = t.holdsRun
  BY <1>5, <1>8 DEF Txn
<1>10. Waiting(definition, rows) = {} \/ exhausted
  BY <1>1, <1>3, <1>7 DEF LoopSound, Waiting
<1> HIDE DEF w
<1>11. \A o \in Session : o # s => Apart(w, txn[o])
  BY <1>1, <1>3, <1>9 DEF Apart, LockedByOther, nodes
<1>12. QED
  BY <1>1, <1>2, <1>7, <1>9, <1>10, <1>11, WriteInv

LEMMA CancelRunRowInv == ASSUME IInv, NEW s \in Session, CancelRunRow(s)  PROVE IInv'
<1> DEFINE t == txn[s]  r == Seen(db, t)  run == TRUE
           rows == MarkCancelled(r)
           w == Written(t, rows, t.holds, run, "commit")
<1>1. /\ t.pc = "cancel" /\ ~RunLockedByOther(s)
      /\ UNCHANGED <<definition, db, exhausted>>
  BY DEF CancelRunRow, At
<1>2. txn' = [txn EXCEPT ![s] = w]
  <2>1. View(s) = r
    BY OneSession
  <2>2. QED
    BY <2>1 DEF CancelRunRow, SetTxn
<1>3. /\ t \in Txn /\ db \in Rows /\ definition \in Definition
      /\ OpenSound(definition, db, t)
      /\ ~exhausted => LoopSound(definition, db, t)
      /\ \A o \in Session : o # s => Apart(t, txn[o])
  BY <1>1, OneSession DEF SessionSound
<1>4. r \in Rows /\ r.run_log \in Seq(RunEvent)
  BY <1>3, SeenFields DEF Rows
<1>5. /\ rows \in Rows /\ rows.run = "cancelled" /\ rows.node = r.node
      /\ rows.decision = r.decision /\ rows.node_log = r.node_log
      /\ rows.run_log = Append(r.run_log, "run.cancelled")
  <2> DEFINE log == Append(r.run_log, "run.cancelled")
  <2>1. log \in Seq(RunEvent) /\ "cancelled" \in RunStatus
    BY <1>4 DEF RunEvent, RunStatus
  <2>2. rows = [r EXCEPT !.run = "cancelled", !.completed_at = TRUE, !.run_log = log]
    BY DEF MarkCancelled
  <2> HIDE DEF log, r, rows
  <2>3. /\ rows \in Rows /\ rows.run = "cancelled" /\ rows.node = r.node
        /\ rows.decision = r.decision /\ rows.node_log = r.node_log
        /\ rows.run_log = log
    BY <1>4, <2>1, <2>2 DEF Rows
  <2>4. QED
    BY <2>3 DEF log
<1> HIDE DEF rows, run
<1>6. /\ RunLogged(rows, "run.completed") => AllComplete(r)
      /\ RunLogged(rows, "run.failed") => SomeFailed(r)
  <2>1. Justified(definition, r)
    BY <1>3 DEF OpenSound
  <2>2. \A event : RunLogged(rows, event) => RunLogged(r, event) \/ event = "run.cancelled"
    <3>1. "run.cancelled" \in RunEvent
      BY DEF RunEvent
    <3>2. QED
      BY <1>4, <1>5, <3>1 DEF RunLogged
  <2>3. QED
    BY <2>1, <2>2 DEF Justified
<1>7. run = TRUE
  BY DEF run
<1>8. MayWrite(definition, db, rows, t.holds, run)
  BY <1>3, <1>5, <1>6, <1>7, RunMayWrite
<1>9. /\ w \in Txn /\ w.pc = "commit" /\ w.mine = Overlay(NoRows, rows, t.holds, run)
      /\ w.holds = t.holds /\ w.holdsRun = run
  <2>1. Owned(db, rows, t.holds, run)
    BY <1>8 DEF MayWrite
  <2>2. "commit" \in PC
    BY DEF PC
  <2>3. QED
    BY <1>3, <2>1, <2>2, WrittenFields
<1>10. Waiting(definition, rows) = {} \/ exhausted
  BY <1>1, <1>3, <1>5 DEF LoopSound, Waiting
<1> HIDE DEF w
<1>11. \A o \in Session : o # s => Apart(w, txn[o])
  BY <1>1, <1>3, <1>9 DEF Apart, RunLockedByOther
<1>12. QED
  BY <1>1, <1>2, <1>8, <1>9, <1>10, <1>11, WriteInv

-----------------------------------------------------------------------------
(* The status of the run.                                                  *)

\* The status that is computed has its reason in the events.
LEMMA ComputedShown ==
  ASSUME NEW def, NEW r \in Rows, \A n \in Node : RowReplays(def, r, n)
  PROVE  /\ ComputedRunStatus(r.node) \in {"running", "completed", "failed"}
         /\ ComputedRunStatus(r.node) = "completed" => AllComplete(r)
         /\ ComputedRunStatus(r.node) = "failed" => SomeFailed(r)
<1>1. \A n \in Node : r.node[n] \in NodeStatus
  BY DEF Rows
<1>2. ComputedRunStatus(r.node) = "completed" => \A n \in Node : r.node[n] \in Passed
  BY <1>1 DEF ComputedRunStatus, DeriveRunStatus, IsRunTerminal, Terminal, Passed
<1>3. ComputedRunStatus(r.node) = "failed" => \E n \in Node : r.node[n] = "failed"
  BY DEF ComputedRunStatus, DeriveRunStatus
<1>4. /\ \A n \in Node : r.node[n] \in Passed => Shown(r, Completing, n)
      /\ \A n \in Node : r.node[n] = "failed" => Shown(r, Failing, n)
  BY StatusShown
<1>5. ComputedRunStatus(r.node) \in {"running", "completed", "failed"}
  BY DEF ComputedRunStatus, DeriveRunStatus
<1>6. QED
  BY <1>2, <1>3, <1>4, <1>5 DEF AllComplete, SomeFailed

LEMMA ComputeRunStatusInv == ASSUME IInv, NEW s \in Session, ComputeRunStatus(s)  PROVE IInv'
<1> DEFINE t == txn[s]  r == Seen(db, t)
           status == IF t.pc = "force_failed" THEN "failed" ELSE ComputedRunStatus(r.node)
           w == [t EXCEPT !.pc = "update_run", !.status = status]
<1>1. /\ t.pc \in {"finalize", "force_failed"}
      /\ UNCHANGED <<definition, db, exhausted>>
  BY DEF ComputeRunStatus
<1>2. txn' = [txn EXCEPT ![s] = w]
  <2>1. View(s) = r
    BY OneSession
  <2>2. QED
    BY <2>1 DEF ComputeRunStatus, SetTxn, At
<1>3. /\ t \in Txn /\ db \in Rows /\ definition \in Definition
      /\ OpenSound(definition, db, t) /\ StatusSound(db, t)
      /\ ~exhausted => LoopSound(definition, db, t)
      /\ \A o \in Session : o # s => Apart(t, txn[o])
  BY <1>1, OneSession DEF SessionSound
<1>4. r \in Rows /\ \A n \in Node : RowReplays(definition, r, n)
  BY <1>3, SeenFields DEF OpenSound
<1>5. /\ status \in {"running", "completed", "failed"}
      /\ status = "completed" => AllComplete(r)
      /\ status = "failed" => SomeFailed(r)
  BY <1>3, <1>4, ComputedShown DEF StatusSound
<1> HIDE DEF status
<1>6. /\ w \in Txn /\ w.pc = "update_run" /\ w.status = status
      /\ w.mine = t.mine /\ w.holds = t.holds /\ w.holdsRun = t.holdsRun
  BY <1>3, <1>5 DEF Txn, PC, RunStatus
<1> HIDE DEF w
<1>7. /\ Seen(db, w) = r /\ OpenSound(definition, db, w)
      /\ \A o \in Session : o # s => Apart(w, txn[o])
  BY <1>3, <1>6, SameWritten
<1>8. ~exhausted => Waiting(definition, r) = {}
  BY <1>1, <1>3 DEF LoopSound
<1> HIDE DEF r
<1>9. SessionSound(definition, db, exhausted', w)
  BY <1>1, <1>5, <1>6, <1>7, <1>8 DEF SessionSound, QueueSound, StatusSound, LoopSound
<1>10. exhausted' \in BOOLEAN /\ (exhausted => exhausted')
  BY <1>1, OneSession
<1>11. QED
  BY <1>1, <1>2, <1>6, <1>7, <1>9, <1>10, LocalStep

\* What _finalize_run_status writes.
LEMMA FinalizeFields ==
  ASSUME NEW r \in Rows, NEW status \in RunStatus
  PROVE  LET q == Finalize(r, status) IN
         /\ q \in Rows /\ q.run = status
         /\ q.node = r.node /\ q.decision = r.decision /\ q.node_log = r.node_log
         /\ r.run = status => q = r
         /\ RunLogged(q, "run.completed") => RunLogged(r, "run.completed") \/ status = "completed"
         /\ RunLogged(q, "run.failed") => RunLogged(r, "run.failed") \/ status = "failed"
<1> DEFINE q == Finalize(r, status)
           done == r.completed_at \/ status \in {"completed", "failed"}
           log == CASE status = "completed" -> Append(r.run_log, "run.completed")
                    [] status = "failed"    -> Append(r.run_log, "run.failed")
                    [] OTHER                -> r.run_log
<1>1. CASE r.run = status
  BY <1>1 DEF Finalize
<1>2. CASE r.run # status
  <2>1. q = [r EXCEPT !.run = status, !.completed_at = done, !.run_log = log]
    BY <1>2 DEF Finalize
  <2>2. r.run_log \in Seq(RunEvent) /\ r.completed_at \in BOOLEAN
    BY DEF Rows
  <2>3. "run.completed" \in RunEvent /\ "run.failed" \in RunEvent
    BY DEF RunEvent
  <2>4. log \in Seq(RunEvent) /\ done \in BOOLEAN
    BY <2>2, <2>3
  <2>5. /\ (\E i \in 1..Len(log) : log[i] = "run.completed") =>
              (\E i \in 1..Len(r.run_log) : r.run_log[i] = "run.completed") \/ status = "completed"
        /\ (\E i \in 1..Len(log) : log[i] = "run.failed") =>
              (\E i \in 1..Len(r.run_log) : r.run_log[i] = "run.failed") \/ status = "failed"
    <3>1. CASE status = "completed"
      BY <2>2, <2>3, <3>1
    <3>2. CASE status = "failed"
      BY <2>2, <2>3, <3>2
    <3>3. CASE status \notin {"completed", "failed"}
      BY <3>3
    <3>4. QED
      BY <3>1, <3>2, <3>3
  <2> HIDE DEF log, done, q
  <2>6. /\ q \in Rows /\ q.run = status /\ q.run_log = log
        /\ q.node = r.node /\ q.decision = r.decision /\ q.node_log = r.node_log
    BY <2>1, <2>4 DEF Rows
  <2>7. QED
    BY <1>2, <2>5, <2>6 DEF RunLogged, q
<1>3. QED
  BY <1>1, <1>2

LEMMA FinalizeRunStatusInv == ASSUME IInv, NEW s \in Session, FinalizeRunStatus(s)  PROVE IInv'
<1> DEFINE t == txn[s]  r == Seen(db, t)
           same == r.run = t.status
           rows == Finalize(r, t.status)
           run == t.holdsRun \/ ~same
           w == Written(t, rows, t.holds, run, "commit")
<1>1. /\ t.pc = "update_run"
      /\ same \/ ~RunLockedByOther(s)
      /\ UNCHANGED <<definition, db, exhausted>>
      /\ txn' = [txn EXCEPT ![s] = w]
  <2>1. View(s) = r
    BY OneSession
  <2>2. QED
    BY <2>1 DEF FinalizeRunStatus, SetTxn, At
<1>2. /\ t \in Txn /\ db \in Rows /\ definition \in Definition
      /\ OpenSound(definition, db, t) /\ StatusSound(db, t)
      /\ ~exhausted => LoopSound(definition, db, t)
      /\ \A o \in Session : o # s => Apart(t, txn[o])
  <2>1. t.pc # "idle"
    BY <1>1, OneSession DEF FinalizeRunStatus, At
  <2>2. QED
    BY <2>1, OneSession DEF SessionSound
<1>3. t.pc = "update_run"
  BY DEF FinalizeRunStatus, At
<1>4. /\ r \in Rows /\ t.holdsRun \in BOOLEAN /\ t.status \in RunStatus \cup {"absent"}
  BY <1>2, SeenFields DEF Txn
<1>5. /\ t.status \in RunStatus
      /\ t.status = "completed" => AllComplete(r)
      /\ t.status = "failed" => SomeFailed(r)
  BY <1>2, <1>3, <1>4 DEF StatusSound
<1>6. /\ rows \in Rows /\ rows.run = t.status
      /\ rows.node = r.node /\ rows.decision = r.decision /\ rows.node_log = r.node_log
      /\ r.run = t.status => rows = r
      /\ RunLogged(rows, "run.completed") =>
            RunLogged(r, "run.completed") \/ t.status = "completed"
      /\ RunLogged(rows, "run.failed") => RunLogged(r, "run.failed") \/ t.status = "failed"
  BY <1>4, <1>5, FinalizeFields
<1> HIDE DEF rows
<1>7. /\ RunLogged(rows, "run.completed") => AllComplete(r)
      /\ RunLogged(rows, "run.failed") => SomeFailed(r)
  <2>1. Justified(definition, r)
    BY <1>2 DEF OpenSound
  <2>2. QED
    BY <1>5, <1>6, <2>1 DEF Justified
<1>8. MayWrite(definition, db, rows, t.holds, run)
  <2>1. CASE run = TRUE
    <3>1. rows.run # "absent"
      BY <1>5, <1>6 DEF RunStatus
    <3> HIDE DEF run
    <3>2. QED
      BY <1>2, <1>6, <1>7, <2>1, <3>1, RunMayWrite
  <2>2. CASE run = FALSE
    <3>1. rows = r /\ t.holdsRun = FALSE
      BY <1>4, <1>6, <2>2
    <3>2. QED
      BY <1>2, <2>2, <3>1, SameMayWrite
  <2>3. QED
    BY <1>4, <2>1, <2>2
<1>9. run => t.holdsRun \/ ~RunLockedByOther(s)
  BY <1>1, <1>3
<1> HIDE DEF run
<1>10. /\ w \in Txn /\ w.pc = "commit" /\ w.mine = Overlay(NoRows, rows, t.holds, run)
       /\ w.holds = t.holds /\ w.holdsRun = run
  <2>1. Owned(db, rows, t.holds, run)
    BY <1>8 DEF MayWrite
  <2>2. "commit" \in PC
    BY DEF PC
  <2>3. QED
    BY <1>2, <2>1, <2>2, WrittenFields
<1>11. Waiting(definition, rows) = {} \/ exhausted
  BY <1>2, <1>3, <1>6 DEF LoopSound, Waiting
<1> HIDE DEF w
<1>12. \A o \in Session : o # s => Apart(w, txn[o])
  BY <1>2, <1>9, <1>10 DEF Apart, RunLockedByOther
<1>13. UNCHANGED <<definition, db, exhausted>> /\ txn' = [txn EXCEPT ![s] = w]
  BY <1>1
<1>14. QED
  BY <1>8, <1>10, <1>11, <1>12, <1>13, WriteInv

-----------------------------------------------------------------------------
(* A commit, and what it means to the transactions that stay open.         *)

\* When t commits, u goes on seeing its own rows, and t's or the older ones
\* elsewhere: nothing that u has seen disappears.
LEMMA CommitSeen ==
  ASSUME NEW base \in Rows, NEW t \in Txn, NEW u \in Txn, Apart(t, u),
         LogsIn(base, Seen(base, t)), LogsIn(base, Seen(base, u))
  PROVE  LET r == Seen(base, t)
             q == Seen(base, u)
             x == Seen(r, u)
         IN  /\ r \in Rows /\ q \in Rows /\ x \in Rows
             /\ IF u.holdsRun THEN x.run = q.run /\ x.run_log = q.run_log
                              ELSE x.run = r.run /\ x.run_log = r.run_log
             /\ \A n \in Node :
                   \/ /\ x.node[n] = q.node[n] /\ x.decision[n] = q.decision[n]
                      /\ x.node_log[n] = q.node_log[n]
                   \/ /\ x.node[n] = r.node[n] /\ x.decision[n] = r.decision[n]
                      /\ x.node_log[n] = r.node_log[n]
             /\ LogsIn(q, x) /\ LogsIn(r, x)
             /\ \A n \in Node :
                   \/ x.node_log[n] = r.node_log[n]
                   \/ x.node_log[n] = q.node_log[n] /\ r.node_log[n] = base.node_log[n]
<1> DEFINE r == Seen(base, t)
           q == Seen(base, u)
           x == Seen(r, u)
<1>1. /\ r \in Rows
      /\ \A n \in Node : n \notin t.holds => r.node_log[n] = base.node_log[n]
  BY SeenFields
<1>2. /\ q \in Rows
      /\ u.holdsRun => q.run = u.mine.run /\ q.run_log = u.mine.run_log
      /\ \A n \in Node :
            IF n \in u.holds
            THEN /\ q.node[n] = u.mine.node[n] /\ q.decision[n] = u.mine.decision[n]
                 /\ q.node_log[n] = u.mine.node_log[n]
            ELSE q.node_log[n] = base.node_log[n]
  BY SeenFields
<1>3. LogsIn(base, r) /\ LogsIn(base, q)
  OBVIOUS
<1> HIDE DEF r, q
<1>4. /\ x \in Rows
      /\ x.run = IF u.holdsRun THEN u.mine.run ELSE r.run
      /\ x.run_log = IF u.holdsRun THEN u.mine.run_log ELSE r.run_log
      /\ \A n \in Node :
            IF n \in u.holds
            THEN /\ x.node[n] = u.mine.node[n] /\ x.decision[n] = u.mine.decision[n]
                 /\ x.node_log[n] = u.mine.node_log[n]
            ELSE /\ x.node[n] = r.node[n] /\ x.decision[n] = r.decision[n]
                 /\ x.node_log[n] = r.node_log[n]
  BY <1>1, SeenFields
<1> HIDE DEF x
<1>5. LogsIn(q, x)
  <2>1. SUFFICES ASSUME NEW n \in Node, NEW event \in NodeEvent, Logged(q, n, event)
                 PROVE  Logged(x, n, event)
    BY DEF LogsIn
  <2>2. CASE n \in u.holds
    BY <1>2, <1>4, <2>1, <2>2 DEF Logged
  <2>3. CASE n \notin u.holds
    <3>1. Logged(base, n, event)
      BY <1>2, <2>1, <2>3 DEF Logged
    <3>2. Logged(r, n, event)
      BY <1>3, <3>1 DEF LogsIn
    <3>3. QED
      BY <1>4, <2>3, <3>2 DEF Logged
  <2>4. QED
    BY <2>2, <2>3
<1>6. LogsIn(r, x)
  <2>1. SUFFICES ASSUME NEW n \in Node, NEW event \in NodeEvent, Logged(r, n, event)
                 PROVE  Logged(x, n, event)
    BY DEF LogsIn
  <2>2. CASE n \in u.holds
    <3>1. n \notin t.holds
      BY <2>2 DEF Apart
    <3>2. Logged(base, n, event)
      BY <1>1, <2>1, <3>1 DEF Logged
    <3>3. Logged(q, n, event)
      BY <1>3, <3>2 DEF LogsIn
    <3>4. QED
      BY <1>2, <1>4, <2>2, <3>3 DEF Logged
  <2>3. CASE n \notin u.holds
    BY <1>4, <2>1, <2>3 DEF Logged
  <2>4. QED
    BY <2>2, <2>3
<1>7. IF u.holdsRun THEN x.run = q.run /\ x.run_log = q.run_log
                    ELSE x.run = r.run /\ x.run_log = r.run_log
  BY <1>2, <1>4
<1>8. \A n \in Node :
         \/ /\ x.node[n] = q.node[n] /\ x.decision[n] = q.decision[n]
            /\ x.node_log[n] = q.node_log[n]
         \/ /\ x.node[n] = r.node[n] /\ x.decision[n] = r.decision[n]
            /\ x.node_log[n] = r.node_log[n]
  BY <1>2, <1>4
<1>9. \A n \in Node :
         \/ x.node_log[n] = r.node_log[n]
         \/ x.node_log[n] = q.node_log[n] /\ r.node_log[n] = base.node_log[n]
  BY <1>1, <1>2, <1>4 DEF Apart
<1>10. QED
  BY <1>1, <1>2, <1>4, <1>5, <1>6, <1>7, <1>8, <1>9 DEF r, q, x

\* Rows made up of rows that are sound, and that lose no event of either, are sound.
LEMMA MixedSound ==
  ASSUME NEW def, NEW r, NEW q, NEW x,
         x.run_log = q.run_log \/ x.run_log = r.run_log,
         \A n \in Node :
            \/ /\ x.node[n] = q.node[n] /\ x.decision[n] = q.decision[n]
               /\ x.node_log[n] = q.node_log[n]
            \/ /\ x.node[n] = r.node[n] /\ x.decision[n] = r.decision[n]
               /\ x.node_log[n] = r.node_log[n],
         LogsIn(q, x), LogsIn(r, x)
  PROVE  /\ Justified(def, r) /\ Justified(def, q) => Justified(def, x)
         /\ (\A n \in Node : RowReplays(def, r, n) /\ RowReplays(def, q, n)) =>
               \A n \in Node : RowReplays(def, x, n)
         /\ Waiting(def, r) = {} => Waiting(def, x) \subseteq Waiting(def, q)
<1>1. /\ \A n \in Node : Startable(def, r, n) => Startable(def, x, n)
      /\ AllComplete(r) => AllComplete(x)
      /\ SomeFailed(r) => SomeFailed(x)
  BY MoreShown
<1>2. /\ \A n \in Node : Startable(def, q, n) => Startable(def, x, n)
      /\ AllComplete(q) => AllComplete(x)
      /\ SomeFailed(q) => SomeFailed(x)
  BY MoreShown
<1>3. ASSUME Justified(def, r), Justified(def, q)  PROVE Justified(def, x)
  <2>1. \A n \in Node : Logged(x, n, "node.ready") =>
           Logged(q, n, "node.ready") \/ Logged(r, n, "node.ready")
    BY DEF Logged
  <2>2. \A event : RunLogged(x, event) => RunLogged(q, event) \/ RunLogged(r, event)
    BY DEF RunLogged
  <2>3. \A n \in Node : Logged(x, n, "node.ready") => Startable(def, x, n)
    BY <1>1, <1>2, <1>3, <2>1 DEF Justified
  <2>4. /\ RunLogged(x, "run.completed") => AllComplete(x)
        /\ RunLogged(x, "run.failed") => SomeFailed(x)
    BY <1>1, <1>2, <1>3, <2>2 DEF Justified
  <2>5. QED
    BY <2>3, <2>4 DEF Justified
<1>4. ASSUME NEW n \in Node, RowReplays(def, r, n), RowReplays(def, q, n)
      PROVE  RowReplays(def, x, n)
  BY <1>4 DEF RowReplays, ReplayedStatus
<1>5. Waiting(def, r) = {} => Waiting(def, x) \subseteq Waiting(def, q)
  BY DEF Waiting
<1>6. QED
  BY <1>3, <1>4, <1>5

\* A transaction that stays open is as sound after the commit as before.
LEMMA CommitKeeps ==
  ASSUME NEW def, NEW base \in Rows, NEW cut, NEW t \in Txn, NEW u \in Txn, Apart(t, u),
         t.pc = "commit", SessionSound(def, base, cut, t),
         SessionSound(def, base, cut, u), u.pc # "idle"
  PROVE  SessionSound(def, Seen(base, t), cut, u)
<1> DEFINE r == Seen(base, t)
           q == Seen(base, u)
           x == Seen(r, u)
<1>1. /\ OpenSound(def, base, t) /\ OpenSound(def, base, u)
      /\ ~cut => LoopSound(def, base, t) /\ LoopSound(def, base, u)
      /\ QueueSound(def, base, u) /\ StatusSound(base, u)
  BY DEF SessionSound
<1>2. /\ r.run # "absent" /\ q.run # "absent"
      /\ Justified(def, r) /\ Justified(def, q)
      /\ \A n \in Node : RowReplays(def, r, n) /\ RowReplays(def, q, n)
      /\ LogsIn(base, r) /\ LogsIn(base, q) /\ Continues(base, q)
  BY <1>1 DEF OpenSound
<1>3. /\ r \in Rows /\ q \in Rows /\ x \in Rows
      /\ IF u.holdsRun THEN x.run = q.run /\ x.run_log = q.run_log
                       ELSE x.run = r.run /\ x.run_log = r.run_log
      /\ \A n \in Node :
            \/ /\ x.node[n] = q.node[n] /\ x.decision[n] = q.decision[n]
               /\ x.node_log[n] = q.node_log[n]
            \/ /\ x.node[n] = r.node[n] /\ x.decision[n] = r.decision[n]
               /\ x.node_log[n] = r.node_log[n]
      /\ LogsIn(q, x) /\ LogsIn(r, x)
      /\ \A n \in Node :
            \/ x.node_log[n] = r.node_log[n]
            \/ x.node_log[n] = q.node_log[n] /\ r.node_log[n] = base.node_log[n]
  BY <1>2, CommitSeen
<1>4. ~cut => Waiting(def, r) = {}
  BY <1>1 DEF LoopSound
<1>5. /\ QueueSound(def, base, u) /\ StatusSound(base, u)
      /\ ~cut => LoopSound(def, base, u)
  BY <1>1
<1> HIDE DEF x
<1>6. /\ \A n \in Node : Startable(def, q, n) => Startable(def, x, n)
      /\ AllComplete(q) => AllComplete(x)
      /\ SomeFailed(q) => SomeFailed(x)
  BY <1>3, MoreShown
<1> HIDE DEF r, q
<1>7. x.run_log = q.run_log \/ x.run_log = r.run_log
  BY <1>3
<1>8. /\ Justified(def, x) /\ \A n \in Node : RowReplays(def, x, n)
      /\ ~cut => Waiting(def, x) \subseteq Waiting(def, q)
  BY <1>2, <1>3, <1>4, <1>7, MixedSound
<1>9. /\ Continues(r, x)
      /\ \A n \in Node : Unfinished(base, q, n) => Unfinished(r, x, n)
  <2>1. SUFFICES ASSUME NEW n \in Node
                 PROVE  LET old == r.node_log[n]
                            log == x.node_log[n]
                        IN  /\ Len(old) <= Len(log)
                            /\ Len(old) = Len(log) => log = old
                            /\ \A i \in (Len(old) + 1)..(Len(log) - 1) : log[i] = "node.ready"
                            /\ Unfinished(base, q, n) => Unfinished(r, x, n)
    BY DEF Continues
  <2>2. CASE x.node_log[n] = r.node_log[n]
    <3>1. r.node_log \in [Node -> Seq(NodeEvent)]
      BY <1>3 DEF Rows
    <3>2. r.node_log[n] \in Seq(NodeEvent)
      BY <3>1
    <3>3. Len(r.node_log[n]) \in Nat
      BY <3>2
    <3>4. QED
      BY <2>2, <3>3 DEF Unfinished
  <2>3. CASE x.node_log[n] = q.node_log[n] /\ r.node_log[n] = base.node_log[n]
    BY <1>2, <2>3 DEF Continues, Unfinished
  <2>4. QED
    BY <1>3, <2>2, <2>3
<1>10. OpenSound(def, r, u)
  BY <1>2, <1>3, <1>8, <1>9 DEF OpenSound, x
<1>11. QueueSound(def, r, u)
  <2>1. u.pc = "write" => \A n \in DOMAIN u.batch : n \in Node
    BY DEF Txn, Batches
  <2>2. \A n \in ToSet(u.queue) : n \in Node
    BY DEF Txn, ToSet
  <2>3. QED
    BY <1>5, <1>6, <1>9, <2>1, <2>2 DEF QueueSound, x, q
<1>12. StatusSound(r, u)
  BY <1>5, <1>6 DEF StatusSound, x, q
<1>13. ~cut => LoopSound(def, r, u)
  BY <1>5, <1>8 DEF LoopSound, x, q
<1>14. QED
  BY <1>10, <1>11, <1>12, <1>13 DEF SessionSound, r

LEMMA CommitInv == ASSUME IInv, NEW s \in Session, Commit(s)  PROVE IInv'
<1> DEFINE t == txn[s]
<1>1. /\ t.pc = "commit" /\ db' = Seen(db, t)
      /\ txn' = [txn EXCEPT ![s] = NoTxn]
      /\ UNCHANGED <<definition, exhausted>>
  <2>1. View(s) = Seen(db, t)
    BY OneSession
  <2>2. QED
    BY <2>1 DEF Commit, SetTxn, At
<1>2. /\ t \in Txn /\ db \in Rows /\ definition \in Definition /\ exhausted \in BOOLEAN
      /\ SessionSound(definition, db, exhausted, t)
      /\ Seen(db, t) \in Rows
      /\ \A o \in Session : o # s => Apart(t, txn[o])
  BY OneSession
<1>3. \A o \in Session : txn'[o] = IF o = s THEN NoTxn ELSE txn[o]
  BY <1>1 DEF IInv, Typed
<1>4. Typed'
  BY <1>1, <1>2, NoTxnType DEF IInv, Typed
<1>5. Committed(definition, Seen(db, t), exhausted)
  BY <1>1, <1>2 DEF SessionSound, OpenSound, LoopSound, Committed
<1>6. SessionSound(definition, Seen(db, t), exhausted, NoTxn)
  BY <1>2, <1>5, NoTxnSound
<1>7. \A o \in Session : o # s => SessionSound(definition, Seen(db, t), exhausted, txn[o])
  <2>1. SUFFICES ASSUME NEW o \in Session, o # s
                 PROVE  SessionSound(definition, Seen(db, t), exhausted, txn[o])
    OBVIOUS
  <2>2. txn[o] \in Txn /\ SessionSound(definition, db, exhausted, txn[o])
    BY OneSession
  <2>3. CASE txn[o].pc = "idle"
    <3>1. txn[o] = NoTxn
      BY <2>2, <2>3 DEF SessionSound
    <3>2. QED
      BY <1>6, <3>1
  <2>4. CASE txn[o].pc # "idle"
    BY <1>1, <1>2, <2>1, <2>2, <2>4, CommitKeeps
  <2>5. QED
    BY <2>3, <2>4
<1>8. \A o \in Session : SessionSound(definition, db, exhausted, txn[o])'
  BY <1>1, <1>3, <1>6, <1>7
<1>9. Exclusive'
  <2>1. \A o, p \in Session : o # p => Apart(txn[o], txn[p])
    BY DEF IInv, Exclusive
  <2>2. \A o \in Session : Apart(NoTxn, txn[o]) /\ Apart(txn[o], NoTxn)
    BY DEF Apart, NoTxn
  <2>3. QED
    BY <1>3, <2>1, <2>2 DEF Exclusive
<1>10. QED
  BY <1>1, <1>4, <1>5, <1>8, <1>9 DEF IInv

-----------------------------------------------------------------------------
(* The theorems.                                                           *)

LEMMA InitInv == Init => IInv
<1> SUFFICES ASSUME Init  PROVE IInv
  OBVIOUS
<1>1. /\ definition \in Definitions /\ db = NoRows /\ exhausted = FALSE
      /\ txn = [s \in Session |-> NoTxn]
  BY DEF Init
<1>2. Typed
  BY <1>1, TxnAssumptions, NoRowsType, NoTxnType DEF Typed
<1>3. Committed(definition, NoRows, exhausted)
  <2>1. \A n \in Node : NoRows.node_log[n] = <<>> /\ NoRows.node[n] = "pending"
    BY DEF NoRows
  <2>2. NoRows.run_log = <<>> /\ NoRows.run = "absent"
    BY DEF NoRows
  <2>3. \A n \in Node, event \in NodeEvent : ~Logged(NoRows, n, event)
    BY <2>1 DEF Logged
  <2>4. \A event : ~RunLogged(NoRows, event)
    BY <2>2 DEF RunLogged
  <2>5. Justified(definition, NoRows)
    BY <2>3, <2>4 DEF Justified, NodeEvent
  <2>6. Waiting(definition, NoRows) = {}
    BY <2>1 DEF Waiting
  <2>7. QED
    BY <2>2, <2>5, <2>6 DEF Committed
<1>4. \A s \in Session : SessionSound(definition, db, exhausted, txn[s])
  BY <1>1, <1>3, NoRowsType, NoTxnSound
<1>5. Exclusive
  BY <1>1 DEF Exclusive, Apart, NoTxn
<1>6. QED
  BY <1>1, <1>2, <1>3, <1>4, <1>5 DEF IInv

LEMMA NextInv == IInv /\ [Next]_vars => IInv'
<1> SUFFICES ASSUME IInv, [Next]_vars  PROVE IInv'
  OBVIOUS
<1>1. CASE UNCHANGED vars
  BY <1>1 DEF vars, IInv, Typed, Committed, Exclusive
<1>2. ASSUME NEW s \in Session, CreateRun(s)  PROVE IInv'
  BY <1>2, CreateRunInv
<1>3. ASSUME NEW s \in Session, NEW n \in Node, MarkManualDone(s, n)  PROVE IInv'
  BY <1>3, MarkManualDoneInv
<1>4. ASSUME NEW s \in Session, NEW n \in Node, NEW decision \in {"approved", "rejected"},
             SubmitGateDecision(s, n, decision)
      PROVE  IInv'
  BY <1>4, SubmitGateDecisionInv
<1>5. ASSUME NEW s \in Session, CancelRun(s)  PROVE IInv'
  BY <1>5, CancelRunInv
<1>6. ASSUME NEW s \in Session, Step(s)  PROVE IInv'
  BY <1>6, DispatchReadyAdaptersInv, AdvancePassInv, ApplyTransitionInv, SkipNodeInv,
     CancelRunRowInv, ComputeRunStatusInv, FinalizeRunStatusInv, CommitInv DEF Step
<1>7. ASSUME NEW s \in Session, Rollback(s)  PROVE IInv'
  BY <1>7, RollbackInv
<1>8. QED
  BY <1>1, <1>2, <1>3, <1>4, <1>5, <1>6, <1>7 DEF Next

\* The inductive invariant: what is committed, what each request sees and is
\* about to write, and the row locks that keep the requests apart.
THEOREM Inductive == Spec => []IInv
BY InitInv, NextInv, PTL DEF Spec

\* Every variable keeps its type, however requests overlap.
THEOREM TypeCorrect == Spec => []TypeOK
<1>1. IInv => TypeOK
  BY DEF IInv, Typed, Txn, PC, TypeOK
<1>2. QED
  BY <1>1, Inductive, PTL

\* Stale reads never make the run say more than its events bear out: a node
\* is promoted, and the run completed or failed, only after the events for it.
THEOREM EventsJustified == Spec => []EventsAreJustified
<1>1. IInv => EventsAreJustified
  <2>1. IInv => Justified(definition, db)
    BY DEF IInv, Committed
  <2>2. Justified(definition, db) => EventsAreJustified
    BY DEF Justified, Startable, AllComplete, SomeFailed, Shown, RunLogged,
           EventsAreJustified, Justifies, InRunLog
  <2>3. QED
    BY <2>1, <2>2
<1>2. QED
  BY <1>1, Inductive, PTL

\* No request leaves an automated node ready for somebody else, unless the
\* drive was cut off by LoopLimit.
THEOREM NoAdapterIsLeft == Spec => []AutomatedNeverWaits
<1>1. IInv => AutomatedNeverWaits
  BY DEF IInv, Committed, Waiting, AutomatedNeverWaits
<1>2. QED
  BY <1>1, Inductive, PTL
-----------------------------------------------------------------------------
(* One batch, applied at once or one transition after the other.           *)

\* The rows after a batch of transitions, field by field.
LEMMA BatchFields ==
  ASSUME NEW rows \in Rows, NEW b, DOMAIN b \subseteq Node, \A n \in DOMAIN b : b[n] \in Coherent
  PROVE  LET new == ApplyTransitions(rows, b) IN
         /\ new \in Rows
         /\ new.run = rows.run /\ new.completed_at = rows.completed_at
         /\ new.run_log = rows.run_log
         /\ \A n \in Node :
              /\ new.node[n] = IF n \in DOMAIN b THEN b[n].new_status ELSE rows.node[n]
              /\ new.node_log[n] = IF n \in DOMAIN b
                                   THEN Append(rows.node_log[n], b[n].event_type)
                                   ELSE rows.node_log[n]
              /\ new.decision[n] = IF n \in DOMAIN b /\ b[n].gate_decision # "none"
                                   THEN b[n].gate_decision ELSE rows.decision[n]
<1> DEFINE node == [n \in Node |-> IF n \in DOMAIN b THEN b[n].new_status ELSE rows.node[n]]
           decision == [n \in Node |-> IF n \in DOMAIN b /\ b[n].gate_decision # "none"
                                       THEN b[n].gate_decision ELSE rows.decision[n]]
           log == [n \in Node |-> IF n \in DOMAIN b
                                  THEN Append(rows.node_log[n], b[n].event_type)
                                  ELSE rows.node_log[n]]
<1>1. \A n \in DOMAIN b : /\ b[n].new_status \in NodeStatus /\ b[n].event_type \in NodeEvent
                          /\ b[n].gate_decision \in GateDecision
  BY DEF Coherent, Moves, NodeStatus, NodeEvent, GateDecision
<1>2. /\ node \in [Node -> NodeStatus] /\ decision \in [Node -> GateDecision]
      /\ log \in [Node -> Seq(NodeEvent)]
  BY <1>1 DEF Rows
<1>3. ApplyTransitions(rows, b) =
        [rows EXCEPT !.node = node, !.decision = decision, !.node_log = log]
  BY DEF ApplyTransitions
<1> HIDE DEF node, decision, log
<1>4. LET new == ApplyTransitions(rows, b) IN
      /\ new \in Rows
      /\ new.run = rows.run /\ new.completed_at = rows.completed_at
      /\ new.run_log = rows.run_log
      /\ new.node = node /\ new.decision = decision /\ new.node_log = log
  BY <1>2, <1>3 DEF Rows
<1>5. QED
  BY <1>4 DEF node, decision, log

\* What is left of a batch when one of its transitions has been written.
LEMMA OneOfBatch ==
  ASSUME NEW rows \in Rows, NEW b \in Batches, NEW S \in SUBSET DOMAIN b, NEW n \in S
  PROVE  ApplyTransitions(Moved(rows, n, b[n]), Restrict(b, S \ {n})) =
            ApplyTransitions(rows, Restrict(b, S))
<1> DEFINE all == Restrict(b, S)
           left == Restrict(b, S \ {n})
           once == ApplyTransitions(rows, all)
           one == Moved(rows, n, b[n])
           rest == ApplyTransitions(one, left)
<1>1. S \subseteq Node /\ \A m \in S : b[m] \in Coherent
  BY DEF Batches
<1>2. /\ DOMAIN all = S /\ \A m \in S : all[m] = b[m]
      /\ DOMAIN left = S \ {n} /\ \A m \in S \ {n} : left[m] = b[m]
  BY DEF Restrict
<1>3. /\ one \in Rows
      /\ one.run = rows.run /\ one.completed_at = rows.completed_at
      /\ one.run_log = rows.run_log
      /\ one.node[n] = b[n].new_status
      /\ one.node_log[n] = Append(rows.node_log[n], b[n].event_type)
      /\ one.decision[n] = IF b[n].gate_decision = "none" THEN rows.decision[n]
                           ELSE b[n].gate_decision
      /\ \A m \in Node \ {n} : /\ one.node[m] = rows.node[m]
                               /\ one.decision[m] = rows.decision[m]
                               /\ one.node_log[m] = rows.node_log[m]
  BY <1>1, WriteFields
<1> HIDE DEF all, left, one
<1>4. /\ once \in Rows
      /\ once.run = rows.run /\ once.completed_at = rows.completed_at
      /\ once.run_log = rows.run_log
      /\ \A m \in Node :
           /\ once.node[m] = IF m \in S THEN b[m].new_status ELSE rows.node[m]
           /\ once.node_log[m] = IF m \in S THEN Append(rows.node_log[m], b[m].event_type)
                                            ELSE rows.node_log[m]
           /\ once.decision[m] = IF m \in S /\ b[m].gate_decision # "none"
                                 THEN b[m].gate_decision ELSE rows.decision[m]
  <2>1. DOMAIN all \subseteq Node /\ \A m \in DOMAIN all : all[m] \in Coherent
    BY <1>1, <1>2
  <2>2. QED
    BY <1>2, <2>1, BatchFields
<1>5. /\ rest \in Rows
      /\ rest.run = one.run /\ rest.completed_at = one.completed_at
      /\ rest.run_log = one.run_log
      /\ \A m \in Node :
           /\ rest.node[m] = IF m \in S \ {n} THEN b[m].new_status ELSE one.node[m]
           /\ rest.node_log[m] = IF m \in S \ {n} THEN Append(one.node_log[m], b[m].event_type)
                                                  ELSE one.node_log[m]
           /\ rest.decision[m] = IF m \in S \ {n} /\ b[m].gate_decision # "none"
                                 THEN b[m].gate_decision ELSE one.decision[m]
  <2>1. DOMAIN left \subseteq Node /\ \A m \in DOMAIN left : left[m] \in Coherent
    BY <1>1, <1>2
  <2>2. QED
    BY <1>2, <1>3, <2>1, BatchFields
<1> HIDE DEF once, rest
<1>6. \A m \in Node : /\ rest.node[m] = once.node[m]
                      /\ rest.decision[m] = once.decision[m]
                      /\ rest.node_log[m] = once.node_log[m]
  <2>1. SUFFICES ASSUME NEW m \in Node
                 PROVE  /\ rest.node[m] = once.node[m]
                        /\ rest.decision[m] = once.decision[m]
                        /\ rest.node_log[m] = once.node_log[m]
    OBVIOUS
  <2>2. CASE m = n
    BY <1>3, <1>4, <1>5, <2>2
  <2>3. CASE m \in S \ {n}
    BY <1>3, <1>4, <1>5, <2>3
  <2>4. CASE m \notin S
    BY <1>3, <1>4, <1>5, <2>4
  <2>5. QED
    BY <2>2, <2>3, <2>4
<1>7. rest = once
  BY <1>3, <1>4, <1>5, <1>6, RowsEqual
<1>8. QED
  BY <1>7 DEF rest, once, one, all, left

\* An empty batch changes nothing, and a batch is all of itself.
LEMMA WholeAndEmpty ==
  ASSUME NEW rows \in Rows, NEW b \in Batches
  PROVE  /\ DOMAIN b = {} => ApplyTransitions(rows, b) = rows
         /\ ApplyTransitions(rows, Restrict(b, {})) = rows
         /\ Restrict(b, DOMAIN b) = b
<1>1. ASSUME NEW c, DOMAIN c = {}
      PROVE  ApplyTransitions(rows, c) = rows
  <2>1. LET new == ApplyTransitions(rows, c) IN
        /\ new \in Rows
        /\ new.run = rows.run /\ new.completed_at = rows.completed_at
        /\ new.run_log = rows.run_log
        /\ \A n \in Node : /\ new.node[n] = rows.node[n]
                           /\ new.node_log[n] = rows.node_log[n]
                           /\ new.decision[n] = rows.decision[n]
    BY <1>1, BatchFields
  <2>2. QED
    BY <2>1, RowsEqual
<1>2. DOMAIN Restrict(b, {}) = {}
  BY DEF Restrict
<1>3. Restrict(b, DOMAIN b) = b
  <2>1. PICK S \in SUBSET Node : b \in [S -> Coherent]
    BY DEF Batches
  <2>2. DOMAIN b = S
    BY <2>1
  <2>3. QED
    BY <2>1, <2>2 DEF Restrict
<1> HIDE DEF Restrict
<1>4. QED
  BY <1>1, <1>2, <1>3

-----------------------------------------------------------------------------
(* A cancellation, row by row.                                             *)

OpenNodes(rows) == {n \in Node : rows.node[n] \notin Terminal}

Skipping(rows) == [n \in OpenNodes(rows) |-> Moves("skipped", "node.skipped")]

LEMMA CancelledIs == ASSUME NEW rows
                     PROVE Cancelled(rows) = MarkCancelled(ApplyTransitions(rows, Skipping(rows)))
BY DEF Cancelled, Skipping, OpenNodes

\* When one open node has been skipped, the rest of the cancellation is the same.
LEMMA CancelledAfterSkip ==
  ASSUME NEW rows \in Rows, NEW n \in OpenNodes(rows)
  PROVE  Cancelled(Moved(rows, n, Moves("skipped", "node.skipped"))) = Cancelled(rows)
<1> DEFINE b == Skipping(rows)
           move == Moves("skipped", "node.skipped")
           one == Moved(rows, n, move)
<1>1. /\ b \in Batches /\ DOMAIN b = OpenNodes(rows) /\ b[n] = move
      /\ move \in Coherent /\ n \in Node
  BY DEF Skipping, Batches, Coherent, OpenNodes
<1>2. /\ one.node[n] = "skipped"
      /\ \A m \in Node \ {n} : one.node[m] = rows.node[m]
  <2>1. move.new_status = "skipped"
    BY DEF Moves
  <2> HIDE DEF move
  <2>2. QED
    BY <1>1, <2>1, WriteFields
<1>3. OpenNodes(one) = OpenNodes(rows) \ {n}
  BY <1>2 DEF OpenNodes, Terminal
<1>4. Skipping(one) = Restrict(b, OpenNodes(rows) \ {n})
  BY <1>3 DEF Skipping, Restrict
<1>5. b = Restrict(b, OpenNodes(rows))
  BY <1>1, WholeAndEmpty
<1> HIDE DEF b, move
<1>6. ApplyTransitions(one, Skipping(one)) = ApplyTransitions(rows, b)
  BY <1>1, <1>4, <1>5, OneOfBatch
<1>7. QED
  BY <1>6, CancelledIs DEF b, move

\* When no node is open, only the run's own row is left.
LEMMA CancelledAtLast ==
  ASSUME NEW rows \in Rows, OpenNodes(rows) = {}
  PROVE  Cancelled(rows) = MarkCancelled(rows)
<1>1. Skipping(rows) \in Batches /\ DOMAIN Skipping(rows) = {}
  <2>1. Skipping(rows) \in [{} -> Coherent]
    BY DEF Skipping
  <2>2. QED
    BY <2>1 DEF Batches
<1>2. QED
  BY <1>1, WholeAndEmpty, CancelledIs

-----------------------------------------------------------------------------
(* Queues that name each node once.                                        *)

-----------------------------------------------------------------------------
(* A transaction seen as a request of WorkflowRun.                         *)

\* The rows that transaction t is about to have written, and where that leaves it.
Meant(base, t) ==
    CASE t.pc = "idle"       -> base
      [] t.pc = "write"      -> ApplyTransitions(Seen(base, t), Restrict(t.batch, ToSet(t.queue)))
      [] t.pc = "cancel"     -> Cancelled(Seen(base, t))
      [] t.pc = "update_run" -> Finalize(Seen(base, t), t.status)
      [] OTHER               -> Seen(base, t)

Label(t) ==
    CASE t.pc = "write" -> t.next
      [] t.pc \in {"cancel", "update_run"} -> "commit"
      [] OTHER -> t.pc

\* Its queue names each node once, and all it has to cancel.
Orderly(base, t) ==
    /\ t.pc \in {"write", "cancel"} => Distinct(t.queue)
    /\ t.pc = "cancel" => OpenNodes(Seen(base, t)) \subseteq ToSet(t.queue)

\* The refinement mapping of the only session.
LEMMA Mapping ==
  ASSUME NEW s, Session = {s}
  PROVE  /\ open = txn[s] /\ Applied = Meant(db, txn[s]) /\ Stage = Label(txn[s])
         /\ open' = txn'[s] /\ Applied' = Meant(db', txn'[s]) /\ Stage' = Label(txn'[s])
<1>1. only = s
  BY DEF only
<1>2. open = txn[s] /\ View(only) = Seen(db, txn[s])
  BY <1>1 DEF open, View, Seen
<1>3. open' = txn'[s] /\ View(only)' = Seen(db', txn'[s])
  BY <1>1 DEF open, View, Seen
<1>4. Applied = Meant(db, txn[s]) /\ Applied' = Meant(db', txn'[s])
  BY <1>2, <1>3 DEF Applied, Meant
<1>5. Stage = Label(txn[s]) /\ Stage' = Label(txn'[s])
  BY <1>2, <1>3 DEF Stage, Label
<1>6. QED
  BY <1>2, <1>3, <1>4, <1>5

\* A batch counts as applied when it is planned.
LEMMA PlanMeans ==
  ASSUME NEW base \in Rows, NEW t \in Txn, NEW batch \in Batches,
         NEW next \in {"dispatch", "advance", "finalize", "force_failed"},
         NEW w \in Planned(t, batch, next)
  PROVE  /\ Meant(base, w) = ApplyTransitions(Seen(base, t), batch) /\ Label(w) = next
         /\ w.dispatched = t.dispatched /\ w.iteration = t.iteration
         /\ Orderly(base, w)
<1>1. /\ w.mine = t.mine /\ w.holds = t.holds /\ w.holdsRun = t.holdsRun
      /\ w.next = next /\ w.dispatched = t.dispatched /\ w.iteration = t.iteration
      /\ \/ w.pc = next /\ DOMAIN batch = {}
         \/ /\ w.pc = "write" /\ w.batch = batch
            /\ w.queue \in SetToSeqs(DOMAIN batch)
  BY PlannedFields
<1>2. Seen(base, w) = Seen(base, t) /\ Seen(base, t) \in Rows
  BY <1>1, SeenFields DEF Seen
<1>3. CASE w.pc = next /\ DOMAIN batch = {}
  <2>1. Meant(base, w) = Seen(base, t) /\ Label(w) = next
    BY <1>2, <1>3 DEF Meant, Label
  <2>2. ApplyTransitions(Seen(base, t), batch) = Seen(base, t)
    BY <1>2, <1>3, WholeAndEmpty
  <2>3. Orderly(base, w)
    BY <1>3 DEF Orderly
  <2>4. QED
    BY <1>1, <2>1, <2>2, <2>3
<1>4. CASE w.pc = "write" /\ w.batch = batch /\ w.queue \in SetToSeqs(DOMAIN batch)
  <2>1. IsFiniteSet(DOMAIN batch)
    <3>1. DOMAIN batch \in SUBSET Node
      BY DEF Batches
    <3>2. QED
      BY <3>1, TxnAssumptions, FS_Subset
  <2>2. Distinct(w.queue) /\ ToSet(w.queue) = DOMAIN batch
    BY <1>4, <2>1, OrderIsComplete
  <2>3. Restrict(w.batch, ToSet(w.queue)) = batch
    BY <1>2, <1>4, <2>2, WholeAndEmpty
  <2>4. Meant(base, w) = ApplyTransitions(Seen(base, t), batch) /\ Label(w) = next
    BY <1>1, <1>2, <1>4, <2>3 DEF Meant, Label
  <2>5. Orderly(base, w)
    BY <1>4, <2>2 DEF Orderly
  <2>6. QED
    BY <1>1, <2>4, <2>5
<1>5. QED
  BY <1>1, <1>3, <1>4

\* What a transaction sees when it has written.
LEMMA SeesWhatItWrote ==
  ASSUME NEW base \in Rows, NEW t \in Txn, NEW rows \in Rows,
         NEW nodes \in SUBSET Node, t.holds \subseteq nodes,
         NEW run \in BOOLEAN, t.holdsRun => run,
         ~run => /\ rows.run = Seen(base, t).run
                 /\ rows.completed_at = Seen(base, t).completed_at
                 /\ rows.run_log = Seen(base, t).run_log,
         \A n \in Node \ nodes : /\ rows.node[n] = Seen(base, t).node[n]
                                 /\ rows.decision[n] = Seen(base, t).decision[n]
                                 /\ rows.node_log[n] = Seen(base, t).node_log[n],
         NEW w, w.mine = Overlay(NoRows, rows, nodes, run), w.holds = nodes,
         w.holdsRun = run
  PROVE  Seen(base, w) = rows
<1>1. Owned(base, rows, nodes, run)
  BY SeenFields DEF Owned
<1>2. QED
  BY <1>1, SeenWritten DEF Seen

\* The record that Written makes, all of it.
LEMMA WrittenRecord ==
  ASSUME NEW t \in Txn, NEW rows, NEW nodes, NEW run, NEW label
  PROVE  LET w == Written(t, rows, nodes, run, label) IN
         /\ w.pc = label /\ w.mine = Overlay(NoRows, rows, nodes, run)
         /\ w.holds = nodes /\ w.holdsRun = run
         /\ w.batch = t.batch /\ w.queue = t.queue /\ w.next = t.next
         /\ w.dispatched = t.dispatched /\ w.iteration = t.iteration
         /\ w.status = t.status
BY DEF Written, Txn

-----------------------------------------------------------------------------
(* Statements that WorkflowRun does not show.                              *)

\* What the two know of one another while one statement is executed.
Unseen(base, t, w) ==
    /\ Meant(base, w) = Meant(base, t) /\ Label(w) = Label(t)
    /\ w.dispatched = t.dispatched /\ w.iteration = t.iteration
    /\ Orderly(base, w)

LEMMA ApplyTransitionUnseen ==
  ASSUME IInv, NEW s \in Session, ApplyTransition(s), Orderly(db, txn[s])
  PROVE  Unseen(db, txn[s], txn'[s]) /\ UNCHANGED <<definition, db, exhausted>>
<1> DEFINE t == txn[s]  n == Head(t.queue)  move == t.batch[n]  r == Seen(db, t)
           rows == Moved(r, n, move)
           nodes == t.holds \cup {n}
           pc == IF Len(t.queue) = 1 THEN t.next ELSE "write"
           batch == IF Len(t.queue) = 1 THEN <<>> ELSE t.batch
           v == Written(t, rows, nodes, t.holdsRun, pc)
           w == [v EXCEPT !.queue = Tail(t.queue), !.batch = batch]
<1>1. /\ t.pc = "write" /\ UNCHANGED <<definition, db, exhausted>>
      /\ t \in Txn /\ db \in Rows /\ QueueSound(definition, db, t)
      /\ txn \in [Session -> Txn] /\ r = View(s) /\ r \in Rows
  BY OneSession DEF ApplyTransition, At, SessionSound, IInv, Typed
<1>2. txn'[s] = w
  <2>1. txn' = [txn EXCEPT ![s] = w]
    BY <1>1 DEF ApplyTransition, SetTxn, Moved, Written
  <2>2. QED
    BY <1>1, <2>1
<1>3. /\ t.next \in {"dispatch", "advance", "finalize", "force_failed"}
      /\ t.queue # <<>> /\ ToSet(t.queue) \subseteq DOMAIN t.batch
      /\ t.queue \in Seq(Node) /\ t.batch \in Batches /\ t.holds \in SUBSET Node
      /\ t.holdsRun \in BOOLEAN /\ Distinct(t.queue)
  BY <1>1 DEF QueueSound, Txn, Orderly
<1>4. /\ Distinct(Tail(t.queue)) /\ n \in ToSet(t.queue)
      /\ ToSet(Tail(t.queue)) = ToSet(t.queue) \ {n}
      /\ Tail(t.queue) = <<>> <=> Len(t.queue) = 1
  BY <1>3, DistinctTail, QueueTail
<1>5. n \in Node /\ move \in Coherent
  BY <1>3, <1>4 DEF Batches
<1> HIDE DEF n, move, r
<1>6. /\ rows \in Rows
      /\ rows.run = r.run /\ rows.completed_at = r.completed_at /\ rows.run_log = r.run_log
      /\ \A m \in Node \ {n} : /\ rows.node[m] = r.node[m]
                               /\ rows.decision[m] = r.decision[m]
                               /\ rows.node_log[m] = r.node_log[m]
  BY <1>1, <1>5, WriteFields
<1>7. /\ v.pc = pc /\ v.mine = Overlay(NoRows, rows, nodes, t.holdsRun)
      /\ v.holds = nodes /\ v.holdsRun = t.holdsRun
      /\ v.batch = t.batch /\ v.queue = t.queue /\ v.next = t.next
      /\ v.dispatched = t.dispatched /\ v.iteration = t.iteration
  BY <1>1, WrittenRecord
<1> HIDE DEF rows, pc, batch, nodes
<1>8. /\ w.pc = pc /\ w.mine = Overlay(NoRows, rows, nodes, t.holdsRun)
      /\ w.holds = nodes /\ w.holdsRun = t.holdsRun
      /\ w.batch = batch /\ w.queue = Tail(t.queue) /\ w.next = t.next
      /\ w.dispatched = t.dispatched /\ w.iteration = t.iteration
  BY <1>1, <1>7 DEF Written, Txn
<1> HIDE DEF w, v
<1>9. nodes \in SUBSET Node /\ t.holds \subseteq nodes /\ n \in nodes
  BY <1>3, <1>5 DEF nodes
<1>10. Seen(db, w) = rows
  <2>1. \A m \in Node \ nodes : m \in Node \ {n}
    BY <1>9
  <2>2. QED
    BY <1>1, <1>3, <1>6, <1>8, <1>9, <2>1, SeesWhatItWrote DEF r
<1>11. ApplyTransitions(rows, Restrict(t.batch, ToSet(Tail(t.queue)))) = Meant(db, t)
  <2>1. Meant(db, t) = ApplyTransitions(r, Restrict(t.batch, ToSet(t.queue)))
    BY <1>1 DEF Meant, r
  <2>2. QED
    BY <1>1, <1>3, <1>4, <2>1, OneOfBatch DEF rows, move
<1>12. Meant(db, w) = Meant(db, t) /\ Label(w) = Label(t)
  <2>1. CASE Len(t.queue) = 1
    <3>1. w.pc = t.next /\ ToSet(Tail(t.queue)) = {}
      BY <1>4, <1>8, <2>1 DEF pc, ToSet
    <3>2. Meant(db, w) = rows
      BY <1>3, <1>10, <3>1 DEF Meant
    <3>3. ApplyTransitions(rows, Restrict(t.batch, {})) = rows
      BY <1>3, <1>6, WholeAndEmpty
    <3>4. Label(w) = t.next /\ Label(t) = t.next
      BY <1>1, <1>3, <3>1 DEF Label
    <3>5. QED
      BY <1>11, <3>1, <3>2, <3>3, <3>4
  <2>2. CASE Len(t.queue) # 1
    <3>1. w.pc = "write" /\ w.batch = t.batch
      BY <1>8, <2>2 DEF pc, batch
    <3>2. QED
      BY <1>1, <1>8, <1>10, <1>11, <3>1 DEF Meant, Label
  <2>3. QED
    BY <2>1, <2>2
<1>13. Orderly(db, w)
  <2>1. w.pc # "cancel"
    BY <1>3, <1>8 DEF pc
  <2>2. QED
    BY <1>4, <1>8, <2>1 DEF Orderly
<1>14. QED
  BY <1>1, <1>2, <1>8, <1>12, <1>13 DEF Unseen

LEMMA SkipNodeUnseen ==
  ASSUME IInv, NEW s \in Session, SkipNode(s), Orderly(db, txn[s])
  PROVE  Unseen(db, txn[s], txn'[s]) /\ UNCHANGED <<definition, db, exhausted>>
<1> DEFINE t == txn[s]  n == Head(t.queue)  r == Seen(db, t)
           move == Moves("skipped", "node.skipped")
           skip == IF r.node[n] \in Terminal THEN <<>> ELSE [m \in {n} |-> move]
           rows == ApplyTransitions(r, skip)
           nodes == t.holds \cup {n}
           v == Written(t, rows, nodes, t.holdsRun, "cancel")
           w == [v EXCEPT !.queue = Tail(t.queue)]
<1>1. /\ t.pc = "cancel" /\ t.queue # <<>> /\ UNCHANGED <<definition, db, exhausted>>
      /\ t \in Txn /\ db \in Rows
      /\ txn \in [Session -> Txn] /\ r = View(s) /\ r \in Rows
  BY OneSession DEF SkipNode, At, IInv, Typed
<1>2. txn'[s] = w
  <2>1. txn' = [txn EXCEPT ![s] = w]
    BY <1>1 DEF SkipNode, SetTxn, Written
  <2>2. QED
    BY <1>1, <2>1
<1>3. /\ t.queue \in Seq(Node) /\ t.holds \in SUBSET Node
      /\ t.holdsRun \in BOOLEAN /\ Distinct(t.queue) /\ OpenNodes(r) \subseteq ToSet(t.queue)
  BY <1>1 DEF Txn, Orderly
<1>4. /\ Distinct(Tail(t.queue)) /\ ToSet(Tail(t.queue)) = ToSet(t.queue) \ {n}
      /\ n \in Node
  BY <1>1, <1>3, DistinctTail
<1>5. move \in Coherent /\ move.new_status = "skipped"
  BY DEF Coherent, Moves
<1> HIDE DEF r, n
<1>6. /\ rows \in Rows
      /\ rows.run = r.run /\ rows.completed_at = r.completed_at /\ rows.run_log = r.run_log
      /\ \A m \in Node \ {n} : /\ rows.node[m] = r.node[m]
                               /\ rows.decision[m] = r.decision[m]
                               /\ rows.node_log[m] = r.node_log[m]
      /\ rows.node[n] \in Terminal
      /\ Cancelled(rows) = Cancelled(r)
  <2>1. CASE r.node[n] \in Terminal
    <3>1. rows = r
      BY <1>1, <2>1, NothingMoved
    <3> HIDE DEF rows
    <3>2. QED
      BY <1>1, <2>1, <3>1
  <2>2. CASE r.node[n] \notin Terminal
    <3>1. rows = Moved(r, n, move)
      BY <2>2 DEF Moved
    <3>2. n \in OpenNodes(r)
      BY <1>4, <2>2 DEF OpenNodes
    <3> HIDE DEF rows
    <3>3. Cancelled(rows) = Cancelled(r)
      BY <1>1, <3>1, <3>2, CancelledAfterSkip
    <3> HIDE DEF move
    <3>4. /\ rows \in Rows
          /\ rows.run = r.run /\ rows.completed_at = r.completed_at
          /\ rows.run_log = r.run_log /\ rows.node[n] = "skipped"
          /\ \A m \in Node \ {n} : /\ rows.node[m] = r.node[m]
                                   /\ rows.decision[m] = r.decision[m]
                                   /\ rows.node_log[m] = r.node_log[m]
      <4> DEFINE new == Moved(r, n, move)
      <4>1. /\ new \in Rows /\ new.run = r.run /\ new.completed_at = r.completed_at
            /\ new.run_log = r.run_log /\ new.node[n] = move.new_status
            /\ \A m \in Node \ {n} : /\ new.node[m] = r.node[m]
                                     /\ new.decision[m] = r.decision[m]
                                     /\ new.node_log[m] = r.node_log[m]
        <5> HIDE DEF t, skip, nodes, v, w
        <5>1. QED
          BY <1>1, <1>4, <1>5, WriteFields
      <4>2. rows = new
        BY <3>1
      <4> HIDE DEF new
      <4>3. QED
        BY <1>5, <4>1, <4>2
    <3>5. QED
      BY <3>3, <3>4 DEF Terminal
  <2>3. QED
    BY <2>1, <2>2
<1>7. /\ v.pc = "cancel" /\ v.mine = Overlay(NoRows, rows, nodes, t.holdsRun)
      /\ v.holds = nodes /\ v.holdsRun = t.holdsRun
      /\ v.dispatched = t.dispatched /\ v.iteration = t.iteration
  BY <1>1, WrittenRecord
<1> HIDE DEF rows, nodes
<1>8. /\ w.pc = "cancel" /\ w.mine = Overlay(NoRows, rows, nodes, t.holdsRun)
      /\ w.holds = nodes /\ w.holdsRun = t.holdsRun
      /\ w.queue = Tail(t.queue)
      /\ w.dispatched = t.dispatched /\ w.iteration = t.iteration
  BY <1>1, <1>7 DEF Written, Txn
<1> HIDE DEF w, v
<1>9. nodes \in SUBSET Node /\ t.holds \subseteq nodes /\ n \in nodes
  BY <1>3, <1>4 DEF nodes
<1>10. Seen(db, w) = rows
  <2>1. \A m \in Node \ nodes : m \in Node \ {n}
    BY <1>9
  <2>2. QED
    BY <1>1, <1>3, <1>6, <1>8, <1>9, <2>1, SeesWhatItWrote DEF r
<1>11. Meant(db, w) = Meant(db, t) /\ Label(w) = Label(t)
  BY <1>1, <1>6, <1>8, <1>10 DEF Meant, Label, r
<1>12. OpenNodes(rows) \subseteq OpenNodes(r) \ {n}
  BY <1>4, <1>6 DEF OpenNodes
<1>13. Orderly(db, w)
  BY <1>3, <1>4, <1>8, <1>10, <1>12 DEF Orderly
<1>14. QED
  BY <1>1, <1>2, <1>8, <1>11, <1>13 DEF Unseen

\* The run's own row is written after the nodes: nothing but the run changes.
LEMMA RunRowWritten ==
  ASSUME IInv, NEW s \in Session, NEW rows \in Rows, NEW run \in BOOLEAN,
         txn[s].holdsRun => run, ~run => rows = Seen(db, txn[s]),
         rows.node = Seen(db, txn[s]).node, rows.decision = Seen(db, txn[s]).decision,
         rows.node_log = Seen(db, txn[s]).node_log,
         rows = Meant(db, txn[s]), Label(txn[s]) = "commit",
         txn' = [txn EXCEPT ![s] = Written(txn[s], rows, txn[s].holds, run, "commit")]
  PROVE  Unseen(db, txn[s], txn'[s])
<1> DEFINE t == txn[s]  w == Written(t, rows, t.holds, run, "commit")
<1>1. /\ t \in Txn /\ db \in Rows /\ txn \in [Session -> Txn] /\ txn'[s] = w
  BY OneSession DEF IInv, Typed
<1>2. t.holds \in SUBSET Node
  BY <1>1 DEF Txn
<1>3. /\ w.pc = "commit" /\ w.mine = Overlay(NoRows, rows, t.holds, run)
      /\ w.holds = t.holds /\ w.holdsRun = run
      /\ w.dispatched = t.dispatched /\ w.iteration = t.iteration
  BY <1>1, WrittenRecord
<1> HIDE DEF w
<1>4. Seen(db, w) = rows
  BY <1>1, <1>2, <1>3, SeesWhatItWrote
<1>5. Meant(db, w) = Meant(db, t) /\ Label(w) = Label(t)
  BY <1>3, <1>4 DEF Meant, Label
<1>6. Orderly(db, w)
  BY <1>3 DEF Orderly
<1>7. QED
  BY <1>1, <1>3, <1>5, <1>6 DEF Unseen

LEMMA CancelRunRowUnseen ==
  ASSUME IInv, NEW s \in Session, CancelRunRow(s), Orderly(db, txn[s])
  PROVE  Unseen(db, txn[s], txn'[s]) /\ UNCHANGED <<definition, db, exhausted>>
<1> DEFINE t == txn[s]  r == Seen(db, t)  rows == MarkCancelled(r)
<1>1. /\ t.pc = "cancel" /\ t.queue = <<>> /\ UNCHANGED <<definition, db, exhausted>>
      /\ t \in Txn /\ r = View(s) /\ r \in Rows
      /\ txn' = [txn EXCEPT ![s] = Written(t, rows, t.holds, TRUE, "commit")]
  BY OneSession DEF CancelRunRow, At, SetTxn
<1>2. OpenNodes(r) = {}
  BY <1>1 DEF Orderly, ToSet
<1> HIDE DEF r
<1>3. /\ rows \in Rows /\ rows.node = r.node
      /\ rows.decision = r.decision /\ rows.node_log = r.node_log
  <2> DEFINE log == Append(r.run_log, "run.cancelled")
  <2>1. log \in Seq(RunEvent) /\ "cancelled" \in RunStatus
    BY <1>1 DEF Rows, RunEvent, RunStatus
  <2>2. rows = [r EXCEPT !.run = "cancelled", !.completed_at = TRUE, !.run_log = log]
    BY DEF MarkCancelled
  <2> HIDE DEF log, rows
  <2>3. QED
    BY <1>1, <2>1, <2>2 DEF Rows
<1>4. rows = Meant(db, t) /\ Label(t) = "commit"
  BY <1>1, <1>2, CancelledAtLast DEF Meant, Label, r
<1> HIDE DEF rows
<1>5. Unseen(db, t, txn'[s])
  BY <1>1, <1>3, <1>4, RunRowWritten DEF r
<1>6. QED
  BY <1>1, <1>5

LEMMA FinalizeRunStatusUnseen ==
  ASSUME IInv, NEW s \in Session, FinalizeRunStatus(s), Orderly(db, txn[s])
  PROVE  Unseen(db, txn[s], txn'[s]) /\ UNCHANGED <<definition, db, exhausted>>
<1> DEFINE t == txn[s]  r == Seen(db, t)
           same == r.run = t.status
           rows == Finalize(r, t.status)
           run == t.holdsRun \/ ~same
<1>1. /\ t.pc = "update_run" /\ UNCHANGED <<definition, db, exhausted>>
      /\ t \in Txn /\ r = View(s) /\ r \in Rows /\ StatusSound(db, t)
      /\ txn' = [txn EXCEPT ![s] = Written(t, rows, t.holds, run, "commit")]
  BY OneSession DEF FinalizeRunStatus, At, SetTxn, SessionSound
<1>2. t.status \in RunStatus /\ t.holdsRun \in BOOLEAN
  BY <1>1 DEF StatusSound, Txn
<1>3. /\ rows \in Rows /\ rows.node = r.node
      /\ rows.decision = r.decision /\ rows.node_log = r.node_log
      /\ same => rows = r
  BY <1>1, <1>2, FinalizeFields
<1>4. rows = Meant(db, t) /\ Label(t) = "commit"
  BY <1>1 DEF Meant, Label
<1>5. run \in BOOLEAN /\ (t.holdsRun => run) /\ (~run => rows = r)
  BY <1>2, <1>3
<1> HIDE DEF rows, run
<1>6. Unseen(db, t, txn'[s])
  BY <1>1, <1>3, <1>4, <1>5, RunRowWritten
<1>7. QED
  BY <1>1, <1>6

-----------------------------------------------------------------------------
(* Statements that are steps of WorkflowRun.                               *)

\* WorkflowRun computes with the same functions.
LEMMA SerialFunctions ==
  /\ Serial!NoRows = NoRows
  /\ \A def : Serial!Inserted(def) = Inserted(def)
  /\ \A rows, batch : Serial!ApplyTransitions(rows, batch) = ApplyTransitions(rows, batch)
  /\ \A rows, status : Serial!Finalize(rows, status) = Finalize(rows, status)
  /\ \A rows : Serial!Cancelled(rows) = Cancelled(rows)
  /\ \A node : Serial!ComputedRunStatus(node) = ComputedRunStatus(node)
<1>1. Serial!NoRows = NoRows
  BY DEF Serial!NoRows, NoRows
<1>2. \A def : Serial!Inserted(def) = Inserted(def)
  BY DEF Serial!Inserted, Inserted, Serial!NoRows, NoRows, Serial!InitialNodeStates,
         InitialNodeStates, Serial!EntryKeys, EntryKeys, Serial!Upstream, Upstream
<1>3. \A rows, batch : Serial!ApplyTransitions(rows, batch) = ApplyTransitions(rows, batch)
  BY DEF Serial!ApplyTransitions, ApplyTransitions
<1>4. \A rows, status : Serial!Finalize(rows, status) = Finalize(rows, status)
  BY DEF Serial!Finalize, Finalize
<1>5. \A rows : Serial!Cancelled(rows) = Cancelled(rows)
  BY DEF Serial!Cancelled, Cancelled, Serial!Terminal, Terminal, Serial!Moves, Moves,
         Serial!MarkCancelled, MarkCancelled, Serial!ApplyTransitions, ApplyTransitions
<1>6. \A node : Serial!ComputedRunStatus(node) = ComputedRunStatus(node)
  BY DEF Serial!ComputedRunStatus, ComputedRunStatus, Serial!IsRunTerminal, IsRunTerminal,
         Serial!DeriveRunStatus, DeriveRunStatus, Serial!Terminal, Terminal
<1>7. QED
  BY <1>1, <1>2, <1>3, <1>4, <1>5, <1>6

\* It takes the same decisions.
LEMMA SerialDecisions ==
  /\ \A def, node, n : Serial!CanMarkDone(def, node, n) = CanMarkDone(def, node, n)
  /\ \A n : Serial!ManualCompletion(n) = ManualCompletion(n)
  /\ \A def, node, n : Serial!CanDecide(def, node, n) = CanDecide(def, node, n)
  /\ \A n, decision : Serial!GateTransition(n, decision) = GateTransition(n, decision)
  /\ \A def, node : Serial!Dispatchable(def, node) = Dispatchable(def, node)
  /\ \A def, node : Serial!Invocable(def, node) = Invocable(def, node)
  /\ \A def, node, failing :
        Serial!Dispatch(def, node, failing) = Dispatch(def, node, failing)
  /\ \A def, node : Serial!Advance(def, node) = Advance(def, node)
<1>1. \A def, node, n : Serial!CanMarkDone(def, node, n) = CanMarkDone(def, node, n)
  BY DEF Serial!CanMarkDone, CanMarkDone
<1>2. \A n : Serial!ManualCompletion(n) = ManualCompletion(n)
  BY DEF Serial!ManualCompletion, ManualCompletion, Serial!Moves, Moves
<1>3. \A def, node, n : Serial!CanDecide(def, node, n) = CanDecide(def, node, n)
  BY DEF Serial!CanDecide, CanDecide
<1>4. \A n, decision : Serial!GateTransition(n, decision) = GateTransition(n, decision)
  BY DEF Serial!GateTransition, GateTransition
<1>5. \A def, node : Serial!Dispatchable(def, node) = Dispatchable(def, node)
  BY DEF Serial!Dispatchable, Dispatchable
<1>6. \A def, node : Serial!Invocable(def, node) = Invocable(def, node)
  BY <1>5 DEF Serial!Invocable, Invocable
<1>7. \A def, node, failing :
         Serial!Dispatch(def, node, failing) = Dispatch(def, node, failing)
  BY DEF Serial!Dispatch, Dispatch, Serial!Dispatchable, Dispatchable, Serial!Moves, Moves
<1>8. \A def, node : Serial!Advance(def, node) = Advance(def, node)
  BY DEF Serial!Advance, Advance, Serial!Promotable, Promotable, Serial!Placeholders,
         Placeholders, Serial!Upstream, Upstream, Serial!Passed, Passed, Serial!Moves, Moves
<1>9. QED
  BY <1>1, <1>2, <1>3, <1>4, <1>5, <1>6, <1>7, <1>8

\* A session that is idle has read and written nothing.
LEMMA IdleSession ==
  ASSUME IInv, NEW s \in Session, txn[s].pc = "idle"
  PROVE  /\ txn[s] = NoTxn /\ Meant(db, txn[s]) = db /\ Label(txn[s]) = "idle"
         /\ NoTxn \in Txn /\ Seen(db, NoTxn) = db /\ db \in Rows
         /\ txn[s].dispatched = FALSE /\ txn[s].iteration = 0
<1>1. txn[s] = NoTxn
  BY OneSession DEF SessionSound
<1>2. NoTxn.dispatched = FALSE /\ NoTxn.iteration = 0
  BY DEF NoTxn
<1>3. QED
  BY <1>1, <1>2, NoTxnType, NoTxnSees, OneSession DEF Meant, Label

LEMMA CreateRunSeen ==
  ASSUME IInv, NEW s, Session = {s}, CreateRun(s)
  PROVE  Serial!CreateRun /\ Orderly(db', txn'[s])
<1> DEFINE r == Inserted(definition)
           run == TRUE
           w == Written(NoTxn, r, Node, run, "dispatch")
<1>1. /\ s \in Session /\ txn[s].pc = "idle" /\ db.run = "absent"
      /\ txn' = [txn EXCEPT ![s] = w]
      /\ UNCHANGED <<definition, db, exhausted>>
  BY DEF CreateRun, At, SetTxn
<1>2. /\ txn[s] = NoTxn /\ Meant(db, txn[s]) = db /\ Label(txn[s]) = "idle"
      /\ NoTxn \in Txn /\ db \in Rows /\ definition \in Definition
      /\ txn[s].dispatched = FALSE /\ txn[s].iteration = 0
      /\ txn'[s] = w
  BY <1>1, IdleSession, OneSession DEF IInv, Typed
<1>3. r \in Rows /\ run \in BOOLEAN /\ run = TRUE
  BY <1>2, InsertedRows
<1> HIDE DEF r, run
<1>4. /\ w.pc = "dispatch" /\ w.mine = Overlay(NoRows, r, Node, run)
      /\ w.holds = Node /\ w.holdsRun = run
      /\ w.dispatched = NoTxn.dispatched /\ w.iteration = NoTxn.iteration
  BY <1>2, WrittenRecord
<1> HIDE DEF w
<1>5. Seen(db, w) = r
  <2>1. Owned(db, r, Node, run)
    BY <1>3 DEF Owned
  <2>2. QED
    BY <1>2, <1>4, <2>1, SeenWritten DEF Seen
<1>6. Meant(db, w) = r /\ Label(w) = "dispatch" /\ Orderly(db, w)
  BY <1>4, <1>5 DEF Meant, Label, Orderly
<1>7. Serial!Inserted(definition) = r
  BY SerialFunctions DEF r
<1>8. Serial!CreateRun
  BY <1>1, <1>2, <1>4, <1>6, <1>7, Mapping DEF Serial!CreateRun, Serial!loop
<1>9. QED
  BY <1>1, <1>2, <1>6, <1>8

LEMMA MarkManualDoneSeen ==
  ASSUME IInv, NEW s, Session = {s}, NEW n \in Node, MarkManualDone(s, n)
  PROVE  Serial!MarkManualDone(n) /\ Orderly(db', txn'[s])
<1> DEFINE batch == ManualCompletion(n)
<1>1. PICK w \in Planned(NoTxn, batch, "dispatch") : txn' = [txn EXCEPT ![s] = w]
  BY DEF MarkManualDone, SetTxn
<1>2. /\ s \in Session /\ txn[s].pc = "idle" /\ db.run # "absent"
      /\ CanMarkDone(definition, db.node, n)
      /\ UNCHANGED <<definition, db, exhausted>>
  BY DEF MarkManualDone, At
<1>3. /\ txn[s] = NoTxn /\ Meant(db, txn[s]) = db /\ Label(txn[s]) = "idle"
      /\ NoTxn \in Txn /\ db \in Rows /\ Seen(db, NoTxn) = db
      /\ txn'[s] = w
  BY <1>1, <1>2, IdleSession, OneSession DEF IInv, Typed
<1>4. batch \in Batches
  <2>1. batch \in [{n} -> Coherent]
    BY DEF ManualCompletion, Coherent
  <2>2. QED
    BY <2>1 DEF Batches
<1>5. Serial!ManualCompletion(n) = batch
  BY SerialDecisions
<1> HIDE DEF batch
<1>6. /\ Meant(db, w) = ApplyTransitions(db, batch) /\ Label(w) = "dispatch"
      /\ w.dispatched = NoTxn.dispatched /\ w.iteration = NoTxn.iteration
      /\ Orderly(db, w)
  BY <1>3, <1>4, PlanMeans
<1>7. /\ Serial!CanMarkDone(definition, db.node, n)
      /\ Serial!ApplyTransitions(db, batch) = ApplyTransitions(db, batch)
  BY <1>2, SerialDecisions, SerialFunctions
<1>8. Serial!MarkManualDone(n)
  BY <1>2, <1>3, <1>5, <1>6, <1>7, Mapping DEF Serial!MarkManualDone, Serial!loop
<1>9. QED
  BY <1>2, <1>3, <1>6, <1>8

LEMMA SubmitGateDecisionSeen ==
  ASSUME IInv, NEW s, Session = {s}, NEW n \in Node, NEW decision \in {"approved", "rejected"},
         SubmitGateDecision(s, n, decision)
  PROVE  Serial!SubmitGateDecision(n, decision) /\ Orderly(db', txn'[s])
<1> DEFINE batch == GateTransition(n, decision)
           next == IF decision = "rejected" THEN "force_failed" ELSE "dispatch"
<1>1. PICK w \in Planned(NoTxn, batch, next) : txn' = [txn EXCEPT ![s] = w]
  BY DEF SubmitGateDecision, SetTxn
<1>2. /\ s \in Session /\ txn[s].pc = "idle" /\ db.run # "absent"
      /\ CanDecide(definition, db.node, n)
      /\ UNCHANGED <<definition, db, exhausted>>
  BY DEF SubmitGateDecision, At
<1>3. /\ txn[s] = NoTxn /\ Meant(db, txn[s]) = db /\ Label(txn[s]) = "idle"
      /\ NoTxn \in Txn /\ db \in Rows /\ Seen(db, NoTxn) = db
      /\ txn'[s] = w
  BY <1>1, <1>2, IdleSession, OneSession DEF IInv, Typed
<1>4. batch \in Batches /\ next \in {"dispatch", "advance", "finalize", "force_failed"}
  <2>1. batch \in [{n} -> Coherent]
    BY DEF GateTransition, Coherent
  <2>2. QED
    BY <2>1 DEF Batches
<1>5. Serial!GateTransition(n, decision) = batch
  BY SerialDecisions
<1> HIDE DEF batch, next
<1>6. /\ Meant(db, w) = ApplyTransitions(db, batch) /\ Label(w) = next
      /\ w.dispatched = NoTxn.dispatched /\ w.iteration = NoTxn.iteration
      /\ Orderly(db, w)
  BY <1>3, <1>4, PlanMeans
<1>7. /\ Serial!CanDecide(definition, db.node, n)
      /\ Serial!ApplyTransitions(db, batch) = ApplyTransitions(db, batch)
  BY <1>2, SerialDecisions, SerialFunctions
<1>8. Serial!SubmitGateDecision(n, decision)
  BY <1>2, <1>3, <1>5, <1>6, <1>7, Mapping DEF Serial!SubmitGateDecision, Serial!loop, next
<1>9. QED
  BY <1>2, <1>3, <1>6, <1>8

LEMMA CancelRunSeen ==
  ASSUME IInv, NEW s, Session = {s}, CancelRun(s)
  PROVE  Serial!CancelRun /\ Orderly(db', txn'[s])
<1>1. PICK queue \in SetToSeqs(OpenNodes(db)) :
         txn' = [txn EXCEPT ![s] = [NoTxn EXCEPT !.pc = "cancel", !.queue = queue]]
  BY DEF CancelRun, SetTxn, OpenNodes
<1>2. /\ s \in Session /\ txn[s].pc = "idle" /\ db.run # "absent"
      /\ Len(db.run_log) < RunLogLimit
      /\ UNCHANGED <<definition, db, exhausted>>
  BY DEF CancelRun, At
<1> DEFINE w == [NoTxn EXCEPT !.pc = "cancel", !.queue = queue]
<1>3. /\ txn[s] = NoTxn /\ Meant(db, txn[s]) = db /\ Label(txn[s]) = "idle"
      /\ NoTxn \in Txn /\ db \in Rows /\ Seen(db, NoTxn) = db
      /\ txn'[s] = w
  BY <1>1, <1>2, IdleSession DEF IInv, Typed
<1>4. Distinct(queue) /\ ToSet(queue) = OpenNodes(db)
  <2>1. OpenNodes(db) \in SUBSET Node
    BY DEF OpenNodes
  <2>2. QED
    BY <2>1, TxnAssumptions, FS_Subset, OrderIsComplete
<1>5. /\ w.pc = "cancel" /\ w.queue = queue
      /\ w.mine = NoTxn.mine /\ w.holds = NoTxn.holds /\ w.holdsRun = NoTxn.holdsRun
      /\ w.dispatched = NoTxn.dispatched /\ w.iteration = NoTxn.iteration
  BY <1>3 DEF Txn
<1> HIDE DEF w
<1>6. Seen(db, w) = db
  BY <1>3, <1>5 DEF Seen
<1>7. Meant(db, w) = Cancelled(db) /\ Label(w) = "commit" /\ Orderly(db, w)
  BY <1>4, <1>5, <1>6 DEF Meant, Label, Orderly
<1>8. Serial!CancelRun
  BY <1>2, <1>3, <1>5, <1>7, Mapping, SerialFunctions DEF Serial!CancelRun, Serial!loop
<1>9. QED
  BY <1>2, <1>3, <1>7, <1>8

\* A session between two statements means what it sees.
LEMMA BetweenStatements ==
  ASSUME NEW base, NEW t, t.pc \in {"dispatch", "advance", "finalize", "force_failed", "commit"}
  PROVE  Meant(base, t) = Seen(base, t) /\ Label(t) = t.pc
BY DEF Meant, Label

LEMMA DispatchReadyAdaptersSeen ==
  ASSUME IInv, NEW s, Session = {s}, DispatchReadyAdapters(s)
  PROVE  Serial!DispatchReadyAdapters /\ Orderly(db', txn'[s])
<1> DEFINE r == Seen(db, txn[s])
           t == [txn[s] EXCEPT !.dispatched = (Dispatchable(definition, r.node) # {})]
<1>1. /\ s \in Session /\ txn[s].pc = "dispatch" /\ UNCHANGED <<definition, db, exhausted>>
      /\ txn[s] \in Txn /\ db \in Rows /\ View(s) = r /\ r \in Rows
      /\ txn \in [Session -> Txn]
  BY OneSession DEF DispatchReadyAdapters, At, IInv, Typed
<1>2. PICK failing \in SUBSET Invocable(definition, r.node) :
         \E w \in Planned(t, Dispatch(definition, r.node, failing), "advance") : SetTxn(s, w)
  BY <1>1 DEF DispatchReadyAdapters
<1> DEFINE batch == Dispatch(definition, r.node, failing)
<1>3. PICK w \in Planned(t, batch, "advance") : txn' = [txn EXCEPT ![s] = w]
  BY <1>2 DEF SetTxn
<1>4. txn'[s] = w
  BY <1>1, <1>3
<1>5. /\ t \in Txn /\ t.mine = txn[s].mine /\ t.holds = txn[s].holds
      /\ t.holdsRun = txn[s].holdsRun /\ t.iteration = txn[s].iteration
      /\ t.dispatched = (Dispatchable(definition, r.node) # {})
  BY <1>1 DEF Txn
<1>6. batch \in Batches
  <2>1. batch \in [Dispatchable(definition, r.node) -> Coherent]
    BY DEF Dispatch, Coherent
  <2>2. Dispatchable(definition, r.node) \in SUBSET Node
    BY DEF Dispatchable
  <2>3. QED
    BY <2>1, <2>2 DEF Batches
<1>7. Serial!Dispatch(definition, r.node, failing) = batch
  BY SerialDecisions
<1> HIDE DEF t, batch
<1>8. Seen(db, t) = r
  BY <1>5 DEF Seen
<1>9. /\ Meant(db, w) = ApplyTransitions(r, batch) /\ Label(w) = "advance"
      /\ w.dispatched = t.dispatched /\ w.iteration = t.iteration
      /\ Orderly(db, w)
  BY <1>1, <1>5, <1>6, <1>8, PlanMeans
<1>10. Meant(db, txn[s]) = r /\ Label(txn[s]) = "dispatch"
  BY <1>1, BetweenStatements
<1>11. /\ Applied = r /\ Stage = "dispatch"
       /\ Applied' = Serial!ApplyTransitions(r, Serial!Dispatch(definition, r.node, failing))
       /\ Stage' = "advance"
       /\ open'.dispatched = (Serial!Dispatchable(definition, r.node) # {})
       /\ open'.iteration = open.iteration
       /\ failing \in SUBSET Serial!Invocable(definition, r.node)
  BY <1>1, <1>4, <1>5, <1>7, <1>9, <1>10, Mapping, SerialFunctions, SerialDecisions
<1> HIDE DEF r
<1>12. Serial!DispatchReadyAdapters
  BY <1>1, <1>11 DEF Serial!DispatchReadyAdapters
<1>13. QED
  BY <1>1, <1>4, <1>9, <1>12

LEMMA AdvancePassSeen ==
  ASSUME IInv, NEW s, Session = {s}, AdvancePass(s)
  PROVE  Serial!AdvancePass /\ Orderly(db', txn'[s])
<1> DEFINE r == Seen(db, txn[s])
           batch == Advance(definition, r.node)
           quiet == ~txn[s].dispatched /\ DOMAIN batch = {}
           last == txn[s].iteration + 1 = LoopLimit
           t == [txn[s] EXCEPT !.iteration = IF quiet \/ last THEN @ ELSE @ + 1]
           next == IF quiet \/ last THEN "finalize" ELSE "dispatch"
<1>1. /\ s \in Session /\ txn[s].pc = "advance" /\ UNCHANGED <<definition, db>>
      /\ txn[s] \in Txn /\ db \in Rows /\ View(s) = r /\ r \in Rows
      /\ txn \in [Session -> Txn]
      /\ \A n \in Node : RowReplays(definition, r, n)
  BY OneSession DEF AdvancePass, At, IInv, Typed, SessionSound, OpenSound
<1>2. /\ exhausted' = (exhausted \/ (last /\ ~quiet))
      /\ \E w \in Planned(t, batch, next) : SetTxn(s, w)
  BY <1>1 DEF AdvancePass
<1>3. PICK w \in Planned(t, batch, next) : txn' = [txn EXCEPT ![s] = w]
  BY <1>2 DEF SetTxn
<1>4. txn'[s] = w
  BY <1>1, <1>3
<1>5. /\ t \in Txn /\ t.mine = txn[s].mine /\ t.holds = txn[s].holds
      /\ t.holdsRun = txn[s].holdsRun /\ t.dispatched = txn[s].dispatched
      /\ t.iteration = IF quiet \/ last THEN txn[s].iteration ELSE txn[s].iteration + 1
  <2>1. txn[s].iteration \in Nat
    BY <1>1 DEF Txn
  <2> HIDE DEF quiet, last
  <2>2. QED
    BY <1>1, <2>1 DEF Txn
<1>6. batch \in Batches
  BY <1>1, AdvanceBatch
<1>7. Serial!Advance(definition, r.node) = batch
  BY SerialDecisions
<1>8. next \in {"dispatch", "advance", "finalize", "force_failed"}
  OBVIOUS
<1> HIDE DEF t, batch, quiet, last, next
<1>9. Seen(db, t) = r
  BY <1>5 DEF Seen
<1>10. /\ Meant(db, w) = ApplyTransitions(r, batch) /\ Label(w) = next
       /\ w.dispatched = t.dispatched /\ w.iteration = t.iteration
       /\ Orderly(db, w)
  BY <1>1, <1>3, <1>5, <1>6, <1>8, <1>9, PlanMeans
<1>11. Meant(db, txn[s]) = r /\ Label(txn[s]) = "advance"
  BY <1>1, BetweenStatements
<1>12. /\ Applied = r /\ Stage = "advance" /\ open = txn[s]
       /\ Applied' = Serial!ApplyTransitions(r, batch)
       /\ Stage' = next
       /\ open'.dispatched = open.dispatched
       /\ open'.iteration = IF quiet \/ last THEN open.iteration ELSE open.iteration + 1
  BY <1>1, <1>4, <1>5, <1>10, <1>11, Mapping, SerialFunctions
<1> HIDE DEF r
<1>13. Serial!AdvancePass
  BY <1>1, <1>2, <1>7, <1>12 DEF Serial!AdvancePass, quiet, last, next
<1>14. QED
  BY <1>1, <1>4, <1>10, <1>13

\* The status is computed and written at once.
LEMMA ComputeRunStatusSeen ==
  ASSUME IInv, NEW s, Session = {s}, ComputeRunStatus(s)
  PROVE  Serial!FinalizeRunStatus /\ Orderly(db', txn'[s])
<1> DEFINE t == txn[s]  r == Seen(db, t)
           status == IF t.pc = "force_failed" THEN "failed" ELSE ComputedRunStatus(r.node)
           w == [t EXCEPT !.pc = "update_run", !.status = status]
<1>1. /\ s \in Session /\ t.pc \in {"finalize", "force_failed"}
      /\ UNCHANGED <<definition, db, exhausted>>
      /\ t \in Txn /\ db \in Rows /\ View(s) = r /\ r \in Rows
      /\ txn \in [Session -> Txn] /\ txn'[s] = w
  BY OneSession DEF ComputeRunStatus, SetTxn, At, IInv, Typed
<1>2. /\ w.pc = "update_run" /\ w.status = status
      /\ w.mine = t.mine /\ w.holds = t.holds /\ w.holdsRun = t.holdsRun
      /\ w.dispatched = t.dispatched /\ w.iteration = t.iteration
  <2> HIDE DEF status
  <2>1. QED
    BY <1>1 DEF Txn
<1> HIDE DEF w
<1>3. Seen(db, w) = r
  BY <1>2 DEF Seen
<1>4. Meant(db, w) = Finalize(r, status) /\ Label(w) = "commit" /\ Orderly(db, w)
  BY <1>2, <1>3 DEF Meant, Label, Orderly
<1>5. Meant(db, t) = r /\ Label(t) = t.pc
  BY <1>1, BetweenStatements
<1>6. status = IF t.pc = "force_failed" THEN "failed" ELSE Serial!ComputedRunStatus(r.node)
  BY SerialFunctions
<1>7. /\ Applied = r /\ Stage = t.pc /\ open = t
      /\ Applied' = Serial!Finalize(r, status) /\ Stage' = "commit"
      /\ open'.dispatched = open.dispatched /\ open'.iteration = open.iteration
  BY <1>1, <1>2, <1>4, <1>5, Mapping, SerialFunctions
<1> HIDE DEF r, status
<1>8. Serial!FinalizeRunStatus
  BY <1>1, <1>6, <1>7 DEF Serial!FinalizeRunStatus, Serial!loop
<1>9. QED
  BY <1>1, <1>4, <1>8

LEMMA CommitSeenSerially ==
  ASSUME IInv, NEW s, Session = {s}, Commit(s)
  PROVE  Serial!Commit /\ Orderly(db', txn'[s])
<1>1. /\ s \in Session /\ txn[s].pc = "commit" /\ UNCHANGED <<definition, exhausted>>
      /\ db' = Seen(db, txn[s]) /\ txn'[s] = NoTxn
  BY OneSession DEF Commit, SetTxn, At, IInv, Typed
<1>2. Meant(db, txn[s]) = Seen(db, txn[s]) /\ Label(txn[s]) = "commit"
  BY <1>1, BetweenStatements
<1>3. /\ NoTxn.pc = "idle" /\ NoTxn.dispatched = FALSE /\ NoTxn.iteration = 0
  BY DEF NoTxn
<1>4. Meant(db', NoTxn) = db' /\ Label(NoTxn) = "idle" /\ Orderly(db', NoTxn)
  BY <1>3 DEF Meant, Label, Orderly
<1>5. Serial!Commit
  BY <1>1, <1>2, <1>3, <1>4, Mapping DEF Serial!Commit
<1>6. QED
  BY <1>1, <1>4, <1>5

LEMMA RollbackSeen ==
  ASSUME IInv, NEW s, Session = {s}, Rollback(s)
  PROVE  Serial!Rollback /\ Orderly(db', txn'[s])
<1>1. /\ s \in Session /\ txn[s].pc # "idle" /\ UNCHANGED <<definition, db, exhausted>>
      /\ txn'[s] = NoTxn /\ txn[s] \in Txn
      /\ QueueSound(definition, db, txn[s])
  BY OneSession DEF Rollback, SetTxn, At, IInv, Typed, SessionSound
<1>2. Label(txn[s]) # "idle"
  BY <1>1 DEF Label, QueueSound
<1>3. /\ NoTxn.pc = "idle" /\ NoTxn.dispatched = FALSE /\ NoTxn.iteration = 0
  BY DEF NoTxn
<1>4. Meant(db', NoTxn) = db' /\ Label(NoTxn) = "idle" /\ Orderly(db', NoTxn)
  BY <1>3 DEF Meant, Label, Orderly
<1>5. Serial!Rollback
  BY <1>1, <1>2, <1>3, <1>4, Mapping DEF Serial!Rollback
<1>6. QED
  BY <1>1, <1>4, <1>5

\* What is unseen is a stutter.
LEMMA UnseenStutters ==
  ASSUME NEW s, Session = {s}, Unseen(db, txn[s], txn'[s]),
         UNCHANGED <<definition, db, exhausted>>
  PROVE  UNCHANGED Serial!vars /\ Orderly(db', txn'[s])
<1>1. /\ open = txn[s] /\ Applied = Meant(db, txn[s]) /\ Stage = Label(txn[s])
      /\ open' = txn'[s] /\ Applied' = Meant(db', txn'[s]) /\ Stage' = Label(txn'[s])
  BY Mapping
<1>2. /\ Applied' = Applied /\ Stage' = Stage
      /\ open'.dispatched = open.dispatched /\ open'.iteration = open.iteration
      /\ Orderly(db, txn'[s])
  BY <1>1 DEF Unseen
<1>3. QED
  BY <1>2 DEF Serial!vars

LEMMA SerialStep ==
  ASSUME IInv, NEW s, Session = {s}, Orderly(db, txn[s]), [Next]_vars
  PROVE  [Serial!Next]_(Serial!vars) /\ Orderly(db', txn'[s])
<1>1. CASE UNCHANGED vars
  BY <1>1, Mapping DEF vars, Serial!vars
<1>2. CASE CreateRun(s)
  BY <1>2, CreateRunSeen DEF Serial!Next
<1>3. ASSUME NEW n \in Node, MarkManualDone(s, n)
      PROVE  [Serial!Next]_(Serial!vars) /\ Orderly(db', txn'[s])
  BY <1>3, MarkManualDoneSeen DEF Serial!Next
<1>4. ASSUME NEW n \in Node, NEW decision \in {"approved", "rejected"},
             SubmitGateDecision(s, n, decision)
      PROVE  [Serial!Next]_(Serial!vars) /\ Orderly(db', txn'[s])
  BY <1>4, SubmitGateDecisionSeen DEF Serial!Next
<1>5. CASE CancelRun(s)
  BY <1>5, CancelRunSeen DEF Serial!Next
<1>6. CASE DispatchReadyAdapters(s) \/ AdvancePass(s) \/ ComputeRunStatus(s) \/ Commit(s)
  BY <1>6, DispatchReadyAdaptersSeen, AdvancePassSeen, ComputeRunStatusSeen,
     CommitSeenSerially DEF Serial!Next, Serial!Drive
<1>7. CASE ApplyTransition(s) \/ SkipNode(s) \/ CancelRunRow(s) \/ FinalizeRunStatus(s)
  BY <1>7, ApplyTransitionUnseen, SkipNodeUnseen, CancelRunRowUnseen,
     FinalizeRunStatusUnseen, UnseenStutters
<1>8. CASE Rollback(s)
  BY <1>8, RollbackSeen DEF Serial!Next
<1>9. QED
  BY <1>1, <1>2, <1>3, <1>4, <1>5, <1>6, <1>7, <1>8 DEF Next, Step

\* Requests that do not overlap are those of WorkflowRun, on every finite workflow:
\* the statements that _apply_transitions, cancel_run and _finalize_run_status
\* execute one by one amount to the batches that WorkflowRun applies at once.
THEOREM SerialRequests ==
  ASSUME NEW s, Session = {s}
  PROVE  Spec => ImplementsWorkflowRun
<1>1. Init => Serial!Init /\ Orderly(db, txn[s])
  <2> SUFFICES ASSUME Init  PROVE Serial!Init /\ Orderly(db, txn[s])
    OBVIOUS
  <2>1. /\ definition \in Definitions /\ db = NoRows /\ txn[s] = NoTxn /\ exhausted = FALSE
    BY DEF Init
  <2>2. /\ NoTxn.pc = "idle" /\ NoTxn.dispatched = FALSE /\ NoTxn.iteration = 0
    BY DEF NoTxn
  <2>3. Meant(db, NoTxn) = db /\ Label(NoTxn) = "idle" /\ Orderly(db, NoTxn)
    BY <2>2 DEF Meant, Label, Orderly
  <2>4. QED
    BY <2>1, <2>2, <2>3, Mapping, SerialFunctions DEF Serial!Init
<1>2. IInv /\ Orderly(db, txn[s]) /\ [Next]_vars => Orderly(db, txn[s])'
  BY SerialStep
<1>3. IInv /\ Orderly(db, txn[s]) /\ [Next]_vars => [Serial!Next]_(Serial!vars)
  BY SerialStep
<1>4. QED
  BY <1>1, <1>2, <1>3, Inductive, PTL DEF Spec, ImplementsWorkflowRun, Serial!Spec

-----------------------------------------------------------------------------
(* Nobody is forgotten as long as requests do not overlap.                 *)

\* Unless a drive was cut off, no node waits to be promoted in what is committed,
\* nor in what the open request is going to commit.
Settled ==
    ~exhausted =>
        /\ db.run # "absent" => Promotable(definition, db.node) = {}
        /\ Stage \in {"finalize", "force_failed", "commit"} =>
              Promotable(definition, Applied.node) = {}

\* A rejected gate lets no node start.
LEMMA RejectingPromotesNothing ==
  ASSUME NEW rows \in Rows, NEW def, NEW n \in Node, Promotable(def, rows.node) = {}
  PROVE  Promotable(def, ApplyTransitions(rows, GateTransition(n, "rejected")).node) = {}
<1> DEFINE batch == GateTransition(n, "rejected")
           new == [m \in Node |-> IF m = n THEN "failed" ELSE rows.node[m]]
<1>1. DOMAIN batch = {n} /\ batch[n].new_status = "failed"
  BY DEF GateTransition
<1> HIDE DEF batch
<1>2. ApplyTransitions(rows, batch).node = new
  BY <1>1 DEF ApplyTransitions, Rows
<1>3. Promotable(def, new) = {}
  <2>1. SUFFICES ASSUME NEW m \in Promotable(def, new)  PROVE m \in Promotable(def, rows.node)
    OBVIOUS
  <2>2. m \in Node /\ m # n /\ rows.node[m] = "pending"
    BY <2>1 DEF Promotable
  <2>3. ASSUME NEW u \in Upstream(def, m)  PROVE rows.node[u] \in Passed
    <3>1. u \in Node /\ new[u] \in Passed
      BY <2>1 DEF Promotable, Upstream
    <3>2. QED
      BY <3>1 DEF Passed
  <2>4. QED
    BY <2>2, <2>3 DEF Promotable
<1>4. QED
  BY <1>2, <1>3 DEF batch

\* Nothing is pending in a cancelled run.
LEMMA CancellingPromotesNothing ==
  ASSUME NEW rows \in Rows, NEW def
  PROVE  Promotable(def, Cancelled(rows).node) = {}
<1> DEFINE batch == Skipping(rows)  moved == ApplyTransitions(rows, batch)
<1>1. Cancelled(rows) = MarkCancelled(moved)
  BY CancelledIs
<1>2. /\ DOMAIN batch = OpenNodes(rows)
      /\ \A n \in OpenNodes(rows) : batch[n].new_status = "skipped"
  BY DEF Skipping, Moves
<1> HIDE DEF batch
<1>3. moved.node = [n \in Node |-> IF n \in OpenNodes(rows) THEN "skipped" ELSE rows.node[n]]
  BY <1>2 DEF ApplyTransitions, Rows
<1>4. MarkCancelled(moved).node = moved.node
  BY DEF MarkCancelled, ApplyTransitions, Rows
<1> HIDE DEF moved
<1>5. \A n \in Node : moved.node[n] # "pending"
  BY <1>3 DEF OpenNodes, Terminal
<1>6. QED
  BY <1>1, <1>4, <1>5 DEF Promotable

LEMMA SettledStep ==
  ASSUME IInv, NEW s, Session = {s}, Orderly(db, txn[s]), Settled, [Next]_vars
  PROVE  Settled'
<1>1. /\ s \in Session /\ db \in Rows /\ Seen(db, txn[s]) \in Rows
      /\ Applied = Meant(db, txn[s]) /\ Stage = Label(txn[s])
  BY OneSession, Mapping DEF IInv, Typed
<1>2. CASE UNCHANGED vars
  BY <1>2, Mapping DEF vars, Settled
<1>3. CASE CreateRun(s)
  BY <1>3, CreateRunSeen DEF Serial!CreateRun, Serial!loop, Settled
<1>4. ASSUME NEW n \in Node, MarkManualDone(s, n)  PROVE Settled'
  BY <1>4, MarkManualDoneSeen DEF Serial!MarkManualDone, Serial!loop, Settled
<1>5. ASSUME NEW n \in Node, NEW decision \in {"approved", "rejected"},
             SubmitGateDecision(s, n, decision)
      PROVE  Settled'
  <2>1. /\ db.run # "absent" /\ UNCHANGED <<definition, db, exhausted>>
        /\ Applied' = ApplyTransitions(db, GateTransition(n, decision))
        /\ Stage' = IF decision = "rejected" THEN "force_failed" ELSE "dispatch"
    BY <1>5, SubmitGateDecisionSeen, SerialFunctions, SerialDecisions
       DEF Serial!SubmitGateDecision, Serial!loop
  <2>2. CASE decision = "approved"
    BY <2>1, <2>2 DEF Settled
  <2>3. CASE decision = "rejected"
    BY <1>1, <2>1, <2>3, RejectingPromotesNothing DEF Settled
  <2>4. QED
    BY <2>2, <2>3
<1>6. CASE CancelRun(s)
  <2>1. /\ db.run # "absent" /\ UNCHANGED <<definition, db, exhausted>>
        /\ Applied' = Cancelled(db)
    BY <1>6, CancelRunSeen, SerialFunctions DEF Serial!CancelRun, Serial!loop
  <2>2. QED
    BY <1>1, <2>1, CancellingPromotesNothing DEF Settled
<1>7. CASE DispatchReadyAdapters(s)
  BY <1>7, DispatchReadyAdaptersSeen DEF Serial!DispatchReadyAdapters, Settled
<1>8. CASE AdvancePass(s)
  <2> DEFINE batch == Advance(definition, Applied.node)
             quiet == ~open.dispatched /\ DOMAIN batch = {}
             last == open.iteration + 1 = LoopLimit
  <2>1. Applied \in Rows
    BY <1>1, <1>8, BetweenStatements DEF AdvancePass, At
  <2>2. /\ UNCHANGED <<definition, db>>
        /\ Applied' = ApplyTransitions(Applied, batch)
        /\ Stage' = IF quiet \/ last THEN "finalize" ELSE "dispatch"
        /\ exhausted' = (exhausted \/ (last /\ ~quiet))
    BY <1>8, AdvancePassSeen, SerialFunctions, SerialDecisions DEF Serial!AdvancePass
  <2>3. CASE quiet
    <3>1. Promotable(definition, Applied.node) = {}
      BY <2>3 DEF Advance
    <3>2. Applied' = Applied
      <4>1. batch \in [{} -> Coherent]
        <5>1. batch = [n \in DOMAIN batch |-> batch[n]]
          BY DEF Advance
        <5>2. QED
          BY <2>3, <5>1
      <4>2. batch \in Batches
        BY <4>1 DEF Batches
      <4> HIDE DEF batch
      <4>3. QED
        BY <2>1, <2>2, <2>3, <4>2, WholeAndEmpty
    <3>3. QED
      BY <2>2, <3>1, <3>2 DEF Settled
  <2>4. CASE ~quiet
    BY <2>2, <2>4 DEF Settled
  <2>5. QED
    BY <2>3, <2>4
<1>9. CASE ComputeRunStatus(s)
  <2>1. Applied \in Rows
    BY <1>1, <1>9, BetweenStatements DEF ComputeRunStatus
  <2>2. /\ Stage \in {"finalize", "force_failed"} /\ UNCHANGED <<definition, db, exhausted>>
        /\ \E status : Applied' = Finalize(Applied, status)
    BY <1>9, ComputeRunStatusSeen, SerialFunctions DEF Serial!FinalizeRunStatus, Serial!loop
  <2>3. \A status : Finalize(Applied, status).node = Applied.node
    BY <2>1 DEF Finalize, Rows
  <2>4. Applied'.node = Applied.node
    BY <2>2, <2>3
  <2>5. QED
    BY <2>2, <2>4 DEF Settled
<1>10. CASE Commit(s)
  BY <1>10, CommitSeenSerially DEF Serial!Commit, Settled
<1>11. CASE ApplyTransition(s) \/ SkipNode(s) \/ CancelRunRow(s) \/ FinalizeRunStatus(s)
  <2>1. UNCHANGED Serial!vars
    BY <1>11, ApplyTransitionUnseen, SkipNodeUnseen, CancelRunRowUnseen,
       FinalizeRunStatusUnseen, UnseenStutters
  <2>2. QED
    BY <2>1 DEF Serial!vars, Settled
<1>12. CASE Rollback(s)
  BY <1>12, RollbackSeen DEF Serial!Rollback, Settled
<1>13. QED
  BY <1>2, <1>3, <1>4, <1>5, <1>6, <1>7, <1>8, <1>9, <1>10, <1>11, <1>12 DEF Next, Step

\* What the docstring of _advance_until_blocked promises holds on every finite
\* workflow as long as requests do not overlap: a drive goes on until no node waits
\* to be promoted, a rejected gate and a cancellation leave none behind.  It takes
\* two requests at a time to lose one (runs.py:580).
THEOREM DrivenWhenAlone ==
  ASSUME NEW s, Session = {s}
  PROVE  Spec => []DrivenUntilBlocked
<1>1. Init => Orderly(db, txn[s]) /\ Settled
  <2> SUFFICES ASSUME Init  PROVE Orderly(db, txn[s]) /\ Settled
    OBVIOUS
  <2>1. db = NoRows /\ txn[s] = NoTxn /\ NoTxn.pc = "idle"
    BY DEF Init, NoTxn
  <2>2. db.run = "absent" /\ Label(NoTxn) = "idle" /\ Orderly(db, NoTxn)
    BY <2>1 DEF NoRows, Label, Orderly
  <2>3. Stage = "idle"
    BY <2>1, <2>2, Mapping
  <2>4. QED
    BY <2>1, <2>2, <2>3 DEF Settled
<1>2. IInv /\ Orderly(db, txn[s]) /\ Settled /\ [Next]_vars => Orderly(db, txn[s])' /\ Settled'
  BY SerialStep, SettledStep
<1>3. Settled => DrivenUntilBlocked
  BY DEF Settled, DrivenUntilBlocked
<1>4. QED
  BY <1>1, <1>2, <1>3, Inductive, PTL DEF Spec
-----------------------------------------------------------------------------
(* The events as they are stored.                                          *)

Stamped ==
    /\ clock \in Nat
    /\ began \in [Session -> Nat]
    /\ touched \in [Node -> Nat]
    /\ stored \in [Node -> SUBSET [occurred_at : Nat, event_type : NodeEvent]]
    /\ \A s \in Session : began[s] <= clock
    /\ \A n \in Node : touched[n] <= clock
    /\ \A n \in Node : \A e \in stored[n] : e.occurred_at <= touched[n]

\* The latest of the events that are stored about a node with this log are those
\* of the request that wrote last: its verdict, if it brought one, and otherwise
\* that the node is ready.
EndsAs(log, events) ==
    LET latest == {e \in events : \A f \in events : f.occurred_at <= e.occurred_at} IN
    /\ \E e \in latest : e.event_type = log[Len(log)]
    /\ \A e \in latest : e.event_type \in {log[Len(log)], "node.ready"}

Told(n) == IF db.node_log[n] = <<>> THEN stored[n] = {}
           ELSE n \notin contested => EndsAs(db.node_log[n], stored[n])

EInv == IInv /\ Stamped /\ \A n \in Node : Told(n)

\* What s is about to commit about n.
LEMMA InsertsAre ==
  ASSUME IInv, Stamped, NEW s \in Session, At(s, "commit"), NEW n \in Node
  PROVE  LET log == View(s).node_log[n] IN
         /\ Inserts(s, n) \subseteq [occurred_at : {began[s]}, event_type : NodeEvent]
         /\ Inserts(s, n) = {} => log = db.node_log[n]
         /\ Inserts(s, n) # {} =>
               /\ log # <<>>
               /\ \E e \in Inserts(s, n) : e.event_type = log[Len(log)]
               /\ \A e \in Inserts(s, n) : e.event_type \in {log[Len(log)], "node.ready"}
<1> DEFINE old == db.node_log[n]  log == View(s).node_log[n]
           new == {[occurred_at |-> began[s], event_type |-> log[i]] :
                      i \in (Len(old) + 1)..Len(log)}
<1>1. OpenSound(definition, db, txn[s]) /\ View(s) = Seen(db, txn[s])
      /\ View(s) \in Rows /\ db \in Rows
  BY OneSession DEF SessionSound, At
<1>2. /\ log \in Seq(NodeEvent) /\ Len(log) \in Nat /\ Len(old) \in Nat
      /\ Len(old) <= Len(log)
      /\ Len(old) = Len(log) => log = old
      /\ \A i \in (Len(old) + 1)..(Len(log) - 1) : log[i] = "node.ready"
  <2>1. log \in Seq(NodeEvent) /\ old \in Seq(NodeEvent)
    BY <1>1 DEF Rows
  <2>2. Continues(db, View(s))
    BY <1>1 DEF OpenSound
  <2>3. QED
    BY <2>1, <2>2 DEF Continues
<1>3. Inserts(s, n) = new
  BY DEF Inserts
<1> HIDE DEF old, log
<1>4. new \subseteq [occurred_at : {began[s]}, event_type : NodeEvent]
  BY <1>2
<1>5. new = {} => log = old
  <2>1. Len(old) # Len(log) => Len(log) \in (Len(old) + 1)..Len(log)
    BY <1>2
  <2>2. QED
    BY <1>2, <2>1
<1>6. ASSUME new # {}
      PROVE  /\ log # <<>>
             /\ \E e \in new : e.event_type = log[Len(log)]
             /\ \A e \in new : e.event_type \in {log[Len(log)], "node.ready"}
  <2>1. Len(log) \in (Len(old) + 1)..Len(log)
    BY <1>2, <1>6
  <2>2. \A i \in (Len(old) + 1)..Len(log) : log[i] \in {log[Len(log)], "node.ready"}
    BY <1>2
  <2>3. log # <<>>
    BY <1>2, <2>1
  <2>4. \E e \in new : e.event_type = log[Len(log)]
    <3> DEFINE last == [occurred_at |-> began[s], event_type |-> log[Len(log)]]
    <3>1. last \in new
      BY <2>1, Zenon
    <3>2. last.event_type = log[Len(log)]
      OBVIOUS
    <3> HIDE DEF last, new
    <3>3. QED
      BY <3>1, <3>2
  <2>5. \A e \in new : e.event_type \in {log[Len(log)], "node.ready"}
    BY <2>2
  <2>6. QED
    BY <2>3, <2>4, <2>5
<1>7. QED
  BY <1>3, <1>4, <1>5, <1>6 DEF old, log

\* Later events hide the earlier ones.
LEMMA LaterEventsTell ==
  ASSUME NEW log, NEW earlier, NEW new, NEW t \in Nat, NEW at \in Nat, at < t,
         \A e \in earlier : e.occurred_at \in Nat /\ e.occurred_at <= at,
         \A e \in new : e.occurred_at = t,
         \E e \in new : e.event_type = log[Len(log)],
         \A e \in new : e.event_type \in {log[Len(log)], "node.ready"}
  PROVE  EndsAs(log, earlier \cup new)
<1> DEFINE all == earlier \cup new
           latest == {e \in all : \A f \in all : f.occurred_at <= e.occurred_at}
<1>1. \A e \in all : e.occurred_at \in Nat /\ e.occurred_at <= t
  OBVIOUS
<1>2. \A e \in new : e \in latest
  BY <1>1
<1>3. \A e \in latest : e \in new
  OBVIOUS
<1> HIDE DEF latest
<1>4. /\ \E e \in latest : e.event_type = log[Len(log)]
      /\ \A e \in latest : e.event_type \in {log[Len(log)], "node.ready"}
  BY <1>2, <1>3
<1>5. QED
  BY <1>4 DEF EndsAs, latest

LEMMA CommitEventsInv ==
  ASSUME EInv, NEW s \in Session, CommitEvents(s)
  PROVE  EInv'
<1> DEFINE written == {n \in Node : Inserts(s, n) # {}}
<1>1. /\ Commit(s) /\ At(s, "commit") /\ db' = View(s)
      /\ stored' = [n \in Node |-> stored[n] \cup Inserts(s, n)]
      /\ touched' = [n \in Node |-> IF n \in written THEN clock ELSE touched[n]]
      /\ contested' = contested \cup {n \in written : began[s] <= touched[n]}
      /\ began' = [began EXCEPT ![s] = 0]
      /\ clock' = clock
  BY DEF CommitEvents, Commit
<1>2. IInv /\ Stamped /\ IInv'
  BY <1>1, CommitInv DEF EInv
<1>3. \A n \in Node : Inserts(s, n) \subseteq [occurred_at : {began[s]}, event_type : NodeEvent]
  BY <1>1, <1>2, InsertsAre
<1>4. began[s] \in Nat /\ began[s] <= clock /\ clock \in Nat
  BY <1>2 DEF Stamped
<1> HIDE DEF written
<1>5. Stamped'
  <2>1. clock' \in Nat /\ began' \in [Session -> Nat] /\ touched' \in [Node -> Nat]
    BY <1>1, <1>2 DEF Stamped
  <2>2. stored' \in [Node -> SUBSET [occurred_at : Nat, event_type : NodeEvent]]
    BY <1>1, <1>2, <1>3, <1>4 DEF Stamped
  <2>3. (\A o \in Session : began'[o] <= clock') /\ (\A n \in Node : touched'[n] <= clock')
    BY <1>1, <1>2, <1>4 DEF Stamped
  <2>4. ASSUME NEW n \in Node, NEW e \in stored'[n]  PROVE e.occurred_at <= touched'[n]
    <3>1. /\ touched[n] \in Nat /\ touched[n] <= clock
          /\ \A f \in stored[n] : f.occurred_at \in Nat /\ f.occurred_at <= touched[n]
      BY <1>2 DEF Stamped
    <3>2. \A f \in Inserts(s, n) : f.occurred_at = began[s] /\ n \in written
      BY <1>3 DEF written
    <3>3. touched'[n] = IF n \in written THEN clock ELSE touched[n]
      BY <1>1
    <3>4. e \in stored[n] \/ e \in Inserts(s, n)
      BY <1>1, <2>4
    <3>5. QED
      BY <1>4, <3>1, <3>2, <3>3, <3>4
  <2>5. QED
    BY <2>1, <2>2, <2>3, <2>4 DEF Stamped
<1>6. ASSUME NEW n \in Node  PROVE Told(n)'
  <2> DEFINE log == View(s).node_log[n]  new == Inserts(s, n)
  <2>1. /\ new = {} => log = db.node_log[n]
        /\ new # {} =>
              /\ log # <<>>
              /\ \E e \in new : e.event_type = log[Len(log)]
              /\ \A e \in new : e.event_type \in {log[Len(log)], "node.ready"}
    BY <1>1, <1>2, InsertsAre
  <2>2. stored'[n] = stored[n] \cup new /\ db'.node_log[n] = log
    BY <1>1
  <2>3. n \notin contested' => n \notin contested /\ (new # {} => ~(began[s] <= touched[n]))
    BY <1>1 DEF written
  <2>4. Told(n)
    BY DEF EInv
  <2>5. \A e \in new : e.occurred_at = began[s]
    BY <1>3
  <2>6. /\ touched[n] \in Nat
        /\ \A e \in stored[n] : e.occurred_at \in Nat /\ e.occurred_at <= touched[n]
    BY <1>2 DEF Stamped
  <2> HIDE DEF log, new
  <2>7. CASE new = {}
    BY <2>1, <2>2, <2>3, <2>4, <2>7 DEF Told
  <2>8. CASE new # {}
    <3>1. ASSUME n \notin contested'  PROVE EndsAs(log, stored[n] \cup new)
      <4>1. touched[n] < began[s]
        BY <1>4, <2>3, <2>6, <2>8, <3>1
      <4>2. QED
        BY <1>4, <2>1, <2>5, <2>6, <2>8, <4>1, LaterEventsTell
    <3>2. QED
      BY <2>1, <2>2, <2>8, <3>1 DEF Told
  <2>9. QED
    BY <2>7, <2>8
<1>7. QED
  BY <1>2, <1>5, <1>6 DEF EInv

LEMMA EventsNextInv == EInv /\ [EventsNext]_<<vars, eventVars>> => EInv'
<1> SUFFICES ASSUME EInv, [EventsNext]_<<vars, eventVars>>  PROVE EInv'
  OBVIOUS
<1>1. ASSUME IInv', db' = db, UNCHANGED <<stored, touched, contested>>, Stamped'  PROVE EInv'
  BY <1>1 DEF EInv, Told
<1>2. CASE UNCHANGED <<vars, eventVars>>
  <2>1. IInv'
    BY <1>2, NextInv DEF EInv
  <2>2. QED
    BY <1>1, <1>2, <2>1 DEF EInv, Stamped, vars, eventVars
<1>3. ASSUME NEW s \in Session, Begin(s)  PROVE EInv'
  <2>1. IInv'
    BY <1>3, NextInv DEF Begin, EInv
  <2>2. Stamped'
    BY <1>3 DEF Begin, EInv, Stamped
  <2>3. QED
    BY <1>1, <1>3, <2>1, <2>2 DEF Begin, vars
<1>4. ASSUME NEW s \in Session, Execute(s)  PROVE EInv'
  <2>1. [Next]_vars
    BY <1>4 DEF Execute, Next
  <2>2. db' = db
    BY <1>4 DEF Execute, CreateRun, MarkManualDone, SubmitGateDecision, CancelRun, Step,
                DispatchReadyAdapters, AdvancePass, ApplyTransition, SkipNode, CancelRunRow,
                ComputeRunStatus, FinalizeRunStatus, Commit
  <2>3. Stamped' /\ UNCHANGED <<stored, touched, contested>>
    BY <1>4 DEF Execute, EInv, Stamped, eventVars
  <2>4. QED
    BY <1>1, <2>1, <2>2, <2>3, NextInv DEF EInv
<1>5. ASSUME NEW s \in Session, RollbackEvents(s)  PROVE EInv'
  <2>1. [Next]_vars /\ db' = db
    BY <1>5 DEF RollbackEvents, Rollback, Next, vars
  <2>2. Stamped' /\ UNCHANGED <<stored, touched, contested>>
    BY <1>5 DEF RollbackEvents, EInv, Stamped
  <2>3. QED
    BY <1>1, <2>1, <2>2, NextInv DEF EInv
<1>6. QED
  BY <1>2, <1>3, <1>4, <1>5, CommitEventsInv DEF EventsNext

LEMMA EventsInitInv == EventsInit => EInv
<1> SUFFICES ASSUME EventsInit  PROVE EInv
  OBVIOUS
<1>1. IInv
  BY InitInv DEF EventsInit
<1>2. \A n \in Node : db.node_log[n] = <<>>
  BY DEF EventsInit, Init, NoRows
<1>3. Stamped
  BY DEF EventsInit, Stamped
<1>4. QED
  BY <1>1, <1>2, <1>3 DEF EInv, Told, EventsInit

\* However many requests there are and however they overlap, the times of the
\* stored events are enough to replay a node, unless two requests that overlapped
\* wrote that very node.
THEOREM EventTimesReplay == EventsSpec => []UncontestedNodesReplay
<1>1. ASSUME EInv  PROVE UncontestedNodesReplay
  <2>1. SUFFICES ASSUME db.run # "absent", NEW n \in Node \ contested  PROVE ReplayGives(n)
    BY DEF UncontestedNodesReplay
  <2> DEFINE log == db.node_log[n]
             told == {StatusAfter(e.event_type) : e \in Latest(n)}
  <2>2. db.node[n] = IF log = <<>> THEN InitialNodeStates(definition)[n]
                                   ELSE StatusAfter(log[Len(log)])
    BY <1>1, <2>1 DEF EInv, IInv, Committed, RowReplays, ReplayedStatus
  <2>3. Told(n)
    BY <1>1 DEF EInv
  <2>4. CASE log = <<>>
    BY <2>2, <2>3, <2>4 DEF Told, ReplayGives
  <2>5. CASE log # <<>>
    <3>1. /\ \E e \in Latest(n) : e.event_type = log[Len(log)]
          /\ \A e \in Latest(n) : e.event_type \in {log[Len(log)], "node.ready"}
      BY <2>1, <2>3, <2>5 DEF Told, EndsAs, Latest
    <3>2. /\ db.node[n] \in told /\ told \subseteq {db.node[n], "ready"}
          /\ db.node[n] \in Terminal \cup {"ready"}
      BY <2>2, <2>5, <3>1 DEF StatusAfter, Terminal
    <3>3. stored[n] # {}
      BY <3>1 DEF Latest
    <3> HIDE DEF told
    <3>4. IF told \cap Terminal = {} THEN db.node[n] = "ready"
                                     ELSE told \cap Terminal = {db.node[n]}
      BY <3>2 DEF Terminal
    <3>5. QED
      BY <3>3, <3>4 DEF ReplayGives, told
  <2>6. QED
    BY <2>4, <2>5
<1>2. QED
  BY <1>1, EventsInitInv, EventsNextInv, PTL DEF EventsSpec
=============================================================================
