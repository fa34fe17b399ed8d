-------------------------- MODULE TemplateRunProofs --------------------------
(***************************************************************************)
(* Proofs about TemplateRun, for all valid templates, all inputs and any   *)
(* number of exports.                                                      *)
(***************************************************************************)
EXTENDS TemplateRun, OriginProofs, FiniteSetTheorems, InductionLemmas

-----------------------------------------------------------------------------
(* The statuses of the nodes.                                              *)

\* Nothing sets a node to running or paused.
Status == {"pending", "ready", "completed", "failed", "skipped"}

Terminal == {"completed", "failed", "skipped"}

\* Work follows the edges, a skipped node stands in a cancelled run, and no
\* operation completes a node of an unserved kind.
NodesSound(t, node) ==
    /\ node \in [t.nodes -> Status]
    /\ \A n \in t.nodes : node[n] \in {"ready", "completed", "failed"} =>
          \A u \in Exec(t)!Upstream(t, n) : node[u] = "completed"
    /\ (\E n \in t.nodes : node[n] = "skipped") => \A n \in t.nodes : node[n] \in Terminal
    /\ \A n \in t.nodes : node[n] = "completed" => t.kind[n] \notin Unserved

\* A move of one node that work on the run may make.
Legal(t, node, new, n) ==
    \/ node[n] = "pending" /\ new[n] = "ready"
       /\ \A u \in Exec(t)!Upstream(t, n) : node[u] = "completed"
    \/ node[n] = "ready" /\ new[n] = "failed"
    \/ node[n] = "ready" /\ new[n] = "completed" /\ t.kind[n] \notin Unserved

NoneSkipped(t, node) == \A n \in t.nodes : node[n] # "skipped"

\* Legal moves, of any number of nodes at once, keep the nodes sound.
LEMMA LegalMoves ==
  ASSUME NEW t \in Templates, NEW node, NodesSound(t, node),
         NEW new \in [t.nodes -> Status],
         \A n \in t.nodes : new[n] = node[n] \/ Legal(t, node, new, n)
  PROVE  NodesSound(t, new) /\ (NoneSkipped(t, node) => NoneSkipped(t, new))
<1>1. \A n \in t.nodes : Exec(t)!Upstream(t, n) \subseteq t.nodes
  BY DEF Exec!Upstream
<1>2. \A n \in t.nodes : node[n] \in Terminal => new[n] = node[n]
  BY DEF Legal, Terminal
<1>3. ASSUME NEW n \in t.nodes, new[n] \in {"ready", "completed", "failed"},
             NEW u \in Exec(t)!Upstream(t, n)
      PROVE  new[u] = "completed"
  <2>1. node[u] = "completed"
    BY <1>3 DEF NodesSound, Legal
  <2>2. QED
    BY <1>1, <1>2, <2>1 DEF Terminal
<1>4. ASSUME NEW n \in t.nodes, new[n] = "skipped"
      PROVE  node[n] = "skipped" /\ \A m \in t.nodes : new[m] \in Terminal
  BY <1>2, <1>4 DEF NodesSound, Legal
<1>5. \A n \in t.nodes : new[n] = "completed" => t.kind[n] \notin Unserved
  BY DEF NodesSound, Legal
<1>6. QED
  BY <1>3, <1>4, <1>5 DEF NodesSound, NoneSkipped

\* What _dispatch_ready_adapters does to the nodes.
LEMMA DispatchIsLegal ==
  ASSUME NEW t \in Templates, NEW node, NodesSound(t, node), NEW failing,
         NEW mid, mid = Applied(t, node, Exec(t)!Dispatch(t, node, failing))
  PROVE  /\ mid \in [t.nodes -> Status]
         /\ \A n \in t.nodes : mid[n] = node[n] \/ Legal(t, node, mid, n)
         /\ \A n \in t.nodes : IF n \in Exec(t)!Dispatchable(t, node)
               THEN mid[n] = IF n \in failing THEN "failed" ELSE "completed"
               ELSE mid[n] = node[n]
<1> DEFINE batch == Exec(t)!Dispatch(t, node, failing)
           called == Exec(t)!Dispatchable(t, node)
<1>1. DOMAIN batch = called /\ called \subseteq t.nodes
  BY DEF Exec!Dispatch, Exec!Dispatchable
<1>2. \A n \in called : batch[n].new_status = IF n \in failing THEN "failed" ELSE "completed"
  BY DEF Exec!Dispatch, Exec!Moves
<1>3. \A n \in called : node[n] = "ready" /\ t.kind[n] = "automated"
  BY DEF Exec!Dispatchable
<1> HIDE DEF batch, called
<1>4. mid = [n \in t.nodes |-> IF n \in called THEN batch[n].new_status ELSE node[n]]
  BY <1>1 DEF Applied, batch
<1>5. \A n \in t.nodes : IF n \in called
         THEN mid[n] = IF n \in failing THEN "failed" ELSE "completed"
         ELSE mid[n] = node[n]
  BY <1>2, <1>4
<1>6. mid \in [t.nodes -> Status]
  BY <1>4, <1>5 DEF NodesSound, Status
<1>7. \A n \in t.nodes : mid[n] = node[n] \/ Legal(t, node, mid, n)
  BY <1>3, <1>5 DEF Legal, Unserved
<1>8. QED
  BY <1>5, <1>6, <1>7 DEF called

\* What advance does to them.
LEMMA AdvanceIsLegal ==
  ASSUME NEW t \in Templates, NEW node, NodesSound(t, node), NoneSkipped(t, node),
         NEW new, new = Applied(t, node, Exec(t)!Advance(t, node))
  PROVE  /\ new \in [t.nodes -> Status]
         /\ \A n \in t.nodes : new[n] = node[n] \/ Legal(t, node, new, n)
         /\ \A n \in t.nodes :
               /\ n \in Exec(t)!Promotable(t, node) => node[n] = "pending" /\ new[n] = "ready"
               /\ n \in Exec(t)!Placeholders(t, node) => node[n] = "ready" /\ new[n] = "completed"
               /\ n \notin Exec(t)!Promotable(t, node) \cup Exec(t)!Placeholders(t, node) =>
                     new[n] = node[n]
<1> DEFINE batch == Exec(t)!Advance(t, node)
           up == Exec(t)!Promotable(t, node)
           over == Exec(t)!Placeholders(t, node)
<1>1. DOMAIN batch = up \cup over /\ up \cup over \subseteq t.nodes
  BY DEF Exec!Advance, Exec!Promotable, Exec!Placeholders
<1>2. \A n \in up \cup over : batch[n].new_status = IF node[n] = "pending" THEN "ready" ELSE "completed"
  BY DEF Exec!Advance, Exec!Moves
<1>3. \A n \in over : node[n] = "ready" /\ t.kind[n] = "automated"
  BY DEF Exec!Placeholders
<1>4. \A n \in up : /\ node[n] = "pending"
                    /\ \A u \in Exec(t)!Upstream(t, n) : node[u] = "completed"
  BY DEF Exec!Promotable, Exec!Upstream, Exec!Passed, NoneSkipped
<1> HIDE DEF batch, up, over
<1>5. new = [n \in t.nodes |-> IF n \in up \cup over THEN batch[n].new_status ELSE node[n]]
  BY <1>1 DEF Applied, batch
<1>6. \A n \in t.nodes :
         /\ n \in up => node[n] = "pending" /\ new[n] = "ready"
         /\ n \in over => node[n] = "ready" /\ new[n] = "completed"
         /\ n \notin up \cup over => new[n] = node[n]
  BY <1>2, <1>3, <1>4, <1>5
<1>7. new \in [t.nodes -> Status]
  BY <1>5, <1>6 DEF NodesSound, Status
<1>8. \A n \in t.nodes : new[n] = node[n] \/ Legal(t, node, new, n)
  BY <1>3, <1>4, <1>6 DEF Legal, Unserved
<1>9. QED
  BY <1>6, <1>7, <1>8 DEF up, over

-----------------------------------------------------------------------------
(* The rows of the run.                                                    *)

\* The options a run can have: none, or those of a posted geometry.
Options == {<<>>} \cup {GenerateOptions(g, l) : g \in Geometries,
                                                l \in PostedLoads \cup {DefaultLoads}}

RowRecord(t) == [run : Exec(t)!RunStatus \cup {"absent"}, node : [t.nodes -> Status],
                 emitted : SUBSET t.nodes, geometry : Geometries \cup {None},
                 loads : PostedLoads \cup {None}, options : Options, parsed_by : Nat,
                 note : Named]

\* The outputs of a run and where they are from.
OutputsSound(t, r) ==
    /\ \A n \in r.emitted : r.node[n] = "completed"
    /\ \A n \in t.nodes : t.kind[n] = "automated" /\ t.tool[n] = "registered" /\ r.node[n] = "completed"
                             => n \in r.emitted
    /\ "floor_parse" \in r.emitted => <<"upload_cad", "floor_parse">> \in t.edges
    /\ r.options # <<>> => <<"architectural_review", "ai_options">> \in t.edges
    /\ "architectural_review" \in r.emitted => r.geometry \in Geometries
    /\ r.geometry # None => "architectural_review" \in r.emitted
    /\ "parameters" \in r.emitted => r.loads \in PostedLoads

Rows(t) == {r \in RowRecord(t) : NodesSound(t, r.node) /\ OutputsSound(t, r)}

\* A request in progress; it drives a run that was not cancelled.
Work(t) == {w \in [rows : Rows(t), stored : SUBSET Artifact, moved : BOOLEAN] :
               NoneSkipped(t, w.rows.node)}

\* Its adapters that are called, those that fail, and the nodes after each half
\* of an iteration.
Called(t, r) == Exec(t)!Invocable(t, r.node)
Failed(t, r, fault) == {n \in Called(t, r) : AdapterFails(t, r, fault, n)}
Mid(t, r, fault) == Applied(t, r.node, Exec(t)!Dispatch(t, r.node, Failed(t, r, fault)))
After(t, r, fault) ==
    Applied(t, Mid(t, r, fault), Exec(t)!Advance(t, Mid(t, r, fault)))

\* Its adapters that succeed, and the rows they leave.
Done(t, r, fault) == Called(t, r) \ Failed(t, r, fault)
NewRows(t, r, fault) ==
    [r EXCEPT !.node = After(t, r, fault),
              !.emitted = r.emitted \cup Done(t, r, fault),
              !.options = IF "ai_options" \in Done(t, r, fault)
                          THEN GenerateOptions(r.geometry, LoadsFor(t, r)) ELSE r.options,
              !.parsed_by = IF "floor_parse" \in Done(t, r, fault)
                            THEN attempt + 1 ELSE r.parsed_by]

\* An iteration in terms of these.
LEMMA IterationStored ==
  ASSUME NEW t, NEW w, NEW fault
  PROVE  Iteration(t, w, fault).stored =
            w.stored \cup UNION {StoredBy(t, w.rows, fault, n) : n \in Called(t, w.rows)}
BY Zenon DEF Iteration, Called

LEMMA IterationMoved ==
  ASSUME NEW t, NEW w, NEW fault
  PROVE  Iteration(t, w, fault).moved =
            (DOMAIN Exec(t)!Dispatch(t, w.rows.node, Failed(t, w.rows, fault))
             \cup DOMAIN Exec(t)!Advance(t, Mid(t, w.rows, fault)) # {})
BY Zenon DEF Iteration, Called, Failed, Mid

LEMMA IterationRows ==
  ASSUME NEW t, NEW w, NEW fault
  PROVE  Iteration(t, w, fault).rows = NewRows(t, w.rows, fault)
BY Zenon DEF Iteration, Called, Failed, Mid, After, Done, NewRows

LEMMA IterationRecord ==
  ASSUME NEW t, NEW w, NEW fault
  PROVE  Iteration(t, w, fault) = [stored |-> Iteration(t, w, fault).stored,
                                   moved |-> Iteration(t, w, fault).moved,
                                   rows |-> Iteration(t, w, fault).rows]
BY Zenon DEF Iteration

\* The nodes before and after an iteration.
LEMMA IterationNodes ==
  ASSUME NEW t \in Templates, NEW r \in Rows(t), NoneSkipped(t, r.node), NEW fault
  PROVE  /\ Mid(t, r, fault) \in [t.nodes -> Status]
         /\ After(t, r, fault) \in [t.nodes -> Status]
         /\ NodesSound(t, Mid(t, r, fault)) /\ NoneSkipped(t, Mid(t, r, fault))
         /\ NodesSound(t, After(t, r, fault)) /\ NoneSkipped(t, After(t, r, fault))
         /\ \A n \in t.nodes : IF n \in Exec(t)!Dispatchable(t, r.node)
               THEN /\ Mid(t, r, fault)[n] =
                           IF n \in Failed(t, r, fault) THEN "failed" ELSE "completed"
                    /\ After(t, r, fault)[n] = Mid(t, r, fault)[n]
               ELSE /\ Mid(t, r, fault)[n] = r.node[n]
                    /\ After(t, r, fault)[n] = "completed" =>
                          r.node[n] = "completed" \/ t.tool[n] = "unset"
         /\ \A n \in t.nodes : r.node[n] \in Terminal => After(t, r, fault)[n] = r.node[n]
<1> DEFINE mid == Mid(t, r, fault)  new == After(t, r, fault)
<1>1. NodesSound(t, r.node)
  BY DEF Rows
<1>2. /\ mid \in [t.nodes -> Status]
      /\ \A n \in t.nodes : mid[n] = r.node[n] \/ Legal(t, r.node, mid, n)
      /\ \A n \in t.nodes : IF n \in Exec(t)!Dispatchable(t, r.node)
            THEN mid[n] = IF n \in Failed(t, r, fault) THEN "failed" ELSE "completed"
            ELSE mid[n] = r.node[n]
  BY <1>1, DispatchIsLegal DEF Mid
<1>3. NodesSound(t, mid) /\ NoneSkipped(t, mid)
  BY <1>1, <1>2, LegalMoves
<1>4. /\ new \in [t.nodes -> Status]
      /\ \A n \in t.nodes : new[n] = mid[n] \/ Legal(t, mid, new, n)
      /\ \A n \in t.nodes :
            /\ n \in Exec(t)!Promotable(t, mid) => new[n] = "ready"
            /\ n \notin Exec(t)!Promotable(t, mid) \cup Exec(t)!Placeholders(t, mid) =>
                  new[n] = mid[n]
  BY <1>3, AdvanceIsLegal DEF After
<1>5. NodesSound(t, new) /\ NoneSkipped(t, new)
  BY <1>3, <1>4, LegalMoves
<1>6. \A n \in t.nodes : n \in Exec(t)!Dispatchable(t, r.node) => new[n] = mid[n]
  BY <1>2, <1>4 DEF Legal
<1>7. \A n \in t.nodes : new[n] = "completed" => mid[n] = "completed" \/ t.tool[n] = "unset"
  BY <1>4 DEF Exec!Placeholders
<1>8. \A n \in t.nodes : r.node[n] \in Terminal => new[n] = r.node[n]
  <2>1. \A n \in t.nodes : r.node[n] \in Terminal => mid[n] = r.node[n]
    BY <1>2 DEF Legal, Terminal
  <2>2. \A n \in t.nodes : mid[n] \in Terminal => new[n] = mid[n]
    BY <1>4 DEF Legal, Terminal
  <2>3. QED
    BY <2>1, <2>2
<1> HIDE DEF mid, new
<1>9. QED
  BY <1>2, <1>3, <1>4, <1>5, <1>6, <1>7, <1>8 DEF mid, new

\* An adapter that succeeds had the outputs it needs, along edges of the graph.
LEMMA CalledSucceeds ==
  ASSUME NEW t \in Templates, NEW r \in Rows(t), NEW fault \in Fault,
         NEW n \in Done(t, r, fault)
  PROVE  /\ fault = "none"
         /\ n \in AdapterNodes /\ n \in t.nodes /\ t.tool[n] = "registered"
         /\ r.node[n] = "ready"
         /\ n \in Exec(t)!Dispatchable(t, r.node)
         /\ n = "floor_parse" => /\ <<"upload_cad", "floor_parse">> \in t.edges
                                 /\ ~ParserRefuses(t, r)
         /\ n = "ai_options" => /\ <<"architectural_review", "ai_options">> \in t.edges
                                /\ r.geometry \in Geometries
                                /\ LoadsFor(t, r) \in PostedLoads \cup {DefaultLoads}
<1>1. /\ n \in t.nodes /\ r.node[n] = "ready" /\ t.tool[n] = "registered"
      /\ n \in Exec(t)!Dispatchable(t, r.node)
  BY DEF Done, Called, Exec!Invocable, Exec!Dispatchable
<1>2. ~AdapterFails(t, r, fault, n)
  BY DEF Done, Failed
<1>3. fault = "none" /\ ~Refuses(t, r, n)
  BY <1>2 DEF AdapterFails
<1>4. n \in AdapterNodes
  BY <1>1, TemplatesAreValid
<1>5. ASSUME n = "floor_parse"
      PROVE  <<"upload_cad", "floor_parse">> \in t.edges /\ ~ParserRefuses(t, r)
  BY <1>3, <1>5 DEF Refuses, ParserRefuses, Inputs, Exec!Upstream
<1>6. ASSUME n = "ai_options"
      PROVE  /\ <<"architectural_review", "ai_options">> \in t.edges
             /\ r.geometry \in Geometries
             /\ LoadsFor(t, r) \in PostedLoads \cup {DefaultLoads}
  <2>1. "architectural_review" \in Inputs(t, r, "ai_options")
    BY <1>3, <1>6 DEF Refuses, GeneratorRefuses
  <2>2. /\ "architectural_review" \in r.emitted
        /\ <<"architectural_review", "ai_options">> \in t.edges
    BY <2>1 DEF Inputs, Exec!Upstream
  <2>3. "parameters" \in Inputs(t, r, "ai_options") => r.loads \in PostedLoads
    BY DEF Inputs, Rows, OutputsSound
  <2>4. QED
    BY <2>2, <2>3 DEF Rows, OutputsSound, LoadsFor
<1>7. QED
  BY <1>1, <1>3, <1>4, <1>5, <1>6

\* Iterations keep the rows of the run sound.
LEMMA IterationSound ==
  ASSUME NEW t \in Templates, NEW w \in Work(t), NEW fault \in Fault, attempt \in Nat
  PROVE  Iteration(t, w, fault) \in Work(t)
<1> DEFINE r == w.rows  next == Iteration(t, w, fault)
           done == Done(t, r, fault)
<1> HIDE DEF r, next, done
<1>0. /\ next.stored = w.stored \cup UNION {StoredBy(t, r, fault, n) : n \in Called(t, r)}
      /\ next.rows = [r EXCEPT
             !.node = After(t, r, fault),
             !.emitted = r.emitted \cup done,
             !.options = IF "ai_options" \in done
                         THEN GenerateOptions(r.geometry, LoadsFor(t, r)) ELSE r.options,
             !.parsed_by = IF "floor_parse" \in done THEN attempt + 1 ELSE r.parsed_by]
      /\ next = [stored |-> next.stored, moved |-> next.moved, rows |-> next.rows]
  <2>1. next.stored = w.stored \cup UNION {StoredBy(t, r, fault, n) : n \in Called(t, r)}
    BY IterationStored, Zenon DEF r, next
  <2>2. next.rows = NewRows(t, r, fault)
    BY IterationRows, Zenon DEF r, next
  <2>3. next = [stored |-> next.stored, moved |-> next.moved, rows |-> next.rows]
    BY IterationRecord, Zenon DEF next
  <2>4. QED
    BY <2>1, <2>2, <2>3 DEF NewRows, done
<1>1. r \in Rows(t) /\ NoneSkipped(t, r.node) /\ w.stored \subseteq Artifact
  BY DEF Work, r
<1>2. \A n \in done : /\ n \in AdapterNodes /\ n \in t.nodes
                      /\ r.node[n] = "ready" /\ n \in Exec(t)!Dispatchable(t, r.node)
                      /\ n \notin Failed(t, r, fault)
  BY <1>1, CalledSucceeds DEF done, Done
<1>3. /\ NodesSound(t, next.rows.node) /\ NoneSkipped(t, next.rows.node)
      /\ next.rows.node \in [t.nodes -> Status]
      /\ next.rows.node = After(t, r, fault)
  BY <1>0, <1>1, IterationNodes DEF Rows, RowRecord
<1>4. \A n \in done : next.rows.node[n] = "completed"
  BY <1>1, <1>2, <1>3, IterationNodes
<1>5. \A n \in t.nodes : r.node[n] = "completed" => next.rows.node[n] = "completed"
  BY <1>1, <1>3, IterationNodes DEF Terminal
<1>6. /\ next.rows.emitted = r.emitted \cup done
      /\ next.rows.geometry = r.geometry /\ next.rows.loads = r.loads
      /\ next.rows.options = IF "ai_options" \in done
                             THEN GenerateOptions(r.geometry, LoadsFor(t, r)) ELSE r.options
  BY <1>0, <1>1 DEF Rows, RowRecord
<1>7. "architectural_review" \notin done /\ "parameters" \notin done
  BY <1>2 DEF AdapterNodes
<1>8. OutputsSound(t, next.rows)
  <2>1. OutputsSound(t, r)
    BY <1>1 DEF Rows
  <2>2. \A n \in next.rows.emitted : next.rows.node[n] = "completed"
    BY <1>1, <1>4, <1>5, <1>6, <2>1 DEF OutputsSound, Rows, RowRecord
  <2>3. ASSUME NEW n \in t.nodes, t.kind[n] = "automated", t.tool[n] = "registered",
               next.rows.node[n] = "completed"
        PROVE  n \in next.rows.emitted
    <3>1. CASE n \in Exec(t)!Dispatchable(t, r.node)
      <4>1. n \in Called(t, r)
        BY <2>3, <3>1 DEF Called, Exec!Invocable
      <4>2. n \notin Failed(t, r, fault)
        BY <1>1, <1>3, <2>3, <3>1, IterationNodes
      <4>3. QED
        BY <1>6, <4>1, <4>2 DEF done, Done
    <3>2. CASE n \notin Exec(t)!Dispatchable(t, r.node)
      <4>1. r.node[n] = "completed"
        BY <1>1, <1>3, <2>3, <3>2, IterationNodes
      <4>2. QED
        BY <1>6, <2>1, <2>3, <4>1 DEF OutputsSound
    <3>3. QED
      BY <3>1, <3>2
  <2>4. "floor_parse" \in done => <<"upload_cad", "floor_parse">> \in t.edges
    BY <1>1, CalledSucceeds DEF done
  <2>5. "ai_options" \in done => <<"architectural_review", "ai_options">> \in t.edges
    BY <1>1, CalledSucceeds DEF done
  <2>6. QED
    BY <1>6, <1>7, <2>1, <2>2, <2>3, <2>4, <2>5 DEF OutputsSound
<1>9. next.rows \in RowRecord(t)
  <2>1. next.rows.options \in Options
    <3>1. CASE "ai_options" \in done
      <4>1. r.geometry \in Geometries /\ LoadsFor(t, r) \in PostedLoads \cup {DefaultLoads}
        BY <1>1, <3>1, CalledSucceeds DEF done
      <4>2. QED
        BY <1>6, <3>1, <4>1 DEF Options
    <3>2. CASE "ai_options" \notin done
      BY <1>1, <1>6, <3>2 DEF Rows, RowRecord
    <3>3. QED
      BY <3>1, <3>2
  <2>2. next.rows.emitted \subseteq t.nodes
    BY <1>1, <1>2, <1>6 DEF Rows, RowRecord
  <2>3. next.rows = [r EXCEPT !.node = next.rows.node, !.emitted = next.rows.emitted,
                              !.options = next.rows.options,
                              !.parsed_by = next.rows.parsed_by]
    BY <1>0, <1>1 DEF Rows, RowRecord
  <2>4. next.rows.parsed_by \in Nat
    BY <1>0, <1>1 DEF Rows, RowRecord
  <2>5. QED
    BY <1>1, <1>3, <2>1, <2>2, <2>3, <2>4 DEF Rows, RowRecord
<1>10. next.stored \subseteq Artifact /\ next.moved \in BOOLEAN
  <2>1. \A n : StoredBy(t, r, fault, n) \subseteq Artifact
    BY DEF StoredBy, Artifact
  <2>2. next.moved = (DOMAIN Exec(t)!Dispatch(t, r.node, Failed(t, r, fault))
                      \cup DOMAIN Exec(t)!Advance(t, Mid(t, r, fault)) # {})
    BY IterationMoved, Zenon DEF next, r
  <2>3. QED
    BY <1>0, <1>1, <2>1, <2>2
<1>11. QED
  <2>1. next.rows \in Rows(t)
    BY <1>3, <1>8, <1>9 DEF Rows
  <2>2. next \in Work(t)
    BY <1>0, <1>3, <1>10, <2>1 DEF Work
  <2>3. QED
    BY <2>2 DEF next

-----------------------------------------------------------------------------
(* The loop.                                                               *)

Automated(t) == {n \in t.nodes : t.kind[n] = "automated"}

LEMMA EnoughIsNat ==
  ASSUME NEW t \in Templates
  PROVE  /\ IsFiniteSet(Automated(t)) /\ Cardinality(Automated(t)) \in Nat
         /\ Enough(t) = 2 * Cardinality(Automated(t)) + 2
         /\ Enough(t) \in Nat
<1>1. IsFiniteSet(Automated(t))
  BY TemplatesAreValid, FS_Subset DEF Automated
<1>2. Cardinality(Automated(t)) \in Nat
  BY <1>1, FS_CardinalityType
<1>3. Enough(t) = 2 * Cardinality(Automated(t)) + 2
  BY DEF Enough, Automated
<1>4. QED
  BY <1>1, <1>2, <1>3

\* The recursive definition of the loop has a solution, whose values are sound.
LEMMA IterationsUnfold ==
  ASSUME NEW t \in Templates, NEW r \in Rows(t), NoneSkipped(t, r.node), NEW fault \in Fault,
         attempt \in Nat
  PROVE  /\ Iterations(t, r, fault) \in [0..Enough(t) -> Work(t)]
         /\ Iterations(t, r, fault)[0] = Working(r)
         /\ \A k \in 1..Enough(t) : Iterations(t, r, fault)[k] =
               Again(t, Iterations(t, r, fault)[k - 1], fault)
<1> DEFINE Step(f) == [k \in 0..Enough(t) |-> IF k = 0 THEN Working(r) ELSE Again(t, f[k - 1], fault)]
           F == [w \in Work(t) |-> Again(t, w, fault)]
<1>1. Enough(t) \in Nat
  BY EnoughIsNat
<1>2. Working(r) \in Work(t)
  BY DEF Working, Work
<1>3. F \in [Work(t) -> Work(t)]
  BY IterationSound DEF Again
<1>4. \A w \in Work(t) : F[w] = Again(t, w, fault)
  OBVIOUS
<1> HIDE DEF F
<1>5. PICK f \in [0..Enough(t) -> Work(t)] :
         f[0] = Working(r) /\ \A k \in 1..Enough(t) : f[k] = F[f[k - 1]]
  <2>1. \E f : IsIteration(f, Enough(t), Work(t), Working(r), F)
    BY <1>1, <1>2, <1>3, IterationExists
  <2>2. QED
    BY <2>1 DEF IsIteration
<1>6. \A k \in 1..Enough(t) : f[k] = Again(t, f[k - 1], fault)
  <2>1. \A k \in 1..Enough(t) : f[k - 1] \in Work(t)
    BY <1>1, <1>5
  <2>2. QED
    BY <1>5, <1>4, <2>1
<1>7. f = Step(f)
  <2>1. f = [k \in 0..Enough(t) |-> f[k]]
    BY <1>5
  <2>2. \A k \in 0..Enough(t) : f[k] = Step(f)[k]
    BY <1>1, <1>5, <1>6 DEF Again
  <2>3. QED
    BY <2>1, <2>2
<1>8. Iterations(t, r, fault) = CHOOSE g : g = Step(g)
  BY DEF Iterations
<1>9. Iterations(t, r, fault) = Step(Iterations(t, r, fault))
  <2> HIDE DEF Step
  <2>1. QED
    BY <1>7, <1>8
<1> DEFINE A == Iterations(t, r, fault)
<1> HIDE DEF A
<1>10. A = Step(A)
  BY <1>9 DEF A
<1>11. A[0] = Working(r) /\ \A k \in 1..Enough(t) : A[k] = Again(t, A[k - 1], fault)
  BY <1>1, <1>10 DEF Again
<1>12. A \in [0..Enough(t) -> Work(t)]
  <2> DEFINE S == {k \in Nat : k <= Enough(t) => A[k] \in Work(t)}
  <2>1. 0 \in S
    BY <1>1, <1>2, <1>11
  <2>2. ASSUME NEW k \in Nat, k \in S  PROVE k + 1 \in S
    BY <1>1, <1>3, <1>4, <1>11, <2>2
  <2> HIDE DEF S
  <2>3. \A k \in Nat : k \in S
    BY <2>1, <2>2, SetInduction
  <2>4. \A k \in 0..Enough(t) : A[k] \in Work(t)
    BY <1>1, <2>3 DEF S
  <2>5. QED
    BY <1>10, <2>4
<1>13. QED
  BY <1>11, <1>12 DEF A

\* What every iteration keeps holds at the end of the loop.
LEMMA LoopInvariant ==
  ASSUME NEW t \in Templates, NEW r \in Rows(t), NoneSkipped(t, r.node), NEW fault \in Fault,
         attempt \in Nat,
         NEW Good, Working(r) \in Good,
         \A w \in Work(t) : w \in Good => Iteration(t, w, fault) \in Good
  PROVE  Iterations(t, r, fault)[Enough(t)] \in Work(t) \cap Good
<1> DEFINE A == Iterations(t, r, fault)
           S == {k \in Nat : k <= Enough(t) => A[k] \in Good}
<1>1. Enough(t) \in Nat
  BY EnoughIsNat
<1>2. /\ A \in [0..Enough(t) -> Work(t)]
      /\ A[0] = Working(r)
      /\ \A k \in 1..Enough(t) : A[k] = Again(t, A[k - 1], fault)
  BY IterationsUnfold
<1> HIDE DEF A
<1>3. 0 \in S
  BY <1>2
<1>4. ASSUME NEW k \in Nat, k \in S  PROVE k + 1 \in S
  <2> SUFFICES ASSUME k + 1 <= Enough(t)  PROVE A[k + 1] \in Good
    OBVIOUS
  <2>1. A[k] \in Work(t) /\ A[k] \in Good
    BY <1>1, <1>2, <1>4
  <2>2. A[k + 1] = Again(t, A[k], fault)
    BY <1>1, <1>2
  <2>3. QED
    BY <2>1, <2>2 DEF Again
<1> HIDE DEF S
<1>5. Enough(t) \in S
  BY <1>1, <1>3, <1>4, SetInduction
<1>6. QED
  BY <1>1, <1>2, <1>5 DEF S, A

-----------------------------------------------------------------------------
(* What a request has put into storage.                                    *)

ParserKeys == {"geometry.json", "floor.svg"}

\* What a request that began with the rows r has done to them and to storage.
Kept(t, r, w) ==
    /\ r.emitted \subseteq w.rows.emitted
    /\ w.rows.geometry = r.geometry /\ w.rows.note = r.note
    /\ "floor_parse" \in r.emitted => ParserKeys \cap w.stored = {}
    /\ "floor_parse" \in r.emitted \/ "floor_parse" \notin w.rows.emitted =>
          w.rows.parsed_by = r.parsed_by
    /\ "floor_parse" \in w.rows.emitted \ r.emitted =>
          ParserKeys \subseteq w.stored /\ w.rows.parsed_by = attempt + 1
    /\ "statik_compile" \in w.rows.emitted \ r.emitted => "statik.pdf" \in w.stored

LEMMA IterationKeeps ==
  ASSUME NEW t \in Templates, NEW r \in Rows(t), NEW w \in Work(t), NEW fault \in Fault,
         Kept(t, r, w)
  PROVE  Kept(t, r, Iteration(t, w, fault))
<1> DEFINE x == w.rows  next == Iteration(t, w, fault)
           done == Done(t, x, fault)  put == {StoredBy(t, x, fault, n) : n \in Called(t, x)}
<1> HIDE DEF x, next, done, put
<1>1. x \in Rows(t)
  BY DEF Work, x
<1>2. next.stored = w.stored \cup UNION put
  BY IterationStored, Zenon DEF x, next, put
<1>3. next.rows = NewRows(t, x, fault)
  BY IterationRows, Zenon DEF x, next
<1>4. /\ next.rows.emitted = x.emitted \cup done
      /\ next.rows.run = x.run /\ next.rows.geometry = x.geometry /\ next.rows.note = x.note
      /\ next.rows.parsed_by = IF "floor_parse" \in done THEN attempt + 1 ELSE x.parsed_by
  BY <1>1, <1>3 DEF NewRows, Rows, RowRecord, done
<1>5. \A n \in Called(t, x) : n \notin x.emitted
  BY <1>1 DEF Called, Exec!Invocable, Exec!Dispatchable, Rows, OutputsSound
<1>6. done \subseteq Called(t, x)
  BY DEF done, Done
<1>7. ASSUME "floor_parse" \notin Called(t, x)  PROVE ParserKeys \cap UNION put = {}
  <2>1. \A n \in Called(t, x) : StoredBy(t, x, fault, n) \cap ParserKeys = {}
    BY <1>7 DEF StoredBy, ParserKeys
  <2>2. QED
    BY <2>1 DEF put
<1>8. ASSUME "floor_parse" \in done  PROVE ParserKeys \subseteq UNION put
  <2>1. fault = "none" /\ ~ParserRefuses(t, x)
    BY <1>1, <1>8, CalledSucceeds DEF done
  <2>2. StoredBy(t, x, fault, "floor_parse") = ParserKeys
    BY <2>1 DEF StoredBy, ParserKeys
  <2>3. QED
    BY <1>6, <1>8, <2>2 DEF put
<1>9. ASSUME "statik_compile" \in done  PROVE "statik.pdf" \in UNION put
  <2>1. fault = "none"
    BY <1>1, <1>9, CalledSucceeds DEF done
  <2>2. StoredBy(t, x, fault, "statik_compile") = {"statik.pdf"}
    BY <2>1 DEF StoredBy
  <2>3. QED
    BY <1>6, <1>9, <2>2 DEF put
<1>10. Kept(t, r, next)
  BY <1>2, <1>4, <1>5, <1>6, <1>7, <1>8, <1>9 DEF Kept, x
<1>11. QED
  BY <1>10 DEF next

-----------------------------------------------------------------------------
(* The loop runs long enough.                                              *)

Busy(t, node) == {n \in Automated(t) : node[n] = "ready"}
Open(t, node) == {n \in Automated(t) : node[n] \notin Terminal}
Quiet(t, node) == Exec(t)!Promotable(t, node) = {} /\ Busy(t, node) = {}

\* A bound on how many iterations still move something.
Left(t, node) == 2 * Cardinality(Open(t, node)) + (IF Busy(t, node) = {} THEN 2 ELSE 1)

LEMMA LeftBounds ==
  ASSUME NEW t \in Templates, NEW node
  PROVE  /\ IsFiniteSet(Open(t, node)) /\ Cardinality(Open(t, node)) \in Nat
         /\ Left(t, node) \in 1..Enough(t)
<1>1. Open(t, node) \subseteq Automated(t)
  BY DEF Open
<1>2. /\ IsFiniteSet(Open(t, node)) /\ Cardinality(Open(t, node)) \in Nat
      /\ Cardinality(Open(t, node)) <= Cardinality(Automated(t))
  BY <1>1, EnoughIsNat, FS_Subset, FS_CardinalityType
<1>3. QED
  BY <1>2, EnoughIsNat DEF Left

\* An iteration of a quiet run moves nothing.
LEMMA QuietStays ==
  ASSUME NEW t \in Templates, NEW r \in Rows(t), NoneSkipped(t, r.node), NEW fault,
         Quiet(t, r.node)
  PROVE  After(t, r, fault) = r.node
<1>1. Exec(t)!Dispatchable(t, r.node) = {}
  BY DEF Quiet, Busy, Automated, Exec!Dispatchable
<1>2. r.node \in [t.nodes -> Status] /\ NodesSound(t, r.node)
  BY DEF Rows, RowRecord
<1>3. Mid(t, r, fault) = r.node
  BY <1>1, <1>2, IterationNodes
<1>4. Exec(t)!Promotable(t, r.node) = {} /\ Exec(t)!Placeholders(t, r.node) = {}
  BY DEF Quiet, Busy, Automated, Exec!Placeholders
<1>5. After(t, r, fault) = Applied(t, r.node, Exec(t)!Advance(t, r.node))
  BY <1>3 DEF After
<1>6. After(t, r, fault) \in [t.nodes -> Status]
      /\ \A n \in t.nodes : After(t, r, fault)[n] = r.node[n]
  BY <1>2, <1>4, <1>5, AdvanceIsLegal
<1>7. QED
  BY <1>2, <1>6

\* Any other iteration moves something, and leaves less to do.
LEMMA IterationProgress ==
  ASSUME NEW t \in Templates, NEW r \in Rows(t), NoneSkipped(t, r.node), NEW fault,
         ~Quiet(t, r.node)
  PROVE  /\ DOMAIN Exec(t)!Dispatch(t, r.node, Failed(t, r, fault))
            \cup DOMAIN Exec(t)!Advance(t, Mid(t, r, fault)) # {}
         /\ \/ Quiet(t, After(t, r, fault))
            \/ Left(t, After(t, r, fault)) + 1 <= Left(t, r.node)
<1> DEFINE mid == Mid(t, r, fault)  new == After(t, r, fault)
<1>1. /\ NodesSound(t, r.node) /\ r.node \in [t.nodes -> Status]
      /\ t.tool \in [t.nodes -> Exec(t)!ToolRef]
  BY TemplatesAreValid DEF Rows, RowRecord
<1>2. /\ mid \in [t.nodes -> Status] /\ new \in [t.nodes -> Status]
      /\ NodesSound(t, mid) /\ NoneSkipped(t, mid)
      /\ \A n \in t.nodes : IF n \in Exec(t)!Dispatchable(t, r.node)
            THEN mid[n] \in {"failed", "completed"} /\ new[n] = mid[n]
            ELSE mid[n] = r.node[n]
      /\ \A n \in t.nodes : r.node[n] \in Terminal => new[n] = r.node[n]
  BY IterationNodes
<1>3. /\ \A n \in t.nodes : new[n] = mid[n] \/ Legal(t, mid, new, n)
      /\ \A n \in t.nodes :
            /\ n \in Exec(t)!Promotable(t, mid) => mid[n] = "pending" /\ new[n] = "ready"
            /\ n \in Exec(t)!Placeholders(t, mid) => mid[n] = "ready" /\ new[n] = "completed"
            /\ n \notin Exec(t)!Promotable(t, mid) \cup Exec(t)!Placeholders(t, mid) =>
                  new[n] = mid[n]
  BY <1>2, AdvanceIsLegal DEF After
<1>4. DOMAIN Exec(t)!Dispatch(t, r.node, Failed(t, r, fault)) = Exec(t)!Dispatchable(t, r.node)
      /\ DOMAIN Exec(t)!Advance(t, mid) = Exec(t)!Promotable(t, mid) \cup Exec(t)!Placeholders(t, mid)
  BY DEF Exec!Dispatch, Exec!Advance
<1>5. Open(t, new) \subseteq Open(t, r.node)
  BY <1>2 DEF Open, Automated
<1> HIDE DEF mid, new
<1>6. CASE Busy(t, r.node) # {}
  <2>1. PICK n \in Automated(t) : r.node[n] = "ready"
    BY <1>6 DEF Busy
  <2>2. n \in t.nodes /\ t.kind[n] = "automated"
    BY <2>1 DEF Automated
  <2>3. /\ n \in Exec(t)!Dispatchable(t, r.node) \cup Exec(t)!Placeholders(t, mid)
        /\ new[n] \in Terminal
    <3>1. CASE t.tool[n] # "unset"
      <4>1. n \in Exec(t)!Dispatchable(t, r.node)
        BY <2>1, <2>2, <3>1 DEF Exec!Dispatchable
      <4>2. QED
        BY <1>2, <2>2, <4>1 DEF Terminal
    <3>2. CASE t.tool[n] = "unset"
      <4>1. n \notin Exec(t)!Dispatchable(t, r.node)
        BY <3>2 DEF Exec!Dispatchable
      <4>2. n \in Exec(t)!Placeholders(t, mid)
        BY <1>2, <2>1, <2>2, <3>2, <4>1 DEF Exec!Placeholders
      <4>3. QED
        BY <1>3, <2>2, <4>2 DEF Terminal
    <3>3. QED
      BY <3>1, <3>2
  <2>4. n \in Open(t, r.node) \ Open(t, new)
    BY <2>1, <2>3 DEF Open, Terminal
  <2>5. Cardinality(Open(t, new)) + 1 <= Cardinality(Open(t, r.node))
    <3>1. Open(t, new) \subseteq Open(t, r.node) \ {n}
      BY <1>5, <2>4
    <3>2. /\ IsFiniteSet(Open(t, r.node) \ {n})
          /\ Cardinality(Open(t, r.node) \ {n}) = Cardinality(Open(t, r.node)) - 1
      BY <2>4, LeftBounds, FS_RemoveElement
    <3>3. Cardinality(Open(t, new)) <= Cardinality(Open(t, r.node) \ {n})
      BY <3>1, <3>2, FS_Subset
    <3>4. QED
      BY <3>2, <3>3, LeftBounds
  <2>6. Left(t, new) + 1 <= Left(t, r.node)
    BY <1>6, <2>5, LeftBounds DEF Left
  <2>7. QED
    BY <1>4, <2>3, <2>6 DEF mid, new
<1>7. CASE Busy(t, r.node) = {}
  <2>1. Exec(t)!Dispatchable(t, r.node) = {}
    BY <1>7 DEF Busy, Automated, Exec!Dispatchable
  <2>2. mid = r.node
    BY <1>1, <1>2, <2>1
  <2>3. Exec(t)!Placeholders(t, mid) = {}
    BY <1>7, <2>2 DEF Busy, Automated, Exec!Placeholders
  <2>4. Exec(t)!Promotable(t, mid) # {}
    BY <1>7, <2>2 DEF Quiet
  <2>5. CASE Busy(t, new) = {}
    <3>1. ASSUME NEW n \in Exec(t)!Promotable(t, new)  PROVE FALSE
      <4>1. /\ n \in t.nodes /\ new[n] = "pending"
            /\ \A u \in Exec(t)!Upstream(t, n) : u \in t.nodes /\ new[u] \in {"completed", "skipped"}
        BY DEF Exec!Promotable, Exec!Passed, Exec!Upstream
      <4>2. \A u \in Exec(t)!Upstream(t, n) : mid[u] \in {"completed", "skipped"}
        BY <1>3, <2>3, <4>1
      <4>3. mid[n] = "pending"
        BY <1>3, <2>3, <4>1
      <4>4. n \in Exec(t)!Promotable(t, mid)
        BY <4>1, <4>2, <4>3 DEF Exec!Promotable, Exec!Passed
      <4>5. QED
        BY <1>3, <4>1, <4>4
    <3>2. Quiet(t, new)
      BY <2>5, <3>1 DEF Quiet
    <3>3. QED
      BY <1>4, <2>4, <3>2 DEF mid, new
  <2>6. CASE Busy(t, new) # {}
    <3>1. Cardinality(Open(t, new)) <= Cardinality(Open(t, r.node))
      BY <1>5, LeftBounds, FS_Subset
    <3>2. Left(t, new) + 1 <= Left(t, r.node)
      BY <1>7, <2>6, <3>1, LeftBounds DEF Left
    <3>3. QED
      BY <1>4, <2>4, <3>2 DEF mid, new
  <2>7. QED
    BY <2>5, <2>6
<1>8. QED
  BY <1>6, <1>7

\* The loop ends when nothing is left to move, not because its bound is reached.
LEMMA LoopQuiet ==
  ASSUME NEW t \in Templates, NEW r \in Rows(t), NoneSkipped(t, r.node), NEW fault \in Fault,
         attempt \in Nat
  PROVE  Quiet(t, Iterations(t, r, fault)[Enough(t)].rows.node)
<1> DEFINE A == Iterations(t, r, fault)
           S == {k \in Nat : k <= Enough(t) =>
                    \/ Quiet(t, A[k].rows.node)
                    \/ A[k].moved /\ Left(t, A[k].rows.node) + k <= Enough(t)}
<1>1. Enough(t) \in Nat
  BY EnoughIsNat
<1>2. /\ A \in [0..Enough(t) -> Work(t)]
      /\ A[0] = Working(r)
      /\ \A k \in 1..Enough(t) : A[k] = Again(t, A[k - 1], fault)
  BY IterationsUnfold
<1> HIDE DEF A
<1>3. 0 \in S
  <2>1. A[0].moved /\ A[0].rows = r
    BY <1>2 DEF Working
  <2>2. Left(t, r.node) \in Nat /\ Left(t, r.node) <= Enough(t)
    BY <1>1, LeftBounds
  <2>3. QED
    BY <2>1, <2>2
<1>4. ASSUME NEW k \in Nat, k \in S  PROVE k + 1 \in S
  <2> SUFFICES ASSUME k + 1 <= Enough(t)
               PROVE  \/ Quiet(t, A[k + 1].rows.node)
                      \/ /\ A[k + 1].moved
                         /\ Left(t, A[k + 1].rows.node) + (k + 1) <= Enough(t)
    OBVIOUS
  <2> DEFINE w == A[k]  x == w.rows
  <2>1. /\ w \in Work(t)
        /\ Quiet(t, x.node) \/ (w.moved /\ Left(t, x.node) + k <= Enough(t))
    BY <1>1, <1>2, <1>4
  <2>2. A[k + 1] = Again(t, w, fault)
    BY <1>1, <1>2
  <2>3. x \in Rows(t) /\ NoneSkipped(t, x.node)
    BY <2>1 DEF Work
  <2> HIDE DEF w, x
  <2>4. /\ Iteration(t, w, fault).rows.node = After(t, x, fault)
        /\ Iteration(t, w, fault).moved =
              (DOMAIN Exec(t)!Dispatch(t, x.node, Failed(t, x, fault))
               \cup DOMAIN Exec(t)!Advance(t, Mid(t, x, fault)) # {})
    <3>1. Iteration(t, w, fault).rows = NewRows(t, x, fault)
      BY IterationRows, Zenon DEF x
    <3>2. NewRows(t, x, fault).node = After(t, x, fault)
      BY <2>3 DEF NewRows, Rows, RowRecord
    <3>3. QED
      BY <3>1, <3>2, IterationMoved, Zenon DEF x
  <2>5. CASE Quiet(t, x.node)
    BY <2>2, <2>3, <2>4, <2>5, QuietStays DEF Again, x
  <2>6. CASE ~Quiet(t, x.node)
    <3>1. A[k + 1] = Iteration(t, w, fault)
      BY <2>1, <2>2, <2>6 DEF Again
    <3>2. /\ A[k + 1].moved
          /\ \/ Quiet(t, A[k + 1].rows.node)
             \/ Left(t, A[k + 1].rows.node) + 1 <= Left(t, x.node)
      BY <2>3, <2>4, <2>6, <3>1, IterationProgress
    <3>3. Left(t, A[k + 1].rows.node) \in Nat /\ Left(t, x.node) \in Nat
      BY <1>1, LeftBounds
    <3>4. QED
      BY <1>1, <2>1, <2>6, <3>2, <3>3
  <2>7. QED
    BY <2>5, <2>6
<1> HIDE DEF S
<1>5. Enough(t) \in S
  BY <1>1, <1>3, <1>4, SetInduction
<1>6. Left(t, A[Enough(t)].rows.node) \in 1..Enough(t)
  BY LeftBounds
<1>7. QED
  BY <1>1, <1>5, <1>6 DEF S, A

\* What a request leaves behind that drives the run on from the rows r.
LEMMA SettledFacts ==
  ASSUME NEW t \in Templates, NEW r \in Rows(t), NoneSkipped(t, r.node), NEW fault \in Fault,
         attempt \in Nat
  PROVE  /\ Settled(t, r, fault).rows \in Rows(t)
         /\ NoneSkipped(t, Settled(t, r, fault).rows.node)
         /\ Quiet(t, Settled(t, r, fault).rows.node)
         /\ Settled(t, r, fault).rows.run =
               Exec(t)!ComputedRunStatus(Settled(t, r, fault).rows.node)
         /\ Settled(t, r, fault).stored \subseteq Artifact
         /\ Kept(t, r, Settled(t, r, fault))
<1> DEFINE Good == {w \in Work(t) : Kept(t, r, w)}
           end == Iterations(t, r, fault)[Enough(t)]
           status == Exec(t)!ComputedRunStatus(end.rows.node)
           all == Settled(t, r, fault)
<1>1. Working(r) \in Good
  BY DEF Working, Work, Kept
<1>2. \A w \in Work(t) : w \in Good => Iteration(t, w, fault) \in Good
  BY IterationSound, IterationKeeps
<1>3. end \in Work(t) \cap Good
  <2> HIDE DEF Good
  <2>1. QED
    BY <1>1, <1>2, LoopInvariant
<1>4. Quiet(t, end.rows.node)
  BY LoopQuiet
<1>5. all = [end EXCEPT !.rows.run = status]
  BY Zenon DEF Settled, Finalized
<1>6. status \in Exec(t)!RunStatus
  BY DEF Exec!ComputedRunStatus, Exec!DeriveRunStatus, Exec!RunStatus
<1>7. /\ end \in [rows : Rows(t), stored : SUBSET Artifact, moved : BOOLEAN]
      /\ end.rows \in RowRecord(t) /\ NodesSound(t, end.rows.node) /\ OutputsSound(t, end.rows)
      /\ NoneSkipped(t, end.rows.node)
      /\ Kept(t, r, end)
  BY <1>3 DEF Work, Rows
<1> HIDE DEF end, status, all
<1>8. /\ all.stored = end.stored
      /\ all.rows = [end.rows EXCEPT !.run = status]
  BY <1>5, <1>7
<1>9. /\ all.rows.run = status /\ all.rows.node = end.rows.node
      /\ all.rows.emitted = end.rows.emitted /\ all.rows.geometry = end.rows.geometry
      /\ all.rows.loads = end.rows.loads /\ all.rows.options = end.rows.options
      /\ all.rows.parsed_by = end.rows.parsed_by /\ all.rows.note = end.rows.note
      /\ all.rows \in RowRecord(t)
  BY <1>6, <1>7, <1>8 DEF RowRecord
<1>10. all.rows \in Rows(t)
  BY <1>7, <1>9 DEF Rows, OutputsSound
<1>11. Kept(t, r, all)
  BY <1>7, <1>8, <1>9 DEF Kept
<1>12. QED
  BY <1>4, <1>7, <1>8, <1>9, <1>10, <1>11 DEF all, status

-----------------------------------------------------------------------------
(* The inductive invariant.                                                *)

\* The committed rows of the run.
RunSound ==
    /\ rows \in Rows(template)
    /\ rows.run = "absent" => NoneSkipped(template, rows.node)
    /\ rows.run = "running" => /\ Quiet(template, rows.node)
                               /\ \E n \in template.nodes : rows.node[n] \notin Terminal
    /\ rows.run = "completed" => \A n \in template.nodes : rows.node[n] = "completed"
    /\ rows.parsed_by <= AttemptLimit

StorageSound ==
    /\ attempt \in 0..AttemptLimit
    /\ storage \in [Artifact -> 0..attempt]
    /\ ArtifactsOfOneAttempt

ExporterRow == [pc : {"idle", "dxf", "pdf", "ifc", "done", "failed"},
                option : Named, alone : BOOLEAN]

\* Exports that overlap know it, and one that is alone has put all it has put.
ExportsSound ==
    /\ exporter \in [Exporter -> ExporterRow]
    /\ sealed \in [SealedFile -> Exporter \cup {None}]
    /\ \A e, f \in Exporter : Exporting(e) /\ Exporting(f) /\ e # f => ~exporter[e].alone
    /\ \A e \in Exporter : exporter[e].alone =>
          /\ exporter[e].pc = "pdf" => sealed["dxf"] = e
          /\ exporter[e].pc = "ifc" => sealed["dxf"] = e /\ sealed["pdf"] = e
    /\ SealedPackageWhole

IInv == template \in Templates /\ RunSound /\ StorageSound /\ ExportsSound

LEMMA InitIInv == Init => IInv
<1> SUFFICES ASSUME Init  PROVE IInv
  OBVIOUS
<1>1. template \in Templates
  BY DEF Init
<1>2. /\ rows.run = "absent" /\ rows.emitted = {} /\ rows.geometry = None /\ rows.options = <<>>
      /\ rows.parsed_by = 0
      /\ rows.node = Exec(template)!InitialNodeStates(template)
  BY DEF Init
<1>3. \A n \in template.nodes : /\ rows.node[n] \in {"pending", "ready"}
                                /\ rows.node[n] = "ready" => Exec(template)!Upstream(template, n) = {}
  BY <1>2 DEF Exec!InitialNodeStates, Exec!EntryKeys
<1>4. rows.node \in [template.nodes -> Status]
  BY <1>2 DEF Exec!InitialNodeStates, Status
<1>5. NodesSound(template, rows.node) /\ NoneSkipped(template, rows.node)
  BY <1>3, <1>4 DEF NodesSound, NoneSkipped
<1>6. rows \in RowRecord(template)
  BY <1>4 DEF Init, RowRecord, Options, Named
<1>7. OutputsSound(template, rows)
  <2>1. \A n \in template.nodes : rows.node[n] # "completed"
    BY <1>3
  <2>2. rows.options # <<>> => <<"architectural_review", "ai_options">> \in template.edges
    BY <1>2
  <2>3. /\ \A n \in rows.emitted : rows.node[n] = "completed"
        /\ "floor_parse" \notin rows.emitted /\ "architectural_review" \notin rows.emitted
        /\ "parameters" \notin rows.emitted
    BY <1>2
  <2>4. rows.geometry # None => "architectural_review" \in rows.emitted
    BY <1>2
  <2>5. /\ "floor_parse" \in rows.emitted => <<"upload_cad", "floor_parse">> \in template.edges
        /\ "architectural_review" \in rows.emitted => rows.geometry \in Geometries
        /\ "parameters" \in rows.emitted => rows.loads \in PostedLoads
    BY <2>3
  <2>6. \A n \in template.nodes :
           template.kind[n] = "automated" /\ template.tool[n] = "registered" /\ rows.node[n] = "completed"
              => n \in rows.emitted
    BY <2>1
  <2>7. QED
    BY <2>2, <2>3, <2>4, <2>5, <2>6 DEF OutputsSound
<1>8. RunSound
  BY <1>2, <1>5, <1>6, <1>7, BoundsAreNat DEF RunSound, Rows
<1>9. StorageSound
  BY <1>2, BoundsAreNat DEF Init, StorageSound, ArtifactsOfOneAttempt
<1>10. ExportsSound
  BY DEF Init, ExportsSound, NotExporting, Exporting, ExporterRow, SealedPackageWhole, Named
<1>11. QED
  BY <1>1, <1>8, <1>9, <1>10 DEF IInv

\* Rows a request may go on from, once it has completed a node of the run.
Drivable(r) ==
    /\ r \in Rows(template) /\ NoneSkipped(template, r.node)
    /\ rows.emitted \subseteq r.emitted
    /\ r.emitted \cap AdapterNodes = rows.emitted \cap AdapterNodes
    /\ r.parsed_by = rows.parsed_by

\* A request that drives the run on.
LEMMA DriveInv ==
  ASSUME IInv, NEW r, Drivable(r), Drive(r)
  PROVE  IInv'
<1>0. /\ r \in Rows(template) /\ NoneSkipped(template, r.node)
      /\ rows.emitted \subseteq r.emitted
      /\ r.emitted \cap AdapterNodes = rows.emitted \cap AdapterNodes
      /\ r.parsed_by = rows.parsed_by
  BY DEF Drivable
<1>1. PICK fault \in Fault :
         LET w == Settled(template, r, fault)  calls == w.stored # {} IN
         /\ calls => attempt < AttemptLimit
         /\ rows' \in {w.rows, rows}
         /\ storage' = [a \in Artifact |-> IF a \in w.stored THEN attempt + 1 ELSE storage[a]]
         /\ attempt' = IF calls THEN attempt + 1 ELSE attempt
         /\ UNCHANGED <<template, exports>>
  BY DEF Drive
<1> DEFINE w == Settled(template, r, fault)  x == w.rows
<1>2. template \in Templates /\ attempt \in Nat /\ AttemptLimit \in Nat
  BY BoundsAreNat DEF IInv, StorageSound
<1>3. /\ x \in Rows(template) /\ NoneSkipped(template, x.node) /\ Quiet(template, x.node)
      /\ x.run = Exec(template)!ComputedRunStatus(x.node)
      /\ w.stored \subseteq Artifact
      /\ Kept(template, r, w)
  BY <1>0, <1>2, SettledFacts
<1> HIDE DEF w
<1>4. /\ w.stored # {} => attempt < AttemptLimit
      /\ rows' = x \/ rows' = rows
      /\ storage' = [a \in Artifact |-> IF a \in w.stored THEN attempt + 1 ELSE storage[a]]
      /\ attempt' = IF w.stored # {} THEN attempt + 1 ELSE attempt
      /\ UNCHANGED <<template, exporter, sealed>>
  BY <1>1 DEF w, exports
<1> HIDE DEF x
<1>5. /\ attempt' \in 0..AttemptLimit /\ attempt <= attempt'
      /\ storage' \in [Artifact -> 0..attempt']
      /\ \A a \in Artifact : storage'[a] = IF a \in w.stored THEN attempt + 1 ELSE storage[a]
  BY <1>2, <1>4 DEF IInv, StorageSound
<1>6. ExportsSound'
  BY <1>4 DEF IInv, ExportsSound, Exporting, SealedPackageWhole
<1>7. ASSUME rows' = x  PROVE RunSound'
  <2>1. x.run = "running" => \E n \in template.nodes : x.node[n] \notin Terminal
    BY <1>3 DEF Exec!ComputedRunStatus, Exec!IsRunTerminal, Exec!DeriveRunStatus, Exec!Terminal,
       Terminal
  <2>2. ASSUME x.run = "completed", NEW n \in template.nodes  PROVE x.node[n] = "completed"
    BY <1>3, <2>2 DEF Exec!ComputedRunStatus, Exec!IsRunTerminal, Exec!DeriveRunStatus,
       Exec!Terminal, NoneSkipped
  <2>3. x.run # "absent"
    BY <1>3 DEF Exec!ComputedRunStatus, Exec!DeriveRunStatus
  <2>4. x.parsed_by <= AttemptLimit
    <3>1. x.parsed_by = r.parsed_by \/ (x.parsed_by = attempt + 1 /\ ParserKeys \subseteq w.stored)
      BY <1>3 DEF Kept, x
    <3>2. QED
      BY <1>0, <1>2, <1>4, <3>1 DEF IInv, RunSound, ParserKeys
  <2>5. QED
    BY <1>3, <1>4, <1>7, <2>1, <2>2, <2>3, <2>4 DEF RunSound
<1>8. ASSUME rows' = rows  PROVE RunSound'
  BY <1>4, <1>8 DEF IInv, RunSound
<1>9. ArtifactsOfOneAttempt'
  <2>1. /\ "floor_parse" \in r.emitted <=> "floor_parse" \in rows.emitted
        /\ "statik_compile" \in r.emitted <=> "statik_compile" \in rows.emitted
    BY <1>0 DEF AdapterNodes
  <2>2. ASSUME "floor_parse" \in rows.emitted
        PROVE  /\ x.parsed_by = rows.parsed_by
               /\ \A a \in ParserKeys : storage'[a] = storage[a]
    BY <1>0, <1>3, <1>5, <2>1, <2>2 DEF Kept, ParserKeys, Artifact, x
  <2>3. ASSUME "floor_parse" \in x.emitted \ rows.emitted
        PROVE  /\ x.parsed_by = attempt + 1
               /\ \A a \in ParserKeys : storage'[a] = attempt + 1
    BY <1>3, <1>5, <2>1, <2>3 DEF Kept, ParserKeys, Artifact, x
  <2>4. ASSUME "statik_compile" \in x.emitted \ rows.emitted
        PROVE  storage'["statik.pdf"] = attempt + 1
    BY <1>3, <1>5, <2>1, <2>4 DEF Kept, Artifact, x
  <2>5. storage["statik.pdf"] > 0 => storage'["statik.pdf"] > 0
    BY <1>2, <1>5 DEF Artifact
  <2>6. ArtifactsOfOneAttempt
    BY DEF IInv, StorageSound
  <2>7. CASE rows' = rows
    BY <2>2, <2>5, <2>6, <2>7 DEF ArtifactsOfOneAttempt, ParserKeys
  <2>8. CASE rows' = x
    <3>1. "floor_parse" \in x.emitted => /\ x.parsed_by > 0
                                         /\ \A a \in ParserKeys : storage'[a] = x.parsed_by
      BY <1>2, <2>2, <2>3, <2>6 DEF ArtifactsOfOneAttempt, ParserKeys
    <3>2. "statik_compile" \in x.emitted => storage'["statik.pdf"] > 0
      BY <1>2, <2>4, <2>5, <2>6 DEF ArtifactsOfOneAttempt
    <3>3. QED
      BY <2>8, <3>1, <3>2 DEF ArtifactsOfOneAttempt, ParserKeys
  <2>9. QED
    BY <1>4, <2>7, <2>8
<1>10. QED
  BY <1>2, <1>4, <1>5, <1>6, <1>7, <1>8, <1>9 DEF IInv, StorageSound

-----------------------------------------------------------------------------
(* What users do.                                                          *)

\* The rows once a user has completed n.
Complete(n, emitted, geometry, loads, note) ==
    [rows EXCEPT !.node = [rows.node EXCEPT ![n] = "completed"],
                 !.emitted = emitted, !.geometry = geometry, !.loads = loads, !.note = note]

\* What a user completes and posts.
MayComplete(n, emitted, geometry, loads, note) ==
    /\ n \in template.nodes /\ rows.node[n] = "ready"
    /\ template.kind[n] \in {"manual", "gate.review", "gate.approve"}
    /\ emitted \in {rows.emitted, rows.emitted \cup {n}}
    /\ geometry \in Geometries \cup {None} /\ loads \in PostedLoads \cup {None}
    /\ note \in Named
    /\ geometry # rows.geometry => n = "architectural_review" /\ n \in emitted
    /\ n = "architectural_review" /\ n \in emitted => geometry \in Geometries
    /\ loads # rows.loads => n = "parameters"
    /\ n = "parameters" /\ n \in emitted => loads \in PostedLoads
    /\ n \in AdapterNodes => emitted = rows.emitted

\* A user completes a node that is ready, and so the run was not cancelled.
LEMMA CompletedRows ==
  ASSUME IInv, NEW n, NEW emitted, NEW geometry, NEW loads, NEW note,
         MayComplete(n, emitted, geometry, loads, note)
  PROVE  Drivable(Complete(n, emitted, geometry, loads, note))
<1> DEFINE t == template
           r == Complete(n, emitted, geometry, loads, note)
<1>0. /\ n \in template.nodes /\ rows.node[n] = "ready"
      /\ template.kind[n] \in {"manual", "gate.review", "gate.approve"}
      /\ emitted \in {rows.emitted, rows.emitted \cup {n}}
      /\ geometry \in Geometries \cup {None} /\ loads \in PostedLoads \cup {None}
      /\ note \in Named
      /\ geometry # rows.geometry => n = "architectural_review" /\ n \in emitted
      /\ n = "architectural_review" /\ n \in emitted => geometry \in Geometries
      /\ loads # rows.loads => n = "parameters"
      /\ n = "parameters" /\ n \in emitted => loads \in PostedLoads
      /\ n \in AdapterNodes => emitted = rows.emitted
  BY DEF MayComplete
<1>1. t \in Templates /\ rows \in Rows(t)
  BY DEF IInv, RunSound
<1>2. rows \in RowRecord(t) /\ NodesSound(t, rows.node) /\ OutputsSound(t, rows)
  BY <1>1 DEF Rows
<1>3. NoneSkipped(t, rows.node)
  BY <1>0, <1>2 DEF NodesSound, NoneSkipped, Terminal
<1> DEFINE new == [rows.node EXCEPT ![n] = "completed"]
<1>4. /\ new \in [t.nodes -> Status] /\ new[n] = "completed"
      /\ \A m \in t.nodes \ {n} : new[m] = rows.node[m]
  BY <1>0, <1>2 DEF NodesSound, Status
<1> HIDE DEF new
<1>5. \A m \in t.nodes : new[m] = rows.node[m] \/ Legal(t, rows.node, new, m)
  BY <1>0, <1>4 DEF Legal, Unserved
<1>6. NodesSound(t, new) /\ NoneSkipped(t, new)
  BY <1>1, <1>2, <1>3, <1>4, <1>5, LegalMoves
<1>7. /\ r.node = new /\ r.emitted = emitted /\ r.geometry = geometry /\ r.loads = loads
      /\ r.options = rows.options
      /\ r.parsed_by = rows.parsed_by
  BY <1>2 DEF RowRecord, Complete, new
<1>8. r \in RowRecord(t)
  BY <1>0, <1>2, <1>4 DEF RowRecord, Complete, new
<1> HIDE DEF r
<1>9. OutputsSound(t, r)
  <2>1. \A m \in emitted : new[m] = "completed"
    BY <1>0, <1>2, <1>4 DEF OutputsSound, RowRecord
  <2>2. \A m \in t.nodes : t.kind[m] = "automated" /\ t.tool[m] = "registered" /\ new[m] = "completed"
                              => m \in emitted
    BY <1>0, <1>2, <1>4 DEF OutputsSound
  <2>3. "floor_parse" \in emitted => <<"upload_cad", "floor_parse">> \in t.edges
    BY <1>0, <1>2 DEF OutputsSound, AdapterNodes
  <2>4. "architectural_review" \in emitted => geometry \in Geometries
    BY <1>0, <1>2 DEF OutputsSound
  <2>5. geometry # None => "architectural_review" \in emitted
    BY <1>0, <1>2 DEF OutputsSound
  <2>6. "parameters" \in emitted => loads \in PostedLoads
    BY <1>0, <1>2 DEF OutputsSound
  <2>7. QED
    BY <1>2, <1>7, <2>1, <2>2, <2>3, <2>4, <2>5, <2>6 DEF OutputsSound
<1>10. emitted \cap AdapterNodes = rows.emitted \cap AdapterNodes /\ rows.emitted \subseteq emitted
  BY <1>0
<1>11. QED
  BY <1>6, <1>7, <1>8, <1>9, <1>10 DEF Rows, r, Drivable

LEMMA CreateRunInv == ASSUME IInv, CreateRun  PROVE IInv'
<1> DEFINE r == [rows EXCEPT !.run = "running"]
<1>1. rows \in RowRecord(template) /\ NodesSound(template, rows.node)
      /\ OutputsSound(template, rows) /\ NoneSkipped(template, rows.node)
  BY DEF IInv, RunSound, Rows, CreateRun
<1>2. /\ r.node = rows.node /\ r.emitted = rows.emitted /\ r.geometry = rows.geometry
      /\ r.loads = rows.loads /\ r.options = rows.options /\ r.parsed_by = rows.parsed_by
      /\ r \in RowRecord(template)
  BY <1>1 DEF RowRecord, Exec!RunStatus
<1> HIDE DEF r
<1>3. Drivable(r)
  BY <1>1, <1>2 DEF Rows, OutputsSound, Drivable
<1>4. Drive(r)
  BY DEF CreateRun, r
<1>5. QED
  BY <1>3, <1>4, DriveInv

\* The parts of committed rows.
LEMMA CommittedRows ==
  ASSUME IInv
  PROVE  /\ rows \in RowRecord(template) /\ OutputsSound(template, rows)
         /\ rows.geometry \in Geometries \cup {None} /\ rows.loads \in PostedLoads \cup {None}
         /\ rows.note \in Named
         /\ \A n \in rows.emitted : rows.node[n] = "completed"
<1>1. rows \in RowRecord(template) /\ OutputsSound(template, rows)
  BY DEF IInv, RunSound, Rows
<1>2. QED
  BY <1>1 DEF RowRecord, OutputsSound

LEMMA MarkManualDoneInv ==
  ASSUME IInv, NEW n \in template.nodes, NEW emits \in BOOLEAN, emits => n = "upload_cad",
         MarkManualDone(n, emits)
  PROVE  IInv'
<1> DEFINE emitted == IF emits THEN rows.emitted \cup {n} ELSE rows.emitted
           r == Complete(n, emitted, rows.geometry, rows.loads, rows.note)
<1>1. rows.node[n] = "ready" /\ template.kind[n] = "manual"
  BY DEF MarkManualDone, Exec!CanMarkDone
<1>2. n \notin rows.emitted
  BY <1>1, CommittedRows
<1>3. Drive(r)
  BY CommittedRows DEF MarkManualDone, WithStatus, RowRecord, Complete
<1>4. MayComplete(n, emitted, rows.geometry, rows.loads, rows.note)
  BY <1>1, <1>2, CommittedRows DEF MayComplete, AdapterNodes
<1> HIDE DEF emitted
<1>5. Drivable(r)
  BY <1>4, CompletedRows
<1> HIDE DEF r
<1>6. QED
  BY <1>3, <1>5, DriveInv

LEMMA PostParametersInv ==
  ASSUME IInv, NEW loads \in PostedLoads, PostParameters(loads)
  PROVE  IInv'
<1> DEFINE emitted == rows.emitted \cup {"parameters"}
           r == Complete("parameters", emitted, rows.geometry, loads, rows.note)
<1>1. /\ "parameters" \in template.nodes /\ rows.node["parameters"] = "ready"
      /\ template.kind["parameters"] = "manual"
  BY DEF PostParameters, Exec!CanMarkDone
<1>2. Drive(r)
  BY CommittedRows DEF PostParameters, WithStatus, RowRecord, Complete
<1>3. MayComplete("parameters", emitted, rows.geometry, loads, rows.note)
  BY <1>1, CommittedRows DEF MayComplete, AdapterNodes
<1> HIDE DEF emitted
<1>4. Drivable(r)
  BY <1>3, CompletedRows
<1> HIDE DEF r
<1>5. QED
  BY <1>2, <1>4, DriveInv

LEMMA PostReviewedGeometryInv ==
  ASSUME IInv, NEW geometry \in Geometries, PostReviewedGeometry(geometry)
  PROVE  IInv'
<1> DEFINE emitted == rows.emitted \cup {"architectural_review"}
           r == Complete("architectural_review", emitted, geometry, rows.loads, rows.note)
<1>1. /\ "architectural_review" \in template.nodes
      /\ rows.node["architectural_review"] = "ready"
      /\ template.kind["architectural_review"] = "manual"
  BY DEF PostReviewedGeometry, Exec!CanMarkDone
<1>2. Drive(r)
  BY CommittedRows DEF PostReviewedGeometry, WithStatus, RowRecord, Complete
<1>3. MayComplete("architectural_review", emitted, geometry, rows.loads, rows.note)
  BY <1>1, CommittedRows DEF MayComplete, AdapterNodes
<1> HIDE DEF emitted
<1>4. Drivable(r)
  BY <1>3, CompletedRows
<1> HIDE DEF r
<1>5. QED
  BY <1>2, <1>4, DriveInv

LEMMA ApproveGateInv ==
  ASSUME IInv, NEW n \in template.nodes, ApproveGate(n)
  PROVE  IInv'
<1>1. PICK note \in NotesAt(n) :
         Drive([WithStatus(rows, n, "completed") EXCEPT !.note = note])
  BY DEF ApproveGate
<1>2. note \in Named
  BY InputsAreValid DEF NotesAt, Named
<1> DEFINE r == Complete(n, rows.emitted, rows.geometry, rows.loads, note)
<1>3. rows.node[n] = "ready" /\ template.kind[n] \in {"gate.review", "gate.approve"}
  BY DEF ApproveGate, Exec!CanDecide
<1>4. n \notin rows.emitted
  BY <1>3, CommittedRows
<1>5. Drive(r)
  BY <1>1, CommittedRows DEF WithStatus, RowRecord, Complete
<1>6. MayComplete(n, rows.emitted, rows.geometry, rows.loads, note)
  BY <1>2, <1>3, <1>4, CommittedRows DEF MayComplete
<1>7. Drivable(r)
  BY <1>6, CompletedRows
<1> HIDE DEF r
<1>8. QED
  BY <1>5, <1>7, DriveInv

\* Rows that a user has left failed or cancelled: what the run has put out stays.
LEMMA RowsStopped ==
  ASSUME IInv, NEW node, NEW status \in {"failed", "cancelled"}, NodesSound(template, node),
         \A n \in template.nodes : node[n] = "completed" <=> rows.node[n] = "completed",
         rows' = [rows EXCEPT !.node = node, !.run = status],
         UNCHANGED <<template, storage, attempt, exports>>
  PROVE  IInv'
<1>1. rows \in RowRecord(template) /\ OutputsSound(template, rows)
  BY CommittedRows
<1>2. node \in [template.nodes -> Status]
  BY DEF NodesSound
<1>3. /\ rows'.node = node /\ rows'.run = status /\ rows'.emitted = rows.emitted
      /\ rows'.geometry = rows.geometry /\ rows'.loads = rows.loads
      /\ rows'.options = rows.options /\ rows'.parsed_by = rows.parsed_by
  BY <1>1 DEF RowRecord
<1>4. rows' \in RowRecord(template)
  BY <1>1, <1>2 DEF RowRecord, Exec!RunStatus
<1>5. rows.emitted \subseteq template.nodes
  BY <1>1 DEF RowRecord
<1>6. OutputsSound(template, rows')
  <2>1. \A n \in rows.emitted : node[n] = "completed"
    BY <1>1, <1>5 DEF OutputsSound
  <2>2. \A n \in template.nodes :
           template.kind[n] = "automated" /\ template.tool[n] = "registered"
           /\ node[n] = "completed" => n \in rows.emitted
    BY <1>1 DEF OutputsSound
  <2>3. QED
    BY <1>1, <1>3, <2>1, <2>2 DEF OutputsSound
<1>7. /\ UNCHANGED <<template, storage, attempt, exporter, sealed>>
  BY DEF exports
<1>8. RunSound'
  BY <1>3, <1>4, <1>6, <1>7 DEF IInv, RunSound, Rows
<1>9. StorageSound'
  BY <1>3, <1>7 DEF IInv, StorageSound, ArtifactsOfOneAttempt
<1>10. ExportsSound'
  BY <1>7 DEF IInv, ExportsSound, Exporting, SealedPackageWhole
<1>11. QED
  BY <1>7, <1>8, <1>9, <1>10 DEF IInv

LEMMA RejectGateInv ==
  ASSUME IInv, NEW n \in template.nodes, RejectGate(n)
  PROVE  IInv'
<1> DEFINE new == [rows.node EXCEPT ![n] = "failed"]
<1>1. rows.node[n] = "ready"
  BY DEF RejectGate, Exec!CanDecide
<1>2. rows \in RowRecord(template) /\ NodesSound(template, rows.node) /\ template \in Templates
  BY DEF IInv, RunSound, Rows
<1>3. /\ new \in [template.nodes -> Status] /\ new[n] = "failed"
      /\ \A m \in template.nodes \ {n} : new[m] = rows.node[m]
  BY <1>2 DEF NodesSound, Status
<1>4. rows' = [rows EXCEPT !.node = new, !.run = "failed"]
  BY <1>2 DEF RejectGate, WithStatus, RowRecord
<1> HIDE DEF new
<1>5. NodesSound(template, new)
  <2>1. \A m \in template.nodes : new[m] = rows.node[m] \/ Legal(template, rows.node, new, m)
    BY <1>1, <1>3 DEF Legal
  <2>2. QED
    BY <1>2, <1>3, <2>1, LegalMoves
<1>6. \A m \in template.nodes : new[m] = "completed" <=> rows.node[m] = "completed"
  BY <1>1, <1>3
<1>7. UNCHANGED <<template, storage, attempt, exports>>
  BY DEF RejectGate
<1>8. QED
  BY <1>4, <1>5, <1>6, <1>7, RowsStopped

LEMMA CancelRunInv == ASSUME IInv, CancelRun  PROVE IInv'
<1> DEFINE new == [n \in template.nodes |->
                      IF rows.node[n] \in Terminal THEN rows.node[n] ELSE "skipped"]
<1>1. rows \in RowRecord(template) /\ NodesSound(template, rows.node)
  BY DEF IInv, RunSound, Rows
<1>2. rows' = [rows EXCEPT !.node = new, !.run = "cancelled"]
  BY <1>1 DEF CancelRun, RowRecord, Exec!Terminal, Terminal
<1>3. /\ new \in [template.nodes -> Status]
      /\ \A n \in template.nodes :
            IF rows.node[n] \in Terminal THEN new[n] = rows.node[n] ELSE new[n] = "skipped"
  BY DEF Terminal, Status
<1> HIDE DEF new
<1>4. NodesSound(template, new)
  <2>1. \A n \in template.nodes : Exec(template)!Upstream(template, n) \subseteq template.nodes
    BY DEF Exec!Upstream
  <2>2. QED
    BY <1>1, <1>3, <2>1 DEF NodesSound, Terminal
<1>5. \A n \in template.nodes : new[n] = "completed" <=> rows.node[n] = "completed"
  BY <1>3 DEF Terminal
<1>6. UNCHANGED <<template, storage, attempt, exports>>
  BY DEF CancelRun
<1>7. QED
  BY <1>2, <1>4, <1>5, <1>6, RowsStopped

-----------------------------------------------------------------------------
(* What exports do.                                                        *)

\* An export leaves the run alone.
LEMMA ExportLeavesRun ==
  ASSUME IInv, UNCHANGED <<template, rows, storage, attempt>>, ExportsSound'
  PROVE  IInv'
BY DEF IInv, RunSound, StorageSound, ArtifactsOfOneAttempt

\* The option an export picks is one the engine knows.
LEMMA PickedIsNamed == ASSUME IInv  PROVE PickedOption(rows) \in Named
<1>1. ASSUME NEW g, NEW l, GenerateOptions(g, l) # <<>>
      PROVE  GenerateOptions(g, l)[1].variant \in Named
  <2>1. 1 \in DOMAIN Variants
    BY DEF Variants
  <2>2. GenerateOptions(g, l)[1] = BuildOption(Variants[1], g, l)
    BY <1>1, <2>1 DEF GenerateOptions
  <2>3. BuildOption(Variants[1], g, l).variant = Variants[1].variant
    BY DEF BuildOption
  <2>4. QED
    BY <2>1, <2>2, <2>3 DEF Named
<1>2. rows.options \in Options /\ rows.note \in Named
  BY DEF IInv, RunSound, Rows, RowRecord
<1>3. QED
  BY <1>1, <1>2 DEF PickedOption, NoteInOutputs, Options, Named

LEMMA ExportBeginInv == ASSUME IInv, NEW e \in Exporter, ExportBegin(e)  PROVE IInv'
<1>1. exporter \in [Exporter -> ExporterRow] /\ PickedOption(rows) \in Named
  BY PickedIsNamed DEF IInv, ExportsSound
<1> DEFINE alone == ~\E y \in Exporter : Exporting(y)
<1>2. /\ exporter'[e] = [pc |-> "dxf", option |-> PickedOption(rows), alone |-> alone]
      /\ \A x \in Exporter \ {e} :
            exporter'[x] = IF Exporting(x) THEN [exporter[x] EXCEPT !.alone = FALSE]
                                           ELSE exporter[x]
      /\ UNCHANGED sealed
      /\ exporter[e].pc = "idle"
  BY DEF ExportBegin
<1>3. DOMAIN exporter' = Exporter /\ exporter' = [x \in Exporter |-> exporter'[x]]
  BY DEF ExportBegin
<1>4. alone \in BOOLEAN
  OBVIOUS
<1> HIDE DEF alone
<1>5. ASSUME NEW x \in Exporter  PROVE exporter'[x] \in ExporterRow
  <2>1. CASE x = e
    BY <1>1, <1>2, <1>4, <2>1 DEF ExporterRow
  <2>2. exporter[x] \in ExporterRow /\ [exporter[x] EXCEPT !.alone = FALSE] \in ExporterRow
    BY <1>1 DEF ExporterRow
  <2>3. QED
    BY <1>2, <2>1, <2>2
<1>6. exporter' \in [Exporter -> ExporterRow]
  BY <1>3, <1>5
<1>7. /\ exporter'[e].pc = "dxf" /\ exporter'[e].alone = alone
      /\ \A x \in Exporter \ {e} :
            /\ exporter'[x].pc = exporter[x].pc
            /\ exporter'[x].alone = IF Exporting(x) THEN FALSE ELSE exporter[x].alone
  <2>1. exporter'[e].pc = "dxf" /\ exporter'[e].alone = alone
    BY <1>2
  <2>2. \A x \in Exporter : LET idle == [exporter[x] EXCEPT !.alone = FALSE] IN
           idle.pc = exporter[x].pc /\ idle.alone = FALSE
    BY <1>1 DEF ExporterRow
  <2>3. QED
    BY <1>2, <2>1, <2>2
<1>8. ExportsSound'
  <2>1. \A x, y \in Exporter : Exporting(x)' /\ Exporting(y)' /\ x # y => ~exporter'[x].alone
    BY <1>7 DEF Exporting, alone
  <2>2. SealedPackageWhole'
    BY <1>7 DEF SealedPackageWhole, Exporting
  <2>3. QED
    BY <1>2, <1>6, <1>7, <2>1, <2>2 DEF IInv, ExportsSound, Exporting
<1>9. QED
  BY <1>8, ExportLeavesRun DEF ExportBegin

LEMMA ExportPutInv == ASSUME IInv, NEW e \in Exporter, ExportPut(e)  PROVE IInv'
<1> DEFINE pc == exporter[e].pc
<1>1. /\ exporter \in [Exporter -> ExporterRow]
      /\ sealed \in [SealedFile -> Exporter \cup {None}]
      /\ pc \in {"dxf", "pdf", "ifc"}
      /\ sealed' = [sealed EXCEPT ![pc] = e]
      /\ exporter' = [exporter EXCEPT ![e].pc = AfterPut[pc]]
  BY DEF IInv, ExportsSound, ExportPut, Exporting
<1>2. AfterPut[pc] \in {"pdf", "ifc", "done"}
  BY <1>1 DEF AfterPut
<1>3. /\ exporter' \in [Exporter -> ExporterRow]
      /\ sealed' \in [SealedFile -> Exporter \cup {None}]
  BY <1>1, <1>2 DEF ExporterRow, SealedFile
<1>4. /\ exporter'[e].pc = AfterPut[pc] /\ exporter'[e].alone = exporter[e].alone
      /\ \A x \in Exporter \ {e} : exporter'[x] = exporter[x]
  BY <1>1 DEF ExporterRow
<1>5. \A f \in SealedFile : sealed'[f] = IF f = pc THEN e ELSE sealed[f]
  BY <1>1
<1>6. \A x \in Exporter \ {e} : Exporting(x) => ~exporter[x].alone
  BY DEF IInv, ExportsSound, ExportPut
<1>7. \A x, y \in Exporter : Exporting(x)' /\ Exporting(y)' /\ x # y => ~exporter'[x].alone
  BY <1>1, <1>2, <1>4 DEF IInv, ExportsSound, Exporting
<1>8. exporter[e].alone => /\ pc = "pdf" => sealed["dxf"] = e
                           /\ pc = "ifc" => sealed["dxf"] = e /\ sealed["pdf"] = e
  BY DEF IInv, ExportsSound
<1>9. \A x \in Exporter : exporter'[x].alone =>
         /\ exporter'[x].pc = "pdf" => sealed'["dxf"] = x
         /\ exporter'[x].pc = "ifc" => sealed'["dxf"] = x /\ sealed'["pdf"] = x
  <2>1. ASSUME NEW x \in Exporter \ {e}, exporter'[x].alone
        PROVE  exporter'[x].pc \notin {"pdf", "ifc"}
    BY <1>4, <1>6, <2>1 DEF Exporting
  <2>2. exporter[e].alone => /\ AfterPut[pc] = "pdf" => sealed'["dxf"] = e
                             /\ AfterPut[pc] = "ifc" => sealed'["dxf"] = e /\ sealed'["pdf"] = e
    BY <1>1, <1>5, <1>8 DEF AfterPut, SealedFile
  <2>3. QED
    BY <1>4, <2>1, <2>2
<1>10. SealedPackageWhole'
  <2>1. CASE pc \in {"dxf", "pdf"}
    BY <1>4, <2>1 DEF SealedPackageWhole, Exporting, AfterPut
  <2>2. CASE pc = "ifc"
    <3>1. exporter[e].alone => \A f \in SealedFile : sealed'[f] = e
      BY <1>5, <1>8, <2>2 DEF SealedFile
    <3>2. QED
      BY <1>4, <3>1 DEF SealedPackageWhole
  <2>3. QED
    BY <1>1, <2>1, <2>2
<1>11. ExportsSound'
  BY <1>3, <1>7, <1>9, <1>10 DEF ExportsSound
<1>12. QED
  BY <1>11, ExportLeavesRun DEF ExportPut

LEMMA ExportFailInv == ASSUME IInv, NEW e \in Exporter, ExportFail(e)  PROVE IInv'
<1>1. /\ exporter \in [Exporter -> ExporterRow]
      /\ exporter' = [exporter EXCEPT ![e].pc = "failed"]
      /\ UNCHANGED sealed
  BY DEF IInv, ExportsSound, ExportFail
<1>2. exporter' \in [Exporter -> ExporterRow]
  BY <1>1 DEF ExporterRow
<1>3. /\ exporter'[e].pc = "failed" /\ exporter'[e].alone = exporter[e].alone
      /\ \A x \in Exporter \ {e} : exporter'[x] = exporter[x]
  BY <1>1 DEF ExporterRow
<1>4. SealedPackageWhole'
  BY <1>3 DEF SealedPackageWhole
<1>5. ExportsSound'
  BY <1>1, <1>2, <1>3, <1>4 DEF IInv, ExportsSound, Exporting
<1>6. QED
  BY <1>5, ExportLeavesRun DEF ExportFail

LEMMA NextInv == IInv /\ [Next]_vars => IInv'
<1> SUFFICES ASSUME IInv, [Next]_vars  PROVE IInv'
  OBVIOUS
<1>1. CASE UNCHANGED vars
  BY <1>1 DEF vars, IInv, RunSound, StorageSound, ArtifactsOfOneAttempt, ExportsSound, Exporting,
     SealedPackageWhole
<1>2. CASE UserStep
  <2>1. CASE CreateRun
    BY <2>1, CreateRunInv
  <2>2. ASSUME NEW n \in template.nodes, MarkManualDone(n, FALSE)  PROVE IInv'
    BY <2>2, MarkManualDoneInv
  <2>3. ASSUME NEW n \in template.nodes \cap {"upload_cad"}, MarkManualDone(n, TRUE)  PROVE IInv'
    BY <2>3, MarkManualDoneInv
  <2>4. ASSUME NEW loads \in PostedLoads, PostParameters(loads)  PROVE IInv'
    BY <2>4, PostParametersInv
  <2>5. ASSUME NEW geometry \in Geometries, PostReviewedGeometry(geometry)  PROVE IInv'
    BY <2>5, PostReviewedGeometryInv
  <2>6. ASSUME NEW n \in template.nodes, ApproveGate(n)  PROVE IInv'
    BY <2>6, ApproveGateInv
  <2>7. ASSUME NEW n \in template.nodes, RejectGate(n)  PROVE IInv'
    BY <2>7, RejectGateInv
  <2>8. CASE CancelRun
    BY <2>8, CancelRunInv
  <2>9. QED
    BY <1>2, <2>1, <2>2, <2>3, <2>4, <2>5, <2>6, <2>7, <2>8 DEF UserStep
<1>3. CASE ExportStep
  BY <1>3, ExportBeginInv, ExportPutInv, ExportFailInv DEF ExportStep
<1>4. QED
  BY <1>1, <1>2, <1>3 DEF Next

\* The inductive invariant holds in every state of every behaviour.
THEOREM Inductive == Spec => []IInv
<1>1. QED
  BY InitIInv, NextInv, PTL DEF Spec

-----------------------------------------------------------------------------
(* The properties.                                                         *)

\* The options of a run are the three variants.
LEMMA ThreeOptions ==
  ASSUME NEW g, NEW l
  PROVE  GenerateOptions(g, l) = <<>> \/ Len(GenerateOptions(g, l)) = 3
<1> DEFINE o(v) == BuildOption(Variants[v], g, l)
<1>1. DOMAIN Variants = 1..3
  BY DEF Variants
<1>2. GenerateOptions(g, l) = <<>> \/ GenerateOptions(g, l) = [v \in 1..3 |-> o(v)]
  BY <1>1 DEF GenerateOptions
<1> HIDE DEF o
<1>3. Len([v \in 1..3 |-> o(v)]) = 3
  OBVIOUS
<1>4. QED
  BY <1>2, <1>3

\* Every variable has its type: a run's options are none or the three variants,
\* its outputs those of nodes of its graph, its artifacts those of some request.
THEOREM TypeCorrect == Spec => []TypeOK
<1>1. IInv => TypeOK
  <2> SUFFICES ASSUME IInv  PROVE TypeOK
    OBVIOUS
  <2>1. rows \in RowRecord(template) /\ rows.parsed_by <= AttemptLimit
    BY DEF IInv, RunSound, Rows
  <2>2. rows.options = <<>> \/ Len(rows.options) = 3
    BY <2>1, ThreeOptions DEF RowRecord, Options
  <2>3. Status \subseteq Exec(template)!NodeStatus
    BY DEF Status, Exec!NodeStatus
  <2>4. AttemptLimit \in Nat
    BY BoundsAreNat
  <2>5. rows.node \in [template.nodes -> Exec(template)!NodeStatus]
    BY <2>1, <2>3 DEF RowRecord
  <2>6. rows.parsed_by \in 0..AttemptLimit
    BY <2>1, <2>4 DEF RowRecord
  <2>7. QED
    BY <2>1, <2>2, <2>5, <2>6
       DEF TypeOK, IInv, StorageSound, ExportsSound, RowRecord, ExporterRow
<1>2. QED
  BY <1>1, Inductive, PTL

\* The loop of the executor leaves no run waiting for nobody (schema.py:27): a
\* running run has a node a user can act on, a failed one, or a ready one of a kind
\* nothing completes; and a run with such a node never completes.
THEOREM RunsWaitForSomebody == Spec => []RunningRunsWait
<1>1. IInv => RunningRunsWait
  <2> SUFFICES ASSUME IInv  PROVE RunningRunsWait
    OBVIOUS
  <2> DEFINE t == template
             Waits(n) == \/ Exec(t)!CanMarkDone(t, rows.node, n)
                         \/ Exec(t)!CanDecide(t, rows.node, n)
                         \/ rows.node[n] = "failed"
                         \/ rows.node[n] = "ready" /\ t.kind[n] \in Unserved
  <2>1. t \in Templates /\ NodesSound(t, rows.node)
    BY DEF IInv, RunSound, Rows
  <2>2. ASSUME rows.run = "running", \A n \in t.nodes : ~Waits(n)
        PROVE  FALSE
    <3>1. Quiet(t, rows.node) /\ \E n \in t.nodes : rows.node[n] \notin Terminal
      BY <2>2 DEF IInv, RunSound
    <3>2. \A n \in t.nodes : rows.node[n] # "ready"
      <4>1. ASSUME NEW n \in t.nodes, rows.node[n] = "ready"  PROVE FALSE
        <5>1. t.kind[n] \in Exec(t)!NodeKind /\ t.tool[n] \in Exec(t)!ToolRef
          BY <2>1, TemplatesAreValid
        <5>2. t.kind[n] = "automated"
          BY <2>2, <4>1, <5>1
             DEF Exec!NodeKind, Exec!CanMarkDone, Exec!CanDecide, Unserved
        <5>3. n \in Busy(t, rows.node)
          BY <4>1, <5>2 DEF Busy, Automated
        <5>4. QED
          BY <3>1, <5>3 DEF Quiet
      <4>2. QED
        BY <4>1
    <3> DEFINE waiting == {n \in t.nodes : rows.node[n] = "pending"}
    <3>3. waiting # {}
      BY <2>1, <3>1, <3>2 DEF NodesSound, Status, Terminal
    <3>4. PICK n \in waiting : Exec(t)!Upstream(t, n) \cap waiting = {}
      <4>1. Exec(t)!Acyclic(t)
        BY <2>1, TemplatesAreValid
      <4>2. waiting \in (SUBSET t.nodes) \ {{}}
        BY <3>3
      <4> HIDE DEF waiting
      <4>3. QED
        BY <4>1, <4>2 DEF Exec!Acyclic
    <3>5. ASSUME NEW u \in Exec(t)!Upstream(t, n)  PROVE rows.node[u] = "completed"
      <4>1. u \in t.nodes /\ rows.node[u] # "pending"
        BY <3>4 DEF Exec!Upstream
      <4>2. rows.node[u] # "skipped"
        BY <2>1, <3>4, <4>1 DEF NodesSound, Terminal
      <4>3. QED
        BY <2>1, <2>2, <3>2, <4>1, <4>2 DEF NodesSound, Status
    <3>6. n \in Exec(t)!Promotable(t, rows.node)
      BY <3>5 DEF Exec!Promotable, Exec!Passed
    <3>7. QED
      BY <3>1, <3>6 DEF Quiet
  <2>3. rows.run = "completed" => \A n \in t.nodes : t.kind[n] \notin Unserved
    BY <2>1 DEF IInv, RunSound, NodesSound
  <2>4. QED
    BY <2>2, <2>3 DEF RunningRunsWait
<1>2. QED
  BY <1>1, Inductive, PTL

\* The artifacts of a completed parser are both there and both of the request that
\* completed it, whatever requests were rolled back or failed half way before or
\* after (runs.py:685).
THEOREM ArtifactsAgree == Spec => []ArtifactsOfOneAttempt
<1>1. IInv => ArtifactsOfOneAttempt
  BY DEF IInv, StorageSound
<1>2. QED
  BY <1>1, Inductive, PTL

\* Files of different exports lie in one package only if an export failed, is under
\* way or overlapped with another, for any number of exports (workflows.py:558).
THEOREM PackageIsWhole == Spec => []SealedPackageWhole
<1>1. IInv => SealedPackageWhole
  BY DEF IInv, ExportsSound
<1>2. QED
  BY <1>1, Inductive, PTL

\* Origin parses floors and proposes options only where the graph has the edges the
\* adapters read along (runs.py:658); the shipped template has not, and so no run of
\* it ever gets a reviewed geometry or completes.
THEOREM OriginStalls == Spec => []OriginNeedsDirectEdges
<1>1. IInv => OriginNeedsDirectEdges
  <2> SUFFICES ASSUME IInv  PROVE OriginNeedsDirectEdges
    OBVIOUS
  <2>1. NodesSound(template, rows.node) /\ OutputsSound(template, rows)
    BY DEF IInv, RunSound, Rows
  <2>2. ASSUME template = VerolasOrigin
        PROVE  rows.node["floor_parse"] # "completed"
    BY <2>1, <2>2, OriginGraphFacts DEF OutputsSound
  <2>3. ASSUME template = VerolasOrigin, rows.run = "completed"
        PROVE  FALSE
    BY <2>2, <2>3, OriginGraphFacts DEF IInv, RunSound
  <2>4. ASSUME template = VerolasOrigin, rows.geometry # None
        PROVE  FALSE
    <3>1. /\ "architectural_review" \in rows.emitted
          /\ rows.node["architectural_review"] = "completed"
      BY <2>1, <2>4 DEF OutputsSound
    <3>2. rows.emitted \subseteq template.nodes
      BY CommittedRows DEF RowRecord
    <3>3. "floor_parse" \in Exec(template)!Upstream(template, "architectural_review")
      BY <2>4, OriginGraphFacts DEF Exec!Upstream
    <3>4. QED
      BY <2>1, <2>2, <2>4, <3>1, <3>2, <3>3 DEF NodesSound
  <2>5. QED
    BY <2>1, <2>3, <2>4 DEF OriginNeedsDirectEdges, OutputsSound
<1>2. QED
  BY <1>1, Inductive, PTL

\* The bay grids of the three options of every run stand in the order the variants
\* promise and within the bounds of the engine (grid.py:307).
THEOREM BaysOrdered == Spec => []BayGridsOrdered
<1>1. IInv => BayGridsOrdered
  <2> SUFFICES ASSUME IInv, NEW g \in Geometries, NEW l, rows.options = GenerateOptions(g, l),
                      NEW i \in DOMAIN rows.options
               PROVE  LET bay == rows.options[i].bay
                          cols == rows.options[i].cols
                      IN /\ bay.x <= 10 * MaxBay /\ bay.y <= 10 * MaxBay
                         /\ cols.x > 1 => bay.x >= 10 * MinBay
                         /\ cols.y > 1 => bay.y >= 10 * MinBay
                         /\ i > 1 => /\ bay.x <= rows.options[i - 1].bay.x
                                     /\ bay.y <= rows.options[i - 1].bay.y
    <3>1. ASSUME IInv
          PROVE  \/ rows.options = <<>>
                 \/ \E g \in Geometries, l \in PostedLoads \cup {DefaultLoads} :
                       rows.options = GenerateOptions(g, l)
      BY <3>1, CommittedRows DEF RowRecord, Options
    <3>2. QED
      BY <3>1 DEF BayGridsOrdered
  <2>1. HasFloors(g) /\ i \in 1..3
    BY DEF GenerateOptions, Variants
  <2>2. g.width \in Nat /\ g.depth \in Nat
    BY InputsAreValid
  <2>3. /\ Variants[1].target = 100 /\ Variants[2].target = 75 /\ Variants[3].target = 55
    BY DEF Variants
  <2> DEFINE option == rows.options
  <2>4. ASSUME NEW k \in 1..3
        PROVE  /\ option[k].cols = [x |-> ColsForTarget(g.width, Variants[k].target),
                                    y |-> ColsForTarget(g.depth, Variants[k].target)]
               /\ option[k].bay = [x |-> BayOf(g.width, Variants[k].target),
                                   y |-> BayOf(g.depth, Variants[k].target)]
    <3> DEFINE o == GenerateOptions(g, l)[k]
    <3>1. /\ o.cols = [x |-> ColsForTarget(g.width, Variants[k].target),
                       y |-> ColsForTarget(g.depth, Variants[k].target)]
          /\ o.bay = [x |-> BayOf(g.width, Variants[k].target),
                      y |-> BayOf(g.depth, Variants[k].target)]
      BY <2>1, <2>4, OptionGrid, Zenon
    <3>2. option[k] = o
      OBVIOUS
    <3> HIDE DEF o, option
    <3>3. QED
      BY <3>1, <3>2
  <2> HIDE DEF option
  <2>5. Variants[i].target \in {100, 75, 55}
    BY <2>1, <2>3
  <2>6. /\ option[i].bay.x <= 10 * MaxBay /\ option[i].bay.y <= 10 * MaxBay
        /\ option[i].cols.x > 1 => option[i].bay.x >= 10 * MinBay
        /\ option[i].cols.y > 1 => option[i].bay.y >= 10 * MinBay
    BY <2>1, <2>2, <2>4, <2>5, BayBounds
  <2>7. i > 1 => /\ option[i].bay.x <= option[i - 1].bay.x
                 /\ option[i].bay.y <= option[i - 1].bay.y
    <3>1. CASE i = 2
      BY <2>2, <2>3, <2>4, <3>1, BaysShrink
    <3>2. CASE i = 3
      BY <2>2, <2>3, <2>4, <3>2, BaysShrink
    <3>3. QED
      BY <2>1, <3>1, <3>2
  <2>8. QED
    BY <2>6, <2>7 DEF option
<1>2. QED
  BY <1>1, Inductive, PTL

\* No option of any run hides an overloaded member or has one without a reason, for
\* footprints and posted loads of any size (grid.py:513, 589 and 748).
THEOREM OverloadsHaveReasons == Spec => []OverloadsExplained
<1>1. IInv => OverloadsExplained
  <2> SUFFICES ASSUME NEW g \in Geometries, NEW l \in PostedLoads \cup {DefaultLoads},
                      rows.options = GenerateOptions(g, l), NEW i \in DOMAIN rows.options
               PROVE  LET option == rows.options[i] IN
                      \A m \in option.members : Overloaded(option, m) =>
                         /\ NothingPasses(option, m) \/ option.variant = "balanced"
                         /\ Dcr(option.system, m) > 1000 => "overload" \in option.caveats
                         /\ option.dcr.over_100 > 0 \/ 2000 * m.count <= Number(option.schedule)
    <3>1. ASSUME IInv
          PROVE  \/ rows.options = <<>>
                 \/ \E g \in Geometries, l \in PostedLoads \cup {DefaultLoads} :
                       rows.options = GenerateOptions(g, l)
      BY <3>1, CommittedRows DEF RowRecord, Options
    <3>2. QED
      BY <3>1 DEF OverloadsExplained
  <2>1. /\ g.width \in Nat /\ g.depth \in Nat /\ g.storeys \in Nat
        /\ l.dead \in Int /\ l.live \in Int
    BY InputsAreValid DEF DefaultLoads
  <2>2. i \in 1..3 /\ rows.options[i] = BuildOption(Variants[i], g, l)
    <3>1. DOMAIN Variants = 1..3
      BY DEF Variants
    <3>2. QED
      BY <3>1 DEF GenerateOptions
  <2> DEFINE option == rows.options[i]
  <2>3. Explained(option)
    <3>1. Explained(BuildOption(Variants[i], g, l))
      BY <2>1, <2>2, OverloadsShown
    <3>2. QED
      BY <2>2, <3>1
  <2> HIDE DEF option
  <2>4. \A m \in option.members : Overloaded(option, m) =>
           /\ NothingPasses(option, m) \/ option.variant = "balanced"
           /\ Dcr(option.system, m) > 1000 => "overload" \in option.caveats
           /\ option.dcr.over_100 > 0 \/ 2000 * m.count <= Number(option.schedule)
    BY <2>3 DEF Explained, Overloaded, NothingPasses
  <2>5. QED
    BY <2>4 DEF option
<1>2. QED
  BY <1>1, Inductive, PTL
=============================================================================
