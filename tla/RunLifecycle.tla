---------------------------- MODULE RunLifecycle ----------------------------
(***************************************************************************)
(* What a workflow run promises to somebody who only reads it (get_run,    *)
(* list_runs): each node gets one verdict that is never taken back, the    *)
(* run is over when every node has its verdict, a rejected gate shows the  *)
(* run as failed at once, and cancelling is possible at any time and ends  *)
(* everything.  WorkflowRun implements it, one commit at a time.           *)
(***************************************************************************)
CONSTANT Node

VARIABLES status, verdict,
          gates   \* the nodes that are decided by an approver; never changes

lifecycleVars == <<status, verdict, gates>>

Open(v) == {n \in Node : v[n] = "none"}

Summary(v) ==
    IF Open(v) # {} THEN "running"
    ELSE IF \E n \in Node : v[n] = "failed" THEN "failed" ELSE "completed"

Init == /\ status = "absent"
        /\ verdict = [n \in Node |-> "none"]
        /\ gates \subseteq Node

\* Some open nodes get a verdict; those that have one keep it.  At most one of
\* them is a gate, which this approves.
Decide(decided) ==
    /\ decided \subseteq Open(verdict)
    /\ \A g, h \in decided \cap gates : g = h
    /\ \E v \in [decided -> {"completed", "failed"}] :
          /\ \A g \in decided \cap gates : v[g] = "completed"
          /\ verdict' = [n \in Node |-> IF n \in decided THEN v[n] ELSE verdict[n]]

Start == /\ status = "absent"
         /\ \E decided \in SUBSET (Open(verdict) \ gates) : Decide(decided)
         /\ status' = Summary(verdict')
         /\ gates' = gates

Work == /\ status \in {"running", "failed"}
        /\ \E decided \in (SUBSET Open(verdict)) \ {{}} : Decide(decided)
        /\ status' = Summary(verdict')
        /\ gates' = gates

\* One gate is rejected, and nothing else happens.
Reject == /\ status \in {"running", "failed"}
          /\ \E g \in gates \cap Open(verdict) : verdict' = [verdict EXCEPT ![g] = "failed"]
          /\ status' = "failed"
          /\ gates' = gates

Cancel == /\ status # "absent"
          /\ verdict' = [n \in Node |-> IF verdict[n] = "none" THEN "skipped" ELSE verdict[n]]
          /\ status' = "cancelled"
          /\ gates' = gates

Next == Start \/ Work \/ Reject \/ Cancel

Spec == Init /\ [][Next]_lifecycleVars
=============================================================================
