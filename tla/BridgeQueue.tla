----------------------------- MODULE BridgeQueue -----------------------------
(***************************************************************************)
(* The job queue of one bridge (routes/v1/bridges.py, dependencies/        *)
(* bridge.py) and the agent that works it off on the customer's network    *)
(* (verolas_bridge/runner.py, client.py).  Who inserts jobs is outside the *)
(* repository.                                                             *)
(*                                                                         *)
(* A bridge request is admitted on a read of the bridge's status; a poll   *)
(* then sets the status to active, whatever it has become, and claims      *)
(* queued jobs; a result overwrites the job whatever its status.  The      *)
(* agent handles one claim after the other and drops the rest of a claim   *)
(* as soon as a call fails.                                                *)
(***************************************************************************)
EXTENDS ActivityChain, FiniteSets

CONSTANTS MaxJobs,      \* bound: jobs are 1..MaxJobs, in order of created_at
          ClaimLimit,   \* LIMIT of the claim; 10 in the code
          Admits        \* whether bridge_conn can read the bridge's row: the
                        \* deployment must let it pass row-level security

ASSUME BridgeBounds == MaxJobs \in Nat /\ ClaimLimit \in Nat \ {0} /\ Admits \in BOOLEAN

VARIABLES bridge,       \* status of the row, "absent" before enrolment
          jobs,         \* job -> status
          agent,        \* [pc, batch, job]: where the agent is, the claimed jobs
                        \* it still has to handle, the one it submits
          dropped       \* history: claimed jobs whose response was lost, and
                        \* the rest of an aborted claim

bridgeVars == <<bridge, jobs, agent, dropped>>

Jobs == 1..MaxJobs
Final == {"completed", "failed", "cancelled"}
JobStatus == {"absent", "queued", "in_progress"} \cup Final
BridgeStatus == {"absent", "pending", "active", "revoked"}
TheBridge == "bridge"
BridgeRow == <<"bridge", TheBridge>>

Idle == [pc |-> "idle", batch |-> {}, job |-> 0]

BridgeInit ==
  /\ bridge = "absent"
  /\ jobs = [j \in Jobs |-> "absent"]
  /\ agent = Idle
  /\ dropped = {}

With(status) == {j \in Jobs : jobs[j] = status}
OldestFirst(S, n) == {j \in S : Cardinality({k \in S : k <= j}) <= n}

(* `heard` is whether the agent still waits for the response.              *)
BridgeRequest(action, on, ready, locks) ==
  [action |-> action, on |-> on, jobs |-> {}, verdict |-> "none",
   heard |-> TRUE, ready |-> ready, locks |-> locks, shares |-> {}, seq |-> 0]

Is(i, action) == open[i].action = action

EnrollBridge ==
  /\ bridge = "absent" /\ \A k \in DOMAIN open : ~Is(k, "bridge.enrolled")
  /\ Begin(BridgeRequest("bridge.enrolled", TheBridge, TRUE, {}))
  /\ UNCHANGED <<log, bridgeVars>>

EnqueueJob ==
  /\ bridge # "absent" /\ With("absent") # {}
  /\ jobs' = [j \in Jobs |-> IF j \in OldestFirst(With("absent"), 1) THEN "queued" ELSE jobs[j]]
  /\ UNCHANGED <<log, open, bridge, agent, dropped>>

(* Faulty: whatever is not finished is cancelled.                          *)
CancelsClaimedToo == With("queued") \cup With("in_progress")

Cancels == With("queued")

(* UPDATE of the bridge, whatever its status, then of its queued jobs.     *)
RevokeBridge ==
  /\ bridge # "absent"
  /\ Begin([BridgeRequest("bridge.revoked", TheBridge, TRUE,
                          {BridgeRow} \cup {<<"job", j>> : j \in Cancels})
            EXCEPT !.jobs = Cancels])
  /\ UNCHANGED <<log, bridgeVars>>

(* Faulty: a revoked bridge may still call.                                *)
AdmittedUnchecked == Admits /\ bridge # "absent"

Admitted == Admits /\ bridge \notin {"absent", "revoked"}

(* The agent's GET /poll, and bridge_conn.                                 *)
Poll ==
  /\ agent.pc = "idle" /\ Admitted
  /\ Begin(BridgeRequest("poll", TheBridge, FALSE, {}))
  /\ agent' = [agent EXCEPT !.pc = "polling"]
  /\ UNCHANGED <<log, bridge, jobs, dropped>>

(* UPDATE of the bridge, then the claim.                                   *)
ClaimJobs(i) ==
  /\ Is(i, "poll") /\ ~open[i].ready
  /\ LET C == OldestFirst(With("queued"), ClaimLimit)
     IN  Continue(i, [open[i] EXCEPT !.ready = TRUE, !.jobs = C,
                        !.locks = {BridgeRow} \cup {<<"job", j>> : j \in C}])
  /\ UNCHANGED <<log, bridgeVars>>

(* Faulty: the UPDATE takes every queued job, the response only ten.       *)
ClaimedAll(i) == open[i].jobs \cup With("queued")

Claimed(i) == open[i].jobs

(* The response reaches the agent, or is lost on the way.                  *)
CommitPoll(i) ==
  /\ Is(i, "poll") /\ open[i].ready
  /\ CommitUnaudited(i)
  /\ bridge' = "active"
  /\ jobs' = [j \in Jobs |-> IF j \in Claimed(i) THEN "in_progress" ELSE jobs[j]]
  /\ \/ /\ open[i].heard
        /\ agent' = IF open[i].jobs = {} THEN Idle
                    ELSE [pc |-> "running", batch |-> open[i].jobs, job |-> 0]
        /\ UNCHANGED dropped
     \/ /\ dropped' = dropped \cup open[i].jobs
        /\ agent' = IF open[i].heard THEN Idle ELSE agent

(* The tool ran, or failed, or none is registered: POST .../result.        *)
SubmitResult(j, verdict) ==
  /\ agent.pc = "running" /\ j \in agent.batch
  /\ Admitted
  /\ Begin([BridgeRequest("bridge.job.completed", j, FALSE, {}) EXCEPT !.verdict = verdict])
  /\ agent' = [agent EXCEPT !.pc = "submitting", !.job = j, !.batch = @ \ {j}]
  /\ UNCHANGED <<log, bridge, jobs, dropped>>

WriteResult(i) ==
  /\ Is(i, "bridge.job.completed") /\ ~open[i].ready
  /\ Continue(i, [open[i] EXCEPT !.ready = TRUE, !.locks = {<<"job", open[i].on>>}])
  /\ UNCHANGED <<log, bridgeVars>>

(* The agent goes on with the claim, or its tick ends.                     *)
Answered ==
  agent' = IF agent.batch = {} THEN Idle ELSE [agent EXCEPT !.pc = "running", !.job = 0]
Abandoned == agent.batch \cup (IF agent.pc = "submitting" THEN {agent.job} ELSE {})

CommitResult(i) ==
  /\ Is(i, "bridge.job.completed")
  /\ Commit(i, open[i].verdict)
  /\ jobs' = [jobs EXCEPT ![open[i].on] = open[i].verdict]
  /\ IF open[i].heard THEN Answered ELSE UNCHANGED agent
  /\ UNCHANGED <<bridge, dropped>>

CommitEnroll(i) ==
  /\ Is(i, "bridge.enrolled")
  /\ Commit(i, TheBridge)
  /\ bridge' = "pending"
  /\ UNCHANGED <<jobs, agent, dropped>>

CommitRevoke(i) ==
  /\ Is(i, "bridge.revoked")
  /\ Commit(i, TheBridge)
  /\ bridge' = "revoked"
  /\ jobs' = [j \in Jobs |-> IF j \in open[i].jobs THEN "cancelled" ELSE jobs[j]]
  /\ UNCHANGED <<agent, dropped>>

(* A call raises (a timeout, an error status, a refusal) and run_forever   *)
(* goes on with the next tick; or the process stops and starts again.  A   *)
(* request that is under way may still commit.                             *)
TickFails ==
  /\ agent.pc # "idle"
  /\ agent' = Idle
  /\ dropped' = dropped \cup Abandoned
  /\ open' = [k \in DOMAIN open |->
                IF open[k].action \in {"poll", "bridge.job.completed"}
                THEN [open[k] EXCEPT !.heard = FALSE] ELSE open[k]]
  /\ UNCHANGED <<log, bridge, jobs>>

BridgeStep ==
  \/ EnrollBridge
  \/ EnqueueJob
  \/ RevokeBridge
  \/ Poll
  \/ \E j \in Jobs, v \in {"completed", "failed"} : SubmitResult(j, v)
  \/ TickFails
  \/ \E i \in DOMAIN open : \/ ClaimJobs(i) \/ CommitPoll(i)
                            \/ WriteResult(i) \/ CommitResult(i)
                            \/ CommitEnroll(i) \/ CommitRevoke(i)

(* The last result recorded for a job is its status.                       *)
LastVerdict(j) ==
  LET K == Entries("bridge.job.completed", j)
  IN  IF K = {} THEN "none" ELSE log[CHOOSE k \in K : \A l \in K : l <= k].detail
BridgeAudited ==
  /\ bridge # "absent" <=> Logged("bridge.enrolled", TheBridge)
  /\ bridge = "revoked" => Logged("bridge.revoked", TheBridge)
  /\ \A j \in Jobs :
       IF LastVerdict(j) = "none"
       THEN jobs[j] \in Final => jobs[j] = "cancelled" /\ Logged("bridge.revoked", TheBridge)
       ELSE jobs[j] = LastVerdict(j)
=============================================================================
