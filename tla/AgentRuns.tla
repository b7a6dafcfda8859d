----------------------------- MODULE AgentRuns -----------------------------
(***************************************************************************)
(* Agent runs: the rows of agent_runs, the threads that execute requests   *)
(* (RunExecutionService.execute and stream_execute) and the operator       *)
(* endpoints that cancel, resume and reconcile runs (AgentRunService).     *)
(*                                                                         *)
(* Every store call is one transaction and nothing spans two of them, so   *)
(* what a thread checked may be stale when it writes.  All tasks belong to *)
(* one workspace.                                                          *)
(***************************************************************************)
EXTENDS Integers, Sequences, FiniteSets

CONSTANTS
  Callers,          \* threads executing requests
  Tasks,            \* tasks of the workspace
  Keys,             \* idempotency keys
  Settings,         \* values of max_concurrent_runs_per_task and _per_workspace, and
                    \* with each a bound on cancels, resumes and reconciliations
  ListLimit,        \* most rows list_agent_runs returns (200), oldest first
  MaxRuns,          \* bound: no request begins with this many rows
  MaxCrashes,       \* bound: threads killed, or streams whose client left
  MaxFaults         \* bound: store calls that raise

ASSUME RunsAssumption ==
  /\ Settings \subseteq [task : Nat \ {0}, workspace : Nat \ {0}, operations : Nat] /\ ListLimit \in Nat \ {0}
  /\ MaxRuns \in Nat /\ MaxCrashes \in Nat /\ MaxFaults \in Nat /\ IsFiniteSet(Callers)

VARIABLES
  limit,     \* the settings in force
  runs,      \* the rows, in the order of created_at
  output,    \* runs whose output is stored and whose run.completed is recorded
  replay,    \* the run whose response is kept for each task and key, 0 if none
  answered,  \* runs whose response was kept under their key, ever
  pc, req,   \* where each caller is, and its request
  mine,      \* the row each caller created
  tally,     \* the tasks each caller has counted, and their active runs
  old,       \* rows not updated for run_stale_timeout_seconds
  pending,   \* operator writes decided on but not done yet
  resumed,   \* resumes done for each task
  abandoned, \* rows whose caller died or gave up on the store
  crashes, faults, operations

vars == <<limit, runs, output, replay, answered, pc, req, mine, tally, old, pending, resumed,
          abandoned, crashes, faults, operations>>
outside == <<pending, resumed, operations>>
bounds == <<crashes, faults>>

Active == {"queued", "running"}

NoTally == [seen |-> {}, count |-> 0]

Init ==
  /\ limit \in Settings
  /\ runs = <<>>
  /\ output = {} /\ answered = {} /\ old = {} /\ abandoned = {} /\ pending = {}
  /\ replay = [p \in Tasks \X Keys |-> 0]
  /\ pc = [c \in Callers |-> "idle"]
  /\ req = [c \in Callers |-> [task |-> "none", key |-> "none", stream |-> FALSE]]
  /\ mine = [c \in Callers |-> 0]
  /\ tally = [c \in Callers |-> NoTally]
  /\ resumed = [t \in Tasks |-> 0]
  /\ crashes = 0 /\ faults = 0 /\ operations = 0

-----------------------------------------------------------------------------
(* The store *)

RowsOf(t) == {r \in DOMAIN runs : runs[r].task = t}
ActiveOf(t) == {r \in RowsOf(t) : runs[r].status \in Active}

\* The active rows among the ListLimit oldest of the task.
listed_active(t) == {r \in ActiveOf(t) : Cardinality({q \in RowsOf(t) : q <= r}) <= ListLimit}

\* update_agent_run: the status, whatever it was, and updated_at.
Update(r, status) ==
  /\ runs' = [runs EXCEPT ![r].status = status]
  /\ old' = old \ {r}

Goto(c, label) == pc' = [pc EXCEPT ![c] = label]
Leave(c) ==
  /\ Goto(c, "idle")
  /\ mine' = [mine EXCEPT ![c] = 0]
  /\ tally' = [tally EXCEPT ![c] = NoTally]
  /\ req' = [req EXCEPT ![c] = [task |-> "none", key |-> "none", stream |-> FALSE]]

-----------------------------------------------------------------------------
(* Executing a request *)

\* _maybe_get_idempotent_response: a kept response is returned at once.
Lookup(c) ==
  /\ pc[c] = "idle"
  /\ Len(runs) < MaxRuns
  /\ \E t \in Tasks, k \in Keys, stream \in BOOLEAN :
       /\ replay[<<t, k>>] = 0
       /\ req' = [req EXCEPT ![c] = [task |-> t, key |-> k, stream |-> stream]]
  /\ Goto(c, "checking")
  /\ UNCHANGED <<runs, output, replay, answered, mine, tally, old, abandoned, outside, bounds>>

over_task_limit_OffByOne(t) == Cardinality(listed_active(t)) > limit.task
over_task_limit(t) == Cardinality(listed_active(t)) >= limit.task

\* _enforce_concurrency_limits, the task.
CheckTask(c) ==
  /\ pc[c] = "checking"
  /\ IF over_task_limit(req[c].task)
     THEN Leave(c)
     ELSE Goto(c, "counting") /\ UNCHANGED <<req, mine, tally>>
  /\ UNCHANGED <<runs, output, replay, answered, old, abandoned, outside, bounds>>

over_workspace_limit_OffByOne(count) == count > limit.workspace
over_workspace_limit(count) == count >= limit.workspace

\* _enforce_concurrency_limits, the workspace, one task's rows at a time.
CountTask(c) ==
  /\ pc[c] = "counting"
  /\ \E t \in Tasks \ tally[c].seen :
       LET count == tally[c].count + Cardinality(listed_active(t))
           seen  == tally[c].seen \union {t}
       IN  IF over_workspace_limit(count)
           THEN Leave(c)
           ELSE /\ Goto(c, IF seen = Tasks THEN "creating" ELSE "counting")
                /\ tally' = [tally EXCEPT ![c] = [seen |-> seen, count |-> count]]
                /\ UNCHANGED <<req, mine>>
  /\ UNCHANGED <<runs, output, replay, answered, old, abandoned, outside, bounds>>

\* The row is created running; recording run.started is outside the try block, so
\* an error there leaves the row behind.
Create(c) ==
  /\ pc[c] = "creating"
  /\ runs' = Append(runs, [task |-> req[c].task, key |-> req[c].key, status |-> "running"])
  /\ \/ /\ Goto(c, "calling")
        /\ mine' = [mine EXCEPT ![c] = Len(runs) + 1]
        /\ tally' = [tally EXCEPT ![c] = NoTally]
        /\ UNCHANGED <<req, abandoned, faults>>
     \/ /\ faults < MaxFaults /\ faults' = faults + 1
        /\ abandoned' = abandoned \union {Len(runs) + 1}
        /\ Leave(c)
  /\ UNCHANGED <<output, replay, answered, old, outside, crashes>>

\* A provider answers, or all candidates fail.
Call(c) ==
  /\ pc[c] = "calling"
  /\ \E label \in {"completing", "failing"} : Goto(c, label)
  /\ UNCHANGED <<runs, output, replay, answered, req, mine, tally, old, abandoned, outside, bounds>>

Complete_KeepsResponseFirst(c) ==
  /\ pc[c] = "completing"
  /\ Update(mine[c], "completed")
  /\ Goto(c, IF req[c].stream THEN "storing" ELSE "persisting")
  /\ UNCHANGED <<output, replay, answered, req, mine, tally, abandoned, outside, bounds>>

Complete(c) ==
  /\ pc[c] = "completing"
  /\ Update(mine[c], "completed")
  /\ Goto(c, "storing")
  /\ UNCHANGED <<output, replay, answered, req, mine, tally, abandoned, outside, bounds>>

\* The output reference and run.completed; a stream ends here.
StoreOutput(c) ==
  /\ pc[c] = "storing"
  /\ output' = output \union {mine[c]}
  /\ IF req[c].stream THEN Leave(c) ELSE Goto(c, "persisting") /\ UNCHANGED <<req, mine, tally>>
  /\ UNCHANGED <<runs, replay, answered, old, abandoned, outside, bounds>>

Persist_Forgotten(c) ==
  /\ pc[c] = "persisting"
  /\ answered' = answered \union {mine[c]}
  /\ Leave(c)
  /\ UNCHANGED <<runs, output, replay, old, abandoned, outside, bounds>>

\* _persist_idempotent_response, an upsert; the response is returned.
Persist(c) ==
  /\ pc[c] = "persisting"
  /\ replay' = [replay EXCEPT ![<<req[c].task, req[c].key>>] = mine[c]]
  /\ answered' = answered \union {mine[c]}
  /\ Leave(c)
  /\ UNCHANGED <<runs, output, old, abandoned, outside, bounds>>

Fail_Unrecorded(c) ==
  /\ pc[c] = "failing"
  /\ Leave(c)
  /\ UNCHANGED <<runs, old, output, replay, answered, abandoned, outside, bounds>>

\* The except clause: the row is marked failed, completed or not.
Fail(c) ==
  /\ pc[c] = "failing"
  /\ Update(mine[c], "failed")
  /\ Leave(c)
  /\ UNCHANGED <<output, replay, answered, abandoned, outside, bounds>>

StoreRaises_Unhandled(c) ==
  /\ pc[c] \in {"completing", "storing", "persisting", "failing"}
  /\ faults < MaxFaults /\ faults' = faults + 1
  /\ Leave(c)
  /\ UNCHANGED <<runs, output, replay, answered, old, abandoned, outside, crashes>>

\* A store call raises: into the except clause, or out of it.
StoreRaises(c) ==
  /\ pc[c] \in {"completing", "storing", "persisting", "failing"}
  /\ faults < MaxFaults /\ faults' = faults + 1
  /\ IF pc[c] = "failing"
     THEN abandoned' = abandoned \union {mine[c]} /\ Leave(c)
     ELSE Goto(c, "failing") /\ UNCHANGED <<req, mine, tally, abandoned>>
  /\ UNCHANGED <<runs, output, replay, answered, old, outside, crashes>>

\* The process dies, or the client of a stream disconnects (GeneratorExit).
Die(c) ==
  /\ pc[c] # "idle"
  /\ crashes < MaxCrashes /\ crashes' = crashes + 1
  /\ abandoned' = abandoned \union ({mine[c]} \ {0})
  /\ Leave(c)
  /\ UNCHANGED <<runs, output, replay, answered, old, outside, faults>>

-----------------------------------------------------------------------------
(* The operator's endpoints: each reads a row, decides, and writes later. *)

Decided(kind, R) ==
  /\ operations < limit.operations /\ operations' = operations + 1
  /\ pending' = pending \union ({kind} \X R)
  /\ UNCHANGED <<runs, output, replay, answered, pc, req, mine, tally, old, resumed,
                 abandoned, bounds>>

cancel_run == \E r \in DOMAIN runs : runs[r].status \in Active /\ Decided("cancel", {r})
resume_run == \E r \in DOMAIN runs :
                runs[r].status \in {"blocked", "failed"} /\ Decided("resume", {r})

\* list_runs: every row read as active and out of date.
stale == {r \in old : runs[r].status \in Active}
reconcile_stale_runs == stale # {} /\ Decided("reconcile", stale)

status_written_Stale(kind) == IF kind = "reconcile" THEN "stale" ELSE "queued"
status_written(kind) == IF kind = "resume" THEN "queued" ELSE "blocked"

OperatorWrites ==
  /\ \E p \in pending :
       LET r == p[2] IN
       /\ Update(r, status_written(p[1]))
       /\ resumed' = [resumed EXCEPT ![runs[r].task] = @ + (IF p[1] = "resume" THEN 1 ELSE 0)]
       /\ pending' = pending \ {p}
  /\ UNCHANGED <<output, replay, answered, pc, req, mine, tally, abandoned, operations, bounds>>

\* The clock passes run_stale_timeout_seconds for an active row.
Age ==
  /\ \E r \in DOMAIN runs \ old : runs[r].status \in Active /\ old' = old \union {r}
  /\ UNCHANGED <<runs, output, replay, answered, pc, req, mine, tally, abandoned, outside, bounds>>

Step(c) ==
  \/ Lookup(c) \/ CheckTask(c) \/ CountTask(c) \/ Create(c) \/ Call(c)
  \/ Complete(c) \/ StoreOutput(c) \/ Persist(c) \/ Fail(c) \/ StoreRaises(c) \/ Die(c)

Next ==
  /\ \/ \E c \in Callers : Step(c)
     \/ cancel_run \/ resume_run \/ reconcile_stale_runs \/ OperatorWrites \/ Age
  /\ UNCHANGED limit

Spec == Init /\ [][Next]_vars

-----------------------------------------------------------------------------
(* Properties *)

Run == [task : Tasks, key : Keys, status : {"queued", "running", "blocked", "completed", "failed"}]
Label == {"idle", "checking", "counting", "creating", "calling", "completing", "storing",
          "persisting", "failing"}

\* Every variable has its type.
TypeOK ==
  /\ limit \in Settings
  /\ runs \in Seq(Run)
  /\ output \subseteq DOMAIN runs /\ answered \subseteq DOMAIN runs
  /\ old \subseteq DOMAIN runs /\ abandoned \subseteq DOMAIN runs
  /\ replay \in [Tasks \X Keys -> {0} \union DOMAIN runs]
  /\ pc \in [Callers -> Label]
  /\ req \in [Callers -> [task : Tasks \union {"none"}, key : Keys \union {"none"}, stream : BOOLEAN]]
  /\ mine \in [Callers -> {0} \union DOMAIN runs]
  /\ tally \in [Callers -> [seen : SUBSET Tasks, count : Nat]]
  /\ pending \subseteq {"cancel", "resume", "reconcile"} \X DOMAIN runs
  /\ resumed \in [Tasks -> Nat]
  /\ crashes \in Nat /\ faults \in Nat /\ operations \in Nat

\* The limit per task is checked long before the row is created, so racing callers
\* overshoot it: by less than one run per caller, plus the runs operators resumed
\* (_enforce_concurrency_limits), as long as the task has at most ListLimit rows.
TaskLimitWithinSlack ==
  \A t \in Tasks :
    Cardinality(RowsOf(t)) <= ListLimit =>
      Cardinality(ActiveOf(t)) < limit.task + Cardinality(Callers) + resumed[t]

\* The limit per workspace, whose count is read one task at a time, is overshot by
\* no more than that.
Resumes == UNION {{t} \X (1..resumed[t]) : t \in Tasks}
WorkspaceLimitWithinSlack ==
  Len(runs) <= ListLimit =>
    Cardinality({r \in DOMAIN runs : runs[r].status \in Active})
      < limit.workspace + Cardinality(Callers) + Cardinality(Resumes)

\* A run that stays completed has its output stored: when storing it fails the run
\* turns failed (execute), unless its caller is still at it or was cut off.
CompletedHasOutput ==
  \A r \in DOMAIN runs :
    runs[r].status = "completed" /\ r \notin output /\ r \notin abandoned =>
      \E c \in Callers : mine[c] = r

\* An active run is some caller's, or was abandoned, or was resumed by an operator:
\* otherwise it holds a slot of its task that nobody will ever give back.
ActiveIsOwned ==
  \A r \in DOMAIN runs :
    runs[r].status \in Active /\ resumed[runs[r].task] = 0 /\ r \notin abandoned =>
      \E c \in Callers : mine[c] = r

\* A replayed response is that of a run of the same task whose output is stored.
ReplaysAreFinished ==
  \A t \in Tasks, k \in Keys :
    replay[<<t, k>>] # 0 => replay[<<t, k>>] \in output /\ runs[replay[<<t, k>>]].task = t

AnsweredFor(t, k) == {r \in answered : runs[r].task = t /\ runs[r].key = k}

\* Once a response is kept its key is never executed anew: only requests already
\* past the lookup still run, so a key is answered afresh at most once per caller.
ExecutionsPerKeyBounded ==
  \A t \in Tasks, k \in Keys : Cardinality(AnsweredFor(t, k)) <= Cardinality(Callers)

\* A key is executed once (docs/rtd/reference/http-examples.md).
ExecutedOncePerKey == \A t \in Tasks, k \in Keys : Cardinality(AnsweredFor(t, k)) <= 1
=============================================================================
