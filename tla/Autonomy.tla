------------------------------ MODULE Autonomy ------------------------------
(***************************************************************************)
(* The autonomy task engine of the orchestrator: how one task is taken     *)
(* through plan, execute and review by the passes of                       *)
(* AutonomyService.process_task (autonomy_service.py).                     *)
(*                                                                         *)
(* The engine keeps no memory of its own.  Each pass reads the status of   *)
(* the task and the most recent project events, decides from them what to  *)
(* do, and appends events.  A pass is a "worker" here: the background loop *)
(* (lifecycle.py) is one, every HTTP thread serving /autonomy/scan-once or *)
(* /autonomy/tasks/{id}/run is another, and nothing locks the task.        *)
(*                                                                         *)
(* The event log is append-only, so what a pass has read is a set of       *)
(* positions of log.  Events nothing reads back to decide are left out     *)
(* (snapshots, feedback, routing, digests).                                *)
(***************************************************************************)
EXTENDS Integers, Sequences, FiniteSets, FiniteSetsExt

CONSTANTS
  Workers,          \* threads that may process the task
  MaxCycles,        \* autonomy_max_cycles
  MaxRetries,       \* autonomy_max_retries
  MaxTotalSteps,    \* autonomy_max_total_steps
  LowInfoThreshold, \* autonomy_low_info_threshold
  Window,           \* most events a read returns (the store clamps to 200)
  NeedsApproval,    \* the preferences ask for approval before execute
  Downgraded,       \* the preferences ask for a mode the workspace is not fit for
  Causes,           \* why an agent run may raise
  Reasons,          \* the texts a failure may carry
  MaxEvents,        \* bound: no pass begins on a log this long
  MaxDecisions,     \* bound: operator decisions
  MaxDeaths         \* bound: passes cut short by a crash or an uncaught exception

\* The numeric settings as config.py and the service's constructor leave them.
ASSUME SettingsAssumption ==
  /\ MaxCycles \in Nat \ {0}
  /\ MaxRetries \in Nat
  /\ MaxTotalSteps \in Nat \ {0}
  /\ LowInfoThreshold \in Nat \ {0, 1}
  /\ Window \in Nat \ {0}
  /\ NeedsApproval \in BOOLEAN
  /\ Downgraded \in BOOLEAN

ASSUME BoundsAssumption == MaxEvents \in Nat /\ MaxDecisions \in Nat /\ MaxDeaths \in Nat

AUTONOMY_STAGES == <<"plan", "execute", "review">>
Stage == {"plan", "execute", "review"}

VARIABLES
  status,  \* the task's status column
  log,     \* the task's project events, oldest first
  ripe,    \* positions of the scheduled retries whose time has come
  pc,      \* where each worker is in its pass
  ctx,     \* what each worker remembers of its pass (AutonomyStageContext)
  deaths   \* passes that never came back

vars == <<status, log, ripe, pc, ctx, deaths>>

-----------------------------------------------------------------------------
(* Events. ok: approved, passed, or approval required; sig: category and reason. *)

NoSig == <<"none", "none">>

Event(kind, stage, cycle) ==
  [kind |-> kind, stage |-> stage, cycle |-> cycle, ok |-> FALSE, sig |-> NoSig]

Flagged(kind, stage, cycle, ok) == [Event(kind, stage, cycle) EXCEPT !.ok = ok]
Signed(kind, stage, cycle, sig) == [Event(kind, stage, cycle) EXCEPT !.sig = sig]

NoCtx == [stage |-> "none", cycle |-> 1, required |-> FALSE, passed |-> FALSE,
          seen |-> {}, now |-> {}, sig |-> NoSig]

\* What list_project_events returns: the positions of the last Window events.
Recent == {i \in DOMAIN log : i > Len(log) - Window}

Where(V, kind) == {i \in V : log[i].kind = kind}
Of(V, kind, stage, cycle) ==
  {i \in Where(V, kind) : log[i].stage = stage /\ log[i].cycle = cycle}

-----------------------------------------------------------------------------
(* AutonomyTaskGate: questions put to the events a pass has read. *)

current_cycle_Oldest(V) ==
  LET C == Where(V, "cycle.started") IN IF C = {} THEN 1 ELSE log[Min(C)].cycle

current_cycle(V) ==
  LET C == Where(V, "cycle.started") IN IF C = {} THEN 1 ELSE log[Max(C)].cycle

total_step_events_FailedOnly(V) == Cardinality(Where(V, "stage.failed"))

total_step_events(V) ==
  Cardinality(Where(V, "stage.completed") \union Where(V, "stage.failed"))

completed_stages_AnyCycle(V, cycle) == {log[i].stage : i \in Where(V, "stage.completed")}

completed_stages(V, cycle) ==
  {log[i].stage : i \in {j \in Where(V, "stage.completed") : log[j].cycle = cycle}}

next_stage(V, cycle) ==
  LET left == {n \in DOMAIN AUTONOMY_STAGES :
                 AUTONOMY_STAGES[n] \notin completed_stages(V, cycle)}
  IN  IF left = {} THEN "none" ELSE AUTONOMY_STAGES[Min(left)]

requires_approval(V) ==
  LET P == Where(V, "preferences") IN P # {} /\ log[Max(P)].ok

approval_gate_state_AtReview(V, stage, required) ==
  IF ~required \/ stage # "review" \/ Where(V, "approval") # {} THEN "approved" ELSE "awaiting"

approval_gate_state(V, stage, required) ==
  LET A == Where(V, "approval")
  IN  IF ~required \/ stage # "execute" THEN "not_required"
      ELSE IF A = {} THEN "awaiting"
      ELSE IF log[Max(A)].ok THEN "approved" ELSE "rejected"

retry_waits_Never(V, stage, cycle, now) == FALSE

retry_waits(V, stage, cycle, now) ==
  LET R == Of(V, "retry.scheduled", stage, cycle) IN R # {} /\ Max(R) \notin now

stage_inflight_UntilCompleted(V, stage, cycle) ==
  /\ Of(V, "stage.started", stage, cycle) # {}
  /\ Of(V, "stage.completed", stage, cycle) = {}

stage_inflight(V, stage, cycle) ==
  LET started  == Of(V, "stage.started", stage, cycle)
      terminal == Of(V, "stage.completed", stage, cycle)
                    \union Of(V, "stage.failed", stage, cycle)
  IN  started # {} /\ (terminal = {} \/ Max(terminal) < Max(started))

failed_attempts(V, stage, cycle) == Cardinality(Of(V, "stage.failed", stage, cycle))

\* How many of the last events of a kind repeat this stage and signature.
repeats(V, kind, stage, sig) ==
  LET K == Where(V, kind)
  IN  Cardinality({i \in K : \A j \in K : j >= i => log[j].stage = stage /\ log[j].sig = sig})

low_information(V, kind, stage, sig) == repeats(V, kind, stage, sig) >= LowInfoThreshold - 1

-----------------------------------------------------------------------------
(* AutonomyFailureHandler *)

\* The causes after which the run services leave a failure event behind.
Diagnosed == {"provider_failure", "verification_failure", "environment_failure"}

\* Only an execute stage can run in the workspace, where these arise.
RaisedIn(stage) ==
  IF stage = "execute" THEN Causes ELSE Causes \intersect {"provider_failure", "stage_failure"}

\* The latest failure event in view names the category, whichever stage left it.
classify_failure(V, own) ==
  LET D == Where(V, "diagnosis") IN IF D = {} THEN own ELSE log[Max(D)].sig

retry_allowed(sig) == sig[1] \in {"provider_failure", "stage_failure"}
should_replan(sig) == sig[1] = "verification_failure"

-----------------------------------------------------------------------------
(* Steps of a pass *)

Goto(w, label) == pc' = [pc EXCEPT ![w] = label]
Return(w) == Goto(w, "idle") /\ ctx' = [ctx EXCEPT ![w] = NoCtx]
Record(e) == log' = Append(log, e)
RecordBoth(d, e) == log' = Append(Append(log, d), e)
Block(e) == status' = "blocked" /\ Record(e)

MyEvent(w, kind) == Event(kind, ctx[w].stage, ctx[w].cycle)
CycleStarted(cycle) == Event("cycle.started", "none", cycle)

last_cycle_OffByOne(w) == ctx[w].cycle > MaxCycles
last_cycle(w) == ctx[w].cycle >= MaxCycles

Init ==
  /\ status = "new"
  /\ log = IF NeedsApproval \/ Downgraded
           THEN <<Flagged("preferences", "none", 1, NeedsApproval)>> ELSE <<>>
  /\ ripe = {}
  /\ pc = [w \in Workers |-> "idle"]
  /\ ctx = [w \in Workers |-> NoCtx]
  /\ deaths = 0

\* process_task up to the step budget: status, events, mode, approval, clock.
Pick(w) ==
  /\ pc[w] = "idle"
  /\ status \in {"new", "in_progress"}
  /\ Len(log) < MaxEvents
  /\ ctx' = [ctx EXCEPT ![w] = [NoCtx EXCEPT !.required = requires_approval(Recent),
                                             !.seen = Recent, !.now = ripe]]
  /\ log' = IF Downgraded /\ Where(Recent, "preferences") # {}
            THEN Append(log, Event("mode.adjusted", "none", 1)) ELSE log
  /\ Goto(w, IF total_step_events(Recent) >= MaxTotalSteps THEN "overspent" ELSE "picked")
  /\ UNCHANGED <<status, ripe, deaths>>

Overspend(w) ==
  /\ pc[w] = "overspent"
  /\ Block(Event("failed", "none", 1))
  /\ Return(w)
  /\ UNCHANGED <<ripe, deaths>>

\* The status is written unconditionally, then _bootstrap_if_needed.
Admit(w) ==
  /\ pc[w] = "picked"
  /\ status' = "in_progress"
  /\ IF Where(ctx[w].seen, "started") # {}
     THEN /\ ctx' = [ctx EXCEPT ![w].cycle = current_cycle(ctx[w].seen)]
          /\ UNCHANGED log
     ELSE /\ ctx' = [ctx EXCEPT ![w].cycle = 1]
          /\ RecordBoth(Event("started", "none", 1), CycleStarted(1))
  /\ Goto(w, "admitted")
  /\ UNCHANGED <<ripe, deaths>>

\* The gates of process_task, in the order of its early returns.
verdict(V, stage, cycle, required, now) ==
  LET approval == approval_gate_state(V, stage, required)
  IN  IF stage = "none" THEN "finalizing"
      ELSE IF approval = "awaiting" THEN "unapproved"
      ELSE IF approval = "rejected" THEN "rejected"
      ELSE IF retry_waits(V, stage, cycle, now) THEN "idle"
      ELSE IF stage = "execute" /\ Where(V, "execute_plan.created") = {} THEN "unplanned"
      ELSE IF stage_inflight(V, stage, cycle) THEN "idle"
      ELSE "cleared"

Gate(w) ==
  /\ pc[w] = "admitted"
  /\ LET stage == next_stage(Recent, ctx[w].cycle)
         label == verdict(Recent, stage, ctx[w].cycle, ctx[w].required, ctx[w].now)
     IN  IF label = "idle" THEN Return(w)
         ELSE /\ ctx' = [ctx EXCEPT ![w].stage = stage, ![w].seen = Recent]
              /\ Goto(w, label)
  /\ UNCHANGED <<status, log, ripe, deaths>>

RequestApproval(w) ==
  /\ pc[w] = "unapproved"
  /\ IF Where(ctx[w].seen, "approval.requested") = {}
     THEN Record(Event("approval.requested", "execute", 1)) ELSE UNCHANGED log
  /\ Return(w)
  /\ UNCHANGED <<status, ripe, deaths>>

RefuseTask(w) ==
  /\ pc[w] = "rejected"
  /\ Block(MyEvent(w, "failed"))
  /\ Return(w)
  /\ UNCHANGED <<ripe, deaths>>

\* _execute_plan_gate without a plan: replan, or block in the last cycle.
DeferForPlan(w) ==
  /\ pc[w] = "unplanned"
  /\ IF last_cycle(w)
     THEN Block(MyEvent(w, "missing_plan"))
     ELSE /\ RecordBoth(MyEvent(w, "execute_plan.missing"), CycleStarted(ctx[w].cycle + 1))
          /\ UNCHANGED status
  /\ Return(w)
  /\ UNCHANGED <<ripe, deaths>>

StartStage(w) ==
  /\ pc[w] = "cleared"
  /\ Record(MyEvent(w, "stage.started"))
  /\ Goto(w, "running")
  /\ UNCHANGED <<status, ripe, ctx, deaths>>

\* The agent run returns; its completion is recorded before its output is judged.
StageReturns(w) ==
  /\ pc[w] = "running"
  /\ \E passed \in BOOLEAN, reason \in Reasons :
       /\ Record([MyEvent(w, "stage.completed") EXCEPT !.ok = passed])
       /\ ctx' = [ctx EXCEPT ![w].passed = passed,
                             ![w].sig = IF passed THEN NoSig ELSE <<"quality", reason>>]
  /\ Goto(w, "assessing")
  /\ UNCHANGED <<status, ripe, deaths>>

StageRaises(w) ==
  /\ pc[w] = "running"
  /\ \E cause \in RaisedIn(ctx[w].stage), reason \in Reasons :
       /\ IF cause \in Diagnosed
          THEN Record(Signed("diagnosis", "none", 1, <<cause, reason>>)) ELSE UNCHANGED log
       /\ ctx' = [ctx EXCEPT ![w].sig = <<cause, reason>>]
  /\ Goto(w, "failing")
  /\ UNCHANGED <<status, ripe, deaths>>

after_failure_ExtraRetry(w, sig) ==
  IF retry_allowed(sig)
       /\ failed_attempts(ctx[w].seen, ctx[w].stage, ctx[w].cycle) <= MaxRetries
  THEN "retrying" ELSE "giving_up"

\* What follows a recorded failure; attempts are counted on the events read at the gate.
after_failure(w, sig) ==
  IF retry_allowed(sig)
       /\ failed_attempts(ctx[w].seen, ctx[w].stage, ctx[w].cycle) + 1 <= MaxRetries
  THEN "retrying"
  ELSE IF should_replan(sig) /\ ~last_cycle(w) THEN "replanning" ELSE "giving_up"

RecordFailure(w) ==
  /\ pc[w] = "failing"
  /\ LET sig == classify_failure(Recent, ctx[w].sig)
     IN  IF low_information(Recent, "stage.failed", ctx[w].stage, sig)
         THEN Block(MyEvent(w, "low_information_gain")) /\ Return(w)
         ELSE /\ Record([MyEvent(w, "stage.failed") EXCEPT !.sig = sig])
              /\ Goto(w, after_failure(w, sig))
              /\ UNCHANGED <<status, ctx>>
  /\ UNCHANGED <<ripe, deaths>>

ScheduleRetry(w) ==
  /\ pc[w] = "retrying"
  /\ Record(MyEvent(w, "retry.scheduled"))
  /\ Return(w)
  /\ UNCHANGED <<status, ripe, deaths>>

Replan(w) ==
  /\ pc[w] = "replanning"
  /\ Record(CycleStarted(ctx[w].cycle + 1))
  /\ Return(w)
  /\ UNCHANGED <<status, ripe, deaths>>

GiveUp(w) ==
  /\ pc[w] = "giving_up"
  /\ Block(MyEvent(w, "failed"))
  /\ Return(w)
  /\ UNCHANGED <<ripe, deaths>>

\* handle_quality_outcome when the gate did not pass.
FailQuality(w) ==
  /\ pc[w] = "assessing"
  /\ ~ctx[w].passed
  /\ IF low_information(Recent, "quality.failed", ctx[w].stage, ctx[w].sig)
     THEN Block(MyEvent(w, "low_information_gain"))
     ELSE IF last_cycle(w)
     THEN Block(MyEvent(w, "failed"))
     ELSE /\ RecordBoth([MyEvent(w, "quality.failed") EXCEPT !.sig = ctx[w].sig],
                        CycleStarted(ctx[w].cycle + 1))
          /\ UNCHANGED status
  /\ Return(w)
  /\ UNCHANGED <<ripe, deaths>>

planned_in(V, cycle) ==
  LET P == Where(V, "execute_plan.created") IN P # {} /\ log[Max(P)].cycle = cycle

\* handle_stage_success; a plan leaves its execute plan, once per cycle.
PassStage(w) ==
  /\ pc[w] = "assessing"
  /\ ctx[w].passed
  /\ ctx[w].stage # "review"
  /\ IF ctx[w].stage = "plan" /\ ~planned_in(Recent, ctx[w].cycle)
     THEN Record(MyEvent(w, "execute_plan.created")) ELSE UNCHANGED log
  /\ Return(w)
  /\ UNCHANGED <<status, ripe, deaths>>

PassReview_Unjudged(w) ==
  /\ pc[w] = "assessing"
  /\ ctx[w].stage = "review"
  /\ Goto(w, "finalizing")
  /\ UNCHANGED <<status, log, ripe, ctx, deaths>>

\* handle_review_outcome; a review that passed its quality gate holds the keyword.
PassReview(w) ==
  /\ pc[w] = "assessing"
  /\ ctx[w].passed
  /\ ctx[w].stage = "review"
  /\ Goto(w, "finalizing")
  /\ UNCHANGED <<status, log, ripe, ctx, deaths>>

\* finalize_task, whatever the status has become meanwhile.
Finalize(w) ==
  /\ pc[w] = "finalizing"
  /\ status' = "completed"
  /\ IF Where(Recent, "completed") = {} THEN Record(Event("completed", "none", 1))
     ELSE UNCHANGED log
  /\ Return(w)
  /\ UNCHANGED <<ripe, deaths>>

\* The pass ends without another write: process restart, or an exception that
\* process_task does not catch.
Die(w) ==
  /\ pc[w] # "idle"
  /\ deaths < MaxDeaths
  /\ deaths' = deaths + 1
  /\ Return(w)
  /\ UNCHANGED <<status, log, ripe>>

\* set_approval, at any time.
Decide(approved) ==
  /\ Cardinality(Where(DOMAIN log, "approval")) < MaxDecisions
  /\ IF approved
     THEN Record(Flagged("approval", "none", 1, TRUE)) /\ UNCHANGED status
     ELSE /\ status' = "blocked"
          /\ RecordBoth(Flagged("approval", "none", 1, FALSE), Event("failed", "none", 1))
  /\ UNCHANGED <<ripe, pc, ctx, deaths>>

\* The clock reaches the epoch of a scheduled retry.
RetryComesDue ==
  /\ \E i \in Where(DOMAIN log, "retry.scheduled") \ ripe : ripe' = ripe \union {i}
  /\ UNCHANGED <<status, log, pc, ctx, deaths>>

Step(w) ==
  \/ Pick(w) \/ Overspend(w) \/ Admit(w) \/ Gate(w)
  \/ RequestApproval(w) \/ RefuseTask(w) \/ DeferForPlan(w)
  \/ StartStage(w) \/ StageReturns(w) \/ StageRaises(w)
  \/ RecordFailure(w) \/ ScheduleRetry(w) \/ Replan(w) \/ GiveUp(w)
  \/ FailQuality(w) \/ PassStage(w) \/ PassReview(w) \/ Finalize(w)

Next ==
  \/ \E w \in Workers : Step(w) \/ Die(w)
  \/ \E approved \in BOOLEAN : Decide(approved)
  \/ RetryComesDue

Spec == Init /\ [][Next]_vars

\* The background loop polls for ever and clocks advance; operators owe nothing.
Fairness == WF_vars(RetryComesDue) /\ \A w \in Workers : WF_vars(Step(w))
FairSpec == Spec /\ Fairness

-----------------------------------------------------------------------------
(* Properties *)

Signature == (Causes \union {"quality", "none"}) \X (Reasons \union {"none"})

EventKind ==
  {"preferences", "mode.adjusted", "started", "cycle.started", "stage.started",
   "stage.completed", "stage.failed", "retry.scheduled", "approval.requested", "approval",
   "execute_plan.created", "execute_plan.missing", "missing_plan", "quality.failed",
   "diagnosis", "low_information_gain", "failed", "completed"}

EventType == [kind : EventKind, stage : Stage \union {"none"}, cycle : 1..MaxCycles,
              ok : BOOLEAN, sig : Signature]

CtxType == [stage : Stage \union {"none"}, cycle : 1..MaxCycles, required : BOOLEAN,
            passed : BOOLEAN, seen : SUBSET (DOMAIN log), now : SUBSET (DOMAIN log),
            sig : Signature]

Label == {"idle", "overspent", "picked", "admitted", "unapproved", "rejected", "unplanned",
          "cleared", "running", "assessing", "failing", "retrying", "replanning",
          "giving_up", "finalizing"}

\* Every variable has its type. Since an event's cycle lies in 1..MaxCycles, this
\* also says that no write, however stale the pass, opens a cycle past the limit
\* (autonomy_max_cycles).
TypeOK ==
  /\ status \in {"new", "in_progress", "blocked", "completed"}
  /\ log \in Seq(EventType)
  /\ ripe \subseteq DOMAIN log
  /\ pc \in [Workers -> Label]
  /\ ctx \in [Workers -> CtxType]
  /\ deaths \in Nat

\* A stage starts in a cycle only after every earlier stage was recorded complete
\* in that same cycle: next_stage holds against stale passes and restarts.
StagesInOrder ==
  \A i \in Where(DOMAIN log, "stage.started") :
    \A m, n \in DOMAIN AUTONOMY_STAGES :
      n < m /\ log[i].stage = AUTONOMY_STAGES[m] =>
        \E j \in Of(DOMAIN log, "stage.completed", AUTONOMY_STAGES[n], log[i].cycle) : j < i

\* As long as the log fits the read window, a task whose preferences ask for
\* approval starts execute only after an operator approved it
\* (approval_gate_state), whatever workers race and die.
ApprovalBeforeExecute ==
  NeedsApproval =>
    \A i \in Where(DOMAIN log, "stage.started") :
      log[i].stage = "execute" /\ i <= Window =>
        \E j \in Where(DOMAIN log, "approval") : j < i /\ log[j].ok

\* The same promise with no condition on the length of the log.
ApprovalAlways ==
  NeedsApproval =>
    \A i \in Where(DOMAIN log, "stage.started") :
      log[i].stage = "execute" =>
        \E j \in Where(DOMAIN log, "approval") : j < i /\ log[j].ok

\* A task ends completed only if, in one cycle, every stage was recorded complete
\* with output that passed its gate, the review's keyword included
\* (handle_quality_outcome and handle_review_outcome before finalize_task).
CompletedPassedEveryGate ==
  status = "completed" =>
    \E c \in 1..MaxCycles : \A s \in Stage :
      \E i \in Of(DOMAIN log, "stage.completed", s, c) : log[i].ok

\* autonomy_max_total_steps caps the stages ever started, not only those the log
\* records as ended.
AttemptsWithinCap == Cardinality(Where(DOMAIN log, "stage.started")) <= MaxTotalSteps

\* When passes race, the recorded steps overshoot the budget by less than one step
\* per further worker: each pass reads the budget once and records one step.
StepsWithinCapPerWorker ==
  Cardinality({i \in DOMAIN log : log[i].kind \in {"stage.completed", "stage.failed"}})
    < MaxTotalSteps + Cardinality(Workers)

\* A stage fails at most MaxRetries + 1 times in a cycle before the engine retries
\* no more (attempts are counted on events read before the stage ran).
FailuresWithinRetries ==
  \A s \in Stage, c \in 1..MaxCycles :
    Cardinality(Of(DOMAIN log, "stage.failed", s, c)) <= MaxRetries + 1

\* Cycles only move forward: no pass reopens a cycle or opens one twice.
CyclesAdvance ==
  \A i, j \in Where(DOMAIN log, "cycle.started") : i < j => log[i].cycle < log[j].cycle

\* No stage starts again before the last retry scheduled for it has come due, though
\* the clock is read at the start of the pass and the retry looked up later.
NoEarlyRetry ==
  [][\A w \in Workers : StartStage(w) =>
       LET R == Of(DOMAIN log, "retry.scheduled", ctx[w].stage, ctx[w].cycle)
       IN  R = {} \/ Max(R) \in ripe]_vars

\* A task whose latest operator decision is a rejection is never completed.
RejectedNeverCompletes ==
  [][LET A == Where(DOMAIN log, "approval")
     IN  A # {} /\ ~log[Max(A)].ok /\ status # "completed" => status' # "completed"]_vars

Finished == status \in {"completed", "blocked"}

AwaitingApproval ==
  NeedsApproval /\ Where(DOMAIN log, "approval") = {}
    /\ "plan" \in completed_stages(DOMAIN log, current_cycle(DOMAIN log))

\* The engine takes every task to an end, or to the operator, and leaves it there.
Settles == <>[](Finished \/ AwaitingApproval)

=============================================================================
