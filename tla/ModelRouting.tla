----------------------------- MODULE ModelRouting -----------------------------
(***************************************************************************)
(* Which provider and model a stage of the engine runs on: preferences     *)
(* kept as events and changed by TaskModelPolicyService, the choice of     *)
(* AutonomyRuntimeSelector, and the budget of provider switches that       *)
(* AutonomyStageProcessor holds it to.                                     *)
(***************************************************************************)
EXTENDS Providers

CONSTANTS
  PolicyUpdates,  \* what update_model_policy may be asked: preferences to values
  Switches,       \* what switch_model may be asked: provider and model
  FailureWindow,  \* events searched for failures (30 in the code)
  MaxProviderSwitches, \* autonomy_max_provider_switches (2)
  MaxRuns,        \* bound: stages started
  MaxChanges,     \* bound: requests of the client
  MaxCrashes      \* bound: ends of the process

\* No field of an update is kept as the budget.  With some 120 failures in the window a
\* provider would score as low as one that misses a limit (provider_score).
ASSUME RoutingAssumption ==
  /\ MaxProviderSwitches \in Nat /\ FailureWindow \in Nat \ {0} /\ FailureWindow <= 100
  /\ \A update \in PolicyUpdates : "autonomy_max_provider_switches" \notin DOMAIN update

VARIABLES
  setting,  \* the providers configured and the default, the task and what its workspace learned
  log,      \* events of the task that routing reads
  router,   \* the stage at work: what it read and chose
  client,   \* the request for another policy or model
  moves,    \* stages that completed on another provider than the one before
  runs, changes, crashes

routing_vars == <<setting, log, router, client, moves, runs, changes, crashes>>

-----------------------------------------------------------------------------
(* Preferences *)

None == ""
\* dict.update.
merged(prefs, update) ==
  [key \in DOMAIN prefs \cup DOMAIN update |-> IF key \in DOMAIN update THEN update[key] ELSE prefs[key]]
pref(prefs, key, default) == IF key \in DOMAIN prefs /\ prefs[key] # None THEN prefs[key] ELSE default
provider_key == [plan |-> "preferred_provider_plan", execute |-> "preferred_provider_execute",
                 review |-> "preferred_provider_review"]
model_key == [plan |-> "preferred_model_plan", execute |-> "preferred_model_execute",
              review |-> "preferred_model_review"]

positions(events, types) == {n \in DOMAIN events : events[n].type \in types}

\* Of each key that some event gives, the value that the latest of them gives it.
load_preferences(events) ==
  LET kept == positions(events, {"task.preferences"})
  IN  [key \in UNION {DOMAIN events[n].prefs : n \in kept} |->
         events[Max({n \in kept : key \in DOMAIN events[n].prefs})].prefs[key]]

model_policy(prefs) ==
  [goal |-> pref(prefs, "model_optimization_goal", "balanced"),
   switching |-> pref(prefs, "allow_cross_provider_switching", "true") # "false",
   continuity |-> pref(prefs, "maintain_context_continuity", "true") # "false",
   reviewer |-> pref(prefs, "prefer_reviewer_provider", "true") # "false",
   context |-> IF "minimum_context_window" \in DOMAIN prefs THEN prefs["minimum_context_window"] ELSE 0,
   latency |-> pref(prefs, "max_latency_tier", None),
   cost |-> pref(prefs, "max_cost_tier", None)]

resolve_provider_switch_budget(prefs) ==
  IF "autonomy_max_provider_switches" \in DOMAIN prefs THEN prefs["autonomy_max_provider_switches"]
  ELSE MaxProviderSwitches

switch_count(events) == Cardinality(positions(events, {"model.switch.completed"}))
effective_prefs_OneMore(events, prefs) ==
  IF switch_count(events) > resolve_provider_switch_budget(prefs)
  THEN merged(prefs, [allow_cross_provider_switching |-> "false"]) ELSE prefs
\* Switching ends when the budget is spent.
effective_prefs(events, prefs) ==
  IF switch_count(events) >= resolve_provider_switch_budget(prefs)
  THEN merged(prefs, [allow_cross_provider_switching |-> "false"]) ELSE prefs

-----------------------------------------------------------------------------
(* The choice *)

\* The providers are listed by name.
first_of(providers) == by_name[Min({n \in DOMAIN by_name : by_name[n] \in providers})]

\* A run or a switch, whichever is the latest.
latest_run_provider_model ==
  LET past == positions(log, {"run.completed", "model.switch.completed"})
  IN  IF past = {} THEN [provider |-> None, model |-> None]
      ELSE [provider |-> log[Max(past)].provider, model |-> log[Max(past)].model]

recent_provider_failures(provider) ==
  Cardinality({n \in positions(log, {"run.failed"}) : n > Len(log) - FailureWindow /\ log[n].provider = provider})

\* After two failures, the first provider without one, if there is any.
failure_aware_provider_choice(preferred) ==
  LET others == {p \in setting.configured \ {preferred} : recent_provider_failures(p) = 0}
  IN  IF recent_provider_failures(preferred) >= 2 /\ others # {} THEN first_of(others) ELSE preferred

latency_floor == [slow |-> 1, balanced |-> 2, fast |-> 3]
cost_ceiling == [low |-> 2, medium |-> 3, high |-> 5]
fits_context(policy, row) == row.context >= policy.context
fits_latency(policy, row) ==
  policy.latency \in DOMAIN latency_floor => row.speed >= latency_floor[policy.latency]
fits_cost(policy, row) ==
  policy.cost \in DOMAIN cost_ceiling => row.cost <= cost_ceiling[policy.cost]

affinity ==
  [plan    |-> [openai |-> 12, gemini |-> 8, anthropic |-> 6],
   execute |-> [openai |-> 14, anthropic |-> 8, gemini |-> 6],
   review  |-> [anthropic |-> 16, openai |-> 8, gemini |-> 6]]

When(condition, points) == IF condition THEN points ELSE 0

\* In thousandths.
goal_points(goal, row) ==
  CASE goal = "quality" -> row.quality * 14000
    [] goal = "speed" -> row.speed * 14000
    [] goal = "cost" -> (6 - row.cost) * 14000
    [] goal = "context" -> row.context \div 10
    [] OTHER -> row.quality * 6000 + row.speed * 4000 + (6 - row.cost) * 3000
                  + Min({row.context, 256000}) \div 64

provider_score_Deducted(stage, provider, policy, previous) ==
  LET row == capabilities[provider] IN
  goal_points(policy.goal, row) - When(~fits_cost(policy, row), 5000) - When(~fits_latency(policy, row), 5000)
\* A limit that is not met outweighs everything else.
provider_score(stage, provider, policy, previous) ==
  LET row == capabilities[provider] IN
  IF ~fits_context(policy, row) THEN -10000000
  ELSE IF ~fits_latency(policy, row) \/ ~fits_cost(policy, row) THEN -5000000
  ELSE goal_points(policy.goal, row)
    + When(previous = provider /\ policy.continuity, 40000)
    - When(previous \notin {None, provider} /\ ~policy.switching, 200000)
    + When(provider = setting.learned.provider, 24000)
    + When(setting.complexity = "high", row.quality * 6000)
    + When(setting.complexity = "low", row.speed * 4000)
    + When(setting.research, row.context \div 100)
    + When(stage = "review" /\ policy.reviewer /\ provider = "anthropic", 35000)
    + (IF provider \in DOMAIN affinity[stage] THEN affinity[stage][provider] * 1000 ELSE 0)
    - 40000 * recent_provider_failures(provider)

\* The first of the best, in the order of the names.
best_scored(stage, policy, previous) ==
  LET score(p) == provider_score(stage, p, policy, previous)
  IN  first_of({p \in setting.configured : \A q \in setting.configured : score(q) <= score(p)})

\* The provider asked for by name, for the stage before the task.
preferred_by_name(stage, prefs) ==
  LET for_stage == pref(prefs, provider_key[stage], None)
      for_task == pref(prefs, "preferred_provider", None) IN
  [asked |-> for_stage # None \/ for_task # None,
   provider |-> IF for_stage \in setting.configured THEN for_stage
                ELSE IF for_task \in setting.configured THEN for_task ELSE None]

resolve_provider(stage, prefs, previous) ==
  LET policy == model_policy(prefs)
      preferred == preferred_by_name(stage, prefs) IN
  CASE ~policy.switching /\ previous \in setting.configured -> previous
    [] ~(~policy.switching /\ previous \in setting.configured) /\ preferred.provider # None ->
         failure_aware_provider_choice(preferred.provider)
    [] OTHER ->
         IF setting.default \notin setting.configured /\ ~preferred.asked THEN setting.default
         ELSE IF setting.default = "local_echo" THEN "local_echo"
         ELSE best_scored(stage, policy, previous)

resolve_model(stage, provider, prefs) ==
  LET asked == <<pref(prefs, model_key[stage], None), pref(prefs, "preferred_model", None),
                 setting.learned.model>>
      named == SelectSeq(asked, LAMBDA m : m # None) IN
  IF named # <<>> THEN Head(named)
  ELSE IF "local_echo" \in {provider, setting.default} THEN "local_echo"
  ELSE IF provider \in setting.configured THEN capabilities[provider].model_hint
  ELSE capabilities[setting.default].model_hint

-----------------------------------------------------------------------------
(* A stage *)

AtRest == [pc |-> "idle"]
Preferences(prefs) == [type |-> "task.preferences", prefs |-> prefs]
RunEvent(type, provider, model) == [type |-> type, provider |-> provider, model |-> model]
SwitchEvent(from, provider, model, status) ==
  [type |-> "model.switch.completed", from |-> from, provider |-> provider, model |-> model,
   continuity_status |-> status]

RoutingInit(settings_of_task) ==
  /\ setting \in settings_of_task
  /\ log = IF DOMAIN setting.prefs = {} THEN <<>> ELSE <<Preferences(setting.prefs)>>
  /\ router = AtRest /\ client = AtRest
  /\ moves = 0 /\ runs = 0 /\ changes = 0 /\ crashes = 0

\* The worker reads the preferences of the task ...
ReadTask ==
  /\ router.pc = "idle" /\ runs < MaxRuns
  /\ router' = [pc |-> "read", prefs |-> load_preferences(log)]
  /\ runs' = runs + 1
  /\ UNCHANGED <<setting, log, client, moves, changes, crashes>>
\* ... then its events again, for the switches among them ...
CountSwitches ==
  /\ router.pc = "read"
  /\ router' = [pc |-> "counted", prefs |-> effective_prefs(log, router.prefs)]
  /\ UNCHANGED <<setting, log, client, moves, runs, changes, crashes>>

\* ... and in the end the provider of the latest run, and the failures.
ChooseProvider ==
  LET past == latest_run_provider_model IN
  /\ router.pc = "counted"
  /\ \E stage \in DOMAIN affinity :
       LET provider == resolve_provider(stage, router.prefs, past.provider) IN
       router' = [pc |-> "running", stage |-> stage, prefs |-> router.prefs, past |-> past,
                  provider |-> provider, model |-> resolve_model(stage, provider, router.prefs)]
  /\ UNCHANGED <<setting, log, client, moves, runs, changes, crashes>>

\* The run is asked for by the provider's name, so it completes on no other.
StageRunCompletes ==
  /\ router.pc = "running" /\ router.provider \in setting.configured
  /\ log' = Append(log, RunEvent("run.completed", router.provider, router.model))
  /\ moves' = IF router.past.provider = router.provider THEN moves ELSE moves + 1
  /\ router' = [router EXCEPT !.pc = "completed"]
  /\ UNCHANGED <<setting, client, runs, changes, crashes>>
StageRunFails ==
  /\ router.pc = "running"
  /\ log' = Append(log, RunEvent("run.failed", router.provider, router.model))
  /\ router' = AtRest
  /\ UNCHANGED <<setting, client, moves, runs, changes, crashes>>

\* The switch is recorded when the run is over, against what was read before it.
record_model_switch_if_needed ==
  LET past == router.past
      kept == model_policy(router.prefs).continuity
      status == IF past.provider \in {None, router.provider}
                THEN IF kept THEN "preserved" ELSE "best_effort"
                ELSE IF kept THEN "cross_provider_preserved" ELSE "cross_provider_best_effort" IN
  /\ router.pc = "completed"
  /\ log' = IF past.provider = router.provider /\ past.model = router.model THEN log
            ELSE Append(log, SwitchEvent(past.provider, router.provider, router.model, status))
  /\ router' = AtRest
  /\ UNCHANGED <<setting, client, moves, runs, changes, crashes>>

-----------------------------------------------------------------------------
(* A client *)

\* A provider that is named must be configured, a model must suit it; an update may name none,
\* which clears the preference.
provider_keys == {"preferred_provider"} \cup Range(<<provider_key.plan, provider_key.execute, provider_key.review>>)
valid_update(update) ==
  \A key \in DOMAIN update \cap provider_keys : update[key] \in setting.configured \cup {None}
valid_switch(switch) ==
  /\ switch.provider \in setting.configured
  /\ switch.provider \in {"local_echo", "openai", "anthropic", "gemini"} =>
       switch.model = capabilities[switch.provider].model_hint

\* Either request reads the preferences and keeps them, with the change, in full.
RequestUpdate ==
  /\ client.pc = "idle" /\ changes < MaxChanges
  /\ \E update \in PolicyUpdates :
       /\ valid_update(update)
       /\ client' = [pc |-> "updating", prefs |-> merged(load_preferences(log), update)]
  /\ changes' = changes + 1
  /\ UNCHANGED <<setting, log, router, moves, runs, crashes>>
update_model_policy ==
  /\ client.pc = "updating"
  /\ log' = Append(log, Preferences(client.prefs))
  /\ client' = AtRest
  /\ UNCHANGED <<setting, router, moves, runs, changes, crashes>>

RequestSwitch ==
  /\ client.pc = "idle" /\ changes < MaxChanges
  /\ \E switch \in Switches :
       /\ valid_switch(switch)
       /\ client' = [pc |-> "switching", before |-> load_preferences(log), switch |-> switch]
  /\ changes' = changes + 1
  /\ UNCHANGED <<setting, log, router, moves, runs, crashes>>
\* The preferences are kept before the context is assembled, the switch is recorded after.
switch_model ==
  /\ client.pc = "switching"
  /\ log' = Append(log, Preferences(merged(client.before, [preferred_provider |-> client.switch.provider,
                                                           preferred_model |-> client.switch.model])))
  /\ client' = [client EXCEPT !.pc = "switched"]
  /\ UNCHANGED <<setting, router, moves, runs, changes, crashes>>
continuity_status(before, switch) ==
  LET provider == pref(before, "preferred_provider", None)
      model == pref(before, "preferred_model", None) IN
  IF provider = None /\ model = None THEN "initialized"
  ELSE IF provider # switch.provider THEN "cross_provider_switched"
  ELSE IF model = switch.model THEN "unchanged" ELSE "model_switched"
RecordSwitch ==
  /\ client.pc = "switched"
  /\ log' = Append(log, SwitchEvent(pref(client.before, "preferred_provider", None), client.switch.provider,
                                    client.switch.model, continuity_status(client.before, client.switch)))
  /\ client' = AtRest
  /\ UNCHANGED <<setting, router, moves, runs, changes, crashes>>

Crash ==
  /\ crashes < MaxCrashes
  /\ crashes' = crashes + 1
  /\ router' = AtRest /\ client' = AtRest
  /\ UNCHANGED <<setting, log, moves, runs, changes>>

RoutingNext ==
  \/ ReadTask \/ CountSwitches \/ ChooseProvider \/ StageRunCompletes \/ StageRunFails \/ record_model_switch_if_needed
  \/ RequestUpdate \/ update_model_policy \/ RequestSwitch \/ switch_model \/ RecordSwitch
  \/ Crash

-----------------------------------------------------------------------------
(* Properties *)

\* The stages of a task move to another provider no more often than the budget allows, the
\* first choice counted, but for a move that a crash keeps from being recorded; whatever
\* fails, and whatever a client asks for meanwhile (_effective_prefs, resolve_provider).
SwitchesWithinBudget ==
  moves <= Max({1, resolve_provider_switch_budget(setting.prefs)}) + crashes

fits_limits(policy, row) == fits_context(policy, row) /\ fits_latency(policy, row) /\ fits_cost(policy, row)

\* A provider chosen by its score meets the limits of the policy on context, latency and
\* cost whenever one that is configured does; failures, continuity and what was learned
\* never outweigh them (provider_score).
ChoiceWithinLimits ==
  router.pc = "running" =>
    LET policy == model_policy(router.prefs)
        met_by(p) == fits_limits(policy, capabilities[p]) IN
    \/ \A p \in setting.configured : ~met_by(p)
    \/ met_by(router.provider)
    \/ preferred_by_name(router.stage, router.prefs).provider # None
    \/ setting.default \notin setting.configured \ {"local_echo"}
    \/ ~policy.switching /\ router.provider = router.past.provider
=============================================================================
