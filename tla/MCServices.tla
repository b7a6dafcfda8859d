----------------------------- MODULE MCServices -----------------------------
(* The services around the engine, one of them in each behaviour, on small instances. *)
EXTENDS ContextAssembly, SqliteRecords, ProviderCall, ModelRouting

CONSTANTS a1, a2

VARIABLE component  \* which service the behaviour is about; the others stay as they start

vars == <<component, context_vars, records_vars, provider_vars, routing_vars>>

-----------------------------------------------------------------------------
(* Context assembly *)

\* Two logs of one type that differ in their text alone, and an event of each other sort.
Event(type, says, size, title, marked, errors) ==
  [type |-> type, says |-> says, size |-> size, title |-> title, marked |-> marked, errors |-> errors]
Events == {Event("log_output", "build", 2500, 20, TRUE, 2), Event("log_output", "deploy", 2500, 48, FALSE, 0),
           Event("project_event", "note", 600, 20, FALSE, 0), Event("error", "trace", 900, 20, TRUE, 1),
           Event("memory", "lesson", 300, 20, FALSE, 0), Event("routing", "route", 90, 48, FALSE, 0)}
Packets == {[says |-> "hand-off", size |-> 3600, constraints |-> {}],
            [says |-> "hand-back", size |-> 400, constraints |-> {"c1"}]}

\* One request after another with every mode and budget, or two at a time in dual mode.
Profiles ==
  {p \in [layering : BOOLEAN, dual : BOOLEAN, budget : {300, 1200}, crew : {{a1}, {a1, a2}},
           records : {2, 3}] :
     IF p.crew = {a1} THEN (p.dual => p.layering) /\ p.records = 3
     ELSE p.layering /\ p.dual /\ p.budget = 300 /\ p.records = 2}
IdleProfile == {[layering |-> FALSE, dual |-> FALSE, budget |-> 300, crew |-> {}, records |-> 0]}

-----------------------------------------------------------------------------
(* The store: a row in each table that another refers to *)

TheRows ==
  [tasks |-> {[id |-> 1, status |-> "new", workspace_id |-> 2, updated_at |-> 1]},
   workspaces |-> {[id |-> 2, name |-> "w", metadata |-> "{}", updated_at |-> 2]},
   agent_runs |-> {}, baton_packets |-> {}, project_events |-> {}, autonomy_snapshots |-> {},
   research_findings |-> {[id |-> 3, task_id |-> 1, workspace_id |-> 2]},
   notifications |-> {[id |-> 4, task_id |-> 1, workspace_id |-> 2, finding_id |-> 3,
                       acknowledged |-> FALSE, acknowledged_at |-> Null]}]
\* Row 5 is the first one created.
TheRequests ==
  {new_task(2), new_task(Null), change_task(1, [status |-> "completed"]), change_task(1, [workspace_id |-> 2]),
   change_task(1, <<>>), task_detail(1), pass_baton(1), packets_of_task(1), latest_packet_of_task(1),
   record_event(1), report_finding(1, 2), <<List("list_project_events", Null, 0)>>,
   <<[op |-> "list_tasks", workspace_id |-> 2, limit |-> 9]>>,
   <<Create("create_agent_run", [task_id |-> 1, status |-> "running"])>>,
   <<Change("update_agent_run", 5, [output |-> "done"])>>, <<Get("get_agent_run", 5)>>,
   <<List("list_agent_runs", Null, 1)>>, <<Get("get_baton_packet", 5)>>,
   <<Create("create_workspace", [name |-> "v"])>>, <<Change("update_workspace", 2, [name |-> "x"])>>,
   <<Change("update_workspace", 2, [metadata |-> "{learned}"])>>, <<Get("delete_workspace", 2)>>,
   <<[op |-> "list_workspaces", limit |-> 2]>>,
   <<Create("save_autonomy_snapshot", [task_id |-> 1, quality_score |-> 120])>>,
   <<List("list_autonomy_snapshots", 1, 1)>>,
   <<[op |-> "list_research_findings", task_id |-> Null, workspace_id |-> 2, limit |-> 1]>>,
   <<[op |-> "list_notifications", acknowledged |-> {FALSE}, limit |-> 1]>>,
   <<Get("get_notification", 4), Get("acknowledge_notification", 4)>>}

-----------------------------------------------------------------------------
(* Providers and routing *)

FallbackOrder == <<"openai", "anthropic">>
CallSettings ==
  {[configured |-> configured_providers(secrets), failover |-> failover,
    default |-> resolve_default_provider(configured_providers(secrets), stored, "openai")] :
      secrets \in {{}, {"openai"}, {"openai", "gemini"}, {"anthropic", "codex_oauth_experimental"}},
      stored \in {NoProvider, "codex_oauth_experimental", "local_echo"}, failover \in BOOLEAN}
IdleCall == {[configured |-> {}, default |-> NoProvider, failover |-> FALSE]}

Updates_Asked ==
  {[preferred_provider |-> "anthropic"], [preferred_provider_review |-> "gemini"],
   [model_optimization_goal |-> "speed"], [model_optimization_goal |-> "cost", max_cost_tier |-> "low"],
   [allow_cross_provider_switching |-> "false"], [minimum_context_window |-> 150000],
   [max_latency_tier |-> "medium", maintain_context_continuity |-> "false"],
   [preferred_provider_plan |-> None, preferred_provider |-> None]}
Switches_Asked == {[provider |-> "gemini", model |-> "gemini"], [provider |-> "openai", model |-> "claude"],
                   [provider |-> "anthropic", model |-> "claude"]}
Task(secrets, default, complexity, learned, prefs) ==
  [configured |-> configured_providers(secrets), default |-> default, complexity |-> complexity,
   research |-> complexity = "high", prefs |-> prefs,
   learned |-> [provider |-> learned, model |-> IF learned = None THEN None ELSE "gpt"]]
Cloud == {"openai", "anthropic", "gemini"}
\* A budget of one, limits that some meet, a default that is not configured, and the echo.
TaskSettings ==
  {Task(Cloud, "openai", "low", None, [autonomy_max_provider_switches |-> 1, max_cost_tier |-> "medium"]),
   Task(Cloud, "gemini", "high", "openai", [max_latency_tier |-> "fast", model_optimization_goal |-> "quality",
                                            preferred_provider_plan |-> "openai"]),
   Task(Cloud, "openai", "high", None, <<>>), Task({"openai"}, "gemini", "low", None, <<>>),
   Task(Cloud, "local_echo", "low", None, <<>>)}
IdleTask == {Task({}, "local_echo", "low", None, <<>>)}

-----------------------------------------------------------------------------
Chosen(name, active, idle) == IF component = name THEN active ELSE idle

Init ==
  /\ component \in {"context", "store", "provider", "routing"}
  /\ ContextInit(Chosen("context", Profiles, IdleProfile))
  /\ SqliteInit(Chosen("store", MaxAsked, 0))
  /\ ProviderInit(Chosen("provider", CallSettings, IdleCall))
  /\ RoutingInit(Chosen("routing", TaskSettings, IdleTask))

Next ==
  /\ UNCHANGED component
  /\ \/ component = "context" /\ ContextNext /\ UNCHANGED <<records_vars, provider_vars, routing_vars>>
     \/ component = "store" /\ SqliteNext /\ UNCHANGED <<context_vars, provider_vars, routing_vars>>
     \/ component = "provider" /\ ProviderNext /\ UNCHANGED <<context_vars, records_vars, routing_vars>>
     \/ component = "routing" /\ RoutingNext /\ UNCHANGED <<context_vars, records_vars, provider_vars>>
Spec == Init /\ [][Next]_vars
=============================================================================
