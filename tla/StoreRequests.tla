--------------------------- MODULE StoreRequests ---------------------------
(***************************************************************************)
(* What the services ask of the store: each request is a sequence of store *)
(* calls, every one of them a transaction of its own.                      *)
(***************************************************************************)
EXTENDS Tables

Get(op, id) == [op |-> op, id |-> id]
Create(op, fields) == [op |-> op, fields |-> fields]
Change(op, id, fields) == [op |-> op, id |-> id, fields |-> fields]
List(op, task, limit) == [op |-> op, task_id |-> task, limit |-> limit]

\* A workspace that a task is to name is looked up first.
checked_workspace(workspace) ==
  IF workspace = Null THEN <<>> ELSE <<Get("get_workspace", workspace)>>

new_task(workspace) ==
  checked_workspace(workspace) \o <<Create("create_task", [workspace_id |-> workspace])>>
change_task(task, fields) ==
  checked_workspace(IF "workspace_id" \in DOMAIN fields THEN fields.workspace_id ELSE Null)
    \o <<Change("update_task", task, fields)>>
task_detail(task) ==
  <<Get("get_task", task), List("list_agent_runs", task, 50), List("list_baton_packets", task, 20),
    [op |-> "count_project_events", task_id |-> task]>>

pass_baton(task) ==
  <<Get("get_task", task), Create("save_baton_packet", [task_id |-> task])>>
packets_of_task(task) ==
  <<Get("get_task", task), List("list_baton_packets", task, 50)>>
latest_packet_of_task(task) ==
  <<Get("get_task", task), [op |-> "get_latest_baton_packet", task_id |-> task]>>
record_event(task) ==
  <<Get("get_task", task), Create("save_project_event", [task_id |-> task])>>

\* The finding, then the notification that tells of it.
report_finding(task, workspace) ==
  <<Create("create_research_finding", [task_id |-> task, workspace_id |-> workspace]),
    Create("create_notification", [task_id |-> task, workspace_id |-> Null, finding_id |-> Null])>>

\* What is left to do: a service stops when the row it looks up is not there, and a
\* notification tells of the finding as the store returned it.
Checks == {"get_task", "get_workspace"}
follow(todo, reply) ==
  CASE Head(todo).op \in Checks /\ reply = <<>> -> <<>>
    [] Head(todo).op = "create_research_finding" ->
         [Tail(todo) EXCEPT ![1].fields.finding_id = reply[1].id,
                            ![1].fields.workspace_id = reply[1].workspace_id]
    [] OTHER -> Tail(todo)
=============================================================================
