------------------------------ MODULE Records ------------------------------
(***************************************************************************)
(* MemoryStoreProtocol as the Postgres store keeps it: an operation is one *)
(* statement with RETURNING, so it takes effect at once and answers with   *)
(* the rows as it left them, or raises and leaves nothing.                 *)
(*                                                                         *)
(* This is also what a caller may expect of the SQLite store, see          *)
(* SqliteRecords.  Jobs, context rows and the event log as a log have      *)
(* modules of their own.                                                   *)
(***************************************************************************)
EXTENDS StoreRequests

CONSTANTS
  Callers,    \* threads of the service
  Requests,   \* what may be asked: a sequence of store calls
  ShortList,  \* rows a list of tasks, runs, packets or events may return (200 in the code)
  LongList,   \* rows of any other list (500)
  Rows,       \* what the tables hold at first, and the first time of day after
  Noon,
  MaxAsked    \* bound: requests of each caller

VARIABLES
  db,       \* the rows of each table
  clock,    \* the next time of day
  clients   \* per caller: calls to do, the time its call began, the last answer, requests left

-----------------------------------------------------------------------------
(* The operations: what they write; c.at is NOW() *)

create_task(d, c) ==
  insert_into(d, "tasks", [id |-> c.at, status |-> "new", updated_at |-> c.at] @@ c.fields)
update_task(d, c) == update_where(d, "tasks", c.id, [updated_at |-> c.at] @@ c.fields)
create_agent_run(d, c) ==
  insert_into(d, "agent_runs", [id |-> c.at, output |-> "", updated_at |-> c.at] @@ c.fields)
update_agent_run(d, c) == update_where(d, "agent_runs", c.id, [updated_at |-> c.at] @@ c.fields)
save_baton_packet(d, c) == insert_into(d, "baton_packets", [id |-> c.at] @@ c.fields)
save_project_event(d, c) == insert_into(d, "project_events", [id |-> c.at] @@ c.fields)
create_workspace(d, c) ==
  insert_into(d, "workspaces", [id |-> c.at, metadata |-> "{}", updated_at |-> c.at] @@ c.fields)
update_workspace(d, c) == update_where(d, "workspaces", c.id, [updated_at |-> c.at] @@ c.fields)
delete_workspace(d, c) == delete_from(d, "workspaces", c.id)
save_autonomy_snapshot(d, c) ==
  insert_into(d, "autonomy_snapshots",
              [c.fields EXCEPT !.quality_score = Max({Min({@, 100}), 0})] @@ [id |-> c.at])
create_research_finding(d, c) == insert_into(d, "research_findings", [id |-> c.at] @@ c.fields)
create_notification(d, c) ==
  insert_into(d, "notifications", [id |-> c.at, acknowledged |-> FALSE, acknowledged_at |-> Null] @@ c.fields)
acknowledge_notification(d, c) ==
  update_where(d, "notifications", c.id, [acknowledged |-> TRUE, acknowledged_at |-> c.at])

(* and what they read *)

get_task(d, c) == one(with_id(d, "tasks", c.id))
list_tasks(d, c) ==
  newest({r \in d.tasks : c.workspace_id \in {Null, r.workspace_id}}, c.limit, ShortList)
get_agent_run(d, c) == one(with_id(d, "agent_runs", c.id))
list_agent_runs(d, c) ==
  IF c.task_id = Null THEN newest(d.agent_runs, c.limit, ShortList)
  ELSE oldest({r \in d.agent_runs : r.task_id = c.task_id}, c.limit, ShortList)
get_baton_packet(d, c) == one(with_id(d, "baton_packets", c.id))
get_latest_baton_packet(d, c) == newest({r \in d.baton_packets : r.task_id = c.task_id}, 1, 1)
list_baton_packets(d, c) ==
  newest({r \in d.baton_packets : r.task_id = c.task_id}, c.limit, ShortList)
list_project_events(d, c) ==
  Reverse(newest({r \in d.project_events : c.task_id \in {Null, r.task_id}}, c.limit, ShortList))
count_project_events(d, c) ==
  <<[total |-> Cardinality({r \in d.project_events : r.task_id = c.task_id})]>>
get_workspace(d, c) == one(with_id(d, "workspaces", c.id))
list_workspaces(d, c) == newest(d.workspaces, c.limit, LongList)
list_autonomy_snapshots(d, c) ==
  newest({r \in d.autonomy_snapshots : r.task_id = c.task_id}, c.limit, LongList)
list_research_findings(d, c) ==
  newest({r \in d.research_findings : /\ c.task_id \in {Null, r.task_id}
                                      /\ c.workspace_id \in {Null, r.workspace_id}}, c.limit, LongList)
list_notifications(d, c) ==
  newest({r \in d.notifications : r.acknowledged \in c.acknowledged}, c.limit, LongList)
get_notification(d, c) == one(with_id(d, "notifications", c.id))

-----------------------------------------------------------------------------
(* A call *)

table_of ==
  [create_task |-> "tasks", update_task |-> "tasks", create_agent_run |-> "agent_runs",
   update_agent_run |-> "agent_runs", save_baton_packet |-> "baton_packets",
   save_project_event |-> "project_events", create_workspace |-> "workspaces",
   update_workspace |-> "workspaces", delete_workspace |-> "workspaces",
   save_autonomy_snapshot |-> "autonomy_snapshots", create_research_finding |-> "research_findings",
   create_notification |-> "notifications", acknowledge_notification |-> "notifications"]
Writes  == DOMAIN table_of
Updates == {"update_task", "update_agent_run", "update_workspace"}
Inserts == Writes \ (Updates \cup {"delete_workspace", "acknowledge_notification"})

\* An update must name a field (or it raises ValueError), an insert may name only rows that exist.
acceptable(d, c) ==
  /\ c.op \in Updates => DOMAIN c.fields # {}
  /\ c.op \in Inserts => references_hold(d, table_of[c.op], [task_id |-> Null] @@ c.fields)

written(d, c) ==
  CASE c.op = "create_task" -> create_task(d, c)
    [] c.op = "update_task" -> update_task(d, c)
    [] c.op = "create_agent_run" -> create_agent_run(d, c)
    [] c.op = "update_agent_run" -> update_agent_run(d, c)
    [] c.op = "save_baton_packet" -> save_baton_packet(d, c)
    [] c.op = "save_project_event" -> save_project_event(d, c)
    [] c.op = "create_workspace" -> create_workspace(d, c)
    [] c.op = "update_workspace" -> update_workspace(d, c)
    [] c.op = "delete_workspace" -> delete_workspace(d, c)
    [] c.op = "save_autonomy_snapshot" -> save_autonomy_snapshot(d, c)
    [] c.op = "create_research_finding" -> create_research_finding(d, c)
    [] c.op = "create_notification" -> create_notification(d, c)
    [] c.op = "acknowledge_notification" -> acknowledge_notification(d, c)
    [] OTHER -> d

read(d, c) ==
  CASE c.op = "get_task" -> get_task(d, c)
    [] c.op = "list_tasks" -> list_tasks(d, c)
    [] c.op = "get_agent_run" -> get_agent_run(d, c)
    [] c.op = "list_agent_runs" -> list_agent_runs(d, c)
    [] c.op = "get_baton_packet" -> get_baton_packet(d, c)
    [] c.op = "get_latest_baton_packet" -> get_latest_baton_packet(d, c)
    [] c.op = "list_baton_packets" -> list_baton_packets(d, c)
    [] c.op = "list_project_events" -> list_project_events(d, c)
    [] c.op = "count_project_events" -> count_project_events(d, c)
    [] c.op = "get_workspace" -> get_workspace(d, c)
    [] c.op = "list_workspaces" -> list_workspaces(d, c)
    [] c.op = "list_autonomy_snapshots" -> list_autonomy_snapshots(d, c)
    [] c.op = "list_research_findings" -> list_research_findings(d, c)
    [] c.op = "list_notifications" -> list_notifications(d, c)
    [] c.op = "get_notification" -> get_notification(d, c)

\* RETURNING gives the row as the statement left it, and the row count of a DELETE tells
\* whether there was one.
answer(d, c) ==
  CASE c.op \in Inserts -> one(with_id(written(d, c), table_of[c.op], c.at))
    [] c.op = "delete_workspace" -> one(with_id(d, "workspaces", c.id))
    [] c.op \in Writes \ (Inserts \cup {"delete_workspace"}) ->
         one(with_id(written(d, c), table_of[c.op], c.id))
    [] OTHER -> read(d, c)

-----------------------------------------------------------------------------
RecordsInit ==
  /\ db = Rows /\ clock = Noon
  /\ \E asked \in 0..MaxAsked :
       clients = [c \in Callers |-> [todo |-> <<>>, at |-> 0, reply |-> <<>>, raised |-> FALSE, left |-> asked]]

Ask(c) ==
  /\ clients[c].todo = <<>> /\ clients[c].left > 0
  /\ \E request \in Requests :
       clients' = [clients EXCEPT ![c].todo = request, ![c].at = 0, ![c].raised = FALSE, ![c].left = @ - 1]
  /\ UNCHANGED <<db, clock>>

\* The transaction begins, and with it the time it will write.
Begin(c) ==
  /\ clients[c].todo # <<>> /\ clients[c].at = 0
  /\ clients' = [clients EXCEPT ![c].at = clock]
  /\ clock' = clock + 1
  /\ UNCHANGED db

Run(c) ==
  /\ clients[c].todo # <<>> /\ clients[c].at # 0
  /\ LET call == Head(clients[c].todo) @@ [at |-> clients[c].at]
         reply == answer(db, call) IN
     /\ acceptable(db, call)
     /\ db' = written(db, call)
     /\ clients' = [clients EXCEPT ![c].todo = follow(@, reply), ![c].at = 0, ![c].reply = reply]
  /\ UNCHANGED clock

\* A statement that is not acceptable raises, and so does any that the database cannot serve.
Raise(c) ==
  /\ clients[c].todo # <<>>
  /\ clients' = [clients EXCEPT ![c].todo = <<>>, ![c].at = 0, ![c].raised = TRUE]
  /\ UNCHANGED <<db, clock>>

RecordsNext == \E c \in Callers : Ask(c) \/ Begin(c) \/ Run(c) \/ Raise(c)
RecordsSpec == RecordsInit /\ [][RecordsNext]_<<db, clock, clients>>
=============================================================================
