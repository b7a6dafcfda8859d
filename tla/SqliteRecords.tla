--------------------------- MODULE SqliteRecords ---------------------------
(***************************************************************************)
(* MemoryStoreProtocol as the SQLite store keeps it.  A call reads the     *)
(* clock, then opens a connection; its statement takes the one write lock  *)
(* of the file and changes a draft that nobody else sees, a SELECT reads   *)
(* the row back from the draft, and commit publishes it.  A call that      *)
(* raises closes its connection without commit.                            *)
(***************************************************************************)
EXTENDS StoreRequests

CONSTANTS
  Callers,    \* threads of the service
  Requests,   \* what may be asked: a sequence of store calls
  ShortList,  \* rows a list of tasks, runs, packets or events may return (200 in the code)
  LongList,   \* rows of any other list (500)
  Rows,       \* what the tables hold at first, and the first time of day after
  Noon,
  MaxAsked,   \* bound: requests of each caller
  MaxFaults   \* bound: calls the database fails

Nobody == "nobody"

ASSUME RecordsAssumption == Noon \in Nat /\ Noon > 0 /\ Nobody \notin Callers

VARIABLES
  tables,   \* the rows committed
  now,      \* the next time of day
  callers,  \* as the clients of Records, with the place reached in the call
  draft,    \* rows of the open write transaction
  writer,   \* who holds the write lock, or none
  faults

records_vars == <<tables, now, callers, draft, writer, faults>>

-----------------------------------------------------------------------------
(* The statements: what they write; c.at was read before the connection was opened *)

create_task(d, c) ==
  insert_into(d, "tasks", [id |-> c.at, status |-> "new", updated_at |-> c.at] @@ c.fields)
update_task(d, c) == update_where(d, "tasks", c.id, [updated_at |-> c.at] @@ c.fields)
create_agent_run(d, c) ==
  insert_into(d, "agent_runs", [id |-> c.at, output |-> "", updated_at |-> c.at] @@ c.fields)
update_agent_run(d, c) == update_where(d, "agent_runs", c.id, [updated_at |-> c.at] @@ c.fields)
save_baton_packet(d, c) == insert_into(d, "baton_packets", [id |-> c.at] @@ c.fields)
save_project_event(d, c) == insert_into(d, "project_events", [id |-> c.at] @@ c.fields)
create_workspace(d, c) ==
  insert_into(d, "workspaces", [id |-> c.at, metadata |-> "{}", updated_at |-> c.at] @@ c.fields)
update_workspace(d, c) == update_where(d, "workspaces", c.id, [updated_at |-> c.at] @@ c.fields)
delete_workspace(d, c) == delete_from(d, "workspaces", c.id)
save_autonomy_snapshot(d, c) ==
  insert_into(d, "autonomy_snapshots",
              [c.fields EXCEPT !.quality_score = Max({Min({@, 100}), 0})] @@ [id |-> c.at])
create_research_finding(d, c) == insert_into(d, "research_findings", [id |-> c.at] @@ c.fields)
create_notification(d, c) ==
  insert_into(d, "notifications", [id |-> c.at, acknowledged |-> FALSE, acknowledged_at |-> Null] @@ c.fields)
acknowledge_notification(d, c) ==
  update_where(d, "notifications", c.id, [acknowledged |-> TRUE, acknowledged_at |-> c.at])

(* and what they read *)

get_task(d, c) == one(with_id(d, "tasks", c.id))
list_tasks(d, c) ==
  newest({r \in d.tasks : c.workspace_id \in {Null, r.workspace_id}}, c.limit, ShortList)
get_agent_run(d, c) == one(with_id(d, "agent_runs", c.id))
list_agent_runs(d, c) ==
  IF c.task_id = Null THEN newest(d.agent_runs, c.limit, ShortList)
  ELSE oldest({r \in d.agent_runs : r.task_id = c.task_id}, c.limit, ShortList)
get_baton_packet(d, c) == one(with_id(d, "baton_packets", c.id))
get_latest_baton_packet(d, c) == newest({r \in d.baton_packets : r.task_id = c.task_id}, 1, 1)
list_baton_packets(d, c) ==
  newest({r \in d.baton_packets : r.task_id = c.task_id}, c.limit, ShortList)
list_project_events(d, c) ==
  Reverse(newest({r \in d.project_events : c.task_id \in {Null, r.task_id}}, c.limit, ShortList))
count_project_events(d, c) ==
  <<[total |-> Cardinality({r \in d.project_events : r.task_id = c.task_id})]>>
get_workspace(d, c) == one(with_id(d, "workspaces", c.id))
list_workspaces(d, c) == newest(d.workspaces, c.limit, LongList)
list_autonomy_snapshots(d, c) ==
  newest({r \in d.autonomy_snapshots : r.task_id = c.task_id}, c.limit, LongList)
list_research_findings(d, c) ==
  newest({r \in d.research_findings : /\ c.task_id \in {Null, r.task_id}
                                      /\ c.workspace_id \in {Null, r.workspace_id}}, c.limit, LongList)
list_notifications(d, c) ==
  newest({r \in d.notifications : r.acknowledged \in c.acknowledged}, c.limit, LongList)
get_notification(d, c) == one(with_id(d, "notifications", c.id))

-----------------------------------------------------------------------------
(* A call *)

table_of ==
  [create_task |-> "tasks", update_task |-> "tasks", create_agent_run |-> "agent_runs",
   update_agent_run |-> "agent_runs", save_baton_packet |-> "baton_packets",
   save_project_event |-> "project_events", create_workspace |-> "workspaces",
   update_workspace |-> "workspaces", delete_workspace |-> "workspaces",
   save_autonomy_snapshot |-> "autonomy_snapshots", create_research_finding |-> "research_findings",
   create_notification |-> "notifications", acknowledge_notification |-> "notifications"]
Writes  == DOMAIN table_of
Updates == {"update_task", "update_agent_run", "update_workspace"}
Inserts == Writes \ (Updates \cup {"delete_workspace", "acknowledge_notification"})

\* An update must name a field (or it raises ValueError), an insert may name only rows that exist.
acceptable(d, c) ==
  /\ c.op \in Updates => DOMAIN c.fields # {}
  /\ c.op \in Inserts => references_hold(d, table_of[c.op], [task_id |-> Null] @@ c.fields)

statement(d, c) ==
  CASE c.op = "create_task" -> create_task(d, c)
    [] c.op = "update_task" -> update_task(d, c)
    [] c.op = "create_agent_run" -> create_agent_run(d, c)
    [] c.op = "update_agent_run" -> update_agent_run(d, c)
    [] c.op = "save_baton_packet" -> save_baton_packet(d, c)
    [] c.op = "save_project_event" -> save_project_event(d, c)
    [] c.op = "create_workspace" -> create_workspace(d, c)
    [] c.op = "update_workspace" -> update_workspace(d, c)
    [] c.op = "delete_workspace" -> delete_workspace(d, c)
    [] c.op = "save_autonomy_snapshot" -> save_autonomy_snapshot(d, c)
    [] c.op = "create_research_finding" -> create_research_finding(d, c)
    [] c.op = "create_notification" -> create_notification(d, c)
    [] c.op = "acknowledge_notification" -> acknowledge_notification(d, c)
    [] OTHER -> d

read(d, c) ==
  CASE c.op = "get_task" -> get_task(d, c)
    [] c.op = "list_tasks" -> list_tasks(d, c)
    [] c.op = "get_agent_run" -> get_agent_run(d, c)
    [] c.op = "list_agent_runs" -> list_agent_runs(d, c)
    [] c.op = "get_baton_packet" -> get_baton_packet(d, c)
    [] c.op = "get_latest_baton_packet" -> get_latest_baton_packet(d, c)
    [] c.op = "list_baton_packets" -> list_baton_packets(d, c)
    [] c.op = "list_project_events" -> list_project_events(d, c)
    [] c.op = "count_project_events" -> count_project_events(d, c)
    [] c.op = "get_workspace" -> get_workspace(d, c)
    [] c.op = "list_workspaces" -> list_workspaces(d, c)
    [] c.op = "list_autonomy_snapshots" -> list_autonomy_snapshots(d, c)
    [] c.op = "list_research_findings" -> list_research_findings(d, c)
    [] c.op = "list_notifications" -> list_notifications(d, c)
    [] c.op = "get_notification" -> get_notification(d, c)

\* The row that is read back within the transaction; a DELETE has its row count instead.
read_back(c) ==
  CASE c.op \in Inserts -> one(with_id(draft, table_of[c.op], c.at))
    [] c.op = "delete_workspace" -> one(with_id(tables, "workspaces", c.id))
    [] OTHER -> one(with_id(draft, table_of[c.op], c.id))

-----------------------------------------------------------------------------
Nothing_Open == <<>>

\* asked: how many requests each caller makes, at most MaxAsked.
SqliteInit(asked) ==
  /\ tables = Rows /\ now = Noon /\ draft = Nothing_Open /\ writer = Nobody /\ faults = 0
  /\ callers = [c \in Callers |-> [todo |-> <<>>, at |-> 0, reply |-> <<>>, raised |-> FALSE,
                                  left |-> asked, pc |-> "idle", row |-> <<>>]]

lock_free_Always == TRUE
lock_free == writer = Nobody
current(c) == Head(callers[c].todo) @@ [at |-> callers[c].at]

AskStore(c) ==
  /\ callers[c].todo = <<>> /\ callers[c].left > 0
  /\ \E request \in Requests :
       callers' = [callers EXCEPT ![c].todo = request, ![c].raised = FALSE, ![c].left = @ - 1]
  /\ UNCHANGED <<tables, now, draft, writer, faults>>

\* now = self._now()
ReadClock(c) ==
  /\ callers[c].todo # <<>> /\ callers[c].pc = "idle"
  /\ callers' = [callers EXCEPT ![c].at = now, ![c].pc = "open"]
  /\ now' = now + 1
  /\ UNCHANGED <<tables, draft, writer, faults>>

Execute(c) ==
  /\ callers[c].pc = "open" /\ current(c).op \in Writes
  /\ acceptable(tables, current(c))
  /\ lock_free
  /\ writer' = c
  /\ draft' = statement(tables, current(c))
  /\ callers' = [callers EXCEPT ![c].pc = "written"]
  /\ UNCHANGED <<tables, now, faults>>

ReadBack(c) ==
  /\ callers[c].pc = "written"
  /\ callers' = [callers EXCEPT ![c].pc = "read", ![c].row = read_back(current(c))]
  /\ UNCHANGED <<tables, now, draft, writer, faults>>

returned(caller, reply) ==
  [caller EXCEPT !.todo = follow(@, reply), !.at = 0, !.reply = reply, !.pc = "idle", !.row = <<>>]

Commit(c) ==
  /\ callers[c].pc = "read"
  /\ tables' = draft /\ draft' = Nothing_Open /\ writer' = Nobody
  /\ callers' = [callers EXCEPT ![c] = returned(@, @.row)]
  /\ UNCHANGED <<now, faults>>

Query(c) ==
  /\ callers[c].pc = "open" /\ current(c).op \notin Writes
  /\ callers' = [callers EXCEPT ![c] = returned(@, read(tables, current(c)))]
  /\ UNCHANGED <<tables, now, draft, writer, faults>>

failed(caller) ==
  [caller EXCEPT !.todo = <<>>, !.at = 0, !.raised = TRUE, !.pc = "idle", !.row = <<>>]

\* The statement is refused: no field named, a reference to no row, or another
\* transaction that keeps the lock past the timeout.
Refuse(c) ==
  /\ callers[c].pc = "open" /\ current(c).op \in Writes
  /\ ~acceptable(tables, current(c)) \/ ~lock_free
  /\ callers' = [callers EXCEPT ![c] = failed(@)]
  /\ UNCHANGED <<tables, now, draft, writer, faults>>

Fail_Commits(c) ==
  /\ callers[c].pc \in {"open", "written", "read"} /\ faults < MaxFaults
  /\ faults' = faults + 1
  /\ IF writer = c THEN tables' = draft /\ draft' = Nothing_Open /\ writer' = Nobody
     ELSE UNCHANGED <<tables, draft, writer>>
  /\ callers' = [callers EXCEPT ![c] = failed(@)]
  /\ UNCHANGED now
\* The connection is closed in any case, and committed only when nothing was raised.
Fail(c) ==
  /\ callers[c].pc \in {"open", "written", "read"} /\ faults < MaxFaults
  /\ faults' = faults + 1
  /\ IF writer = c THEN draft' = Nothing_Open /\ writer' = Nobody ELSE UNCHANGED <<draft, writer>>
  /\ callers' = [callers EXCEPT ![c] = failed(@)]
  /\ UNCHANGED <<tables, now>>

SqliteNext ==
  \E c \in Callers : \/ AskStore(c) \/ ReadClock(c) \/ Execute(c) \/ ReadBack(c) \/ Commit(c)
                    \/ Query(c) \/ Refuse(c) \/ Fail(c)

-----------------------------------------------------------------------------
(* Properties *)

\* What a caller of the store has seen of its call.
seen(caller) == [f \in {"todo", "at", "reply", "raised", "left"} |-> caller[f]]
Postgres == INSTANCE Records WITH db <- tables, clock <- now,
                                  clients <- [c \in Callers |-> seen(callers[c])]

\* Each call to the SQLite store takes effect at once, with the answer the Postgres store
\* would have given at that moment, or raises and leaves nothing: no update is lost or
\* half done, whatever calls overlap and fail.
ActsAsPostgres == Postgres!RecordsSpec
=============================================================================
