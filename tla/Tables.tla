------------------------------- MODULE Tables -------------------------------
(***************************************************************************)
(* The tables that both stores keep their rows in, and the few statements  *)
(* of SQL their operations are made of.                                    *)
(*                                                                         *)
(* A table is a set of rows.  The id of a row is the time it was created   *)
(* at, taken to be different for every row, so that created_at orders the  *)
(* rows as their ids do.  Columns that no operation decides on are left    *)
(* out.                                                                    *)
(***************************************************************************)
EXTENDS Integers, Sequences, FiniteSets, FiniteSetsExt, SequencesExt

Null == 0

\* REFERENCES of each table: column to table.  The workspace of a task is a plain column.
Foreign ==
  LET of_task == [task_id |-> "tasks"] IN
  [tasks |-> <<>>, workspaces |-> <<>>, agent_runs |-> of_task, baton_packets |-> of_task,
   project_events |-> of_task, autonomy_snapshots |-> of_task,
   research_findings |-> [task_id |-> "tasks", workspace_id |-> "workspaces"],
   notifications |-> [task_id |-> "tasks", workspace_id |-> "workspaces",
                      finding_id |-> "research_findings"]]

with_id(db, table, id) == {r \in db[table] : r.id = id}

references_hold(db, table, row) ==
  \A column \in DOMAIN Foreign[table] :
    row[column] # Null => with_id(db, Foreign[table][column], row[column]) # {}

insert_into(db, table, row) == [db EXCEPT ![table] = @ \cup {row}]

update_where(db, table, id, fields) ==
  [db EXCEPT ![table] = {IF r.id = id THEN fields @@ r ELSE r : r \in @}]

\* ON DELETE SET NULL of the columns that reference the row.
without_reference(row, table, deleted, id) ==
  [column \in DOMAIN row |->
     IF column \in DOMAIN Foreign[table] /\ Foreign[table][column] = deleted /\ row[column] = id
     THEN Null ELSE row[column]]
delete_from(db, deleted, id) ==
  [table \in DOMAIN db |-> {without_reference(r, table, deleted, id) :
                              r \in db[table] \ with_id(db, deleted, id)}]

\* A get: the row, or none; a list: at least one row and at most cap of them.
one(rows) == SetToSeq(rows)
row_count(rows, limit, cap) == Min({Max({limit, 1}), cap, Cardinality(rows)})
newest(rows, limit, cap) ==
  [i \in 1..row_count(rows, limit, cap) |->
     CHOOSE r \in rows : Cardinality({s \in rows : s.id > r.id}) = i - 1]
oldest(rows, limit, cap) ==
  [i \in 1..row_count(rows, limit, cap) |->
     CHOOSE r \in rows : Cardinality({s \in rows : s.id < r.id}) = i - 1]
=============================================================================
