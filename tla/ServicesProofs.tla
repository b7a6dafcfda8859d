--------------------------- MODULE ServicesProofs ---------------------------
(***************************************************************************)
(* Theorems about the services around the engine.  The SQLite store acts   *)
(* as the Postgres store (SqliteRecords implements Records), for any       *)
(* callers, requests, rows and failures.  A prompt has one answer          *)
(* (ProviderCall), a model is chosen within the limits and moved within    *)
(* the budget of its task (ModelRouting), and a bundle keeps what is       *)
(* critical, refers to what it leaves out and keeps to its budget          *)
(* (ContextAssembly).                                                      *)
(***************************************************************************)
EXTENDS SqliteRecords, ProviderCall, ModelRouting, ContextAssembly, Extrema, FiniteSetTheorems, SequenceTheorems, TLAPS

-----------------------------------------------------------------------------
(* The operations of the two stores are the same *)

LEMMA SameSets ==
  ASSUME NEW s
  PROVE  /\ Postgres!Cardinality(s) = Cardinality(s) /\ Postgres!Reverse(s) = Reverse(s)
         /\ Postgres!Max(s) = Max(s) /\ Postgres!Min(s) = Min(s)
<1>1. Postgres!Cardinality(s) = Cardinality(s)
  BY DEF Cardinality, Postgres!Cardinality
<1>2. Postgres!Reverse(s) = Reverse(s)
  BY DEF Reverse, Postgres!Reverse
<1>3. Postgres!Max(s) = Max(s)
  BY DEF Max, Postgres!Max
<1>4. Postgres!Min(s) = Min(s)
  BY DEF Min, Postgres!Min
<1>5. QED
  BY <1>1, <1>2, <1>3, <1>4

LEMMA SameForeign == Postgres!Foreign = Foreign /\ Postgres!Null = Null
BY DEF Foreign, Postgres!Foreign, Null, Postgres!Null

LEMMA SameStatements ==
  ASSUME NEW d, NEW table, NEW id, NEW row
  PROVE  /\ Postgres!with_id(d, table, id) = with_id(d, table, id)
         /\ Postgres!references_hold(d, table, row) = references_hold(d, table, row)
         /\ Postgres!insert_into(d, table, row) = insert_into(d, table, row)
         /\ Postgres!update_where(d, table, id, row) = update_where(d, table, id, row)
         /\ Postgres!delete_from(d, table, id) = delete_from(d, table, id)
<1>1. \A t, i : Postgres!with_id(d, t, i) = with_id(d, t, i)
  BY DEF with_id, Postgres!with_id
<1>2. Postgres!references_hold(d, table, row) = references_hold(d, table, row)
  BY <1>1, SameForeign DEF references_hold, Postgres!references_hold
<1>3. Postgres!insert_into(d, table, row) = insert_into(d, table, row)
  BY DEF insert_into, Postgres!insert_into
<1>4. Postgres!update_where(d, table, id, row) = update_where(d, table, id, row)
  BY DEF update_where, Postgres!update_where
<1>5. \A r, t : Postgres!without_reference(r, t, table, id) = without_reference(r, t, table, id)
  BY SameForeign DEF without_reference, Postgres!without_reference
<1>6. Postgres!delete_from(d, table, id) = delete_from(d, table, id)
  BY <1>1, <1>5 DEF delete_from, Postgres!delete_from
<1>7. QED
  BY <1>1, <1>2, <1>3, <1>4, <1>6

LEMMA SameLists ==
  ASSUME NEW rows, NEW limit, NEW cap
  PROVE  /\ Postgres!one(rows) = one(rows)
         /\ Postgres!newest(rows, limit, cap) = newest(rows, limit, cap)
         /\ Postgres!oldest(rows, limit, cap) = oldest(rows, limit, cap)
<1>1. Postgres!one(rows) = one(rows)
  BY DEF one, Postgres!one, SetToSeq, Postgres!SetToSeq, IsInjective, Postgres!IsInjective,
         Cardinality, Postgres!Cardinality
<1>2. Postgres!row_count(rows, limit, cap) = row_count(rows, limit, cap)
  BY SameSets DEF row_count, Postgres!row_count
<1>3. Postgres!newest(rows, limit, cap) = newest(rows, limit, cap)
  BY <1>2 DEF newest, Postgres!newest, Cardinality, Postgres!Cardinality
<1>4. Postgres!oldest(rows, limit, cap) = oldest(rows, limit, cap)
  BY <1>2 DEF oldest, Postgres!oldest, Cardinality, Postgres!Cardinality
<1>5. QED
  BY <1>1, <1>3, <1>4

LEMMA SameWrites ==
  ASSUME NEW d, NEW c
  PROVE  Postgres!written(d, c) = statement(d, c)
<1>1. Postgres!create_task(d, c) = create_task(d, c)
  BY SameStatements DEF create_task, Postgres!create_task
<1>2. Postgres!update_task(d, c) = update_task(d, c)
  BY SameStatements DEF update_task, Postgres!update_task
<1>3. Postgres!create_agent_run(d, c) = create_agent_run(d, c)
  BY SameStatements DEF create_agent_run, Postgres!create_agent_run
<1>4. Postgres!update_agent_run(d, c) = update_agent_run(d, c)
  BY SameStatements DEF update_agent_run, Postgres!update_agent_run
<1>5. Postgres!save_baton_packet(d, c) = save_baton_packet(d, c)
  BY SameStatements DEF save_baton_packet, Postgres!save_baton_packet
<1>6. Postgres!save_project_event(d, c) = save_project_event(d, c)
  BY SameStatements DEF save_project_event, Postgres!save_project_event
<1>7. Postgres!create_workspace(d, c) = create_workspace(d, c)
  BY SameStatements DEF create_workspace, Postgres!create_workspace
<1>8. Postgres!update_workspace(d, c) = update_workspace(d, c)
  BY SameStatements DEF update_workspace, Postgres!update_workspace
<1>9. Postgres!delete_workspace(d, c) = delete_workspace(d, c)
  BY SameStatements DEF delete_workspace, Postgres!delete_workspace
<1>10. Postgres!save_autonomy_snapshot(d, c) = save_autonomy_snapshot(d, c)
  BY SameStatements, SameSets DEF save_autonomy_snapshot, Postgres!save_autonomy_snapshot
<1>11. Postgres!create_research_finding(d, c) = create_research_finding(d, c)
  BY SameStatements DEF create_research_finding, Postgres!create_research_finding
<1>12. Postgres!create_notification(d, c) = create_notification(d, c)
  BY SameStatements, SameForeign DEF create_notification, Postgres!create_notification
<1>13. Postgres!acknowledge_notification(d, c) = acknowledge_notification(d, c)
  BY SameStatements DEF acknowledge_notification, Postgres!acknowledge_notification
<1>14. QED
  BY <1>1, <1>2, <1>3, <1>4, <1>5, <1>6, <1>7, <1>8, <1>9, <1>10, <1>11, <1>12, <1>13
  DEF statement, Postgres!written

LEMMA SameReads ==
  ASSUME NEW d, NEW c
  PROVE  Postgres!read(d, c) = read(d, c)
<1>1. Postgres!get_task(d, c) = get_task(d, c)
  BY SameLists, SameStatements DEF get_task, Postgres!get_task
<1>2. Postgres!list_tasks(d, c) = list_tasks(d, c)
  BY SameLists, SameForeign DEF list_tasks, Postgres!list_tasks
<1>3. Postgres!get_agent_run(d, c) = get_agent_run(d, c)
  BY SameLists, SameStatements DEF get_agent_run, Postgres!get_agent_run
<1>4. Postgres!list_agent_runs(d, c) = list_agent_runs(d, c)
  BY SameLists, SameForeign DEF list_agent_runs, Postgres!list_agent_runs
<1>5. Postgres!get_baton_packet(d, c) = get_baton_packet(d, c)
  BY SameLists, SameStatements DEF get_baton_packet, Postgres!get_baton_packet
<1>6. Postgres!get_latest_baton_packet(d, c) = get_latest_baton_packet(d, c)
  BY SameLists, SameForeign DEF get_latest_baton_packet, Postgres!get_latest_baton_packet
<1>7. Postgres!list_baton_packets(d, c) = list_baton_packets(d, c)
  BY SameLists, SameForeign DEF list_baton_packets, Postgres!list_baton_packets
<1>8. Postgres!list_project_events(d, c) = list_project_events(d, c)
  BY SameLists, SameSets, SameForeign DEF list_project_events, Postgres!list_project_events
<1>9. Postgres!count_project_events(d, c) = count_project_events(d, c)
  BY SameSets DEF count_project_events, Postgres!count_project_events
<1>10. Postgres!get_workspace(d, c) = get_workspace(d, c)
  BY SameLists, SameStatements DEF get_workspace, Postgres!get_workspace
<1>11. Postgres!list_workspaces(d, c) = list_workspaces(d, c)
  BY SameLists, SameForeign DEF list_workspaces, Postgres!list_workspaces
<1>12. Postgres!list_autonomy_snapshots(d, c) = list_autonomy_snapshots(d, c)
  BY SameLists, SameForeign DEF list_autonomy_snapshots, Postgres!list_autonomy_snapshots
<1>13. Postgres!list_research_findings(d, c) = list_research_findings(d, c)
  BY SameLists, SameForeign DEF list_research_findings, Postgres!list_research_findings
<1>14. Postgres!list_notifications(d, c) = list_notifications(d, c)
  BY SameLists, SameForeign DEF list_notifications, Postgres!list_notifications
<1>15. Postgres!get_notification(d, c) = get_notification(d, c)
  BY SameLists, SameStatements DEF get_notification, Postgres!get_notification
<1>16. QED
  BY <1>1, <1>2, <1>3, <1>4, <1>5, <1>6, <1>7, <1>8, <1>9, <1>10, <1>11, <1>12, <1>13, <1>14, <1>15
  DEF read, Postgres!read

LEMMA SameCalls ==
  /\ Postgres!table_of = table_of /\ Postgres!Writes = Writes
  /\ Postgres!Updates = Updates /\ Postgres!Inserts = Inserts
  /\ \A d, c : Postgres!acceptable(d, c) = acceptable(d, c)
  /\ \A todo, reply : Postgres!follow(todo, reply) = follow(todo, reply)
<1>1. /\ Postgres!table_of = table_of /\ Postgres!Writes = Writes
      /\ Postgres!Updates = Updates /\ Postgres!Inserts = Inserts
  BY DEF table_of, Writes, Updates, Inserts,
         Postgres!table_of, Postgres!Writes, Postgres!Updates, Postgres!Inserts
<1>2. ASSUME NEW d, NEW c
      PROVE  Postgres!acceptable(d, c) = acceptable(d, c)
  BY <1>1, SameStatements, SameForeign DEF acceptable, Postgres!acceptable
<1>3. ASSUME NEW todo, NEW reply
      PROVE  Postgres!follow(todo, reply) = follow(todo, reply)
  BY DEF follow, Postgres!follow, Checks, Postgres!Checks
<1>4. QED
  BY <1>1, <1>2, <1>3

\* The rows that a write reads back, and those that a query returns, are the answer.
LEMMA SameAnswers ==
  ASSUME NEW d, NEW c
  PROVE  /\ c.op \notin Writes => Postgres!answer(d, c) = read(d, c) /\ Postgres!written(d, c) = d
                                  /\ Postgres!acceptable(d, c)
         /\ c.op \in Writes =>
              Postgres!answer(d, c) =
                CASE c.op \in Inserts -> one(with_id(statement(d, c), table_of[c.op], c.at))
                  [] c.op = "delete_workspace" -> one(with_id(d, "workspaces", c.id))
                  [] OTHER -> one(with_id(statement(d, c), table_of[c.op], c.id))
<1>1. Inserts \subseteq Writes /\ Updates \subseteq Writes /\ "delete_workspace" \in Writes \ Inserts
  BY DEF Inserts, Updates, Writes, table_of
<1>2. ASSUME c.op \notin Writes
      PROVE  /\ Postgres!answer(d, c) = read(d, c)
             /\ Postgres!written(d, c) = d
             /\ Postgres!acceptable(d, c)
  <2>1. Postgres!answer(d, c) = read(d, c)
    BY <1>1, <1>2, SameReads, SameCalls DEF Postgres!answer
  <2>2. statement(d, c) = d
    BY <1>2 DEF statement, Writes, table_of
  <2>3. acceptable(d, c)
    BY <1>1, <1>2 DEF acceptable
  <2>4. QED
    BY <2>1, <2>2, <2>3, SameWrites, SameCalls
<1>3. ASSUME c.op \in Writes
      PROVE  Postgres!answer(d, c) =
                CASE c.op \in Inserts -> one(with_id(statement(d, c), table_of[c.op], c.at))
                  [] c.op = "delete_workspace" -> one(with_id(d, "workspaces", c.id))
                  [] OTHER -> one(with_id(statement(d, c), table_of[c.op], c.id))
  BY <1>1, <1>3, SameWrites, SameCalls, SameStatements, SameLists DEF Postgres!answer
<1>4. QED
  BY <1>2, <1>3

-----------------------------------------------------------------------------
(* The specification and its invariant *)

SqliteSpec == (\E asked \in 0..MaxAsked : SqliteInit(asked)) /\ [][SqliteNext]_records_vars

Shown  == {"todo", "at", "reply", "raised", "left"}
Hidden == {"pc", "row"}

\* A caller between calls has no time; one that holds the lock has in its draft what its
\* statement makes of the rows, which nobody has changed since, and reads back the answer.
CallerInv(c) ==
  LET k == callers[c] IN
  /\ DOMAIN k = Shown \cup Hidden
  /\ k.pc \in {"idle", "open", "written", "read"}
  /\ k.pc = "idle" => k.at = 0
  /\ k.pc # "idle" => k.at # 0 /\ k.todo # <<>>
  /\ k.pc \in {"written", "read"} =>
       /\ writer = c /\ current(c).op \in Writes
       /\ acceptable(tables, current(c)) /\ draft = statement(tables, current(c))
  /\ k.pc = "read" => k.row = Postgres!answer(tables, current(c))

StoreInv ==
  /\ callers = [c \in Callers |-> callers[c]]
  /\ now \in Nat /\ now > 0
  /\ \A c \in Callers : CallerInv(c)

LEMMA InitInv ==
  ASSUME NEW asked \in 0..MaxAsked, SqliteInit(asked)
  PROVE  StoreInv
BY RecordsAssumption DEF SqliteInit, StoreInv, CallerInv, Shown, Hidden

\* A step of one caller that leaves alone what the holder of the lock relies on.
LEMMA OthersKeep ==
  ASSUME StoreInv, NEW c \in Callers, NEW new, callers' = [callers EXCEPT ![c] = new],
         now' \in Nat, now' > 0,
         \/ UNCHANGED <<tables, draft, writer>>
         \/ \A d \in Callers \ {c} : callers[d].pc \notin {"written", "read"},
         CallerInv(c)'
  PROVE  StoreInv'
<1>1. \A d \in Callers : callers'[d] = IF d = c THEN new ELSE callers[d]
  BY DEF StoreInv
<1>2. ASSUME NEW d \in Callers \ {c}
      PROVE  CallerInv(d)'
  <2>1. CallerInv(d) /\ callers'[d] = callers[d]
    BY <1>1 DEF StoreInv
  <2>2. current(d)' = current(d)
    BY <2>1 DEF current
  <2>3. QED
    BY <2>1, <2>2 DEF CallerInv
<1>3. callers' = [d \in Callers |-> callers'[d]]
  BY DEF StoreInv
<1>4. QED
  BY <1>2, <1>3 DEF StoreInv

\* Two callers are never in a write transaction together.
LEMMA OneWriter ==
  ASSUME StoreInv, NEW c \in Callers, NEW d \in Callers, writer \in {c, Nobody}, c # d
  PROVE  callers[d].pc \notin {"written", "read"}
BY RecordsAssumption DEF StoreInv, CallerInv

LEMMA NextInv ==
  ASSUME StoreInv, [SqliteNext]_records_vars
  PROVE  StoreInv'
<1>1. CASE UNCHANGED records_vars
  BY <1>1 DEF records_vars, StoreInv, CallerInv, current
<1> SUFFICES ASSUME NEW c \in Callers,
                    \/ AskStore(c) \/ ReadClock(c) \/ Execute(c) \/ ReadBack(c) \/ Commit(c)
                    \/ Query(c) \/ Refuse(c) \/ Fail(c)
             PROVE  StoreInv'
  BY <1>1 DEF SqliteNext
<1>2. CallerInv(c) /\ now \in Nat /\ now > 0 /\ callers = [d \in Callers |-> callers[d]]
  BY DEF StoreInv
<1>3. CASE AskStore(c)
  <2>1. PICK request \in Requests :
          callers' = [callers EXCEPT ![c].todo = request, ![c].raised = FALSE, ![c].left = @ - 1]
    BY <1>3 DEF AskStore
  <2> DEFINE new == [callers[c] EXCEPT !.todo = request, !.raised = FALSE, !.left = @ - 1]
  <2>2. callers' = [callers EXCEPT ![c] = new]
    BY <2>1
  <2>3. callers[c].pc = "idle"
    BY <1>2, <1>3 DEF AskStore, CallerInv
  <2>4. /\ DOMAIN new = Shown \cup Hidden /\ new.pc = "idle" /\ new.at = 0
    BY <1>2, <2>3 DEF CallerInv, Shown, Hidden
  <2> HIDE DEF new
  <2>5. callers'[c] = new
    BY <1>2, <2>2
  <2>6. CallerInv(c)'
    BY <2>4, <2>5 DEF CallerInv
  <2>7. QED
    BY <1>2, <1>3, <2>2, <2>6, OthersKeep DEF AskStore
<1>4. CASE ReadClock(c)
  <2> DEFINE new == [callers[c] EXCEPT !.at = now, !.pc = "open"]
  <2>1. callers' = [callers EXCEPT ![c] = new]
    BY <1>4 DEF ReadClock
  <2>2. /\ DOMAIN new = Shown \cup Hidden /\ new.pc = "open" /\ new.at = now
        /\ new.todo = callers[c].todo
    BY <1>2 DEF CallerInv, Shown, Hidden
  <2> HIDE DEF new
  <2>3. callers'[c] = new
    BY <1>2, <2>1
  <2>4. CallerInv(c)'
    BY <1>2, <1>4, <2>2, <2>3 DEF CallerInv, ReadClock
  <2>5. now' \in Nat /\ now' > 0 /\ UNCHANGED <<tables, draft, writer>>
    BY <1>2, <1>4 DEF ReadClock
  <2>6. QED
    BY <2>1, <2>4, <2>5, OthersKeep
<1>5. CASE Execute(c)
  <2> DEFINE new == [callers[c] EXCEPT !.pc = "written"]
  <2>1. callers' = [callers EXCEPT ![c] = new]
    BY <1>5 DEF Execute
  <2>2. /\ DOMAIN new = Shown \cup Hidden /\ new.pc = "written" /\ new.at = callers[c].at
        /\ new.todo = callers[c].todo
    BY <1>2 DEF CallerInv, Shown, Hidden
  <2> HIDE DEF new
  <2>3. callers'[c] = new /\ current(c)' = current(c)
    BY <1>2, <2>1, <2>2 DEF current
  <2>4. CallerInv(c)'
    BY <1>2, <1>5, <2>2, <2>3 DEF CallerInv, Execute
  <2>5. \A d \in Callers \ {c} : callers[d].pc \notin {"written", "read"}
    BY <1>5, OneWriter DEF Execute, lock_free
  <2>6. QED
    BY <1>2, <1>5, <2>1, <2>4, <2>5, OthersKeep DEF Execute
<1>6. CASE ReadBack(c)
  <2> DEFINE new == [callers[c] EXCEPT !.pc = "read", !.row = read_back(current(c))]
  <2>1. callers' = [callers EXCEPT ![c] = new]
    BY <1>6 DEF ReadBack
  <2>2. /\ DOMAIN new = Shown \cup Hidden /\ new.pc = "read" /\ new.at = callers[c].at
        /\ new.todo = callers[c].todo /\ new.row = read_back(current(c))
    BY <1>2 DEF CallerInv, Shown, Hidden
  <2> HIDE DEF new
  <2>3. callers'[c] = new /\ current(c)' = current(c)
    BY <1>2, <2>1, <2>2 DEF current
  <2>4. read_back(current(c)) = Postgres!answer(tables, current(c))
    BY <1>2, <1>6, SameAnswers DEF read_back, CallerInv, ReadBack
  <2>5. CallerInv(c)'
    BY <1>2, <1>6, <2>2, <2>3, <2>4 DEF CallerInv, ReadBack, Postgres!answer
  <2>6. QED
    BY <1>2, <1>6, <2>1, <2>5, OthersKeep DEF ReadBack
<1>7. CASE Commit(c)
  <2> DEFINE new == returned(callers[c], callers[c].row)
  <2>1. callers' = [callers EXCEPT ![c] = new]
    BY <1>7 DEF Commit
  <2>2. DOMAIN new = Shown \cup Hidden /\ new.pc = "idle" /\ new.at = 0
    BY <1>2 DEF CallerInv, Shown, Hidden, returned
  <2> HIDE DEF new
  <2>3. callers'[c] = new
    BY <1>2, <2>1
  <2>4. CallerInv(c)'
    BY <2>2, <2>3 DEF CallerInv
  <2>5. writer = c
    BY <1>2, <1>7 DEF CallerInv, Commit
  <2>6. \A d \in Callers \ {c} : callers[d].pc \notin {"written", "read"}
    BY <2>5, OneWriter
  <2>7. QED
    BY <1>2, <1>7, <2>1, <2>4, <2>6, OthersKeep DEF Commit
<1>8. CASE Query(c)
  <2> DEFINE new == returned(callers[c], read(tables, current(c)))
  <2>1. callers' = [callers EXCEPT ![c] = new]
    BY <1>8 DEF Query
  <2>2. DOMAIN new = Shown \cup Hidden /\ new.pc = "idle" /\ new.at = 0
    BY <1>2 DEF CallerInv, Shown, Hidden, returned
  <2> HIDE DEF new
  <2>3. callers'[c] = new
    BY <1>2, <2>1
  <2>4. CallerInv(c)'
    BY <2>2, <2>3 DEF CallerInv
  <2>5. QED
    BY <1>2, <1>8, <2>1, <2>4, OthersKeep DEF Query
<1>9. CASE Refuse(c) \/ Fail(c)
  <2> DEFINE new == failed(callers[c])
  <2>1. callers' = [callers EXCEPT ![c] = new] /\ now' = now
    BY <1>9 DEF Refuse, Fail
  <2>2. DOMAIN new = Shown \cup Hidden /\ new.pc = "idle" /\ new.at = 0
    BY <1>2 DEF CallerInv, Shown, Hidden, failed
  <2> HIDE DEF new
  <2>3. callers'[c] = new
    BY <1>2, <2>1
  <2>4. CallerInv(c)'
    BY <2>2, <2>3 DEF CallerInv
  <2>5. \/ UNCHANGED <<tables, draft, writer>>
        \/ \A d \in Callers \ {c} : callers[d].pc \notin {"written", "read"}
    BY <1>9, OneWriter DEF Refuse, Fail
  <2>6. QED
    BY <1>2, <2>1, <2>4, <2>5, OthersKeep
<1>10. QED
  BY <1>3, <1>4, <1>5, <1>6, <1>7, <1>8, <1>9

-----------------------------------------------------------------------------
(* Every step is one of the Postgres store, or shows nothing *)

clients == [c \in Callers |-> seen(callers[c])]

LEMMA ClientsChange ==
  ASSUME StoreInv, NEW c \in Callers, NEW new, callers' = [callers EXCEPT ![c] = new]
  PROVE  /\ clients' = [clients EXCEPT ![c] = seen(new)] /\ clients[c] = seen(callers[c])
         /\ \A f \in Shown : seen(callers[c])[f] = callers[c][f]
         /\ DOMAIN seen(callers[c]) = Shown /\ clients = [d \in Callers |-> clients[d]]
BY DEF StoreInv, clients, seen, Shown

\* An update of several fields of one client, field by field or at once.
LEMMA Fieldwise ==
  ASSUME NEW f, NEW c \in Callers, f = [d \in Callers |-> f[d]], NEW todo, NEW at, NEW reply, NEW left
  PROVE  /\ [f EXCEPT ![c].at = at] = [f EXCEPT ![c] = [f[c] EXCEPT !.at = at]]
         /\ [f EXCEPT ![c].todo = todo, ![c].at = at, ![c].raised = FALSE, ![c].left = left]
              = [f EXCEPT ![c] = [f[c] EXCEPT !.todo = todo, !.at = at, !.raised = FALSE, !.left = left]]
         /\ [f EXCEPT ![c].todo = todo, ![c].at = at, ![c].reply = reply]
              = [f EXCEPT ![c] = [f[c] EXCEPT !.todo = todo, !.at = at, !.reply = reply]]
         /\ [f EXCEPT ![c].todo = todo, ![c].at = at, ![c].raised = TRUE]
              = [f EXCEPT ![c] = [f[c] EXCEPT !.todo = todo, !.at = at, !.raised = TRUE]]
OBVIOUS

LEMMA StoreStep ==
  ASSUME StoreInv, [SqliteNext]_records_vars
  PROVE  [Postgres!RecordsNext]_<<tables, now, clients>>
<1>1. CASE UNCHANGED records_vars
  BY <1>1 DEF records_vars, clients
<1> SUFFICES ASSUME NEW c \in Callers,
                    \/ AskStore(c) \/ ReadClock(c) \/ Execute(c) \/ ReadBack(c) \/ Commit(c)
                    \/ Query(c) \/ Refuse(c) \/ Fail(c)
             PROVE  [Postgres!RecordsNext]_<<tables, now, clients>>
  BY <1>1 DEF SqliteNext
<1> DEFINE k == callers[c]
<1>2. CallerInv(c)
  BY DEF StoreInv
<1>3. CASE AskStore(c)
  <2>1. PICK request \in Requests :
          callers' = [callers EXCEPT ![c].todo = request, ![c].raised = FALSE, ![c].left = @ - 1]
    BY <1>3 DEF AskStore
  <2> DEFINE new == [k EXCEPT !.todo = request, !.raised = FALSE, !.left = @ - 1]
  <2>2. callers' = [callers EXCEPT ![c] = new]
    BY <2>1
  <2>3. k.at = 0
    BY <1>2, <1>3 DEF AskStore, CallerInv
  <2>4. seen(new) = [seen(k) EXCEPT !.todo = request, !.at = 0, !.raised = FALSE, !.left = @ - 1]
    BY <1>2, <2>3 DEF seen, CallerInv, Shown, Hidden
  <2>5. clients' = [clients EXCEPT ![c].todo = request, ![c].at = 0, ![c].raised = FALSE, ![c].left = @ - 1]
    <3> HIDE DEF new
    <3>1. clients' = [clients EXCEPT ![c] = seen(new)] /\ clients[c] = seen(k)
      BY <2>2, <2>4, ClientsChange
    <3>2. clients' = [clients EXCEPT ![c] = [clients[c] EXCEPT !.todo = request, !.at = 0, !.raised = FALSE, !.left = @ - 1]]
      BY <2>2, <2>4, <3>1
    <3>3. clients = [d \in Callers |-> clients[d]]
      BY DEF clients
    <3>4. QED
      BY <3>2, <3>3, Fieldwise
  <2>6. clients[c].todo = <<>> /\ clients[c].left > 0
    BY <1>3, <2>2, ClientsChange DEF AskStore, Shown
  <2>7. Postgres!Ask(c)
    BY <1>3, <2>5, <2>6 DEF AskStore, Postgres!Ask, clients
  <2>8. QED
    BY <2>7 DEF Postgres!RecordsNext
<1>4. CASE ReadClock(c)
  <2> DEFINE new == [k EXCEPT !.at = now, !.pc = "open"]
  <2>1. callers' = [callers EXCEPT ![c] = new]
    BY <1>4 DEF ReadClock
  <2>2. seen(new) = [seen(k) EXCEPT !.at = now]
    BY <1>2 DEF seen, CallerInv, Shown, Hidden
  <2>3. clients' = [clients EXCEPT ![c].at = now]
    <3> HIDE DEF new
    <3>1. clients' = [clients EXCEPT ![c] = seen(new)] /\ clients[c] = seen(k)
      BY <2>1, <2>2, ClientsChange
    <3>2. clients' = [clients EXCEPT ![c] = [clients[c] EXCEPT !.at = now]]
      BY <2>1, <2>2, <3>1
    <3>3. clients = [d \in Callers |-> clients[d]]
      BY DEF clients
    <3>4. QED
      BY <3>2, <3>3, Fieldwise
  <2>4. clients[c].todo # <<>> /\ clients[c].at = 0
    BY <1>2, <1>4, <2>1, ClientsChange DEF ReadClock, CallerInv, Shown
  <2>5. Postgres!Begin(c)
    BY <1>4, <2>3, <2>4 DEF ReadClock, Postgres!Begin, clients
  <2>6. QED
    BY <2>5 DEF Postgres!RecordsNext
<1>5. CASE Execute(c) \/ ReadBack(c)
  <2>1. PICK new : callers' = [callers EXCEPT ![c] = new] /\ seen(new) = seen(k) /\ UNCHANGED <<tables, now>>
    <3>1. CASE Execute(c)
      <4> DEFINE new == [k EXCEPT !.pc = "written"]
      <4>1. seen(new) = seen(k)
        BY <1>2 DEF seen, CallerInv, Shown, Hidden
      <4>2. QED
        BY <3>1, <4>1 DEF Execute
    <3>2. CASE ReadBack(c)
      <4> DEFINE new == [k EXCEPT !.pc = "read", !.row = read_back(current(c))]
      <4>1. seen(new) = seen(k)
        BY <1>2 DEF seen, CallerInv, Shown, Hidden
      <4>2. QED
        BY <3>2, <4>1 DEF ReadBack
    <3>3. QED
      BY <1>5, <3>1, <3>2
  <2>2. clients' = [clients EXCEPT ![c] = clients[c]]
    BY <2>1, ClientsChange
  <2>3. clients' = clients
    BY <2>2 DEF clients
  <2>4. QED
    BY <2>1, <2>3
<1>6. ASSUME NEW reply, Commit(c) \/ Query(c), callers' = [callers EXCEPT ![c] = returned(k, reply)],
             reply = Postgres!answer(tables, current(c)), acceptable(tables, current(c)),
             tables' = statement(tables, current(c)), now' = now, k.pc # "idle"
      PROVE  Postgres!Run(c)
  <2> DEFINE new == returned(k, reply)
  <2>1. /\ callers' = [callers EXCEPT ![c] = new]
        /\ seen(new) = [seen(k) EXCEPT !.todo = follow(@, reply), !.at = 0, !.reply = reply]
    BY <1>2, <1>6 DEF seen, returned, CallerInv, Shown, Hidden
  <2>2. clients' = [clients EXCEPT ![c].todo = follow(@, reply), ![c].at = 0, ![c].reply = reply]
    <3> HIDE DEF new
    <3>1. clients' = [clients EXCEPT ![c] = seen(new)] /\ clients[c] = seen(k)
      BY <2>1, ClientsChange
    <3>2. clients' = [clients EXCEPT ![c] = [clients[c] EXCEPT !.todo = follow(@, reply), !.at = 0, !.reply = reply]]
      BY <2>1, <3>1
    <3>3. clients = [d \in Callers |-> clients[d]]
      BY DEF clients
    <3>4. QED
      BY <3>2, <3>3, Fieldwise
  <2>3. /\ clients[c].todo = k.todo /\ clients[c].at = k.at /\ k.todo # <<>> /\ k.at # 0
    BY <1>2, <1>6, ClientsChange DEF CallerInv, Shown
  <2>4. current(c) = Head(clients[c].todo) @@ [at |-> clients[c].at]
    BY <2>3 DEF current
  <2>5. Postgres!acceptable(tables, current(c)) /\ tables' = Postgres!written(tables, current(c))
    BY <1>6, SameCalls, SameWrites
  <2>6. clients' = [clients EXCEPT ![c].todo = Postgres!follow(@, reply), ![c].at = 0, ![c].reply = reply]
    BY <2>2, SameCalls
  <2>7. QED
    BY <1>6, <2>3, <2>4, <2>5, <2>6 DEF Postgres!Run, clients
<1>7. CASE Commit(c)
  <2>1. /\ callers' = [callers EXCEPT ![c] = returned(k, k.row)] /\ tables' = draft /\ now' = now
        /\ k.pc = "read"
    BY <1>7 DEF Commit
  <2>2. /\ k.row = Postgres!answer(tables, current(c)) /\ draft = statement(tables, current(c))
        /\ acceptable(tables, current(c))
    BY <1>2, <2>1 DEF CallerInv
  <2>3. QED
    BY <1>6, <1>7, <2>1, <2>2 DEF Postgres!RecordsNext
<1>8. CASE Query(c)
  <2>1. /\ callers' = [callers EXCEPT ![c] = returned(k, read(tables, current(c)))] /\ tables' = tables
        /\ now' = now /\ k.pc = "open" /\ current(c).op \notin Writes
    BY <1>8 DEF Query
  <2>2. /\ read(tables, current(c)) = Postgres!answer(tables, current(c))
        /\ statement(tables, current(c)) = tables /\ acceptable(tables, current(c))
    BY <2>1, SameAnswers, SameWrites, SameCalls
  <2>3. QED
    BY <1>6, <1>8, <2>1, <2>2 DEF Postgres!RecordsNext
<1>9. CASE Refuse(c) \/ Fail(c)
  <2> DEFINE new == failed(k)
  <2>1. /\ callers' = [callers EXCEPT ![c] = new] /\ UNCHANGED <<tables, now>>
        /\ k.pc \in {"open", "written", "read"}
    BY <1>9 DEF Refuse, Fail
  <2>2. seen(new) = [seen(k) EXCEPT !.todo = <<>>, !.at = 0, !.raised = TRUE]
    BY <1>2 DEF seen, failed, CallerInv, Shown, Hidden
  <2>3. clients' = [clients EXCEPT ![c].todo = <<>>, ![c].at = 0, ![c].raised = TRUE]
    <3> HIDE DEF new
    <3>1. clients' = [clients EXCEPT ![c] = seen(new)] /\ clients[c] = seen(k)
      BY <2>1, <2>2, ClientsChange
    <3>2. clients' = [clients EXCEPT ![c] = [clients[c] EXCEPT !.todo = <<>>, !.at = 0, !.raised = TRUE]]
      BY <2>1, <2>2, <3>1
    <3>3. clients = [d \in Callers |-> clients[d]]
      BY DEF clients
    <3>4. QED
      BY <3>2, <3>3, Fieldwise
  <2>4. clients[c].todo # <<>>
    BY <1>2, <2>1, ClientsChange DEF CallerInv, Shown
  <2>5. Postgres!Raise(c)
    BY <2>1, <2>3, <2>4 DEF Postgres!Raise, clients
  <2>6. QED
    BY <2>5 DEF Postgres!RecordsNext
<1>10. QED
  BY <1>3, <1>4, <1>5, <1>7, <1>8, <1>9

\* Whatever calls to the SQLite store overlap, are refused or fail, its callers see what the
\* Postgres store would have shown them: each call takes effect at once, with its answer, or
\* raises and leaves nothing (_connection of the SQLite store).
THEOREM SqliteActsAsPostgres == SqliteSpec => ActsAsPostgres
<1>1. (\E asked \in 0..MaxAsked : SqliteInit(asked)) => StoreInv /\ Postgres!RecordsInit
  <2>1. SUFFICES ASSUME NEW asked \in 0..MaxAsked, SqliteInit(asked)
                 PROVE  StoreInv /\ Postgres!RecordsInit
    OBVIOUS
  <2>2. StoreInv
    BY <2>1, InitInv
  <2>3. clients = [c \in Callers |-> [todo |-> <<>>, at |-> 0, reply |-> <<>>, raised |-> FALSE, left |-> asked]]
    <3>1. ASSUME NEW c \in Callers
          PROVE  seen(callers[c]) = [todo |-> <<>>, at |-> 0, reply |-> <<>>, raised |-> FALSE, left |-> asked]
      <4>1. callers[c] = [todo |-> <<>>, at |-> 0, reply |-> <<>>, raised |-> FALSE,
                          left |-> asked, pc |-> "idle", row |-> <<>>]
        BY <2>1 DEF SqliteInit
      <4> DEFINE k == callers[c]
      <4>2. /\ k.todo = <<>> /\ k.at = 0 /\ k.reply = <<>> /\ k.raised = FALSE /\ k.left = asked
        BY <4>1
      <4> HIDE DEF k
      <4>3. seen(k) = [f \in {"todo", "at", "reply", "raised", "left"} |-> k[f]]
        BY DEF seen
      <4>4. seen(k) = [todo |-> <<>>, at |-> 0, reply |-> <<>>, raised |-> FALSE, left |-> asked]
        BY <4>2, <4>3
      <4>5. QED
        BY <4>4 DEF k
    <3>2. QED
      BY <3>1 DEF clients
  <2>4. QED
    BY <2>1, <2>2, <2>3 DEF SqliteInit, Postgres!RecordsInit, clients
<1>2. StoreInv /\ [SqliteNext]_records_vars => StoreInv'
  BY NextInv
<1>3. StoreInv /\ [SqliteNext]_records_vars => [Postgres!RecordsNext]_<<tables, now, clients>>
  BY StoreStep
<1>4. QED
  BY <1>1, <1>2, <1>3, PTL DEF SqliteSpec, ActsAsPostgres, Postgres!RecordsSpec, clients

-----------------------------------------------------------------------------
(* One prompt to the providers *)

\* The parts of one attempt at one provider, in order.
Parts(provider, attempt, count) == [n \in 1..count |-> <<provider, attempt, n>>]

Busy == {"connecting", "reading"}
CallPlaces == {"idle", "choosing", "waiting", "expired", "streaming", "returned", "raised"}

\* The records and the places they go through together.
PlacesInv ==
  /\ DOMAIN call = {"pc", "mode", "asked", "left"} /\ call = [f \in DOMAIN call |-> call[f]]
  /\ DOMAIN thread = {"pc", "provider", "attempt", "parts"} /\ thread = [f \in DOMAIN thread |-> thread[f]]
  /\ call.pc \in CallPlaces
  /\ thread.pc \in Busy \union Finished \union {"idle"}
  /\ thread.pc = "idle" <=> call.pc \in {"idle", "choosing", "raised"}
  /\ call.pc = "streaming" => call.mode = "stream"
  /\ call.pc \in {"idle", "choosing", "waiting", "expired"} => call.mode = "complete"

\* What a thread has so far, and what the caller has of it.
PartsInv ==
  /\ Len(thread.parts) \in Nat
  /\ thread.parts = Parts(thread.provider, thread.attempt, Len(thread.parts))
  /\ thread.pc \in {"connecting", "idle"} => thread.parts = <<>>
  /\ Len(output) \in Nat
  /\ output = Parts(output[1][1], output[1][2], Len(output))
  /\ call.mode = "complete" /\ call.pc # "returned" => output = <<>>
  /\ call.pc = "idle" => output = <<>>
  /\ call.mode = "stream" /\ thread.pc \in Busy => output = thread.parts

\* A timer that expired, and nothing else, leaves room for another whole answer.
AnswersInv ==
  /\ answers \in Nat /\ expirations \in Nat
  /\ answers + (IF call.pc = "expired" THEN 1 ELSE 0)
       <= expirations + (IF thread.pc = "ended" THEN 1 ELSE 0)

\* A provider asked for by name is the only one that is tried.
AskedInv ==
  /\ call.pc = "idle" => prompted = {}
  /\ call.asked # NoProvider =>
       /\ call.left \in {<<>>, <<call.asked>>}
       /\ thread.pc # "idle" => thread.provider = call.asked
       /\ prompted \subseteq {call.asked}

CallInv == PlacesInv /\ PartsInv /\ AnswersInv /\ AskedInv

LEMMA PartsGrow ==
  ASSUME NEW p, NEW a, NEW k \in Nat
  PROVE  /\ Len(Parts(p, a, k)) = k /\ (k = 0 <=> Parts(p, a, k) = <<>>)
         /\ Append(Parts(p, a, k), <<p, a, k + 1>>) = Parts(p, a, k + 1)
         /\ \A n \in 1..k : Parts(p, a, k)[n] = <<p, a, n>>
<1> DEFINE S == {<<p, a, n>> : n \in Nat}
<1>1. Parts(p, a, k) \in Seq(S) /\ Parts(p, a, k + 1) \in Seq(S)
  BY DEF Parts
<1>2. Len(Parts(p, a, k)) = k /\ (k = 0 <=> Parts(p, a, k) = <<>>)
  BY <1>1 DEF Parts
<1>3. \A n \in 1..k : Parts(p, a, k)[n] = <<p, a, n>>
  BY DEF Parts
<1>4. Append(Parts(p, a, k), <<p, a, k + 1>>) = Parts(p, a, k + 1)
  <2>1. <<p, a, k + 1>> \in S /\ Len(Parts(p, a, k + 1)) = k + 1
    BY <1>1 DEF Parts
  <2>2. /\ Append(Parts(p, a, k), <<p, a, k + 1>>) \in Seq(S)
        /\ Len(Append(Parts(p, a, k), <<p, a, k + 1>>)) = k + 1
    BY <1>1, <1>2, <2>1
  <2>3. \A n \in 1..(k + 1) : Append(Parts(p, a, k), <<p, a, k + 1>>)[n] = Parts(p, a, k + 1)[n]
    BY <1>1, <1>2, <2>1 DEF Parts
  <2> HIDE DEF S
  <2>4. QED
    BY <1>1, <2>1, <2>2, <2>3
<1>5. QED
  BY <1>2, <1>3, <1>4

LEMMA CallStarts ==
  ASSUME NEW choices, ProviderInit(choices)
  PROVE  CallInv
<1>1. <<>> = Parts(Quiet.provider, Quiet.attempt, 0)
  BY PartsGrow
<1>2. output = Parts(output[1][1], output[1][2], 0) /\ output = <<>>
  BY PartsGrow DEF ProviderInit
<1>3. PlacesInv
  BY DEF ProviderInit, PlacesInv, Quiet, CallPlaces, Busy, Finished
<1>4. PartsInv
  BY <1>1, <1>2 DEF ProviderInit, PartsInv, Quiet, Busy
<1>5. AnswersInv /\ AskedInv
  BY DEF ProviderInit, AnswersInv, AskedInv, Quiet
<1>6. QED
  BY <1>3, <1>4, <1>5 DEF CallInv

LEMMA Candidates ==
  ASSUME NEW asked, asked # NoProvider
  PROVE  provider_candidates(asked) = <<asked>>
BY DEF provider_candidates, resolve_provider_name

LEMMA OneLeft ==
  ASSUME NEW p
  PROVE  Head(<<p>>) = p /\ Tail(<<p>>) = <<>>
OBVIOUS

LEMMA CallStep ==
  ASSUME CallInv, ProviderNext
  PROVE  CallInv'
<1>0. /\ PlacesInv /\ PartsInv /\ AnswersInv /\ AskedInv
  BY DEF CallInv
<1>q. /\ Quiet.pc = "idle" /\ Quiet.parts = <<>> /\ Len(Quiet.parts) = 0
      /\ Quiet.parts = Parts(Quiet.provider, Quiet.attempt, 0)
      /\ DOMAIN Quiet = {"pc", "provider", "attempt", "parts"}
      /\ Quiet = [f \in DOMAIN Quiet |-> Quiet[f]]
  BY PartsGrow DEF Quiet
<1>s. ASSUME NEW p
      PROVE  /\ submitted(p).pc = "connecting" /\ submitted(p).provider = p
             /\ submitted(p).parts = <<>> /\ Len(submitted(p).parts) = 0
             /\ submitted(p).parts = Parts(submitted(p).provider, submitted(p).attempt, 0)
             /\ DOMAIN submitted(p) = {"pc", "provider", "attempt", "parts"}
             /\ submitted(p) = [f \in DOMAIN submitted(p) |-> submitted(p)[f]]
  BY PartsGrow DEF submitted, Quiet
<1>1. CASE Prompt
  <2>1. PICK asked \in {NoProvider} \cup KnownProviders, mode \in {"complete", "stream"} :
          LET name == resolve_provider_name(asked)
              pc == IF mode = "complete" THEN "choosing"
                    ELSE IF name \in settings.configured THEN "streaming" ELSE "raised"
          IN  /\ call' = [pc |-> pc, mode |-> mode, asked |-> asked,
                          left |-> IF mode = "complete" THEN provider_candidates(asked) ELSE <<>>]
              /\ thread' = IF pc = "streaming" THEN submitted(name) ELSE Quiet
    BY <1>1 DEF Prompt
  <2>2. call.pc = "idle" /\ UNCHANGED <<settings, output, answers, expirations, prompted>>
    BY <1>1 DEF Prompt
  <2>3. /\ output = <<>> /\ prompted = {} /\ call.mode = "complete" /\ thread.pc = "idle"
    BY <1>0, <2>2 DEF PlacesInv, PartsInv, AskedInv
  <2>4. call'.asked = asked /\ call'.mode = mode
    BY <2>1
  <2>5. call'.pc = IF mode = "complete" THEN "choosing"
                   ELSE IF resolve_provider_name(asked) \in settings.configured THEN "streaming" ELSE "raised"
    BY <2>1
  <2>6. thread' = IF call'.pc = "streaming" THEN submitted(resolve_provider_name(asked)) ELSE Quiet
    BY <2>1
  <2>7. call'.left = IF mode = "complete" THEN provider_candidates(asked) ELSE <<>>
    BY <2>1
  <2>8. PlacesInv'
    BY <1>q, <1>s, <2>1, <2>4, <2>5, <2>6 DEF PlacesInv, CallPlaces, Busy, Finished
  <2>9. PartsInv'
    BY <1>0, <1>q, <1>s, <2>2, <2>3, <2>4, <2>5, <2>6 DEF PartsInv, Busy
  <2>10. AnswersInv'
    BY <1>0, <1>q, <1>s, <2>2, <2>3, <2>5, <2>6 DEF AnswersInv
  <2>11. AskedInv'
    BY <1>q, <1>s, <2>2, <2>3, <2>4, <2>5, <2>6, <2>7, Candidates DEF AskedInv, resolve_provider_name
  <2>12. QED
    BY <2>8, <2>9, <2>10, <2>11 DEF CallInv
<1>2. CASE TryNext
  <2>1. /\ call.pc = "choosing" /\ call.mode = "complete" /\ thread.pc = "idle" /\ output = <<>>
        /\ UNCHANGED <<settings, output, answers, expirations, prompted>>
    BY <1>0, <1>2 DEF TryNext, PlacesInv, PartsInv
  <2>2. CASE /\ call.left # <<>> /\ thread' = submitted(Head(call.left))
             /\ call' = [call EXCEPT !.pc = "waiting", !.left = Tail(@)]
    <3>1. /\ call'.pc = "waiting" /\ call'.mode = "complete" /\ call'.asked = call.asked
          /\ call'.left = Tail(call.left)
          /\ DOMAIN call' = DOMAIN call /\ call' = [f \in DOMAIN call' |-> call'[f]]
      BY <1>0, <2>1, <2>2 DEF PlacesInv
    <3>2. PlacesInv'
      BY <1>0, <1>s, <2>1, <2>2, <3>1 DEF PlacesInv, CallPlaces, Busy, Finished
    <3>3. PartsInv'
      BY <1>0, <1>s, <2>1, <2>2, <3>1 DEF PartsInv, Busy
    <3>4. AnswersInv'
      BY <1>0, <1>s, <2>1, <2>2, <3>1 DEF AnswersInv
    <3>5. AskedInv'
      <4>1. ASSUME call.asked # NoProvider
            PROVE  Head(call.left) = call.asked /\ Tail(call.left) = <<>>
        BY <1>0, <2>2, <4>1, OneLeft DEF AskedInv
      <4>2. QED
        BY <1>0, <1>s, <2>1, <2>2, <3>1, <4>1 DEF AskedInv
    <3>6. QED
      BY <3>2, <3>3, <3>4, <3>5 DEF CallInv
  <2>3. CASE /\ UNCHANGED thread
             /\ \/ call.left = <<>> /\ call' = [call EXCEPT !.pc = "raised"]
                \/ call.left # <<>> /\ call' = [call EXCEPT !.left = Tail(@)]
    <3>1. /\ call'.pc \in {"raised", "choosing"} /\ call'.mode = "complete"
          /\ call'.asked = call.asked
          /\ call'.left = IF call.left = <<>> THEN <<>> ELSE Tail(call.left)
      BY <1>0, <2>1, <2>3 DEF PlacesInv
    <3>2. PlacesInv'
      BY <1>0, <2>1, <2>3, <3>1 DEF PlacesInv, CallPlaces, Busy, Finished
    <3>3. PartsInv'
      BY <1>0, <2>1, <2>3, <3>1 DEF PartsInv, Busy
    <3>4. AnswersInv'
      BY <1>0, <2>1, <2>3, <3>1 DEF AnswersInv
    <3>5. AskedInv'
      <4>1. ASSUME call.asked # NoProvider
            PROVE  call'.left = <<>>
        BY <1>0, <3>1, <4>1, OneLeft DEF AskedInv
      <4>2. QED
        BY <1>0, <2>1, <2>3, <3>1, <4>1 DEF AskedInv
    <3>6. QED
      BY <3>2, <3>3, <3>4, <3>5 DEF CallInv
  <2>4. QED
    BY <1>2, <2>2, <2>3 DEF TryNext
<1>3. CASE Expire
  <2>1. /\ call.pc = "waiting" /\ call.mode = "complete" /\ thread.pc \notin Finished
        /\ call'.pc = "expired" /\ call'.mode = "complete" /\ call'.asked = call.asked
        /\ call'.left = call.left /\ DOMAIN call' = DOMAIN call /\ call' = [f \in DOMAIN call' |-> call'[f]]
        /\ expirations' = expirations + 1 /\ UNCHANGED <<thread, output, answers, prompted>>
    BY <1>0, <1>3 DEF Expire, PlacesInv
  <2>2. PlacesInv' /\ PartsInv' /\ AskedInv'
    BY <1>0, <2>1 DEF PlacesInv, PartsInv, AskedInv, CallPlaces
  <2>3. AnswersInv'
    BY <1>0, <2>1 DEF AnswersInv, Finished
  <2>4. QED
    BY <2>2, <2>3 DEF CallInv
<1>4. CASE Return
  <2>1. /\ call.pc \in {"waiting", "streaming"} /\ thread.pc = "ended"
        /\ call'.pc = "returned" /\ call'.mode = call.mode /\ call'.asked = call.asked
        /\ call'.left = call.left /\ DOMAIN call' = DOMAIN call /\ call' = [f \in DOMAIN call' |-> call'[f]]
        /\ output' = thread.parts /\ UNCHANGED <<thread, answers, expirations, prompted>>
    BY <1>0, <1>4 DEF Return, PlacesInv
  <2>2. thread.parts = Parts(thread.parts[1][1], thread.parts[1][2], Len(thread.parts))
    <3>1. Len(thread.parts) \in Nat
          /\ thread.parts = Parts(thread.provider, thread.attempt, Len(thread.parts))
      BY <1>0 DEF PartsInv
    <3>2. CASE Len(thread.parts) = 0
      BY <3>1, <3>2, PartsGrow
    <3>3. CASE Len(thread.parts) # 0
      <4>1. thread.parts[1] = <<thread.provider, thread.attempt, 1>>
        BY <3>1, <3>3 DEF Parts
      <4>2. QED
        BY <3>1, <4>1
    <3>4. QED
      BY <3>2, <3>3
  <2>3. PlacesInv' /\ AskedInv' /\ AnswersInv'
    BY <1>0, <2>1 DEF PlacesInv, AskedInv, AnswersInv, CallPlaces
  <2>4. PartsInv'
    BY <1>0, <2>1, <2>2 DEF PartsInv, Busy
  <2>5. QED
    BY <2>3, <2>4 DEF CallInv
<1>5. CASE GiveUp
  <2>1. /\ \/ call.pc = "waiting" /\ thread.pc = "failed"
           \/ call.pc = "expired" /\ thread.pc \in Finished
           \/ call.pc = "streaming" /\ thread.pc = "failed"
        /\ call'.pc = (IF call.mode = "stream" THEN "raised" ELSE "choosing")
        /\ call'.mode = call.mode /\ call'.asked = call.asked
        /\ call'.left = call.left /\ DOMAIN call' = DOMAIN call /\ call' = [f \in DOMAIN call' |-> call'[f]]
        /\ thread' = Quiet /\ UNCHANGED <<output, answers, expirations, prompted>>
    BY <1>0, <1>5 DEF GiveUp, PlacesInv
  <2>2. PlacesInv'
    BY <1>0, <1>q, <2>1 DEF PlacesInv, CallPlaces
  <2>3. PartsInv'
    BY <1>0, <1>q, <2>1 DEF PartsInv, PlacesInv, Busy
  <2>4. AnswersInv' /\ AskedInv'
    BY <1>0, <1>q, <2>1 DEF AnswersInv, AskedInv, Finished
  <2>5. QED
    BY <2>2, <2>3, <2>4 DEF CallInv
<1>6. CASE Answer
  <2>1. /\ thread.pc = "connecting" /\ thread'.pc = "ended" /\ thread'.provider = thread.provider
        /\ thread'.attempt = thread.attempt /\ DOMAIN thread' = DOMAIN thread
        /\ thread' = [f \in DOMAIN thread' |-> thread'[f]]
        /\ thread'.parts = <<<<thread.provider, thread.attempt, 1>>>>
        /\ answers' = answers + 1 /\ prompted' = prompted \cup {thread.provider}
        /\ UNCHANGED <<call, output, expirations>>
    BY <1>0, <1>6 DEF Answer, PlacesInv
  <2>2. /\ thread'.parts = Parts(thread'.provider, thread'.attempt, 1) /\ Len(thread'.parts) = 1
    BY <2>1, PartsGrow DEF Parts
  <2>3. PlacesInv'
    BY <1>0, <2>1 DEF PlacesInv, Finished, Busy
  <2>4. PartsInv'
    BY <1>0, <2>1, <2>2 DEF PartsInv, Busy
  <2>5. AnswersInv'
    BY <1>0, <2>1 DEF AnswersInv
  <2>6. AskedInv'
    BY <1>0, <2>1 DEF AskedInv, PlacesInv
  <2>7. QED
    BY <2>3, <2>4, <2>5, <2>6 DEF CallInv
<1>7. CASE Open
  <2>1. /\ thread.pc = "connecting" /\ thread'.pc = "reading" /\ thread'.provider = thread.provider
        /\ thread'.attempt = thread.attempt /\ DOMAIN thread' = DOMAIN thread
        /\ thread' = [f \in DOMAIN thread' |-> thread'[f]] /\ thread'.parts = thread.parts
        /\ prompted' = prompted \cup {thread.provider}
        /\ UNCHANGED <<call, output, answers, expirations>>
    BY <1>0, <1>7 DEF Open, PlacesInv
  <2>2. PlacesInv'
    BY <1>0, <2>1 DEF PlacesInv, Finished, Busy
  <2>3. PartsInv'
    BY <1>0, <2>1 DEF PartsInv, Busy
  <2>4. AnswersInv' /\ AskedInv'
    BY <1>0, <2>1 DEF AnswersInv, AskedInv, PlacesInv
  <2>5. QED
    BY <2>2, <2>3, <2>4 DEF CallInv
<1>8. CASE Chunk
  <2> DEFINE part == <<thread.provider, thread.attempt, Len(thread.parts) + 1>>
  <2>1. /\ thread.pc = "reading" /\ thread'.pc = "reading" /\ thread'.provider = thread.provider
        /\ thread'.attempt = thread.attempt /\ DOMAIN thread' = DOMAIN thread
        /\ thread' = [f \in DOMAIN thread' |-> thread'[f]] /\ thread'.parts = Append(thread.parts, part)
        /\ output' = (IF call.mode = "stream" THEN Append(output, part) ELSE output)
        /\ UNCHANGED <<call, answers, expirations, prompted>>
    BY <1>0, <1>8 DEF Chunk, PlacesInv
  <2>2. /\ thread'.parts = Parts(thread.provider, thread.attempt, Len(thread.parts) + 1)
        /\ Len(thread'.parts) = Len(thread.parts) + 1 /\ Len(thread.parts) \in Nat
        /\ thread'.parts[1] = <<thread.provider, thread.attempt, 1>>
    <3>1. Len(thread.parts) \in Nat
          /\ thread.parts = Parts(thread.provider, thread.attempt, Len(thread.parts))
      BY <1>0 DEF PartsInv
    <3>2. thread'.parts = Parts(thread.provider, thread.attempt, Len(thread.parts) + 1)
      BY <2>1, <3>1, PartsGrow
    <3>3. Parts(thread.provider, thread.attempt, Len(thread.parts) + 1)[1] =
            <<thread.provider, thread.attempt, 1>>
      BY <3>1 DEF Parts
    <3>4. Len(Parts(thread.provider, thread.attempt, Len(thread.parts) + 1)) = Len(thread.parts) + 1
      <4>1. Len(thread.parts) + 1 \in Nat
        BY <3>1
      <4>2. QED
        BY <4>1, PartsGrow
    <3>5. QED
      BY <3>1, <3>2, <3>3, <3>4
  <2> HIDE DEF part
  <2>3. PlacesInv'
    BY <1>0, <2>1 DEF PlacesInv, Finished, Busy
  <2>4. PartsInv'
    <3>1. CASE call.mode = "stream"
      <4>1. output' = thread'.parts
        BY <1>0, <2>1, <3>1 DEF PartsInv, Busy
      <4>2. QED
        BY <1>0, <2>1, <2>2, <3>1, <4>1 DEF PartsInv, PlacesInv
    <3>2. CASE call.mode # "stream"
      BY <1>0, <2>1, <2>2, <3>2 DEF PartsInv
    <3>3. QED
      BY <3>1, <3>2
  <2>5. AnswersInv' /\ AskedInv'
    BY <1>0, <2>1 DEF AnswersInv, AskedInv
  <2>6. QED
    BY <2>3, <2>4, <2>5 DEF CallInv
<1>9. CASE EndOfStream
  <2>1. /\ thread.pc = "reading" /\ thread'.pc = "ended" /\ thread'.provider = thread.provider
        /\ thread'.attempt = thread.attempt /\ DOMAIN thread' = DOMAIN thread
        /\ thread' = [f \in DOMAIN thread' |-> thread'[f]] /\ thread'.parts = thread.parts
        /\ answers' \in {answers, answers + 1}
        /\ UNCHANGED <<call, output, expirations, prompted>>
    BY <1>0, <1>9 DEF EndOfStream, PlacesInv
  <2>2. PlacesInv'
    BY <1>0, <2>1 DEF PlacesInv, Finished, Busy
  <2>3. PartsInv'
    BY <1>0, <2>1 DEF PartsInv, Busy
  <2>4. AnswersInv' /\ AskedInv'
    BY <1>0, <2>1 DEF AnswersInv, AskedInv
  <2>5. QED
    BY <2>2, <2>3, <2>4 DEF CallInv
<1>10. CASE CallError
  <2>1. /\ thread.pc \in Busy /\ thread'.pc \in {"connecting", "failed"}
        /\ thread'.pc = "connecting" => thread.pc = "connecting"
        /\ thread'.provider = thread.provider
        /\ thread'.pc = "failed" => thread'.attempt = thread.attempt
        /\ DOMAIN thread' = DOMAIN thread
        /\ thread' = [f \in DOMAIN thread' |-> thread'[f]] /\ thread'.parts = thread.parts
        /\ prompted' \in {prompted, prompted \cup {thread.provider}}
        /\ UNCHANGED <<call, output, answers, expirations>>
    BY <1>0, <1>10 DEF CallError, PlacesInv, retried, Busy
  <2>2. PlacesInv'
    BY <1>0, <2>1 DEF PlacesInv, Finished, Busy
  <2>3. PartsInv'
    <3>1. thread'.parts = Parts(thread'.provider, thread'.attempt, Len(thread'.parts))
      BY <1>0, <2>1, PartsGrow DEF PartsInv
    <3>2. QED
      BY <1>0, <2>1, <3>1 DEF PartsInv, Busy
  <2>4. AnswersInv' /\ AskedInv'
    BY <1>0, <2>1 DEF AnswersInv, AskedInv, PlacesInv, Busy
  <2>5. QED
    BY <2>2, <2>3, <2>4 DEF CallInv
<1>11. QED
  BY <1>1, <1>2, <1>3, <1>4, <1>5, <1>6, <1>7, <1>8, <1>9, <1>10 DEF ProviderNext

\* Whatever providers are configured and however they fail, what a caller receives comes
\* from a single attempt at a single provider, there is more than one whole answer only
\* where a timer expired, and a prompt for a named provider goes to no other
\* (_complete_with_failover, _run_complete_with_timeout, stream_sse_json).
THEOREM AlwaysOneAnswer ==
  ASSUME NEW choices
  PROVE  ProviderInit(choices) /\ [][ProviderNext]_provider_vars => []OneAnswerPerCall
<1>1. ProviderInit(choices) => CallInv
  BY CallStarts
<1>2. CallInv /\ [ProviderNext]_provider_vars => CallInv'
  <2>1. CallInv /\ UNCHANGED provider_vars => CallInv'
    BY DEF provider_vars, CallInv, PlacesInv, PartsInv, AnswersInv, AskedInv
  <2>2. QED
    BY <2>1, CallStep
<1>3. CallInv => OneAnswerPerCall
  <2>1. SUFFICES ASSUME CallInv
                 PROVE  OneAnswerPerCall
    OBVIOUS
  <2>2. Len(output) \in Nat /\ output = Parts(output[1][1], output[1][2], Len(output))
    BY <2>1 DEF CallInv, PartsInv
  <2>3. \A n \in DOMAIN output : output[n] = <<output[1][1], output[1][2], n>>
    BY <2>2, Zenon DEF Parts
  <2>4. answers <= 1 + expirations
    BY <2>1 DEF CallInv, AnswersInv
  <2>5. QED
    BY <2>1, <2>3, <2>4 DEF CallInv, AskedInv, OneAnswerPerCall
<1>4. QED
  BY <1>1, <1>2, <1>3, PTL

-----------------------------------------------------------------------------
(* Routing: the events of the task *)

IsLog(l) == \E S : l \in Seq(S)

LEMMA Appended ==
  ASSUME NEW l, IsLog(l), NEW e
  PROVE  /\ IsLog(Append(l, e))
         /\ Len(l) \in Nat /\ DOMAIN l = 1..Len(l) /\ Len(l) + 1 \notin DOMAIN l
         /\ DOMAIN Append(l, e) = DOMAIN l \cup {Len(l) + 1}
         /\ \A n \in DOMAIN l : Append(l, e)[n] = l[n]
         /\ Append(l, e)[Len(l) + 1] = e
<1>1. PICK S : l \in Seq(S)
  BY DEF IsLog
<1>2. l \in Seq(S \cup {e})
  BY <1>1, SeqMonotonic
<1>3. /\ Append(l, e) \in Seq(S \cup {e}) /\ Len(Append(l, e)) = Len(l) + 1
      /\ \A n \in 1..Len(l) : Append(l, e)[n] = l[n]
      /\ Append(l, e)[Len(l) + 1] = e
  BY <1>2, AppendProperties
<1>4. /\ Len(l) \in Nat /\ DOMAIN l = 1..Len(l)
      /\ DOMAIN Append(l, e) = 1..Len(Append(l, e))
  BY <1>2, <1>3, LenProperties
<1>5. IsLog(Append(l, e))
  BY <1>3 DEF IsLog
<1>6. QED
  BY <1>3, <1>4, <1>5

LEMMA PositionsType ==
  ASSUME NEW l, IsLog(l), NEW types
  PROVE  /\ Len(l) \in Nat /\ positions(l, types) \in SUBSET (1..Len(l))
         /\ IsFiniteSet(positions(l, types)) /\ Cardinality(positions(l, types)) \in Nat
<1>1. Len(l) \in Nat /\ DOMAIN l = 1..Len(l)
  BY Appended
<1>2. positions(l, types) \in SUBSET (1..Len(l)) /\ IsFiniteSet(1..Len(l))
  BY <1>1, FS_Interval DEF positions
<1>3. IsFiniteSet(positions(l, types))
  BY <1>2, FS_Subset
<1>4. QED
  BY <1>1, <1>2, <1>3, FS_CardinalityType

LEMMA PositionsGrow ==
  ASSUME NEW l, IsLog(l), NEW e, NEW types
  PROVE  /\ e.type \notin types => positions(Append(l, e), types) = positions(l, types)
         /\ e.type \in types => positions(Append(l, e), types) = positions(l, types) \cup {Len(l) + 1}
BY Appended DEF positions

LEMMA CountType ==
  ASSUME NEW l, IsLog(l)
  PROVE  switch_count(l) \in Nat
BY PositionsType DEF switch_count

LEMMA SwitchCounted ==
  ASSUME NEW l, IsLog(l), NEW e
  PROVE  /\ switch_count(l) \in Nat /\ switch_count(Append(l, e)) \in Nat
         /\ e.type # "model.switch.completed" => switch_count(Append(l, e)) = switch_count(l)
         /\ e.type = "model.switch.completed" => switch_count(Append(l, e)) = switch_count(l) + 1
<1> DEFINE p == positions(l, {"model.switch.completed"})
           q == positions(Append(l, e), {"model.switch.completed"})
<1>1. IsFiniteSet(p) /\ Cardinality(p) \in Nat
  BY PositionsType
<1>2. Len(l) + 1 \notin p
  BY Appended DEF positions
<1>3. switch_count(l) = Cardinality(p) /\ switch_count(Append(l, e)) = Cardinality(q)
  BY DEF switch_count
<1>4. CASE e.type # "model.switch.completed"
  <2>1. q = p
    BY <1>4, PositionsGrow
  <2>2. QED
    BY <1>1, <1>3, <1>4, <2>1
<1>5. CASE e.type = "model.switch.completed"
  <2>1. q = p \cup {Len(l) + 1}
    BY <1>5, PositionsGrow
  <2> HIDE DEF p, q
  <2>2. Cardinality(q) = Cardinality(p) + 1
    BY <1>1, <1>2, <2>1, FS_AddElement
  <2>3. QED
    BY <1>1, <1>3, <1>5, <2>2
<1>6. QED
  BY <1>4, <1>5

-----------------------------------------------------------------------------
(* Routing: the budget *)

Spending == "autonomy_max_provider_switches"

\* What preferences say of the budget is what the task said.
SameBudget(prefs) ==
  /\ Spending \in DOMAIN prefs <=> Spending \in DOMAIN setting.prefs
  /\ Spending \in DOMAIN prefs => prefs[Spending] = setting.prefs[Spending]

IsPreference(e) == e.type = "task.preferences"
PrefsInv ==
  /\ IsLog(log)
  /\ \A n \in DOMAIN log : IsPreference(log[n]) => SameBudget(log[n].prefs)
  /\ Spending \in DOMAIN setting.prefs => \E n \in DOMAIN log : IsPreference(log[n])

LEMMA PreferencesLoaded ==
  ASSUME PrefsInv
  PROVE  SameBudget(load_preferences(log))
<1> DEFINE kept == positions(log, {"task.preferences"})
           at(key) == {n \in kept : key \in DOMAIN log[n].prefs}
           keys == UNION {DOMAIN log[n].prefs : n \in kept}
<1>1. load_preferences(log) = [key \in keys |-> log[Max(at(key))].prefs[key]]
  BY DEF load_preferences
<1>2. \A n \in kept : SameBudget(log[n].prefs)
  BY DEF PrefsInv, positions, IsPreference
<1>3. Spending \in DOMAIN setting.prefs => kept # {}
  BY DEF PrefsInv, positions, IsPreference
<1>4. Len(log) \in Nat /\ kept \in SUBSET (1..Len(log))
  BY PositionsType DEF PrefsInv
<1> HIDE DEF kept
<1>5. Spending \in keys <=> Spending \in DOMAIN setting.prefs
  BY <1>2, <1>3 DEF SameBudget
<1>6. ASSUME Spending \in keys
      PROVE  log[Max(at(Spending))].prefs[Spending] = setting.prefs[Spending]
  <2>1. at(Spending) \in SUBSET (1..Len(log)) /\ at(Spending) # {}
    BY <1>4, <1>6
  <2>2. Max(at(Spending)) \in at(Spending)
    BY <1>4, <2>1, MaxIsGreatest
  <2>3. QED
    BY <1>2, <2>2 DEF SameBudget
<1> HIDE DEF keys, at
<1>7. QED
  BY <1>1, <1>5, <1>6 DEF SameBudget

Turns == {"run.completed", "model.switch.completed"}
Budget == resolve_provider_switch_budget(setting.prefs)
Allows(prefs) == model_policy(prefs).switching
Room == moves < Budget + crashes

\* A move that is not recorded yet.
Unrecorded == router.pc = "completed" /\ router.past.provider # router.provider
Owed == IF Unrecorded THEN 1 ELSE 0

SettingInv ==
  /\ setting.configured \in SUBSET KnownProviders /\ None \notin setting.configured
  /\ Budget \in Nat
TurnsInv ==
  /\ \A n \in DOMAIN log : log[n].type \in Turns => log[n].provider \in setting.configured
  /\ moves > 0 => \E n \in DOMAIN log : log[n].type = "run.completed"
ClientInv ==
  /\ "pc" \in DOMAIN client /\ client.pc \in {"idle", "updating", "switching", "switched"}
  /\ client.pc = "updating" => SameBudget(client.prefs)
  /\ client.pc = "switching" => SameBudget(client.before)
  /\ client.pc \in {"switching", "switched"} => client.switch.provider \in setting.configured
RouterInv ==
  /\ "pc" \in DOMAIN router /\ router.pc \in {"idle", "read", "counted", "running", "completed"}
  /\ router.pc = "read" => SameBudget(router.prefs)
  /\ router.pc = "counted" => (Allows(router.prefs) => Room)
  /\ router.pc = "completed" => router.provider \in setting.configured
  /\ router.pc = "running" => /\ router.past.provider = None => moves = 0
                              /\ router.past.provider \notin {None, router.provider} => Room
MovesInv ==
  /\ moves \in Nat /\ crashes \in Nat
  /\ moves <= switch_count(log) + Owed + crashes
  /\ moves <= Max({1, Budget}) + crashes
SwitchInv == SettingInv /\ PrefsInv /\ TurnsInv /\ ClientInv /\ RouterInv /\ MovesInv

LEMMA LargerOfTwo ==
  ASSUME NEW a \in Int, NEW b \in Int
  PROVE  Max({a, b}) \in Int /\ a <= Max({a, b}) /\ b <= Max({a, b})
<1>1. \E x \in {a, b} : \A y \in {a, b} : x >= y
  OBVIOUS
<1>2. QED
  BY <1>1 DEF Max

LEMMA LogCarries ==
  ASSUME PrefsInv, TurnsInv, setting' = setting, NEW e, log' = Append(log, e),
         IsPreference(e) => SameBudget(e.prefs),
         e.type \in Turns => e.provider \in setting.configured,
         moves' > 0 => moves > 0 \/ e.type = "run.completed"
  PROVE  PrefsInv' /\ TurnsInv'
<1>1. IsLog(log)
  BY DEF PrefsInv
<1>2. /\ IsLog(log') /\ DOMAIN log' = DOMAIN log \cup {Len(log) + 1}
      /\ \A n \in DOMAIN log : log'[n] = log[n]
      /\ log'[Len(log) + 1] = e
  BY <1>1, Appended
<1>3. PrefsInv'
  BY <1>2 DEF PrefsInv, SameBudget
<1>4. TurnsInv'
  BY <1>2 DEF TurnsInv
<1>5. QED
  BY <1>3, <1>4

\* Where the latest run or switch left the task.
LEMMA LatestTurn ==
  ASSUME SettingInv, PrefsInv, TurnsInv, moves \in Nat
  PROVE  /\ latest_run_provider_model.provider = None => moves = 0
         /\ latest_run_provider_model.provider # None => latest_run_provider_model.provider \in setting.configured
<1> DEFINE past == positions(log, Turns)
<1>1. latest_run_provider_model.provider = IF past = {} THEN None ELSE log[Max(past)].provider
  BY DEF latest_run_provider_model, Turns
<1>2. Len(log) \in Nat /\ past \in SUBSET (1..Len(log))
  BY PositionsType DEF PrefsInv
<1>3. CASE past = {}
  <2>1. moves = 0
    BY <1>3 DEF TurnsInv, positions, Turns
  <2>2. QED
    BY <1>1, <1>3, <2>1
<1>4. CASE past # {}
  <2> HIDE DEF past
  <2>1. Max(past) \in past
    BY <1>2, <1>4, MaxIsGreatest
  <2>2. log[Max(past)].provider \in setting.configured
    BY <2>1 DEF past, positions, TurnsInv
  <2>3. QED
    BY <1>1, <1>4, <2>2 DEF SettingInv
<1>5. QED
  BY <1>3, <1>4

\* Preferences as they stand when the budget is spent allow no switch.
LEMMA SpentEndsSwitching ==
  ASSUME NEW prefs, SameBudget(prefs), switch_count(log) \in Nat, SettingInv, Allows(effective_prefs(log, prefs))
  PROVE  switch_count(log) < Budget
<1>1. resolve_provider_switch_budget(prefs) = Budget
  BY DEF resolve_provider_switch_budget, Budget, SameBudget, Spending
<1>2. ASSUME switch_count(log) >= Budget
      PROVE  ~Allows(effective_prefs(log, prefs))
  <2> DEFINE ended == merged(prefs, [allow_cross_provider_switching |-> "false"])
  <2>1. effective_prefs(log, prefs) = ended
    BY <1>1, <1>2 DEF effective_prefs
  <2>2. /\ "allow_cross_provider_switching" \in DOMAIN ended
        /\ ended["allow_cross_provider_switching"] = "false"
    BY DEF merged
  <2> HIDE DEF ended
  <2>3. pref(ended, "allow_cross_provider_switching", "true") = "false"
    BY <2>2 DEF pref, None
  <2>4. ~model_policy(ended).switching
    BY <2>3 DEF model_policy
  <2>5. QED
    BY <2>1, <2>4 DEF Allows
<1>3. QED
  BY <1>2 DEF SettingInv

LEMMA StaysPut ==
  ASSUME NEW stage, NEW prefs, NEW previous \in setting.configured, ~Allows(prefs)
  PROVE  resolve_provider(stage, prefs, previous) = previous
BY DEF resolve_provider, Allows

\* A step that leaves the log, the moves and what is owed as they are.
LEMMA MovesStay ==
  ASSUME MovesInv, setting' = setting, moves' = moves, log' = log, crashes' = crashes, Owed' = Owed
  PROVE  MovesInv'
BY DEF MovesInv, Budget, resolve_provider_switch_budget

LEMMA EventsStay ==
  ASSUME SettingInv, PrefsInv, TurnsInv, UNCHANGED <<setting, log, moves>>
  PROVE  SettingInv' /\ PrefsInv' /\ TurnsInv'
BY DEF SettingInv, PrefsInv, TurnsInv, Budget, resolve_provider_switch_budget, SameBudget

LEMMA ClientStays ==
  ASSUME ClientInv, UNCHANGED <<setting, client>>
  PROVE  ClientInv'
BY DEF ClientInv, SameBudget

LEMMA RouterStays ==
  ASSUME RouterInv, UNCHANGED <<setting, router, moves, crashes>>
  PROVE  RouterInv' /\ Owed' = Owed
BY DEF RouterInv, SameBudget, Room, Budget, resolve_provider_switch_budget, Allows, Owed, Unrecorded

LEMMA ReadKeeps ==
  ASSUME SwitchInv, ReadTask \/ CountSwitches \/ ChooseProvider
  PROVE  SwitchInv'
<1> USE DEF SwitchInv
<1>1. UNCHANGED <<setting, log, client, moves, crashes>>
  BY DEF ReadTask, CountSwitches, ChooseProvider
<1>2. Owed' = Owed
  BY DEF ReadTask, CountSwitches, ChooseProvider, Owed, Unrecorded
<1>3. RouterInv'
  <2>1. \A prefs : SameBudget(prefs)' = SameBudget(prefs)
    BY <1>1 DEF SameBudget
  <2>2. Room' = Room
    BY <1>1 DEF Room, Budget, resolve_provider_switch_budget
  <2>3. CASE ReadTask
    <3>1. "pc" \in DOMAIN router' /\ router'.pc = "read" /\ router'.prefs = load_preferences(log)
      BY <2>3 DEF ReadTask
    <3>2. SameBudget(router'.prefs)
      BY <3>1, PreferencesLoaded
    <3>3. QED
      BY <1>1, <3>1, <3>2 DEF RouterInv, SameBudget
  <2>4. CASE CountSwitches
    <3>1. /\ router.pc = "read" /\ router'.pc = "counted" /\ "pc" \in DOMAIN router'
          /\ router'.prefs = effective_prefs(log, router.prefs)
      BY <2>4 DEF CountSwitches
    <3>2. switch_count(log) \in Nat
      BY SwitchCounted DEF PrefsInv
    <3>3. ASSUME Allows(router'.prefs)
          PROVE  Room
      <4>1. switch_count(log) < Budget
        BY <3>1, <3>2, <3>3, SpentEndsSwitching DEF RouterInv
      <4>2. Owed = 0
        BY <3>1 DEF Owed, Unrecorded
      <4>3. QED
        BY <3>2, <4>1, <4>2 DEF Room, MovesInv, SettingInv
    <3>4. QED
      BY <2>2, <3>1, <3>3 DEF RouterInv, Allows
  <2>5. CASE ChooseProvider
    <3> DEFINE past == latest_run_provider_model
    <3>1. PICK stage \in DOMAIN affinity :
            /\ router.pc = "counted" /\ router'.pc = "running" /\ router'.past = past
            /\ "pc" \in DOMAIN router'
            /\ router'.provider = resolve_provider(stage, router.prefs, past.provider)
      BY <2>5 DEF ChooseProvider
    <3>2. past.provider = None => moves = 0
      BY LatestTurn DEF MovesInv
    <3>3. ASSUME past.provider \notin {None, router'.provider}
          PROVE  Room
      <4>1. past.provider \in setting.configured
        BY <3>3, LatestTurn DEF MovesInv
      <4>2. Allows(router.prefs)
        BY <3>1, <3>3, <4>1, StaysPut
      <4>3. QED
        BY <3>1, <4>2 DEF RouterInv
    <3> HIDE DEF past
    <3>4. QED
      BY <1>1, <2>2, <3>1, <3>2, <3>3 DEF RouterInv
  <2>6. QED
    BY <2>3, <2>4, <2>5
<1>4. QED
  BY <1>1, <1>2, <1>3, EventsStay, ClientStays, MovesStay

\* A move is made within the budget, or is the first choice.
LEMMA CompletesKeeps ==
  ASSUME SwitchInv, StageRunCompletes
  PROVE  SwitchInv'
<1> USE DEF SwitchInv
<1> DEFINE e == RunEvent("run.completed", router.provider, router.model)
<1>1. /\ UNCHANGED <<setting, client, crashes>> /\ router.pc = "running"
      /\ log' = Append(log, e) /\ router.provider \in setting.configured
      /\ moves' = IF router.past.provider = router.provider THEN moves ELSE moves + 1
      /\ router' = [router EXCEPT !.pc = "completed"]
  BY DEF StageRunCompletes
<1>2. /\ e.type = "run.completed" /\ e.provider = router.provider /\ ~IsPreference(e)
      /\ e.type # "model.switch.completed"
  BY DEF RunEvent, IsPreference
<1> HIDE DEF e
<1>3. PrefsInv' /\ TurnsInv'
  BY <1>1, <1>2, LogCarries
<1>4. SettingInv' /\ ClientInv' /\ Budget' = Budget
  BY <1>1, ClientStays DEF SettingInv, Budget, resolve_provider_switch_budget
<1>5. /\ "pc" \in DOMAIN router' /\ router'.pc = "completed"
      /\ router'.past = router.past /\ router'.provider = router.provider
  BY <1>1 DEF RouterInv
<1>6. RouterInv'
  BY <1>1, <1>5 DEF RouterInv
<1>7. switch_count(log') = switch_count(log) /\ switch_count(log) \in Nat
  BY <1>1, <1>2, SwitchCounted DEF PrefsInv
<1>8. Budget \in Nat /\ 1 <= Max({1, Budget}) /\ Budget <= Max({1, Budget}) /\ Max({1, Budget}) \in Int
  <2>1. Budget \in Nat /\ Budget \in Int /\ 1 \in Int
    BY DEF SettingInv
  <2>2. QED
    BY <2>1, LargerOfTwo
<1>9. Owed = 0 /\ Owed' = IF router.past.provider = router.provider THEN 0 ELSE 1
  BY <1>1, <1>5 DEF Owed, Unrecorded
<1>10. moves' = moves + Owed'
  BY <1>1, <1>9 DEF MovesInv
<1>11. moves' <= Max({1, Budget}) + crashes
  <2>1. CASE router.past.provider = router.provider
    BY <1>1, <2>1 DEF MovesInv
  <2>2. CASE router.past.provider = None /\ router.past.provider # router.provider
    BY <1>1, <1>8, <2>2 DEF MovesInv, RouterInv
  <2>3. CASE router.past.provider \notin {None, router.provider}
    BY <1>1, <1>8, <2>3 DEF MovesInv, RouterInv, Room
  <2>4. QED
    BY <2>1, <2>2, <2>3
<1>12. MovesInv'
  BY <1>1, <1>4, <1>7, <1>9, <1>10, <1>11 DEF MovesInv
<1>13. QED
  BY <1>3, <1>4, <1>6, <1>12

LEMMA FailsKeeps ==
  ASSUME SwitchInv, StageRunFails
  PROVE  SwitchInv'
<1> USE DEF SwitchInv
<1> DEFINE e == RunEvent("run.failed", router.provider, router.model)
<1>1. /\ UNCHANGED <<setting, client, moves, crashes>> /\ router.pc = "running"
      /\ log' = Append(log, e) /\ router' = AtRest
  BY DEF StageRunFails
<1>2. e.type \notin Turns /\ ~IsPreference(e) /\ e.type # "model.switch.completed"
  BY DEF RunEvent, IsPreference, Turns
<1> HIDE DEF e
<1>3. PrefsInv' /\ TurnsInv'
  BY <1>1, <1>2, LogCarries DEF MovesInv
<1>4. SettingInv' /\ ClientInv' /\ Budget' = Budget
  BY <1>1, ClientStays DEF SettingInv, Budget, resolve_provider_switch_budget
<1>5. RouterInv'
  BY <1>1 DEF RouterInv, AtRest
<1>6. switch_count(log') = switch_count(log)
  BY <1>1, <1>2, SwitchCounted DEF PrefsInv
<1>7. Owed' = Owed
  BY <1>1 DEF Owed, Unrecorded, AtRest
<1>8. MovesInv'
  BY <1>1, <1>4, <1>6, <1>7 DEF MovesInv
<1>9. QED
  BY <1>3, <1>4, <1>5, <1>8

\* What was owed is recorded, so the moves stay within the switches counted.
LEMMA RecordKeeps ==
  ASSUME SwitchInv, record_model_switch_if_needed
  PROVE  SwitchInv'
<1> USE DEF SwitchInv
<1>1. /\ UNCHANGED <<setting, client, moves, crashes>> /\ router.pc = "completed" /\ router' = AtRest
      /\ \/ log' = log /\ router.past.provider = router.provider
         \/ \E status : log' = Append(log, SwitchEvent(router.past.provider, router.provider, router.model, status))
  BY DEF record_model_switch_if_needed
<1>2. SettingInv' /\ ClientInv' /\ Budget' = Budget
  BY <1>1, ClientStays DEF SettingInv, Budget, resolve_provider_switch_budget
<1>3. RouterInv'
  BY <1>1 DEF RouterInv, AtRest
<1>4. Owed' = 0 /\ Owed \in {0, 1}
  BY <1>1 DEF Owed, Unrecorded, AtRest
<1>5. CASE log' = log /\ router.past.provider = router.provider
  <2>1. Owed = 0
    BY <1>5 DEF Owed, Unrecorded
  <2>2. MovesInv'
    BY <1>1, <1>4, <1>5, <2>1, MovesStay
  <2>3. PrefsInv' /\ TurnsInv'
    BY <1>1, <1>5, EventsStay
  <2>4. QED
    BY <1>2, <1>3, <2>2, <2>3
<1>6. ASSUME NEW status,
             log' = Append(log, SwitchEvent(router.past.provider, router.provider, router.model, status))
      PROVE  SwitchInv'
  <2> DEFINE e == SwitchEvent(router.past.provider, router.provider, router.model, status)
  <2>1. /\ e.type = "model.switch.completed" /\ e.provider = router.provider /\ ~IsPreference(e)
    BY DEF SwitchEvent, IsPreference
  <2>2. log' = Append(log, e)
    BY <1>6
  <2> HIDE DEF e
  <2>3. router.provider \in setting.configured
    BY <1>1 DEF RouterInv
  <2>4. PrefsInv' /\ TurnsInv'
    BY <1>1, <2>1, <2>2, <2>3, LogCarries DEF MovesInv
  <2>5. switch_count(log') = switch_count(log) + 1 /\ switch_count(log) \in Nat
    BY <2>1, <2>2, SwitchCounted DEF PrefsInv
  <2>6. MovesInv'
    BY <1>1, <1>2, <1>4, <2>5 DEF MovesInv
  <2>7. QED
    BY <1>2, <1>3, <2>4, <2>6
<1>7. QED
  BY <1>1, <1>5, <1>6

\* What a client keeps says of the budget what was said before.
LEMMA ClientKeeps ==
  ASSUME SwitchInv, RoutingAssumption, RequestUpdate \/ update_model_policy \/ RequestSwitch \/ switch_model \/ RecordSwitch
  PROVE  SwitchInv'
<1> USE DEF SwitchInv
<1>1. UNCHANGED <<setting, router, moves, crashes>>
  BY DEF RequestUpdate, update_model_policy, RequestSwitch, switch_model, RecordSwitch
<1>2. SettingInv' /\ RouterInv' /\ Owed' = Owed /\ Budget' = Budget
  BY <1>1, RouterStays DEF SettingInv, Budget, resolve_provider_switch_budget
<1>3. \A prefs : SameBudget(prefs)' = SameBudget(prefs)
  BY <1>1 DEF SameBudget
<1>4. ASSUME NEW e, log' = Append(log, e), IsPreference(e) => SameBudget(e.prefs),
             e.type \in Turns => e.provider \in setting.configured, e.type # "run.completed"
      PROVE  PrefsInv' /\ TurnsInv' /\ MovesInv'
  <2>1. PrefsInv' /\ TurnsInv'
    BY <1>1, <1>4, LogCarries DEF MovesInv
  <2>2. /\ switch_count(log') \in Nat /\ switch_count(log) \in Nat
        /\ switch_count(log') = switch_count(log) \/ switch_count(log') = switch_count(log) + 1
    BY <1>4, SwitchCounted DEF PrefsInv
  <2>3. Owed \in {0, 1}
    BY DEF Owed
  <2>4. MovesInv'
    BY <1>1, <1>2, <2>2, <2>3 DEF MovesInv
  <2>5. QED
    BY <2>1, <2>4
<1>5. CASE RequestUpdate
  <2>1. PICK update \in PolicyUpdates :
          client' = [pc |-> "updating", prefs |-> merged(load_preferences(log), update)] /\ log' = log
    BY <1>5 DEF RequestUpdate
  <2>2. SameBudget(merged(load_preferences(log), update))
    <3>1. SameBudget(load_preferences(log)) /\ Spending \notin DOMAIN update
      BY PreferencesLoaded DEF RoutingAssumption, Spending
    <3>2. QED
      BY <3>1 DEF merged, SameBudget
  <2>3. "pc" \in DOMAIN client' /\ client'.pc = "updating" /\ SameBudget(client'.prefs)
    BY <2>1, <2>2
  <2>4. ClientInv'
    BY <1>3, <2>3 DEF ClientInv, SameBudget
  <2>5. QED
    BY <1>1, <1>2, <2>1, <2>4, EventsStay, MovesStay
<1>6. CASE update_model_policy
  <2> DEFINE e == Preferences(client.prefs)
  <2>1. client.pc = "updating" /\ log' = Append(log, e) /\ client' = AtRest
    BY <1>6 DEF update_model_policy
  <2>2. e.type = "task.preferences" /\ SameBudget(e.prefs)
    BY <2>1 DEF Preferences, ClientInv
  <2> HIDE DEF e
  <2>3. PrefsInv' /\ TurnsInv' /\ MovesInv'
    BY <1>4, <2>1, <2>2 DEF Turns
  <2>4. ClientInv'
    BY <2>1 DEF ClientInv, AtRest
  <2>5. QED
    BY <1>2, <2>3, <2>4
<1>7. CASE RequestSwitch
  <2>1. PICK switch \in Switches :
          /\ valid_switch(switch) /\ log' = log
          /\ client' = [pc |-> "switching", before |-> load_preferences(log), switch |-> switch]
    BY <1>7 DEF RequestSwitch
  <2>2. SameBudget(load_preferences(log)) /\ switch.provider \in setting.configured
    BY <2>1, PreferencesLoaded DEF valid_switch
  <2>3. /\ "pc" \in DOMAIN client' /\ client'.pc = "switching" /\ SameBudget(client'.before)
        /\ client'.switch.provider \in setting.configured
    BY <2>1, <2>2
  <2>4. ClientInv'
    BY <1>1, <2>3 DEF ClientInv, SameBudget
  <2>5. QED
    BY <1>1, <1>2, <2>1, <2>4, EventsStay, MovesStay
<1>8. CASE switch_model
  <2> DEFINE asked == [preferred_provider |-> client.switch.provider, preferred_model |-> client.switch.model]
             e == Preferences(merged(client.before, asked))
  <2>1. client.pc = "switching" /\ log' = Append(log, e) /\ client' = [client EXCEPT !.pc = "switched"]
    BY <1>8 DEF switch_model
  <2>2. Spending \notin DOMAIN asked
    BY DEF Spending
  <2>3. e.type = "task.preferences" /\ e.prefs = merged(client.before, asked)
    BY DEF Preferences
  <2> HIDE DEF e, asked
  <2>4. SameBudget(e.prefs)
    BY <2>1, <2>2, <2>3 DEF merged, SameBudget, ClientInv
  <2>5. PrefsInv' /\ TurnsInv' /\ MovesInv'
    BY <1>4, <2>1, <2>3, <2>4 DEF Turns
  <2>6. "pc" \in DOMAIN client' /\ client'.pc = "switched" /\ client'.switch = client.switch
    BY <2>1 DEF ClientInv
  <2>7. ClientInv'
    BY <1>1, <2>1, <2>6 DEF ClientInv
  <2>8. QED
    BY <1>2, <2>5, <2>7
<1>9. CASE RecordSwitch
  <2>1. PICK from, status :
          /\ client.pc = "switched" /\ client' = AtRest
          /\ log' = Append(log, SwitchEvent(from, client.switch.provider, client.switch.model, status))
    BY <1>9 DEF RecordSwitch
  <2> DEFINE e == SwitchEvent(from, client.switch.provider, client.switch.model, status)
  <2>2. e.type = "model.switch.completed" /\ e.provider = client.switch.provider /\ log' = Append(log, e)
    BY <2>1 DEF SwitchEvent
  <2> HIDE DEF e
  <2>3. e.provider \in setting.configured
    BY <2>1, <2>2 DEF ClientInv
  <2>4. PrefsInv' /\ TurnsInv' /\ MovesInv'
    BY <1>4, <2>2, <2>3 DEF IsPreference
  <2>5. ClientInv'
    BY <2>1 DEF ClientInv, AtRest
  <2>6. QED
    BY <1>2, <2>4, <2>5
<1>10. QED
  BY <1>5, <1>6, <1>7, <1>8, <1>9

\* A crash may lose what is owed, and is counted.
LEMMA CrashKeeps ==
  ASSUME SwitchInv, Crash
  PROVE  SwitchInv'
<1> USE DEF SwitchInv
<1>1. UNCHANGED <<setting, log, moves>> /\ crashes' = crashes + 1 /\ router' = AtRest /\ client' = AtRest
  BY DEF Crash
<1>2. SettingInv' /\ PrefsInv' /\ TurnsInv' /\ Budget' = Budget
  BY <1>1, EventsStay DEF Budget, resolve_provider_switch_budget
<1>3. RouterInv' /\ ClientInv'
  BY <1>1 DEF RouterInv, ClientInv, AtRest
<1>4. Owed' = 0 /\ Owed \in {0, 1}
  BY <1>1 DEF Owed, Unrecorded, AtRest
<1>5. switch_count(log) \in Nat
  BY CountType DEF PrefsInv
<1>6. MovesInv'
  <2>1. Budget \in Int /\ 1 \in Int
    BY DEF SettingInv
  <2>2. Max({1, Budget}) \in Int
    BY <2>1, LargerOfTwo
  <2>3. QED
    BY <1>1, <1>2, <1>4, <1>5, <2>2 DEF MovesInv
<1>7. QED
  BY <1>2, <1>3, <1>6

\* What a task may ask of routing.
TaskSetting(s) ==
  /\ s.configured \in SUBSET KnownProviders /\ "local_echo" \in s.configured
  /\ Spending \in DOMAIN s.prefs => s.prefs[Spending] \in Nat

LEMMA RoutingStarts ==
  ASSUME NEW choices, \A s \in choices : TaskSetting(s), RoutingAssumption, RoutingInit(choices)
  PROVE  SwitchInv
<1>1. TaskSetting(setting) /\ router = AtRest /\ client = AtRest /\ moves = 0 /\ crashes = 0
        /\ log = IF DOMAIN setting.prefs = {} THEN <<>> ELSE <<Preferences(setting.prefs)>>
  BY DEF RoutingInit
<1>2. SettingInv
  <2>1. None \notin KnownProviders
    BY DEF KnownProviders, capabilities, None
  <2>2. QED
    BY <1>1, <2>1 DEF SettingInv, TaskSetting, Budget, resolve_provider_switch_budget, RoutingAssumption, Spending
<1>3. PrefsInv /\ TurnsInv
  <2>1. CASE log = <<>> /\ DOMAIN setting.prefs = {}
    <3>1. IsLog(log) /\ DOMAIN log = {}
      BY <2>1 DEF IsLog
    <3>2. QED
      BY <1>1, <2>1, <3>1 DEF PrefsInv, TurnsInv
  <2>2. CASE log = <<Preferences(setting.prefs)>>
    <3>1. log \in Seq({Preferences(setting.prefs)})
      BY <2>2
    <3>2. IsLog(log) /\ DOMAIN log = {1} /\ log[1] = Preferences(setting.prefs)
      <4>1. IsLog(log)
        BY <3>1 DEF IsLog
      <4>2. Len(log) = 1 /\ log[1] = Preferences(setting.prefs)
        BY <2>2
      <4>3. DOMAIN log = 1..1
        BY <3>1, <4>2, LenProperties
      <4>4. QED
        BY <4>1, <4>2, <4>3
    <3>3. log[1].type = "task.preferences" /\ log[1].prefs = setting.prefs
      BY <3>2 DEF Preferences
    <3>4. QED
      BY <1>1, <3>2, <3>3 DEF PrefsInv, TurnsInv, IsPreference, SameBudget, Turns
  <2>3. QED
    BY <1>1, <2>1, <2>2
<1>4. ClientInv /\ RouterInv /\ Owed = 0
  BY <1>1 DEF ClientInv, RouterInv, AtRest, Owed, Unrecorded
<1>5. MovesInv
  <2>1. switch_count(log) \in Nat
    BY <1>3, CountType DEF PrefsInv
  <2>2. Budget \in Int /\ 1 \in Int
    BY <1>2 DEF SettingInv
  <2>3. Max({1, Budget}) \in Int /\ 1 <= Max({1, Budget})
    BY <2>2, LargerOfTwo
  <2>4. QED
    BY <1>1, <1>4, <2>1, <2>3 DEF MovesInv
<1>6. QED
  BY <1>2, <1>3, <1>4, <1>5 DEF SwitchInv

LEMMA SwitchInvAlways ==
  ASSUME NEW choices, \A s \in choices : TaskSetting(s)
  PROVE  RoutingInit(choices) /\ [][RoutingNext]_routing_vars => []SwitchInv
<1>1. RoutingInit(choices) => SwitchInv
  BY RoutingStarts, RoutingAssumption
<1>2. SwitchInv /\ [RoutingNext]_routing_vars => SwitchInv'
  <2>1. ASSUME SwitchInv, UNCHANGED routing_vars
        PROVE  SwitchInv'
    BY <2>1, EventsStay, ClientStays, RouterStays, MovesStay DEF routing_vars, SwitchInv
  <2>2. QED
    BY <2>1, RoutingAssumption, ReadKeeps, CompletesKeeps, FailsKeeps, RecordKeeps, ClientKeeps, CrashKeeps
    DEF RoutingNext
<1>3. QED
  BY <1>1, <1>2, PTL

\* For any providers configured, preferences, policies and switches asked for, failures and
\* crashes: the stages of a task move to another provider no more often than its budget
\* allows, the first choice counted, and but for one move with each crash (_effective_prefs,
\* resolve_provider).
THEOREM SwitchesAlwaysWithinBudget ==
  ASSUME NEW choices, \A s \in choices : TaskSetting(s)
  PROVE  RoutingInit(choices) /\ [][RoutingNext]_routing_vars => []SwitchesWithinBudget
<1>1. SwitchInv => SwitchesWithinBudget
  BY DEF SwitchInv, MovesInv, Budget, SwitchesWithinBudget
<1>2. QED
  BY <1>1, SwitchInvAlways, PTL

-----------------------------------------------------------------------------
(* Routing: the choice by score *)

AtMost(x, n) == x \in Nat /\ x <= n

\* What the table of providers says.
LEMMA RowTypes ==
  ASSUME NEW p \in KnownProviders
  PROVE  LET row == capabilities[p] IN
         /\ AtMost(row.context, 1000000) /\ AtMost(row.quality, 5) /\ AtMost(row.speed, 5) /\ AtMost(row.cost, 5)
BY DEF KnownProviders, capabilities, Row, LocalEchoProvider, OpenAIChatCompletionsProvider, CodexSidecarProvider,
       CodexOAuthExperimentalProvider, AnthropicMessagesProvider, GeminiGenerateContentProvider, AtMost

LEMMA FailuresInWindow ==
  ASSUME NEW p, IsLog(log), RoutingAssumption
  PROVE  AtMost(recent_provider_failures(p), 100)
<1> USE DEF AtMost
<1> DEFINE failures_seen == {n \in positions(log, {"run.failed"}) : n > Len(log) - FailureWindow /\ log[n].provider = p}
           window == (Len(log) - FailureWindow + 1)..Len(log)
<1>1. Len(log) \in Nat /\ positions(log, {"run.failed"}) \in SUBSET (1..Len(log)) /\ FailureWindow \in Nat /\ 1 <= FailureWindow /\ FailureWindow <= 100
  BY PositionsType DEF RoutingAssumption
<1>2. failures_seen \in SUBSET window
  BY <1>1
<1>3. IsFiniteSet(window) /\ Cardinality(window) = FailureWindow
  <2>1. Len(log) - FailureWindow + 1 \in Int /\ Len(log) \in Int /\ ~(Len(log) - FailureWindow + 1 > Len(log))
    BY <1>1
  <2> HIDE DEF window
  <2>2. IsFiniteSet(window) /\ Cardinality(window) = Len(log) - (Len(log) - FailureWindow + 1) + 1
    BY <2>1, FS_Interval DEF window
  <2>3. QED
    BY <1>1, <2>2
<1> HIDE DEF failures_seen, window
<1>4. IsFiniteSet(failures_seen) /\ Cardinality(failures_seen) <= FailureWindow /\ Cardinality(failures_seen) \in Nat
  BY <1>2, <1>3, FS_Subset, FS_CardinalityType
<1>5. recent_provider_failures(p) = Cardinality(failures_seen)
  BY DEF recent_provider_failures, failures_seen
<1>6. QED
  BY <1>1, <1>4, <1>5

LEMMA SmallerOfTwo ==
  ASSUME NEW a \in Nat, NEW b \in Nat
  PROVE  Min({a, b}) \in Nat /\ Min({a, b}) <= b
<1>1. \E x \in {a, b} : \A y \in {a, b} : x <= y
  OBVIOUS
<1>2. QED
  BY <1>1 DEF Min

LEMMA GoalPointsRange ==
  ASSUME NEW p \in KnownProviders, NEW goal
  PROVE  AtMost(goal_points(goal, capabilities[p]), 200000)
<1> USE DEF AtMost
<1> DEFINE row == capabilities[p]
           least == Min({row.context, 256000})
<1>1. AtMost(row.context, 1000000) /\ AtMost(row.quality, 5) /\ AtMost(row.speed, 5) /\ AtMost(row.cost, 5)
  BY RowTypes
<1>2. AtMost(least, 256000)
  BY <1>1, SmallerOfTwo
<1>3. goal_points(goal, row) =
        CASE goal = "quality" -> row.quality * 14000
          [] goal = "speed" -> row.speed * 14000
          [] goal = "cost" -> (6 - row.cost) * 14000
          [] goal = "context" -> row.context \div 10
          [] OTHER -> row.quality * 6000 + row.speed * 4000 + (6 - row.cost) * 3000 + least \div 64
  BY DEF goal_points
<1> HIDE DEF row, least
<1>4. AtMost(row.context \div 10, 100000) /\ AtMost(least \div 64, 4000)
  BY <1>1, <1>2
<1>5. QED
  BY <1>1, <1>3, <1>4 DEF row

LEMMA WhenRange ==
  ASSUME NEW condition, NEW points \in Nat
  PROVE  AtMost(When(condition, points), points)
BY DEF When, AtMost

\* What a provider's name is worth to a stage.
Fondness(stage, provider) ==
  IF provider \in DOMAIN affinity[stage] THEN affinity[stage][provider] * 1000 ELSE 0

LEMMA FondnessRange ==
  ASSUME NEW stage \in DOMAIN affinity, NEW provider
  PROVE  AtMost(Fondness(stage, provider), 16000)
<1>1. CASE stage = "plan"
  BY <1>1 DEF Fondness, affinity, AtMost
<1>2. CASE stage = "execute"
  BY <1>2 DEF Fondness, affinity, AtMost
<1>3. CASE stage = "review"
  BY <1>3 DEF Fondness, affinity, AtMost
<1>4. QED
  BY <1>1, <1>2, <1>3 DEF affinity

\* A provider within the limits scores above every provider beyond them.
LEMMA ScoreRange ==
  ASSUME NEW stage \in DOMAIN affinity, NEW p \in KnownProviders, NEW policy, NEW previous,
         AtMost(recent_provider_failures(p), 100)
  PROVE  LET score == provider_score(stage, p, policy, previous) IN
         /\ score \in Int /\ score <= 1000000
         /\ fits_limits(policy, capabilities[p]) => score > -5000000
         /\ ~fits_limits(policy, capabilities[p]) => score <= -5000000
<1> USE DEF AtMost
<1> DEFINE row == capabilities[p]
           score == provider_score(stage, p, policy, previous)
           goal == goal_points(policy.goal, row)
           sticky == When(previous = p /\ policy.continuity, 40000)
           moved == When(previous \notin {None, p} /\ ~policy.switching, 200000)
           learned == When(p = setting.learned.provider, 24000)
           high == When(setting.complexity = "high", row.quality * 6000)
           low == When(setting.complexity = "low", row.speed * 4000)
           research == When(setting.research, row.context \div 100)
           reviewer == When(stage = "review" /\ policy.reviewer /\ p = "anthropic", 35000)
           fond == Fondness(stage, p)
           failures == recent_provider_failures(p)
<1>1. CASE ~fits_limits(policy, row)
  <2>1. score = IF ~fits_context(policy, row) THEN -10000000 ELSE -5000000
    BY <1>1 DEF provider_score, fits_limits
  <2>2. QED
    BY <1>1, <2>1
<1>2. CASE fits_limits(policy, row)
  <2>1. score = goal + sticky - moved + learned + high + low + research + reviewer + fond - 40000 * failures
    BY <1>2 DEF provider_score, fits_limits, Fondness
  <2>2. AtMost(row.context, 1000000) /\ AtMost(row.quality, 5) /\ AtMost(row.speed, 5)
    BY RowTypes
  <2>3. AtMost(goal, 200000) /\ AtMost(fond, 16000)
    BY GoalPointsRange, FondnessRange
  <2>4. AtMost(sticky, 40000) /\ AtMost(moved, 200000) /\ AtMost(learned, 24000) /\ AtMost(reviewer, 35000)
    BY WhenRange
  <2>5. AtMost(high, 30000)
    <3>1. AtMost(row.quality * 6000, 30000)
      BY <2>2
    <3>2. QED
      BY <3>1 DEF When
  <2>6. AtMost(low, 20000)
    <3>1. AtMost(row.speed * 4000, 20000)
      BY <2>2
    <3>2. QED
      BY <3>1 DEF When
  <2>7. AtMost(research, 10000)
    <3>1. AtMost(row.context \div 100, 10000)
      BY <2>2
    <3>2. QED
      BY <3>1 DEF When
  <2>8. AtMost(failures, 100)
    OBVIOUS
  <2> HIDE DEF score, goal, sticky, moved, learned, high, low, research, reviewer, fond, failures
  <2>9. score \in Int /\ score <= 1000000 /\ score > -5000000
    BY <2>1, <2>3, <2>4, <2>5, <2>6, <2>7, <2>8
  <2>10. QED
    BY <1>2, <2>9 DEF score
<1>3. QED
  BY <1>1, <1>2

LEMMA FirstIsOne ==
  ASSUME NEW S \in SUBSET KnownProviders, S # {}
  PROVE  first_of(S) \in S
<1> DEFINE at == {n \in DOMAIN by_name : by_name[n] \in S}
<1>1. at \in SUBSET Nat
  BY DEF by_name
<1>2. PICK p \in S : TRUE
  OBVIOUS
<1>3. \E n \in DOMAIN by_name : by_name[n] = p
  <2>1. p \in {"anthropic", "codex_oauth_experimental", "codex_sidecar", "gemini", "local_echo", "openai"}
    BY <1>2 DEF KnownProviders, capabilities
  <2>2. QED
    BY <2>1 DEF by_name
<1>4. Min(at) \in at
  BY <1>1, <1>2, <1>3, MinIsLeast
<1>5. QED
  BY <1>4 DEF first_of

LEMMA LeastValue ==
  ASSUME NEW S, S # {}, NEW f, \A x \in S : f[x] \in Nat
  PROVE  \E x \in S : \A y \in S : f[x] <= f[y]
<1> DEFINE values == {f[x] : x \in S}
<1>1. values \in SUBSET Nat /\ values # {} /\ \A y \in S : f[y] \in values
  OBVIOUS
<1> HIDE DEF values
<1>2. PICK least \in values : \A v \in values : least <= v
  BY <1>1, MinIsLeast
<1>3. PICK x \in S : least = f[x]
  BY <1>2 DEF values
<1>4. QED
  BY <1>1, <1>2, <1>3

\* The best by score is configured, and within the limits if any provider is.
LEMMA BestMeetsLimits ==
  ASSUME NEW stage \in DOMAIN affinity, NEW policy, NEW previous,
         setting.configured \in SUBSET KnownProviders, IsLog(log), RoutingAssumption,
         NEW q \in setting.configured, fits_limits(policy, capabilities[q])
  PROVE  fits_limits(policy, capabilities[best_scored(stage, policy, previous)])
<1> DEFINE score(p) == provider_score(stage, p, policy, previous)
           best == {p \in setting.configured : \A r \in setting.configured : score(r) <= score(p)}
           below == [p \in setting.configured |-> 1000000 - score(p)]
<1>1. \A p \in setting.configured :
        /\ score(p) \in Int /\ score(p) <= 1000000
        /\ fits_limits(policy, capabilities[p]) => score(p) > -5000000
        /\ ~fits_limits(policy, capabilities[p]) => score(p) <= -5000000
  BY FailuresInWindow, ScoreRange
<1> HIDE DEF score
<1>2. PICK p \in setting.configured : \A r \in setting.configured : below[p] <= below[r]
  <2>1. \A r \in setting.configured : below[r] \in Nat
    BY <1>1
  <2> HIDE DEF below
  <2>2. QED
    BY <2>1, LeastValue
<1>3. \A r \in setting.configured : 1000000 - score(p) <= 1000000 - score(r)
  <2>1. \A r \in setting.configured : below[r] = 1000000 - score(r)
    OBVIOUS
  <2> HIDE DEF below
  <2>2. QED
    BY <1>2, <2>1
<1>4. p \in best
  BY <1>1, <1>3
<1>5. first_of(best) \in best
  BY <1>4, FirstIsOne
<1>6. best_scored(stage, policy, previous) = first_of(best)
  BY DEF best_scored, score
<1>7. \A r \in best : fits_limits(policy, capabilities[r])
  BY <1>1
<1>8. QED
  BY <1>5, <1>6, <1>7

LEMMA ChosenWithinLimits ==
  ASSUME SettingInv, IsLog(log), RoutingAssumption, ChooseProvider
  PROVE  ChoiceWithinLimits'
<1>1. PICK stage \in DOMAIN affinity :
        LET past == latest_run_provider_model
            provider == resolve_provider(stage, router.prefs, past.provider) IN
        router' = [pc |-> "running", stage |-> stage, prefs |-> router.prefs, past |-> past,
                   provider |-> provider, model |-> resolve_model(stage, provider, router.prefs)]
  BY DEF ChooseProvider
<1> DEFINE prefs == router.prefs
           previous == latest_run_provider_model.provider
           policy == model_policy(prefs)
           provider == resolve_provider(stage, prefs, previous)
           named == preferred_by_name(stage, prefs)
<1>2. /\ router'.stage = stage /\ router'.prefs = prefs /\ router'.past.provider = previous
      /\ router'.provider = provider /\ setting' = setting
  BY <1>1 DEF ChooseProvider
<1> HIDE DEF prefs, previous
<1>3. \/ \A p \in setting.configured : ~fits_limits(policy, capabilities[p])
      \/ fits_limits(policy, capabilities[provider])
      \/ named.provider # None
      \/ setting.default \notin setting.configured \ {"local_echo"}
      \/ ~policy.switching /\ provider = previous
  <2>1. SUFFICES ASSUME NEW p \in setting.configured, fits_limits(policy, capabilities[p]),
                        named.provider = None, setting.default \in setting.configured \ {"local_echo"},
                        ~(~policy.switching /\ provider = previous)
                 PROVE  fits_limits(policy, capabilities[provider])
    OBVIOUS
  <2>2. provider = IF ~policy.switching /\ previous \in setting.configured THEN previous
                   ELSE best_scored(stage, policy, previous)
    BY <2>1 DEF resolve_provider
  <2>3. provider = best_scored(stage, policy, previous)
    BY <2>1, <2>2
  <2>4. fits_limits(policy, capabilities[best_scored(stage, policy, previous)])
    BY <2>1, BestMeetsLimits DEF SettingInv
  <2>5. QED
    BY <2>3, <2>4
<1>4. preferred_by_name(router.stage, router.prefs)' = named
  BY <1>2 DEF preferred_by_name
<1>5. QED
  BY <1>2, <1>3, <1>4 DEF ChoiceWithinLimits

\* A choice stands until its run ends.
LEMMA ChoiceStands ==
  ASSUME SwitchInv, ChoiceWithinLimits, RoutingAssumption, [RoutingNext]_routing_vars
  PROVE  ChoiceWithinLimits'
<1>1. CASE router' = router /\ setting' = setting
  BY <1>1 DEF ChoiceWithinLimits, preferred_by_name
<1>2. CASE router'.pc # "running"
  BY <1>2 DEF ChoiceWithinLimits
<1>3. CASE ChooseProvider
  BY <1>3, ChosenWithinLimits DEF SwitchInv, PrefsInv
<1>4. CASE ReadTask \/ CountSwitches \/ StageRunFails \/ record_model_switch_if_needed \/ Crash
  BY <1>2, <1>4 DEF ReadTask, CountSwitches, StageRunFails, record_model_switch_if_needed, Crash, AtRest
<1>5. CASE StageRunCompletes
  <2>1. router' = [router EXCEPT !.pc = "completed"] /\ "pc" \in DOMAIN router
    BY <1>5 DEF StageRunCompletes, SwitchInv, RouterInv
  <2>2. QED
    BY <1>2, <2>1
<1>6. CASE RequestUpdate \/ update_model_policy \/ RequestSwitch \/ switch_model \/ RecordSwitch \/ UNCHANGED routing_vars
  BY <1>1, <1>6 DEF RequestUpdate, update_model_policy, RequestSwitch, switch_model, RecordSwitch, routing_vars
<1>7. QED
  BY <1>3, <1>4, <1>5, <1>6 DEF RoutingNext

\* For any providers configured, policies, failures and clients: a provider chosen by its
\* score meets the limits of the policy whenever a configured one does (provider_score).
THEOREM ChoicesAlwaysWithinLimits ==
  ASSUME NEW choices, \A s \in choices : TaskSetting(s)
  PROVE  RoutingInit(choices) /\ [][RoutingNext]_routing_vars => []ChoiceWithinLimits
<1>1. RoutingInit(choices) => ChoiceWithinLimits
  BY DEF RoutingInit, AtRest, ChoiceWithinLimits
<1>2. SwitchInv /\ ChoiceWithinLimits /\ [RoutingNext]_routing_vars => ChoiceWithinLimits'
  BY ChoiceStands, RoutingAssumption
<1>3. QED
  BY <1>1, <1>2, SwitchInvAlways, PTL

-----------------------------------------------------------------------------
(* Context: sequences and their sums *)

\* Counting up reaches every number.
LEMMA Counting ==
  ASSUME NEW N \in Nat, NEW S, 0 \in S, \A n \in Nat : n < N /\ n \in S => n + 1 \in S
  PROVE  \A n \in 0..N : n \in S
<1> DEFINE Missed == {n \in 0..N : n \notin S}
<1>1. SUFFICES ASSUME Missed # {} PROVE FALSE
  OBVIOUS
<1>2. Missed \in SUBSET Nat
  OBVIOUS
<1>3. PICK m \in Missed : \A n \in Missed : m <= n
  BY <1>1, <1>2, MinIsLeast
<1>4. m # 0 /\ m \in Nat /\ m <= N
  OBVIOUS
<1>5. m - 1 \in 0..N /\ m - 1 \notin Missed
  BY <1>3, <1>4
<1>6. m - 1 \in S /\ m - 1 < N /\ m - 1 \in Nat
  BY <1>4, <1>5
<1>7. (m - 1) + 1 \in S
  BY <1>6
<1>8. QED
  BY <1>4, <1>7

LEMMA Mapped ==
  ASSUME NEW k \in Nat, NEW f, f = [n \in 1..k |-> f[n]]
  PROVE  IsLog(f) /\ Len(f) = k
<1> DEFINE S == {f[n] : n \in 1..k}
<1>1. f \in [1..k -> S]
  OBVIOUS
<1> HIDE DEF S
<1>2. f \in Seq(S)
  BY <1>1, SeqDef
<1>3. Len(f) \in Nat /\ DOMAIN f = 1..Len(f)
  BY <1>2, LenProperties
<1>4. 1..Len(f) = 1..k
  BY <1>1, <1>3
<1>5. Len(f) = k
  BY <1>3, <1>4
<1>6. QED
  BY <1>2, <1>5 DEF IsLog

LEMMA SumsExist ==
  ASSUME NEW N \in Nat, NEW f
  PROVE  \E h : h = [n \in 0..N |-> IF n = 0 THEN 0 ELSE h[n - 1] + f[n]]
<1> DEFINE Sums(h, m) == h = [n \in 0..m |-> IF n = 0 THEN 0 ELSE h[n - 1] + f[n]]
           S == {m \in 0..N : \E h : Sums(h, m)}
<1>1. 0 \in S
  <2> DEFINE g == [n \in 0..0 |-> 0]
  <2>1. Sums(g, 0)
    OBVIOUS
  <2> HIDE DEF g
  <2>2. \E h : Sums(h, 0)
    BY <2>1
  <2>3. QED
    BY <2>2
<1>2. ASSUME NEW m \in Nat, m < N, m \in S
      PROVE  m + 1 \in S
  <2>1. PICK h : Sums(h, m)
    BY <1>2
  <2> DEFINE g == [n \in 0..(m + 1) |-> IF n = m + 1 THEN h[m] + f[m + 1] ELSE h[n]]
  <2>2. \A n \in 0..(m + 1) : g[n] = IF n = 0 THEN 0 ELSE g[n - 1] + f[n]
    <3>1. SUFFICES ASSUME NEW n \in 0..(m + 1)
                   PROVE  g[n] = IF n = 0 THEN 0 ELSE g[n - 1] + f[n]
      OBVIOUS
    <3>2. CASE n = m + 1
      <4>1. g[n] = h[m] + f[m + 1] /\ g[n - 1] = h[m] /\ n # 0
        BY <3>2
      <4>2. QED
        BY <3>2, <4>1
    <3>3. CASE n # m + 1
      <4>1. g[n] = h[n] /\ n \in 0..m
        BY <3>3
      <4>2. h[n] = IF n = 0 THEN 0 ELSE h[n - 1] + f[n]
        BY <2>1, <4>1
      <4>3. n # 0 => g[n - 1] = h[n - 1]
        BY <4>1
      <4>4. QED
        BY <4>1, <4>2, <4>3
    <3>4. QED
      BY <3>2, <3>3
  <2>3. DOMAIN g = 0..(m + 1) /\ g = [n \in DOMAIN g |-> g[n]]
    OBVIOUS
  <2> HIDE DEF g
  <2>4. Sums(g, m + 1)
    BY <2>2, <2>3
  <2>5. QED
    BY <1>2, <2>4
<1> HIDE DEF S
<1>3. \A n \in 0..N : n \in S
  BY <1>1, <1>2, Counting
<1>4. N \in S
  BY <1>3
<1>5. QED
  BY <1>4 DEF S

\* A total is the last of the sums, each of which adds a number to the one before.
LEMMA TotalIs ==
  ASSUME NEW f, Len(f) \in Nat
  PROVE  \E h : /\ h = [n \in 0..Len(f) |-> IF n = 0 THEN 0 ELSE h[n - 1] + f[n]]
                /\ total(f) = h[Len(f)]
<1> DEFINE Sums(h) == h = [n \in 0..Len(f) |-> IF n = 0 THEN 0 ELSE h[n - 1] + f[n]]
           sum == CHOOSE h : Sums(h)
<1>1. \E h : Sums(h)
  BY SumsExist
<1>2. Sums(sum)
  BY <1>1
<1>3. total(f) = sum[Len(f)]
  BY DEF total
<1> HIDE DEF sum
<1>4. QED
  BY <1>2, <1>3

LEMMA TotalNone ==
  ASSUME NEW f, Len(f) = 0
  PROVE  total(f) = 0
<1>1. PICK h : /\ h = [n \in 0..Len(f) |-> IF n = 0 THEN 0 ELSE h[n - 1] + f[n]]
               /\ total(f) = h[Len(f)]
  BY TotalIs
<1>2. QED
  BY <1>1

LEMMA TotalAppend ==
  ASSUME NEW f, NEW g, Len(f) \in Nat, Len(g) = Len(f) + 1, \A n \in 1..Len(f) : g[n] = f[n]
  PROVE  total(g) = total(f) + g[Len(g)]
<1>1. PICK h : /\ h = [n \in 0..Len(f) |-> IF n = 0 THEN 0 ELSE h[n - 1] + f[n]]
               /\ total(f) = h[Len(f)]
  BY TotalIs
<1>2. PICK k : /\ k = [n \in 0..Len(g) |-> IF n = 0 THEN 0 ELSE k[n - 1] + g[n]]
               /\ total(g) = k[Len(g)]
  <2>1. Len(g) \in Nat
    OBVIOUS
  <2>2. QED
    BY <2>1, TotalIs
<1> DEFINE S == {n \in 0..Len(f) : k[n] = h[n]}
<1>3. 0 \in S
  BY <1>1, <1>2
<1>4. ASSUME NEW n \in Nat, n < Len(f), n \in S
      PROVE  n + 1 \in S
  <2>1. n + 1 \in 1..Len(f) /\ n + 1 \in 0..Len(f) /\ n + 1 \in 0..Len(g) /\ (n + 1) - 1 = n /\ n + 1 # 0
    BY <1>4
  <2>2. h[n + 1] = h[n] + f[n + 1]
    BY <1>1, <2>1
  <2>3. k[n + 1] = k[n] + g[n + 1]
    BY <1>2, <2>1
  <2>4. QED
    BY <1>4, <2>1, <2>2, <2>3
<1> HIDE DEF S
<1>5. Len(f) \in S
  <2>1. \A n \in 0..Len(f) : n \in S
    BY <1>3, <1>4, Counting
  <2>2. QED
    BY <2>1
<1>6. k[Len(f)] = total(f)
  BY <1>1, <1>5 DEF S
<1>7. k[Len(g)] = k[Len(f)] + g[Len(g)]
  <2>1. Len(g) \in 0..Len(g) /\ Len(g) # 0 /\ Len(g) - 1 = Len(f)
    OBVIOUS
  <2>2. QED
    BY <1>2, <2>1
<1>8. QED
  BY <1>2, <1>6, <1>7

-----------------------------------------------------------------------------
(* Context: what the optimizer makes of its sections *)

chars(sections) == total([n \in DOMAIN sections |-> sections[n].title + sections[n].text.size + 4])
titles(sections) == total([n \in DOMAIN sections |-> estimate_tokens(Max({0, sections[n].title - 34}))])

\* A section whose text has a length.
Sized(s) ==
  /\ s = Section(s.type, s.title, s.text, s.critical, s.errors)
  /\ s.text = [says |-> s.text.says, form |-> s.text.form, size |-> s.text.size]
  /\ s.text.size \in Nat /\ s.title \in Nat

\* A pass so far: what it kept reads no longer than the tokens it counted.
Counted(out, budget) ==
  /\ out = [sections |-> out.sections, tokens |-> out.tokens, refs |-> out.refs, warned |-> out.warned]
  /\ IsLog(out.sections) /\ out.tokens \in Nat
  /\ chars(out.sections) \in Nat /\ titles(out.sections) \in Nat
  /\ chars(out.sections) + 2 * Len(out.sections) <= 4 * (out.tokens + titles(out.sections))
  /\ ~out.warned => out.tokens <= budget

LEMMA SumsGrow ==
  ASSUME NEW l, IsLog(l), NEW s
  PROVE  /\ chars(Append(l, s)) = chars(l) + (s.title + s.text.size + 4)
         /\ titles(Append(l, s)) = titles(l) + estimate_tokens(Max({0, s.title - 34}))
<1> DEFINE more == Append(l, s)
           length(x) == x.title + x.text.size + 4
           excess(x) == estimate_tokens(Max({0, x.title - 34}))
           c(x) == [n \in DOMAIN x |-> length(x[n])]
           t(x) == [n \in DOMAIN x |-> excess(x[n])]
<1>1. /\ Len(l) \in Nat /\ DOMAIN l = 1..Len(l)
      /\ DOMAIN more = 1..(Len(l) + 1)
      /\ \A n \in 1..Len(l) : more[n] = l[n]
      /\ more[Len(l) + 1] = s
  BY Appended
<1>2. /\ chars(l) = total(c(l)) /\ chars(more) = total(c(more))
      /\ titles(l) = total(t(l)) /\ titles(more) = total(t(more))
  BY DEF chars, titles
<1>3. SUFFICES chars(more) = chars(l) + length(s) /\ titles(more) = titles(l) + excess(s)
  OBVIOUS
<1> HIDE DEF more, length, excess
<1>4. Len(l) + 1 \in Nat
  BY <1>1
<1>5. Len(c(l)) = Len(l) /\ Len(c(more)) = Len(l) + 1 /\ Len(t(l)) = Len(l) /\ Len(t(more)) = Len(l) + 1
  BY <1>1, <1>4, Mapped
<1>6. \A n \in 1..Len(l) : c(more)[n] = c(l)[n] /\ t(more)[n] = t(l)[n]
  BY <1>1
<1>7. c(more)[Len(l) + 1] = length(s) /\ t(more)[Len(l) + 1] = excess(s)
  BY <1>1
<1> HIDE DEF c, t
<1>8. total(c(more)) = total(c(l)) + c(more)[Len(l) + 1] /\ total(t(more)) = total(t(l)) + t(more)[Len(l) + 1]
  BY <1>1, <1>5, <1>6, TotalAppend
<1>9. QED
  BY <1>2, <1>7, <1>8

\* A section, its title and the blank lines take no more than it is counted for, but for
\* the part of a title beyond 34 characters.
LEMMA CountCovers ==
  ASSUME NEW s, Sized(s)
  PROVE  /\ section_tokens(s) \in Nat /\ section_tokens(s) >= 10
         /\ s.title + s.text.size + 4 \in Nat
         /\ estimate_tokens(Max({0, s.title - 34})) \in Nat
         /\ s.title + s.text.size + 4 + 2
              <= 4 * (section_tokens(s) + estimate_tokens(Max({0, s.title - 34})))
<1> DEFINE extra == Max({0, s.title - 34})
           title == s.title
           size == s.text.size
<1>1. title \in Nat /\ size \in Nat
  BY DEF Sized
<1>2. extra \in Int /\ 0 <= extra /\ title - 34 <= extra
  <2>1. 0 \in Int /\ s.title - 34 \in Int
    BY <1>1
  <2>2. QED
    BY <2>1, LargerOfTwo
<1>3. section_tokens(s) = ((size + 3) \div 4) + 10 /\ estimate_tokens(extra) = (extra + 3) \div 4
  BY DEF section_tokens, estimate_tokens
<1> HIDE DEF extra, title, size
<1>4. (size + 3) \div 4 \in Nat /\ 4 * ((size + 3) \div 4) >= size
  BY <1>1
<1>5. (extra + 3) \div 4 \in Nat /\ 4 * ((extra + 3) \div 4) >= extra
  BY <1>2
<1>6. /\ section_tokens(s) \in Nat /\ section_tokens(s) >= 10 /\ title + size + 4 \in Nat
      /\ estimate_tokens(extra) \in Nat
      /\ title + size + 4 + 2 <= 4 * (section_tokens(s) + estimate_tokens(extra))
  BY <1>1, <1>2, <1>3, <1>4, <1>5
<1>7. QED
  BY <1>6 DEF extra, title, size

LEMMA SumsCovered ==
  ASSUME NEW size \in Nat, NEW cost \in Nat, NEW extra \in Nat, NEW tokens \in Nat, NEW count \in Nat,
         NEW length \in Nat, NEW over \in Nat,
         size + 2 <= 4 * (cost + extra), length + 2 * count <= 4 * (tokens + over)
  PROVE  /\ tokens + cost \in Nat /\ length + size \in Nat /\ over + extra \in Nat
         /\ (length + size) + 2 * (count + 1) <= 4 * ((tokens + cost) + (over + extra))
OBVIOUS

LEMMA Added ==
  ASSUME NEW out, Counted(out, profile.budget), NEW s, Sized(s), NEW after,
         after = [sections |-> after.sections, tokens |-> after.tokens, refs |-> after.refs,
                  warned |-> after.warned],
         after.sections = Append(out.sections, s), after.tokens = out.tokens + section_tokens(s),
         ~after.warned => after.tokens <= profile.budget
  PROVE  /\ Counted(after, profile.budget) /\ s \in Range(after.sections)
         /\ \A t \in Range(out.sections) : t \in Range(after.sections)
<1> DEFINE l == out.sections
           more == after.sections
           extra == estimate_tokens(Max({0, s.title - 34}))
<1>1. IsLog(l) /\ out.tokens \in Nat
  BY DEF Counted
<1>2. /\ IsLog(more) /\ Len(l) \in Nat /\ DOMAIN more = DOMAIN l \cup {Len(l) + 1}
      /\ \A n \in DOMAIN l : more[n] = l[n]
      /\ more[Len(l) + 1] = s
  BY <1>1, Appended
<1>3. Len(more) = Len(l) + 1
  <2>1. PICK S : l \in Seq(S)
    BY <1>1 DEF IsLog
  <2>2. l \in Seq(S \cup {s})
    BY <2>1, SeqMonotonic
  <2>3. QED
    BY <2>2, AppendProperties
<1>4. /\ chars(more) = chars(l) + (s.title + s.text.size + 4)
      /\ titles(more) = titles(l) + extra
  BY <1>1, SumsGrow
<1>5. /\ section_tokens(s) \in Nat /\ s.title + s.text.size + 4 \in Nat /\ extra \in Nat
      /\ s.title + s.text.size + 4 + 2 <= 4 * (section_tokens(s) + extra)
  BY CountCovers
<1>6. /\ chars(l) \in Nat /\ titles(l) \in Nat
      /\ chars(l) + 2 * Len(l) <= 4 * (out.tokens + titles(l))
  BY DEF Counted
<1>7. s \in Range(more) /\ \A t \in Range(l) : t \in Range(more)
  BY <1>2 DEF Range
<1>8. /\ after.tokens \in Nat /\ chars(more) \in Nat /\ titles(more) \in Nat
      /\ chars(more) + 2 * Len(more) <= 4 * (after.tokens + titles(more))
  <2> DEFINE size == s.title + s.text.size + 4
             cost == section_tokens(s)
             tokens == out.tokens
  <2>1. /\ chars(more) = chars(l) + size /\ titles(more) = titles(l) + extra /\ after.tokens = tokens + cost
        /\ Len(more) = Len(l) + 1
    BY <1>3, <1>4
  <2>2. /\ size \in Nat /\ cost \in Nat /\ extra \in Nat /\ tokens \in Nat /\ Len(l) \in Nat
        /\ chars(l) \in Nat /\ titles(l) \in Nat
        /\ size + 2 <= 4 * (cost + extra) /\ chars(l) + 2 * Len(l) <= 4 * (tokens + titles(l))
    BY <1>1, <1>2, <1>5, <1>6
  <2> HIDE DEF size, cost, tokens, extra, l, more
  <2>3. /\ tokens + cost \in Nat /\ chars(l) + size \in Nat /\ titles(l) + extra \in Nat
        /\ (chars(l) + size) + 2 * (Len(l) + 1) <= 4 * ((tokens + cost) + (titles(l) + extra))
    BY <2>2, SumsCovered
  <2>4. /\ after.tokens \in Nat /\ chars(more) \in Nat /\ titles(more) \in Nat
        /\ chars(more) + 2 * Len(more) <= 4 * (after.tokens + titles(more))
    BY <2>1, <2>3
  <2>5. QED
    BY <2>4 DEF more
<1>9. Counted(after, profile.budget)
  BY <1>2, <1>8 DEF Counted
<1>10. QED
  BY <1>7, <1>9

LEMMA ReducedIsSized ==
  ASSUME NEW s, Sized(s), NEW remaining \in Nat
  PROVE  Sized(reduced(s, remaining))
<1> DEFINE width == Min({Max({remaining * 4 - 40, 0}), MaxSummary})
           smaller == reduced(s, remaining)
<1>1. width \in Nat
  <2>1. remaining * 4 - 40 \in Int /\ 0 \in Int
    OBVIOUS
  <2>2. Max({remaining * 4 - 40, 0}) \in Nat
    BY <2>1, LargerOfTwo
  <2>3. MaxSummary \in Nat
    BY DEF MaxSummary
  <2>4. QED
    BY <2>2, <2>3, SmallerOfTwo
<1>2. smaller = IF remaining <= 12 \/ width < 80 THEN [s EXCEPT !.text.size = 0]
                ELSE [s EXCEPT !.text = Shortened(s.text, width)]
  BY DEF reduced
<1> HIDE DEF width
<1>3. CASE smaller = [s EXCEPT !.text.size = 0]
  BY <1>3 DEF Sized, Section
<1>4. CASE smaller = [s EXCEPT !.text = Shortened(s.text, width)]
  <2> DEFINE text == Shortened(s.text, width)
  <2>1. text = [says |-> text.says, form |-> text.form, size |-> text.size] /\ text.size \in Nat
    BY <1>1 DEF Sized, Shortened
  <2> HIDE DEF text
  <2>2. smaller = Section(s.type, s.title, text, s.critical, s.errors)
    BY <1>4 DEF Sized, Section, text
  <2>3. QED
    BY <2>1, <2>2 DEF Sized, Section
<1>5. QED
  BY <1>2, <1>3, <1>4

LEMMA LargerIsOne ==
  ASSUME NEW a \in Int, NEW b \in Int
  PROVE  Max({a, b}) \in {a, b}
<1>1. \E x \in {a, b} : \A y \in {a, b} : x >= y
  OBVIOUS
<1>2. QED
  BY <1>1 DEF Max

LEMMA Placed ==
  ASSUME NEW out, Counted(out, profile.budget), NEW s, Sized(s), profile.budget \in Nat
  PROVE  LET after == placed(out, s, profile.budget) IN
         /\ Counted(after, profile.budget)
         /\ \A t \in Range(out.sections) : t \in Range(after.sections)
         /\ s.critical => s \in Range(after.sections)
<1> DEFINE after == placed(out, s, profile.budget)
           cost == section_tokens(s)
           remaining == Max({profile.budget - out.tokens, 0})
           smaller == reduced(s, remaining)
<1>1. /\ out = [sections |-> out.sections, tokens |-> out.tokens, refs |-> out.refs, warned |-> out.warned]
      /\ out.tokens \in Nat /\ (~out.warned => out.tokens <= profile.budget)
  BY DEF Counted
<1>2. cost \in Nat
  BY CountCovers
<1>3. /\ remaining \in Nat
      /\ out.tokens <= profile.budget => remaining = profile.budget - out.tokens
      /\ out.tokens > profile.budget => remaining = 0
  <2>1. profile.budget - out.tokens \in Int /\ 0 \in Int
    BY <1>1
  <2>2. remaining \in Int /\ remaining \in {profile.budget - out.tokens, 0}
        /\ 0 <= remaining /\ profile.budget - out.tokens <= remaining
    BY <2>1, LargerOfTwo, LargerIsOne
  <2>3. QED
    BY <1>1, <2>2
<1>4. Sized(smaller) /\ section_tokens(smaller) \in Nat /\ section_tokens(smaller) >= 10
  BY <1>3, ReducedIsSized, CountCovers
<1>5. after = IF out.tokens + cost <= profile.budget
              THEN [out EXCEPT !.sections = Append(@, s), !.tokens = @ + cost]
              ELSE IF s.critical
              THEN [out EXCEPT !.sections = Append(@, s), !.tokens = @ + cost, !.warned = TRUE]
              ELSE IF smaller.text.size > 0 /\ section_tokens(smaller) <= remaining
              THEN [out EXCEPT !.sections = Append(@, smaller), !.tokens = @ + section_tokens(smaller)]
              ELSE out
  BY DEF placed
<1>6. cost = section_tokens(s)
  OBVIOUS
<1>7. SUFFICES /\ Counted(after, profile.budget)
               /\ \A t \in Range(out.sections) : t \in Range(after.sections)
               /\ s.critical => s \in Range(after.sections)
  OBVIOUS
<1> HIDE DEF cost, remaining, smaller, after
<1>8. CASE out.tokens + cost <= profile.budget
  <2>1. after = [sections |-> Append(out.sections, s), tokens |-> out.tokens + cost, refs |-> out.refs,
                 warned |-> out.warned]
    BY <1>1, <1>5, <1>8
  <2>2. /\ after = [sections |-> after.sections, tokens |-> after.tokens, refs |-> after.refs,
                    warned |-> after.warned]
        /\ after.sections = Append(out.sections, s) /\ after.tokens = out.tokens + section_tokens(s)
        /\ after.tokens <= profile.budget
    BY <1>6, <1>8, <2>1
  <2>3. QED
    BY <2>2, Added
<1>9. CASE ~(out.tokens + cost <= profile.budget) /\ s.critical
  <2>1. after = [sections |-> Append(out.sections, s), tokens |-> out.tokens + cost, refs |-> out.refs,
                 warned |-> TRUE]
    BY <1>1, <1>5, <1>9
  <2>2. /\ after = [sections |-> after.sections, tokens |-> after.tokens, refs |-> after.refs,
                    warned |-> after.warned]
        /\ after.sections = Append(out.sections, s) /\ after.tokens = out.tokens + section_tokens(s)
        /\ after.warned
    BY <1>6, <2>1
  <2>3. QED
    BY <2>2, Added
<1>10. CASE /\ ~(out.tokens + cost <= profile.budget) /\ ~s.critical
            /\ smaller.text.size > 0 /\ section_tokens(smaller) <= remaining
  <2>1. after = [sections |-> Append(out.sections, smaller), tokens |-> out.tokens + section_tokens(smaller),
                 refs |-> out.refs, warned |-> out.warned]
    BY <1>1, <1>5, <1>10
  <2>2. after.tokens <= profile.budget
    BY <1>1, <1>3, <1>4, <1>10, <2>1
  <2>3. /\ after = [sections |-> after.sections, tokens |-> after.tokens, refs |-> after.refs,
                    warned |-> after.warned]
        /\ after.sections = Append(out.sections, smaller)
        /\ after.tokens = out.tokens + section_tokens(smaller)
    BY <2>1
  <2>4. QED
    BY <1>4, <1>10, <2>2, <2>3, Added
<1>11. CASE after = out /\ ~s.critical
  BY <1>11
<1>12. QED
  BY <1>5, <1>8, <1>9, <1>10, <1>11

-----------------------------------------------------------------------------
(* Context: a pass over the sections *)

\* A section as it is gathered.
Plain(s) ==
  /\ s = Section(s.type, s.title, s.text, s.critical, s.errors)
  /\ s.text = Text(s.text.says, s.text.size)
  /\ {s.text.size, s.title, s.errors} \subseteq Nat
  /\ s.critical => s.type # "baton"
AllPlain(sections) == IsLog(sections) /\ \A n \in DOMAIN sections : Plain(sections[n])

\* A section that is critical is there with its text.
Holds(sections, s) == s.critical => \E t \in Range(sections) : t.type = s.type /\ t.text = s.text

LEMMA Transformed ==
  ASSUME NEW s, Plain(s), NEW keep, NEW layered
  PROVE  LET t == transform_section(s, keep, layered) IN
         /\ Sized(t) /\ t.critical = s.critical /\ t.type = s.type
         /\ s.critical => t.text = s.text
<1> DEFINE t == transform_section(s, keep, layered)
           short(width) == Shortened(s.text, width)
           truncated == [s.text EXCEPT !.form = "truncated", !.size = MaxBaton + 50]
           errors == Min({4, s.errors})
           IsText(x) == x = [says |-> x.says, form |-> x.form, size |-> x.size] /\ x.size \in Nat
<1>1. /\ s = Section(s.type, s.title, s.text, s.critical, s.errors)
      /\ s.text = [says |-> s.text.says, form |-> "verbatim", size |-> s.text.size]
      /\ s.text.size \in Nat /\ s.title \in Nat /\ s.errors \in Nat
      /\ s.critical => s.type # "baton"
  BY DEF Plain, Text
<1>2. IsText(s.text)
  BY <1>1
<1>3. IsText(short(MaxSummary)) /\ IsText(short(MaxPlain))
  <2>1. ASSUME NEW width \in Nat
        PROVE  IsText(short(width))
    <3> DEFINE cut == [s.text EXCEPT !.form = "summary", !.size = width]
    <3> DEFINE reformed == [s.text EXCEPT !.form = "summary"]
    <3>1. reformed = [says |-> s.text.says, form |-> "summary", size |-> s.text.size]
      BY <1>2
    <3>2. short(width) = IF s.text.size <= width THEN s.text ELSE cut
      BY DEF Shortened
    <3>3. cut = [says |-> s.text.says, form |-> "summary", size |-> width]
      <4>1. cut = [reformed EXCEPT !.size = width]
        OBVIOUS
      <4> HIDE DEF reformed, cut
      <4>2. QED
        BY <3>1, <4>1
    <3> HIDE DEF cut, short, reformed
    <3>4. QED
      BY <1>2, <3>2, <3>3
  <2>2. MaxSummary \in Nat /\ MaxPlain \in Nat
    BY DEF MaxSummary, MaxPlain
  <2> HIDE DEF short, IsText
  <2>3. QED
    BY <2>1, <2>2
<1>4. IsText(truncated)
  <2> DEFINE reformed == [s.text EXCEPT !.form = "truncated"]
  <2>1. reformed = [says |-> s.text.says, form |-> "truncated", size |-> s.text.size]
    BY <1>2
  <2>2. MaxBaton + 50 \in Nat
    BY DEF MaxBaton
  <2>3. truncated = [says |-> s.text.says, form |-> "truncated", size |-> MaxBaton + 50]
    <3>1. truncated = [reformed EXCEPT !.size = MaxBaton + 50]
      OBVIOUS
    <3> HIDE DEF reformed, truncated
    <3>2. QED
      BY <2>1, <3>1
  <2> HIDE DEF truncated, reformed
  <2>4. QED
    BY <2>2, <2>3
<1>5. IsText(placeholder(s, layered))
  <2>1. errors \in Nat
    BY <1>1, SmallerOfTwo
  <2>2. placeholder(s, layered) = [says |-> s.text.says, form |-> "reference",
                                   size |-> 200 + (IF layered THEN 120 ELSE 240) + 160 * errors]
    BY DEF placeholder
  <2> HIDE DEF errors
  <2>3. QED
    BY <2>1, <2>2
<1>6. PICK text : /\ t = [s EXCEPT !.text = text]
                  /\ text \in {placeholder(s, layered), truncated, short(MaxSummary), short(MaxPlain), s.text}
                  /\ s.critical => text = s.text
  BY <1>1 DEF transform_section, refers
<1> HIDE DEF t, short, truncated
<1>7. IsText(text)
  BY <1>2, <1>3, <1>4, <1>5, <1>6
<1>8. t = Section(s.type, s.title, text, s.critical, s.errors)
  BY <1>1, <1>6 DEF Section
<1>9. /\ Sized(t) /\ t.critical = s.critical /\ t.type = s.type
      /\ s.critical => t.text = s.text
  BY <1>1, <1>6, <1>7, <1>8 DEF Sized, Section
<1>10. QED
  BY <1>9 DEF t

\* The states of a pass over the first N of the sections.
IsPass(h, N, sections, layered) ==
  h = [n \in 0..N |-> IF n = 0 THEN Nothing ELSE considered(h[n - 1], sections, n, layered)]

LEMMA PassExists ==
  ASSUME NEW N \in Nat, NEW sections, NEW layered
  PROVE  \E h : IsPass(h, N, sections, layered)
<1> DEFINE Pass(h, m) ==
             h = [n \in 0..m |-> IF n = 0 THEN Nothing ELSE considered(h[n - 1], sections, n, layered)]
           S == {m \in 0..N : \E h : Pass(h, m)}
<1>1. 0 \in S
  <2> DEFINE g == [n \in 0..0 |-> Nothing]
  <2>1. Pass(g, 0)
    OBVIOUS
  <2> HIDE DEF g
  <2>2. \E h : Pass(h, 0)
    BY <2>1
  <2>3. QED
    BY <2>2
<1>2. ASSUME NEW m \in Nat, m < N, m \in S
      PROVE  m + 1 \in S
  <2>1. PICK h : Pass(h, m)
    BY <1>2
  <2> DEFINE g == [n \in 0..(m + 1) |-> IF n = m + 1 THEN considered(h[m], sections, m + 1, layered) ELSE h[n]]
  <2>2. \A n \in 0..(m + 1) : g[n] = IF n = 0 THEN Nothing ELSE considered(g[n - 1], sections, n, layered)
    <3>1. SUFFICES ASSUME NEW n \in 0..(m + 1)
                   PROVE  g[n] = IF n = 0 THEN Nothing ELSE considered(g[n - 1], sections, n, layered)
      OBVIOUS
    <3>2. CASE n = m + 1
      <4>1. g[n] = considered(h[m], sections, m + 1, layered) /\ g[n - 1] = h[m] /\ n # 0
        BY <3>2
      <4>2. QED
        BY <3>2, <4>1
    <3>3. CASE n # m + 1
      <4>1. g[n] = h[n] /\ n \in 0..m
        BY <3>3
      <4>2. h[n] = IF n = 0 THEN Nothing ELSE considered(h[n - 1], sections, n, layered)
        BY <2>1, <4>1
      <4>3. n # 0 => g[n - 1] = h[n - 1]
        BY <4>1
      <4>4. QED
        BY <4>1, <4>2, <4>3
    <3>4. QED
      BY <3>2, <3>3
  <2>3. DOMAIN g = 0..(m + 1) /\ g = [n \in DOMAIN g |-> g[n]]
    OBVIOUS
  <2> HIDE DEF g
  <2>4. Pass(g, m + 1)
    BY <2>2, <2>3
  <2>5. QED
    BY <1>2, <2>4
<1> HIDE DEF S
<1>3. N \in S
  <2>1. \A n \in 0..N : n \in S
    BY <1>1, <1>2, Counting
  <2>2. QED
    BY <2>1
<1>4. \E h : Pass(h, N)
  BY <1>3 DEF S
<1>5. QED
  BY <1>4 DEF IsPass

\* What optimize returns is the last state of a pass over the sections.
LEMMA OptimizedIs ==
  ASSUME NEW sections, Len(sections) \in Nat, NEW layered
  PROVE  \E h : IsPass(h, Len(sections), sections, layered) /\ optimized(sections, layered) = h[Len(sections)]
<1> DEFINE Pass(h) == h = [n \in 0..Len(sections) |->
                             IF n = 0 THEN Nothing ELSE considered(h[n - 1], sections, n, layered)]
           out == CHOOSE h : Pass(h)
<1>1. \E h : Pass(h)
  <2>1. \E h : IsPass(h, Len(sections), sections, layered)
    BY PassExists
  <2>2. QED
    BY <2>1 DEF IsPass
<1>2. Pass(out)
  BY <1>1
<1>3. optimized(sections, layered) = out[Len(sections)]
  BY DEF optimized
<1> HIDE DEF out
<1>4. IsPass(out, Len(sections), sections, layered)
  BY <1>2 DEF IsPass
<1>5. QED
  BY <1>3, <1>4

LEMMA NothingCounted ==
  ASSUME profile.budget \in Nat
  PROVE  Counted(Nothing, profile.budget)
<1> DEFINE empty == Nothing.sections
<1>1. empty = <<>> /\ IsLog(empty) /\ Len(empty) = 0 /\ DOMAIN empty = {}
  <2>1. <<>> \in Seq({}) /\ Len(<<>>) = 0
    BY EmptySeq
  <2>2. QED
    BY <2>1 DEF Nothing, IsLog
<1>2. chars(empty) = 0 /\ titles(empty) = 0
  <2> DEFINE c == [n \in DOMAIN empty |-> empty[n].title + empty[n].text.size + 4]
             t == [n \in DOMAIN empty |-> estimate_tokens(Max({0, empty[n].title - 34}))]
  <2>1. chars(empty) = total(c) /\ titles(empty) = total(t)
    BY DEF chars, titles
  <2>2. 0 \in Nat /\ 1..0 = {}
    OBVIOUS
  <2>3. c = [n \in 1..0 |-> c[n]] /\ t = [n \in 1..0 |-> t[n]]
    BY <1>1, <2>2
  <2> HIDE DEF c, t
  <2>4. Len(c) = 0 /\ Len(t) = 0
    BY <2>2, <2>3, Mapped
  <2>5. QED
    BY <2>1, <2>4, TotalNone
<1> HIDE DEF empty
<1>3. Nothing = [sections |-> Nothing.sections, tokens |-> Nothing.tokens, refs |-> Nothing.refs,
                 warned |-> Nothing.warned]
      /\ Nothing.tokens = 0
  BY DEF Nothing
<1>4. chars(empty) + 2 * Len(empty) <= 4 * (Nothing.tokens + titles(empty))
  BY <1>1, <1>2, <1>3
<1>5. QED
  BY <1>1, <1>2, <1>3, <1>4 DEF Counted, empty

\* A pass keeps every critical section word for word, and counts what it keeps.
LEMMA PassKeeps ==
  ASSUME profile.budget \in Nat, NEW sections, AllPlain(sections), NEW layered
  PROVE  LET out == optimized(sections, layered) IN
         /\ Counted(out, profile.budget)
         /\ \A n \in DOMAIN sections : Holds(out.sections, sections[n])
<1> DEFINE N == Len(sections)
           changed(n) == transform_section(sections[n], kept_in_full(sections, n), layered)
<1>1. N \in Nat /\ DOMAIN sections = 1..N
  BY Appended DEF AllPlain
<1>2. PICK h : IsPass(h, N, sections, layered) /\ optimized(sections, layered) = h[N]
  BY <1>1, OptimizedIs
<1>3. \A n \in 1..N : /\ Sized(changed(n)) /\ changed(n).critical = sections[n].critical
                      /\ changed(n).type = sections[n].type
                      /\ sections[n].critical => changed(n).text = sections[n].text
  BY <1>1, Transformed DEF AllPlain
<1> HIDE DEF changed
<1>4. h[0] = Nothing
  BY <1>1, <1>2 DEF IsPass
<1>5. \A n \in 1..N : h[n] = placed(h[n - 1], changed(n), profile.budget)
  <2>1. \A n \in 1..N : h[n] = considered(h[n - 1], sections, n, layered)
    BY <1>1, <1>2 DEF IsPass
  <2>2. QED
    BY <2>1 DEF considered, changed
<1> DEFINE S == {n \in 0..N : /\ Counted(h[n], profile.budget)
                              /\ \A m \in 1..n : Holds(h[n].sections, sections[m])}
<1>6. 0 \in S
  BY <1>1, <1>4, NothingCounted
<1>7. ASSUME NEW n \in Nat, n < N, n \in S
      PROVE  n + 1 \in S
  <2> DEFINE before == h[n]
             after == h[n + 1]
             s == changed(n + 1)
  <2>1. n + 1 \in 1..N /\ (n + 1) - 1 = n
    BY <1>1, <1>7
  <2>2. after = placed(before, s, profile.budget) /\ Counted(before, profile.budget) /\ Sized(s)
    BY <1>3, <1>5, <1>7, <2>1
  <2> HIDE DEF before, after, s
  <2>3. /\ Counted(after, profile.budget)
        /\ \A t \in Range(before.sections) : t \in Range(after.sections)
        /\ s.critical => s \in Range(after.sections)
    BY <2>2, Placed
  <2>4. \A m \in 1..n : Holds(after.sections, sections[m])
    BY <1>7, <2>3 DEF Holds, before
  <2>5. Holds(after.sections, sections[n + 1])
    BY <1>3, <2>1, <2>3 DEF Holds, s
  <2>6. \A m \in 1..(n + 1) : Holds(after.sections, sections[m])
    BY <2>4, <2>5
  <2>7. QED
    BY <1>1, <1>7, <2>1, <2>3, <2>6 DEF after
<1> HIDE DEF S
<1>8. N \in S
  <2>1. \A n \in 0..N : n \in S
    BY <1>1, <1>6, <1>7, Counting
  <2>2. QED
    BY <1>1, <2>1
<1>9. QED
  BY <1>1, <1>2, <1>8 DEF S

\* What a pass kept reads within the budget, but for long titles.
LEMMA RenderedWithin ==
  ASSUME NEW out, NEW budget \in Nat, Counted(out, budget), ~out.warned
  PROVE  estimate_tokens(rendered(out.sections)) <= budget + titles(out.sections)
<1> DEFINE l == out.sections
           length == chars(l)
           over == titles(l)
           tokens == out.tokens
           count == Len(l)
           breaks == Max({count - 1, 0})
<1>1. /\ length \in Nat /\ over \in Nat /\ tokens \in Nat /\ count \in Nat
      /\ length + 2 * count <= 4 * (tokens + over) /\ tokens <= budget
  BY Appended DEF Counted
<1>2. estimate_tokens(rendered(l)) = (length + 2 * breaks + 3) \div 4
  BY DEF estimate_tokens, rendered, chars
<1>3. breaks \in Nat /\ breaks <= count
  <2>1. count - 1 \in Int /\ 0 \in Int
    BY <1>1
  <2> HIDE DEF count
  <2>2. breaks \in {count - 1, 0} /\ breaks \in Int /\ 0 <= breaks
    BY <2>1, LargerOfTwo, LargerIsOne
  <2>3. QED
    BY <1>1, <2>2
<1> HIDE DEF l, length, over, tokens, count, breaks
<1>4. (length + 2 * breaks + 3) \div 4 <= tokens + over
  <2> DEFINE size == length + 2 * breaks
             most == tokens + over
  <2>1. size \in Nat /\ most \in Nat /\ size <= 4 * most
    BY <1>1, <1>3
  <2> HIDE DEF size, most
  <2>2. (size + 3) \div 4 <= most
    BY <2>1
  <2>3. QED
    BY <2>2 DEF size, most
<1>5. estimate_tokens(rendered(l)) <= budget + over
  <2>1. estimate_tokens(rendered(l)) <= tokens + over
    BY <1>2, <1>4
  <2>2. tokens + over <= budget + over /\ (length + 2 * breaks + 3) \div 4 \in Int
    BY <1>1, <1>3
  <2>3. QED
    BY <1>1, <1>2, <2>1, <2>2
<1>6. QED
  BY <1>5 DEF l, over

-----------------------------------------------------------------------------
(* Context: what is gathered *)

\* An event as it is kept: its text carries its position.
EventsInv ==
  /\ IsLog(recorded_events)
  /\ \A n \in DOMAIN recorded_events :
       LET e == recorded_events[n] IN
       /\ e.type \in EventTypes /\ e.size \in Nat /\ e.title \in Nat /\ e.errors \in Nat
       /\ e.says[2] = n

\* A log is the text of an event.
Logged(s, events) ==
  \E n \in DOMAIN events : s.type = events[n].type /\ s.text = Text(events[n].says, events[n].size)
Gathered(s, events) == Plain(s) /\ (s.type \in LogLike => Logged(s, events))
AllGathered(sections, events) == IsLog(sections) /\ \A n \in DOMAIN sections : Gathered(sections[n], events)

LEMMA GatheredNone == AllGathered(<<>>, recorded_events)
<1>1. <<>> \in Seq({}) /\ DOMAIN <<>> = {}
  BY EmptySeq
<1>2. QED
  BY <1>1 DEF AllGathered, IsLog

LEMMA GatheredOne ==
  ASSUME NEW s, Gathered(s, recorded_events)
  PROVE  AllGathered(<<s>>, recorded_events)
<1> DEFINE single == <<s>>
<1>1. single \in Seq({s}) /\ Len(single) = 1 /\ single[1] = s
  OBVIOUS
<1> HIDE DEF single
<1>2. DOMAIN single = 1..1
  BY <1>1, LenProperties
<1>3. IsLog(single)
  BY <1>1 DEF IsLog
<1>4. AllGathered(single, recorded_events)
  BY <1>1, <1>2, <1>3 DEF AllGathered
<1>5. QED
  BY <1>4 DEF single

LEMMA GatheredTogether ==
  ASSUME NEW p, AllGathered(p, recorded_events), NEW q, AllGathered(q, recorded_events)
  PROVE  AllGathered(p \o q, recorded_events)
<1>1. PICK S : p \in Seq(S)
  BY DEF AllGathered, IsLog
<1>2. PICK T : q \in Seq(T)
  BY DEF AllGathered, IsLog
<1>3. p \in Seq(S \cup T) /\ q \in Seq(S \cup T)
  BY <1>1, <1>2, SeqMonotonic
<1> DEFINE both == p \o q
<1>4. /\ both \in Seq(S \cup T) /\ Len(both) = Len(p) + Len(q)
      /\ \A i \in 1 .. Len(p) + Len(q) : both[i] = IF i <= Len(p) THEN p[i] ELSE q[i - Len(p)]
  BY <1>3, ConcatProperties
<1> HIDE DEF both
<1>5. /\ DOMAIN p = 1..Len(p) /\ Len(p) \in Nat /\ DOMAIN q = 1..Len(q) /\ Len(q) \in Nat
      /\ DOMAIN both = 1..Len(both)
  BY <1>3, <1>4, LenProperties
<1>6. \A i \in DOMAIN both : Gathered(both[i], recorded_events)
  <2>1. SUFFICES ASSUME NEW i \in 1..(Len(p) + Len(q))
                 PROVE  Gathered(both[i], recorded_events)
    BY <1>4, <1>5
  <2>2. CASE i <= Len(p)
    <3>1. i \in DOMAIN p /\ both[i] = p[i]
      BY <1>4, <1>5, <2>2
    <3>2. QED
      BY <3>1 DEF AllGathered
  <2>3. CASE ~(i <= Len(p))
    <3>1. i - Len(p) \in DOMAIN q /\ both[i] = q[i - Len(p)]
      BY <1>4, <1>5, <2>3
    <3>2. QED
      BY <3>1 DEF AllGathered
  <2>4. QED
    BY <2>2, <2>3
<1>7. IsLog(both)
  BY <1>4 DEF IsLog
<1>8. QED
  BY <1>6, <1>7 DEF AllGathered, both

\* The latest rows are rows.
LEMMA LatestRows ==
  ASSUME NEW rows, IsLog(rows), NEW count \in Nat
  PROVE  LET found == latest(rows, count) IN
         IsLog(found) /\ \A n \in DOMAIN found : \E m \in DOMAIN rows : found[n] = rows[m]
<1> DEFINE first == Max({1, Len(rows) - count + 1})
           found == latest(rows, count)
<1>1. PICK S : rows \in Seq(S)
  BY DEF IsLog
<1>2. Len(rows) \in Nat /\ DOMAIN rows = 1..Len(rows)
  BY <1>1, LenProperties
<1>3. first \in Int /\ 1 <= first
  <2>1. 1 \in Int /\ Len(rows) - count + 1 \in Int
    BY <1>2
  <2>2. QED
    BY <2>1, LargerOfTwo
<1>4. found = SubSeq(rows, first, Len(rows))
  BY DEF latest
<1> HIDE DEF first, found
<1>5. \A i \in first..Len(rows) : rows[i] \in S
  BY <1>1, <1>2, <1>3, ElementOfSeq
<1>6. /\ found \in Seq(S)
      /\ Len(found) = IF first <= Len(rows) THEN Len(rows) - first + 1 ELSE 0
      /\ \A i \in 1..(Len(rows) - first + 1) : found[i] = rows[first + i - 1]
  BY <1>2, <1>3, <1>4, <1>5, SubSeqProperties
<1>7. DOMAIN found = 1..Len(found)
  BY <1>6, LenProperties
<1>8. \A n \in DOMAIN found : \E m \in DOMAIN rows : found[n] = rows[m]
  <2>1. SUFFICES ASSUME NEW n \in DOMAIN found
                 PROVE  \E m \in DOMAIN rows : found[n] = rows[m]
    OBVIOUS
  <2>2. n \in 1..(Len(rows) - first + 1)
    BY <1>2, <1>3, <1>6, <1>7
  <2>3. found[n] = rows[first + n - 1]
    BY <1>6, <2>2
  <2>4. first + n - 1 \in 1..Len(rows)
    BY <1>2, <1>3, <2>2
  <2>5. QED
    BY <1>2, <2>3, <2>4
<1>9. IsLog(found)
  BY <1>6 DEF IsLog
<1>10. QED
  BY <1>8, <1>9 DEF found

\* A section of the assembler's own.
LEMMA OwnSection ==
  ASSUME NEW type, type \notin LogLike, NEW title \in Nat, NEW says, NEW size \in Nat, NEW critical,
         critical => type # "baton"
  PROVE  Gathered(Section(type, title, Text(says, size), critical, 0), recorded_events)
BY DEF Gathered, Plain, Section, Text

LEMMA EventGathered ==
  ASSUME EventsInv, NEW n \in DOMAIN recorded_events
  PROVE  Gathered(event_section(recorded_events[n]), recorded_events)
<1> DEFINE e == recorded_events[n]
           type == IF e.type \in {"memory", "routing"} THEN "project_event" ELSE e.type
           critical == e.type \in Preserved \/ (e.type \notin LogLike /\ e.marked)
           s == event_section(e)
<1>1. e.type \in EventTypes /\ e.size \in Nat /\ e.title \in Nat /\ e.errors \in Nat
  BY DEF EventsInv
<1>2. s = Section(type, e.title, Text(e.says, e.size), critical, e.errors)
  BY DEF event_section
<1>3. type # "baton" /\ (type \in LogLike => type = e.type)
  BY <1>1 DEF EventTypes, LogLike
<1> HIDE DEF type, critical, s
<1>4. Plain(s)
  BY <1>1, <1>2, <1>3 DEF Plain, Section, Text
<1>5. s.type \in LogLike => Logged(s, recorded_events)
  BY <1>2, <1>3 DEF Logged, Section
<1>6. QED
  BY <1>4, <1>5 DEF Gathered, s

LEMMA Assembled ==
  ASSUME EventsInv, NEW packets, IsLog(packets), \A n \in DOMAIN packets : packets[n].size \in Nat,
         NEW events, IsLog(events),
         \A n \in DOMAIN events : \E m \in DOMAIN recorded_events : events[n] = recorded_events[m],
         NEW prior
  PROVE  AllGathered(assemble(packets, events, prior), recorded_events)
<1> DEFINE task == <<Section("task", 13, Text("task", 120), TRUE, 0)>>
           told == [n \in DOMAIN events |-> event_section(events[n])]
<1>1. AllGathered(task, recorded_events)
  <2>1. Gathered(Section("task", 13, Text("task", 120), TRUE, 0), recorded_events)
    BY OwnSection DEF LogLike
  <2>2. QED
    BY <2>1, GatheredOne
<1>2. AllGathered(baton_sections(packets), recorded_events)
  <2> DEFINE b == Head(packets)
             handed == <<Section("baton", 19, Text(b.says, b.size), FALSE, 0)>>
             held == <<Section("constraint", 20, Text(b.constraints, 100), TRUE, 0)>>
  <2>1. CASE packets = <<>>
    BY <2>1, GatheredNone DEF baton_sections
  <2>2. CASE packets # <<>>
    <3>1. b.size \in Nat
      <4>1. PICK S : packets \in Seq(S)
        BY DEF IsLog
      <4>2. packets \in Seq(Range(packets))
        BY <4>1, SeqOfRange
      <4>3. b \in Range(packets)
        BY <2>2, <4>2, HeadTailProperties
      <4>4. QED
        BY <4>3 DEF Range
    <3>2. baton_sections(packets) = handed \o (IF b.constraints = {} THEN <<>> ELSE held)
      BY <2>2 DEF baton_sections
    <3>3. Gathered(Section("baton", 19, Text(b.says, b.size), FALSE, 0), recorded_events)
      BY <3>1, OwnSection DEF LogLike
    <3>4. Gathered(Section("constraint", 20, Text(b.constraints, 100), TRUE, 0), recorded_events)
      BY OwnSection DEF LogLike
    <3>5. AllGathered(handed, recorded_events) /\ AllGathered(held, recorded_events)
      BY <3>3, <3>4, GatheredOne
    <3> HIDE DEF handed, held, b
    <3>6. AllGathered(IF b.constraints = {} THEN <<>> ELSE held, recorded_events)
      BY <3>5, GatheredNone
    <3>7. QED
      BY <3>2, <3>5, <3>6, GatheredTogether
  <2>3. QED
    BY <2>1, <2>2
<1>3. AllGathered(routing_section(events), recorded_events)
  <2>1. Gathered(Section("routing", 16, Text("routing", 80), FALSE, 0), recorded_events)
    BY OwnSection DEF LogLike
  <2>2. AllGathered(<<Section("routing", 16, Text("routing", 80), FALSE, 0)>>, recorded_events)
    BY <2>1, GatheredOne
  <2>3. QED
    BY <2>2, GatheredNone DEF routing_section
<1>4. AllGathered(memory_section(events),
                  recorded_events)
  <2> DEFINE remembered == {n \in DOMAIN events : events[n].type = "memory"}
             lines == Min({5, Cardinality(remembered)})
  <2>1. Cardinality(remembered) \in Nat
    <3>1. Len(events) \in Nat /\ DOMAIN events = 1..Len(events)
      BY Appended
    <3>2. remembered \in SUBSET (1..Len(events)) /\ IsFiniteSet(1..Len(events))
      BY <3>1, FS_Interval
    <3> HIDE DEF remembered
    <3>3. QED
      BY <3>2, FS_Subset, FS_CardinalityType
  <2>2. lines \in Nat
    BY <2>1, SmallerOfTwo
  <2>3. memory_section(events) =
          IF lines = 0 THEN <<>> ELSE <<Section("memory", 15, Text("memory", 165 * lines), FALSE, 0)>>
    BY DEF memory_section
  <2> HIDE DEF lines
  <2>4. Gathered(Section("memory", 15, Text("memory", 165 * lines), FALSE, 0), recorded_events)
    <3>1. 165 * lines \in Nat
      BY <2>2
    <3>2. QED
      BY <3>1, OwnSection DEF LogLike
  <2>5. AllGathered(<<Section("memory", 15, Text("memory", 165 * lines), FALSE, 0)>>, recorded_events)
    BY <2>4, GatheredOne
  <2>6. QED
    BY <2>3, <2>5, GatheredNone
<1>5. AllGathered(told, recorded_events)
  <2>1. Len(events) \in Nat /\ DOMAIN events = 1..Len(events)
    BY Appended
  <2>2. told = [n \in 1..Len(events) |-> told[n]]
    BY <2>1
  <2>3. \A n \in DOMAIN events : Gathered(told[n], recorded_events)
    BY EventGathered
  <2>4. DOMAIN told = DOMAIN events
    OBVIOUS
  <2> HIDE DEF told
  <2>5. IsLog(told)
    BY <2>1, <2>2, Mapped
  <2>6. QED
    BY <2>3, <2>4, <2>5 DEF AllGathered
<1>6. AllGathered(prior_section(prior), recorded_events)
  <2>1. Gathered(Section("prior_bundle", 22, Text("prior", 120), FALSE, 0), recorded_events)
    BY OwnSection DEF LogLike
  <2>2. AllGathered(<<Section("prior_bundle", 22, Text("prior", 120), FALSE, 0)>>, recorded_events)
    BY <2>1, GatheredOne
  <2>3. QED
    BY <2>2, GatheredNone DEF prior_section
<1>7. assemble(packets, events, prior) =
        task \o baton_sections(packets) \o routing_section(events) \o memory_section(events) \o told
          \o prior_section(prior)
  BY DEF assemble
<1> HIDE DEF task, told
<1>8. AllGathered(task \o baton_sections(packets), recorded_events)
  BY <1>1, <1>2, GatheredTogether
<1>9. AllGathered(task \o baton_sections(packets) \o routing_section(events), recorded_events)
  BY <1>3, <1>8, GatheredTogether
<1>10. AllGathered(task \o baton_sections(packets) \o routing_section(events) \o memory_section(events),
                  recorded_events)
  BY <1>4, <1>9, GatheredTogether
<1>11. AllGathered(task \o baton_sections(packets) \o routing_section(events) \o memory_section(events) \o told,
                  recorded_events)
  BY <1>5, <1>10, GatheredTogether
<1>12. QED
  BY <1>6, <1>7, <1>11, GatheredTogether

-----------------------------------------------------------------------------
(* Context: the references and what is kept *)

\* A reference stands for the text of an event.
StandsFor(id, text, events) ==
  \E n \in DOMAIN events :
    id = build_ref_id(events[n].type, events[n].says) /\ text = Text(events[n].says, events[n].size)
ReferencesInv == \A id \in DOMAIN references : StandsFor(id, references[id], recorded_events)

GivesBack(sections, kept) ==
  \A n \in logs_of(sections) : ref(sections[n]) \in DOMAIN kept /\ kept[ref(sections[n])] = sections[n].text

\* A pass that is over, and one bundle.
Done(out, sections, budget) ==
  /\ Counted(out, budget) /\ out.refs = refs_of(sections)
  /\ \A n \in DOMAIN sections : Holds(out.sections, sections[n])
GoodBundle(b, kept, budget) ==
  /\ \A n \in DOMAIN b.raw : Holds(b.sections, b.raw[n])
  /\ b.refs = refs_of(b.raw) /\ GivesBack(b.raw, kept)
  /\ ~b.warned => b.tokens <= budget + titles(b.sections)

GoodAssembly(w, events, kept, budget) ==
  /\ "pc" \in DOMAIN w /\ w.pc \in {"idle", "reading", "optimizing", "optimized"}
  /\ w.pc = "reading" => IsLog(w.packets) /\ \A n \in DOMAIN w.packets : w.packets[n].size \in Nat
  /\ w.pc \in {"optimizing", "optimized"} =>
       /\ w = [pc |-> w.pc, raw |-> w.raw, layered |-> w.layered, pass |-> w.pass, out |-> w.out,
               first |-> w.first]
       /\ AllGathered(w.raw, events)
       /\ w.layered /\ ~w.pass => Done(w.first, w.raw, budget) /\ GivesBack(w.raw, kept)
  /\ w.pc = "optimized" => Done(w.out, w.raw, budget) /\ GivesBack(w.raw, kept)

BatonsInv == IsLog(batons) /\ \A n \in DOMAIN batons : batons[n].size \in Nat
AssembliesInv ==
  /\ DOMAIN assembly = Assemblers
  /\ \A a \in Assemblers : GoodAssembly(assembly[a], recorded_events, references, profile.budget)
BundlesInv ==
  IsLog(bundles) /\ \A n \in DOMAIN bundles : GoodBundle(bundles[n], references, profile.budget)
ContextInv ==
  profile.budget \in Nat /\ EventsInv /\ BatonsInv /\ ReferencesInv /\ AssembliesInv /\ BundlesInv

\* No two events have a text in common.
LEMMA OneText ==
  ASSUME EventsInv, NEW id, NEW t, NEW u,
         StandsFor(id, t, recorded_events), StandsFor(id, u, recorded_events)
  PROVE  t = u
<1>1. PICK n \in DOMAIN recorded_events :
        /\ id = build_ref_id(recorded_events[n].type, recorded_events[n].says)
        /\ t = Text(recorded_events[n].says, recorded_events[n].size)
  BY DEF StandsFor
<1>2. PICK m \in DOMAIN recorded_events :
        /\ id = build_ref_id(recorded_events[m].type, recorded_events[m].says)
        /\ u = Text(recorded_events[m].says, recorded_events[m].size)
  BY DEF StandsFor
<1>3. recorded_events[n].says = recorded_events[m].says
  BY <1>1, <1>2 DEF build_ref_id
<1>4. n = m
  BY <1>3 DEF EventsInv
<1>5. QED
  BY <1>1, <1>2, <1>4

LEMMA LogStandsForEvent ==
  ASSUME NEW s, NEW events, Gathered(s, events), refers(s)
  PROVE  StandsFor(ref(s), s.text, events)
<1>1. PICK n \in DOMAIN events : s.type = events[n].type /\ s.text = Text(events[n].says, events[n].size)
  BY DEF refers, Gathered, Logged
<1>2. s.text.says = events[n].says
  BY <1>1 DEF Text
<1>3. QED
  BY <1>1, <1>2 DEF StandsFor, ref

\* A change that adds events and references at most leaves the rest as good as it was.
LEMMA GoodStays ==
  ASSUME NEW events, NEW more, NEW kept, NEW grown, NEW budget,
         \A n \in DOMAIN events : n \in DOMAIN more /\ more[n] = events[n],
         \A id \in DOMAIN kept : id \in DOMAIN grown /\ grown[id] = kept[id]
  PROVE  /\ \A id, text : StandsFor(id, text, events) => StandsFor(id, text, more)
         /\ \A w : GoodAssembly(w, events, kept, budget) => GoodAssembly(w, more, grown, budget)
         /\ \A b : GoodBundle(b, kept, budget) => GoodBundle(b, grown, budget)
<1>1. \A id, text : StandsFor(id, text, events) => StandsFor(id, text, more)
  BY DEF StandsFor
<1>2. \A s : Logged(s, events) => Logged(s, more)
  BY DEF Logged
<1>3. \A sections : AllGathered(sections, events) => AllGathered(sections, more)
  BY <1>2 DEF AllGathered, Gathered
<1>4. \A sections : GivesBack(sections, kept) => GivesBack(sections, grown)
  BY DEF GivesBack
<1>5. \A w : GoodAssembly(w, events, kept, budget) => GoodAssembly(w, more, grown, budget)
  BY <1>3, <1>4 DEF GoodAssembly
<1>6. \A b : GoodBundle(b, kept, budget) => GoodBundle(b, grown, budget)
  BY <1>4 DEF GoodBundle
<1>7. QED
  BY <1>1, <1>5, <1>6

LEMMA AssemblyChanged ==
  ASSUME AssembliesInv, NEW a \in Assemblers, NEW w, assembly' = [assembly EXCEPT ![a] = w],
         GoodAssembly(w, recorded_events, references', profile.budget),
         recorded_events' = recorded_events, profile' = profile,
         \A id \in DOMAIN references : id \in DOMAIN references' /\ references'[id] = references[id]
  PROVE  AssembliesInv'
<1>1. DOMAIN assembly' = Assemblers /\ assembly'[a] = w
      /\ \A b \in Assemblers : b # a => assembly'[b] = assembly[b]
  BY DEF AssembliesInv
<1>2. \A v : GoodAssembly(v, recorded_events, references, profile.budget)
               => GoodAssembly(v, recorded_events, references', profile.budget)
  BY GoodStays
<1>3. \A b \in Assemblers : GoodAssembly(assembly'[b], recorded_events', references', profile'.budget)
  BY <1>1, <1>2 DEF AssembliesInv
<1>4. QED
  BY <1>1, <1>3 DEF AssembliesInv

\* What a store call of an assembler that keeps no reference and no bundle leaves alone.
LEMMA RestStays ==
  ASSUME ContextInv, UNCHANGED <<profile, recorded_events, batons, references, bundles>>
  PROVE  (profile.budget \in Nat /\ EventsInv /\ BatonsInv /\ ReferencesInv /\ BundlesInv)'
BY DEF ContextInv, EventsInv, BatonsInv, ReferencesInv, BundlesInv

LEMMA RecordKeepsContext ==
  ASSUME ContextInv, ContextAssumption, RecordEvent
  PROVE  ContextInv'
<1>1. PICK e \in Kinds :
        recorded_events' = Append(recorded_events, [e EXCEPT !.says = <<@, Len(recorded_events) + 1>>])
  BY DEF RecordEvent
<1> DEFINE new == [e EXCEPT !.says = <<@, Len(recorded_events) + 1>>]
<1>2. UNCHANGED <<profile, batons, references, bundles, assembly>>
  BY DEF RecordEvent
<1>3. /\ IsLog(recorded_events) /\ IsLog(recorded_events')
      /\ DOMAIN recorded_events' = DOMAIN recorded_events \cup {Len(recorded_events) + 1}
      /\ \A n \in DOMAIN recorded_events : recorded_events'[n] = recorded_events[n]
      /\ recorded_events'[Len(recorded_events) + 1] = new
  BY <1>1, Appended DEF ContextInv, EventsInv
<1>4. /\ new.type \in EventTypes /\ new.size \in Nat /\ new.title \in Nat /\ new.errors \in Nat
      /\ new.says[2] = Len(recorded_events) + 1
  BY DEF ContextAssumption
<1> HIDE DEF new
<1>5. EventsInv'
  BY <1>3, <1>4 DEF ContextInv, EventsInv
<1>6. /\ \A id, text : StandsFor(id, text, recorded_events) => StandsFor(id, text, recorded_events')
      /\ \A w : GoodAssembly(w, recorded_events, references, profile.budget)
                  => GoodAssembly(w, recorded_events', references, profile.budget)
  BY <1>3, GoodStays
<1>7. ReferencesInv'
  BY <1>2, <1>6 DEF ContextInv, ReferencesInv
<1>8. AssembliesInv'
  BY <1>2, <1>6 DEF ContextInv, AssembliesInv
<1>9. (profile.budget \in Nat /\ BatonsInv /\ BundlesInv)'
  BY <1>2 DEF ContextInv, BatonsInv, BundlesInv
<1>10. QED
  BY <1>5, <1>7, <1>8, <1>9 DEF ContextInv

LEMMA PassBatonKeepsContext ==
  ASSUME ContextInv, ContextAssumption, PassBaton
  PROVE  ContextInv'
<1>1. PICK b \in Batons : batons' = Append(batons, b)
  BY DEF PassBaton
<1>2. UNCHANGED <<profile, recorded_events, references, bundles, assembly>>
  BY DEF PassBaton
<1>3. BatonsInv'
  <2>1. /\ IsLog(batons') /\ DOMAIN batons' = DOMAIN batons \cup {Len(batons) + 1}
        /\ \A n \in DOMAIN batons : batons'[n] = batons[n]
        /\ batons'[Len(batons) + 1] = b
    BY <1>1, Appended DEF ContextInv, BatonsInv
  <2>2. b.size \in Nat
    BY DEF ContextAssumption
  <2>3. QED
    BY <2>1, <2>2 DEF ContextInv, BatonsInv
<1>4. (profile.budget \in Nat /\ EventsInv /\ ReferencesInv /\ AssembliesInv /\ BundlesInv)'
  BY <1>2 DEF ContextInv, EventsInv, ReferencesInv, AssembliesInv, BundlesInv
<1>5. QED
  BY <1>3, <1>4 DEF ContextInv

LEMMA ReadBatonKeepsContext ==
  ASSUME ContextInv, NEW a \in Assemblers, ReadBaton(a)
  PROVE  ContextInv'
<1>1. UNCHANGED <<profile, recorded_events, batons, references, bundles>>
  BY DEF ReadBaton
<1>2. PICK w : w = [pc |-> "reading", packets |-> latest_packet] /\ assembly' = [assembly EXCEPT ![a] = w]
  BY DEF ReadBaton
<1>3. IsLog(w.packets) /\ \A n \in DOMAIN w.packets : w.packets[n].size \in Nat
  <2>1. 1 \in Nat
    OBVIOUS
  <2>2. w.packets = latest(batons, 1)
    BY <1>2 DEF latest_packet
  <2>3. QED
    BY <2>1, <2>2, LatestRows DEF ContextInv, BatonsInv
<1>4. GoodAssembly(w, recorded_events, references', profile.budget)
  BY <1>2, <1>3 DEF GoodAssembly
<1>5. AssembliesInv'
  BY <1>1, <1>2, <1>4, AssemblyChanged DEF ContextInv
<1>6. QED
  BY <1>1, <1>5, RestStays DEF ContextInv

LEMMA ReadEventsKeepsContext ==
  ASSUME ContextInv, ContextAssumption, NEW a \in Assemblers, ReadEvents(a)
  PROVE  ContextInv'
<1>1. UNCHANGED <<profile, recorded_events, batons, references, bundles>>
  BY DEF ReadEvents
<1>2. PICK w, mode :
        /\ w = [pc |-> "optimizing", raw |-> assemble(assembly[a].packets, latest_events, latest_bundle),
                layered |-> mode.layered, pass |-> mode.layered, out |-> Nothing, first |-> Nothing]
        /\ assembly' = [assembly EXCEPT ![a] = w]
  BY DEF ReadEvents
<1>3. AllGathered(w.raw, recorded_events)
  <2>1. IsLog(assembly[a].packets) /\ \A n \in DOMAIN assembly[a].packets : assembly[a].packets[n].size \in Nat
    BY DEF ReadEvents, ContextInv, AssembliesInv, GoodAssembly
  <2>2. /\ IsLog(latest_events)
        /\ \A n \in DOMAIN latest_events : \E m \in DOMAIN recorded_events : latest_events[n] = recorded_events[m]
    BY LatestRows DEF latest_events, ContextAssumption, ContextInv, EventsInv
  <2>3. AllGathered(assemble(assembly[a].packets, latest_events, latest_bundle), recorded_events)
    BY <2>1, <2>2, Assembled DEF ContextInv
  <2>4. QED
    BY <1>2, <2>3
<1>4. GoodAssembly(w, recorded_events, references', profile.budget)
  BY <1>2, <1>3 DEF GoodAssembly
<1>5. AssembliesInv'
  BY <1>1, <1>2, <1>4, AssemblyChanged DEF ContextInv
<1>6. QED
  BY <1>1, <1>5, RestStays DEF ContextInv

\* Whatever the store held, it gives back the text of each log of the pass from now on.
LEMMA StoreGivesBack ==
  ASSUME EventsInv, ReferencesInv, NEW raw, AllGathered(raw, recorded_events), NEW first_text,
         DOMAIN first_text = refs_of(raw),
         \A i \in refs_of(raw) : first_text[i] = raw[Min({n \in logs_of(raw) : ref(raw[n]) = i})].text,
         references' = upsert_context_reference(first_text)
  PROVE  /\ \A id \in DOMAIN references : id \in DOMAIN references' /\ references'[id] = references[id]
         /\ \A id \in DOMAIN references' : StandsFor(id, references'[id], recorded_events)
         /\ GivesBack(raw, references')
<1>1. \A n \in logs_of(raw) : StandsFor(ref(raw[n]), raw[n].text, recorded_events)
  BY LogStandsForEvent DEF AllGathered, logs_of
<1>2. \A i \in refs_of(raw) : StandsFor(i, first_text[i], recorded_events)
  <2>1. SUFFICES ASSUME NEW i \in refs_of(raw)
                 PROVE  StandsFor(i, first_text[i], recorded_events)
    OBVIOUS
  <2> DEFINE same == {n \in logs_of(raw) : ref(raw[n]) = i}
  <2>2. DOMAIN raw = 1..Len(raw) /\ Len(raw) \in Nat
    BY Appended DEF AllGathered
  <2>3. same \in SUBSET Nat /\ same # {}
    BY <2>2 DEF logs_of, refs_of
  <2>4. Min(same) \in same
    BY <2>3, MinIsLeast
  <2>5. first_text[i] = raw[Min(same)].text
    OBVIOUS
  <2>6. QED
    BY <1>1, <2>4, <2>5
<1>3. /\ DOMAIN references' = DOMAIN references \cup refs_of(raw)
      /\ \A id \in DOMAIN references' :
           references'[id] = IF id \in DOMAIN references THEN references[id] ELSE first_text[id]
  BY DEF upsert_context_reference
<1>4. \A id \in DOMAIN references' : StandsFor(id, references'[id], recorded_events)
  BY <1>2, <1>3 DEF ReferencesInv
<1>5. GivesBack(raw, references')
  <2>1. SUFFICES ASSUME NEW n \in logs_of(raw)
                 PROVE  ref(raw[n]) \in DOMAIN references' /\ references'[ref(raw[n])] = raw[n].text
    BY DEF GivesBack
  <2>2. ref(raw[n]) \in DOMAIN references'
    BY <1>3 DEF refs_of
  <2>3. QED
    BY <1>1, <1>4, <2>2, OneText
<1>6. QED
  BY <1>3, <1>4, <1>5

LEMMA OptimizeKeepsContext ==
  ASSUME ContextInv, NEW a \in Assemblers, Optimize(a)
  PROVE  ContextInv'
<1> DEFINE w == assembly[a]
           raw == w.raw
           out == optimized(raw, w.pass)
<1>1. UNCHANGED <<profile, recorded_events, batons, bundles>> /\ w.pc = "optimizing"
  BY DEF Optimize
<1>2. /\ w = [pc |-> w.pc, raw |-> w.raw, layered |-> w.layered, pass |-> w.pass, out |-> w.out,
              first |-> w.first]
      /\ AllGathered(raw, recorded_events)
      /\ w.layered /\ ~w.pass => Done(w.first, raw, profile.budget) /\ GivesBack(raw, references)
  BY <1>1 DEF ContextInv, AssembliesInv, GoodAssembly
<1>3. references' = upsert_context_reference(first_texts(raw))
  BY DEF Optimize
<1>4. PICK v : /\ assembly' = [assembly EXCEPT ![a] = v]
               /\ v = [w EXCEPT !.pc = "optimized", !.out = [out EXCEPT !.refs = refs_of(raw)]]
  BY DEF Optimize
<1>5. Counted(out, profile.budget) /\ \A n \in DOMAIN raw : Holds(out.sections, raw[n])
  BY <1>2, PassKeeps DEF ContextInv, AllGathered, AllPlain, Gathered
<1>6. /\ \A id \in DOMAIN references : id \in DOMAIN references' /\ references'[id] = references[id]
      /\ \A id \in DOMAIN references' : StandsFor(id, references'[id], recorded_events)
      /\ GivesBack(raw, references')
  <2>1. DOMAIN first_texts(raw) = refs_of(raw)
    BY DEF first_texts
  <2>2. \A i \in refs_of(raw) :
          first_texts(raw)[i] = raw[Min({n \in logs_of(raw) : ref(raw[n]) = i})].text
    BY DEF first_texts
  <2> HIDE DEF raw
  <2>3. QED
    BY <1>2, <1>3, <2>1, <2>2, StoreGivesBack DEF ContextInv
<1> DEFINE named == [out EXCEPT !.refs = refs_of(raw)]
<1>7. Done(named, raw, profile.budget)
  <2> HIDE DEF out
  <2>1. out = [sections |-> out.sections, tokens |-> out.tokens, refs |-> out.refs, warned |-> out.warned]
    BY <1>5 DEF Counted
  <2>2. named = [sections |-> out.sections, tokens |-> out.tokens, refs |-> refs_of(raw), warned |-> out.warned]
    BY <2>1
  <2> HIDE DEF named
  <2>3. QED
    BY <1>5, <2>2 DEF Counted, Done
<1> HIDE DEF named
<1>8. v = [pc |-> "optimized", raw |-> raw, layered |-> w.layered, pass |-> w.pass, out |-> named,
           first |-> w.first]
  BY <1>2, <1>4 DEF named
<1> HIDE DEF w, raw, out
<1>9. GoodAssembly(v, recorded_events, references', profile.budget)
  BY <1>2, <1>6, <1>7, <1>8 DEF GoodAssembly
<1>10. AssembliesInv'
  BY <1>1, <1>4, <1>6, <1>9, AssemblyChanged DEF ContextInv
<1>11. ReferencesInv'
  BY <1>1, <1>6 DEF ReferencesInv
<1>12. BundlesInv'
  <2>1. \A b : GoodBundle(b, references, profile.budget) => GoodBundle(b, references', profile.budget)
    BY <1>6, GoodStays
  <2>2. QED
    BY <1>1, <2>1 DEF ContextInv, BundlesInv
<1>13. (profile.budget \in Nat /\ EventsInv /\ BatonsInv)'
  BY <1>1 DEF ContextInv, EventsInv, BatonsInv
<1>14. QED
  BY <1>10, <1>11, <1>12, <1>13 DEF ContextInv

LEMMA CompareKeepsContext ==
  ASSUME ContextInv, NEW a \in Assemblers, Compare(a)
  PROVE  ContextInv'
<1> DEFINE w == assembly[a]
<1>1. UNCHANGED <<profile, recorded_events, batons, references, bundles>> /\ w.pc = "optimized"
  BY DEF Compare
<1>2. /\ w = [pc |-> w.pc, raw |-> w.raw, layered |-> w.layered, pass |-> w.pass, out |-> w.out,
              first |-> w.first]
      /\ AllGathered(w.raw, recorded_events)
      /\ Done(w.out, w.raw, profile.budget) /\ GivesBack(w.raw, references)
  BY <1>1 DEF ContextInv, AssembliesInv, GoodAssembly
<1>3. PICK v : /\ assembly' = [assembly EXCEPT ![a] = v]
               /\ v = [w EXCEPT !.pc = "optimizing", !.pass = FALSE, !.first = w.out]
  BY DEF Compare
<1>4. v = [pc |-> "optimizing", raw |-> w.raw, layered |-> w.layered, pass |-> FALSE, out |-> w.out,
           first |-> w.out]
  BY <1>2, <1>3
<1> HIDE DEF w
<1>5. GoodAssembly(v, recorded_events, references', profile.budget)
  BY <1>1, <1>2, <1>4 DEF GoodAssembly
<1>6. AssembliesInv'
  BY <1>1, <1>3, <1>5, AssemblyChanged DEF ContextInv
<1>7. QED
  BY <1>1, <1>6, RestStays DEF ContextInv

LEMMA SaveKeepsContext ==
  ASSUME ContextInv, NEW a \in Assemblers, SaveBundle(a)
  PROVE  ContextInv'
<1> DEFINE w == assembly[a]
           dual == w.layered /\ profile.dual
           best == IF dual THEN w.first ELSE w.out
<1>1. /\ UNCHANGED <<profile, recorded_events, batons, references>>
      /\ w.pc = "optimized" /\ (dual => ~w.pass) /\ assembly' = [assembly EXCEPT ![a] = Idle]
  BY DEF SaveBundle
<1>2. PICK row : /\ bundles' = Append(bundles, row)
                 /\ row.raw = w.raw /\ row.sections = best.sections /\ row.refs = best.refs
                 /\ row.warned = best.warned /\ row.tokens = estimate_tokens(rendered(best.sections))
  BY DEF SaveBundle, save_context_bundle
<1>3. Done(best, w.raw, profile.budget) /\ GivesBack(w.raw, references)
  BY <1>1 DEF ContextInv, AssembliesInv, GoodAssembly
<1> HIDE DEF w, dual, best
<1>4. ~row.warned => row.tokens <= profile.budget + titles(row.sections)
  BY <1>2, <1>3, RenderedWithin DEF Done, ContextInv
<1>5. GoodBundle(row, references, profile.budget)
  BY <1>2, <1>3, <1>4 DEF Done, GoodBundle
<1>6. BundlesInv'
  <2>1. /\ IsLog(bundles') /\ DOMAIN bundles' = DOMAIN bundles \cup {Len(bundles) + 1}
        /\ \A n \in DOMAIN bundles : bundles'[n] = bundles[n]
        /\ bundles'[Len(bundles) + 1] = row
    BY <1>2, Appended DEF ContextInv, BundlesInv
  <2>2. QED
    BY <1>1, <1>5, <2>1 DEF ContextInv, BundlesInv
<1>7. AssembliesInv'
  <2>1. GoodAssembly(Idle, recorded_events, references', profile.budget)
    BY DEF GoodAssembly, Idle
  <2>2. QED
    BY <1>1, <2>1, AssemblyChanged DEF ContextInv
<1>8. (profile.budget \in Nat /\ EventsInv /\ BatonsInv /\ ReferencesInv)'
  BY <1>1 DEF ContextInv, EventsInv, BatonsInv, ReferencesInv
<1>9. QED
  BY <1>6, <1>7, <1>8 DEF ContextInv

LEMMA RestartKeepsContext ==
  ASSUME ContextInv, Restart
  PROVE  ContextInv'
<1>1. UNCHANGED <<profile, recorded_events, batons, references, bundles>>
      /\ assembly' = [a \in Assemblers |-> Idle]
  BY DEF Restart
<1>2. AssembliesInv'
  BY <1>1 DEF AssembliesInv, GoodAssembly, Idle
<1>3. QED
  BY <1>1, <1>2, RestStays DEF ContextInv

LEMMA ContextStarts ==
  ASSUME NEW profiles, \A p \in profiles : p.budget \in Nat, ContextInit(profiles)
  PROVE  ContextInv
<1>1. /\ profile.budget \in Nat /\ recorded_events = <<>> /\ batons = <<>> /\ bundles = <<>>
      /\ references = <<>> /\ assembly = [a \in Assemblers |-> Idle]
  BY DEF ContextInit
<1>2. <<>> \in Seq({}) /\ DOMAIN <<>> = {}
  BY EmptySeq
<1>3. EventsInv /\ BatonsInv /\ ReferencesInv /\ BundlesInv
  BY <1>1, <1>2 DEF EventsInv, BatonsInv, ReferencesInv, BundlesInv, IsLog
<1>4. AssembliesInv
  BY <1>1 DEF AssembliesInv, GoodAssembly, Idle
<1>5. QED
  BY <1>1, <1>3, <1>4 DEF ContextInv

LEMMA ContextInvAlways ==
  ASSUME NEW profiles, \A p \in profiles : p.budget \in Nat
  PROVE  ContextInit(profiles) /\ [][ContextNext]_context_vars => []ContextInv
<1>1. ContextInit(profiles) => ContextInv
  BY ContextStarts
<1>2. ContextInv /\ [ContextNext]_context_vars => ContextInv'
  <2>1. ASSUME ContextInv, UNCHANGED context_vars
        PROVE  ContextInv'
    BY <2>1, RestStays DEF context_vars, ContextInv, AssembliesInv
  <2>2. QED
    BY <2>1, ContextAssumption, RecordKeepsContext, PassBatonKeepsContext, RestartKeepsContext,
       ReadBatonKeepsContext, ReadEventsKeepsContext, OptimizeKeepsContext, CompareKeepsContext,
       SaveKeepsContext
    DEF ContextNext
<1>3. QED
  BY <1>1, <1>2, PTL

\* For any events, batons, budgets and requests at work at once, and any restarts: a bundle
\* holds, word for word, every critical section gathered for it (optimize).
THEOREM CriticalAlwaysKept ==
  ASSUME NEW profiles, \A p \in profiles : p.budget \in Nat
  PROVE  ContextInit(profiles) /\ [][ContextNext]_context_vars => []CriticalKeptVerbatim
<1>1. ContextInv => CriticalKeptVerbatim
  BY DEF ContextInv, BundlesInv, GoodBundle, Holds, CriticalKeptVerbatim, Range
<1>2. QED
  BY <1>1, ContextInvAlways, PTL

\* For any events, batons, budgets and requests at work at once, and any restarts: the
\* reference that stands for a log gives back the text it replaced (_save_reference, retrieve).
THEOREM ReferencesAlwaysGiveBack ==
  ASSUME NEW profiles, \A p \in profiles : p.budget \in Nat
  PROVE  ContextInit(profiles) /\ [][ContextNext]_context_vars => []ReferencesGiveBackTheText
<1>1. ContextInv => ReferencesGiveBackTheText
  <2>1. SUFFICES ASSUME ContextInv, NEW n \in DOMAIN bundles
                 PROVE  /\ bundles[n].refs \subseteq DOMAIN references
                        /\ \A m \in DOMAIN bundles[n].raw : refers(bundles[n].raw[m]) =>
                             references[ref(bundles[n].raw[m])] = bundles[n].raw[m].text
    BY DEF ReferencesGiveBackTheText, Range, get_context_reference, ref
  <2>2. bundles[n].refs = refs_of(bundles[n].raw) /\ GivesBack(bundles[n].raw, references)
    BY <2>1 DEF ContextInv, BundlesInv, GoodBundle
  <2>3. QED
    BY <2>2 DEF GivesBack, refs_of, logs_of
<1>2. QED
  BY <1>1, ContextInvAlways, PTL

\* For any events, batons, budgets and requests at work at once, and any restarts: a prompt
\* keeps to its budget unless a critical section had to exceed it, but for long titles.
THEOREM BudgetAlwaysKept ==
  ASSUME NEW profiles, \A p \in profiles : p.budget \in Nat
  PROVE  ContextInit(profiles) /\ [][ContextNext]_context_vars => []BudgetKept
<1>1. ContextInv => BudgetKept
  BY DEF ContextInv, BundlesInv, GoodBundle, BudgetKept, titles, Range
<1>2. QED
  BY <1>1, ContextInvAlways, PTL
=============================================================================
