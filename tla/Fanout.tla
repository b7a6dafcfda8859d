------------------------------- MODULE Fanout -------------------------------
(***************************************************************************)
(* A parent task and the children its plan spawns: the scan over tasks     *)
(* (process_pending_tasks_once), the spawning (SubtaskFanoutCoordinator),  *)
(* the gate that makes the parent wait (child_gate_status), and the gate   *)
(* that makes the implementation child wait for its analysis sibling.      *)
(*                                                                         *)
(* Module Autonomy has what happens inside a stage; here a stage passes,   *)
(* opens the next cycle, or blocks its task.  Tasks are the positions of   *)
(* rows, in the order of created_at; the parent is the first.              *)
(***************************************************************************)
EXTENDS Integers, Sequences, FiniteSets, FiniteSetsExt

CONSTANTS
  Workers,     \* threads that scan: the background loop, and /autonomy/scan-once
  ChildTypes,  \* task types of the selected templates, in their order
  MaxCycles,   \* autonomy_max_cycles
  ScanLimit,   \* tasks a scan looks at, newest first
  MaxDeaths    \* bound: passes cut short by a crash or an uncaught exception

ASSUME FanoutAssumption ==
  /\ ChildTypes \in Seq({"analysis", "implementation", "review", "integration"})
  /\ \A i, j \in DOMAIN ChildTypes : ChildTypes[i] = ChildTypes[j] => i = j
  /\ MaxCycles \in Nat \ {0} /\ ScanLimit \in Nat \ {0} /\ MaxDeaths \in Nat

Parent == 1
Stages == <<"plan", "execute", "review">>

VARIABLES
  rows,    \* the tasks, with what their events say of their progress
  lists,   \* the children named by each autonomy.subtasks.spawned, oldest first
  pc,      \* where each worker is
  queue,   \* tasks each scan has yet to process
  ctx,     \* what each worker holds of its pass
  deaths

vars == <<rows, lists, pc, queue, ctx, deaths>>

Row(type) == [type |-> type, status |-> "new", cycle |-> 1, done |-> {}, flying |-> "none",
              planned |-> FALSE, advised |-> FALSE, told |-> FALSE]

NoCtx == [task |-> Parent, told |-> FALSE, unread |-> {}, found |-> {}, stage |-> "none",
          spawned |-> {}]

Init ==
  /\ rows = <<[Row("implementation") EXCEPT !.told = TRUE]>>
  /\ lists = <<>>
  /\ pc = [w \in Workers |-> "idle"]
  /\ queue = [w \in Workers |-> {}]
  /\ ctx = [w \in Workers |-> NoCtx]
  /\ deaths = 0

Active == {"new", "in_progress"}
Children == DOMAIN rows \ {Parent}

\* spawned_child_ids: the children of the latest event.
spawned_child_ids == IF lists = <<>> THEN {} ELSE lists[Len(lists)]

-----------------------------------------------------------------------------
(* Steps of a pass *)

Goto(w, label) == pc' = [pc EXCEPT ![w] = label]
Leave(w) ==
  /\ Goto(w, IF queue[w] = {} THEN "idle" ELSE "scanning")
  /\ ctx' = [ctx EXCEPT ![w] = NoCtx]
Mine(w) == rows[ctx[w].task]
Write(w, row) == rows' = [rows EXCEPT ![ctx[w].task] = row]
Block(w) == Write(w, [Mine(w) EXCEPT !.status = "blocked"])

\* The unfinished ones among the ScanLimit newest tasks.
Listed == {t \in DOMAIN rows : t > Len(rows) - ScanLimit /\ rows[t].status \in Active}

Scan(w) ==
  /\ pc[w] = "idle" /\ Listed # {}
  /\ queue' = [queue EXCEPT ![w] = Listed]
  /\ Goto(w, "scanning")
  /\ UNCHANGED <<rows, lists, ctx, deaths>>

\* process_task, newest task first: a task that has ended is skipped.
Pick(w) ==
  /\ pc[w] = "scanning"
  /\ LET t == Max(queue[w])
         children == IF t = Parent THEN spawned_child_ids ELSE {}
     IN  /\ queue' = [queue EXCEPT ![w] = @ \ {t}]
         /\ IF rows[t].status \in Active
            THEN /\ ctx' = [ctx EXCEPT ![w] = [NoCtx EXCEPT !.task = t, !.told = rows[t].told,
                                                            !.unread = children]]
                 /\ Goto(w, IF children = {} THEN "picked" ELSE "gating")
            ELSE /\ UNCHANGED ctx
                 /\ Goto(w, IF queue[w] = {t} THEN "idle" ELSE "scanning")
  /\ UNCHANGED <<rows, lists, deaths>>

\* child_gate_status reads the children one after the other.
ReadChild(w) ==
  /\ pc[w] = "gating"
  /\ ctx[w].unread # {}
  /\ LET c == Min(ctx[w].unread)
     IN  ctx' = [ctx EXCEPT ![w].unread = @ \ {c}, ![w].found = @ \union {rows[c].status}]
  /\ UNCHANGED <<rows, lists, pc, queue, deaths>>

child_gate_WaitsForBlocked(found) == IF found = {"completed"} THEN "completed" ELSE "awaiting"
child_gate_AnyCompleted(found) ==
  IF "blocked" \in found THEN "failed"
  ELSE IF "completed" \in found THEN "completed" ELSE "awaiting"
child_gate(found) ==
  IF "blocked" \in found THEN "failed"
  ELSE IF found = {"completed"} THEN "completed" ELSE "awaiting"

JudgeChildren_GoesOn(w) ==
  /\ pc[w] = "gating"
  /\ ctx[w].unread = {}
  /\ LET verdict == child_gate(ctx[w].found)
     IN  \/ verdict = "failed" /\ Block(w) /\ Leave(w)
         \/ verdict = "completed" /\ Goto(w, "finalizing") /\ UNCHANGED <<rows, ctx>>
         \/ verdict = "awaiting" /\ Goto(w, "picked") /\ UNCHANGED <<rows, ctx>>
  /\ UNCHANGED <<lists, queue, deaths>>

JudgeChildren(w) ==
  /\ pc[w] = "gating"
  /\ ctx[w].unread = {}
  /\ LET verdict == child_gate(ctx[w].found)
     IN  \/ verdict = "failed" /\ Block(w) /\ Leave(w)
         \/ verdict = "completed" /\ Goto(w, "finalizing") /\ UNCHANGED <<rows, ctx>>
         \/ verdict = "awaiting" /\ Leave(w) /\ UNCHANGED rows
  /\ UNCHANGED <<lists, queue, deaths>>

Admit(w) ==
  /\ pc[w] = "picked"
  /\ Write(w, [Mine(w) EXCEPT !.status = "in_progress"])
  /\ Goto(w, "admitted")
  /\ UNCHANGED <<lists, queue, ctx, deaths>>

next_stage(row) ==
  LET left == {n \in DOMAIN Stages : Stages[n] \notin row.done}
  IN  IF left = {} THEN "none" ELSE Stages[Min(left)]

sibling_state_NeverWaits(w) == "ready"

\* recommended_improvement_state. An analysis child that completed without advice
\* still left the baton of its kick-off.
sibling_state(w) ==
  LET analyses == {c \in spawned_child_ids : rows[c].type = "analysis"}
      ofStatus(S) == {c \in analyses : rows[c].status \in S}
  IN  IF Mine(w).type # "implementation" \/ ctx[w].task = Parent \/ ~ctx[w].told
           \/ \E c \in analyses : rows[c].advised
      THEN "ready"
      ELSE IF ofStatus({"blocked"}) # {} THEN "blocked"
      ELSE IF ofStatus(Active) # {} THEN "waiting" ELSE "ready"

NextCycle(row) == [row EXCEPT !.cycle = @ + 1, !.done = {}, !.flying = "none"]

Gate(w) ==
  /\ pc[w] = "admitted"
  /\ LET row     == Mine(w)
         stage   == next_stage(row)
         sibling == IF stage = "execute" THEN sibling_state(w) ELSE "ready"
     IN  \/ /\ stage = "none"
            /\ Goto(w, "finalizing") /\ UNCHANGED <<rows, ctx>>
         \/ /\ sibling = "blocked"
            /\ Block(w) /\ Leave(w)
         \/ /\ sibling = "waiting"
            /\ Leave(w) /\ UNCHANGED rows
         \/ /\ sibling = "ready" /\ stage = "execute" /\ ~row.planned
            /\ IF row.cycle >= MaxCycles THEN Block(w) ELSE Write(w, NextCycle(row))
            /\ Leave(w)
         \/ /\ sibling = "ready" /\ stage # "none" /\ (stage = "execute" => row.planned)
            /\ IF row.flying = stage
               THEN Leave(w)
               ELSE Goto(w, "cleared") /\ ctx' = [ctx EXCEPT ![w].stage = stage]
            /\ UNCHANGED rows
  /\ UNCHANGED <<lists, queue, deaths>>

StartStage(w) ==
  /\ pc[w] = "cleared"
  /\ Write(w, [Mine(w) EXCEPT !.flying = ctx[w].stage])
  /\ Goto(w, "running")
  /\ UNCHANGED <<lists, queue, ctx, deaths>>

Landed(row, stage) == [row EXCEPT !.flying = IF @ = stage THEN "none" ELSE @]

\* The stage failed for good, or in a way that opens the next cycle.
FailStage(w) ==
  /\ pc[w] = "running"
  /\ \/ Write(w, [Landed(Mine(w), ctx[w].stage) EXCEPT !.status = "blocked"])
     \/ Mine(w).cycle < MaxCycles /\ Write(w, NextCycle(Mine(w)))
  /\ Leave(w)
  /\ UNCHANGED <<lists, queue, deaths>>

PassStage(w) ==
  /\ pc[w] = "running"
  /\ Write(w, [Landed(Mine(w), ctx[w].stage) EXCEPT !.done = @ \union {ctx[w].stage}])
  /\ Goto(w, "passed")
  /\ UNCHANGED <<lists, queue, ctx, deaths>>

\* handle_stage_success, or the finalization of a passed review.
FollowUp(w) ==
  /\ pc[w] = "passed"
  /\ \/ /\ ctx[w].stage = "plan"
        /\ Write(w, [Mine(w) EXCEPT !.planned = TRUE])
        /\ IF ctx[w].task = Parent
           THEN Goto(w, "spawning") /\ UNCHANGED ctx ELSE Leave(w)
     \/ /\ ctx[w].stage = "execute"
        /\ IF Mine(w).type = "analysis" /\ ctx[w].told
           THEN Write(w, [Mine(w) EXCEPT !.advised = TRUE]) ELSE UNCHANGED rows
        /\ Leave(w)
     \/ /\ ctx[w].stage = "review"
        /\ Goto(w, "finalizing") /\ UNCHANGED <<rows, ctx>>
  /\ UNCHANGED <<lists, queue, deaths>>

-----------------------------------------------------------------------------
(* spawn_once *)

SpawnOnce(w) ==
  /\ pc[w] = "spawning"
  /\ IF lists # <<>> \/ ChildTypes = <<>>
     THEN Leave(w) ELSE Goto(w, "creating") /\ UNCHANGED ctx
  /\ UNCHANGED <<rows, lists, queue, deaths>>

CreateChild(w) ==
  /\ pc[w] = "creating"
  /\ Cardinality(ctx[w].spawned) < Len(ChildTypes)
  /\ rows' = Append(rows, Row(ChildTypes[Cardinality(ctx[w].spawned) + 1]))
  /\ ctx' = [ctx EXCEPT ![w].spawned = @ \union {Len(rows) + 1}]
  /\ Goto(w, "telling")
  /\ UNCHANGED <<lists, queue, deaths>>

\* The child's task.preferences, which name its parent.
TellChild(w) ==
  /\ pc[w] = "telling"
  /\ rows' = [rows EXCEPT ![Max(ctx[w].spawned)].told = TRUE]
  /\ Goto(w, "creating")
  /\ UNCHANGED <<lists, queue, ctx, deaths>>

RecordSpawned_LastOnly(w) ==
  /\ pc[w] = "creating"
  /\ Cardinality(ctx[w].spawned) = Len(ChildTypes)
  /\ lists' = Append(lists, {Max(ctx[w].spawned)})
  /\ Leave(w)
  /\ UNCHANGED <<rows, queue, deaths>>

RecordSpawned(w) ==
  /\ pc[w] = "creating"
  /\ Cardinality(ctx[w].spawned) = Len(ChildTypes)
  /\ lists' = Append(lists, ctx[w].spawned)
  /\ Leave(w)
  /\ UNCHANGED <<rows, queue, deaths>>

Finalize(w) ==
  /\ pc[w] = "finalizing"
  /\ Write(w, [Mine(w) EXCEPT !.status = "completed"])
  /\ Leave(w)
  /\ UNCHANGED <<lists, queue, deaths>>

\* The pass ends without another write, and the scan with it.
Die(w) ==
  /\ pc[w] # "idle"
  /\ deaths < MaxDeaths /\ deaths' = deaths + 1
  /\ Goto(w, "idle")
  /\ queue' = [queue EXCEPT ![w] = {}]
  /\ ctx' = [ctx EXCEPT ![w] = NoCtx]
  /\ UNCHANGED <<rows, lists>>

Step(w) ==
  \/ Scan(w) \/ Pick(w) \/ ReadChild(w) \/ JudgeChildren(w) \/ Admit(w) \/ Gate(w)
  \/ StartStage(w) \/ FailStage(w) \/ PassStage(w) \/ FollowUp(w)
  \/ SpawnOnce(w) \/ CreateChild(w) \/ TellChild(w) \/ RecordSpawned(w) \/ Finalize(w)

Next == \E w \in Workers : Step(w) \/ Die(w)

Spec == Init /\ [][Next]_vars

\* The background loop scans for ever and its passes end.
FairSpec == Spec /\ \A w \in Workers : WF_vars(Step(w))

-----------------------------------------------------------------------------
(* Properties *)

\* A parent ends completed only with every child it recorded completed, though it
\* reads them one after the other (child_gate_status).
ParentWaitsForChildren ==
  rows[Parent].status = "completed" =>
    \A c \in spawned_child_ids : rows[c].status = "completed"

\* The same of every child it ever created.
ParentWaitsForEveryChild ==
  rows[Parent].status = "completed" => \A c \in Children : rows[c].status = "completed"

\* A parent that has delegated its work starts no further stage of its own.
ParentDelegates ==
  [][\A w \in Workers : StartStage(w) /\ ctx[w].task = Parent => lists = <<>>]_vars

\* A recorded implementation child starts to execute only once its analysis sibling
\* has advised it or has completed (_implementation_recommendation_gate).
ImplementationFollowsAnalysis ==
  [][\A w \in Workers :
       StartStage(w) /\ ctx[w].stage = "execute" /\ Mine(w).type = "implementation"
         /\ ctx[w].task \in spawned_child_ids =>
       \A c \in spawned_child_ids :
         rows[c].type = "analysis" => rows[c].advised \/ rows[c].status = "completed"]_vars

\* Every child is recorded, or is being spawned, unless a pass died.
NoOrphans ==
  deaths > 0 \/ Children \subseteq spawned_child_ids \union UNION {ctx[w].spawned : w \in Workers}

\* Parent and children all come to an end, waiting for one another as they do, unless
\* a pass died.
FamilySettles ==
  <>[](deaths > 0 \/ \A t \in DOMAIN rows : rows[t].status \notin Active)
=============================================================================
