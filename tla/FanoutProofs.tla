---------------------------- MODULE FanoutProofs ----------------------------
(***************************************************************************)
(* Theorems about Fanout, for any templates, cycle and scan limits and for *)
(* any number of passes cut short, with one thread that scans at a time:   *)
(* the background loop, while nobody calls /autonomy/scan-once.            *)
(***************************************************************************)
EXTENDS Fanout, Extrema, FiniteSetTheorems, TLAPS

Alone == \A v, w \in Workers : v = w

Types == {"analysis", "implementation", "review", "integration"}
Statuses == {"new", "in_progress", "blocked", "completed"}
StageNames == {"none", "plan", "execute", "review"}
RowType == [type : Types, status : Statuses, cycle : Nat, done : SUBSET StageNames,
            flying : StageNames, planned : BOOLEAN, advised : BOOLEAN, told : BOOLEAN]
CtxType == [task : Nat, told : BOOLEAN, unread : SUBSET Nat, found : SUBSET Statuses,
            stage : StageNames, spawned : SUBSET Nat]

Resting == {"idle", "scanning"}
Spawning == {"creating", "telling"}
\* Where a worker is between the gate on the children and the end of its pass.
Working == {"picked", "admitted", "cleared", "running", "passed", "spawning"} \union Spawning
Labels == Resting \union Working \union {"gating", "finalizing"}

TypeInv ==
  /\ rows \in Seq(RowType) /\ Len(rows) >= 1
  /\ lists \in Seq(SUBSET Nat)
  /\ pc \in [Workers -> Labels]
  /\ queue \in [Workers -> SUBSET Nat]
  /\ \A w \in Workers : queue[w] \subseteq DOMAIN rows
  /\ ctx \in [Workers -> CtxType]
  /\ deaths \in Nat

\* No two children of S have the same type.
Distinct(S) == \A c, d \in S : rows[c].type = rows[d].type => c = d

\* The recorded children exist, know their parent, and differ in type.
ListsInv ==
  /\ spawned_child_ids \subseteq Children
  /\ lists # <<>> => spawned_child_ids # {}
  /\ \A c \in spawned_child_ids : rows[c].told
  /\ Distinct(spawned_child_ids)

\* What a worker holds of its pass is still so.
HeldInv(w) ==
  /\ pc[w] \in Resting => ctx[w] = NoCtx
  /\ pc[w] = "scanning" => queue[w] # {}
  /\ pc[w] \notin Resting =>
       /\ ctx[w].task \in DOMAIN rows
       /\ Mine(w).status \in Active
       /\ ctx[w].told = Mine(w).told

\* The parent works while it has no children, waits for them, or ends with them.
ParentInv(w) ==
  /\ pc[w] \in Working /\ ctx[w].task = Parent => lists = <<>>
  /\ pc[w] \in Spawning \union {"spawning", "gating"} => ctx[w].task = Parent
  /\ pc[w] = "gating" =>
       /\ lists # <<>>
       /\ ctx[w].unread \subseteq spawned_child_ids
       /\ ctx[w].found = {rows[c].status : c \in spawned_child_ids \ ctx[w].unread}
  /\ pc[w] = "finalizing" /\ ctx[w].task = Parent =>
       \A c \in spawned_child_ids : rows[c].status = "completed"

\* The children created so far have the types of the first templates.
SpawnInv(w) ==
  /\ pc[w] \notin Spawning => ctx[w].spawned = {}
  /\ ctx[w].spawned \subseteq Children
  /\ pc[w] = "telling" => ctx[w].spawned # {}
  /\ Distinct(ctx[w].spawned)
  /\ \A c \in ctx[w].spawned :
       /\ \E i \in DOMAIN ChildTypes : i <= Cardinality(ctx[w].spawned) /\ rows[c].type = ChildTypes[i]
       /\ rows[c].told \/ (pc[w] = "telling" /\ c = Max(ctx[w].spawned))
  /\ pc[w] \in Spawning => ChildTypes # <<>> /\ Cardinality(ctx[w].spawned) <= Len(ChildTypes)

\* Its analysis sibling has advised a recorded implementation child, or has completed.
Advised == \A c \in spawned_child_ids :
             rows[c].type = "analysis" => rows[c].advised \/ rows[c].status = "completed"

SiblingInv(w) ==
  pc[w] = "cleared" /\ ctx[w].stage = "execute" /\ Mine(w).type = "implementation"
    /\ ctx[w].task \in spawned_child_ids => Advised

FamilyInv ==
  /\ TypeInv
  /\ ListsInv
  /\ ParentWaitsForChildren
  /\ NoOrphans
  /\ \A w \in Workers : HeldInv(w) /\ ParentInv(w) /\ SpawnInv(w) /\ SiblingInv(w)

-----------------------------------------------------------------------------
(* What a step leaves as it was *)

LEMMA OneWorker ==
  ASSUME Alone, NEW w \in Workers
  PROVE  /\ NoOrphans <=> deaths > 0 \/ Children \subseteq spawned_child_ids \union ctx[w].spawned
         /\ NoOrphans' <=>
              deaths' > 0 \/ Children' \subseteq (spawned_child_ids \union ctx[w].spawned)'
<1>1. \A v \in Workers : v = w
  BY DEF Alone
<1>2. UNION {ctx[v].spawned : v \in Workers} = ctx[w].spawned
  BY <1>1
<1>3. UNION {ctx'[v].spawned : v \in Workers} = ctx'[w].spawned
  BY <1>1
<1>4. QED
  BY <1>2, <1>3 DEF NoOrphans

LEMMA NoCtxTyped == NoCtx \in CtxType /\ NoCtx.spawned = {}
BY DEF NoCtx, CtxType, Parent, StageNames

LEMMA NewRow ==
  ASSUME NEW type \in Types
  PROVE  /\ Row(type) \in RowType /\ Row(type).type = type /\ Row(type).status = "new"
         /\ [Row(type) EXCEPT !.told = TRUE] \in RowType
         /\ [Row(type) EXCEPT !.told = TRUE].status = "new"
<1>1. Row(type) \in RowType /\ Row(type).type = type /\ Row(type).status = "new"
  BY DEF Row, RowType, Statuses, StageNames
<1>2. QED
  BY <1>1 DEF RowType

LEMMA StartsRight ==
  ASSUME FanoutAssumption, Init
  PROVE  FamilyInv
<1> DEFINE parent == [Row("implementation") EXCEPT !.told = TRUE]
<1>0. parent \in RowType /\ parent.status = "new"
  BY NewRow DEF Types
<1>r. rows = <<parent>> /\ lists = <<>>
  BY DEF Init
<1> HIDE DEF parent
<1>1. /\ rows \in Seq(RowType) /\ rows[1].status = "new" /\ lists = <<>>
      /\ DOMAIN rows = {1} /\ Len(rows) = 1
  BY <1>0, <1>r
<1>2. \A w \in Workers : /\ pc[w] = "idle" /\ queue[w] = {} /\ ctx[w] = NoCtx /\ ctx[w].spawned = {}
                         /\ NoCtx \in CtxType
  BY NoCtxTyped DEF Init
<1>3. TypeInv
  BY <1>1, <1>2 DEF Init, TypeInv, Labels, Resting
<1>4. ListsInv /\ ParentWaitsForChildren /\ NoOrphans
  BY <1>1 DEF ListsInv, Distinct, spawned_child_ids, ParentWaitsForChildren, NoOrphans, Children, Parent
<1>5. \A w \in Workers : HeldInv(w) /\ ParentInv(w) /\ SpawnInv(w) /\ SiblingInv(w)
  BY <1>2 DEF HeldInv, ParentInv, SpawnInv, SiblingInv, Distinct, Resting, Working, Spawning
<1>6. QED
  BY <1>3, <1>4, <1>5 DEF FamilyInv

\* One worker's invariant after its step is everybody's.
LEMMA Together ==
  ASSUME Alone, NEW w \in Workers,
         TypeInv', ListsInv', ParentWaitsForChildren', NoOrphans',
         HeldInv(w)', ParentInv(w)', SpawnInv(w)', SiblingInv(w)'
  PROVE  FamilyInv'
<1>1. \A v \in Workers : v = w
  BY DEF Alone
<1>2. ASSUME NEW v \in Workers
      PROVE  HeldInv(v)' /\ ParentInv(v)' /\ SpawnInv(v)' /\ SiblingInv(v)'
  <2>1. v = w
    BY <1>1
  <2>2. QED
    BY <2>1
<1>3. QED
  BY <1>2 DEF FamilyInv

\* A worker at rest holds nothing.
LEMMA AtRest ==
  ASSUME NEW w \in Workers, pc'[w] \in Resting, ctx'[w] = NoCtx,
         pc'[w] = "scanning" => queue'[w] # {}
  PROVE  HeldInv(w)' /\ ParentInv(w)' /\ SpawnInv(w)' /\ SiblingInv(w)'
<1>1. ctx'[w].spawned = {}
  BY DEF NoCtx
<1>2. pc'[w] \notin Working \union {"gating", "finalizing"}
  BY DEF Resting, Working, Spawning
<1>3. pc'[w] \notin Spawning /\ pc'[w] # "telling" /\ pc'[w] # "cleared"
  BY <1>2 DEF Working, Spawning
<1>4. HeldInv(w)'
  BY DEF HeldInv
<1>5. ParentInv(w)'
  BY <1>2 DEF ParentInv, Working
<1>6. SpawnInv(w)'
  BY <1>1, <1>3 DEF SpawnInv, Distinct
<1>7. SiblingInv(w)'
  BY <1>3 DEF SiblingInv
<1>8. QED
  BY <1>4, <1>5, <1>6, <1>7

LEMMA Left ==
  ASSUME TypeInv, NEW w \in Workers, Leave(w), queue' = queue
  PROVE  /\ pc' \in [Workers -> Labels] /\ ctx' \in [Workers -> CtxType]
         /\ pc'[w] \in Resting /\ ctx'[w] = NoCtx
         /\ HeldInv(w)' /\ ParentInv(w)' /\ SpawnInv(w)' /\ SiblingInv(w)'
<1>1. NoCtx \in CtxType
  BY NoCtxTyped
<1>2. /\ pc' \in [Workers -> Labels] /\ ctx' \in [Workers -> CtxType]
      /\ pc'[w] \in Resting /\ ctx'[w] = NoCtx
      /\ pc'[w] = "scanning" => queue'[w] # {}
  BY <1>1 DEF TypeInv, Leave, Goto, Labels, Resting
<1>3. QED
  BY <1>2, AtRest

\* A step that writes no task and records no children.
LEMMA NothingWritten ==
  ASSUME Alone, FamilyInv, NEW w \in Workers, pc[w] \notin Spawning,
         UNCHANGED <<rows, lists>>, deaths' = deaths
  PROVE  ListsInv' /\ ParentWaitsForChildren' /\ NoOrphans'
<1>1. ListsInv' /\ ParentWaitsForChildren'
  BY DEF FamilyInv, ListsInv, ParentWaitsForChildren, spawned_child_ids, Children, Distinct
<1>2. ctx[w].spawned = {}
  BY DEF FamilyInv, SpawnInv
<1>3. deaths > 0 \/ Children \subseteq spawned_child_ids
  BY <1>2, OneWorker DEF FamilyInv
<1>4. NoOrphans'
  BY <1>3 DEF NoOrphans, Children, spawned_child_ids
<1>5. QED
  BY <1>1, <1>4

LEMMA RowReplaced ==
  ASSUME TypeInv, NEW w \in Workers, ctx[w].task \in DOMAIN rows,
         NEW row \in RowType, Write(w, row)
  PROVE  /\ rows' \in Seq(RowType) /\ Len(rows') = Len(rows) /\ DOMAIN rows' = DOMAIN rows
         /\ rows'[ctx[w].task] = row
         /\ \A t \in DOMAIN rows : t # ctx[w].task => rows'[t] = rows[t]
BY DEF TypeInv, Write

\* A step that writes the task in hand, and neither its type nor its parent.
LEMMA TaskWritten ==
  ASSUME Alone, FamilyInv, NEW w \in Workers, pc[w] \notin Resting \union Spawning,
         NEW row \in RowType, Write(w, row),
         row.type = Mine(w).type, row.told = Mine(w).told,
         row.status = "completed" /\ ctx[w].task = Parent =>
           \A c \in spawned_child_ids : rows[c].status = "completed",
         UNCHANGED <<lists, deaths>>
  PROVE  /\ rows' \in Seq(RowType) /\ Len(rows') = Len(rows) /\ DOMAIN rows' = DOMAIN rows
         /\ rows'[ctx[w].task] = row
         /\ \A t \in DOMAIN rows : t # ctx[w].task => rows'[t] = rows[t]
         /\ spawned_child_ids' = spawned_child_ids
         /\ ListsInv' /\ ParentWaitsForChildren' /\ NoOrphans'
<1> DEFINE t == ctx[w].task
<1>1. t \in DOMAIN rows /\ rows[t].status \in Active
  BY DEF FamilyInv, HeldInv, Mine
<1>2. /\ rows' \in Seq(RowType) /\ Len(rows') = Len(rows) /\ DOMAIN rows' = DOMAIN rows
      /\ rows'[t] = row
      /\ \A u \in DOMAIN rows : u # t => rows'[u] = rows[u]
  BY <1>1, RowReplaced DEF FamilyInv
<1>3. spawned_child_ids' = spawned_child_ids /\ Children' = Children
  BY <1>2 DEF spawned_child_ids, Children
<1>4. \A u \in DOMAIN rows : rows'[u].type = rows[u].type /\ rows'[u].told = rows[u].told
  BY <1>2 DEF Mine
<1>5. spawned_child_ids \subseteq DOMAIN rows \ {Parent}
  BY DEF FamilyInv, ListsInv, Children
<1>6. ListsInv'
  BY <1>3, <1>4, <1>5 DEF FamilyInv, ListsInv, Distinct
<1>7. ParentWaitsForChildren'
  <2>1. SUFFICES ASSUME rows'[Parent].status = "completed", NEW c \in spawned_child_ids
                 PROVE  rows'[c].status = "completed"
    BY <1>3 DEF ParentWaitsForChildren
  <2>2. Parent \in DOMAIN rows
    BY DEF FamilyInv, TypeInv, Parent
  <2>3. rows[c].status = "completed"
    <3>1. CASE t = Parent
      BY <1>2, <2>1, <3>1
    <3>2. CASE t # Parent
      BY <1>2, <2>1, <2>2, <3>2 DEF FamilyInv, ParentWaitsForChildren
    <3>3. QED
      BY <3>1, <3>2
  <2>4. t # c
    BY <1>1, <2>3 DEF Active
  <2>5. QED
    BY <1>2, <1>5, <2>3, <2>4
<1>8. NoOrphans'
  <2>1. ctx[w].spawned = {}
    BY DEF FamilyInv, SpawnInv
  <2>2. deaths > 0 \/ Children \subseteq spawned_child_ids
    BY <2>1, OneWorker DEF FamilyInv
  <2>3. QED
    BY <1>3, <2>2 DEF NoOrphans
<1>9. QED
  BY <1>2, <1>3, <1>6, <1>7, <1>8

-----------------------------------------------------------------------------
(* The steps of a pass *)

LEMMA ScanStep ==
  ASSUME Alone, FamilyInv, NEW w \in Workers, Scan(w)
  PROVE  FamilyInv'
<1>1. pc[w] = "idle" /\ ctx[w] = NoCtx /\ pc[w] \notin Spawning
  BY DEF Scan, FamilyInv, HeldInv, Resting, Spawning
<1>2. ListsInv' /\ ParentWaitsForChildren' /\ NoOrphans'
  BY <1>1, NothingWritten DEF Scan
<1>3. Listed \in SUBSET Nat /\ Listed \subseteq DOMAIN rows
  BY DEF Listed, FamilyInv, TypeInv
<1>4. pc'[w] \in Resting /\ ctx'[w] = NoCtx /\ queue'[w] # {}
  BY <1>1 DEF Scan, Goto, FamilyInv, TypeInv, Resting
<1>5. TypeInv'
  BY <1>3 DEF Scan, Goto, FamilyInv, TypeInv, Labels, Resting
<1>6. QED
  BY <1>2, <1>4, <1>5, AtRest, Together

LEMMA PickStep ==
  ASSUME Alone, FamilyInv, NEW w \in Workers, Pick(w)
  PROVE  FamilyInv'
<1> DEFINE t == Max(queue[w])
           children == IF t = Parent THEN spawned_child_ids ELSE {}
           held == [NoCtx EXCEPT !.task = t, !.told = rows[t].told, !.unread = children]
<1>1. /\ pc[w] = "scanning" /\ ctx[w] = NoCtx /\ pc[w] \notin Spawning
      /\ TypeInv /\ ListsInv /\ queue[w] # {}
  BY DEF Pick, FamilyInv, HeldInv, Resting, Spawning
<1>2. ListsInv' /\ ParentWaitsForChildren' /\ NoOrphans'
  BY <1>1, NothingWritten DEF Pick
<1>3. t \in DOMAIN rows /\ t \in Nat
  <2>1. Len(rows) \in Nat /\ DOMAIN rows = 1..Len(rows)
    BY <1>1 DEF TypeInv
  <2>2. queue[w] \in SUBSET (1..Len(rows))
    BY <1>1, <2>1 DEF TypeInv
  <2>3. t \in queue[w]
    BY <1>1, <2>1, <2>2, MaxIsGreatest
  <2>4. QED
    BY <2>1, <2>2, <2>3
<1>4. rows[t] \in RowType
  BY <1>1, <1>3 DEF TypeInv
<1>5. children \in SUBSET Nat
  BY <1>1 DEF ListsInv, Children, TypeInv
<1>6. /\ held \in CtxType /\ held.task = t /\ held.told = rows[t].told /\ held.unread = children
      /\ held.found = {} /\ held.spawned = {} /\ held.stage = "none"
  BY <1>3, <1>4, <1>5 DEF NoCtx, CtxType, RowType, StageNames
<1>7. queue' = [queue EXCEPT ![w] = @ \ {t}] /\ UNCHANGED <<rows, lists, deaths>>
  BY DEF Pick
<1>8. /\ queue' \in [Workers -> SUBSET Nat]
      /\ \A v \in Workers : queue'[v] \subseteq DOMAIN rows'
  BY <1>1, <1>7 DEF TypeInv
<1> HIDE DEF held
<1>9. CASE rows[t].status \in Active
  <2>1. ctx' = [ctx EXCEPT ![w] = held] /\ Goto(w, IF children = {} THEN "picked" ELSE "gating")
    BY <1>9 DEF Pick, held
  <2> HIDE DEF t, children
  <2>2. TypeInv'
    BY <1>1, <1>6, <1>7, <1>8, <2>1 DEF TypeInv, Goto, Labels, Working
  <2>3. ctx'[w] = held /\ pc'[w] = IF children = {} THEN "picked" ELSE "gating"
    BY <1>1, <2>1 DEF TypeInv, Goto
  <2>4. HeldInv(w)'
    BY <1>3, <1>6, <1>7, <1>9, <2>3 DEF HeldInv, Mine, Resting
  <2>5. ParentInv(w)'
    <3>1. CASE children = {}
      <4>1. t = Parent => lists = <<>>
        BY <1>1, <3>1 DEF ListsInv, children
      <4>2. QED
        BY <1>6, <1>7, <2>3, <3>1, <4>1 DEF ParentInv, Working, Spawning
    <3>2. CASE children # {}
      <4>1. t = Parent /\ children = spawned_child_ids /\ lists # <<>>
        BY <3>2 DEF spawned_child_ids, children
      <4>2. spawned_child_ids' = children /\ held.found = {} /\ held.unread = children
        BY <1>6, <1>7, <4>1 DEF spawned_child_ids
      <4>3. pc'[w] = "gating" /\ "gating" \notin Working
        BY <2>3, <3>2 DEF Working, Spawning
      <4>4. QED
        BY <1>6, <1>7, <2>3, <4>1, <4>2, <4>3 DEF ParentInv
    <3>3. QED
      BY <3>1, <3>2
  <2>6. pc'[w] \notin Spawning /\ pc'[w] # "telling" /\ pc'[w] # "cleared"
    BY <2>3 DEF Spawning
  <2>7. SpawnInv(w)' /\ SiblingInv(w)'
    BY <1>6, <2>3, <2>6 DEF SpawnInv, SiblingInv, Distinct
  <2>8. QED
    BY <1>2, <2>2, <2>4, <2>5, <2>7, Together
<1>10. CASE rows[t].status \notin Active
  <2>1. UNCHANGED ctx /\ Goto(w, IF queue[w] = {t} THEN "idle" ELSE "scanning")
    BY <1>10 DEF Pick
  <2>2. TypeInv'
    BY <1>1, <1>7, <1>8, <2>1 DEF TypeInv, Goto, Labels, Resting
  <2>3. /\ ctx'[w] = NoCtx /\ pc'[w] \in Resting
        /\ pc'[w] = "scanning" => queue'[w] # {}
    BY <1>1, <1>7, <2>1 DEF TypeInv, Goto, Resting
  <2>4. QED
    BY <1>2, <2>2, <2>3, AtRest, Together
<1>11. QED
  BY <1>9, <1>10

LEMMA ReadChildStep ==
  ASSUME Alone, FamilyInv, NEW w \in Workers, ReadChild(w)
  PROVE  FamilyInv'
<1> DEFINE c == Min(ctx[w].unread)
<1>1. /\ pc[w] = "gating" /\ TypeInv /\ ListsInv /\ HeldInv(w) /\ ParentInv(w) /\ SpawnInv(w)
      /\ pc[w] \notin Resting \union Working
  BY DEF ReadChild, FamilyInv, Resting, Working, Spawning
<1>2. pc[w] \notin Spawning
  BY <1>1 DEF Working
<1>3. ListsInv' /\ ParentWaitsForChildren' /\ NoOrphans'
  BY <1>2, NothingWritten DEF ReadChild
<1>4. ctx[w] \in CtxType
  BY <1>1 DEF TypeInv
<1>5. c \in ctx[w].unread
  BY <1>4, MinIsLeast DEF ReadChild, CtxType
<1>6. c \in spawned_child_ids /\ c \in DOMAIN rows /\ rows[c] \in RowType
  BY <1>1, <1>5 DEF ParentInv, ListsInv, Children, TypeInv
<1>7. /\ UNCHANGED <<rows, lists, pc, queue, deaths>>
      /\ ctx' = [ctx EXCEPT ![w].unread = @ \ {c}, ![w].found = @ \union {rows[c].status}]
  BY DEF ReadChild
<1> HIDE DEF c
<1>8. /\ ctx'[w] \in CtxType /\ ctx' \in [Workers -> CtxType]
      /\ ctx'[w].unread = ctx[w].unread \ {c} /\ ctx'[w].found = ctx[w].found \union {rows[c].status}
      /\ ctx'[w].task = ctx[w].task /\ ctx'[w].told = ctx[w].told /\ ctx'[w].spawned = ctx[w].spawned
  BY <1>1, <1>4, <1>6, <1>7 DEF TypeInv, CtxType, RowType
<1>9. TypeInv'
  BY <1>1, <1>7, <1>8 DEF TypeInv
<1>10. HeldInv(w)'
  BY <1>1, <1>7, <1>8 DEF HeldInv, Mine
<1>11. ParentInv(w)'
  <2>1. spawned_child_ids' = spawned_child_ids
    BY <1>7 DEF spawned_child_ids
  <2>2. ctx'[w].unread \subseteq spawned_child_ids
    BY <1>1, <1>8 DEF ParentInv
  <2>3. ctx'[w].found = {rows[d].status : d \in spawned_child_ids \ ctx'[w].unread}
    BY <1>1, <1>5, <1>6, <1>8 DEF ParentInv
  <2>4. QED
    BY <1>1, <1>7, <1>8, <2>1, <2>2, <2>3 DEF ParentInv
<1>12. SpawnInv(w)' /\ SiblingInv(w)'
  BY <1>1, <1>2, <1>7, <1>8 DEF SpawnInv, SiblingInv, Distinct
<1>13. QED
  BY <1>3, <1>9, <1>10, <1>11, <1>12, Together

\* A worker that stays at work on the same task.
LEMMA StaysHeld ==
  ASSUME NEW w \in Workers, HeldInv(w), pc[w] \notin Resting,
         ctx'[w].task = ctx[w].task, ctx'[w].told = ctx[w].told,
         DOMAIN rows \subseteq DOMAIN rows',
         rows'[ctx[w].task].status \in Active, rows'[ctx[w].task].told = Mine(w).told,
         pc'[w] # "scanning", pc'[w] \notin Resting
  PROVE  HeldInv(w)'
BY DEF HeldInv, Mine

\* A stage writes the task in hand and the pass goes on.
LEMMA WorkGoesOn ==
  ASSUME Alone, FamilyInv, NEW w \in Workers, pc[w] \in Working \ Spawning,
         NEW row \in RowType, Write(w, row), row.status \in Active,
         row.type = Mine(w).type, row.told = Mine(w).told,
         UNCHANGED <<lists, queue, ctx, deaths>>,
         NEW label \in (Working \ Spawning) \ {"cleared"}, Goto(w, label),
         label = "spawning" => ctx[w].task = Parent
  PROVE  FamilyInv'
<1>1. /\ TypeInv /\ HeldInv(w) /\ ParentInv(w) /\ SpawnInv(w)
      /\ pc[w] \notin Resting \union Spawning /\ row.status # "completed"
  BY DEF FamilyInv, Resting, Spawning, Working, Active
<1>2. /\ rows' \in Seq(RowType) /\ Len(rows') = Len(rows) /\ DOMAIN rows' = DOMAIN rows
      /\ rows'[ctx[w].task] = row /\ spawned_child_ids' = spawned_child_ids
      /\ ListsInv' /\ ParentWaitsForChildren' /\ NoOrphans'
  BY <1>1, TaskWritten
<1>3. TypeInv' /\ pc'[w] = label
  BY <1>1, <1>2 DEF TypeInv, Goto, Labels
<1>4. /\ pc'[w] \notin Resting \union {"gating", "scanning", "finalizing", "cleared", "telling"}
      /\ pc'[w] \notin Spawning
  BY <1>3 DEF Resting, Working, Spawning
<1>5. HeldInv(w)'
  BY <1>1, <1>2, <1>4, StaysHeld
<1>6. ParentInv(w)'
  BY <1>1, <1>3, <1>4 DEF ParentInv
<1>7. SpawnInv(w)' /\ SiblingInv(w)'
  BY <1>1, <1>3, <1>4 DEF SpawnInv, SiblingInv, Distinct
<1>8. QED
  BY <1>2, <1>3, <1>5, <1>6, <1>7, Together

\* A pass writes the task in hand and ends.
LEMMA WorkEnds ==
  ASSUME Alone, FamilyInv, NEW w \in Workers, pc[w] \notin Resting \union Spawning,
         NEW row \in RowType, Write(w, row),
         row.status = "completed" /\ ctx[w].task = Parent =>
           \A c \in spawned_child_ids : rows[c].status = "completed",
         row.type = Mine(w).type, row.told = Mine(w).told,
         UNCHANGED <<lists, queue, deaths>>, Leave(w)
  PROVE  FamilyInv'
<1>1. TypeInv
  BY DEF FamilyInv
<1>2. /\ rows' \in Seq(RowType) /\ Len(rows') = Len(rows) /\ DOMAIN rows' = DOMAIN rows
      /\ ListsInv' /\ ParentWaitsForChildren' /\ NoOrphans'
  BY TaskWritten
<1>3. TypeInv'
  BY <1>1, <1>2, Left DEF TypeInv
<1>4. QED
  BY <1>1, <1>2, <1>3, Left, Together

\* A pass ends and has written nothing.
LEMMA PassEnds ==
  ASSUME Alone, FamilyInv, NEW w \in Workers, pc[w] \notin Spawning,
         UNCHANGED <<rows, lists, queue, deaths>>, Leave(w)
  PROVE  FamilyInv'
<1>1. TypeInv
  BY DEF FamilyInv
<1>2. ListsInv' /\ ParentWaitsForChildren' /\ NoOrphans'
  BY NothingWritten
<1>3. TypeInv'
  BY <1>1, Left DEF TypeInv
<1>4. QED
  BY <1>1, <1>2, <1>3, Left, Together

LEMMA JudgeChildrenStep ==
  ASSUME Alone, FamilyInv, NEW w \in Workers, JudgeChildren(w)
  PROVE  FamilyInv'
<1> DEFINE verdict == child_gate(ctx[w].found)
<1>1. /\ pc[w] = "gating" /\ TypeInv /\ ListsInv /\ HeldInv(w) /\ ParentInv(w) /\ SpawnInv(w)
      /\ pc[w] \notin Resting \union Spawning
  BY DEF JudgeChildren, FamilyInv, Resting, Spawning
<1>2. UNCHANGED <<lists, queue, deaths>> /\ ctx[w].unread = {}
  BY DEF JudgeChildren
<1>3. Mine(w) \in RowType /\ ctx[w].task \in DOMAIN rows /\ ctx[w].task = Parent
  BY <1>1 DEF HeldInv, ParentInv, TypeInv, Mine
<1>4. ctx[w].found = {rows[c].status : c \in spawned_child_ids}
  BY <1>1, <1>2 DEF ParentInv
<1>5. CASE verdict = "failed" /\ Block(w) /\ Leave(w)
  <2> DEFINE row == [Mine(w) EXCEPT !.status = "blocked"]
  <2>1. /\ row \in RowType /\ row.type = Mine(w).type /\ row.told = Mine(w).told
        /\ row.status = "blocked" /\ Write(w, row)
    BY <1>3, <1>5 DEF RowType, Statuses, Block
  <2> HIDE DEF row
  <2>2. QED
    BY <1>1, <1>2, <1>5, <2>1, WorkEnds
<1>6. CASE verdict = "completed" /\ Goto(w, "finalizing") /\ UNCHANGED <<rows, ctx>>
  <2>1. ListsInv' /\ ParentWaitsForChildren' /\ NoOrphans'
    BY <1>1, <1>2, <1>6, NothingWritten
  <2>2. TypeInv' /\ pc'[w] = "finalizing"
    BY <1>1, <1>2, <1>6 DEF TypeInv, Goto, Labels
  <2>3. pc'[w] \notin Resting \union Working \union {"gating", "scanning"} /\ pc'[w] \notin Spawning
    BY <2>2 DEF Resting, Working, Spawning
  <2>4. HeldInv(w)'
    BY <1>1, <1>6, <2>3 DEF HeldInv, Mine
  <2>5. ctx[w].found = {"completed"}
    BY <1>6 DEF child_gate
  <2>6. \A c \in spawned_child_ids : rows[c].status = "completed"
    BY <1>4, <2>5
  <2>7. ParentInv(w)'
    BY <1>2, <1>6, <2>2, <2>3, <2>6 DEF ParentInv, spawned_child_ids, Spawning
  <2>8. SpawnInv(w)' /\ SiblingInv(w)'
    BY <1>1, <1>6, <2>2, <2>3 DEF SpawnInv, SiblingInv, Distinct, Children
  <2>9. QED
    BY <2>1, <2>2, <2>4, <2>7, <2>8, Together
<1>7. CASE verdict = "awaiting" /\ Leave(w) /\ UNCHANGED rows
  BY <1>1, <1>2, <1>7, PassEnds
<1>8. QED
  BY <1>5, <1>6, <1>7 DEF JudgeChildren

\* A task whose review has passed: the parent only while it has no children.
LEMMA WorkDone ==
  ASSUME Alone, FamilyInv, NEW w \in Workers, pc[w] \in Working \ Spawning,
         Goto(w, "finalizing"), UNCHANGED <<rows, lists, queue, ctx, deaths>>
  PROVE  FamilyInv'
<1>1. /\ TypeInv /\ HeldInv(w) /\ ParentInv(w) /\ SpawnInv(w)
      /\ pc[w] \notin Resting \union Spawning
  BY DEF FamilyInv, Resting, Spawning, Working
<1>2. ListsInv' /\ ParentWaitsForChildren' /\ NoOrphans'
  BY <1>1, NothingWritten
<1>3. TypeInv' /\ pc'[w] = "finalizing"
  BY <1>1 DEF TypeInv, Goto, Labels
<1>4. pc'[w] \notin Resting \union Working \union {"gating", "scanning"} /\ pc'[w] \notin Spawning
  BY <1>3 DEF Resting, Working, Spawning
<1>5. HeldInv(w)'
  BY <1>1, <1>4 DEF HeldInv, Mine
<1>6. ParentInv(w)'
  <2>1. ctx[w].task = Parent => spawned_child_ids = {}
    BY <1>1 DEF ParentInv, spawned_child_ids
  <2>2. QED
    BY <1>3, <1>4, <2>1 DEF ParentInv, spawned_child_ids, Spawning
<1>7. SpawnInv(w)' /\ SiblingInv(w)'
  BY <1>1, <1>3, <1>4 DEF SpawnInv, SiblingInv, Distinct, Children
<1>8. QED
  BY <1>2, <1>3, <1>5, <1>6, <1>7, Together

LEMMA MineTyped ==
  ASSUME FamilyInv, NEW w \in Workers, pc[w] \notin Resting
  PROVE  /\ Mine(w) \in RowType /\ ctx[w].task \in DOMAIN rows /\ ctx[w] \in CtxType
         /\ Mine(w).status \in Active /\ Mine(w).told \in BOOLEAN
<1>1. /\ ctx[w].task \in DOMAIN rows /\ ctx[w] \in CtxType
      /\ Mine(w).status \in Active
  BY DEF FamilyInv, HeldInv, TypeInv
<1>2. Mine(w) \in RowType
  BY <1>1 DEF FamilyInv, TypeInv, Mine
<1>3. QED
  BY <1>1, <1>2 DEF RowType

LEMMA AdmitStep ==
  ASSUME Alone, FamilyInv, NEW w \in Workers, Admit(w)
  PROVE  FamilyInv'
<1> DEFINE row == [Mine(w) EXCEPT !.status = "in_progress"]
<1>1. pc[w] = "picked" /\ pc[w] \in Working \ Spawning /\ pc[w] \notin Resting
  BY DEF Admit, Working, Spawning, Resting
<1>2. Mine(w) \in RowType
  BY <1>1, MineTyped
<1>3. /\ row \in RowType /\ row.status \in Active
      /\ row.type = Mine(w).type /\ row.told = Mine(w).told
  BY <1>2 DEF RowType, Statuses, Active
<1>4. Write(w, row) /\ Goto(w, "admitted") /\ UNCHANGED <<lists, queue, ctx, deaths>>
  BY DEF Admit
<1>5. "admitted" \in (Working \ Spawning) \ {"cleared"} /\ "admitted" # "spawning"
  BY DEF Working, Spawning
<1> HIDE DEF row
<1>6. QED
  BY <1>1, <1>3, <1>4, <1>5, WorkGoesOn

LEMMA StageTyped ==
  ASSUME NEW row
  PROVE  next_stage(row) \in StageNames
<1> DEFINE left == {n \in DOMAIN Stages : Stages[n] \notin row.done}
<1>1. CASE left = {}
  BY <1>1 DEF next_stage, StageNames
<1>2. CASE left # {}
  <2>1. left \in SUBSET Nat
    BY DEF Stages
  <2>2. Min(left) \in left
    BY <1>2, <2>1, MinIsLeast
  <2>3. Min(left) \in 1..3
    BY <2>2 DEF Stages
  <2>4. next_stage(row) = Stages[Min(left)]
    BY <1>2 DEF next_stage
  <2>5. QED
    BY <2>3, <2>4 DEF Stages, StageNames
<1>3. QED
  BY <1>1, <1>2

LEMMA CycleTyped ==
  ASSUME NEW row \in RowType
  PROVE  /\ NextCycle(row) \in RowType /\ NextCycle(row).type = row.type
         /\ NextCycle(row).told = row.told /\ NextCycle(row).status = row.status
<1>1. row.cycle + 1 \in Nat /\ "none" \in StageNames
  BY DEF RowType, StageNames
<1>2. NextCycle(row) \in RowType
  BY <1>1 DEF NextCycle, RowType
<1>3. QED
  BY <1>2 DEF NextCycle, RowType

\* A blocked task has ended for this pass.
LEMMA BlockEnds ==
  ASSUME Alone, FamilyInv, NEW w \in Workers, pc[w] \notin Resting \union Spawning,
         Block(w), UNCHANGED <<lists, queue, deaths>>, Leave(w)
  PROVE  FamilyInv'
<1> DEFINE row == [Mine(w) EXCEPT !.status = "blocked"]
<1>1. Mine(w) \in RowType
  BY MineTyped
<1>2. /\ row \in RowType /\ row.type = Mine(w).type /\ row.told = Mine(w).told
      /\ row.status = "blocked" /\ Write(w, row)
  BY <1>1 DEF RowType, Statuses, Block
<1> HIDE DEF row
<1>3. QED
  BY <1>2, WorkEnds

LEMMA CycleEnds ==
  ASSUME Alone, FamilyInv, NEW w \in Workers, pc[w] \notin Resting \union Spawning,
         Write(w, NextCycle(Mine(w))), UNCHANGED <<lists, queue, deaths>>, Leave(w)
  PROVE  FamilyInv'
<1>1. Mine(w) \in RowType /\ Mine(w).status \in Active
  BY MineTyped
<1>2. /\ NextCycle(Mine(w)) \in RowType /\ NextCycle(Mine(w)).status # "completed"
      /\ NextCycle(Mine(w)).type = Mine(w).type /\ NextCycle(Mine(w)).told = Mine(w).told
  BY <1>1, CycleTyped DEF Active
<1>3. QED
  BY <1>2, WorkEnds

\* The sibling gate lets an implementation child through: with siblings of distinct
\* types, the analysis that advised is the only one.
LEMMA ReadySibling ==
  ASSUME FamilyInv, NEW w \in Workers, pc[w] \notin Resting,
         Mine(w).type = "implementation", ctx[w].task \in spawned_child_ids,
         sibling_state(w) = "ready"
  PROVE  Advised
<1>1. ListsInv /\ TypeInv /\ HeldInv(w)
  BY DEF FamilyInv
<1>2. ctx[w].task # Parent /\ ctx[w].told = TRUE
  <2>1. Mine(w).told /\ ctx[w].told = Mine(w).told /\ Mine(w).told \in BOOLEAN
    BY <1>1, MineTyped DEF ListsInv, HeldInv, Mine, RowType
  <2>2. QED
    BY <1>1, <2>1 DEF ListsInv, Children
<1>3. SUFFICES ASSUME NEW c \in spawned_child_ids, rows[c].type = "analysis"
               PROVE  rows[c].advised \/ rows[c].status = "completed"
  BY DEF Advised
<1>4. rows[c] \in RowType
  BY <1>1 DEF ListsInv, Children, TypeInv
<1> DEFINE analyses == {d \in spawned_child_ids : rows[d].type = "analysis"}
<1>5. CASE \E d \in analyses : rows[d].advised
  BY <1>1, <1>3, <1>5 DEF ListsInv, Distinct
<1>6. CASE ~\E d \in analyses : rows[d].advised
  <2>1. {d \in analyses : rows[d].status \in {"blocked"}} = {}
    BY <1>2, <1>6 DEF sibling_state
  <2>2. {d \in analyses : rows[d].status \in Active} = {}
    BY <1>2, <1>6, <2>1 DEF sibling_state
  <2>3. c \in analyses
    BY <1>3
  <2>4. rows[c].status # "blocked" /\ rows[c].status \notin Active
    BY <2>1, <2>2, <2>3
  <2>5. QED
    BY <1>4, <2>4 DEF RowType, Statuses, Active
<1>7. QED
  BY <1>5, <1>6

LEMMA GateStep ==
  ASSUME Alone, FamilyInv, NEW w \in Workers, Gate(w)
  PROVE  FamilyInv'
<1> DEFINE row     == Mine(w)
           stage   == next_stage(row)
           sibling == IF stage = "execute" THEN sibling_state(w) ELSE "ready"
<1>1. /\ pc[w] = "admitted" /\ pc[w] \in Working \ Spawning
      /\ pc[w] \notin Resting \union Spawning
  BY DEF Gate, Working, Spawning, Resting
<1>2. UNCHANGED <<lists, queue, deaths>>
  BY DEF Gate
<1>3. CASE stage = "none" /\ Goto(w, "finalizing") /\ UNCHANGED <<rows, ctx>>
  BY <1>1, <1>2, <1>3, WorkDone
<1>4. CASE sibling = "blocked" /\ Block(w) /\ Leave(w)
  BY <1>1, <1>2, <1>4, BlockEnds
<1>5. CASE sibling = "waiting" /\ Leave(w) /\ UNCHANGED rows
  BY <1>1, <1>2, <1>5, PassEnds
<1>6. CASE /\ (IF row.cycle >= MaxCycles THEN Block(w) ELSE Write(w, NextCycle(row)))
           /\ Leave(w)
  BY <1>1, <1>2, <1>6, BlockEnds, CycleEnds
<1>7. CASE row.flying = stage /\ Leave(w) /\ UNCHANGED rows
  BY <1>1, <1>2, <1>7, PassEnds
<1>8. CASE /\ sibling = "ready" /\ stage # "none" /\ UNCHANGED rows
           /\ Goto(w, "cleared") /\ ctx' = [ctx EXCEPT ![w].stage = stage]
  <2>1. /\ TypeInv /\ HeldInv(w) /\ ParentInv(w) /\ SpawnInv(w)
        /\ ctx[w] \in CtxType /\ stage \in StageNames
    BY <1>1, MineTyped, StageTyped DEF FamilyInv
  <2>2. ListsInv' /\ ParentWaitsForChildren' /\ NoOrphans'
    BY <1>1, <1>2, <1>8, NothingWritten
  <2> HIDE DEF stage
  <2>3. /\ ctx' \in [Workers -> CtxType] /\ ctx'[w].stage = stage
        /\ ctx'[w].task = ctx[w].task /\ ctx'[w].told = ctx[w].told
        /\ ctx'[w].spawned = ctx[w].spawned
    BY <1>8, <2>1 DEF TypeInv, CtxType
  <2>4. TypeInv' /\ pc'[w] = "cleared"
    BY <1>2, <1>8, <2>1, <2>3 DEF TypeInv, Goto, Labels, Working
  <2>5. /\ pc'[w] \notin Resting \union {"gating", "scanning", "finalizing", "telling", "spawning"}
        /\ pc'[w] \notin Spawning
    BY <2>4 DEF Resting, Spawning
  <2>6. HeldInv(w)'
    BY <1>1, <1>8, <2>1, <2>3, <2>5 DEF HeldInv, Mine
  <2>7. ParentInv(w)'
    BY <1>1, <1>2, <2>1, <2>3, <2>5 DEF ParentInv
  <2>8. SpawnInv(w)'
    BY <1>1, <1>8, <2>1, <2>3, <2>5 DEF SpawnInv, Distinct, Children
  <2>9. SiblingInv(w)'
    <3>1. /\ spawned_child_ids' = spawned_child_ids /\ Mine(w)' = Mine(w)
          /\ Advised => Advised'
      BY <1>2, <1>8, <2>3 DEF spawned_child_ids, Mine, Advised
    <3>2. ASSUME stage = "execute", Mine(w).type = "implementation",
                 ctx[w].task \in spawned_child_ids
          PROVE  Advised
      <4>1. sibling_state(w) = "ready"
        BY <1>8, <3>2
      <4>2. QED
        BY <1>1, <3>2, <4>1, ReadySibling
    <3>3. QED
      BY <2>3, <3>1, <3>2 DEF SiblingInv
  <2>10. QED
    BY <2>2, <2>4, <2>6, <2>7, <2>8, <2>9, Together
<1>9. QED
  BY <1>3, <1>4, <1>5, <1>6, <1>7, <1>8 DEF Gate

LEMMA StartStageStep ==
  ASSUME Alone, FamilyInv, NEW w \in Workers, StartStage(w)
  PROVE  FamilyInv'
<1> DEFINE row == [Mine(w) EXCEPT !.flying = ctx[w].stage]
<1>1. pc[w] = "cleared" /\ pc[w] \in Working \ Spawning /\ pc[w] \notin Resting
  BY DEF StartStage, Working, Spawning, Resting
<1>2. Mine(w) \in RowType /\ Mine(w).status \in Active /\ ctx[w].stage \in StageNames
  BY <1>1, MineTyped DEF CtxType
<1>3. /\ row \in RowType /\ row.status \in Active
      /\ row.type = Mine(w).type /\ row.told = Mine(w).told
  BY <1>2 DEF RowType
<1>4. Write(w, row) /\ Goto(w, "running") /\ UNCHANGED <<lists, queue, ctx, deaths>>
  BY DEF StartStage
<1>5. "running" \in (Working \ Spawning) \ {"cleared"} /\ "running" # "spawning"
  BY DEF Working, Spawning
<1> HIDE DEF row
<1>6. QED
  BY <1>1, <1>3, <1>4, <1>5, WorkGoesOn

LEMMA LandedTyped ==
  ASSUME NEW row \in RowType, NEW stage
  PROVE  /\ Landed(row, stage) \in RowType /\ Landed(row, stage).type = row.type
         /\ Landed(row, stage).told = row.told /\ Landed(row, stage).status = row.status
         /\ Landed(row, stage).done = row.done
<1>1. (IF row.flying = stage THEN "none" ELSE row.flying) \in StageNames
  BY DEF RowType, StageNames
<1>2. QED
  BY <1>1 DEF Landed, RowType

LEMMA FailStageStep ==
  ASSUME Alone, FamilyInv, NEW w \in Workers, FailStage(w)
  PROVE  FamilyInv'
<1>1. pc[w] \notin Resting \union Spawning /\ Leave(w) /\ UNCHANGED <<lists, queue, deaths>>
  BY DEF FailStage, Spawning, Resting
<1>2. Mine(w) \in RowType
  BY <1>1, MineTyped
<1>3. ASSUME Write(w, [Landed(Mine(w), ctx[w].stage) EXCEPT !.status = "blocked"])
      PROVE  FamilyInv'
  <2> DEFINE row == [Landed(Mine(w), ctx[w].stage) EXCEPT !.status = "blocked"]
  <2>1. /\ row \in RowType /\ row.type = Mine(w).type /\ row.told = Mine(w).told
        /\ row.status = "blocked"
    BY <1>2, LandedTyped DEF RowType, Statuses
  <2>2. Write(w, row)
    BY <1>3
  <2> HIDE DEF row
  <2>3. QED
    BY <1>1, <2>1, <2>2, WorkEnds
<1>4. CASE Write(w, NextCycle(Mine(w)))
  BY <1>1, <1>4, CycleEnds
<1>5. QED
  BY <1>3, <1>4 DEF FailStage

LEMMA PassStageStep ==
  ASSUME Alone, FamilyInv, NEW w \in Workers, PassStage(w)
  PROVE  FamilyInv'
<1> DEFINE row == [Landed(Mine(w), ctx[w].stage) EXCEPT !.done = @ \union {ctx[w].stage}]
<1>1. pc[w] = "running" /\ pc[w] \in Working \ Spawning /\ pc[w] \notin Resting
  BY DEF PassStage, Working, Spawning, Resting
<1>2. Mine(w) \in RowType /\ Mine(w).status \in Active /\ ctx[w].stage \in StageNames
  BY <1>1, MineTyped DEF CtxType
<1>3. Landed(Mine(w), ctx[w].stage).done \union {ctx[w].stage} \in SUBSET StageNames
  BY <1>2, LandedTyped DEF RowType
<1>4. /\ row \in RowType /\ row.status \in Active
      /\ row.type = Mine(w).type /\ row.told = Mine(w).told
  BY <1>2, <1>3, LandedTyped DEF RowType
<1>5. Write(w, row) /\ Goto(w, "passed") /\ UNCHANGED <<lists, queue, ctx, deaths>>
  BY DEF PassStage
<1>6. "passed" \in (Working \ Spawning) \ {"cleared"} /\ "passed" # "spawning"
  BY DEF Working, Spawning
<1> HIDE DEF row
<1>7. QED
  BY <1>1, <1>4, <1>5, <1>6, WorkGoesOn

LEMMA FollowUpStep ==
  ASSUME Alone, FamilyInv, NEW w \in Workers, FollowUp(w)
  PROVE  FamilyInv'
<1>1. /\ pc[w] = "passed" /\ pc[w] \in Working \ Spawning
      /\ pc[w] \notin Resting \union Spawning /\ UNCHANGED <<lists, queue, deaths>>
  BY DEF FollowUp, Working, Spawning, Resting
<1>2. Mine(w) \in RowType /\ Mine(w).status \in Active /\ Mine(w).status # "completed"
  BY <1>1, MineTyped DEF Active
<1>3. ASSUME Write(w, [Mine(w) EXCEPT !.planned = TRUE]),
             IF ctx[w].task = Parent THEN Goto(w, "spawning") /\ UNCHANGED ctx ELSE Leave(w)
      PROVE  FamilyInv'
  <2> DEFINE row == [Mine(w) EXCEPT !.planned = TRUE]
  <2>1. /\ row \in RowType /\ row.status \in Active /\ row.status # "completed"
        /\ row.type = Mine(w).type /\ row.told = Mine(w).told
    BY <1>2 DEF RowType
  <2>2. "spawning" \in (Working \ Spawning) \ {"cleared"}
    BY DEF Working, Spawning
  <2>3. Write(w, row)
    BY <1>3
  <2> HIDE DEF row
  <2>4. CASE ctx[w].task = Parent
    BY <1>1, <1>3, <2>1, <2>2, <2>3, <2>4, WorkGoesOn
  <2>5. CASE ctx[w].task # Parent
    BY <1>1, <1>3, <2>1, <2>3, <2>5, WorkEnds
  <2>6. QED
    BY <2>4, <2>5
<1>4. ASSUME Write(w, [Mine(w) EXCEPT !.advised = TRUE]), Leave(w)
      PROVE  FamilyInv'
  <2> DEFINE row == [Mine(w) EXCEPT !.advised = TRUE]
  <2>1. /\ row \in RowType /\ row.status # "completed"
        /\ row.type = Mine(w).type /\ row.told = Mine(w).told
    BY <1>2 DEF RowType
  <2>2. Write(w, row)
    BY <1>4
  <2> HIDE DEF row
  <2>3. QED
    BY <1>1, <1>4, <2>1, <2>2, WorkEnds
<1>5. CASE UNCHANGED rows /\ Leave(w)
  BY <1>1, <1>5, PassEnds
<1>6. CASE Goto(w, "finalizing") /\ UNCHANGED <<rows, ctx>>
  BY <1>1, <1>6, WorkDone
<1>7. QED
  BY <1>1, <1>3, <1>4, <1>5, <1>6 DEF FollowUp

LEMMA FinalizeStep ==
  ASSUME Alone, FamilyInv, NEW w \in Workers, Finalize(w)
  PROVE  FamilyInv'
<1> DEFINE row == [Mine(w) EXCEPT !.status = "completed"]
<1>1. /\ pc[w] = "finalizing" /\ pc[w] \notin Resting \union Spawning
      /\ Leave(w) /\ UNCHANGED <<lists, queue, deaths>> /\ Write(w, row)
  BY DEF Finalize, Spawning, Resting
<1>2. Mine(w) \in RowType
  BY <1>1, MineTyped
<1>3. row \in RowType /\ row.type = Mine(w).type /\ row.told = Mine(w).told
  BY <1>2 DEF RowType, Statuses
<1>4. ctx[w].task = Parent => \A c \in spawned_child_ids : rows[c].status = "completed"
  BY <1>1 DEF FamilyInv, ParentInv
<1> HIDE DEF row
<1>5. QED
  BY <1>1, <1>3, <1>4, WorkEnds

LEMMA DieStep ==
  ASSUME Alone, FamilyInv, NEW w \in Workers, Die(w)
  PROVE  FamilyInv'
<1>1. TypeInv /\ NoCtx \in CtxType
  BY NoCtxTyped DEF FamilyInv
<1>2. /\ UNCHANGED <<rows, lists>> /\ pc' = [pc EXCEPT ![w] = "idle"]
      /\ queue' = [queue EXCEPT ![w] = {}] /\ ctx' = [ctx EXCEPT ![w] = NoCtx]
      /\ deaths' = deaths + 1
  BY DEF Die, Goto
<1>3. TypeInv'
  BY <1>1, <1>2 DEF TypeInv, Labels, Resting
<1>4. pc'[w] = "idle" /\ ctx'[w] = NoCtx /\ deaths' > 0
  BY <1>1, <1>2 DEF TypeInv
<1>5. ListsInv' /\ ParentWaitsForChildren'
  BY <1>2 DEF FamilyInv, ListsInv, ParentWaitsForChildren, spawned_child_ids, Children, Distinct
<1>6. NoOrphans'
  BY <1>4 DEF NoOrphans
<1>7. pc'[w] \in Resting /\ pc'[w] # "scanning"
  BY <1>4 DEF Resting
<1>8. QED
  BY <1>3, <1>4, <1>5, <1>6, <1>7, AtRest, Together

-----------------------------------------------------------------------------
(* Spawning *)

\* A parent that spawns has no recorded children, and has not ended.
LEMMA SpawningParent ==
  ASSUME FamilyInv, NEW w \in Workers, pc[w] \in Spawning
  PROVE  /\ ctx[w].task = Parent /\ lists = <<>> /\ spawned_child_ids = {}
         /\ rows[Parent].status \in Active /\ Parent \in DOMAIN rows
         /\ rows \in Seq(RowType) /\ Len(rows) \in Nat /\ DOMAIN rows = 1..Len(rows)
         /\ ctx[w] \in CtxType /\ ctx[w].spawned \subseteq 2..Len(rows)
         /\ IsFiniteSet(ctx[w].spawned) /\ Cardinality(ctx[w].spawned) \in Nat
         /\ pc[w] \notin Resting /\ pc[w] \in Working
<1>1. pc[w] \notin Resting /\ pc[w] \in Working
  BY DEF Spawning, Resting, Working
<1>2. /\ ctx[w].task = Parent /\ lists = <<>> /\ spawned_child_ids = {}
      /\ rows[Parent].status \in Active
  BY <1>1 DEF FamilyInv, ParentInv, HeldInv, Mine, spawned_child_ids
<1>3. /\ rows \in Seq(RowType) /\ Len(rows) \in Nat /\ DOMAIN rows = 1..Len(rows)
      /\ Parent \in DOMAIN rows /\ ctx[w] \in CtxType
  BY DEF FamilyInv, TypeInv, Parent
<1>4. ctx[w].spawned \subseteq 2..Len(rows)
  BY <1>3 DEF FamilyInv, SpawnInv, Children, Parent
<1>5. IsFiniteSet(ctx[w].spawned) /\ Cardinality(ctx[w].spawned) \in Nat
  <2>1. IsFiniteSet(2..Len(rows))
    BY <1>3, FS_Interval
  <2>2. IsFiniteSet(ctx[w].spawned)
    BY <1>4, <2>1, FS_Subset
  <2>3. QED
    BY <2>2, FS_CardinalityType
<1>6. QED
  BY <1>1, <1>2, <1>3, <1>4, <1>5

LEMMA SpawnOnceStep ==
  ASSUME FanoutAssumption, Alone, FamilyInv, NEW w \in Workers, SpawnOnce(w)
  PROVE  FamilyInv'
<1>1. /\ pc[w] = "spawning" /\ pc[w] \in Working \ Spawning
      /\ pc[w] \notin Resting \union Spawning /\ UNCHANGED <<rows, lists, queue, deaths>>
      /\ TypeInv /\ HeldInv(w) /\ ParentInv(w) /\ SpawnInv(w)
  BY DEF SpawnOnce, Working, Spawning, Resting, FamilyInv
<1>2. CASE Leave(w)
  BY <1>1, <1>2, PassEnds
<1>3. CASE lists = <<>> /\ ChildTypes # <<>> /\ Goto(w, "creating") /\ UNCHANGED ctx
  <2>1. ListsInv' /\ ParentWaitsForChildren' /\ NoOrphans'
    BY <1>1, <1>3, NothingWritten
  <2>2. TypeInv' /\ pc'[w] = "creating"
    BY <1>1, <1>3 DEF TypeInv, Goto, Labels, Working, Spawning
  <2>3. /\ pc'[w] \notin Resting \union {"gating", "scanning", "finalizing", "telling", "cleared"}
        /\ pc'[w] \in Spawning
    BY <2>2 DEF Resting, Spawning
  <2>4. HeldInv(w)'
    BY <1>1, <1>3, <2>3 DEF HeldInv, Mine
  <2>5. ParentInv(w)' /\ SiblingInv(w)'
    BY <1>1, <1>3, <2>3 DEF ParentInv, SiblingInv
  <2>6. ctx'[w].spawned = {} /\ Cardinality({}) = 0
    BY <1>1, <1>3, FS_EmptySet DEF SpawnInv
  <2>7. SpawnInv(w)'
    BY <1>3, <2>3, <2>6 DEF SpawnInv, Distinct, FanoutAssumption
  <2>8. QED
    BY <2>1, <2>2, <2>4, <2>5, <2>7, Together
<1>4. QED
  BY <1>2, <1>3 DEF SpawnOnce

LEMMA CreateChildStep ==
  ASSUME FanoutAssumption, Alone, FamilyInv, NEW w \in Workers, CreateChild(w)
  PROVE  FamilyInv'
<1> DEFINE S == ctx[w].spawned
           k == Cardinality(S)
           n == Len(rows) + 1
           row == Row(ChildTypes[k + 1])
<1>1. /\ pc[w] = "creating" /\ pc[w] \in Spawning /\ pc[w] # "telling"
      /\ k < Len(ChildTypes) /\ rows' = Append(rows, row)
      /\ ctx' = [ctx EXCEPT ![w].spawned = S \union {n}]
      /\ Goto(w, "telling") /\ UNCHANGED <<lists, queue, deaths>>
      /\ TypeInv /\ SpawnInv(w) /\ HeldInv(w) /\ ParentInv(w)
  BY DEF CreateChild, Spawning, FamilyInv
<1>2. /\ ctx[w].task = Parent /\ lists = <<>> /\ spawned_child_ids = {}
      /\ rows[Parent].status \in Active /\ Parent \in DOMAIN rows
      /\ rows \in Seq(RowType) /\ Len(rows) \in Nat /\ DOMAIN rows = 1..Len(rows)
      /\ ctx[w] \in CtxType /\ S \subseteq 2..Len(rows) /\ IsFiniteSet(S) /\ k \in Nat
      /\ pc[w] \notin Resting
  BY <1>1, SpawningParent
<1>3. ChildTypes[k + 1] \in Types /\ k + 1 \in DOMAIN ChildTypes
  BY <1>1, <1>2 DEF FanoutAssumption, Types
<1>4. row \in RowType /\ row.type = ChildTypes[k + 1]
  BY <1>3, NewRow
<1> HIDE DEF row
<1>5. /\ rows' \in Seq(RowType) /\ Len(rows') = n /\ DOMAIN rows' = 1..n /\ rows'[n] = row
      /\ \A t \in DOMAIN rows : rows'[t] = rows[t]
  BY <1>1, <1>2, <1>4
<1>6. /\ ctx' \in [Workers -> CtxType] /\ ctx'[w].spawned = S \union {n}
      /\ ctx'[w].task = Parent /\ ctx'[w].told = ctx[w].told
  <2>1. S \union {n} \in SUBSET Nat
    BY <1>2
  <2>2. QED
    BY <1>1, <1>2, <2>1 DEF TypeInv, CtxType
<1>7. pc' = [pc EXCEPT ![w] = "telling"] /\ "telling" \in Labels /\ pc'[w] = "telling"
  BY <1>1 DEF Goto, TypeInv, Labels, Working, Spawning
<1>8. TypeInv'
  <2>1. \A v \in Workers : queue[v] \subseteq DOMAIN rows'
    BY <1>1, <1>2, <1>5 DEF TypeInv
  <2>2. QED
    BY <1>1, <1>2, <1>5, <1>6, <1>7, <2>1 DEF TypeInv
<1>9. spawned_child_ids' = {} /\ lists' = <<>>
  BY <1>1, <1>2 DEF spawned_child_ids
<1>10. ListsInv' /\ ParentWaitsForChildren'
  BY <1>9 DEF ListsInv, Distinct, ParentWaitsForChildren
<1>11. Children' = Children \union {n} /\ n # Parent /\ n \notin S
  BY <1>2, <1>5 DEF Children, Parent
<1>12. NoOrphans'
  BY <1>1, <1>2, <1>6, <1>9, <1>11, OneWorker DEF FamilyInv
<1>13. HeldInv(w)'
  <2>1. rows'[Parent] = rows[Parent] /\ Mine(w) = rows[Parent] /\ Mine(w)' = rows'[Parent]
    BY <1>2, <1>5, <1>6 DEF Mine
  <2>2. QED
    BY <1>1, <1>2, <1>5, <1>6, <1>7, <2>1 DEF HeldInv, Resting
<1>14. ParentInv(w)' /\ SiblingInv(w)'
  BY <1>6, <1>7, <1>9 DEF ParentInv, SiblingInv
<1>15. SpawnInv(w)'
  <2>1. Cardinality(S \union {n}) = k + 1
    BY <1>2, <1>11, FS_AddElement
  <2>2. \A c \in S : /\ c \in DOMAIN rows /\ rows'[c] = rows[c] /\ rows[c].told
                     /\ \E i \in DOMAIN ChildTypes : i <= k /\ rows[c].type = ChildTypes[i]
    BY <1>1, <1>2, <1>5 DEF SpawnInv
  <2>3. \A c, d \in S \union {n} : rows'[c].type = rows'[d].type => c = d
    <3>1. \A c \in S : rows'[c].type # rows'[n].type
      BY <1>2, <1>3, <1>4, <1>5, <2>2 DEF FanoutAssumption
    <3>2. QED
      BY <1>1, <2>2, <3>1 DEF SpawnInv, Distinct
  <2>4. Max(S \union {n}) = n
    <3>1. S \union {n} \in SUBSET (1..n) /\ n \in Nat
      BY <1>2
    <3>2. Max(S \union {n}) \in S \union {n} /\ Max(S \union {n}) >= n
      BY <3>1, MaxIsGreatest
    <3>3. QED
      BY <1>2, <3>2
  <2>5. ASSUME NEW c \in S \union {n}
        PROVE  /\ \E i \in DOMAIN ChildTypes : i <= k + 1 /\ rows'[c].type = ChildTypes[i]
               /\ rows'[c].told \/ c = n
    <3>1. CASE c = n
      BY <1>2, <1>3, <1>4, <1>5, <3>1
    <3>2. CASE c \in S
      <4>1. PICK i \in DOMAIN ChildTypes : i <= k /\ rows[c].type = ChildTypes[i]
        BY <2>2, <3>2
      <4>2. i <= k + 1
        BY <1>2, <4>1 DEF FanoutAssumption
      <4>3. QED
        BY <2>2, <3>2, <4>1, <4>2
    <3>3. QED
      BY <3>1, <3>2
  <2>6. ChildTypes # <<>> /\ k + 1 <= Len(ChildTypes)
    BY <1>1, <1>2 DEF SpawnInv, FanoutAssumption
  <2>7. ctx'[w].spawned \subseteq Children'
    BY <1>1, <1>6, <1>11 DEF SpawnInv
  <2> HIDE DEF S, k, n
  <2>8. /\ Cardinality(ctx'[w].spawned) = k + 1 /\ Max(ctx'[w].spawned) = n
        /\ ctx'[w].spawned # {}
    BY <1>6, <2>1, <2>4
  <2>9. \A c \in ctx'[w].spawned :
          /\ \E i \in DOMAIN ChildTypes :
               i <= Cardinality(ctx'[w].spawned) /\ rows'[c].type = ChildTypes[i]
          /\ rows'[c].told \/ c = Max(ctx'[w].spawned)
    BY <1>6, <2>5, <2>8
  <2>10. \A c, d \in ctx'[w].spawned : rows'[c].type = rows'[d].type => c = d
    BY <1>6, <2>3
  <2>11. pc'[w] \in Spawning
    BY <1>7 DEF Spawning
  <2>12. QED
    BY <1>7, <2>6, <2>7, <2>8, <2>9, <2>10, <2>11 DEF SpawnInv, Distinct
<1>16. QED
  BY <1>8, <1>10, <1>12, <1>13, <1>14, <1>15, Together

LEMMA TellChildStep ==
  ASSUME Alone, FamilyInv, NEW w \in Workers, TellChild(w)
  PROVE  FamilyInv'
<1> DEFINE S == ctx[w].spawned
           c == Max(S)
<1>1. /\ pc[w] = "telling" /\ pc[w] \in Spawning
      /\ rows' = [rows EXCEPT ![c].told = TRUE]
      /\ Goto(w, "creating") /\ UNCHANGED <<lists, queue, ctx, deaths>>
      /\ TypeInv /\ SpawnInv(w) /\ HeldInv(w) /\ ParentInv(w)
  BY DEF TellChild, Spawning, FamilyInv
<1>2. /\ ctx[w].task = Parent /\ lists = <<>> /\ spawned_child_ids = {}
      /\ rows[Parent].status \in Active /\ Parent \in DOMAIN rows
      /\ rows \in Seq(RowType) /\ Len(rows) \in Nat /\ DOMAIN rows = 1..Len(rows)
      /\ S \subseteq 2..Len(rows) /\ pc[w] \notin Resting
  BY <1>1, SpawningParent
<1>3. c \in S
  <2>1. S \in SUBSET (1..Len(rows)) /\ S # {}
    BY <1>1, <1>2 DEF SpawnInv
  <2>2. QED
    BY <1>2, <2>1, MaxIsGreatest
<1> HIDE DEF c
<1>4. c \in DOMAIN rows /\ c # Parent /\ rows[c] \in RowType
  BY <1>2, <1>3 DEF Parent
<1>5. /\ rows' \in Seq(RowType) /\ Len(rows') = Len(rows) /\ DOMAIN rows' = DOMAIN rows
      /\ \A t \in DOMAIN rows : rows'[t].type = rows[t].type
      /\ \A t \in DOMAIN rows : t # c => rows'[t] = rows[t]
      /\ rows'[c].told
  <2>1. [rows[c] EXCEPT !.told = TRUE] \in RowType
    BY <1>4 DEF RowType
  <2>2. rows' = [rows EXCEPT ![c] = [rows[c] EXCEPT !.told = TRUE]]
    BY <1>1, <1>2, <1>4
  <2>3. /\ [rows[c] EXCEPT !.told = TRUE].type = rows[c].type
        /\ [rows[c] EXCEPT !.told = TRUE].told
    BY <1>4 DEF RowType
  <2>4. QED
    BY <1>2, <1>4, <2>1, <2>2, <2>3
<1>6. TypeInv' /\ pc'[w] = "creating"
  BY <1>1, <1>5 DEF TypeInv, Goto, Labels, Working, Spawning
<1>7. spawned_child_ids' = {} /\ lists' = <<>> /\ Children' = Children
  BY <1>1, <1>2, <1>5 DEF spawned_child_ids, Children
<1>8. ListsInv' /\ ParentWaitsForChildren'
  BY <1>7 DEF ListsInv, Distinct, ParentWaitsForChildren
<1>9. NoOrphans'
  BY <1>1, <1>2, <1>7, OneWorker DEF FamilyInv
<1>10. HeldInv(w)'
  <2>1. rows'[Parent] = rows[Parent] /\ Mine(w) = rows[Parent] /\ Mine(w)' = rows'[Parent]
    BY <1>1, <1>2, <1>4, <1>5 DEF Mine
  <2>2. QED
    BY <1>1, <1>2, <1>5, <1>6, <2>1 DEF HeldInv, Resting
<1>11. ParentInv(w)' /\ SiblingInv(w)'
  BY <1>1, <1>2, <1>6, <1>7 DEF ParentInv, SiblingInv
<1>12. SpawnInv(w)'
  <2>1. \A d \in S : d \in DOMAIN rows /\ rows'[d].type = rows[d].type
    BY <1>2, <1>5
  <2>2. Distinct(S) /\ \A d, e \in S : rows'[d].type = rows'[e].type => d = e
    BY <1>1, <2>1 DEF SpawnInv, Distinct
  <2>3. ASSUME NEW d \in S
        PROVE  /\ rows'[d].told
               /\ \E i \in DOMAIN ChildTypes : i <= Cardinality(S) /\ rows'[d].type = ChildTypes[i]
    <3>1. rows[d].told \/ d = c
      BY <1>1 DEF SpawnInv, c
    <3>2. rows'[d].told
      BY <1>5, <2>1, <3>1
    <3>3. \E i \in DOMAIN ChildTypes : i <= Cardinality(S) /\ rows[d].type = ChildTypes[i]
      BY <1>1 DEF SpawnInv
    <3>4. QED
      BY <2>1, <3>2, <3>3
  <2>4. S \subseteq Children /\ ChildTypes # <<>> /\ Cardinality(S) <= Len(ChildTypes)
    BY <1>1 DEF SpawnInv
  <2>5. ctx'[w].spawned = S
    BY <1>1
  <2> HIDE DEF S
  <2>6. QED
    BY <1>6, <1>7, <2>2, <2>3, <2>4, <2>5 DEF SpawnInv, Distinct, Spawning
<1>13. QED
  BY <1>6, <1>8, <1>9, <1>10, <1>11, <1>12, Together

LEMMA RecordSpawnedStep ==
  ASSUME FanoutAssumption, Alone, FamilyInv, NEW w \in Workers, RecordSpawned(w)
  PROVE  FamilyInv'
<1> DEFINE S == ctx[w].spawned
<1>1. /\ pc[w] = "creating" /\ pc[w] \in Spawning
      /\ Cardinality(S) = Len(ChildTypes) /\ lists' = Append(lists, S)
      /\ Leave(w) /\ UNCHANGED <<rows, queue, deaths>>
      /\ TypeInv /\ SpawnInv(w)
  BY DEF RecordSpawned, Spawning, FamilyInv
<1>2. /\ lists = <<>> /\ spawned_child_ids = {} /\ ctx[w] \in CtxType
      /\ rows[Parent].status \in Active
  BY <1>1, SpawningParent
<1>3. S \in SUBSET Nat /\ S # {}
  <2>1. S \in SUBSET Nat
    BY <1>2 DEF CtxType
  <2>2. Len(ChildTypes) # 0
    BY <1>1 DEF SpawnInv, FanoutAssumption
  <2>3. QED
    BY <1>1, <2>1, <2>2, FS_EmptySet
<1>4. lists' \in Seq(SUBSET Nat) /\ lists' # <<>> /\ lists'[Len(lists')] = S
  BY <1>1, <1>2, <1>3 DEF TypeInv
<1>5. spawned_child_ids' = S /\ Children' = Children
  BY <1>1, <1>4 DEF spawned_child_ids, Children
<1>6. TypeInv'
  BY <1>1, <1>4, Left DEF TypeInv
<1>7. ListsInv'
  BY <1>1, <1>3, <1>5 DEF ListsInv, SpawnInv, Distinct
<1>8. ParentWaitsForChildren'
  BY <1>1, <1>2 DEF ParentWaitsForChildren, Active
<1>9. NoOrphans'
  <2>1. deaths > 0 \/ Children \subseteq S
    BY <1>2, OneWorker DEF FamilyInv
  <2>2. QED
    BY <1>1, <1>5, <2>1 DEF NoOrphans
<1>10. QED
  BY <1>1, <1>6, <1>7, <1>8, <1>9, Left, Together

-----------------------------------------------------------------------------
(* The family's invariant, and what follows from it *)

LEMMA FamilyStep ==
  ASSUME FanoutAssumption, Alone, FamilyInv, [Next]_vars
  PROVE  FamilyInv'
<1>1. CASE UNCHANGED vars
  BY <1>1 DEF vars, FamilyInv, TypeInv, ListsInv, ParentWaitsForChildren, NoOrphans, HeldInv,
             ParentInv, SpawnInv, SiblingInv, Advised, Distinct, spawned_child_ids, Children, Mine
<1>2. ASSUME NEW w \in Workers, Step(w)
      PROVE  FamilyInv'
  BY <1>2, ScanStep, PickStep, ReadChildStep, JudgeChildrenStep, AdmitStep, GateStep,
     StartStageStep, FailStageStep, PassStageStep, FollowUpStep, SpawnOnceStep,
     CreateChildStep, TellChildStep, RecordSpawnedStep, FinalizeStep DEF Step
<1>3. QED
  BY <1>1, <1>2, DieStep DEF Next

LEMMA AlwaysFamily ==
  ASSUME Alone
  PROVE  Spec => []FamilyInv
<1>1. Init => FamilyInv
  BY FanoutAssumption, StartsRight
<1>2. FamilyInv /\ [Next]_vars => FamilyInv'
  BY FanoutAssumption, FamilyStep
<1>3. QED
  BY <1>1, <1>2, PTL DEF Spec

\* With one thread that scans, a parent ends completed only with every child it
\* recorded completed, whatever passes are cut short (child_gate_status).
THEOREM ParentAlwaysWaits ==
  ASSUME Alone
  PROVE  Spec => []ParentWaitsForChildren
<1>1. FamilyInv => ParentWaitsForChildren
  BY DEF FamilyInv
<1>2. QED
  BY <1>1, AlwaysFamily, PTL

\* With one thread that scans, and until a pass is cut short, every child is recorded
\* or is being spawned (spawn_once).
THEOREM NeverOrphans ==
  ASSUME Alone
  PROVE  Spec => []NoOrphans
<1>1. FamilyInv => NoOrphans
  BY DEF FamilyInv
<1>2. QED
  BY <1>1, AlwaysFamily, PTL

\* With one thread that scans, a parent that recorded its children starts no further
\* stage of its own (process_task returns at the child gate).
THEOREM ParentAlwaysDelegates ==
  ASSUME Alone
  PROVE  Spec => ParentDelegates
<1>1. ASSUME FamilyInv, NEW w \in Workers, StartStage(w), ctx[w].task = Parent
      PROVE  lists = <<>>
  BY <1>1 DEF FamilyInv, ParentInv, StartStage, Working, Spawning
<1>2. FamilyInv =>
        [\A w \in Workers : StartStage(w) /\ ctx[w].task = Parent => lists = <<>>]_vars
  BY <1>1
<1>3. QED
  BY <1>2, AlwaysFamily, PTL DEF ParentDelegates

\* With one thread that scans, a recorded implementation child starts to execute only
\* once its analysis sibling has advised it or has completed: the gate reads the first
\* analysis that advised, and templates of distinct types make it the only one.
THEOREM AnalysisAlwaysFirst ==
  ASSUME Alone
  PROVE  Spec => ImplementationFollowsAnalysis
<1>1. ASSUME FamilyInv, NEW w \in Workers, StartStage(w), ctx[w].stage = "execute",
             Mine(w).type = "implementation", ctx[w].task \in spawned_child_ids
      PROVE  \A c \in spawned_child_ids :
               rows[c].type = "analysis" => rows[c].advised \/ rows[c].status = "completed"
  BY <1>1 DEF FamilyInv, SiblingInv, Advised, StartStage
<1>2. FamilyInv =>
        [\A w \in Workers :
           StartStage(w) /\ ctx[w].stage = "execute" /\ Mine(w).type = "implementation"
             /\ ctx[w].task \in spawned_child_ids =>
           \A c \in spawned_child_ids :
             rows[c].type = "analysis" => rows[c].advised \/ rows[c].status = "completed"]_vars
  BY <1>1
<1>3. QED
  BY <1>2, AlwaysFamily, PTL DEF ImplementationFollowsAnalysis
=============================================================================
