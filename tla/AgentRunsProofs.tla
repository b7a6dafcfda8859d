-------------------------- MODULE AgentRunsProofs --------------------------
(***************************************************************************)
(* Theorems about AgentRuns, for any callers, tasks, keys and settings,    *)
(* and for any number of crashes, store failures and operator acts.        *)
(***************************************************************************)
EXTENDS AgentRuns, FiniteSetTheorems, SequenceTheorems, TLAPS

\* Callers that have created their row.
Executing == {"calling", "completing", "storing", "persisting", "failing"}

\* Row r holds no slot, or an operator resumed a run of its task.
Released(r) == runs[r].status \in Active => resumed[runs[r].task] # 0

\* What a caller knows of its request and its row.
CallerInv(c) ==
  /\ pc[c] # "idle" => req[c].task \in Tasks /\ req[c].key \in Keys
  /\ pc[c] \notin Executing => mine[c] = 0
  /\ pc[c] \in Executing => /\ mine[c] \in DOMAIN runs
                            /\ runs[mine[c]].task = req[c].task
                            /\ runs[mine[c]].key = req[c].key
  /\ pc[c] \in {"storing", "persisting"} => Released(mine[c])
  /\ pc[c] = "persisting" => mine[c] \in output

RunsInv ==
  /\ TypeOK
  /\ CompletedHasOutput
  /\ ActiveIsOwned
  /\ ReplaysAreFinished
  /\ \A c \in Callers : CallerInv(c)

-----------------------------------------------------------------------------
(* The rows *)

LEMMA RowsFinite ==
  ASSUME TypeOK, NEW t
  PROVE  /\ IsFiniteSet(DOMAIN runs)
         /\ IsFiniteSet(RowsOf(t)) /\ Cardinality(RowsOf(t)) \in Nat
         /\ IsFiniteSet(ActiveOf(t)) /\ Cardinality(ActiveOf(t)) \in Nat
         /\ IsFiniteSet(listed_active(t)) /\ Cardinality(listed_active(t)) \in Nat
<1>1. DOMAIN runs = 1..Len(runs) /\ Len(runs) \in Nat
  BY DEF TypeOK
<1>2. IsFiniteSet(DOMAIN runs)
  BY <1>1, FS_Interval
<1>3. RowsOf(t) \in SUBSET DOMAIN runs /\ ActiveOf(t) \in SUBSET DOMAIN runs
        /\ listed_active(t) \in SUBSET DOMAIN runs
  BY DEF RowsOf, ActiveOf, listed_active
<1>4. IsFiniteSet(RowsOf(t)) /\ IsFiniteSet(ActiveOf(t)) /\ IsFiniteSet(listed_active(t))
  BY <1>2, <1>3, FS_Subset
<1>5. QED
  BY <1>2, <1>4, FS_CardinalityType

LEMMA RowTasks ==
  ASSUME TypeOK, NEW q \in DOMAIN runs
  PROVE  runs[q].task \in Tasks /\ runs[q].key \in Keys
<1>1. runs \in Seq(Run) /\ DOMAIN runs = 1..Len(runs)
  BY DEF TypeOK
<1>2. runs[q] \in Run
  BY <1>1, ElementOfSeq
<1>3. QED
  BY <1>2 DEF Run

\* Writing a status changes nothing else of the rows.
LEMMA Updated ==
  ASSUME TypeOK, NEW r \in DOMAIN runs, NEW s \in {"queued", "blocked", "completed", "failed"},
         Update(r, s)
  PROVE  /\ runs' \in Seq(Run) /\ DOMAIN runs' = DOMAIN runs /\ old' \subseteq DOMAIN runs
         /\ \A q \in DOMAIN runs : /\ runs'[q].task = runs[q].task
                                   /\ runs'[q].key = runs[q].key
                                   /\ runs'[q].status = IF q = r THEN s ELSE runs[q].status
<1>1. runs \in Seq(Run) /\ DOMAIN runs = 1..Len(runs) /\ old \subseteq DOMAIN runs
  BY DEF TypeOK
<1>2. \A q \in DOMAIN runs : runs[q] \in Run
  BY <1>1, ElementOfSeq
<1>3. runs' = [runs EXCEPT ![r].status = s] /\ old' = old \ {r}
  BY DEF Update
<1>4. [runs[r] EXCEPT !.status = s] \in Run
  BY <1>2 DEF Run
<1>5. runs' \in Seq(Run)
  BY <1>1, <1>3, <1>4, ExceptSeq
<1>6. QED
  BY <1>1, <1>2, <1>3, <1>5 DEF Run

\* Adding a row leaves the others as they are.
LEMMA Added ==
  ASSUME TypeOK, NEW row \in Run, runs' = Append(runs, row)
  PROVE  /\ runs' \in Seq(Run) /\ Len(runs) \in Nat
         /\ DOMAIN runs' = DOMAIN runs \union {Len(runs) + 1}
         /\ Len(runs) + 1 \notin DOMAIN runs
         /\ Len(runs) + 1 # 0
         /\ runs'[Len(runs) + 1] = row
         /\ \A q \in DOMAIN runs : runs'[q] = runs[q]
<1>1. runs \in Seq(Run) /\ DOMAIN runs = 1..Len(runs) /\ Len(runs) \in Nat
  BY DEF TypeOK
<1>2. /\ runs' \in Seq(Run) /\ Len(runs') = Len(runs) + 1
      /\ \A i \in 1..Len(runs) : runs'[i] = runs[i]
      /\ runs'[Len(runs) + 1] = row
  BY <1>1, AppendProperties
<1>3. DOMAIN runs' = 1..Len(runs')
  BY <1>2
<1>4. QED
  BY <1>1, <1>2, <1>3

LEMMA RunsInit == Init => RunsInv
BY RunsAssumption
DEF Init, RunsInv, TypeOK, NoTally, Label, CompletedHasOutput, ActiveIsOwned, ReplaysAreFinished,
    CallerInv, Executing

-----------------------------------------------------------------------------
(* A request, before and after it has a row *)

LEMMA LookupKeeps ==
  ASSUME RunsInv, NEW c \in Callers, Lookup(c), UNCHANGED limit
  PROVE  RunsInv'
<1> USE DEF Lookup, Goto, outside, bounds
<1>1. TypeOK'
  BY DEF RunsInv, TypeOK, Label
<1>2. CompletedHasOutput' /\ ActiveIsOwned' /\ ReplaysAreFinished'
  BY DEF RunsInv, CompletedHasOutput, ActiveIsOwned, ReplaysAreFinished
<1>3. \A d \in Callers : CallerInv(d)'
  BY DEF RunsInv, TypeOK, CallerInv, Released, Executing
<1>4. QED
  BY <1>1, <1>2, <1>3 DEF RunsInv

\* A caller without a row that leaves takes nothing with it.
LEMMA LeavesEarly ==
  ASSUME RunsInv, NEW c \in Callers, pc[c] \notin Executing, Leave(c),
         UNCHANGED <<limit, runs, output, replay, answered, old, abandoned, outside, bounds>>
  PROVE  RunsInv'
<1> USE DEF Leave, Goto, outside, bounds
<1>1. TypeOK'
  BY DEF RunsInv, TypeOK, Label, NoTally
<1>2. mine' = mine
  BY DEF RunsInv, TypeOK, CallerInv
<1>3. CompletedHasOutput' /\ ActiveIsOwned' /\ ReplaysAreFinished'
  BY <1>2 DEF RunsInv, CompletedHasOutput, ActiveIsOwned, ReplaysAreFinished
<1>4. \A d \in Callers : CallerInv(d)'
  BY <1>2 DEF RunsInv, TypeOK, CallerInv, Released, Executing
<1>5. QED
  BY <1>1, <1>3, <1>4 DEF RunsInv

LEMMA CheckTaskKeeps ==
  ASSUME RunsInv, NEW c \in Callers, CheckTask(c), UNCHANGED limit
  PROVE  RunsInv'
<1> USE DEF CheckTask, outside, bounds
<1>1. CASE over_task_limit(req[c].task)
  BY <1>1, LeavesEarly DEF Executing
<1>2. CASE ~over_task_limit(req[c].task)
  <2> USE <1>2 DEF Goto
  <2>1. TypeOK'
    BY DEF RunsInv, TypeOK, Label
  <2>2. CompletedHasOutput' /\ ActiveIsOwned' /\ ReplaysAreFinished'
    BY DEF RunsInv, CompletedHasOutput, ActiveIsOwned, ReplaysAreFinished
  <2>3. \A d \in Callers : CallerInv(d)'
    BY DEF RunsInv, TypeOK, CallerInv, Released, Executing
  <2>4. QED
    BY <2>1, <2>2, <2>3 DEF RunsInv
<1>3. QED
  BY <1>1, <1>2

LEMMA CountTaskKeeps ==
  ASSUME RunsInv, NEW c \in Callers, CountTask(c), UNCHANGED limit
  PROVE  RunsInv'
<1> USE DEF CountTask, outside, bounds
<1>1. PICK t \in Tasks \ tally[c].seen :
        LET count == tally[c].count + Cardinality(listed_active(t))
            seen  == tally[c].seen \union {t}
        IN  IF over_workspace_limit(count)
            THEN Leave(c)
            ELSE /\ Goto(c, IF seen = Tasks THEN "creating" ELSE "counting")
                 /\ tally' = [tally EXCEPT ![c] = [seen |-> seen, count |-> count]]
                 /\ UNCHANGED <<req, mine>>
  OBVIOUS
<1> DEFINE count == tally[c].count + Cardinality(listed_active(t))
           seen == tally[c].seen \union {t}
<1>2. Cardinality(listed_active(t)) \in Nat
  BY RowsFinite DEF RunsInv
<1>3. count \in Nat /\ seen \in SUBSET Tasks
  BY <1>2 DEF RunsInv, TypeOK
<1>4. CASE over_workspace_limit(count)
  BY <1>1, <1>4, LeavesEarly DEF Executing
<1>5. CASE ~over_workspace_limit(count)
  <2> HIDE DEF count, seen
  <2>1. /\ Goto(c, IF seen = Tasks THEN "creating" ELSE "counting")
        /\ tally' = [tally EXCEPT ![c] = [seen |-> seen, count |-> count]]
        /\ UNCHANGED <<req, mine>>
    BY <1>1, <1>5 DEF count, seen
  <2> USE <2>1 DEF Goto
  <2>2. TypeOK'
    BY <1>3 DEF RunsInv, TypeOK, Label
  <2>3. CompletedHasOutput' /\ ActiveIsOwned' /\ ReplaysAreFinished'
    BY DEF RunsInv, CompletedHasOutput, ActiveIsOwned, ReplaysAreFinished
  <2>4. \A d \in Callers : CallerInv(d)'
    BY DEF RunsInv, TypeOK, CallerInv, Released, Executing
  <2>5. QED
    BY <2>2, <2>3, <2>4 DEF RunsInv
<1>6. QED
  BY <1>4, <1>5

LEMMA CreateKeeps ==
  ASSUME RunsInv, NEW c \in Callers, Create(c), UNCHANGED limit
  PROVE  RunsInv'
<1> DEFINE row == [task |-> req[c].task, key |-> req[c].key, status |-> "running"]
           new == Len(runs) + 1
<1> USE DEF Create, outside, bounds
<1>1. row \in Run
  BY DEF RunsInv, CallerInv, Run
<1>2. /\ runs' \in Seq(Run) /\ new \in Nat /\ DOMAIN runs' = DOMAIN runs \union {new}
      /\ new \notin DOMAIN runs /\ new # 0
      /\ runs'[new] = row /\ \A q \in DOMAIN runs : runs'[q] = runs[q]
  BY <1>1, Added DEF RunsInv
<1>3. row.task = req[c].task /\ row.key = req[c].key /\ row.status = "running"
  OBVIOUS
<1> HIDE DEF row, new
<1>4. CASE /\ Goto(c, "calling") /\ mine' = [mine EXCEPT ![c] = new]
           /\ tally' = [tally EXCEPT ![c] = NoTally] /\ UNCHANGED <<req, abandoned, faults>>
  <2> USE <1>2, <1>3, <1>4 DEF Goto
  <2>1. TypeOK'
    BY DEF RunsInv, TypeOK, Label, NoTally
  <2>2. \A d \in Callers : d # c => mine'[d] = mine[d]
    BY DEF RunsInv, TypeOK
  <2>3. mine'[c] = new /\ mine[c] = 0
    BY DEF RunsInv, TypeOK, CallerInv, Executing
  <2>4. CompletedHasOutput' /\ ActiveIsOwned'
    <3>1. \A r \in DOMAIN runs : (\E d \in Callers : mine[d] = r) => \E d \in Callers : mine'[d] = r
      BY <2>2, <2>3
    <3>2. CompletedHasOutput'
      BY <3>1 DEF RunsInv, CompletedHasOutput
    <3>3. ActiveIsOwned'
      BY <2>3, <3>1 DEF RunsInv, ActiveIsOwned
    <3>4. QED
      BY <3>2, <3>3
  <2>5. ReplaysAreFinished'
    BY DEF RunsInv, TypeOK, ReplaysAreFinished
  <2>6. \A d \in Callers : CallerInv(d)'
    BY <2>2, <2>3 DEF RunsInv, TypeOK, CallerInv, Released, Executing
  <2>7. QED
    BY <2>1, <2>4, <2>5, <2>6 DEF RunsInv
<1>5. CASE faults' = faults + 1 /\ abandoned' = abandoned \union {new} /\ Leave(c)
  <2> USE <1>2, <1>3, <1>5 DEF Leave, Goto
  <2>1. TypeOK'
    BY DEF RunsInv, TypeOK, Label, NoTally
  <2>2. mine' = mine
    BY DEF RunsInv, TypeOK, CallerInv, Executing
  <2>3. CompletedHasOutput' /\ ActiveIsOwned'
    <3>1. CompletedHasOutput'
      BY <2>2 DEF RunsInv, CompletedHasOutput
    <3>2. ActiveIsOwned'
      BY <2>2 DEF RunsInv, ActiveIsOwned
    <3>3. QED
      BY <3>1, <3>2
  <2>4. ReplaysAreFinished'
    BY DEF RunsInv, TypeOK, ReplaysAreFinished
  <2>5. \A d \in Callers : CallerInv(d)'
    BY <2>2 DEF RunsInv, TypeOK, CallerInv, Released, Executing
  <2>6. QED
    BY <2>1, <2>3, <2>4, <2>5 DEF RunsInv
<1>6. QED
  BY <1>4, <1>5 DEF row, new

-----------------------------------------------------------------------------
(* A caller with a row *)

LEMMA CallKeeps ==
  ASSUME RunsInv, NEW c \in Callers, Call(c), UNCHANGED limit
  PROVE  RunsInv'
<1> USE DEF Call, Goto, outside, bounds
<1>1. TypeOK'
  BY DEF RunsInv, TypeOK, Label
<1>2. CompletedHasOutput' /\ ActiveIsOwned' /\ ReplaysAreFinished'
  BY DEF RunsInv, CompletedHasOutput, ActiveIsOwned, ReplaysAreFinished
<1>3. \A d \in Callers : CallerInv(d)'
  BY DEF RunsInv, TypeOK, CallerInv, Released, Executing
<1>4. QED
  BY <1>1, <1>2, <1>3 DEF RunsInv

LEMMA CompleteKeeps ==
  ASSUME RunsInv, NEW c \in Callers, Complete(c), UNCHANGED limit
  PROVE  RunsInv'
<1> USE DEF Complete, Goto, outside, bounds
<1>1. mine[c] \in DOMAIN runs
  BY DEF RunsInv, CallerInv, Executing
<1>2. /\ runs' \in Seq(Run) /\ DOMAIN runs' = DOMAIN runs /\ old' \subseteq DOMAIN runs
      /\ \A q \in DOMAIN runs :
           /\ runs'[q].task = runs[q].task /\ runs'[q].key = runs[q].key
           /\ runs'[q].status = IF q = mine[c] THEN "completed" ELSE runs[q].status
  BY <1>1, Updated DEF RunsInv
<1>3. TypeOK'
  BY <1>2 DEF RunsInv, TypeOK, Label
<1>4. CompletedHasOutput'
  BY <1>2 DEF RunsInv, CompletedHasOutput
<1>5. ActiveIsOwned'
  BY <1>2 DEF RunsInv, ActiveIsOwned, Active
<1>6. ReplaysAreFinished'
  BY <1>2 DEF RunsInv, TypeOK, ReplaysAreFinished
<1>7. ASSUME NEW d \in Callers
      PROVE  CallerInv(d)'
  <2>1. \A r \in DOMAIN runs : Released(r) => Released(r)'
    BY <1>2 DEF Released, Active
  <2>2. CASE d = c
    BY <1>1, <1>2, <2>2 DEF RunsInv, TypeOK, CallerInv, Released, Executing, Active
  <2>3. CASE d # c
    BY <1>2, <2>1, <2>3 DEF RunsInv, TypeOK, CallerInv, Executing
  <2>4. QED
    BY <2>2, <2>3
<1>8. QED
  BY <1>3, <1>4, <1>5, <1>6, <1>7 DEF RunsInv

\* A caller leaves a row that is finished, released or abandoned as it stands.
LEMMA LeavesRow ==
  ASSUME RunsInv, NEW c \in Callers, Leave(c), mine[c] \in DOMAIN runs,
         output \subseteq output', output' \subseteq DOMAIN runs,
         abandoned \subseteq abandoned', abandoned' \subseteq DOMAIN runs,
         mine[c] \in abandoned' \/ (mine[c] \in output' /\ Released(mine[c])),
         UNCHANGED <<limit, runs, old, outside>>, crashes' \in Nat, faults' \in Nat
  PROVE  /\ CompletedHasOutput' /\ ActiveIsOwned'
         /\ \A d \in Callers : CallerInv(d)'
         /\ replay' \in [Tasks \X Keys -> {0} \union DOMAIN runs]
              /\ answered' \subseteq DOMAIN runs => TypeOK'
<1> USE DEF Leave, Goto, outside
<1>1. \A d \in Callers : d # c => mine'[d] = mine[d] /\ pc'[d] = pc[d] /\ req'[d] = req[d]
  BY DEF RunsInv, TypeOK
<1>2. mine'[c] = 0 /\ pc'[c] = "idle"
  BY DEF RunsInv, TypeOK
<1>3. \A r \in DOMAIN runs : (\E d \in Callers : mine[d] = r) =>
        r = mine[c] \/ \E d \in Callers : mine'[d] = r
  BY <1>1
<1>4. CompletedHasOutput'
  BY <1>3 DEF RunsInv, CompletedHasOutput
<1>5. ActiveIsOwned'
  BY <1>3 DEF RunsInv, ActiveIsOwned, Released
<1>6. \A d \in Callers : CallerInv(d)'
  BY <1>1, <1>2 DEF RunsInv, CallerInv, Released, Executing
<1>7. ASSUME replay' \in [Tasks \X Keys -> {0} \union DOMAIN runs], answered' \subseteq DOMAIN runs
      PROVE  TypeOK'
  BY <1>7 DEF RunsInv, TypeOK, Label, NoTally
<1>8. QED
  BY <1>4, <1>5, <1>6, <1>7

LEMMA StoreOutputKeeps ==
  ASSUME RunsInv, NEW c \in Callers, StoreOutput(c), UNCHANGED limit
  PROVE  RunsInv'
<1> USE DEF StoreOutput, outside, bounds
<1>1. mine[c] \in DOMAIN runs /\ Released(mine[c])
  BY DEF RunsInv, CallerInv, Executing
<1>2. output \subseteq output' /\ output' \subseteq DOMAIN runs /\ mine[c] \in output'
  BY <1>1 DEF RunsInv, TypeOK
<1>3. ReplaysAreFinished'
  BY <1>2 DEF RunsInv, ReplaysAreFinished
<1>4. CASE Leave(c)
  <2>1. abandoned' \subseteq DOMAIN runs /\ crashes' \in Nat /\ faults' \in Nat
    BY DEF RunsInv, TypeOK
  <2>2. replay' \in [Tasks \X Keys -> {0} \union DOMAIN runs] /\ answered' \subseteq DOMAIN runs
    BY DEF RunsInv, TypeOK
  <2>3. QED
    BY <1>1, <1>2, <1>3, <1>4, <2>1, <2>2, LeavesRow DEF RunsInv
<1>5. CASE Goto(c, "persisting") /\ UNCHANGED <<req, mine, tally>>
  <2> USE <1>5 DEF Goto
  <2>1. TypeOK'
    BY <1>2 DEF RunsInv, TypeOK, Label
  <2>2. CompletedHasOutput'
    BY <1>2 DEF RunsInv, CompletedHasOutput
  <2>3. ActiveIsOwned'
    BY DEF RunsInv, ActiveIsOwned
  <2>4. \A d \in Callers : CallerInv(d)'
    BY <1>1, <1>2 DEF RunsInv, TypeOK, CallerInv, Released, Executing
  <2>5. QED
    BY <1>3, <2>1, <2>2, <2>3, <2>4 DEF RunsInv
<1>6. QED
  BY <1>4, <1>5

LEMMA PersistKeeps ==
  ASSUME RunsInv, NEW c \in Callers, Persist(c), UNCHANGED limit
  PROVE  RunsInv'
<1> USE DEF Persist, outside, bounds
<1>1. /\ mine[c] \in DOMAIN runs /\ Released(mine[c]) /\ mine[c] \in output
      /\ runs[mine[c]].task = req[c].task /\ req[c].task \in Tasks /\ req[c].key \in Keys
  BY DEF RunsInv, CallerInv, Executing
<1> DEFINE at == <<req[c].task, req[c].key>>
<1>2. /\ replay \in [Tasks \X Keys -> {0} \union DOMAIN runs]
      /\ at \in Tasks \X Keys /\ replay' = [replay EXCEPT ![at] = mine[c]]
  BY <1>1 DEF RunsInv, TypeOK
<1>3. /\ replay' \in [Tasks \X Keys -> {0} \union DOMAIN runs]
      /\ \A t \in Tasks, k \in Keys :
           replay'[<<t, k>>] = IF <<t, k>> = at THEN mine[c] ELSE replay[<<t, k>>]
  BY <1>1, <1>2
<1>4. ReplaysAreFinished'
  <2>1. SUFFICES ASSUME NEW t \in Tasks, NEW k \in Keys, replay'[<<t, k>>] # 0
                 PROVE  replay'[<<t, k>>] \in output /\ runs[replay'[<<t, k>>]].task = t
    BY DEF ReplaysAreFinished
  <2>2. CASE <<t, k>> = at
    BY <1>1, <1>3, <2>2
  <2>3. CASE <<t, k>> # at
    BY <1>3, <2>1, <2>3 DEF RunsInv, ReplaysAreFinished
  <2>4. QED
    BY <2>2, <2>3
<1>5. /\ abandoned' \subseteq DOMAIN runs /\ output' \subseteq DOMAIN runs
      /\ answered' \subseteq DOMAIN runs /\ crashes' \in Nat /\ faults' \in Nat
  BY <1>1 DEF RunsInv, TypeOK
<1>6. QED
  BY <1>1, <1>3, <1>4, <1>5, LeavesRow DEF RunsInv

LEMMA FailKeeps ==
  ASSUME RunsInv, NEW c \in Callers, Fail(c), UNCHANGED limit
  PROVE  RunsInv'
<1> USE DEF Fail, Leave, Goto, outside, bounds
<1>1. mine[c] \in DOMAIN runs
  BY DEF RunsInv, CallerInv, Executing
<1>2. /\ runs' \in Seq(Run) /\ DOMAIN runs' = DOMAIN runs /\ old' \subseteq DOMAIN runs
      /\ \A q \in DOMAIN runs :
           /\ runs'[q].task = runs[q].task /\ runs'[q].key = runs[q].key
           /\ runs'[q].status = IF q = mine[c] THEN "failed" ELSE runs[q].status
  BY <1>1, Updated DEF RunsInv
<1>3. TypeOK'
  BY <1>2 DEF RunsInv, TypeOK, Label, NoTally
<1>4. \A d \in Callers : d # c => mine'[d] = mine[d] /\ pc'[d] = pc[d] /\ req'[d] = req[d]
  BY DEF RunsInv, TypeOK
<1>5. mine'[c] = 0 /\ pc'[c] = "idle"
  BY DEF RunsInv, TypeOK
<1>6. \A r \in DOMAIN runs : (\E d \in Callers : mine[d] = r) =>
        r = mine[c] \/ \E d \in Callers : mine'[d] = r
  BY <1>4
<1>7. CompletedHasOutput'
  BY <1>2, <1>6 DEF RunsInv, CompletedHasOutput
<1>8. ActiveIsOwned'
  BY <1>2, <1>6 DEF RunsInv, ActiveIsOwned, Active
<1>9. ReplaysAreFinished'
  BY <1>2 DEF RunsInv, TypeOK, ReplaysAreFinished
<1>10. \A d \in Callers : CallerInv(d)'
  BY <1>2, <1>4, <1>5 DEF RunsInv, CallerInv, Released, Executing, Active
<1>11. QED
  BY <1>3, <1>7, <1>8, <1>9, <1>10 DEF RunsInv

\* A row that is left to its fate is abandoned.
LEMMA Abandoned ==
  ASSUME RunsInv, NEW c \in Callers, Leave(c), pc[c] \in Executing,
         abandoned' = abandoned \union {mine[c]},
         UNCHANGED <<limit, runs, output, replay, answered, old, outside>>,
         crashes' \in Nat, faults' \in Nat
  PROVE  RunsInv'
<1>1. mine[c] \in DOMAIN runs
  BY DEF RunsInv, CallerInv
<1>2. output \subseteq DOMAIN runs /\ abandoned' \subseteq DOMAIN runs /\ answered' \subseteq DOMAIN runs
        /\ replay' \in [Tasks \X Keys -> {0} \union DOMAIN runs]
  BY <1>1 DEF RunsInv, TypeOK
<1>3. ReplaysAreFinished'
  BY DEF RunsInv, ReplaysAreFinished
<1>4. output \subseteq output' /\ abandoned \subseteq abandoned' /\ mine[c] \in abandoned'
  OBVIOUS
<1>5. QED
  BY <1>1, <1>2, <1>3, <1>4, LeavesRow DEF RunsInv

LEMMA StoreRaisesKeeps ==
  ASSUME RunsInv, NEW c \in Callers, StoreRaises(c), UNCHANGED limit
  PROVE  RunsInv'
<1> USE DEF StoreRaises, outside, bounds
<1>1. crashes' \in Nat /\ faults' \in Nat
  BY DEF RunsInv, TypeOK
<1>2. CASE pc[c] = "failing"
  BY <1>1, <1>2, Abandoned DEF Executing
<1>3. CASE pc[c] # "failing"
  <2> USE <1>3 DEF Goto
  <2>1. TypeOK'
    BY <1>1 DEF RunsInv, TypeOK, Label
  <2>2. CompletedHasOutput' /\ ActiveIsOwned' /\ ReplaysAreFinished'
    BY DEF RunsInv, CompletedHasOutput, ActiveIsOwned, ReplaysAreFinished
  <2>3. \A d \in Callers : CallerInv(d)'
    BY DEF RunsInv, TypeOK, CallerInv, Released, Executing
  <2>4. QED
    BY <2>1, <2>2, <2>3 DEF RunsInv
<1>4. QED
  BY <1>2, <1>3

LEMMA DieKeeps ==
  ASSUME RunsInv, NEW c \in Callers, Die(c), UNCHANGED limit
  PROVE  RunsInv'
<1> USE DEF Die, outside
<1>1. crashes' \in Nat /\ faults' \in Nat
  BY DEF RunsInv, TypeOK
<1>2. CASE pc[c] \in Executing
  <2>1. mine[c] # 0
    BY <1>2 DEF RunsInv, CallerInv, TypeOK
  <2>2. abandoned' = abandoned \union {mine[c]}
    BY <2>1
  <2>3. QED
    BY <1>1, <1>2, <2>2, Abandoned
<1>3. CASE pc[c] \notin Executing
  <2> USE <1>3 DEF Leave, Goto
  <2>1. mine' = mine /\ abandoned' = abandoned
    BY DEF RunsInv, TypeOK, CallerInv
  <2>2. TypeOK'
    BY <1>1, <2>1 DEF RunsInv, TypeOK, Label, NoTally
  <2>3. CompletedHasOutput' /\ ActiveIsOwned' /\ ReplaysAreFinished'
    BY <2>1 DEF RunsInv, CompletedHasOutput, ActiveIsOwned, ReplaysAreFinished
  <2>4. \A d \in Callers : CallerInv(d)'
    BY <2>1 DEF RunsInv, TypeOK, CallerInv, Released, Executing
  <2>5. QED
    BY <2>2, <2>3, <2>4 DEF RunsInv
<1>4. QED
  BY <1>2, <1>3

-----------------------------------------------------------------------------
(* The operators, and the clock *)

LEMMA DecidedKeeps ==
  ASSUME RunsInv, NEW kind \in {"cancel", "resume", "reconcile"}, NEW R \in SUBSET DOMAIN runs,
         Decided(kind, R), UNCHANGED limit
  PROVE  RunsInv'
<1> USE DEF Decided, bounds
<1>1. TypeOK'
  BY DEF RunsInv, TypeOK
<1>2. CompletedHasOutput' /\ ActiveIsOwned' /\ ReplaysAreFinished'
  BY DEF RunsInv, CompletedHasOutput, ActiveIsOwned, ReplaysAreFinished
<1>3. \A d \in Callers : CallerInv(d)'
  BY DEF RunsInv, CallerInv, Released
<1>4. QED
  BY <1>1, <1>2, <1>3 DEF RunsInv

LEMMA AgeKeeps ==
  ASSUME RunsInv, Age, UNCHANGED limit
  PROVE  RunsInv'
<1> USE DEF Age, outside, bounds
<1>1. TypeOK'
  BY DEF RunsInv, TypeOK
<1>2. CompletedHasOutput' /\ ActiveIsOwned' /\ ReplaysAreFinished'
  BY DEF RunsInv, CompletedHasOutput, ActiveIsOwned, ReplaysAreFinished
<1>3. \A d \in Callers : CallerInv(d)'
  BY DEF RunsInv, CallerInv, Released
<1>4. QED
  BY <1>1, <1>2, <1>3 DEF RunsInv

\* What an operator writes never completes a run, and makes one active only by resuming it.
LEMMA OperatorWritesKeeps ==
  ASSUME RunsInv, OperatorWrites, UNCHANGED limit
  PROVE  RunsInv'
<1> USE DEF bounds
<1>1. PICK p \in pending :
        /\ Update(p[2], status_written(p[1]))
        /\ resumed' = [resumed EXCEPT ![runs[p[2]].task] = @ + (IF p[1] = "resume" THEN 1 ELSE 0)]
        /\ pending' = pending \ {p}
  BY DEF OperatorWrites
<1> DEFINE r == p[2]
           s == status_written(p[1])
<1>2. r \in DOMAIN runs /\ p[1] \in {"cancel", "resume", "reconcile"}
  BY DEF RunsInv, TypeOK
<1>3. s \in {"queued", "blocked"} /\ (s = "queued" => p[1] = "resume")
  BY <1>2 DEF status_written
<1>4. runs[r].task \in Tasks
  BY <1>2, RowTasks DEF RunsInv
<1>5. resumed \in [Tasks -> Nat]
  BY DEF RunsInv, TypeOK
<1> HIDE DEF s, r
<1>6. /\ resumed' \in [Tasks -> Nat]
      /\ \A t \in Tasks : resumed[t] # 0 => resumed'[t] # 0
      /\ s = "queued" => resumed'[runs[r].task] # 0
  BY <1>1, <1>3, <1>4, <1>5 DEF r
<1>7. /\ runs' \in Seq(Run) /\ DOMAIN runs' = DOMAIN runs /\ old' \subseteq DOMAIN runs
      /\ \A q \in DOMAIN runs :
           /\ runs'[q].task = runs[q].task /\ runs'[q].key = runs[q].key
           /\ runs'[q].status = IF q = r THEN s ELSE runs[q].status
  BY <1>1, <1>2, <1>3, Updated DEF RunsInv, r, s
<1>8. UNCHANGED <<limit, output, replay, answered, pc, req, mine, tally, abandoned, operations,
                  crashes, faults>>
  BY DEF OperatorWrites
<1>9. TypeOK'
  BY <1>1, <1>6, <1>7, <1>8 DEF RunsInv, TypeOK
<1>10. \A q \in DOMAIN runs : runs[q].task \in Tasks
  BY RowTasks DEF RunsInv
<1>11. \A q \in DOMAIN runs : Released(q) => Released(q)'
  BY <1>3, <1>6, <1>7, <1>10 DEF Released, Active
<1>12. CompletedHasOutput'
  BY <1>3, <1>7, <1>8 DEF RunsInv, CompletedHasOutput
<1>13. ActiveIsOwned'
  <2>1. SUFFICES ASSUME NEW q \in DOMAIN runs, runs'[q].status \in Active,
                        resumed'[runs'[q].task] = 0, q \notin abandoned
                 PROVE  \E d \in Callers : mine[d] = q
    BY <1>7, <1>8 DEF ActiveIsOwned
  <2>2. q # r
    BY <1>3, <1>6, <1>7, <2>1 DEF Active
  <2>3. resumed[runs[q].task] = 0
    BY <1>6, <1>7, <1>10, <2>1
  <2>4. QED
    BY <1>7, <2>1, <2>2, <2>3 DEF RunsInv, ActiveIsOwned
<1>14. ReplaysAreFinished'
  BY <1>7, <1>8 DEF RunsInv, TypeOK, ReplaysAreFinished
<1>15. \A d \in Callers : CallerInv(d)'
  BY <1>7, <1>8, <1>11 DEF RunsInv, CallerInv, Executing
<1>16. QED
  BY <1>9, <1>12, <1>13, <1>14, <1>15 DEF RunsInv

-----------------------------------------------------------------------------
(* The theorems *)

LEMMA RunsNext == RunsInv /\ [Next]_vars => RunsInv'
<1>1. SUFFICES ASSUME RunsInv, [Next]_vars
               PROVE  RunsInv'
  OBVIOUS
<1>2. CASE UNCHANGED vars
  BY <1>1, <1>2
  DEF vars, RunsInv, TypeOK, CompletedHasOutput, ActiveIsOwned, ReplaysAreFinished, CallerInv, Released,
      outside, bounds
<1>3. ASSUME NEW c \in Callers, Step(c), UNCHANGED limit
      PROVE  RunsInv'
  BY <1>1, <1>3, LookupKeeps, CheckTaskKeeps, CountTaskKeeps, CreateKeeps, CallKeeps, CompleteKeeps,
     StoreOutputKeeps, PersistKeeps, FailKeeps, StoreRaisesKeeps, DieKeeps DEF Step
<1>4. CASE cancel_run /\ UNCHANGED limit
  BY <1>1, <1>4, DecidedKeeps DEF cancel_run
<1>5. CASE resume_run /\ UNCHANGED limit
  BY <1>1, <1>5, DecidedKeeps DEF resume_run
<1>6. CASE reconcile_stale_runs /\ UNCHANGED limit
  <2>1. stale \in SUBSET DOMAIN runs
    BY <1>1 DEF stale, RunsInv, TypeOK
  <2>2. QED
    BY <1>1, <1>6, <2>1, DecidedKeeps DEF reconcile_stale_runs
<1>7. QED
  BY <1>1, <1>2, <1>3, <1>4, <1>5, <1>6, OperatorWritesKeeps, AgeKeeps DEF Next

LEMMA RunsAlways == Spec => []RunsInv
BY RunsInit, RunsNext, PTL DEF Spec

\* Every variable of the runs keeps its type, whatever is written and fails.
THEOREM RunsTypeCorrect == Spec => []TypeOK
<1>1. RunsInv => TypeOK
  BY DEF RunsInv
<1>2. QED
  BY <1>1, RunsAlways, PTL

\* A run that is left completed has its output stored (execute).
THEOREM CompletedRunsHaveOutput == Spec => []CompletedHasOutput
<1>1. RunsInv => CompletedHasOutput
  BY DEF RunsInv
<1>2. QED
  BY <1>1, RunsAlways, PTL

\* No slot leaks: an active run has a caller, or was abandoned, or resumed by an operator.
THEOREM NoSlotLeaks == Spec => []ActiveIsOwned
<1>1. RunsInv => ActiveIsOwned
  BY DEF RunsInv
<1>2. QED
  BY <1>1, RunsAlways, PTL

\* A replayed response is that of a run of its task whose output is stored
\* (_maybe_get_idempotent_response).
THEOREM OnlyFinishedRunsAreReplayed == Spec => []ReplaysAreFinished
<1>1. RunsInv => ReplaysAreFinished
  BY DEF RunsInv
<1>2. QED
  BY <1>1, RunsAlways, PTL

-----------------------------------------------------------------------------
(* How far racing callers overshoot the limit of runs per task, and how    *)
(* often they execute one key.                                             *)

\* Callers past the check of the task's limit that have no row yet.
Past(t) == {c \in Callers : pc[c] \in {"counting", "creating"} /\ req[c].task = t}

\* Active runs and those about to become active, together.
SlackInv ==
  \A t \in Tasks :
    Cardinality(RowsOf(t)) <= ListLimit =>
      Cardinality(ActiveOf(t)) + Cardinality(Past(t)) < limit.task + Cardinality(Callers) + resumed[t]

\* Callers past the lookup of a key.
Pursuing(t, k) == {c \in Callers : pc[c] # "idle" /\ req[c].task = t /\ req[c].key = k}

KeyInv ==
  \A t \in Tasks, k \in Keys :
    /\ replay[<<t, k>>] = 0 => AnsweredFor(t, k) = {}
    /\ Cardinality(AnsweredFor(t, k)) + Cardinality(Pursuing(t, k)) <= Cardinality(Callers)

-----------------------------------------------------------------------------
(* Counting *)

LEMMA SubsetCount ==
  ASSUME NEW S, NEW T, IsFiniteSet(S), T \subseteq S
  PROVE  /\ IsFiniteSet(T) /\ Cardinality(S) \in Nat /\ Cardinality(T) \in Nat
         /\ Cardinality(T) <= Cardinality(S)
<1>1. IsFiniteSet(T) /\ Cardinality(T) <= Cardinality(S)
  BY FS_Subset
<1>2. QED
  BY <1>1, FS_CardinalityType

LEMMA OneMore ==
  ASSUME NEW S, NEW T, NEW x, IsFiniteSet(S), T \subseteq S \union {x}
  PROVE  /\ IsFiniteSet(T) /\ Cardinality(S) \in Nat /\ Cardinality(T) \in Nat
         /\ Cardinality(T) <= Cardinality(S) + 1
<1>1. IsFiniteSet(S \union {x}) /\ Cardinality(S \union {x}) <= Cardinality(S) + 1 /\ Cardinality(S) \in Nat
  BY FS_AddElement, FS_CardinalityType
<1>2. IsFiniteSet(T) /\ Cardinality(T) \in Nat /\ Cardinality(T) <= Cardinality(S \union {x})
        /\ Cardinality(S \union {x}) \in Nat
  BY <1>1, SubsetCount
<1>3. QED
  BY <1>1, <1>2

LEMMA OneLess ==
  ASSUME NEW S, NEW T, NEW x \in S, IsFiniteSet(S), T \subseteq S \ {x}
  PROVE  /\ IsFiniteSet(T) /\ Cardinality(S) \in Nat /\ Cardinality(T) \in Nat
         /\ Cardinality(T) + 1 <= Cardinality(S)
<1>1. IsFiniteSet(S \ {x}) /\ Cardinality(S \ {x}) = Cardinality(S) - 1 /\ Cardinality(S) \in Nat
  BY FS_RemoveElement, FS_CardinalityType
<1>2. IsFiniteSet(T) /\ Cardinality(T) \in Nat /\ Cardinality(T) <= Cardinality(S \ {x})
  BY <1>1, SubsetCount
<1>3. QED
  BY <1>1, <1>2

LEMMA CallersFinite ==
  ASSUME NEW t, NEW k
  PROVE  /\ IsFiniteSet(Callers) /\ Cardinality(Callers) \in Nat
         /\ IsFiniteSet(Past(t)) /\ Cardinality(Past(t)) \in Nat
         /\ Cardinality(Past(t)) <= Cardinality(Callers)
         /\ IsFiniteSet(Pursuing(t, k)) /\ Cardinality(Pursuing(t, k)) \in Nat
         /\ Cardinality(Pursuing(t, k)) <= Cardinality(Callers)
<1>1. Past(t) \subseteq Callers /\ Pursuing(t, k) \subseteq Callers
  BY DEF Past, Pursuing
<1>2. QED
  BY <1>1, SubsetCount, RunsAssumption

LEMMA LimitType == TypeOK => limit.task \in Nat \ {0} /\ resumed \in [Tasks -> Nat]
BY RunsAssumption DEF TypeOK

\* A task whose rows fit the list has all its active runs counted.
LEMMA ListedAll ==
  ASSUME TypeOK, NEW t, Cardinality(RowsOf(t)) <= ListLimit
  PROVE  listed_active(t) = ActiveOf(t)
<1>1. IsFiniteSet(RowsOf(t)) /\ ListLimit \in Nat
  BY RowsFinite, RunsAssumption
<1>2. ASSUME NEW r \in ActiveOf(t)
      PROVE  Cardinality({q \in RowsOf(t) : q <= r}) <= ListLimit
  <2>1. {q \in RowsOf(t) : q <= r} \subseteq RowsOf(t)
    OBVIOUS
  <2>2. QED
    BY <1>1, <2>1, SubsetCount
<1>3. QED
  BY <1>2 DEF listed_active

-----------------------------------------------------------------------------
(* The limit per task *)

\* A step after which there are no more active runs and callers on their way than before.
LEMMA Settled ==
  ASSUME SlackInv, RunsInv, RunsInv', UNCHANGED <<limit, resumed>>,
         \A t \in Tasks : RowsOf(t)' = RowsOf(t) /\ ActiveOf(t)' \subseteq ActiveOf(t)
                            /\ Past(t)' \subseteq Past(t)
  PROVE  SlackInv'
<1>1. SUFFICES ASSUME NEW t \in Tasks, Cardinality(RowsOf(t)') <= ListLimit
               PROVE  Cardinality(ActiveOf(t)') + Cardinality(Past(t)')
                        < limit.task + Cardinality(Callers) + resumed[t]
  BY DEF SlackInv
<1>2. /\ Cardinality(ActiveOf(t)) \in Nat /\ Cardinality(ActiveOf(t)') \in Nat
      /\ Cardinality(ActiveOf(t)') <= Cardinality(ActiveOf(t))
  BY SubsetCount, RowsFinite DEF RunsInv
<1>3. /\ Cardinality(Past(t)) \in Nat /\ Cardinality(Past(t)') \in Nat
      /\ Cardinality(Past(t)') <= Cardinality(Past(t)) /\ Cardinality(Callers) \in Nat
  BY SubsetCount, CallersFinite
<1>4. Cardinality(ActiveOf(t)) + Cardinality(Past(t)) < limit.task + Cardinality(Callers) + resumed[t]
  BY <1>1 DEF SlackInv
<1>5. limit.task \in Nat /\ resumed[t] \in Nat
  BY LimitType DEF RunsInv
<1>6. QED
  BY <1>2, <1>3, <1>4, <1>5

LEMMA SlackInit == Init => SlackInv
<1>1. SUFFICES ASSUME Init, NEW t \in Tasks
               PROVE  Cardinality(ActiveOf(t)) + Cardinality(Past(t))
                        < limit.task + Cardinality(Callers) + resumed[t]
  BY DEF SlackInv
<1>2. ActiveOf(t) = {} /\ Past(t) = {}
  BY <1>1 DEF Init, ActiveOf, RowsOf, Past
<1>3. limit.task \in Nat \ {0} /\ resumed[t] \in Nat /\ Cardinality(Callers) \in Nat
  BY <1>1, LimitType, RunsInit, CallersFinite DEF RunsInv
<1>4. QED
  BY <1>2, <1>3, FS_EmptySet

\* A caller that passes the check was counted out with fewer active runs than the limit.
LEMMA CheckTaskSlack ==
  ASSUME SlackInv, RunsInv, RunsInv', NEW c \in Callers, CheckTask(c), UNCHANGED limit
  PROVE  SlackInv'
<1> USE DEF CheckTask, outside, bounds
<1>1. \A t \in Tasks : RowsOf(t)' = RowsOf(t) /\ ActiveOf(t)' = ActiveOf(t)
  BY DEF RowsOf, ActiveOf
<1>2. CASE over_task_limit(req[c].task)
  <2>1. \A t \in Tasks : Past(t)' \subseteq Past(t)
    BY <1>2 DEF Past, Leave, Goto, RunsInv, TypeOK
  <2>2. QED
    BY <1>1, <2>1, Settled
<1>3. CASE ~over_task_limit(req[c].task)
  <2>1. SUFFICES ASSUME NEW t \in Tasks, Cardinality(RowsOf(t)) <= ListLimit
                 PROVE  Cardinality(ActiveOf(t)) + Cardinality(Past(t)')
                          < limit.task + Cardinality(Callers) + resumed[t]
    BY <1>1 DEF SlackInv
  <2>2. Cardinality(ActiveOf(t)) \in Nat /\ limit.task \in Nat /\ resumed[t] \in Nat
    BY RowsFinite, LimitType DEF RunsInv
  <2>3. /\ Cardinality(Callers) \in Nat /\ Cardinality(Past(t)') \in Nat /\ Cardinality(Past(t)) \in Nat
        /\ Cardinality(Past(t)') <= Cardinality(Callers)
    <3>1. Past(t)' \subseteq Callers
      BY DEF Past
    <3>2. QED
      BY <3>1, CallersFinite, SubsetCount
  <2>4. CASE t = req[c].task
    <3>1. Cardinality(ActiveOf(t)) < limit.task
      BY <1>3, <2>1, <2>2, <2>4, ListedAll DEF over_task_limit, RunsInv
    <3>2. QED
      BY <2>2, <2>3, <3>1
  <2>5. CASE t # req[c].task
    <3>1. Past(t)' = Past(t)
      BY <1>3, <2>5 DEF Past, Goto, RunsInv, TypeOK
    <3>2. QED
      BY <2>1, <3>1 DEF SlackInv
  <2>6. QED
    BY <2>4, <2>5
<1>4. QED
  BY <1>2, <1>3

\* A caller trades its place on the way for an active run.
LEMMA CreateSlack ==
  ASSUME SlackInv, RunsInv, RunsInv', NEW c \in Callers, Create(c), UNCHANGED limit
  PROVE  SlackInv'
<1> DEFINE row == [task |-> req[c].task, key |-> req[c].key, status |-> "running"]
           new == Len(runs) + 1
<1> USE DEF outside
<1>1. row \in Run
  BY DEF Create, RunsInv, CallerInv, Run
<1>2. runs' = Append(runs, row)
  BY DEF Create
<1>3. /\ DOMAIN runs' = DOMAIN runs \union {new} /\ new \notin DOMAIN runs
      /\ runs'[new] = row /\ \A q \in DOMAIN runs : runs'[q] = runs[q]
  BY <1>1, <1>2, Added DEF RunsInv
<1> HIDE DEF row, new
<1>4. row.task = req[c].task
  BY DEF row
<1>5. resumed' = resumed /\ limit' = limit
  BY DEF Create
<1>6. SUFFICES ASSUME NEW t \in Tasks, Cardinality(RowsOf(t)') <= ListLimit
               PROVE  Cardinality(ActiveOf(t)') + Cardinality(Past(t)')
                        < limit.task + Cardinality(Callers) + resumed[t]
  BY <1>5 DEF SlackInv
<1>7. /\ Cardinality(ActiveOf(t)) \in Nat /\ limit.task \in Nat /\ resumed[t] \in Nat
      /\ Cardinality(Past(t)) \in Nat /\ Cardinality(Callers) \in Nat
      /\ IsFiniteSet(ActiveOf(t)) /\ IsFiniteSet(Past(t)) /\ IsFiniteSet(RowsOf(t)')
  <2>1. RowsOf(t)' \subseteq RowsOf(t) \union {new}
    BY <1>3 DEF RowsOf
  <2>2. IsFiniteSet(RowsOf(t)')
    BY <2>1, OneMore, RowsFinite DEF RunsInv
  <2>3. QED
    BY <2>2, RowsFinite, LimitType, CallersFinite DEF RunsInv
<1>8. Cardinality(RowsOf(t)) <= ListLimit
  <2>1. RowsOf(t) \subseteq RowsOf(t)'
    BY <1>3 DEF RowsOf
  <2>2. QED
    BY <1>6, <1>7, <2>1, SubsetCount, RunsAssumption
<1>9. Cardinality(ActiveOf(t)) + Cardinality(Past(t)) < limit.task + Cardinality(Callers) + resumed[t]
  BY <1>8 DEF SlackInv
<1>10. pc'[c] \notin {"counting", "creating"} /\ \A d \in Callers : d # c => pc'[d] = pc[d] /\ req'[d] = req[d]
  <2>1. \/ Goto(c, "calling") /\ UNCHANGED req
        \/ Leave(c)
    BY DEF Create
  <2>2. pc \in [Callers -> Label] /\ DOMAIN req = Callers
    BY DEF RunsInv, TypeOK
  <2>3. QED
    BY <2>1, <2>2 DEF Leave, Goto
<1>11. CASE t = req[c].task
  <2>1. c \in Past(t)
    BY <1>11 DEF Past, Create
  <2>2. Past(t)' \subseteq Past(t) \ {c}
    BY <1>10 DEF Past
  <2>3. ActiveOf(t)' \subseteq ActiveOf(t) \union {new}
    BY <1>3 DEF ActiveOf, RowsOf
  <2>4. Cardinality(Past(t)') \in Nat /\ Cardinality(Past(t)') + 1 <= Cardinality(Past(t))
    BY <1>7, <2>1, <2>2, OneLess
  <2>5. Cardinality(ActiveOf(t)') \in Nat /\ Cardinality(ActiveOf(t)') <= Cardinality(ActiveOf(t)) + 1
    BY <1>7, <2>3, OneMore
  <2>6. QED
    BY <1>7, <1>9, <2>4, <2>5
<1>12. CASE t # req[c].task
  <2>1. Past(t)' \subseteq Past(t)
    BY <1>10 DEF Past
  <2>2. ActiveOf(t)' \subseteq ActiveOf(t)
    BY <1>3, <1>4, <1>12 DEF ActiveOf, RowsOf
  <2>3. Cardinality(Past(t)') \in Nat /\ Cardinality(Past(t)') <= Cardinality(Past(t))
    BY <1>7, <2>1, SubsetCount
  <2>4. Cardinality(ActiveOf(t)') \in Nat /\ Cardinality(ActiveOf(t)') <= Cardinality(ActiveOf(t))
    BY <1>7, <2>2, SubsetCount
  <2>5. QED
    BY <1>7, <1>9, <2>3, <2>4
<1>13. QED
  BY <1>11, <1>12

\* Writing a status that is not active leaves fewer active runs, or as many.
LEMMA UpdatedSlack ==
  ASSUME SlackInv, RunsInv, RunsInv', UNCHANGED <<limit, resumed>>,
         NEW r \in DOMAIN runs, NEW s \in {"blocked", "completed", "failed"}, Update(r, s),
         \A t \in Tasks : Past(t)' \subseteq Past(t)
  PROVE  SlackInv'
<1>1. DOMAIN runs' = DOMAIN runs /\ \A q \in DOMAIN runs :
        runs'[q].task = runs[q].task /\ runs'[q].status = IF q = r THEN s ELSE runs[q].status
  BY Updated DEF RunsInv
<1>2. ASSUME NEW t \in Tasks
      PROVE  RowsOf(t)' = RowsOf(t) /\ ActiveOf(t)' \subseteq ActiveOf(t)
  <2>1. RowsOf(t)' = RowsOf(t)
    BY <1>1 DEF RowsOf
  <2>2. ActiveOf(t)' \subseteq ActiveOf(t)
    BY <1>1, <2>1 DEF ActiveOf, RowsOf, Active
  <2>3. QED
    BY <2>1, <2>2
<1>3. QED
  BY <1>2, Settled

LEMMA CallerSlack ==
  ASSUME SlackInv, RunsInv, RunsInv', NEW c \in Callers, Step(c), UNCHANGED limit
  PROVE  SlackInv'
<1> USE DEF outside, bounds
<1>1. CASE Complete(c) \/ Fail(c)
  <2>1. mine[c] \in DOMAIN runs
    BY <1>1 DEF Complete, Fail, RunsInv, CallerInv, Executing
  <2>2. \A t \in Tasks : Past(t)' \subseteq Past(t)
    BY <1>1 DEF Complete, Fail, Leave, Goto, Past, RunsInv, TypeOK
  <2>3. UNCHANGED resumed /\ (Update(mine[c], "completed") \/ Update(mine[c], "failed"))
    BY <1>1 DEF Complete, Fail
  <2>4. QED
    BY <2>1, <2>2, <2>3, UpdatedSlack
<1>2. CASE Lookup(c) \/ CountTask(c) \/ Call(c) \/ StoreOutput(c) \/ Persist(c) \/ StoreRaises(c) \/ Die(c)
  <2>1. runs' = runs /\ resumed' = resumed
    BY <1>2 DEF Lookup, CountTask, Call, StoreOutput, Persist, StoreRaises, Die
  <2>2. pc'[c] \in {"counting", "creating"} => pc[c] = "counting" /\ req'[c] = req[c]
    BY <1>2 DEF Lookup, CountTask, Call, StoreOutput, Persist, StoreRaises, Die, Leave, Goto, RunsInv, TypeOK
  <2>3. \A d \in Callers : d # c => pc'[d] = pc[d] /\ req'[d] = req[d]
    BY <1>2 DEF Lookup, CountTask, Call, StoreOutput, Persist, StoreRaises, Die, Leave, Goto, RunsInv, TypeOK
  <2>4. \A t \in Tasks : Past(t)' \subseteq Past(t)
    BY <2>2, <2>3 DEF Past
  <2>5. \A t \in Tasks : RowsOf(t)' = RowsOf(t) /\ ActiveOf(t)' \subseteq ActiveOf(t)
    BY <2>1 DEF RowsOf, ActiveOf
  <2>6. QED
    BY <2>1, <2>4, <2>5, Settled
<1>3. QED
  BY <1>1, <1>2, CheckTaskSlack, CreateSlack DEF Step

\* An operator adds an active run only by resuming it, which is counted.
LEMMA OperatorSlack ==
  ASSUME SlackInv, RunsInv, RunsInv', OperatorWrites, UNCHANGED limit
  PROVE  SlackInv'
<1>1. PICK p \in pending :
        /\ Update(p[2], status_written(p[1]))
        /\ resumed' = [resumed EXCEPT ![runs[p[2]].task] = @ + (IF p[1] = "resume" THEN 1 ELSE 0)]
  BY DEF OperatorWrites
<1> DEFINE r == p[2]
<1>2. r \in DOMAIN runs /\ runs[r].task \in Tasks /\ p[1] \in {"cancel", "resume", "reconcile"}
  BY RowTasks DEF RunsInv, TypeOK
<1>3. limit.task \in Nat /\ resumed \in [Tasks -> Nat]
  BY LimitType DEF RunsInv
<1> HIDE DEF r
<1>4. Update(r, status_written(p[1]))
        /\ resumed' = [resumed EXCEPT ![runs[r].task] = @ + (IF p[1] = "resume" THEN 1 ELSE 0)]
  BY <1>1 DEF r
<1>5. \A t \in Tasks : Past(t)' = Past(t)
  BY DEF OperatorWrites, Past
<1>6. CASE p[1] # "resume"
  <2>1. resumed' = resumed
    BY <1>2, <1>3, <1>4, <1>6
  <2>2. QED
    BY <1>2, <1>4, <1>5, <1>6, <2>1, UpdatedSlack DEF status_written
<1>7. CASE p[1] = "resume"
  <2>1. DOMAIN runs' = DOMAIN runs /\ \A q \in DOMAIN runs :
          runs'[q].task = runs[q].task /\ (q # r => runs'[q].status = runs[q].status)
    BY <1>2, <1>4, <1>7, Updated DEF RunsInv, status_written
  <2>2. SUFFICES ASSUME NEW t \in Tasks, Cardinality(RowsOf(t)') <= ListLimit
                 PROVE  Cardinality(ActiveOf(t)') + Cardinality(Past(t))
                          < limit.task + Cardinality(Callers) + resumed'[t]
    BY <1>5 DEF SlackInv
  <2>3. RowsOf(t)' = RowsOf(t)
    BY <2>1 DEF RowsOf
  <2>4. Cardinality(ActiveOf(t)) + Cardinality(Past(t)) < limit.task + Cardinality(Callers) + resumed[t]
    BY <2>2, <2>3 DEF SlackInv
  <2>5. /\ Cardinality(ActiveOf(t)) \in Nat /\ IsFiniteSet(ActiveOf(t)) /\ resumed[t] \in Nat
        /\ Cardinality(Past(t)) \in Nat /\ Cardinality(Callers) \in Nat
    BY <1>3, RowsFinite, CallersFinite DEF RunsInv
  <2>6. CASE t = runs[r].task
    <3>1. resumed'[t] = resumed[t] + 1
      BY <1>2, <1>3, <1>4, <1>7, <2>6
    <3>2. ActiveOf(t)' \subseteq ActiveOf(t) \union {r}
      BY <2>1 DEF ActiveOf, RowsOf
    <3>3. Cardinality(ActiveOf(t)') \in Nat /\ Cardinality(ActiveOf(t)') <= Cardinality(ActiveOf(t)) + 1
      BY <2>5, <3>2, OneMore
    <3>4. QED
      BY <1>3, <2>4, <2>5, <3>1, <3>3
  <2>7. CASE t # runs[r].task
    <3>1. resumed'[t] = resumed[t]
      BY <1>2, <1>3, <1>4, <2>7
    <3>2. ActiveOf(t)' \subseteq ActiveOf(t)
      BY <2>1, <2>7 DEF ActiveOf, RowsOf
    <3>3. Cardinality(ActiveOf(t)') \in Nat /\ Cardinality(ActiveOf(t)') <= Cardinality(ActiveOf(t))
      BY <2>5, <3>2, SubsetCount
    <3>4. QED
      BY <1>3, <2>4, <2>5, <3>1, <3>3
  <2>8. QED
    BY <2>6, <2>7
<1>8. QED
  BY <1>6, <1>7

LEMMA SlackNext == RunsInv /\ SlackInv /\ [Next]_vars => SlackInv'
<1>1. SUFFICES ASSUME RunsInv, SlackInv, [Next]_vars
               PROVE  SlackInv'
  OBVIOUS
<1>2. RunsInv'
  BY <1>1, RunsNext
<1>3. CASE UNCHANGED vars \/ (UNCHANGED limit /\ (cancel_run \/ resume_run \/ reconcile_stale_runs \/ Age))
  <2>1. UNCHANGED <<limit, resumed, runs, pc, req>>
    BY <1>3 DEF vars, cancel_run, resume_run, reconcile_stale_runs, Age, Decided, outside
  <2>2. \A t \in Tasks : RowsOf(t)' = RowsOf(t) /\ ActiveOf(t)' = ActiveOf(t) /\ Past(t)' = Past(t)
    BY <2>1 DEF RowsOf, ActiveOf, Past
  <2>3. QED
    BY <1>1, <1>2, <2>1, <2>2, Settled
<1>4. QED
  BY <1>1, <1>2, <1>3, CallerSlack, OperatorSlack DEF Next

\* Racing callers overshoot the limit per task by less than one run each, and by the runs
\* that operators resumed, while the task has at most ListLimit rows
\* (_enforce_concurrency_limits).
THEOREM TaskLimitOvershoot == Spec => []TaskLimitWithinSlack
<1>1. RunsInv /\ SlackInv => TaskLimitWithinSlack
  <2>1. SUFFICES ASSUME RunsInv, SlackInv, NEW t \in Tasks, Cardinality(RowsOf(t)) <= ListLimit
                 PROVE  Cardinality(ActiveOf(t)) < limit.task + Cardinality(Callers) + resumed[t]
    BY DEF TaskLimitWithinSlack
  <2>2. Cardinality(ActiveOf(t)) + Cardinality(Past(t)) < limit.task + Cardinality(Callers) + resumed[t]
    BY <2>1 DEF SlackInv
  <2>3. /\ Cardinality(ActiveOf(t)) \in Nat /\ Cardinality(Past(t)) \in Nat /\ Cardinality(Callers) \in Nat
        /\ limit.task \in Nat /\ resumed[t] \in Nat
    BY <2>1, RowsFinite, CallersFinite, LimitType DEF RunsInv
  <2>4. QED
    BY <2>2, <2>3
<1>2. QED
  BY <1>1, RunsAlways, SlackInit, SlackNext, PTL DEF Spec

-----------------------------------------------------------------------------
(* The idempotency keys *)

LEMMA AnsweredFinite ==
  ASSUME TypeOK, NEW t, NEW k
  PROVE  IsFiniteSet(AnsweredFor(t, k)) /\ Cardinality(AnsweredFor(t, k)) \in Nat
<1>1. AnsweredFor(t, k) \subseteq DOMAIN runs
  BY DEF AnsweredFor, TypeOK
<1>2. QED
  BY <1>1, RowsFinite, SubsetCount

LEMMA KeyInit == Init => KeyInv
<1>1. SUFFICES ASSUME Init, NEW t \in Tasks, NEW k \in Keys
               PROVE  AnsweredFor(t, k) = {} /\ Pursuing(t, k) = {}
  BY FS_EmptySet, CallersFinite DEF KeyInv
<1>2. QED
  BY <1>1 DEF Init, AnsweredFor, Pursuing

\* A step that answers nothing and after which no caller is new to the key.
LEMMA NothingAnswered ==
  ASSUME KeyInv, RunsInv, RunsInv', NEW t \in Tasks, NEW k \in Keys,
         replay'[<<t, k>>] = replay[<<t, k>>], AnsweredFor(t, k)' = AnsweredFor(t, k),
         Pursuing(t, k)' \subseteq Pursuing(t, k)
  PROVE  /\ replay'[<<t, k>>] = 0 => AnsweredFor(t, k)' = {}
         /\ Cardinality(AnsweredFor(t, k)') + Cardinality(Pursuing(t, k)') <= Cardinality(Callers)
<1>1. /\ replay[<<t, k>>] = 0 => AnsweredFor(t, k) = {}
      /\ Cardinality(AnsweredFor(t, k)) + Cardinality(Pursuing(t, k)) <= Cardinality(Callers)
  BY DEF KeyInv
<1>2. /\ Cardinality(AnsweredFor(t, k)) \in Nat /\ Cardinality(Pursuing(t, k)) \in Nat
      /\ Cardinality(Callers) \in Nat /\ IsFiniteSet(Pursuing(t, k))
  BY AnsweredFinite, CallersFinite DEF RunsInv
<1>3. Cardinality(Pursuing(t, k)') \in Nat /\ Cardinality(Pursuing(t, k)') <= Cardinality(Pursuing(t, k))
  BY <1>2, SubsetCount
<1>4. QED
  BY <1>1, <1>2, <1>3

\* The tasks and keys of the rows that were answered do not change.
LEMMA AnsweredStay ==
  ASSUME RunsInv, answered' = answered,
         \A q \in DOMAIN runs : runs'[q].task = runs[q].task /\ runs'[q].key = runs[q].key,
         NEW t, NEW k
  PROVE  AnsweredFor(t, k)' = AnsweredFor(t, k)
BY DEF RunsInv, TypeOK, AnsweredFor

LEMMA RowsStay ==
  ASSUME RunsInv, [Next]_vars
  PROVE  \A q \in DOMAIN runs : runs'[q].task = runs[q].task /\ runs'[q].key = runs[q].key
<1>1. CASE runs' = runs
  BY <1>1
<1>2. ASSUME NEW c \in Callers, Complete(c) \/ Fail(c)
      PROVE  \A q \in DOMAIN runs : runs'[q].task = runs[q].task /\ runs'[q].key = runs[q].key
  <2>1. mine[c] \in DOMAIN runs
    BY <1>2 DEF Complete, Fail, RunsInv, CallerInv, Executing
  <2>2. Update(mine[c], "completed") \/ Update(mine[c], "failed")
    BY <1>2 DEF Complete, Fail
  <2>3. QED
    BY <2>1, <2>2, Updated DEF RunsInv
<1>3. ASSUME NEW c \in Callers, Create(c)
      PROVE  \A q \in DOMAIN runs : runs'[q].task = runs[q].task /\ runs'[q].key = runs[q].key
  <2> DEFINE row == [task |-> req[c].task, key |-> req[c].key, status |-> "running"]
  <2>1. row \in Run /\ runs' = Append(runs, row)
    BY <1>3 DEF Create, RunsInv, CallerInv, Run
  <2>2. QED
    BY <2>1, Added DEF RunsInv
<1>4. CASE OperatorWrites
  <2>1. PICK p \in pending : Update(p[2], status_written(p[1]))
    BY <1>4 DEF OperatorWrites
  <2>2. p[2] \in DOMAIN runs /\ status_written(p[1]) \in {"queued", "blocked"}
    BY DEF RunsInv, TypeOK, status_written
  <2>3. QED
    BY <2>1, <2>2, Updated DEF RunsInv
<1>5. \/ runs' = runs \/ OperatorWrites
      \/ \E c \in Callers : Complete(c) \/ Fail(c) \/ Create(c)
  BY DEF Next, Step, vars, Lookup, CheckTask, CountTask, Call, StoreOutput, Persist, StoreRaises, Die,
         cancel_run, resume_run, reconcile_stale_runs, Decided, Age
<1>6. QED
  BY <1>1, <1>2, <1>3, <1>4, <1>5

\* The lookup finds no response, so the key was never answered.
LEMMA LookupKeys ==
  ASSUME KeyInv, RunsInv, RunsInv', NEW c \in Callers, Lookup(c)
  PROVE  KeyInv'
<1>1. PICK u \in Tasks, l \in Keys, stream \in BOOLEAN :
        /\ replay[<<u, l>>] = 0
        /\ req' = [req EXCEPT ![c] = [task |-> u, key |-> l, stream |-> stream]]
  BY DEF Lookup
<1>2. UNCHANGED <<runs, replay, answered>>
  BY DEF Lookup
<1>3. SUFFICES ASSUME NEW t \in Tasks, NEW k \in Keys
               PROVE  /\ replay'[<<t, k>>] = 0 => AnsweredFor(t, k)' = {}
                      /\ Cardinality(AnsweredFor(t, k)') + Cardinality(Pursuing(t, k)') <= Cardinality(Callers)
  BY DEF KeyInv
<1>4. AnsweredFor(t, k)' = AnsweredFor(t, k)
  BY <1>2 DEF AnsweredFor
<1>5. CASE t = u /\ k = l
  <2>1. AnsweredFor(t, k) = {}
    BY <1>1, <1>5 DEF KeyInv
  <2>2. Pursuing(t, k)' \subseteq Callers
    BY DEF Pursuing
  <2>3. Cardinality(Pursuing(t, k)') \in Nat /\ Cardinality(Pursuing(t, k)') <= Cardinality(Callers)
    BY <2>2, CallersFinite, SubsetCount
  <2>4. QED
    BY <1>4, <2>1, <2>3, FS_EmptySet
<1>6. CASE ~(t = u /\ k = l)
  <2>1. req'[c].task = u /\ req'[c].key = l /\ \A d \in Callers : d # c => req'[d] = req[d] /\ pc'[d] = pc[d]
    BY <1>1 DEF Lookup, Goto, RunsInv, TypeOK
  <2>2. Pursuing(t, k)' \subseteq Pursuing(t, k)
    BY <1>6, <2>1 DEF Pursuing
  <2>3. QED
    BY <1>2, <1>4, <2>2, NothingAnswered
<1>7. QED
  BY <1>5, <1>6

\* A caller trades its pursuit of the key for an answer.
LEMMA PersistKeys ==
  ASSUME KeyInv, RunsInv, RunsInv', NEW c \in Callers, Persist(c)
  PROVE  KeyInv'
<1>1. /\ mine[c] \in DOMAIN runs /\ mine[c] # 0 /\ req[c].task \in Tasks /\ req[c].key \in Keys
      /\ runs[mine[c]].task = req[c].task /\ runs[mine[c]].key = req[c].key
  BY DEF Persist, RunsInv, CallerInv, TypeOK, Executing
<1>2. /\ replay \in [Tasks \X Keys -> {0} \union DOMAIN runs]
      /\ replay' = [replay EXCEPT ![<<req[c].task, req[c].key>>] = mine[c]]
      /\ answered' = answered \union {mine[c]} /\ runs' = runs
  BY DEF Persist, RunsInv, TypeOK
<1>3. pc'[c] = "idle" /\ pc[c] # "idle" /\ \A d \in Callers : d # c => req'[d] = req[d] /\ pc'[d] = pc[d]
  BY DEF Persist, Leave, Goto, RunsInv, TypeOK
<1>4. SUFFICES ASSUME NEW t \in Tasks, NEW k \in Keys
               PROVE  /\ replay'[<<t, k>>] = 0 => AnsweredFor(t, k)' = {}
                      /\ Cardinality(AnsweredFor(t, k)') + Cardinality(Pursuing(t, k)') <= Cardinality(Callers)
  BY DEF KeyInv
<1>5. CASE t = req[c].task /\ k = req[c].key
  <2>1. c \in Pursuing(t, k)
    BY <1>3, <1>5 DEF Pursuing
  <2>2. Pursuing(t, k)' \subseteq Pursuing(t, k) \ {c}
    BY <1>3 DEF Pursuing
  <2>3. AnsweredFor(t, k)' \subseteq AnsweredFor(t, k) \union {mine[c]}
    BY <1>2 DEF AnsweredFor
  <2>4. IsFiniteSet(Pursuing(t, k)) /\ IsFiniteSet(AnsweredFor(t, k)) /\ Cardinality(Callers) \in Nat
    BY AnsweredFinite, CallersFinite DEF RunsInv
  <2>5. /\ Cardinality(Pursuing(t, k)) \in Nat /\ Cardinality(Pursuing(t, k)') \in Nat
        /\ Cardinality(Pursuing(t, k)') + 1 <= Cardinality(Pursuing(t, k))
    BY <2>1, <2>2, <2>4, OneLess
  <2>6. /\ Cardinality(AnsweredFor(t, k)) \in Nat /\ Cardinality(AnsweredFor(t, k)') \in Nat
        /\ Cardinality(AnsweredFor(t, k)') <= Cardinality(AnsweredFor(t, k)) + 1
    BY <2>3, <2>4, OneMore
  <2>7. Cardinality(AnsweredFor(t, k)) + Cardinality(Pursuing(t, k)) <= Cardinality(Callers)
    BY DEF KeyInv
  <2>8. replay'[<<t, k>>] # 0
    BY <1>1, <1>2, <1>5
  <2>9. QED
    BY <2>4, <2>5, <2>6, <2>7, <2>8
<1>6. CASE ~(t = req[c].task /\ k = req[c].key)
  <2>1. Pursuing(t, k)' \subseteq Pursuing(t, k)
    BY <1>3 DEF Pursuing
  <2>2. AnsweredFor(t, k)' = AnsweredFor(t, k)
    BY <1>1, <1>2, <1>6 DEF AnsweredFor
  <2>3. <<t, k>> # <<req[c].task, req[c].key>>
    BY <1>6
  <2>4. replay'[<<t, k>>] = replay[<<t, k>>]
    BY <1>1, <1>2, <2>3
  <2>5. QED
    BY <2>1, <2>2, <2>4, NothingAnswered
<1>7. QED
  BY <1>5, <1>6

LEMMA KeyNext == RunsInv /\ KeyInv /\ [Next]_vars => KeyInv'
<1>1. SUFFICES ASSUME RunsInv, KeyInv, [Next]_vars
               PROVE  KeyInv'
  OBVIOUS
<1>2. RunsInv'
  BY <1>1, RunsNext
<1>3. CASE \E c \in Callers : Lookup(c) \/ Persist(c)
  BY <1>1, <1>2, <1>3, LookupKeys, PersistKeys
<1>4. CASE ~\E c \in Callers : Lookup(c) \/ Persist(c)
  <2>1. answered' = answered /\ replay' = replay
    BY <1>1, <1>4
    DEF Next, Step, vars, CheckTask, CountTask, Create, Call, Complete, StoreOutput, Fail, StoreRaises, Die,
        OperatorWrites, cancel_run, resume_run, reconcile_stale_runs, Decided, Age
  <2>2. \A d \in Callers : pc'[d] # "idle" => pc[d] # "idle" /\ req'[d] = req[d]
    <3>1. pc \in [Callers -> Label] /\ DOMAIN req = Callers
      BY <1>1 DEF RunsInv, TypeOK
    <3>2. ASSUME NEW c \in Callers, Step(c)
          PROVE  \A d \in Callers : pc'[d] # "idle" => pc[d] # "idle" /\ req'[d] = req[d]
      <4>1. \/ Leave(c)
            \/ req' = req /\ pc[c] # "idle" /\ \E label \in Label : Goto(c, label)
        BY <1>4, <3>2
        DEF Step, CheckTask, CountTask, Create, Call, Complete, StoreOutput, Fail, StoreRaises, Die, Label
      <4>2. QED
        BY <3>1, <4>1 DEF Leave, Goto
    <3>3. CASE pc' = pc /\ req' = req
      BY <3>3
    <3>4. QED
      BY <1>1, <3>2, <3>3
      DEF Next, vars, OperatorWrites, cancel_run, resume_run, reconcile_stale_runs, Decided, Age
  <2>3. ASSUME NEW t \in Tasks, NEW k \in Keys
        PROVE  /\ replay'[<<t, k>>] = 0 => AnsweredFor(t, k)' = {}
               /\ Cardinality(AnsweredFor(t, k)') + Cardinality(Pursuing(t, k)') <= Cardinality(Callers)
    <3>1. AnsweredFor(t, k)' = AnsweredFor(t, k)
      BY <1>1, <2>1, RowsStay, AnsweredStay
    <3>2. Pursuing(t, k)' \subseteq Pursuing(t, k)
      BY <2>2 DEF Pursuing
    <3>3. QED
      BY <1>1, <1>2, <2>1, <3>1, <3>2, NothingAnswered
  <2>4. QED
    BY <2>3 DEF KeyInv
<1>5. QED
  BY <1>3, <1>4

\* A key is answered at most once per caller: when its response is kept, only requests
\* already past the lookup still run (execute).
THEOREM KeyExecutionsBounded == Spec => []ExecutionsPerKeyBounded
<1>1. RunsInv /\ KeyInv => ExecutionsPerKeyBounded
  <2>1. SUFFICES ASSUME RunsInv, KeyInv, NEW t \in Tasks, NEW k \in Keys
                 PROVE  Cardinality(AnsweredFor(t, k)) <= Cardinality(Callers)
    BY DEF ExecutionsPerKeyBounded
  <2>2. Cardinality(AnsweredFor(t, k)) + Cardinality(Pursuing(t, k)) <= Cardinality(Callers)
    BY <2>1 DEF KeyInv
  <2>3. /\ Cardinality(AnsweredFor(t, k)) \in Nat /\ Cardinality(Pursuing(t, k)) \in Nat
        /\ Cardinality(Callers) \in Nat
    BY <2>1, AnsweredFinite, CallersFinite DEF RunsInv
  <2>4. QED
    BY <2>2, <2>3
<1>2. QED
  BY <1>1, RunsAlways, KeyInit, KeyNext, PTL DEF Spec

-----------------------------------------------------------------------------
(* The limit per workspace *)

\* All the active runs, and those that a caller counting tasks has not come to.
AllActive == {r \in DOMAIN runs : runs[r].status \in Active}
Unseen(c) == {r \in AllActive : runs[r].task \notin tally[c].seen}

\* What the caller will have counted if nothing more happens.
Foreseen(c) == tally[c].count + Cardinality(Unseen(c))

\* The callers that may yet create a run having counted at most m.
Within(m) == {c \in Callers : pc[c] = "creating" \/ (pc[c] = "counting" /\ Foreseen(c) <= m)}

\* Active runs and those about to become active, for the highest count that lets a caller
\* pass, and for any higher: a run that ends lowers the counts to come.
Fresh == \A c \in Callers : pc[c] \in {"idle", "checking"} => tally[c] = NoTally
WorkspaceInv ==
  /\ Fresh /\ IsFiniteSet(Resumes)
  /\ Len(runs) <= ListLimit =>
       \A m \in Nat : m >= limit.workspace - 1 =>
         Cardinality(AllActive) + Cardinality(Within(m)) <= Cardinality(Callers) + Cardinality(Resumes) + m

LEMMA ActiveFinite ==
  ASSUME TypeOK, NEW c
  PROVE  /\ IsFiniteSet(AllActive) /\ Cardinality(AllActive) \in Nat
         /\ IsFiniteSet(Unseen(c)) /\ Cardinality(Unseen(c)) \in Nat
<1>1. AllActive \subseteq DOMAIN runs /\ Unseen(c) \subseteq AllActive
  BY DEF AllActive, Unseen
<1>2. IsFiniteSet(DOMAIN runs)
  BY RowsFinite
<1>3. IsFiniteSet(AllActive) /\ Cardinality(AllActive) \in Nat
  BY <1>1, <1>2, SubsetCount
<1>4. QED
  BY <1>1, <1>3, SubsetCount

LEMMA WithinFinite ==
  ASSUME NEW m
  PROVE  /\ IsFiniteSet(Within(m)) /\ Cardinality(Within(m)) \in Nat
         /\ Cardinality(Within(m)) <= Cardinality(Callers) /\ Cardinality(Callers) \in Nat
<1>1. Within(m) \subseteq Callers
  BY DEF Within
<1>2. QED
  BY <1>1, SubsetCount, RunsAssumption

LEMMA WithinFiniteNext ==
  ASSUME NEW m
  PROVE  /\ IsFiniteSet(Within(m)') /\ Cardinality(Within(m)') \in Nat
         /\ Cardinality(Within(m)') <= Cardinality(Callers)
<1>1. Within(m)' \subseteq Callers
  BY DEF Within
<1>2. QED
  BY <1>1, SubsetCount, RunsAssumption

LEMMA TallyType ==
  ASSUME TypeOK, NEW c \in Callers
  PROVE  /\ tally[c].count \in Nat /\ tally[c].seen \subseteq Tasks
         /\ limit.workspace \in Nat \ {0} /\ Len(runs) \in Nat /\ ListLimit \in Nat
<1>1. tally[c] \in [seen : SUBSET Tasks, count : Nat]
  BY DEF TypeOK
<1>2. QED
  BY <1>1, RunsAssumption DEF TypeOK

\* What a step must show, for each count: that it adds no more than it takes away.
Outweighed(m) ==
  \/ Cardinality(AllActive') <= m
  \/ \E n \in Nat :
       /\ n >= limit.workspace - 1
       /\ Cardinality(AllActive') + Cardinality(Within(m)') + Cardinality(Resumes) + n
            <= Cardinality(AllActive) + Cardinality(Within(n)) + Cardinality(Resumes') + m

LEMMA Sums ==
  ASSUME NEW a1 \in Nat, NEW w1 \in Nat, NEW r \in Nat, NEW n \in Nat, NEW a \in Nat, NEW w \in Nat,
         NEW r1 \in Nat, NEW m \in Nat, NEW all \in Nat,
         a1 + w1 + r + n <= a + w + r1 + m, a + w <= all + r + n
  PROVE  a1 + w1 <= all + r1 + m
OBVIOUS

LEMMA Enough ==
  ASSUME NEW a1 \in Nat, NEW w1 \in Nat, NEW r1 \in Nat, NEW m \in Nat, NEW all \in Nat,
         a1 <= m, w1 <= all
  PROVE  a1 + w1 <= all + r1 + m
OBVIOUS

LEMMA Carried ==
  ASSUME WorkspaceInv, RunsInv, RunsInv', limit' = limit, limit.workspace \in Nat, Len(runs) <= Len(runs'),
         IsFiniteSet(Resumes'), Fresh',
         \A m \in Nat : m >= limit.workspace - 1 /\ Len(runs') <= ListLimit => Outweighed(m)
  PROVE  WorkspaceInv'
<1>1. SUFFICES ASSUME Len(runs') <= ListLimit, NEW m \in Nat, m >= limit.workspace - 1
               PROVE  Cardinality(AllActive') + Cardinality(Within(m)')
                        <= Cardinality(Callers) + Cardinality(Resumes') + m
  BY DEF WorkspaceInv
<1>2. Len(runs) \in Nat /\ Len(runs') \in Nat /\ ListLimit \in Nat
  BY RunsAssumption DEF RunsInv, TypeOK
<1>3. Len(runs) <= ListLimit
  BY <1>1, <1>2
<1>4. Cardinality(AllActive) \in Nat /\ Cardinality(AllActive') \in Nat
  <2>1. Cardinality(AllActive) \in Nat
    BY ActiveFinite DEF RunsInv
  <2>2. Cardinality(AllActive') \in Nat
    <3>1. AllActive' \subseteq DOMAIN runs'
      BY DEF AllActive
    <3>2. IsFiniteSet(DOMAIN runs')
      BY <1>2, FS_Interval DEF RunsInv, TypeOK
    <3>3. QED
      BY <3>1, <3>2, SubsetCount
  <2>3. QED
    BY <2>1, <2>2
<1>5. Cardinality(Resumes) \in Nat /\ Cardinality(Resumes') \in Nat
  BY FS_CardinalityType DEF WorkspaceInv
<1>6. Outweighed(m)
  BY <1>1
<1>7. CASE Cardinality(AllActive') <= m
  <2>1. /\ Cardinality(Within(m)') \in Nat /\ Cardinality(Callers) \in Nat
        /\ Cardinality(Within(m)') <= Cardinality(Callers)
    BY WithinFinite, WithinFiniteNext
  <2>2. QED
    BY <1>4, <1>5, <1>7, <2>1, Enough
<1>8. ASSUME NEW n \in Nat, n >= limit.workspace - 1,
             Cardinality(AllActive') + Cardinality(Within(m)') + Cardinality(Resumes) + n
               <= Cardinality(AllActive) + Cardinality(Within(n)) + Cardinality(Resumes') + m
      PROVE  Cardinality(AllActive') + Cardinality(Within(m)')
               <= Cardinality(Callers) + Cardinality(Resumes') + m
  <2>1. Cardinality(AllActive) + Cardinality(Within(n)) <= Cardinality(Callers) + Cardinality(Resumes) + n
    BY <1>3, <1>8 DEF WorkspaceInv
  <2>2. Cardinality(Within(n)) \in Nat /\ Cardinality(Within(m)') \in Nat /\ Cardinality(Callers) \in Nat
    BY WithinFinite, WithinFiniteNext
  <2>3. QED
    BY <1>4, <1>5, <1>8, <2>1, <2>2, Sums
<1>9. QED
  BY <1>6, <1>7, <1>8 DEF Outweighed

LEMMA Settles ==
  ASSUME RunsInv, NEW m \in Nat, limit.workspace \in Nat, m >= limit.workspace - 1, IsFiniteSet(Resumes),
         resumed' = resumed, AllActive' \subseteq AllActive, Within(m)' \subseteq Within(m)
  PROVE  Outweighed(m)
<1>1. Resumes' = Resumes
  BY DEF Resumes
<1>2. /\ Cardinality(AllActive) \in Nat /\ Cardinality(AllActive') \in Nat
      /\ Cardinality(AllActive') <= Cardinality(AllActive)
  BY ActiveFinite, SubsetCount DEF RunsInv
<1>3. /\ Cardinality(Within(m)) \in Nat /\ Cardinality(Within(m)') \in Nat
      /\ Cardinality(Within(m)') <= Cardinality(Within(m))
  BY WithinFinite, SubsetCount
<1>4. Cardinality(Resumes) \in Nat
  BY FS_CardinalityType
<1>5. Cardinality(AllActive') + Cardinality(Within(m)') + Cardinality(Resumes) + m
        <= Cardinality(AllActive) + Cardinality(Within(m)) + Cardinality(Resumes') + m
  BY <1>1, <1>2, <1>3, <1>4
<1>6. QED
  BY <1>5 DEF Outweighed

\* A caller's own step that writes no row lets no caller pass that could not have passed,
\* unless it is about to count and all the active runs are few.
LEMMA CallerCarried ==
  ASSUME WorkspaceInv, RunsInv, RunsInv', NEW c \in Callers, UNCHANGED <<limit, runs, resumed>>, Fresh',
         \A d \in Callers \ {c} : pc'[d] = pc[d] /\ tally'[d] = tally[d],
         \A m \in Nat : m >= limit.workspace - 1 /\ Len(runs) <= ListLimit /\ c \in Within(m)' =>
                          c \in Within(m) \/ Cardinality(AllActive) <= m
  PROVE  WorkspaceInv'
<1>1. Resumes' = Resumes /\ IsFiniteSet(Resumes)
  BY DEF Resumes, WorkspaceInv
<1>2. limit.workspace \in Nat /\ Len(runs) \in Nat
  BY TallyType DEF RunsInv
<1>3. AllActive' = AllActive
  BY DEF AllActive
<1>4. ASSUME NEW m \in Nat, m >= limit.workspace - 1, Len(runs) <= ListLimit
      PROVE  Outweighed(m)
  <2>1. CASE Cardinality(AllActive) <= m
    BY <1>3, <2>1 DEF Outweighed
  <2>2. CASE ~(Cardinality(AllActive) <= m)
    <3>1. ASSUME NEW d \in Callers \ {c}, d \in Within(m)'
          PROVE  d \in Within(m)
      <4>1. Unseen(d)' = Unseen(d)
        BY <1>3 DEF Unseen
      <4>2. Foreseen(d)' = Foreseen(d)
        BY <4>1 DEF Foreseen
      <4>3. QED
        BY <3>1, <4>2 DEF Within
    <3>2. Within(m)' \subseteq Within(m)
      BY <1>4, <2>2, <3>1 DEF Within
    <3>3. QED
      BY <1>1, <1>2, <1>3, <1>4, <3>2, Settles
  <2>3. QED
    BY <2>1, <2>2
<1>5. QED
  BY <1>1, <1>2, <1>4, Carried

\* Steps of a caller that neither count nor write a row.
LEMMA LeavesCarry ==
  ASSUME WorkspaceInv, RunsInv, RunsInv', NEW c \in Callers, Leave(c), UNCHANGED <<limit, runs, resumed>>
  PROVE  WorkspaceInv'
<1>1. pc \in [Callers -> Label] /\ tally \in [Callers -> [seen : SUBSET Tasks, count : Nat]]
  BY DEF RunsInv, TypeOK
<1>2. pc'[c] = "idle" /\ tally'[c] = NoTally
  BY <1>1 DEF Leave, Goto
<1>3. \A d \in Callers \ {c} : pc'[d] = pc[d] /\ tally'[d] = tally[d]
  BY <1>1 DEF Leave, Goto
<1>4. Fresh'
  BY <1>2, <1>3 DEF WorkspaceInv, Fresh
<1>5. \A m : c \notin Within(m)'
  BY <1>2 DEF Within
<1>6. QED
  BY <1>3, <1>4, <1>5, CallerCarried

LEMMA GoesCarry ==
  ASSUME WorkspaceInv, RunsInv, RunsInv', NEW c \in Callers, NEW label \in Label,
         label \notin {"counting", "creating"}, Goto(c, label),
         label \in {"idle", "checking"} => tally[c] = NoTally, UNCHANGED <<limit, runs, resumed, tally>>
  PROVE  WorkspaceInv'
<1>1. pc \in [Callers -> Label]
  BY DEF RunsInv, TypeOK
<1>2. pc'[c] = label
  BY <1>1 DEF Goto
<1>3. \A d \in Callers \ {c} : pc'[d] = pc[d] /\ tally'[d] = tally[d]
  BY <1>1 DEF Goto
<1>4. Fresh'
  BY <1>2, <1>3 DEF WorkspaceInv, Fresh
<1>5. \A m : c \notin Within(m)'
  BY <1>2 DEF Within
<1>6. QED
  BY <1>3, <1>4, <1>5, CallerCarried

LEMMA QuietCarries ==
  ASSUME WorkspaceInv, RunsInv, RunsInv', NEW c \in Callers, UNCHANGED limit,
         \/ Lookup(c) \/ Call(c) \/ StoreOutput(c) \/ Persist(c) \/ StoreRaises(c) \/ Die(c)
  PROVE  WorkspaceInv'
<1> USE DEF outside, bounds
<1>1. UNCHANGED <<runs, resumed>>
  BY DEF Lookup, Call, StoreOutput, Persist, StoreRaises, Die
<1>2. \/ Leave(c)
      \/ Goto(c, "checking") /\ tally' = tally /\ pc[c] = "idle"
      \/ tally' = tally /\ \E label \in {"completing", "failing", "persisting"} : Goto(c, label)
  BY DEF Lookup, Call, StoreOutput, Persist, StoreRaises, Die
<1>3. CASE Leave(c)
  BY <1>1, <1>3, LeavesCarry
<1>4. CASE Goto(c, "checking") /\ tally' = tally /\ pc[c] = "idle"
  <2>1. tally[c] = NoTally
    BY <1>4 DEF WorkspaceInv, Fresh
  <2>2. QED
    BY <1>1, <1>4, <2>1, GoesCarry DEF Label
<1>5. CASE tally' = tally /\ \E label \in {"completing", "failing", "persisting"} : Goto(c, label)
  <2>1. PICK label \in {"completing", "failing", "persisting"} : Goto(c, label)
    BY <1>5
  <2>2. label \in Label /\ label \notin {"counting", "creating", "idle", "checking"}
    BY DEF Label
  <2>3. QED
    BY <1>1, <1>5, <2>1, <2>2, GoesCarry
<1>6. QED
  BY <1>2, <1>3, <1>4, <1>5

\* A caller that begins to count will count every active run.
LEMMA CheckTaskCarries ==
  ASSUME WorkspaceInv, RunsInv, RunsInv', NEW c \in Callers, UNCHANGED limit, CheckTask(c)
  PROVE  WorkspaceInv'
<1> USE DEF outside, bounds
<1>1. UNCHANGED <<runs, resumed>> /\ pc[c] = "checking"
  BY DEF CheckTask
<1>2. CASE Leave(c)
  BY <1>1, <1>2, LeavesCarry
<1>3. CASE Goto(c, "counting") /\ tally' = tally
  <2>1. pc \in [Callers -> Label]
    BY DEF RunsInv, TypeOK
  <2>2. pc'[c] = "counting" /\ \A d \in Callers \ {c} : pc'[d] = pc[d] /\ tally'[d] = tally[d]
    BY <1>3, <2>1 DEF Goto
  <2>3. Fresh'
    BY <2>2 DEF WorkspaceInv, Fresh
  <2>4. tally'[c] = [seen |-> {}, count |-> 0]
    BY <1>1, <1>3 DEF WorkspaceInv, Fresh, NoTally
  <2>5. Unseen(c)' = AllActive
    BY <1>1, <2>4 DEF Unseen, AllActive
  <2>6. Foreseen(c)' = Cardinality(AllActive)
    <3>1. Cardinality(AllActive) \in Nat
      BY ActiveFinite DEF RunsInv
    <3>2. QED
      BY <2>4, <2>5, <3>1 DEF Foreseen
  <2>7. \A m \in Nat : c \in Within(m)' => Cardinality(AllActive) <= m
    BY <2>2, <2>6 DEF Within
  <2>8. QED
    BY <1>1, <2>2, <2>3, <2>7, CallerCarried
<1>4. QED
  BY <1>2, <1>3 DEF CheckTask

LEMMA UpTo ==
  ASSUME NEW n \in Nat
  PROVE  IsFiniteSet(1..n) /\ Cardinality(1..n) = n
<1>1. 1 \in Int /\ n \in Int
  OBVIOUS
<1>2. IsFiniteSet(1..n) /\ Cardinality(1..n) = IF 1 > n THEN 0 ELSE n - 1 + 1
  BY <1>1, FS_Interval
<1>3. QED
  BY <1>2

LEMMA CountedOnce ==
  ASSUME NEW S, NEW T, IsFiniteSet(S), T \subseteq S
  PROVE  Cardinality(S) = Cardinality(T) + Cardinality(S \ T)
<1>1. IsFiniteSet(T) /\ IsFiniteSet(S \ T) /\ S = T \union (S \ T) /\ T \cap (S \ T) = {}
  BY FS_Subset
<1>2. Cardinality(T \union (S \ T)) = Cardinality(T) + Cardinality(S \ T)
  <2>1. Cardinality(T \union (S \ T)) = Cardinality(T) + Cardinality(S \ T) - Cardinality(T \cap (S \ T))
    BY <1>1, FS_Union
  <2>2. Cardinality(T \cap (S \ T)) = 0 /\ Cardinality(T) \in Nat /\ Cardinality(S \ T) \in Nat
    BY <1>1, FS_EmptySet, FS_CardinalityType
  <2>3. QED
    BY <2>1, <2>2
<1>3. QED
  BY <1>1, <1>2

\* Counting a task moves its active runs from those to come to those counted.
LEMMA CountTaskCarries ==
  ASSUME WorkspaceInv, RunsInv, RunsInv', NEW c \in Callers, UNCHANGED limit, CountTask(c)
  PROVE  WorkspaceInv'
<1> USE DEF outside, bounds
<1>1. UNCHANGED <<runs, resumed>> /\ pc[c] = "counting"
  BY DEF CountTask
<1>2. PICK t \in Tasks \ tally[c].seen :
        LET count == tally[c].count + Cardinality(listed_active(t))
            seen  == tally[c].seen \union {t}
        IN  IF over_workspace_limit(count)
            THEN Leave(c)
            ELSE /\ Goto(c, IF seen = Tasks THEN "creating" ELSE "counting")
                 /\ tally' = [tally EXCEPT ![c] = [seen |-> seen, count |-> count]]
  BY DEF CountTask
<1> DEFINE count == tally[c].count + Cardinality(listed_active(t))
           seen == tally[c].seen \union {t}
<1>3. CASE Leave(c)
  BY <1>1, <1>3, LeavesCarry
<1>4. CASE ~over_workspace_limit(count) /\ Goto(c, IF seen = Tasks THEN "creating" ELSE "counting")
             /\ tally' = [tally EXCEPT ![c] = [seen |-> seen, count |-> count]]
  <2>1. pc \in [Callers -> Label] /\ tally \in [Callers -> [seen : SUBSET Tasks, count : Nat]]
    BY DEF RunsInv, TypeOK
  <2>2. /\ pc'[c] \in {"creating", "counting"} /\ (pc'[c] = "creating" => seen = Tasks)
        /\ tally'[c] = [seen |-> seen, count |-> count]
        /\ \A d \in Callers \ {c} : pc'[d] = pc[d] /\ tally'[d] = tally[d]
    BY <1>4, <2>1 DEF Goto
  <2>3. Fresh'
    BY <2>2 DEF WorkspaceInv, Fresh
  <2>4. ASSUME Len(runs) <= ListLimit
        PROVE  listed_active(t) = ActiveOf(t)
    <3>1. Cardinality(RowsOf(t)) <= ListLimit
      <4>1. RowsOf(t) \subseteq 1..Len(runs) /\ Len(runs) \in Nat /\ ListLimit \in Nat
        BY TallyType DEF RowsOf, RunsInv, TypeOK
      <4>2. IsFiniteSet(1..Len(runs)) /\ Cardinality(1..Len(runs)) = Len(runs)
        BY <4>1, UpTo
      <4>3. Cardinality(RowsOf(t)) \in Nat /\ Cardinality(RowsOf(t)) <= Cardinality(1..Len(runs))
        BY <4>1, <4>2, SubsetCount
      <4>4. QED
        BY <2>4, <4>1, <4>2, <4>3
    <3>2. QED
      BY <3>1, ListedAll DEF RunsInv
  <2>5. ASSUME Len(runs) <= ListLimit
        PROVE  Foreseen(c)' = Foreseen(c)
    <3>1. Unseen(c)' = Unseen(c) \ ActiveOf(t)
      BY <1>1, <2>2 DEF Unseen, AllActive, ActiveOf, RowsOf
    <3>2. ActiveOf(t) \subseteq Unseen(c)
      BY <1>2 DEF Unseen, AllActive, ActiveOf, RowsOf
    <3>3. Cardinality(Unseen(c)) = Cardinality(ActiveOf(t)) + Cardinality(Unseen(c) \ ActiveOf(t))
      BY <3>2, ActiveFinite, CountedOnce DEF RunsInv
    <3>4. Cardinality(ActiveOf(t)) \in Nat /\ Cardinality(Unseen(c) \ ActiveOf(t)) \in Nat
      BY RowsFinite, ActiveFinite, SubsetCount DEF RunsInv
    <3>5. tally[c].count \in Nat
      BY TallyType DEF RunsInv
    <3>6. Foreseen(c)' = (tally[c].count + Cardinality(ActiveOf(t))) + Cardinality(Unseen(c) \ ActiveOf(t))
      BY <2>2, <2>4, <2>5, <3>1 DEF Foreseen
    <3>7. QED
      BY <3>3, <3>4, <3>5, <3>6 DEF Foreseen
  <2>6. ASSUME NEW m \in Nat, m >= limit.workspace - 1, Len(runs) <= ListLimit, c \in Within(m)'
        PROVE  c \in Within(m)
    <3>1. Foreseen(c)' <= m
      <4>1. CASE pc'[c] = "counting"
        BY <2>6, <4>1 DEF Within
      <4>2. CASE pc'[c] = "creating"
        <5>1. Unseen(c)' = {}
          <6>1. seen = Tasks
            BY <2>2, <4>2
          <6>2. \A r \in DOMAIN runs : runs[r].task \in Tasks
            BY RowTasks DEF RunsInv
          <6>3. QED
            BY <1>1, <2>2, <6>1, <6>2 DEF Unseen, AllActive
        <5>2. Foreseen(c)' = count
          <6>1. count \in Nat
            BY RowsFinite, TallyType DEF RunsInv
          <6>2. QED
            BY <2>2, <5>1, <6>1, FS_EmptySet DEF Foreseen
        <5>3. count < limit.workspace /\ count \in Nat /\ limit.workspace \in Nat
          BY <1>4, RowsFinite, TallyType DEF RunsInv, over_workspace_limit
        <5>4. QED
          BY <2>6, <5>2, <5>3
      <4>3. QED
        BY <2>2, <4>1, <4>2
    <3>2. QED
      BY <1>1, <2>5, <2>6, <3>1 DEF Within
  <2>7. QED
    BY <1>1, <2>2, <2>3, <2>6, CallerCarried
<1>5. QED
  BY <1>2, <1>3, <1>4

\* A row that is added takes its caller's place among those about to add one.
LEMMA CreateCarries ==
  ASSUME WorkspaceInv, RunsInv, RunsInv', NEW c \in Callers, UNCHANGED limit, Create(c)
  PROVE  WorkspaceInv'
<1> USE DEF outside, bounds
<1> DEFINE row == [task |-> req[c].task, key |-> req[c].key, status |-> "running"]
           new == Len(runs) + 1
<1>1. row \in Run
  BY DEF Create, RunsInv, CallerInv, Run
<1>2. runs' = Append(runs, row) /\ resumed' = resumed /\ pc[c] = "creating"
  BY DEF Create
<1>3. /\ DOMAIN runs' = DOMAIN runs \union {new} /\ new \notin DOMAIN runs
      /\ \A q \in DOMAIN runs : runs'[q] = runs[q]
  BY <1>1, <1>2, Added DEF RunsInv
<1>4. Len(runs) \in Nat /\ Len(runs') \in Nat /\ Len(runs) <= Len(runs') /\ limit.workspace \in Nat
  BY <1>2, TallyType DEF RunsInv, TypeOK
<1>5. pc \in [Callers -> Label] /\ tally \in [Callers -> [seen : SUBSET Tasks, count : Nat]]
  BY DEF RunsInv, TypeOK
<1>6. /\ pc'[c] \in {"calling", "idle"} /\ tally'[c] = NoTally
      /\ \A d \in Callers \ {c} : pc'[d] = pc[d] /\ tally'[d] = tally[d]
  BY <1>5 DEF Create, Leave, Goto
<1>7. Fresh'
  BY <1>6 DEF WorkspaceInv, Fresh
<1>8. Resumes' = Resumes /\ IsFiniteSet(Resumes) /\ Cardinality(Resumes) \in Nat
  BY <1>2, FS_CardinalityType DEF Resumes, WorkspaceInv
<1> HIDE DEF row, new
<1>9. AllActive' \subseteq AllActive \union {new} /\ AllActive \subseteq AllActive'
  BY <1>3 DEF AllActive
<1>10. /\ Cardinality(AllActive) \in Nat /\ Cardinality(AllActive') \in Nat /\ IsFiniteSet(AllActive')
       /\ Cardinality(AllActive') <= Cardinality(AllActive) + 1
  BY <1>9, ActiveFinite, OneMore DEF RunsInv
<1>11. ASSUME NEW m \in Nat, m >= limit.workspace - 1
       PROVE  Outweighed(m)
  <2>1. ASSUME NEW d \in Within(m)'
        PROVE  d \in Within(m) \ {c}
    <3>1. d \in Callers \ {c}
      BY <1>6 DEF Within
    <3>2. CASE pc[d] = "creating"
      BY <3>1, <3>2 DEF Within
    <3>3. CASE pc[d] # "creating"
      <4>1. Unseen(d) \subseteq Unseen(d)'
        BY <1>3, <1>6, <1>9, <3>1 DEF Unseen, AllActive
      <4>2. Unseen(d)' \subseteq AllActive'
        BY DEF Unseen
      <4>3. /\ Cardinality(Unseen(d)) \in Nat /\ Cardinality(Unseen(d)') \in Nat
            /\ Cardinality(Unseen(d)) <= Cardinality(Unseen(d)')
        BY <1>10, <4>1, <4>2, SubsetCount
      <4>4. tally'[d] = tally[d] /\ tally[d].count \in Nat
        BY <1>6, <3>1, TallyType DEF RunsInv
      <4>5. pc[d] = "counting" /\ Foreseen(d)' <= m
        BY <1>6, <2>1, <3>1, <3>3 DEF Within
      <4>6. Foreseen(d) <= m
        BY <4>3, <4>4, <4>5 DEF Foreseen
      <4>7. QED
        BY <3>1, <4>5, <4>6 DEF Within
    <3>4. QED
      BY <3>2, <3>3
  <2>2. Within(m)' \subseteq Within(m) \ {c} /\ c \in Within(m)
    BY <1>2, <2>1 DEF Within
  <2>3. /\ Cardinality(Within(m)) \in Nat /\ Cardinality(Within(m)') \in Nat
        /\ Cardinality(Within(m)') + 1 <= Cardinality(Within(m))
    BY <2>2, WithinFinite, OneLess
  <2>4. Cardinality(AllActive') + Cardinality(Within(m)') + Cardinality(Resumes) + m
          <= Cardinality(AllActive) + Cardinality(Within(m)) + Cardinality(Resumes') + m
    BY <1>8, <1>10, <2>3
  <2>5. QED
    BY <1>11, <2>4 DEF Outweighed
<1>12. QED
  BY <1>4, <1>7, <1>8, <1>11, Carried DEF Create

LEMMA ExceptLen ==
  ASSUME NEW S, NEW seq \in Seq(S), NEW new \in Seq(S), NEW r, NEW e, new = [seq EXCEPT ![r] = e]
  PROVE  Len(new) = Len(seq) /\ Len(seq) \in Nat
<1>1. DOMAIN new = DOMAIN seq
  OBVIOUS
<1>2. QED
  BY <1>1, LenProperties

\* A run that ends lowers by one the active runs and every count to come.
LEMMA EndCarries ==
  ASSUME WorkspaceInv, RunsInv, RunsInv', UNCHANGED <<limit, resumed>>, Fresh',
         NEW r \in DOMAIN runs, NEW s \in {"blocked", "completed", "failed"}, Update(r, s),
         \A d \in Callers : pc'[d] \in {"counting", "creating"} => pc'[d] = pc[d] /\ tally'[d] = tally[d]
  PROVE  WorkspaceInv'
<1>1. runs' \in Seq(Run) /\ DOMAIN runs' = DOMAIN runs /\ \A q \in DOMAIN runs :
        runs'[q].task = runs[q].task /\ runs'[q].status = IF q = r THEN s ELSE runs[q].status
  BY Updated DEF RunsInv
<1>2. Len(runs) \in Nat /\ Len(runs') = Len(runs) /\ limit.workspace \in Nat
  <2>1. limit.workspace \in Nat
    BY RunsAssumption DEF RunsInv, TypeOK
  <2>2. runs \in Seq(Run) /\ runs' \in Seq(Run) /\ runs' = [runs EXCEPT ![r].status = s]
    BY <1>1 DEF RunsInv, TypeOK, Update
  <2>3. Len(runs') = Len(runs) /\ Len(runs) \in Nat
    BY <2>2, ExceptLen
  <2>4. QED
    BY <2>1, <2>3
<1>3. Resumes' = Resumes /\ IsFiniteSet(Resumes) /\ Cardinality(Resumes) \in Nat
  BY FS_CardinalityType DEF Resumes, WorkspaceInv
<1>4. AllActive' = AllActive \ {r}
  BY <1>1 DEF AllActive, Active
<1>5. \A d : Unseen(d) \ {r} \subseteq AllActive' /\ IsFiniteSet(AllActive')
  <2>1. IsFiniteSet(AllActive)
    BY ActiveFinite DEF RunsInv
  <2>2. QED
    BY <1>4, <2>1, SubsetCount DEF Unseen
<1>6. ASSUME NEW d \in Callers, pc'[d] = "counting", NEW m \in Nat, Foreseen(d)' <= m
      PROVE  pc[d] = "counting" /\ Foreseen(d) <= m + 1
  <2>1. pc[d] = "counting" /\ tally'[d] = tally[d] /\ tally[d].count \in Nat
    BY <1>6, TallyType DEF RunsInv
  <2>2. Unseen(d) \subseteq Unseen(d)' \union {r} /\ Unseen(d)' \subseteq AllActive'
    BY <1>1, <1>4, <2>1 DEF Unseen, AllActive
  <2>3. IsFiniteSet(Unseen(d)')
    BY <1>5, <2>2, SubsetCount
  <2>4. /\ Cardinality(Unseen(d)) \in Nat /\ Cardinality(Unseen(d)') \in Nat
        /\ Cardinality(Unseen(d)) <= Cardinality(Unseen(d)') + 1
    BY <2>2, <2>3, OneMore
  <2>5. QED
    BY <1>6, <2>1, <2>4 DEF Foreseen
<1>7. ASSUME NEW m \in Nat, m >= limit.workspace - 1
      PROVE  Outweighed(m)
  <2>1. CASE r \in AllActive
    <3>1. m + 1 \in Nat /\ m + 1 >= limit.workspace - 1
      BY <1>2, <1>7
    <3>2. Within(m)' \subseteq Within(m + 1)
      BY <1>6 DEF Within
    <3>3. /\ Cardinality(Within(m + 1)) \in Nat /\ Cardinality(Within(m)') \in Nat
          /\ Cardinality(Within(m)') <= Cardinality(Within(m + 1))
      BY <3>2, WithinFinite, SubsetCount
    <3>4. /\ Cardinality(AllActive) \in Nat /\ Cardinality(AllActive') \in Nat
          /\ Cardinality(AllActive') + 1 <= Cardinality(AllActive)
      BY <1>4, <2>1, ActiveFinite, OneLess DEF RunsInv
    <3>5. Cardinality(AllActive') + Cardinality(Within(m)') + Cardinality(Resumes) + (m + 1)
            <= Cardinality(AllActive) + Cardinality(Within(m + 1)) + Cardinality(Resumes') + m
      BY <1>3, <3>3, <3>4
    <3>6. QED
      BY <3>1, <3>5 DEF Outweighed
  <2>2. CASE r \notin AllActive
    <3>1. AllActive' = AllActive
      BY <1>4, <2>2
    <3>2. ASSUME NEW d \in Within(m)'
          PROVE  d \in Within(m)
      <4>1. pc'[d] \in {"counting", "creating"} /\ d \in Callers
        BY <3>2 DEF Within
      <4>2. pc'[d] = pc[d] /\ tally'[d] = tally[d]
        BY <4>1
      <4>3. Unseen(d)' = Unseen(d)
        BY <1>1, <3>1, <4>2 DEF Unseen, AllActive
      <4>4. Foreseen(d)' = Foreseen(d)
        BY <4>2, <4>3 DEF Foreseen
      <4>5. QED
        BY <3>2, <4>1, <4>2, <4>4 DEF Within
    <3>3. QED
      BY <1>2, <1>3, <1>7, <3>1, <3>2, Settles
  <2>3. QED
    BY <2>1, <2>2
<1>8. QED
  BY <1>2, <1>3, <1>7, Carried

\* A resumed run is counted among the resumes.
LEMMA ResumeCarries ==
  ASSUME WorkspaceInv, RunsInv, RunsInv', UNCHANGED <<limit, pc, tally>>,
         NEW r \in DOMAIN runs, Update(r, "queued"),
         resumed' = [resumed EXCEPT ![runs[r].task] = @ + 1]
  PROVE  WorkspaceInv'
<1>1. runs' \in Seq(Run) /\ DOMAIN runs' = DOMAIN runs /\ \A q \in DOMAIN runs :
        runs'[q].task = runs[q].task /\ runs'[q].status = IF q = r THEN "queued" ELSE runs[q].status
  BY Updated DEF RunsInv
<1>2. Len(runs) \in Nat /\ Len(runs') = Len(runs) /\ limit.workspace \in Nat
  <2>1. limit.workspace \in Nat
    BY RunsAssumption DEF RunsInv, TypeOK
  <2>2. runs \in Seq(Run) /\ runs' \in Seq(Run) /\ runs' = [runs EXCEPT ![r].status = "queued"]
    BY <1>1 DEF RunsInv, TypeOK, Update
  <2>3. Len(runs') = Len(runs) /\ Len(runs) \in Nat
    BY <2>2, ExceptLen
  <2>4. QED
    BY <2>1, <2>3
<1>3. /\ IsFiniteSet(Resumes') /\ Cardinality(Resumes) \in Nat /\ Cardinality(Resumes') \in Nat
      /\ Cardinality(Resumes') = Cardinality(Resumes) + 1
  <2> DEFINE t == runs[r].task
             last == <<t, resumed[t] + 1>>
  <2>1. t \in Tasks /\ resumed \in [Tasks -> Nat]
    BY RowTasks DEF RunsInv, TypeOK
  <2>2. /\ resumed'[t] = resumed[t] + 1 /\ resumed[t] \in Nat
        /\ \A u \in Tasks : u # t => resumed'[u] = resumed[u]
    BY <2>1
  <2> HIDE DEF t
  <2>3. 1..(resumed[t] + 1) = (1..resumed[t]) \union {resumed[t] + 1} /\ resumed[t] + 1 \notin 1..resumed[t]
    BY <2>2
  <2>4. last \notin Resumes
    BY <2>3 DEF Resumes
  <2>5. Resumes' = Resumes \union {last}
    <3>1. ASSUME NEW x \in Resumes'
          PROVE  x \in Resumes \union {last}
      <4>1. PICK u \in Tasks : x \in {u} \X (1..resumed'[u])
        BY DEF Resumes
      <4>2. QED
        BY <2>2, <2>3, <4>1 DEF Resumes
    <3>2. ASSUME NEW x \in Resumes \union {last}
          PROVE  x \in Resumes'
      <4>1. CASE x = last
        BY <2>1, <2>2, <2>3, <4>1 DEF Resumes
      <4>2. CASE x \in Resumes
        <5>1. PICK u \in Tasks : x \in {u} \X (1..resumed[u])
          BY <4>2 DEF Resumes
        <5>2. QED
          BY <2>2, <2>3, <5>1 DEF Resumes
      <4>3. QED
        BY <3>2, <4>1, <4>2
    <3>3. QED
      BY <3>1, <3>2
  <2>6. IsFiniteSet(Resumes)
    BY DEF WorkspaceInv
  <2> HIDE DEF last
  <2>7. IsFiniteSet(Resumes') /\ Cardinality(Resumes') = Cardinality(Resumes) + 1 /\ Cardinality(Resumes) \in Nat
    BY <2>4, <2>5, <2>6, FS_AddElement, FS_CardinalityType
  <2>8. QED
    BY <2>7
<1>4. Fresh'
  BY DEF WorkspaceInv, Fresh
<1>5. AllActive' = AllActive \union {r}
  BY <1>1 DEF AllActive, Active
<1>6. /\ Cardinality(AllActive) \in Nat /\ Cardinality(AllActive') \in Nat /\ IsFiniteSet(AllActive')
      /\ Cardinality(AllActive') <= Cardinality(AllActive) + 1
  BY <1>5, ActiveFinite, OneMore DEF RunsInv
<1>7. ASSUME NEW m \in Nat, m >= limit.workspace - 1
      PROVE  Outweighed(m)
  <2>1. ASSUME NEW d \in Within(m)', pc[d] = "counting"
        PROVE  Foreseen(d) <= m
    <3>1. d \in Callers /\ Foreseen(d)' <= m
      BY <2>1 DEF Within
    <3>2. Unseen(d) \subseteq Unseen(d)' /\ Unseen(d)' \subseteq AllActive'
      BY <1>1, <1>5 DEF Unseen, AllActive
    <3>3. /\ Cardinality(Unseen(d)) \in Nat /\ Cardinality(Unseen(d)') \in Nat
          /\ Cardinality(Unseen(d)) <= Cardinality(Unseen(d)')
      BY <1>6, <3>2, SubsetCount
    <3>4. tally[d].count \in Nat
      BY <3>1, TallyType DEF RunsInv
    <3>5. QED
      BY <3>1, <3>3, <3>4 DEF Foreseen
  <2>2. Within(m)' \subseteq Within(m)
    BY <2>1 DEF Within
  <2>3. /\ Cardinality(Within(m)) \in Nat /\ Cardinality(Within(m)') \in Nat
        /\ Cardinality(Within(m)') <= Cardinality(Within(m))
    BY <2>2, WithinFinite, SubsetCount
  <2>4. Cardinality(AllActive') + Cardinality(Within(m)') + Cardinality(Resumes) + m
          <= Cardinality(AllActive) + Cardinality(Within(m)) + Cardinality(Resumes') + m
    BY <1>3, <1>6, <2>3
  <2>5. QED
    BY <1>7, <2>4 DEF Outweighed
<1>8. QED
  BY <1>2, <1>3, <1>4, <1>7, Carried

LEMMA CallerCarries ==
  ASSUME WorkspaceInv, RunsInv, RunsInv', NEW c \in Callers, Step(c), UNCHANGED limit
  PROVE  WorkspaceInv'
<1> USE DEF outside, bounds
<1>1. CASE Complete(c) \/ Fail(c)
  <2>1. mine[c] \in DOMAIN runs
    BY <1>1 DEF Complete, Fail, RunsInv, CallerInv, Executing
  <2>2. UNCHANGED resumed /\ (Update(mine[c], "completed") \/ Update(mine[c], "failed"))
    BY <1>1 DEF Complete, Fail
  <2>3. pc \in [Callers -> Label] /\ tally \in [Callers -> [seen : SUBSET Tasks, count : Nat]]
    BY DEF RunsInv, TypeOK
  <2>4. /\ pc'[c] \in {"storing", "idle"} /\ (pc'[c] = "idle" => tally'[c] = NoTally)
        /\ \A d \in Callers \ {c} : pc'[d] = pc[d] /\ tally'[d] = tally[d]
    BY <1>1, <2>3 DEF Complete, Fail, Leave, Goto
  <2>5. Fresh'
    BY <2>4 DEF WorkspaceInv, Fresh
  <2>6. \A d \in Callers : pc'[d] \in {"counting", "creating"} => pc'[d] = pc[d] /\ tally'[d] = tally[d]
    BY <2>4
  <2>7. QED
    BY <2>1, <2>2, <2>5, <2>6, EndCarries
<1>2. QED
  BY <1>1, QuietCarries, CheckTaskCarries, CountTaskCarries, CreateCarries DEF Step

LEMMA OperatorCarries ==
  ASSUME WorkspaceInv, RunsInv, RunsInv', OperatorWrites, UNCHANGED limit
  PROVE  WorkspaceInv'
<1>1. PICK p \in pending :
        /\ Update(p[2], status_written(p[1]))
        /\ resumed' = [resumed EXCEPT ![runs[p[2]].task] = @ + (IF p[1] = "resume" THEN 1 ELSE 0)]
  BY DEF OperatorWrites
<1>2. p[2] \in DOMAIN runs /\ runs[p[2]].task \in Tasks /\ p[1] \in {"cancel", "resume", "reconcile"}
  BY RowTasks DEF RunsInv, TypeOK
<1>3. resumed \in [Tasks -> Nat]
  BY DEF RunsInv, TypeOK
<1>4. UNCHANGED <<pc, tally>>
  BY DEF OperatorWrites
<1>5. CASE p[1] # "resume"
  <2>1. resumed' = resumed /\ status_written(p[1]) = "blocked"
    BY <1>1, <1>2, <1>3, <1>5 DEF status_written
  <2>2. Fresh'
    BY <1>4 DEF WorkspaceInv, Fresh
  <2>3. QED
    BY <1>1, <1>2, <1>4, <2>1, <2>2, EndCarries
<1>6. CASE p[1] = "resume"
  <2>1. resumed' = [resumed EXCEPT ![runs[p[2]].task] = @ + 1] /\ status_written(p[1]) = "queued"
    BY <1>1, <1>6 DEF status_written
  <2>2. QED
    BY <1>1, <1>2, <1>4, <2>1, ResumeCarries
<1>7. QED
  BY <1>5, <1>6

LEMMA WorkspaceInit == Init => WorkspaceInv
<1>1. SUFFICES ASSUME Init
               PROVE  WorkspaceInv
  OBVIOUS
<1>2. \A t \in Tasks : resumed[t] = 0
  BY <1>1 DEF Init
<1>3. Resumes = {}
  <2>1. \A t \in Tasks : 1..resumed[t] = {}
    BY <1>2
  <2>2. QED
    BY <2>1 DEF Resumes
<1>4. AllActive = {}
  BY <1>1 DEF Init, AllActive
<1>5. Fresh
  BY <1>1 DEF Init, Fresh
<1>6. \A m \in Nat : Cardinality(Within(m)) <= Cardinality(Callers) /\ Cardinality(Within(m)) \in Nat
                     /\ Cardinality(Callers) \in Nat
  BY WithinFinite
<1>7. Cardinality(AllActive) = 0 /\ Cardinality(Resumes) = 0 /\ IsFiniteSet(Resumes)
  BY <1>3, <1>4, FS_EmptySet
<1>8. QED
  BY <1>5, <1>6, <1>7 DEF WorkspaceInv

LEMMA WorkspaceNext == RunsInv /\ WorkspaceInv /\ [Next]_vars => WorkspaceInv'
<1>1. SUFFICES ASSUME RunsInv, WorkspaceInv, [Next]_vars
               PROVE  WorkspaceInv'
  OBVIOUS
<1>2. RunsInv'
  BY <1>1, RunsNext
<1>3. CASE UNCHANGED vars \/ (UNCHANGED limit /\ (cancel_run \/ resume_run \/ reconcile_stale_runs \/ Age))
  <2>1. UNCHANGED <<limit, resumed, runs, pc, tally>>
    BY <1>3 DEF vars, cancel_run, resume_run, reconcile_stale_runs, Age, Decided, outside
  <2>2. QED
    BY <1>1, <2>1 DEF WorkspaceInv, Fresh, AllActive, Within, Foreseen, Unseen, Resumes
<1>4. QED
  BY <1>1, <1>2, <1>3, CallerCarries, OperatorCarries DEF Next

\* Racing callers overshoot the limit per workspace by less than one run each, and by the
\* runs that operators resumed, although each counts the tasks one after another
\* (_enforce_concurrency_limits); the rows are at most ListLimit.
THEOREM WorkspaceLimitOvershoot == Spec => []WorkspaceLimitWithinSlack
<1>1. RunsInv /\ WorkspaceInv => WorkspaceLimitWithinSlack
  <2>1. SUFFICES ASSUME RunsInv, WorkspaceInv, Len(runs) <= ListLimit
                 PROVE  Cardinality(AllActive) < limit.workspace + Cardinality(Callers) + Cardinality(Resumes)
    BY DEF WorkspaceLimitWithinSlack, AllActive
  <2>2. limit.workspace \in Nat \ {0}
    BY <2>1, RunsAssumption DEF RunsInv, TypeOK
  <2>3. limit.workspace - 1 \in Nat
    BY <2>2
  <2>4. Cardinality(AllActive) + Cardinality(Within(limit.workspace - 1))
          <= Cardinality(Callers) + Cardinality(Resumes) + (limit.workspace - 1)
    BY <2>1, <2>2, <2>3 DEF WorkspaceInv
  <2>5. /\ Cardinality(AllActive) \in Nat /\ Cardinality(Within(limit.workspace - 1)) \in Nat
        /\ Cardinality(Callers) \in Nat /\ Cardinality(Resumes) \in Nat
    <3>1. Cardinality(Resumes) \in Nat
      BY <2>1, FS_CardinalityType DEF WorkspaceInv
    <3>2. QED
      BY <2>1, <3>1, ActiveFinite, WithinFinite DEF RunsInv
  <2>6. QED
    BY <2>2, <2>4, <2>5
<1>2. QED
  BY <1>1, RunsAlways, WorkspaceInit, WorkspaceNext, PTL DEF Spec
=============================================================================
