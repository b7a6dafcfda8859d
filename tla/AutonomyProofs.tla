--------------------------- MODULE AutonomyProofs ---------------------------
(***************************************************************************)
(* Theorems about Autonomy, for any number of workers, any settings and    *)
(* any number of crashes and operator decisions.  Those about its gates    *)
(* follow from two facts: the log only grows, and what let a stage past    *)
(* the gate is still in the log when the stage starts.                     *)
(***************************************************************************)
EXTENDS Autonomy, Extrema, SequenceTheorems, TLAPS

-----------------------------------------------------------------------------
(* The log *)

\* The log is only ever extended, by events of the right type.
Grows ==
  /\ log' \in Seq(EventType)
  /\ Len(log) <= Len(log')
  /\ \A i \in 1..Len(log) : log'[i] = log[i]

\* The events the engine builds are typed.
LEMMA EventTyped ==
  ASSUME NEW kind \in EventKind, NEW stage \in Stage \union {"none"}, NEW c \in 1..MaxCycles
  PROVE  /\ Event(kind, stage, c) \in EventType
         /\ \A ok \in BOOLEAN : [Event(kind, stage, c) EXCEPT !.ok = ok] \in EventType
         /\ \A sig \in Signature : [Event(kind, stage, c) EXCEPT !.sig = sig] \in EventType
BY DEF Event, EventType, NoSig, Signature

LEMMA RecordGrows ==
  ASSUME log \in Seq(EventType), NEW e \in EventType, log' = Append(log, e)
  PROVE  Grows /\ Len(log') = Len(log) + 1 /\ log'[Len(log) + 1] = e
BY AppendProperties DEF Grows

LEMMA RecordBothGrows ==
  ASSUME log \in Seq(EventType), NEW d \in EventType, NEW e \in EventType,
         log' = Append(Append(log, d), e)
  PROVE  /\ Grows
         /\ Len(log') = Len(log) + 2
         /\ log'[Len(log) + 1] = d
         /\ log'[Len(log) + 2] = e
BY AppendProperties DEF Grows

LEMMA SameLogGrows ==
  ASSUME log \in Seq(EventType), log' = log
  PROVE  Grows
BY DEF Grows

\* Positions read from the log stay positions of it.
LEMMA ContextGrows ==
  ASSUME log \in Seq(EventType), Grows
  PROVE  DOMAIN log \subseteq DOMAIN log' /\ CtxType \subseteq CtxType'
<1>1. DOMAIN log = 1..Len(log) /\ DOMAIN log' = 1..Len(log')
  BY DEF Grows
<1>2. Len(log) \in Nat /\ Len(log') \in Nat
  BY DEF Grows
<1>3. DOMAIN log \subseteq DOMAIN log'
  BY <1>1, <1>2 DEF Grows
<1>4. QED
  BY <1>3 DEF CtxType

-----------------------------------------------------------------------------
(* What a pass reads *)

LEMMA WhereLatest ==
  ASSUME log \in Seq(EventType), NEW V \in SUBSET DOMAIN log, NEW kind,
         Where(V, kind) # {}
  PROVE  /\ Max(Where(V, kind)) \in Where(V, kind)
         /\ log[Max(Where(V, kind))] \in EventType
<1>1. Where(V, kind) \in SUBSET (1..Len(log)) /\ Len(log) \in Nat
  BY DEF Where
<1>2. Max(Where(V, kind)) \in Where(V, kind)
  BY <1>1, MaxIsGreatest
<1>3. QED
  BY <1>1, <1>2, ElementOfSeq

LEMMA CurrentCycleTyped ==
  ASSUME log \in Seq(EventType), NEW V \in SUBSET DOMAIN log
  PROVE  current_cycle(V) \in 1..MaxCycles
<1>1. CASE Where(V, "cycle.started") = {}
  BY <1>1, SettingsAssumption DEF current_cycle
<1>2. CASE Where(V, "cycle.started") # {}
  <2>1. log[Max(Where(V, "cycle.started"))] \in EventType
    BY <1>2, WhereLatest
  <2>2. QED
    BY <1>2, <2>1 DEF current_cycle, EventType
<1>3. QED
  BY <1>1, <1>2

\* next_stage names a stage whose predecessors are all complete in the cycle.
LEMMA NextStageInOrder ==
  ASSUME NEW V, NEW c
  PROVE  /\ next_stage(V, c) \in Stage \union {"none"}
         /\ \A m, n \in DOMAIN AUTONOMY_STAGES :
              n < m /\ next_stage(V, c) = AUTONOMY_STAGES[m] =>
                AUTONOMY_STAGES[n] \in completed_stages(V, c)
<1> DEFINE left == {n \in DOMAIN AUTONOMY_STAGES :
                      AUTONOMY_STAGES[n] \notin completed_stages(V, c)}
<1>0. DOMAIN AUTONOMY_STAGES = {1, 2, 3} /\ AUTONOMY_STAGES[1] = "plan"
        /\ AUTONOMY_STAGES[2] = "execute" /\ AUTONOMY_STAGES[3] = "review"
  BY DEF AUTONOMY_STAGES
<1>1. next_stage(V, c) = IF left = {} THEN "none" ELSE AUTONOMY_STAGES[Min(left)]
  BY DEF next_stage
<1>2. CASE left = {}
  BY <1>0, <1>1, <1>2
<1>3. CASE left # {}
  <2>1. left \in SUBSET Nat
    BY <1>0
  <2>2. Min(left) \in left /\ \A y \in left : Min(left) <= y
    BY <1>3, <2>1, MinIsLeast
  <2>3. next_stage(V, c) \in Stage
    BY <1>0, <1>1, <1>3, <2>2 DEF Stage
  <2>4. ASSUME NEW m \in DOMAIN AUTONOMY_STAGES, NEW n \in DOMAIN AUTONOMY_STAGES,
               n < m, next_stage(V, c) = AUTONOMY_STAGES[m]
        PROVE  AUTONOMY_STAGES[n] \in completed_stages(V, c)
    <3>1. Min(left) = m
      BY <1>0, <1>1, <1>3, <2>2, <2>4
    <3>2. n \notin left
      BY <1>0, <2>2, <2>4, <3>1
    <3>3. QED
      BY <3>2
  <2>5. QED
    BY <2>3, <2>4
<1>4. QED
  BY <1>2, <1>3

LEMMA ClassifyTyped ==
  ASSUME log \in Seq(EventType), NEW V \in SUBSET DOMAIN log, NEW own \in Signature
  PROVE  classify_failure(V, own) \in Signature
<1>1. CASE Where(V, "diagnosis") = {}
  BY <1>1 DEF classify_failure
<1>2. CASE Where(V, "diagnosis") # {}
  <2>1. log[Max(Where(V, "diagnosis"))] \in EventType
    BY <1>2, WhereLatest
  <2>2. QED
    BY <1>2, <2>1 DEF classify_failure, EventType
<1>3. QED
  BY <1>1, <1>2

-----------------------------------------------------------------------------
(* Type correctness.  A pass that is about to replan has a cycle left.      *)

LEMMA NoCtxTyped == NoCtx \in CtxType /\ NoCtx \in CtxType'
BY SettingsAssumption DEF NoCtx, CtxType, NoSig, Signature

TypeInv ==
  /\ TypeOK
  /\ \A w \in Workers : pc[w] = "replanning" => ctx[w].cycle < MaxCycles

\* A step of a pass that leaves a typed context keeps the types.
LEMMA PassTyped ==
  ASSUME TypeInv, Grows, NEW w \in Workers,
         NEW c \in CtxType', NEW label \in Label,
         label = "replanning" => c.cycle < MaxCycles,
         ctx' = [ctx EXCEPT ![w] = c], pc' = [pc EXCEPT ![w] = label],
         status' \in {"new", "in_progress", "blocked", "completed"},
         UNCHANGED ripe, deaths' \in Nat
  PROVE  TypeInv'
<1>1. ripe' \subseteq DOMAIN log' /\ CtxType \subseteq CtxType'
  BY ContextGrows DEF TypeInv, TypeOK
<1>2. ctx' \in [Workers -> CtxType'] /\ pc' \in [Workers -> Label]
  BY <1>1 DEF TypeInv, TypeOK
<1>3. ASSUME NEW v \in Workers, pc'[v] = "replanning"
      PROVE  ctx'[v].cycle < MaxCycles
  BY <1>3 DEF TypeInv, TypeOK
<1>4. QED
  BY <1>1, <1>2, <1>3 DEF TypeInv, TypeOK, Grows

\* A pass that ends keeps the types.
LEMMA ReturnTyped ==
  ASSUME TypeInv, Grows, NEW w \in Workers, Return(w),
         status' \in {"new", "in_progress", "blocked", "completed"},
         UNCHANGED ripe, deaths' \in Nat
  PROVE  TypeInv'
<1>1. NoCtx \in CtxType'
  BY NoCtxTyped
<1>2. QED
  BY <1>1, PassTyped DEF Return, Goto, Label

\* The contexts and events of a pass in progress.
LEMMA ContextTyped ==
  ASSUME TypeInv, NEW w \in Workers
  PROVE  /\ ctx[w] \in CtxType
         /\ ctx[w].stage \in Stage \union {"none"}
         /\ ctx[w].cycle \in 1..MaxCycles
         /\ ctx[w].seen \in SUBSET DOMAIN log
         /\ ctx[w].sig \in Signature
         /\ log \in Seq(EventType)
         /\ status \in {"new", "in_progress", "blocked", "completed"}
         /\ deaths \in Nat
         /\ Recent \in SUBSET DOMAIN log
         /\ \A kind \in EventKind : MyEvent(w, kind) \in EventType
         /\ \A kind \in EventKind : Event(kind, "none", 1) \in EventType
<1>1. ctx[w] \in CtxType
  BY DEF TypeInv, TypeOK
<1>2. /\ ctx[w].stage \in Stage \union {"none"} /\ ctx[w].cycle \in 1..MaxCycles
      /\ ctx[w].seen \in SUBSET DOMAIN log /\ ctx[w].sig \in Signature
  BY <1>1 DEF CtxType
<1>3. \A kind \in EventKind : MyEvent(w, kind) \in EventType
  BY <1>2, EventTyped DEF MyEvent
<1>4. \A kind \in EventKind : Event(kind, "none", 1) \in EventType
  BY SettingsAssumption, EventTyped
<1>5. QED
  BY <1>1, <1>2, <1>3, <1>4 DEF TypeInv, TypeOK, Recent

LEMMA TypeInit == Init => TypeInv
<1> SUFFICES ASSUME Init PROVE TypeInv
  OBVIOUS
<1>1. log \in Seq(EventType)
  <2>1. "preferences" \in EventKind /\ 1 \in 1..MaxCycles /\ NeedsApproval \in BOOLEAN
    BY SettingsAssumption DEF EventKind
  <2>2. [Event("preferences", "none", 1) EXCEPT !.ok = NeedsApproval] \in EventType
    BY <2>1, EventTyped
  <2>3. QED
    BY <2>2 DEF Init, Flagged
<1>2. NoCtx \in CtxType
  BY NoCtxTyped
<1>3. QED
  BY <1>1, <1>2 DEF Init, TypeInv, TypeOK, Label

\* A step that opens the next cycle opens one that exists.
LEMMA NextCycleTyped ==
  ASSUME NEW c \in 1..MaxCycles, c < MaxCycles
  PROVE  CycleStarted(c + 1) \in EventType
<1>1. c + 1 \in 1..MaxCycles /\ "cycle.started" \in EventKind
  BY SettingsAssumption DEF EventKind
<1>2. QED
  BY <1>1, EventTyped DEF CycleStarted

\* One fact per action: it keeps the types.
LEMMA TypePick == ASSUME TypeInv, NEW w \in Workers, Pick(w) PROVE TypeInv'
<1> DEFINE c == [NoCtx EXCEPT !.required = requires_approval(Recent), !.seen = Recent, !.now = ripe]
<1>1. Event("mode.adjusted", "none", 1) \in EventType
  BY ContextTyped DEF EventKind
<1>2. Grows
  BY <1>1, ContextTyped, RecordGrows, SameLogGrows DEF Pick
<1>3. c \in CtxType
  <2>1. requires_approval(Recent) \in BOOLEAN
    <3>1. CASE Where(Recent, "preferences") = {}
      BY <3>1 DEF requires_approval
    <3>2. CASE Where(Recent, "preferences") # {}
      <4>1. log[Max(Where(Recent, "preferences"))] \in EventType
        BY <3>2, WhereLatest, ContextTyped
      <4>2. log[Max(Where(Recent, "preferences"))].ok \in BOOLEAN
        BY <4>1 DEF EventType
      <4>3. QED
        BY <3>2, <4>2, Zenon DEF requires_approval
    <3>3. QED
      BY <3>1, <3>2
  <2>2. Recent \in SUBSET DOMAIN log /\ ripe \in SUBSET DOMAIN log
    BY ContextTyped DEF TypeInv, TypeOK
  <2>3. NoCtx \in CtxType
    BY NoCtxTyped
  <2>4. QED
    BY <2>1, <2>2, <2>3 DEF CtxType
<1>4. c \in CtxType'
  BY <1>2, <1>3, ContextGrows, ContextTyped
<1>5. PICK label \in {"overspent", "picked"} : Goto(w, label)
  BY DEF Pick
<1>6. ctx' = [ctx EXCEPT ![w] = c]
  BY DEF Pick
<1>7. status' \in {"new", "in_progress", "blocked", "completed"} /\ UNCHANGED ripe /\ deaths' \in Nat
  BY ContextTyped DEF Pick
<1>8. QED
  BY <1>2, <1>4, <1>5, <1>6, <1>7, PassTyped DEF Goto, Label

LEMMA TypeAdmit == ASSUME TypeInv, NEW w \in Workers, Admit(w) PROVE TypeInv'
<1>1. Event("started", "none", 1) \in EventType /\ CycleStarted(1) \in EventType
  BY ContextTyped DEF EventKind, CycleStarted
<1>2. Grows
  BY <1>1, ContextTyped, RecordBothGrows, SameLogGrows DEF Admit, RecordBoth
<1>3. PICK cycle \in 1..MaxCycles : ctx' = [ctx EXCEPT ![w].cycle = cycle]
  BY SettingsAssumption, ContextTyped, CurrentCycleTyped DEF Admit
<1>4. [ctx[w] EXCEPT !.cycle = cycle] \in CtxType'
  BY <1>2, ContextTyped, ContextGrows DEF CtxType
<1>5. ctx' = [ctx EXCEPT ![w] = [ctx[w] EXCEPT !.cycle = cycle]]
  BY <1>3
<1>6. status' \in {"new", "in_progress", "blocked", "completed"} /\ UNCHANGED ripe /\ deaths' \in Nat
  BY ContextTyped DEF Admit
<1>7. QED
  BY <1>2, <1>4, <1>5, <1>6, PassTyped DEF Admit, Goto, Label

LEMMA TypeGate == ASSUME TypeInv, NEW w \in Workers, Gate(w) PROVE TypeInv'
<1> DEFINE stage == next_stage(Recent, ctx[w].cycle)
           label == verdict(Recent, stage, ctx[w].cycle, ctx[w].required, ctx[w].now)
           c == [ctx[w] EXCEPT !.stage = stage, !.seen = Recent]
<1>1. Grows
  BY ContextTyped, SameLogGrows DEF Gate
<1>2. status' \in {"new", "in_progress", "blocked", "completed"} /\ UNCHANGED ripe /\ deaths' \in Nat
  BY ContextTyped DEF Gate
<1>3. CASE label = "idle"
  BY <1>1, <1>2, <1>3, ReturnTyped DEF Gate
<1>4. CASE label # "idle"
  <2>1. stage \in Stage \union {"none"}
    BY NextStageInOrder
  <2>2. c \in CtxType'
    BY <1>1, <2>1, ContextTyped, ContextGrows DEF CtxType
  <2>3. label \in Label /\ label # "replanning"
    BY DEF verdict, Label
  <2>4. ctx' = [ctx EXCEPT ![w] = c] /\ Goto(w, label)
    BY <1>4 DEF Gate
  <2>5. QED
    BY <1>1, <1>2, <2>2, <2>3, <2>4, PassTyped DEF Goto
<1>5. QED
  BY <1>3, <1>4

\* The actions that end the pass, after at most one or two events.
LEMMA TypeEnds ==
  ASSUME TypeInv, NEW w \in Workers,
         \/ Overspend(w) \/ RequestApproval(w) \/ RefuseTask(w) \/ DeferForPlan(w)
         \/ ScheduleRetry(w) \/ Replan(w) \/ GiveUp(w) \/ FailQuality(w)
         \/ PassStage(w) \/ Finalize(w) \/ Die(w)
  PROVE  TypeInv'
<1> USE ContextTyped
<1>1. ~last_cycle(w) => CycleStarted(ctx[w].cycle + 1) \in EventType
  BY NextCycleTyped, SettingsAssumption DEF last_cycle
<1>2. /\ \A e \in EventType : Record(e) => Grows
      /\ \A d, e \in EventType : RecordBoth(d, e) => Grows
      /\ UNCHANGED log => Grows
  BY RecordGrows, RecordBothGrows, SameLogGrows DEF Record, RecordBoth
<1>3. Event("approval.requested", "execute", 1) \in EventType
  BY SettingsAssumption, EventTyped DEF EventKind, Stage
<1>4. CASE Overspend(w)
  BY <1>2, <1>4, ReturnTyped DEF Overspend, Block, EventKind
<1>5. CASE RequestApproval(w)
  BY <1>2, <1>3, <1>5, ReturnTyped DEF RequestApproval
<1>6. CASE RefuseTask(w)
  BY <1>2, <1>6, ReturnTyped DEF RefuseTask, Block, EventKind
<1>7. CASE DeferForPlan(w)
  BY <1>1, <1>2, <1>7, ReturnTyped DEF DeferForPlan, Block, EventKind
<1>8. CASE ScheduleRetry(w)
  BY <1>2, <1>8, ReturnTyped DEF ScheduleRetry, EventKind
<1>9. CASE Replan(w)
  <2>1. ctx[w].cycle < MaxCycles
    BY <1>9 DEF Replan, TypeInv
  <2>2. QED
    BY <1>2, <1>9, <2>1, NextCycleTyped, ReturnTyped DEF Replan
<1>10. CASE GiveUp(w)
  BY <1>2, <1>10, ReturnTyped DEF GiveUp, Block, EventKind
<1>11. CASE FailQuality(w)
  <2>1. "quality.failed" \in EventKind /\ ctx[w].sig \in Signature
    BY DEF EventKind
  <2>2. [MyEvent(w, "quality.failed") EXCEPT !.sig = ctx[w].sig] \in EventType
    BY <2>1, EventTyped DEF MyEvent
  <2>3. QED
    BY <1>1, <1>2, <1>11, <2>2, ReturnTyped DEF FailQuality, Block, EventKind
<1>12. CASE PassStage(w)
  BY <1>2, <1>12, ReturnTyped DEF PassStage, EventKind
<1>13. CASE Finalize(w)
  BY <1>2, <1>13, ReturnTyped DEF Finalize, EventKind
<1>14. CASE Die(w)
  BY <1>2, <1>14, ReturnTyped DEF Die
<1>15. QED
  BY <1>4, <1>5, <1>6, <1>7, <1>8, <1>9, <1>10, <1>11, <1>12, <1>13, <1>14

LEMMA TypeStartStage == ASSUME TypeInv, NEW w \in Workers, StartStage(w) PROVE TypeInv'
<1>1. Grows
  BY ContextTyped, RecordGrows DEF StartStage, Record, EventKind
<1>2. ctx[w] \in CtxType' /\ ctx' = [ctx EXCEPT ![w] = ctx[w]]
  BY <1>1, ContextTyped, ContextGrows DEF StartStage, TypeInv, TypeOK
<1>3. QED
  BY <1>1, <1>2, ContextTyped, PassTyped DEF StartStage, Goto, Label

LEMMA TypeStageReturns == ASSUME TypeInv, NEW w \in Workers, StageReturns(w) PROVE TypeInv'
<1>1. PICK passed \in BOOLEAN, reason \in Reasons :
        /\ Record([MyEvent(w, "stage.completed") EXCEPT !.ok = passed])
        /\ ctx' = [ctx EXCEPT ![w].passed = passed,
                              ![w].sig = IF passed THEN NoSig ELSE <<"quality", reason>>]
  BY DEF StageReturns
<1> DEFINE sig == IF passed THEN NoSig ELSE <<"quality", reason>>
           c == [ctx[w] EXCEPT !.passed = passed, !.sig = sig]
<1>2. Grows
  <2>1. [MyEvent(w, "stage.completed") EXCEPT !.ok = passed] \in EventType
    BY ContextTyped, EventTyped DEF MyEvent, EventKind
  <2>2. QED
    BY <1>1, <2>1, ContextTyped, RecordGrows DEF Record
<1>3. sig \in Signature
  BY DEF Signature, NoSig
<1>4. c \in CtxType'
  BY <1>2, <1>3, ContextTyped, ContextGrows DEF CtxType
<1>5. ctx' = [ctx EXCEPT ![w] = c]
  BY <1>1
<1>6. QED
  BY <1>2, <1>4, <1>5, ContextTyped, PassTyped DEF StageReturns, Goto, Label

LEMMA TypeStageRaises == ASSUME TypeInv, NEW w \in Workers, StageRaises(w) PROVE TypeInv'
<1>1. PICK cause \in RaisedIn(ctx[w].stage), reason \in Reasons :
        /\ IF cause \in Diagnosed
           THEN Record(Signed("diagnosis", "none", 1, <<cause, reason>>)) ELSE UNCHANGED log
        /\ ctx' = [ctx EXCEPT ![w].sig = <<cause, reason>>]
  BY DEF StageRaises
<1> DEFINE c == [ctx[w] EXCEPT !.sig = <<cause, reason>>]
<1>2. <<cause, reason>> \in Signature
  BY DEF RaisedIn, Signature
<1>3. Grows
  <2>1. "diagnosis" \in EventKind /\ 1 \in 1..MaxCycles
    BY SettingsAssumption DEF EventKind
  <2>2. Signed("diagnosis", "none", 1, <<cause, reason>>) \in EventType
    BY <1>2, <2>1, EventTyped DEF Signed
  <2>3. QED
    BY <1>1, <2>2, ContextTyped, RecordGrows, SameLogGrows DEF Record
<1>4. c \in CtxType'
  BY <1>2, <1>3, ContextTyped, ContextGrows DEF CtxType
<1>5. ctx' = [ctx EXCEPT ![w] = c]
  BY <1>1
<1>6. QED
  BY <1>3, <1>4, <1>5, ContextTyped, PassTyped DEF StageRaises, Goto, Label

LEMMA TypeRecordFailure == ASSUME TypeInv, NEW w \in Workers, RecordFailure(w) PROVE TypeInv'
<1> DEFINE sig == classify_failure(Recent, ctx[w].sig)
<1>1. CASE low_information(Recent, "stage.failed", ctx[w].stage, sig)
  <2>1. Grows
    BY <1>1, ContextTyped, RecordGrows DEF RecordFailure, Block, Record, EventKind
  <2>2. QED
    BY <1>1, <2>1, ContextTyped, ReturnTyped DEF RecordFailure, Block
<1>2. CASE ~low_information(Recent, "stage.failed", ctx[w].stage, sig)
  <2>1. [MyEvent(w, "stage.failed") EXCEPT !.sig = sig] \in EventType
    <3>1. sig \in Signature
      BY ContextTyped, ClassifyTyped
    <3>2. QED
      BY <3>1, ContextTyped, EventTyped DEF MyEvent, EventKind
  <2>2. Grows
    BY <1>2, <2>1, ContextTyped, RecordGrows DEF RecordFailure, Record
  <2>3. /\ after_failure(w, sig) \in Label
        /\ after_failure(w, sig) = "replanning" => ctx[w].cycle < MaxCycles
    BY ContextTyped, SettingsAssumption DEF after_failure, last_cycle, Label
  <2>4. ctx[w] \in CtxType' /\ ctx' = [ctx EXCEPT ![w] = ctx[w]]
    BY <1>2, <2>2, ContextTyped, ContextGrows DEF RecordFailure, TypeInv, TypeOK
  <2>5. QED
    BY <1>2, <2>2, <2>3, <2>4, ContextTyped, PassTyped DEF RecordFailure, Goto
<1>3. QED
  BY <1>1, <1>2

LEMMA TypePassReview == ASSUME TypeInv, NEW w \in Workers, PassReview(w) PROVE TypeInv'
<1>1. Grows
  BY ContextTyped, SameLogGrows DEF PassReview
<1>2. ctx[w] \in CtxType' /\ ctx' = [ctx EXCEPT ![w] = ctx[w]]
  BY <1>1, ContextTyped, ContextGrows DEF PassReview, TypeInv, TypeOK
<1>3. QED
  BY <1>1, <1>2, ContextTyped, PassTyped DEF PassReview, Goto, Label

\* Operator decisions and the clock.
LEMMA TypeOutside ==
  ASSUME TypeInv, (\E approved \in BOOLEAN : Decide(approved)) \/ RetryComesDue
  PROVE  TypeInv'
<1>1. Grows
  <2>1. \A kind \in EventKind : Event(kind, "none", 1) \in EventType
    BY SettingsAssumption, EventTyped
  <2>2. \A ok \in BOOLEAN : Flagged("approval", "none", 1, ok) \in EventType
    BY SettingsAssumption, EventTyped DEF Flagged, EventKind
  <2>3. log \in Seq(EventType)
    BY DEF TypeInv, TypeOK
  <2>4. CASE RetryComesDue
    BY <2>3, <2>4, SameLogGrows DEF RetryComesDue
  <2>5. ASSUME NEW approved \in BOOLEAN, Decide(approved)
        PROVE  Grows
    BY <2>1, <2>2, <2>3, <2>5, RecordGrows, RecordBothGrows
    DEF Decide, Record, RecordBoth, EventKind
  <2>6. QED
    BY <2>4, <2>5
<1>2. /\ DOMAIN log \subseteq DOMAIN log' /\ CtxType \subseteq CtxType'
      /\ ripe' \subseteq DOMAIN log \/ UNCHANGED ripe
      /\ status' \in {"new", "in_progress", "blocked", "completed"}
      /\ UNCHANGED <<pc, ctx, deaths>>
  BY <1>1, ContextGrows DEF TypeInv, TypeOK, Decide, RetryComesDue, Where
<1>3. QED
  BY <1>1, <1>2 DEF TypeInv, TypeOK, Grows

LEMMA TypeNext == TypeInv /\ [Next]_vars => TypeInv'
<1> SUFFICES ASSUME TypeInv, [Next]_vars PROVE TypeInv'
  OBVIOUS
<1>1. ASSUME NEW w \in Workers, Step(w) \/ Die(w)
      PROVE  TypeInv'
  BY <1>1, TypePick, TypeAdmit, TypeGate, TypeEnds, TypeStartStage, TypeStageReturns,
     TypeStageRaises, TypeRecordFailure, TypePassReview DEF Step
<1>2. CASE UNCHANGED vars
  <2>1. CtxType' = CtxType
    BY <1>2 DEF vars, CtxType
  <2>2. QED
    BY <1>2, <2>1 DEF vars, TypeInv, TypeOK
<1>3. QED
  BY <1>1, <1>2, TypeOutside DEF Next

\* Whatever passes race, die or are stale, every variable keeps its type; since
\* an event's cycle is typed, no cycle past autonomy_max_cycles is ever opened.
THEOREM TypeCorrect == Spec => []TypeOK
<1>1. Spec => []TypeInv
  BY TypeInit, TypeNext, PTL DEF Spec
<1>2. TypeInv => TypeOK
  BY DEF TypeInv
<1>3. QED
  BY <1>1, <1>2, PTL

-----------------------------------------------------------------------------
(* What a step adds to the log *)

\* The log grows by events of the kinds K only.
Adds(K) ==
  /\ Grows
  /\ \A i \in DOMAIN log' : i \in DOMAIN log \/ log'[i].kind \in K

\* Only operators approve and only StartStage starts a stage; preferences come first.
Background == EventKind \ {"stage.started", "approval", "preferences"}

LEMMA RecordAdds ==
  ASSUME TypeInv, TypeInv'
  PROVE  /\ \A e, K : Record(e) /\ e.kind \in K => Adds(K)
         /\ \A d, e, K : RecordBoth(d, e) /\ d.kind \in K /\ e.kind \in K => Adds(K)
         /\ \A K : UNCHANGED log => Adds(K)
<1>1. log \in Seq(EventType) /\ log' \in Seq(EventType)
  BY DEF TypeInv, TypeOK
<1>2. ASSUME NEW e, NEW K, Record(e), e.kind \in K
      PROVE  Adds(K)
  <2>1. log \in Seq(EventType \union {e})
    BY <1>1
  <2>2. /\ Len(log') = Len(log) + 1 /\ log'[Len(log) + 1] = e
        /\ \A i \in 1..Len(log) : log'[i] = log[i]
    BY <1>2, <2>1, AppendProperties DEF Record
  <2>3. QED
    BY <1>1, <1>2, <2>2 DEF Adds, Grows
<1>3. ASSUME NEW d, NEW e, NEW K, RecordBoth(d, e), d.kind \in K, e.kind \in K
      PROVE  Adds(K)
  <2>1. log \in Seq(EventType \union {d, e})
    BY <1>1
  <2>2. /\ Len(log') = Len(log) + 2 /\ log'[Len(log) + 1] = d /\ log'[Len(log) + 2] = e
        /\ \A i \in 1..Len(log) : log'[i] = log[i]
    BY <1>3, <2>1, AppendProperties DEF RecordBoth
  <2>3. QED
    BY <1>1, <1>3, <2>2 DEF Adds, Grows
<1>4. ASSUME NEW K, UNCHANGED log
      PROVE  Adds(K)
  BY <1>1, <1>4, SameLogGrows DEF Adds
<1>5. QED
  BY <1>2, <1>3, <1>4

LEMMA KindOfEvent ==
  ASSUME NEW kind
  PROVE  /\ \A stage, c : Event(kind, stage, c).kind = kind
         /\ \A w : MyEvent(w, kind).kind = kind
         /\ \A w, ok : [MyEvent(w, kind) EXCEPT !.ok = ok].kind = kind
         /\ \A w, sig : [MyEvent(w, kind) EXCEPT !.sig = sig].kind = kind
         /\ \A stage, c, ok : Flagged(kind, stage, c, ok).kind = kind
         /\ \A stage, c, sig : Signed(kind, stage, c, sig).kind = kind
BY DEF Event, MyEvent, Flagged, Signed

LEMMA PassAdds ==
  ASSUME TypeInv, TypeInv', NEW w \in Workers, Step(w) \/ Die(w), ~StartStage(w)
  PROVE  Adds(Background)
<1>1. /\ \A e : Record(e) /\ e.kind \in Background => Adds(Background)
      /\ \A d, e : RecordBoth(d, e) /\ d.kind \in Background /\ e.kind \in Background
           => Adds(Background)
      /\ UNCHANGED log => Adds(Background)
  BY RecordAdds
<1>2. /\ \A kind \in Background : \A c : MyEvent(w, kind).kind \in Background
                                  /\ Event(kind, "none", c).kind \in Background
                                  /\ Event(kind, "execute", c).kind \in Background
      /\ \A c : CycleStarted(c).kind \in Background
  BY KindOfEvent DEF CycleStarted, Background, EventKind
<1>3. {"mode.adjusted", "started", "stage.completed", "stage.failed", "retry.scheduled",
       "approval.requested", "execute_plan.created", "execute_plan.missing", "missing_plan",
       "quality.failed", "diagnosis", "low_information_gain", "failed", "completed"}
         \subseteq Background
  BY DEF Background, EventKind
<1>4. CASE Pick(w) \/ Overspend(w) \/ Admit(w) \/ Gate(w) \/ RequestApproval(w)
  BY <1>1, <1>2, <1>3, <1>4 DEF Pick, Overspend, Admit, Gate, RequestApproval, Block, Record
<1>5. CASE RefuseTask(w) \/ DeferForPlan(w) \/ ScheduleRetry(w) \/ Replan(w) \/ GiveUp(w)
  BY <1>1, <1>2, <1>3, <1>5 DEF RefuseTask, DeferForPlan, ScheduleRetry, Replan, GiveUp, Block
<1>6. CASE PassStage(w) \/ PassReview(w) \/ Finalize(w) \/ Die(w)
  BY <1>1, <1>2, <1>3, <1>6 DEF PassStage, PassReview, Finalize, Die
<1>7. CASE StageReturns(w)
  <2>1. PICK passed \in BOOLEAN : Record([MyEvent(w, "stage.completed") EXCEPT !.ok = passed])
    BY <1>7 DEF StageReturns
  <2> DEFINE e == [MyEvent(w, "stage.completed") EXCEPT !.ok = passed]
  <2>2. e.kind \in Background
    BY <1>3, KindOfEvent
  <2>3. QED
    BY <1>1, <2>1, <2>2
<1>8. CASE StageRaises(w)
  <2>1. PICK sig : Record(Signed("diagnosis", "none", 1, sig)) \/ UNCHANGED log
    BY <1>8 DEF StageRaises
  <2>2. Signed("diagnosis", "none", 1, sig).kind \in Background
    BY <1>3, KindOfEvent
  <2>3. QED
    BY <1>1, <2>1, <2>2
<1>9. CASE RecordFailure(w)
  <2>1. PICK sig : \/ Record(MyEvent(w, "low_information_gain"))
                   \/ Record([MyEvent(w, "stage.failed") EXCEPT !.sig = sig])
    BY <1>9 DEF RecordFailure, Block
  <2> DEFINE e == [MyEvent(w, "stage.failed") EXCEPT !.sig = sig]
  <2>2. e.kind \in Background /\ MyEvent(w, "low_information_gain").kind \in Background
    BY <1>3, KindOfEvent
  <2>3. QED
    BY <1>1, <2>1, <2>2
<1>10. CASE FailQuality(w)
  <2> DEFINE e == [MyEvent(w, "quality.failed") EXCEPT !.sig = ctx[w].sig]
  <2>1. \/ Record(MyEvent(w, "low_information_gain"))
        \/ Record(MyEvent(w, "failed"))
        \/ RecordBoth(e, CycleStarted(ctx[w].cycle + 1))
    BY <1>10 DEF FailQuality, Block
  <2>2. e.kind \in Background
    BY <1>3, KindOfEvent
  <2> HIDE DEF e
  <2>3. QED
    BY <1>1, <1>2, <1>3, <2>1, <2>2
<1>11. QED
  BY <1>4, <1>5, <1>6, <1>7, <1>8, <1>9, <1>10 DEF Step

LEMMA OutsideAdds ==
  ASSUME TypeInv, TypeInv', (\E approved \in BOOLEAN : Decide(approved)) \/ RetryComesDue
  PROVE  Adds({"approval", "failed"})
<1>1. \A ok : Flagged("approval", "none", 1, ok).kind = "approval"
  BY KindOfEvent
<1>2. Event("failed", "none", 1).kind = "failed"
  BY KindOfEvent
<1>3. QED
  BY <1>1, <1>2, RecordAdds DEF Decide, RetryComesDue

\* A pass other than w keeps its place and what it has read.
LEMMA OthersStay ==
  ASSUME NEW w \in Workers, Step(w) \/ Die(w), TypeInv, NEW v \in Workers, v # w
  PROVE  pc'[v] = pc[v] /\ ctx'[v] = ctx[v]
BY DEF Step, Die, Pick, Overspend, Admit, Gate, RequestApproval, RefuseTask, DeferForPlan,
  StartStage, StageReturns, StageRaises, RecordFailure, ScheduleRetry, Replan, GiveUp,
  FailQuality, PassStage, PassReview, Finalize, Return, Goto, TypeInv, TypeOK

\* A pass reaches "cleared" only by the gate, and leaves it by starting the stage.
LEMMA ClearedByGate ==
  ASSUME TypeInv, NEW w \in Workers, Step(w) \/ Die(w), ~Gate(w)
  PROVE  pc'[w] # "cleared"
BY DEF Step, Die, Pick, Overspend, Admit, Gate, RequestApproval, RefuseTask, DeferForPlan,
  StartStage, StageReturns, StageRaises, RecordFailure, ScheduleRetry, Replan, GiveUp,
  FailQuality, PassStage, PassReview, Finalize, Return, Goto, TypeInv, TypeOK, after_failure

\* What the log held of a kind, it holds still.
LEMMA HeldStays ==
  ASSUME TypeInv, Grows
  PROVE  \A i \in DOMAIN log : i \in DOMAIN log' /\ log'[i] = log[i]
BY DEF Grows, TypeInv, TypeOK

\* What StartStage writes, and where.
LEMMA StartWrites ==
  ASSUME TypeInv, NEW w \in Workers, StartStage(w)
  PROVE  /\ Grows
         /\ DOMAIN log' = DOMAIN log \union {Len(log) + 1}
         /\ \A i \in DOMAIN log : i < Len(log) + 1
         /\ log'[Len(log) + 1].kind = "stage.started"
         /\ log'[Len(log) + 1].stage = ctx[w].stage
         /\ log'[Len(log) + 1].cycle = ctx[w].cycle
<1>1. Grows /\ Len(log') = Len(log) + 1 /\ log'[Len(log) + 1] = MyEvent(w, "stage.started")
  BY ContextTyped, RecordGrows DEF StartStage, Record, EventKind
<1>2. QED
  BY <1>1 DEF MyEvent, Event, Grows, TypeInv, TypeOK

-----------------------------------------------------------------------------
(* Stages start in order *)

\* Every stage before this one is recorded complete in this cycle.
Prepared(stage, cycle) ==
  \A m, n \in DOMAIN AUTONOMY_STAGES :
    n < m /\ stage = AUTONOMY_STAGES[m] =>
      \E j \in DOMAIN log : /\ log[j].kind = "stage.completed"
                            /\ log[j].stage = AUTONOMY_STAGES[n]
                            /\ log[j].cycle = cycle

OrderInv ==
  /\ StagesInOrder
  /\ \A w \in Workers : pc[w] = "cleared" => Prepared(ctx[w].stage, ctx[w].cycle)

\* A cleared pass stays prepared while the log grows.
LEMMA PreparedStays ==
  ASSUME TypeInv, Grows, NEW w \in Workers, ctx'[w] = ctx[w],
         Prepared(ctx[w].stage, ctx[w].cycle)
  PROVE  Prepared(ctx[w].stage, ctx[w].cycle)'
BY HeldStays DEF Prepared

LEMMA OrderStays ==
  ASSUME TypeInv, StagesInOrder, NEW K, Adds(K), "stage.started" \notin K
  PROVE  StagesInOrder'
<1>1. \A i \in DOMAIN log : i \in DOMAIN log' /\ log'[i] = log[i]
  BY HeldStays DEF Adds
<1>2. \A i \in DOMAIN log' : log'[i].kind = "stage.started" => i \in DOMAIN log
  BY DEF Adds
<1>3. QED
  BY <1>1, <1>2 DEF StagesInOrder, Where, Of

LEMMA GatePrepares ==
  ASSUME TypeInv, NEW w \in Workers, Gate(w), pc'[w] = "cleared"
  PROVE  Prepared(ctx[w].stage, ctx[w].cycle)'
<1> DEFINE stage == next_stage(Recent, ctx[w].cycle)
<1>1. log' = log
  BY DEF Gate
<1>2. ctx'[w].stage = stage /\ ctx'[w].cycle = ctx[w].cycle
  BY DEF Gate, Return, Goto, TypeInv, TypeOK, CtxType
<1>3. completed_stages(Recent, ctx[w].cycle) \subseteq
        {log[j].stage : j \in {i \in DOMAIN log : /\ log[i].kind = "stage.completed"
                                                 /\ log[i].cycle = ctx[w].cycle}}
  BY DEF completed_stages, Where, Recent
<1>4. \A m, n \in DOMAIN AUTONOMY_STAGES :
        n < m /\ stage = AUTONOMY_STAGES[m] =>
          AUTONOMY_STAGES[n] \in completed_stages(Recent, ctx[w].cycle)
  BY NextStageInOrder
<1> HIDE DEF stage
<1>5. Prepared(stage, ctx[w].cycle)
  BY <1>3, <1>4 DEF Prepared
<1>6. QED
  BY <1>1, <1>2, <1>5 DEF Prepared

LEMMA OrderNext == TypeInv /\ TypeInv' /\ OrderInv /\ [Next]_vars => OrderInv'
<1> SUFFICES ASSUME TypeInv, TypeInv', OrderInv, [Next]_vars PROVE OrderInv'
  OBVIOUS
<1>1. ASSUME NEW w \in Workers, Step(w) \/ Die(w)
      PROVE  OrderInv'
  <2>1. Grows
    BY <1>1, PassAdds, StartWrites DEF Adds
  <2>2. ASSUME NEW v \in Workers, pc'[v] = "cleared"
        PROVE  Prepared(ctx[v].stage, ctx[v].cycle)'
    <3>1. CASE v = w
      BY <1>1, <2>2, <3>1, ClearedByGate, GatePrepares
    <3>2. CASE v # w
      BY <1>1, <2>1, <2>2, <3>2, OthersStay, PreparedStays DEF OrderInv
    <3>3. QED
      BY <3>1, <3>2
  <2>3. StagesInOrder'
    <3>1. CASE StartStage(w)
      <4>1. Prepared(ctx[w].stage, ctx[w].cycle)
        BY <3>1 DEF OrderInv, StartStage
      <4>2. QED
        BY <3>1, <4>1, StartWrites, HeldStays DEF OrderInv, StagesInOrder, Prepared, Where, Of
    <3>2. CASE ~StartStage(w)
      BY <1>1, <3>2, PassAdds, OrderStays DEF OrderInv, Background
    <3>3. QED
      BY <3>1, <3>2
  <2>4. QED
    BY <2>2, <2>3 DEF OrderInv
<1>2. CASE (\E approved \in BOOLEAN : Decide(approved)) \/ RetryComesDue
  <2>1. Adds({"approval", "failed"}) /\ UNCHANGED <<pc, ctx>>
    BY <1>2, OutsideAdds DEF Decide, RetryComesDue
  <2>2. StagesInOrder'
    BY <2>1, OrderStays DEF OrderInv
  <2>3. QED
    BY <2>1, <2>2, PreparedStays DEF OrderInv, Adds
<1>3. CASE UNCHANGED vars
  BY <1>3 DEF vars, OrderInv, StagesInOrder, Prepared, Where, Of
<1>4. QED
  BY <1>1, <1>2, <1>3 DEF Next

\* No stage ever starts before the earlier stages of its cycle were recorded
\* complete, for any number of racing or dying passes and any read window.
THEOREM StagesAlwaysInOrder == Spec => []StagesInOrder
<1>1. Init => OrderInv
  BY DEF Init, OrderInv, StagesInOrder, Where, Flagged, Event
<1>2. Spec => []TypeInv
  BY TypeInit, TypeNext, PTL DEF Spec
<1>3. Spec => []OrderInv
  BY <1>1, <1>2, OrderNext, PTL DEF Spec
<1>4. OrderInv => StagesInOrder
  BY DEF OrderInv
<1>5. QED
  BY <1>3, <1>4, PTL

-----------------------------------------------------------------------------
(* Approval comes before execute *)

Approved == \E j \in DOMAIN log : log[j].kind = "approval" /\ log[j].ok

\* Where approval is wanted, the preferences head the log, a pass that read them
\* knows it, and a pass cleared for execute saw the approval.
ApprovalInv ==
  NeedsApproval =>
    /\ Len(log) >= 1 /\ log[1].kind = "preferences" /\ log[1].ok
    /\ \A i \in DOMAIN log : log[i].kind = "preferences" => i = 1
    /\ \A w \in Workers : Len(log) <= Window =>
         /\ pc[w] \in {"picked", "admitted"} => ctx[w].required
         /\ pc[w] = "cleared" /\ ctx[w].stage = "execute" => Approved
    /\ ApprovalBeforeExecute

\* The whole log is read while it fits the window.
LEMMA WholeLogRead ==
  ASSUME TypeInv, Len(log) <= Window
  PROVE  Recent = DOMAIN log
<1>1. Window \in Nat /\ Len(log) \in Nat /\ DOMAIN log = 1..Len(log)
  BY SettingsAssumption DEF TypeInv, TypeOK
<1>2. \A i \in 1..Len(log) : i > Len(log) - Window
  BY <1>1
<1>3. QED
  BY <1>1, <1>2 DEF Recent

LEMMA PickKnows ==
  ASSUME TypeInv, ApprovalInv, NeedsApproval, NEW w \in Workers, Pick(w), Len(log) <= Window
  PROVE  ctx'[w].required
<1>1. Where(Recent, "preferences") = {1}
  BY WholeLogRead DEF ApprovalInv, Where, TypeInv, TypeOK
<1>2. Max(Where(Recent, "preferences")) = 1
  BY <1>1, WhereLatest, ContextTyped
<1>3. log[1].ok
  BY DEF ApprovalInv
<1>4. requires_approval(Recent)
  BY <1>1, <1>2, <1>3, Zenon DEF requires_approval
<1>5. ctx'[w] = [NoCtx EXCEPT !.required = requires_approval(Recent), !.seen = Recent, !.now = ripe]
  BY DEF Pick, TypeInv, TypeOK
<1>6. QED
  BY <1>4, <1>5, NoCtxTyped DEF CtxType

LEMMA GateSawApproval ==
  ASSUME TypeInv, ApprovalInv, NeedsApproval, NEW w \in Workers, Gate(w),
         Len(log) <= Window, pc'[w] = "cleared", ctx'[w].stage = "execute"
  PROVE  Approved
<1> DEFINE stage == next_stage(Recent, ctx[w].cycle)
<1>1. ctx'[w].stage = stage
  BY DEF Gate, Return, Goto, TypeInv, TypeOK, CtxType
<1>2. ctx[w].required
  BY DEF Gate, ApprovalInv
<1>3. approval_gate_state(Recent, stage, ctx[w].required) \notin {"awaiting", "rejected"}
  BY <1>1 DEF Gate, verdict, Return, Goto, TypeInv, TypeOK
<1> HIDE DEF stage
<1> DEFINE A == Where(Recent, "approval")
<1>4. A # {} /\ log[Max(A)].ok
  BY <1>1, <1>2, <1>3 DEF approval_gate_state
<1>5. Max(A) \in A
  BY <1>4, WhereLatest, ContextTyped
<1>6. QED
  BY <1>4, <1>5, ContextTyped DEF Where, Approved

\* The parts that speak of the log alone survive any step that adds no start and
\* no preferences.
LEMMA ApprovalStays ==
  ASSUME TypeInv, TypeInv', ApprovalInv, NeedsApproval, NEW K, Adds(K), "preferences" \notin K
  PROVE  /\ Len(log) <= Len(log')
         /\ Len(log') >= 1 /\ log'[1].kind = "preferences" /\ log'[1].ok
         /\ \A i \in DOMAIN log' : log'[i].kind = "preferences" => i = 1
         /\ "stage.started" \notin K => ApprovalBeforeExecute'
         /\ Approved => Approved'
<1>1. \A i \in DOMAIN log : i \in DOMAIN log' /\ log'[i] = log[i]
  BY HeldStays DEF Adds
<1>2. 1 \in DOMAIN log /\ Len(log) <= Len(log') /\ Len(log') >= 1
  BY DEF ApprovalInv, Adds, Grows, TypeInv, TypeOK
<1>3. \A i \in DOMAIN log' : log'[i].kind = "preferences" => i = 1
  BY <1>1 DEF Adds, ApprovalInv
<1>4. ASSUME "stage.started" \notin K
      PROVE  ApprovalBeforeExecute'
  <2>1. \A i \in DOMAIN log' : log'[i].kind = "stage.started" => i \in DOMAIN log
    BY <1>4 DEF Adds
  <2>2. QED
    BY <1>1, <2>1 DEF ApprovalInv, ApprovalBeforeExecute, Where
<1>5. Approved => Approved'
  BY <1>1 DEF Approved
<1>6. QED
  BY <1>1, <1>2, <1>3, <1>4, <1>5 DEF ApprovalInv

\* A pass is picked by Pick, admitted by Admit, and Admit keeps what it knows.
LEMMA PickedByPick ==
  ASSUME TypeInv, NEW w \in Workers, Step(w) \/ Die(w), pc'[w] \in {"picked", "admitted"}
  PROVE  \/ Pick(w)
         \/ Admit(w) /\ ctx'[w].required = ctx[w].required /\ pc[w] = "picked"
BY DEF Step, Die, Pick, Overspend, Admit, Gate, RequestApproval, RefuseTask, DeferForPlan,
  StartStage, StageReturns, StageRaises, RecordFailure, ScheduleRetry, Replan, GiveUp,
  FailQuality, PassStage, PassReview, Finalize, Return, Goto, TypeInv, TypeOK, after_failure,
  verdict, CtxType

LEMMA ApprovalNext == TypeInv /\ TypeInv' /\ ApprovalInv /\ [Next]_vars => ApprovalInv'
<1> SUFFICES ASSUME TypeInv, TypeInv', ApprovalInv, [Next]_vars, NeedsApproval
             PROVE  ApprovalInv'
  BY DEF ApprovalInv
<1>1. ASSUME NEW w \in Workers, Step(w) \/ Die(w)
      PROVE  ApprovalInv'
  <2>1. CASE StartStage(w)
    <3>1. Adds({"stage.started"})
      BY <2>1, StartWrites DEF Adds
    <3>2. UNCHANGED ctx /\ \A v \in Workers : pc'[v] = pc[v] \/ pc'[v] = "running"
      BY <2>1 DEF StartStage, Goto, TypeInv, TypeOK
    <3>3. ApprovalBeforeExecute'
      <4>1. ASSUME NEW i \in DOMAIN log', log'[i].kind = "stage.started",
                   log'[i].stage = "execute", i <= Window
            PROVE  \E j \in DOMAIN log' : log'[j].kind = "approval" /\ j < i /\ log'[j].ok
        <5>1. CASE i \in DOMAIN log
          BY <4>1, <5>1, <3>1, HeldStays DEF Adds, ApprovalInv, ApprovalBeforeExecute, Where
        <5>2. CASE i = Len(log) + 1
          <6>1. Len(log) <= Window /\ ctx[w].stage = "execute" /\ pc[w] = "cleared"
            BY <2>1, <4>1, <5>2, StartWrites, SettingsAssumption DEF StartStage, TypeInv, TypeOK
          <6>2. Approved
            BY <6>1 DEF ApprovalInv
          <6>3. QED
            BY <2>1, <5>2, <6>2, <3>1, HeldStays, StartWrites DEF Adds, Approved
        <5>3. QED
          BY <2>1, <5>1, <5>2, StartWrites
      <4>2. QED
        BY <4>1 DEF ApprovalBeforeExecute, Where
    <3>4. ASSUME NEW v \in Workers, Len(log') <= Window
          PROVE  /\ pc'[v] \in {"picked", "admitted"} => ctx'[v].required
                 /\ pc'[v] = "cleared" /\ ctx'[v].stage = "execute" => Approved'
      <4>1. Len(log) <= Window
        BY <3>1, <3>4, ApprovalStays, SettingsAssumption DEF TypeInv, TypeOK
      <4>2. QED
        BY <3>1, <3>2, <4>1, ApprovalStays DEF ApprovalInv
    <3>5. QED
      BY <3>1, <3>3, <3>4, ApprovalStays DEF ApprovalInv
  <2>2. CASE ~StartStage(w)
    <3>1. Adds(Background)
      BY <1>1, <2>2, PassAdds
    <3>2. ASSUME NEW v \in Workers, Len(log') <= Window
          PROVE  /\ pc'[v] \in {"picked", "admitted"} => ctx'[v].required
                 /\ pc'[v] = "cleared" /\ ctx'[v].stage = "execute" => Approved'
      <4>1. Len(log) <= Window
        BY <3>1, <3>2, ApprovalStays, SettingsAssumption DEF TypeInv, TypeOK, Background
      <4>2. CASE v # w
        BY <1>1, <3>1, <4>1, <4>2, OthersStay, ApprovalStays DEF ApprovalInv, Background
      <4>3. CASE v = w
        <5>1. pc'[w] \in {"picked", "admitted"} => ctx'[w].required
          BY <1>1, <4>1, PickedByPick, PickKnows DEF ApprovalInv
        <5>2. pc'[w] = "cleared" /\ ctx'[w].stage = "execute" => Approved
          BY <1>1, <4>1, ClearedByGate, GateSawApproval
        <5>3. QED
          BY <3>1, <4>3, <5>1, <5>2, ApprovalStays DEF Background
      <4>4. QED
        BY <4>2, <4>3
    <3>3. QED
      BY <3>1, <3>2, ApprovalStays DEF ApprovalInv, Background
  <2>3. QED
    BY <2>1, <2>2
<1>2. CASE (\E approved \in BOOLEAN : Decide(approved)) \/ RetryComesDue
  <2>1. Adds({"approval", "failed"}) /\ UNCHANGED <<pc, ctx>>
    BY <1>2, OutsideAdds DEF Decide, RetryComesDue
  <2>2. ASSUME NEW v \in Workers, Len(log') <= Window
        PROVE  /\ pc'[v] \in {"picked", "admitted"} => ctx'[v].required
               /\ pc'[v] = "cleared" /\ ctx'[v].stage = "execute" => Approved'
    <3>1. Len(log) <= Window
      BY <2>1, <2>2, ApprovalStays, SettingsAssumption DEF TypeInv, TypeOK
    <3>2. QED
      BY <2>1, <3>1, ApprovalStays DEF ApprovalInv
  <2>3. QED
    BY <2>1, <2>2, ApprovalStays DEF ApprovalInv
<1>3. CASE UNCHANGED vars
  BY <1>3 DEF vars, ApprovalInv, ApprovalBeforeExecute, Approved, Where
<1>4. QED
  BY <1>1, <1>2, <1>3 DEF Next

LEMMA ApprovalInit == Init => ApprovalInv
<1> SUFFICES ASSUME Init, NeedsApproval PROVE ApprovalInv
  BY DEF ApprovalInv
<1>1. log = <<Flagged("preferences", "none", 1, NeedsApproval)>>
  BY DEF Init
<1>2. /\ Len(log) = 1 /\ DOMAIN log = {1}
      /\ log[1].kind = "preferences" /\ log[1].ok
  BY <1>1 DEF Flagged, Event
<1>3. \A w \in Workers : pc[w] = "idle"
  BY DEF Init
<1>4. QED
  BY <1>2, <1>3 DEF ApprovalInv, ApprovalBeforeExecute, Where

\* While the log fits the read window, a task that asks for approval never starts
\* execute before an operator approved it, however passes race and die.
THEOREM ApprovalAlwaysBeforeExecute == Spec => []ApprovalBeforeExecute
<1>1. Spec => []TypeInv
  BY TypeInit, TypeNext, PTL DEF Spec
<1>2. Spec => []ApprovalInv
  BY <1>1, ApprovalInit, ApprovalNext, PTL DEF Spec
<1>3. ApprovalInv => ApprovalBeforeExecute
  BY DEF ApprovalInv, ApprovalBeforeExecute
<1>4. QED
  BY <1>2, <1>3, PTL
=============================================================================
