------------------------- MODULE AutonomyCycleProofs -------------------------
(***************************************************************************)
(* Theorems about the cycles, retries and budgets of Autonomy: what one    *)
(* pass decided on the events it read still holds when it writes.          *)
(***************************************************************************)
EXTENDS AutonomyProofs, FiniteSetTheorems

-----------------------------------------------------------------------------
(* What each step writes *)

\* The kinds of event each step of a pass may append.
LEMMA StepAdds ==
  ASSUME TypeInv, TypeInv', NEW w \in Workers
  PROVE  /\ Pick(w) => Adds({"mode.adjusted"})
         /\ Overspend(w) \/ RefuseTask(w) \/ GiveUp(w) => Adds({"failed"})
         /\ Admit(w) => Adds({"started", "cycle.started"})
         /\ Gate(w) \/ PassReview(w) \/ Die(w) => Adds({})
         /\ RequestApproval(w) => Adds({"approval.requested"})
         /\ DeferForPlan(w) => Adds({"missing_plan", "execute_plan.missing", "cycle.started"})
         /\ StartStage(w) => Adds({"stage.started"})
         /\ StageRaises(w) => Adds({"diagnosis"})
         /\ ScheduleRetry(w) => Adds({"retry.scheduled"})
         /\ Replan(w) => Adds({"cycle.started"})
         /\ FailQuality(w) =>
              Adds({"low_information_gain", "failed", "quality.failed", "cycle.started"})
         /\ PassStage(w) => Adds({"execute_plan.created"})
         /\ Finalize(w) => Adds({"completed"})
<1>1. /\ \A e, K : Record(e) /\ e.kind \in K => Adds(K)
      /\ \A d, e, K : RecordBoth(d, e) /\ d.kind \in K /\ e.kind \in K => Adds(K)
      /\ \A K : UNCHANGED log => Adds(K)
  BY RecordAdds
<1>2. \A kind, stage, c : Event(kind, stage, c).kind = kind /\ MyEvent(w, kind).kind = kind
  BY KindOfEvent
<1>3. \A c : CycleStarted(c).kind = "cycle.started"
  BY KindOfEvent DEF CycleStarted
<1>4. /\ Pick(w) => Adds({"mode.adjusted"})
      /\ Overspend(w) \/ RefuseTask(w) \/ GiveUp(w) => Adds({"failed"})
  BY <1>1, <1>2 DEF Pick, Overspend, RefuseTask, GiveUp, Block, Record
<1>5. /\ Admit(w) => Adds({"started", "cycle.started"})
      /\ DeferForPlan(w) => Adds({"missing_plan", "execute_plan.missing", "cycle.started"})
  <2>1. RecordBoth(Event("started", "none", 1), CycleStarted(1)) =>
          Adds({"started", "cycle.started"})
    BY <1>1, <1>2, <1>3
  <2>2. RecordBoth(MyEvent(w, "execute_plan.missing"), CycleStarted(ctx[w].cycle + 1)) =>
          Adds({"missing_plan", "execute_plan.missing", "cycle.started"})
    BY <1>1, <1>2, <1>3
  <2>3. QED
    BY <1>1, <1>2, <2>1, <2>2 DEF Admit, DeferForPlan, Block
<1>6. /\ Gate(w) \/ PassReview(w) \/ Die(w) => Adds({})
      /\ RequestApproval(w) => Adds({"approval.requested"})
      /\ StartStage(w) => Adds({"stage.started"})
  BY <1>1, <1>2 DEF Gate, PassReview, Die, RequestApproval, StartStage
<1>7. StageRaises(w) => Adds({"diagnosis"})
  <2>1. SUFFICES ASSUME StageRaises(w) PROVE Adds({"diagnosis"})
    OBVIOUS
  <2>2. PICK sig : Record(Signed("diagnosis", "none", 1, sig)) \/ UNCHANGED log
    BY <2>1 DEF StageRaises
  <2>3. Signed("diagnosis", "none", 1, sig).kind = "diagnosis"
    BY KindOfEvent
  <2>4. QED
    BY <1>1, <2>2, <2>3
<1>8. /\ ScheduleRetry(w) => Adds({"retry.scheduled"})
      /\ Replan(w) => Adds({"cycle.started"})
      /\ PassStage(w) => Adds({"execute_plan.created"})
      /\ Finalize(w) => Adds({"completed"})
  BY <1>1, <1>2, <1>3 DEF ScheduleRetry, Replan, PassStage, Finalize
<1>9. FailQuality(w) =>
        Adds({"low_information_gain", "failed", "quality.failed", "cycle.started"})
  <2> DEFINE e == [MyEvent(w, "quality.failed") EXCEPT !.sig = ctx[w].sig]
  <2>1. e.kind = "quality.failed"
    BY KindOfEvent
  <2> HIDE DEF e
  <2>2. FailQuality(w) => \/ Record(MyEvent(w, "low_information_gain"))
                          \/ Record(MyEvent(w, "failed"))
                          \/ RecordBoth(e, CycleStarted(ctx[w].cycle + 1))
    BY DEF FailQuality, Block, e
  <2>3. QED
    BY <1>1, <1>2, <1>3, <2>1, <2>2
<1>10. QED
  BY <1>4, <1>5, <1>6, <1>7, <1>8, <1>9

\* A stage that returns writes its completion and remembers the verdict on it.
LEMMA ReturnWrites ==
  ASSUME TypeInv, NEW w \in Workers, StageReturns(w)
  PROVE  /\ Grows
         /\ DOMAIN log' = DOMAIN log \union {Len(log) + 1}
         /\ Len(log) + 1 \notin DOMAIN log
         /\ log'[Len(log) + 1].kind = "stage.completed"
         /\ log'[Len(log) + 1].stage = ctx[w].stage
         /\ log'[Len(log) + 1].cycle = ctx[w].cycle
         /\ log'[Len(log) + 1].ok = ctx'[w].passed
         /\ ctx'[w].stage = ctx[w].stage /\ ctx'[w].cycle = ctx[w].cycle
<1>1. PICK passed \in BOOLEAN, reason \in Reasons :
        /\ Record([MyEvent(w, "stage.completed") EXCEPT !.ok = passed])
        /\ ctx' = [ctx EXCEPT ![w].passed = passed,
                              ![w].sig = IF passed THEN NoSig ELSE <<"quality", reason>>]
  BY DEF StageReturns
<1> DEFINE e == [MyEvent(w, "stage.completed") EXCEPT !.ok = passed]
<1>2. e \in EventType
  BY ContextTyped, EventTyped DEF MyEvent, EventKind
<1>3. /\ e.kind = "stage.completed" /\ e.ok = passed
      /\ e.stage = ctx[w].stage /\ e.cycle = ctx[w].cycle
  BY DEF MyEvent, Event
<1> HIDE DEF e
<1>4. Grows /\ Len(log') = Len(log) + 1 /\ log'[Len(log) + 1] = e
  BY <1>1, <1>2, ContextTyped, RecordGrows DEF Record, e
<1>5. /\ ctx'[w].passed = passed
      /\ ctx'[w].stage = ctx[w].stage /\ ctx'[w].cycle = ctx[w].cycle
  BY <1>1 DEF TypeInv, TypeOK, CtxType
<1>6. QED
  BY <1>3, <1>4, <1>5 DEF Grows, TypeInv, TypeOK

\* A failure is either blocked as repeating itself or recorded, once.
LEMMA FailureWrites ==
  ASSUME TypeInv, TypeInv', NEW w \in Workers, RecordFailure(w)
  PROVE  \/ /\ Adds({"low_information_gain"})
            /\ status' = "blocked" /\ pc'[w] = "idle"
         \/ /\ Grows
            /\ DOMAIN log' = DOMAIN log \union {Len(log) + 1}
            /\ Len(log) + 1 \notin DOMAIN log
            /\ log'[Len(log) + 1].kind = "stage.failed"
            /\ log'[Len(log) + 1].stage = ctx[w].stage
            /\ log'[Len(log) + 1].cycle = ctx[w].cycle
            /\ status' = status /\ ctx' = ctx
            /\ \E sig : pc'[w] = after_failure(w, sig)
<1> DEFINE sig == classify_failure(Recent, ctx[w].sig)
           e == [MyEvent(w, "stage.failed") EXCEPT !.sig = sig]
<1>1. CASE low_information(Recent, "stage.failed", ctx[w].stage, sig)
  <2>1. Record(MyEvent(w, "low_information_gain")) /\ status' = "blocked" /\ Return(w)
    BY <1>1 DEF RecordFailure, Block
  <2>2. Adds({"low_information_gain"})
    BY <2>1, RecordAdds, KindOfEvent
  <2>3. QED
    BY <2>1, <2>2 DEF Return, Goto, TypeInv, TypeOK
<1>2. CASE ~low_information(Recent, "stage.failed", ctx[w].stage, sig)
  <2>1. Record(e) /\ Goto(w, after_failure(w, sig)) /\ UNCHANGED <<status, ctx>>
    BY <1>2 DEF RecordFailure
  <2>2. e \in EventType
    BY ContextTyped, ClassifyTyped, EventTyped DEF MyEvent, EventKind
  <2>3. e.kind = "stage.failed" /\ e.stage = ctx[w].stage /\ e.cycle = ctx[w].cycle
    BY DEF MyEvent, Event
  <2> HIDE DEF e, sig
  <2>4. Grows /\ Len(log') = Len(log) + 1 /\ log'[Len(log) + 1] = e
    BY <2>1, <2>2, ContextTyped, RecordGrows DEF Record
  <2>5. QED
    BY <2>1, <2>3, <2>4 DEF Grows, Goto, TypeInv, TypeOK
<1>3. QED
  BY <1>1, <1>2

LEMMA LogTyped ==
  ASSUME TypeInv
  PROVE  /\ Len(log) \in Nat /\ DOMAIN log = 1..Len(log)
         /\ \A i \in DOMAIN log : i \in Nat /\ log[i] \in EventType /\ log[i].cycle \in Nat
<1>1. log \in Seq(EventType)
  BY DEF TypeInv, TypeOK
<1>2. \A i \in DOMAIN log : i \in Nat /\ log[i] \in EventType
  BY <1>1, ElementOfSeq
<1>3. \A e \in EventType : e.cycle \in Nat
  BY SettingsAssumption DEF EventType
<1>4. QED
  BY <1>1, <1>2, <1>3

\* The events of a kind that was not added are what they were.
LEMMA KindKept ==
  ASSUME TypeInv, NEW K, Adds(K), NEW kind, kind \notin K
  PROVE  /\ Where(DOMAIN log, kind)' = Where(DOMAIN log, kind)
         /\ \A stage, c : Of(DOMAIN log, kind, stage, c)' = Of(DOMAIN log, kind, stage, c)
         /\ \A i \in Where(DOMAIN log, kind) : log'[i] = log[i]
<1>1. \A i \in DOMAIN log : i \in DOMAIN log' /\ log'[i] = log[i]
  BY HeldStays DEF Adds
<1>2. \A i \in DOMAIN log' : log'[i].kind = kind => i \in DOMAIN log
  BY DEF Adds
<1>3. QED
  BY <1>1, <1>2 DEF Where, Of

\* The events of a kind when exactly one event was appended.
LEMMA OneAdded ==
  ASSUME TypeInv, Grows, NEW n, n \notin DOMAIN log, DOMAIN log' = DOMAIN log \union {n},
         NEW kind
  PROVE  /\ log'[n].kind # kind =>
              /\ Where(DOMAIN log, kind)' = Where(DOMAIN log, kind)
              /\ \A stage, c : Of(DOMAIN log, kind, stage, c)' = Of(DOMAIN log, kind, stage, c)
         /\ log'[n].kind = kind =>
              /\ Where(DOMAIN log, kind)' = Where(DOMAIN log, kind) \union {n}
              /\ \A stage, c : Of(DOMAIN log, kind, stage, c)' =
                   IF log'[n].stage = stage /\ log'[n].cycle = c
                   THEN Of(DOMAIN log, kind, stage, c) \union {n}
                   ELSE Of(DOMAIN log, kind, stage, c)
<1>1. \A i \in DOMAIN log : i \in DOMAIN log' /\ log'[i] = log[i]
  BY HeldStays
<1>2. QED
  BY <1>1 DEF Where, Of

-----------------------------------------------------------------------------
(* Cycles only move forward *)

\* One pass at a time, on a log that fits the read window.
Alone == \A v, w \in Workers : v = w
Fits == Len(log) <= Window

Started == Where(DOMAIN log, "stage.started")
Ended == Where(DOMAIN log, "stage.completed") \union Where(DOMAIN log, "stage.failed")
Opened == Where(DOMAIN log, "cycle.started")

\* The cycle opened last is c.
Latest(c) == \E i \in Opened : log[i].cycle = c /\ \A j \in Opened : j <= i

CycleInv ==
  /\ CyclesAdvance
  /\ Opened = {} <=> Where(DOMAIN log, "started") = {}
  /\ \A i \in Ended : \E j \in Opened : log[j].cycle = log[i].cycle
  /\ \A w \in Workers :
       /\ pc[w] = "picked" =>
            \A kind \in {"started", "cycle.started"} :
              Where(ctx[w].seen, kind) = Where(DOMAIN log, kind)
       /\ pc[w] \notin {"idle", "overspent", "picked"} => Latest(ctx[w].cycle)

\* The step appends, last of all, the event that opens cycle c.
Opens(c) ==
  /\ Grows
  /\ \E n \in DOMAIN log' :
       /\ \A i \in DOMAIN log : i < n
       /\ Opened' = Opened \union {n}
       /\ log'[n].cycle = c

\* The steps that open the next cycle, or block the task instead.
LEMMA OpeningStep ==
  ASSUME TypeInv, TypeInv', NEW w \in Workers, DeferForPlan(w) \/ Replan(w) \/ FailQuality(w)
  PROVE  /\ pc'[w] = "idle"
         /\ \/ /\ Adds({"missing_plan", "low_information_gain", "failed"})
               /\ status' = "blocked" /\ ~Replan(w)
            \/ /\ Opens(ctx[w].cycle + 1)
               /\ Adds({"execute_plan.missing", "quality.failed", "cycle.started"})
               /\ status' = status /\ ctx[w].cycle < MaxCycles
<1> DEFINE q == [MyEvent(w, "quality.failed") EXCEPT !.sig = ctx[w].sig]
           next == CycleStarted(ctx[w].cycle + 1)
           m == MyEvent(w, "execute_plan.missing")
<1>1. /\ pc'[w] = "idle"
      /\ \/ status' = "blocked" /\ ~Replan(w)
             /\ \E kind \in {"missing_plan", "low_information_gain", "failed"} :
                   Record(MyEvent(w, kind))
         \/ status' = status /\ ctx[w].cycle < MaxCycles
             /\ (RecordBoth(m, next) \/ RecordBoth(q, next) \/ Record(next))
  BY ContextTyped, SettingsAssumption
  DEF DeferForPlan, Replan, FailQuality, Block, Return, Goto, last_cycle, TypeInv, TypeOK
<1>2. /\ m.kind = "execute_plan.missing" /\ q.kind = "quality.failed"
      /\ next.kind = "cycle.started" /\ next.cycle = ctx[w].cycle + 1
  BY DEF MyEvent, CycleStarted, Event
<1>3. CASE /\ status' = "blocked" /\ ~Replan(w)
           /\ \E kind \in {"missing_plan", "low_information_gain", "failed"} :
                 Record(MyEvent(w, kind))
  BY <1>1, <1>3, RecordAdds, KindOfEvent
<1>4. CASE /\ status' = status /\ ctx[w].cycle < MaxCycles
           /\ (RecordBoth(m, next) \/ RecordBoth(q, next) \/ Record(next))
  <2>1. m \in EventType /\ q \in EventType /\ next \in EventType
    <3>1. next \in EventType
      BY <1>4, ContextTyped, NextCycleTyped
    <3>2. m \in EventType /\ q \in EventType
      BY ContextTyped, EventTyped DEF EventKind, MyEvent
    <3>3. QED
      BY <3>1, <3>2
  <2> HIDE DEF m, q, next
  <2>2. Adds({"execute_plan.missing", "quality.failed", "cycle.started"})
    BY <1>2, <1>4, RecordAdds
  <2>3. CASE Record(next)
    <3>1. Grows /\ Len(log') = Len(log) + 1 /\ log'[Len(log) + 1] = next
      BY <2>1, <2>3, ContextTyped, RecordGrows DEF Record
    <3>2. Opened' = Opened \union {Len(log) + 1}
      BY <1>2, <3>1, HeldStays DEF Opened, Where, Grows, TypeInv, TypeOK
    <3>3. QED
      BY <1>1, <1>2, <1>4, <2>2, <3>1, <3>2 DEF Opens, Grows, TypeInv, TypeOK
  <2>4. ASSUME NEW d \in {m, q}, RecordBoth(d, next)
        PROVE  Opens(ctx[w].cycle + 1)
    <3>1. /\ Grows /\ Len(log') = Len(log) + 2
          /\ log'[Len(log) + 1] = d /\ log'[Len(log) + 2] = next
      BY <2>1, <2>4, ContextTyped, RecordBothGrows DEF RecordBoth
    <3>2. DOMAIN log' = DOMAIN log \union {Len(log) + 1, Len(log) + 2}
      BY <3>1 DEF Grows, TypeInv, TypeOK
    <3>3. Opened' = Opened \union {Len(log) + 2}
      BY <1>2, <2>4, <3>1, <3>2, HeldStays DEF Opened, Where
    <3>4. QED
      BY <1>2, <3>1, <3>2, <3>3 DEF Opens, TypeInv, TypeOK
  <2>5. QED
    BY <1>1, <1>4, <2>2, <2>3, <2>4
<1>5. QED
  BY <1>1, <1>3, <1>4

\* Opening the cycle after the latest keeps the cycles in order, and nothing has
\* been recorded in it.
LEMMA OpenedNext ==
  ASSUME TypeInv, TypeInv', CycleInv, NEW c \in 1..MaxCycles, Latest(c), Opens(c + 1)
  PROVE  /\ CyclesAdvance'
         /\ \A b : Latest(b)' => b = c + 1
         /\ \A i \in Ended : log[i].cycle <= c
<1>1. PICK n \in DOMAIN log' : /\ \A i \in DOMAIN log : i < n
                              /\ Opened' = Opened \union {n}
                              /\ log'[n].cycle = c + 1
  BY DEF Opens
<1>2. \A i \in DOMAIN log : i \in DOMAIN log' /\ log'[i] = log[i]
  BY HeldStays DEF Opens
<1>3. PICK k \in Opened : log[k].cycle = c /\ \A j \in Opened : j <= k
  BY DEF Latest
<1>4. /\ Opened \subseteq DOMAIN log /\ n \in Nat
      /\ \A i \in DOMAIN log : i \in Nat /\ log[i].cycle \in Nat
  <2>1. n \in Nat
    BY DEF TypeInv, TypeOK
  <2>2. QED
    BY <2>1, LogTyped DEF Opened, Where
<1>5. \A j \in Opened : log[j].cycle <= c
  BY <1>3, <1>4 DEF CycleInv, CyclesAdvance, Opened
<1>6. CyclesAdvance'
  <2>1. ASSUME NEW i \in Opened', NEW j \in Opened', i < j
        PROVE  log'[i].cycle < log'[j].cycle
    <3>1. CASE j \in Opened
      <4>1. i \in Opened
        BY <1>1, <1>4, <2>1, <3>1
      <4>2. QED
        BY <1>2, <1>4, <2>1, <3>1, <4>1 DEF CycleInv, CyclesAdvance, Opened
    <3>2. CASE j = n
      <4>1. i \in Opened
        BY <1>1, <1>4, <2>1, <3>2
      <4>2. QED
        BY <1>1, <1>2, <1>4, <1>5, <3>2, <4>1
    <3>3. QED
      BY <1>1, <2>1, <3>1, <3>2
  <2>2. QED
    BY <2>1 DEF CyclesAdvance, Opened
<1>7. ASSUME NEW b, Latest(b)'
      PROVE  b = c + 1
  <2>1. PICK i \in Opened' : log'[i].cycle = b /\ \A j \in Opened' : j <= i
    BY <1>7 DEF Latest
  <2>2. i = n
    <3>1. n \in Opened' /\ n <= i
      BY <1>1, <2>1
    <3>2. i \in Opened => i \in Nat /\ i < n
      BY <1>1, <1>4
    <3>3. QED
      BY <1>1, <1>4, <3>1, <3>2
  <2>3. QED
    BY <1>1, <2>1, <2>2
<1>8. \A i \in Ended : log[i].cycle <= c
  BY <1>5 DEF CycleInv
<1>9. QED
  BY <1>6, <1>7, <1>8

\* A step that adds nothing about cycles leaves them as they were.
LEMMA CycleStays ==
  ASSUME TypeInv, CycleInv, NEW K, Adds(K), "started" \notin K, "cycle.started" \notin K
  PROVE  /\ CyclesAdvance'
         /\ Opened' = Opened
         /\ \A kind \in {"started", "cycle.started"} :
              Where(DOMAIN log, kind)' = Where(DOMAIN log, kind)
         /\ \A c : Latest(c)' <=> Latest(c)
         /\ \A i \in Opened : log'[i] = log[i]
<1>1. /\ \A kind \in {"started", "cycle.started"} :
           Where(DOMAIN log, kind)' = Where(DOMAIN log, kind)
      /\ \A i \in Where(DOMAIN log, "cycle.started") : log'[i] = log[i]
  BY KindKept
<1>2. CyclesAdvance'
  BY <1>1 DEF CyclesAdvance, CycleInv
<1>3. QED
  BY <1>1, <1>2 DEF Latest, Opened

\* The cycle of every recorded stage end stays opened.
LEMMA EndedStays ==
  ASSUME TypeInv, CycleInv, NEW K, Adds(K), K \intersect {"stage.completed", "stage.failed"} = {}
  PROVE  /\ Ended' = Ended
         /\ \A i \in Ended : log'[i] = log[i]
         /\ (\A i \in Ended : \E j \in Opened : log[j].cycle = log[i].cycle)'
<1>1. /\ \A kind \in {"stage.completed", "stage.failed"} :
           /\ Where(DOMAIN log, kind)' = Where(DOMAIN log, kind)
           /\ \A i \in Where(DOMAIN log, kind) : log'[i] = log[i]
  BY KindKept
<1>2. Ended' = Ended /\ \A i \in Ended : log'[i] = log[i]
  BY <1>1 DEF Ended
<1>3. \A i \in Opened : i \in Opened' /\ log'[i] = log[i]
  BY HeldStays DEF Adds, Opened, Where
<1>4. QED
  BY <1>2, <1>3 DEF CycleInv

\* Only Pick takes a task and only Admit lets it in; the rest of the pass keeps
\* its cycle.
LEMMA KeepsCycle ==
  ASSUME TypeInv, TypeInv', NEW w \in Workers, Step(w) \/ Die(w), ~Pick(w), ~Admit(w)
  PROVE  /\ pc'[w] # "picked" /\ pc'[w] # "overspent"
         /\ pc'[w] # "idle" =>
              /\ pc[w] \notin {"idle", "overspent", "picked"}
              /\ ctx'[w].cycle = ctx[w].cycle
<1>1. CASE RecordFailure(w)
  BY <1>1, FailureWrites DEF RecordFailure, after_failure
<1>2. CASE Gate(w)
  <2>1. pc'[w] # "idle" => ctx'[w].cycle = ctx[w].cycle
    BY <1>2 DEF Gate, Return, Goto, TypeInv, TypeOK, CtxType
  <2>2. pc'[w] \notin {"picked", "overspent"}
    BY <1>2 DEF Gate, Return, Goto, TypeInv, TypeOK, verdict
  <2>3. QED
    BY <1>2, <2>1, <2>2 DEF Gate
<1>3. CASE StartStage(w) \/ StageReturns(w) \/ StageRaises(w) \/ PassReview(w)
  <2>1. StageReturns(w) => ctx'[w].cycle = ctx[w].cycle
    BY ReturnWrites
  <2>2. StageRaises(w) => \E sig : ctx' = [ctx EXCEPT ![w].sig = sig]
    BY DEF StageRaises
  <2>3. StageRaises(w) => ctx'[w].cycle = ctx[w].cycle
    BY <2>2 DEF TypeInv, TypeOK, CtxType
  <2>4. StartStage(w) \/ PassReview(w) => ctx' = ctx
    BY DEF StartStage, PassReview
  <2>5. pc[w] \in {"cleared", "running", "assessing"}
          /\ pc'[w] \in {"running", "assessing", "failing", "finalizing"}
    BY <1>3 DEF StartStage, StageReturns, StageRaises, PassReview, Goto, TypeInv, TypeOK
  <2>6. QED
    BY <1>3, <2>1, <2>3, <2>4, <2>5
<1>4. CASE \/ Overspend(w) \/ RequestApproval(w) \/ RefuseTask(w) \/ DeferForPlan(w)
           \/ ScheduleRetry(w) \/ Replan(w) \/ GiveUp(w) \/ FailQuality(w)
           \/ PassStage(w) \/ Finalize(w) \/ Die(w)
  <2>1. Return(w)
    BY <1>4 DEF Overspend, RequestApproval, RefuseTask, DeferForPlan, ScheduleRetry, Replan,
      GiveUp, FailQuality, PassStage, Finalize, Die
  <2>2. QED
    BY <2>1 DEF Return, Goto, TypeInv, TypeOK
<1>5. QED
  BY <1>1, <1>2, <1>3, <1>4 DEF Step

LEMMA CyclePick ==
  ASSUME Fits, TypeInv, TypeInv', CycleInv, NEW w \in Workers, Alone, Pick(w)
  PROVE  CycleInv'
<1>1. Adds({"mode.adjusted"})
  BY StepAdds
<1>2. Recent = DOMAIN log
  BY WholeLogRead DEF Fits
<1>3. pc'[w] \in {"overspent", "picked"} /\ ctx'[w].seen = DOMAIN log
  BY <1>2, NoCtxTyped DEF Pick, Goto, TypeInv, TypeOK, CtxType
<1>4. \A kind \in {"started", "cycle.started"} :
        Where(ctx[w].seen, kind)' = Where(DOMAIN log, kind)'
  <2>1. TAKE kind \in {"started", "cycle.started"}
  <2>2. Where(DOMAIN log, kind)' = Where(DOMAIN log, kind)
    BY <1>1, KindKept
  <2>3. \A i \in DOMAIN log : log'[i] = log[i]
    BY <1>1, HeldStays DEF Adds
  <2>4. QED
    BY <1>3, <2>2, <2>3 DEF Where
<1>5. /\ CyclesAdvance' /\ (Opened = {} <=> Where(DOMAIN log, "started") = {})'
      /\ (\A i \in Ended : \E j \in Opened : log[j].cycle = log[i].cycle)'
  BY <1>1, CycleStays, EndedStays DEF CycleInv
<1>6. ASSUME NEW v \in Workers
      PROVE  /\ pc'[v] = "picked" =>
                  \A kind \in {"started", "cycle.started"} :
                    Where(ctx[v].seen, kind)' = Where(DOMAIN log, kind)'
             /\ pc'[v] \in {"idle", "overspent", "picked"}
  BY <1>3, <1>4 DEF Alone
<1>7. QED
  BY <1>5, <1>6 DEF CycleInv

LEMMA CycleAdmit ==
  ASSUME TypeInv, TypeInv', CycleInv, NEW w \in Workers, Alone, Admit(w)
  PROVE  CycleInv'
<1>1. /\ Where(ctx[w].seen, "started") = Where(DOMAIN log, "started")
      /\ Where(ctx[w].seen, "cycle.started") = Opened
  BY DEF Admit, CycleInv, Opened
<1>2. pc'[w] = "admitted"
  BY DEF Admit, Goto, TypeInv, TypeOK
<1>3. CASE Where(ctx[w].seen, "started") # {}
  <2>1. UNCHANGED log /\ ctx'[w].cycle = current_cycle(ctx[w].seen)
    BY <1>3 DEF Admit, TypeInv, TypeOK, CtxType
  <2>2. Opened # {} /\ current_cycle(ctx[w].seen) = log[Max(Opened)].cycle
    BY <1>1, <1>3 DEF CycleInv, current_cycle
  <2>3. Max(Opened) \in Opened /\ \A j \in Opened : j <= Max(Opened)
    <3>1. Opened \in SUBSET (1..Len(log)) /\ Len(log) \in Nat
      BY LogTyped DEF Opened, Where
    <3>2. \A j \in Opened : Max(Opened) >= j /\ Max(Opened) \in Opened
      BY <2>2, <3>1, MaxIsGreatest
    <3>3. QED
      BY <2>2, <3>1, <3>2
  <2>4. Latest(ctx'[w].cycle)
    BY <2>1, <2>2, <2>3 DEF Latest
  <2>5. /\ Opened' = Opened /\ Where(DOMAIN log, "started")' = Where(DOMAIN log, "started")
        /\ CyclesAdvance' = CyclesAdvance /\ Ended' = Ended
        /\ Latest(ctx[w].cycle)' = Latest(ctx'[w].cycle)
    BY <2>1 DEF Opened, Where, CyclesAdvance, Ended, Latest
  <2>6. QED
    BY <1>2, <2>1, <2>4, <2>5 DEF CycleInv, Alone
<1>4. CASE Where(ctx[w].seen, "started") = {}
  <2>1. /\ RecordBoth(Event("started", "none", 1), CycleStarted(1))
        /\ ctx'[w].cycle = 1
    BY <1>4 DEF Admit, TypeInv, TypeOK, CtxType
  <2>2. Event("started", "none", 1) \in EventType /\ CycleStarted(1) \in EventType
    BY ContextTyped DEF EventKind, CycleStarted
  <2>3. /\ Grows /\ Len(log') = Len(log) + 2
        /\ log'[Len(log) + 1] = Event("started", "none", 1)
        /\ log'[Len(log) + 2] = CycleStarted(1)
    BY <2>1, <2>2, LogTyped, RecordBothGrows DEF RecordBoth, TypeInv, TypeOK
  <2>4. DOMAIN log' = DOMAIN log \union {Len(log) + 1, Len(log) + 2}
    BY <2>3, LogTyped DEF Grows
  <2>5. Opened = {} /\ Ended = {}
    BY <1>1, <1>4 DEF CycleInv
  <2>6. /\ log'[Len(log) + 1].kind = "started"
        /\ log'[Len(log) + 2].kind = "cycle.started" /\ log'[Len(log) + 2].cycle = 1
    BY <2>3 DEF Event, CycleStarted
  <2>7. \A i \in DOMAIN log : log'[i] = log[i]
    BY <2>3, HeldStays
  <2>8. Opened' = {Len(log) + 2} /\ Where(DOMAIN log, "started")' # {}
    BY <2>4, <2>5, <2>6, <2>7 DEF Opened, Where
  <2>9. Ended' = {}
    BY <2>4, <2>5, <2>6, <2>7 DEF Ended, Where
  <2>10. CyclesAdvance' /\ Latest(ctx[w].cycle)'
    BY <2>1, <2>6, <2>8, LogTyped DEF CyclesAdvance, Latest, Opened
  <2>11. QED
    BY <1>2, <2>8, <2>9, <2>10 DEF CycleInv, Alone
<1>5. QED
  BY <1>3, <1>4

\* The rest of a pass: a stage ends in the cycle opened last.
LEMMA CycleStep ==
  ASSUME TypeInv, TypeInv', CycleInv, NEW w \in Workers, Alone, Step(w) \/ Die(w),
         ~Pick(w), ~Admit(w)
  PROVE  CycleInv'
<1>1. /\ \A v \in Workers : v = w /\ pc'[v] # "picked"
      /\ pc'[w] \notin {"idle", "overspent", "picked"} =>
           pc[w] \notin {"idle", "overspent", "picked"} /\ ctx'[w].cycle = ctx[w].cycle
  BY KeepsCycle DEF Alone
<1>2. ASSUME NEW K, Adds(K), "started" \notin K, "cycle.started" \notin K
      PROVE  /\ CyclesAdvance' /\ (Opened = {} <=> Where(DOMAIN log, "started") = {})'
             /\ pc'[w] \notin {"idle", "overspent", "picked"} => Latest(ctx[w].cycle)'
  <2>1. \A c : Latest(c)' <=> Latest(c)
    BY <1>2, CycleStays
  <2>2. pc'[w] \notin {"idle", "overspent", "picked"} => Latest(ctx'[w].cycle)
    BY <1>1 DEF CycleInv
  <2>3. QED
    BY <1>2, <2>1, <2>2, CycleStays DEF CycleInv
<1>3. CASE DeferForPlan(w) \/ Replan(w) \/ FailQuality(w)
  <2>1. CASE Adds({"missing_plan", "low_information_gain", "failed"})
    BY <1>1, <1>2, <2>1, EndedStays DEF CycleInv
  <2>2. CASE /\ Opens(ctx[w].cycle + 1)
             /\ Adds({"execute_plan.missing", "quality.failed", "cycle.started"})
    <3>1. Latest(ctx[w].cycle) /\ ctx[w].cycle \in 1..MaxCycles
      BY <1>3, ContextTyped DEF CycleInv, DeferForPlan, Replan, FailQuality
    <3>2. CyclesAdvance'
      BY <2>2, <3>1, OpenedNext
    <3>3. Where(DOMAIN log, "started")' # {}
      BY <2>2, <3>1, KindKept DEF CycleInv, Latest
    <3>4. Opened' # {} /\ pc'[w] = "idle"
      BY <1>3, <2>2, OpeningStep DEF Opens
    <3>5. QED
      BY <1>1, <2>2, <3>2, <3>3, <3>4, EndedStays DEF CycleInv
  <2>3. QED
    BY <1>3, <2>1, <2>2, OpeningStep
<1>4. CASE StageReturns(w) \/ RecordFailure(w)
  <2>1. CASE Adds({"low_information_gain"})
    BY <1>1, <1>2, <2>1, EndedStays DEF CycleInv
  <2>2. ASSUME Grows, NEW n, DOMAIN log' = DOMAIN log \union {n}, n \notin DOMAIN log,
               log'[n].kind \in {"stage.completed", "stage.failed"},
               log'[n].cycle = ctx[w].cycle
        PROVE  CycleInv'
    <3>1. Adds({"stage.completed", "stage.failed"})
      BY <2>2 DEF Adds
    <3>2. PICK j \in Opened : log[j].cycle = ctx[w].cycle
      BY <1>4 DEF CycleInv, Latest, StageReturns, RecordFailure
    <3>3. Opened' = Opened /\ \A i \in Opened : log'[i] = log[i]
      BY <3>1, CycleStays
    <3>4. Ended' = Ended \union {n}
      <4>1. \A i \in DOMAIN log : log'[i] = log[i]
        BY <2>2, HeldStays
      <4>2. QED
        BY <2>2, <4>1 DEF Ended, Where
    <3>5. \A i \in Ended : log'[i] = log[i]
      BY <2>2, HeldStays DEF Ended, Where
    <3>6. (\A i \in Ended : \E k \in Opened : log[k].cycle = log[i].cycle)'
      BY <2>2, <3>2, <3>3, <3>4, <3>5 DEF CycleInv
    <3>7. QED
      BY <1>1, <1>2, <3>1, <3>6 DEF CycleInv
  <2>3. QED
    BY <1>4, <2>1, <2>2, ReturnWrites, FailureWrites
<1>5. CASE ~(StageReturns(w) \/ RecordFailure(w) \/ DeferForPlan(w) \/ Replan(w) \/ FailQuality(w))
  <2>1. \E K : Adds(K) /\ K \intersect {"started", "cycle.started", "stage.completed", "stage.failed"} = {}
    BY <1>5, StepAdds DEF Step
  <2>2. QED
    BY <1>1, <1>2, <2>1, EndedStays DEF CycleInv
<1>6. QED
  BY <1>3, <1>4, <1>5

LEMMA CycleNext ==
  ASSUME Alone, Fits, TypeInv, TypeInv', CycleInv, [Next]_vars
  PROVE  CycleInv'
<1>1. ASSUME NEW w \in Workers, Step(w) \/ Die(w)
      PROVE  CycleInv'
  BY <1>1, CyclePick, CycleAdmit, CycleStep
<1>2. CASE (\E approved \in BOOLEAN : Decide(approved)) \/ RetryComesDue
  <2>1. Adds({"approval", "failed"}) /\ UNCHANGED <<pc, ctx>>
    BY <1>2, OutsideAdds DEF Decide, RetryComesDue
  <2>2. ASSUME NEW w \in Workers, pc[w] = "picked",
               NEW kind \in {"started", "cycle.started"}
        PROVE  Where(ctx[w].seen, kind)' = Where(DOMAIN log, kind)'
    <3>1. Where(DOMAIN log, kind)' = Where(DOMAIN log, kind)
      BY <2>1, KindKept
    <3>2. \A i \in DOMAIN log : log'[i] = log[i]
      BY <2>1, HeldStays DEF Adds
    <3>3. Where(ctx[w].seen, kind) = Where(DOMAIN log, kind) /\ ctx[w].seen \subseteq DOMAIN log
      BY <2>2, ContextTyped DEF CycleInv
    <3>4. QED
      BY <2>1, <3>1, <3>2, <3>3 DEF Where
  <2>3. \A w \in Workers : Latest(ctx[w].cycle)' <=> Latest(ctx[w].cycle)
    BY <2>1, CycleStays DEF Latest
  <2>4. QED
    BY <2>1, <2>2, <2>3, CycleStays, EndedStays DEF CycleInv
<1>3. CASE UNCHANGED vars
  BY <1>3 DEF vars, CycleInv, CyclesAdvance, Opened, Ended, Latest, Where
<1>4. QED
  BY <1>1, <1>2, <1>3 DEF Next

LEMMA CycleInit == Init => CycleInv
BY DEF Init, CycleInv, CyclesAdvance, Opened, Ended, Latest, Where, Flagged, Event

\* With one pass at a time, on a log that fits the read window, no pass reopens a
\* cycle or opens one twice, wherever passes die.
THEOREM CyclesAlwaysAdvance ==
  ASSUME Alone
  PROVE  Spec /\ []Fits => []CyclesAdvance
<1>1. Spec => []TypeInv
  BY TypeInit, TypeNext, PTL DEF Spec
<1>2. Fits /\ TypeInv /\ TypeInv' /\ CycleInv /\ [Next]_vars => CycleInv'
  BY CycleNext
<1>3. Spec /\ []Fits => []CycleInv
  BY <1>1, <1>2, CycleInit, PTL DEF Spec
<1>4. CycleInv => CyclesAdvance
  BY DEF CycleInv
<1>5. QED
  BY <1>3, <1>4, PTL

-----------------------------------------------------------------------------
(* Counting events *)

\* The events of some kinds when one more of them is written, and when none is.
LEMMA CountOneMore ==
  ASSUME TypeInv, NEW S \in SUBSET DOMAIN log, NEW n, n \notin DOMAIN log
  PROVE  /\ IsFiniteSet(S) /\ Cardinality(S) \in Nat
         /\ IsFiniteSet(S \union {n}) /\ Cardinality(S \union {n}) = Cardinality(S) + 1
<1>1. IsFiniteSet(DOMAIN log)
  BY LogTyped, FS_Interval
<1>2. IsFiniteSet(S)
  BY <1>1, FS_Subset
<1>3. QED
  BY <1>2, FS_CardinalityType, FS_AddElement

LEMMA Countable ==
  ASSUME TypeInv
  PROVE  \A S \in SUBSET DOMAIN log : IsFiniteSet(S) /\ Cardinality(S) \in Nat
<1>1. IsFiniteSet(DOMAIN log)
  BY LogTyped, FS_Interval
<1>2. QED
  BY <1>1, FS_Subset, FS_CardinalityType

-----------------------------------------------------------------------------
(* The step budget *)

\* The passes that read the budget and have not recorded their step.
Spending == {w \in Workers : pc[w] \in {"picked", "admitted", "cleared", "running", "failing"}}

BudgetInv ==
  Fits => Cardinality(Ended) + Cardinality(Spending) < MaxTotalSteps + Cardinality(Workers)

\* Every step but Pick leaves the spenders among those there were, and recording
\* a step takes its pass out.
LEMMA SpendingShrinks ==
  ASSUME TypeInv, TypeInv', NEW w \in Workers, Step(w) \/ Die(w), ~Pick(w)
  PROVE  /\ Spending' \subseteq Spending
         /\ StageReturns(w) \/ RecordFailure(w) => w \in Spending \ Spending'
<1>1. \A v \in Workers \ {w} : pc'[v] = pc[v]
  BY OthersStay
<1>2. pc'[w] \in {"picked", "admitted", "cleared", "running", "failing"} =>
        pc[w] \in {"picked", "admitted", "cleared", "running", "failing"}
  <2>1. CASE RecordFailure(w)
    BY <2>1 DEF RecordFailure
  <2>2. CASE Gate(w)
    BY <2>2 DEF Gate
  <2>3. CASE Admit(w) \/ StartStage(w) \/ StageReturns(w) \/ StageRaises(w)
    BY <2>3 DEF Admit, StartStage, StageReturns, StageRaises
  <2>4. CASE PassReview(w)
    BY <2>4 DEF PassReview, Goto, TypeInv, TypeOK
  <2>5. CASE ~(RecordFailure(w) \/ Gate(w) \/ Admit(w) \/ StartStage(w) \/ StageReturns(w)
               \/ StageRaises(w) \/ PassReview(w))
    <3>1. Return(w)
      BY <2>5 DEF Step, Overspend, RequestApproval, RefuseTask, DeferForPlan, ScheduleRetry,
        Replan, GiveUp, FailQuality, PassStage, Finalize, Die
    <3>2. QED
      BY <3>1 DEF Return, Goto, TypeInv, TypeOK
  <2>6. QED
    BY <2>1, <2>2, <2>3, <2>4, <2>5
<1>3. StageReturns(w) \/ RecordFailure(w) => /\ pc[w] \in {"running", "failing"}
                                            /\ pc'[w] \notin {"picked", "admitted", "cleared", "running", "failing"}
  <2>1. StageReturns(w) => pc[w] = "running" /\ pc'[w] = "assessing"
    BY DEF StageReturns, Goto, TypeInv, TypeOK
  <2>2. RecordFailure(w) => pc[w] = "failing" /\ pc'[w] \in {"idle", "retrying", "replanning", "giving_up"}
    BY FailureWrites DEF RecordFailure, after_failure
  <2>3. QED
    BY <2>1, <2>2
<1>4. QED
  BY <1>1, <1>2, <1>3 DEF Spending

LEMMA BudgetNext ==
  ASSUME IsFiniteSet(Workers), TypeInv, TypeInv', BudgetInv, [Next]_vars
  PROVE  BudgetInv'
<1> SUFFICES ASSUME Fits'
             PROVE  Cardinality(Ended') + Cardinality(Spending')
                      < MaxTotalSteps + Cardinality(Workers)
  BY DEF BudgetInv
<1>0. /\ MaxTotalSteps \in Nat /\ Cardinality(Workers) \in Nat
      /\ Cardinality(Ended) \in Nat /\ Cardinality(Spending) \in Nat
      /\ Cardinality(Spending') \in Nat /\ Cardinality(Spending') <= Cardinality(Workers)
      /\ IsFiniteSet(Spending) /\ IsFiniteSet(Spending')
  <2>1. Ended \subseteq DOMAIN log
    BY DEF Ended, Where
  <2>2. Spending \subseteq Workers /\ Spending' \subseteq Workers
    BY DEF Spending
  <2>3. QED
    BY <2>1, <2>2, Countable, FS_Subset, FS_CardinalityType, SettingsAssumption
<1>1. ASSUME Grows
      PROVE  Fits
  BY <1>1, LogTyped, SettingsAssumption DEF Fits, Grows
<1>2. ASSUME NEW K, Adds(K), K \intersect {"stage.completed", "stage.failed"} = {},
             Spending' \subseteq Spending
      PROVE  Cardinality(Ended') + Cardinality(Spending')
                      < MaxTotalSteps + Cardinality(Workers)
  <2>1. Ended' = Ended
    BY <1>2, KindKept DEF Ended
  <2>2. Cardinality(Spending') <= Cardinality(Spending)
    BY <1>0, <1>2, FS_Subset
  <2>3. QED
    BY <1>0, <1>1, <1>2, <2>1, <2>2 DEF BudgetInv, Adds
<1>3. ASSUME NEW w \in Workers, Pick(w)
      PROVE  Cardinality(Ended') + Cardinality(Spending')
                      < MaxTotalSteps + Cardinality(Workers)
  <2>1. Ended' = Ended /\ Fits
    <3>1. Adds({"mode.adjusted"})
      BY <1>3, StepAdds
    <3>2. \A kind \in {"stage.completed", "stage.failed"} :
            Where(DOMAIN log, kind)' = Where(DOMAIN log, kind)
      BY <3>1, KindKept
    <3>3. QED
      BY <1>1, <3>1, <3>2 DEF Ended, Adds
  <2>2. CASE total_step_events(Recent) < MaxTotalSteps
    <3>1. total_step_events(Recent) = Cardinality(Ended)
      BY <2>1, WholeLogRead DEF total_step_events, Ended, Fits
    <3>2. QED
      BY <1>0, <2>1, <2>2, <3>1
  <2>3. CASE ~(total_step_events(Recent) < MaxTotalSteps)
    <3>1. total_step_events(Recent) = Cardinality(Ended)
      BY <2>1, WholeLogRead DEF total_step_events, Ended, Fits
    <3>2. pc' = [pc EXCEPT ![w] = "overspent"]
      <4>1. total_step_events(Recent) >= MaxTotalSteps
        BY <1>0, <2>3, <3>1
      <4>2. QED
        BY <1>3, <4>1 DEF Pick, Goto
    <3>3. Spending' \subseteq Spending
      BY <3>2 DEF Spending, TypeInv, TypeOK
    <3>4. QED
      BY <1>2, <1>3, <3>3, StepAdds
  <2>4. QED
    BY <2>2, <2>3
<1>4. ASSUME NEW w \in Workers, StageReturns(w) \/ RecordFailure(w)
      PROVE  Cardinality(Ended') + Cardinality(Spending')
                      < MaxTotalSteps + Cardinality(Workers)
  <2>1. Spending' \subseteq Spending \ {w} /\ w \in Spending
    BY <1>4, SpendingShrinks DEF Step, StageReturns, RecordFailure, Pick
  <2>2. Cardinality(Spending') <= Cardinality(Spending) - 1
    BY <1>0, <2>1, FS_RemoveElement, FS_Subset
  <2>3. CASE Adds({"low_information_gain"})
    BY <1>2, <2>1, <2>3
  <2>4. ASSUME Grows, NEW n, DOMAIN log' = DOMAIN log \union {n}, n \notin DOMAIN log,
               log'[n].kind \in {"stage.completed", "stage.failed"}
        PROVE  Fits /\ Cardinality(Ended') = Cardinality(Ended) + 1
    <3>1. \A i \in DOMAIN log : log'[i] = log[i]
      BY <2>4, HeldStays
    <3>2. Ended' = Ended \union {n} /\ Ended \subseteq DOMAIN log
      BY <2>4, <3>1 DEF Ended, Where
    <3>3. QED
      BY <1>1, <2>4, <3>2, CountOneMore
  <2>5. QED
    BY <1>0, <1>4, <2>2, <2>3, <2>4, ReturnWrites, FailureWrites DEF BudgetInv
<1>5. ASSUME NEW w \in Workers, Step(w) \/ Die(w),
             ~(Pick(w) \/ StageReturns(w) \/ RecordFailure(w))
      PROVE  Cardinality(Ended') + Cardinality(Spending')
                      < MaxTotalSteps + Cardinality(Workers)
  <2>1. \E K : Adds(K) /\ K \intersect {"stage.completed", "stage.failed"} = {}
    BY <1>5, StepAdds DEF Step
  <2>2. QED
    BY <1>2, <1>5, <2>1, SpendingShrinks
<1>6. CASE (\E approved \in BOOLEAN : Decide(approved)) \/ RetryComesDue
  <2>1. Adds({"approval", "failed"}) /\ UNCHANGED pc
    BY <1>6, OutsideAdds DEF Decide, RetryComesDue
  <2>2. QED
    BY <1>2, <2>1 DEF Spending
<1>7. CASE UNCHANGED vars
  <2>1. UNCHANGED log /\ UNCHANGED pc
    BY <1>7 DEF vars
  <2>2. Adds({})
    BY <2>1, RecordAdds
  <2>3. QED
    BY <1>2, <2>1, <2>2 DEF Spending
<1>8. QED
  BY <1>3, <1>4, <1>5, <1>6, <1>7 DEF Next

LEMMA BudgetInit == IsFiniteSet(Workers) /\ Init => BudgetInv
<1> SUFFICES ASSUME IsFiniteSet(Workers), Init PROVE BudgetInv
  OBVIOUS
<1>1. Ended = {} /\ Spending = {}
  BY DEF Init, Ended, Spending, Where, Flagged, Event
<1>2. Cardinality(Workers) \in Nat /\ MaxTotalSteps \in Nat \ {0}
  BY FS_CardinalityType, SettingsAssumption
<1>3. QED
  BY <1>1, <1>2, FS_EmptySet DEF BudgetInv

\* While the log fits the read window, the steps recorded overshoot the budget by
\* less than one per further pass, for any number of racing or dying passes.
THEOREM StepsAlwaysWithinCap ==
  ASSUME IsFiniteSet(Workers)
  PROVE  Spec => [](Fits => StepsWithinCapPerWorker)
<1>1. Spec => []TypeInv
  BY TypeInit, TypeNext, PTL DEF Spec
<1>2. Init => BudgetInv
  BY BudgetInit
<1>3. TypeInv /\ TypeInv' /\ BudgetInv /\ [Next]_vars => BudgetInv'
  BY BudgetNext
<1>4. Spec => []BudgetInv
  BY <1>1, <1>2, <1>3, PTL DEF Spec
<1>5. TypeInv /\ BudgetInv => (Fits => StepsWithinCapPerWorker)
  <2> SUFFICES ASSUME TypeInv, BudgetInv, Fits
               PROVE  StepsWithinCapPerWorker
    OBVIOUS
  <2>1. Ended = {i \in DOMAIN log : log[i].kind \in {"stage.completed", "stage.failed"}}
    BY DEF Ended, Where
  <2>2. Ended \subseteq DOMAIN log /\ Spending \subseteq Workers
    BY DEF Ended, Where, Spending
  <2>3. /\ Cardinality(Ended) \in Nat /\ Cardinality(Spending) \in Nat
        /\ Cardinality(Workers) \in Nat /\ MaxTotalSteps \in Nat
    BY <2>2, Countable, FS_Subset, FS_CardinalityType, SettingsAssumption
  <2>4. QED
    BY <2>1, <2>3 DEF BudgetInv, StepsWithinCapPerWorker
<1>6. QED
  BY <1>1, <1>4, <1>5, PTL

-----------------------------------------------------------------------------
(* One undisturbed pass at a time: the stages ever started *)

\* The log fits the read window and no pass has been cut short.
Calm == Fits /\ deaths = 0

\* Pass w is under way, or the task still waits for one.
Live(w) == pc[w] = "idle" => status \in {"new", "in_progress"}

\* Every stage that started has ended, but for the one under way.
AttemptInv ==
  /\ AttemptsWithinCap
  /\ \A w \in Workers :
       /\ Live(w) => Cardinality(Started) <=
                       Cardinality(Ended) + (IF pc[w] \in {"running", "failing"} THEN 1 ELSE 0)
       /\ pc[w] \in {"picked", "admitted", "cleared", "running", "failing"} =>
            Cardinality(Ended) < MaxTotalSteps

LEMMA CalmSteps ==
  ASSUME TypeInv, Calm'
  PROVE  \A w \in Workers : ~Die(w)
BY DEF Calm, Die, TypeInv, TypeOK

\* The stages started and ended are what they were unless the step is about them.
LEMMA StagesKept ==
  ASSUME TypeInv, NEW K, Adds(K),
         "stage.started" \notin K, "stage.completed" \notin K, "stage.failed" \notin K
  PROVE  Started' = Started /\ Ended' = Ended
BY KindKept DEF Started, Ended

LEMMA AttemptStep ==
  ASSUME Alone, Calm, Calm', TypeInv, TypeInv', AttemptInv, NEW w \in Workers, Step(w)
  PROVE  AttemptInv'
<1> DEFINE spending(label) == label \in {"picked", "admitted", "cleared", "running", "failing"}
           open(label) == IF label \in {"running", "failing"} THEN 1 ELSE 0
<1>0. /\ MaxTotalSteps \in Nat /\ Cardinality(Started) \in Nat /\ Cardinality(Ended) \in Nat
      /\ Started \subseteq DOMAIN log /\ Ended \subseteq DOMAIN log
  <2>1. Started \subseteq DOMAIN log /\ Ended \subseteq DOMAIN log
    BY DEF Started, Ended, Where
  <2>2. QED
    BY <2>1, Countable, SettingsAssumption
<1>1. SUFFICES
        /\ Cardinality(Started') <= MaxTotalSteps
        /\ Live(w)' => Cardinality(Started') <= Cardinality(Ended') + open(pc'[w])
        /\ spending(pc'[w]) => Cardinality(Ended') < MaxTotalSteps
  BY DEF AttemptInv, AttemptsWithinCap, Started, Alone
<1>2. /\ Cardinality(Started) <= MaxTotalSteps
      /\ Cardinality(Started) <= Cardinality(Ended) + open(pc[w])
      /\ spending(pc[w]) => Cardinality(Ended) < MaxTotalSteps
  <2>1. Live(w)
    BY DEF Live, Step, Pick, Overspend, Admit, Gate, RequestApproval, RefuseTask, DeferForPlan,
      StartStage, StageReturns, StageRaises, RecordFailure, ScheduleRetry, Replan, GiveUp,
      FailQuality, PassStage, PassReview, Finalize
  <2>2. QED
    BY <2>1 DEF AttemptInv, AttemptsWithinCap, Started
<1>3. CASE Pick(w)
  <2>1. Started' = Started /\ Ended' = Ended
    <3>1. Adds({"mode.adjusted"})
      BY <1>3, StepAdds
    <3>2. QED
      BY <3>1, StagesKept
  <2>2. total_step_events(Recent) = Cardinality(Ended)
    BY WholeLogRead DEF total_step_events, Ended, Fits, Calm
  <2>3. pc[w] = "idle" /\ pc'[w] = IF total_step_events(Recent) >= MaxTotalSteps
                                   THEN "overspent" ELSE "picked"
    BY <1>3 DEF Pick, Goto, TypeInv, TypeOK
  <2>4. QED
    BY <1>0, <1>2, <2>1, <2>2, <2>3
<1>4. CASE StartStage(w)
  <2>1. pc[w] = "cleared" /\ pc'[w] = "running"
    BY <1>4 DEF StartStage, Goto, TypeInv, TypeOK
  <2>2. Ended' = Ended
    <3>1. Adds({"stage.started"})
      BY <1>4, StepAdds
    <3>2. QED
      BY <3>1, KindKept DEF Ended
  <2>3. Cardinality(Started') = Cardinality(Started) + 1
    <3> DEFINE n == Len(log) + 1
    <3>0. n \notin DOMAIN log
      BY LogTyped
    <3>1. Grows /\ n \notin DOMAIN log /\ DOMAIN log' = DOMAIN log \union {n}
            /\ log'[n].kind = "stage.started"
      BY <1>4, <3>0, StartWrites
    <3> HIDE DEF n
    <3>2. Started' = Started \union {n}
      BY <3>1, OneAdded DEF Started
    <3>3. QED
      BY <1>0, <3>1, <3>2, CountOneMore
  <2>4. QED
    BY <1>0, <1>2, <2>1, <2>2, <2>3
<1>5. ASSUME Grows, NEW n, DOMAIN log' = DOMAIN log \union {n}, n \notin DOMAIN log,
             log'[n].kind \in {"stage.completed", "stage.failed"},
             pc[w] \in {"running", "failing"}, ~spending(pc'[w])
      PROVE  /\ Cardinality(Started') <= MaxTotalSteps
             /\ Cardinality(Started') <= Cardinality(Ended') + open(pc'[w])
             /\ ~spending(pc'[w])
  <2>1. Started' = Started
    <3>1. log'[n].kind # "stage.started"
      BY <1>5
    <3>2. QED
      BY <1>5, <3>1, OneAdded DEF Started
  <2>2. Ended' = Ended \union {n}
    <3>1. \A i \in DOMAIN log : log'[i] = log[i]
      BY <1>5, HeldStays
    <3>2. QED
      BY <1>5, <3>1 DEF Ended, Where
  <2>3. Cardinality(Ended') = Cardinality(Ended) + 1
    BY <1>0, <1>5, <2>2, CountOneMore
  <2>4. QED
    BY <1>0, <1>2, <1>5, <2>1, <2>3
<1>6. CASE StageReturns(w)
  <2>1. pc[w] = "running" /\ pc'[w] = "assessing"
    BY <1>6 DEF StageReturns, Goto, TypeInv, TypeOK
  <2>2. QED
    BY <1>5, <1>6, <2>1, ReturnWrites
<1>7. CASE RecordFailure(w)
  <2>1. pc[w] = "failing" /\ pc'[w] \in {"idle", "retrying", "replanning", "giving_up"}
    BY <1>7, FailureWrites DEF RecordFailure, after_failure
  <2>2. CASE Adds({"low_information_gain"}) /\ status' = "blocked" /\ pc'[w] = "idle"
    <3>1. Started' = Started /\ Ended' = Ended
      BY <2>2, StagesKept
    <3>2. QED
      BY <1>2, <2>2, <3>1 DEF Live
  <2>3. QED
    BY <1>5, <1>7, <2>1, <2>2, FailureWrites
<1>8. CASE ~(Pick(w) \/ StartStage(w) \/ StageReturns(w) \/ RecordFailure(w))
  <2>1. PICK K : Adds(K) /\ K \intersect {"stage.started", "stage.completed", "stage.failed"} = {}
    BY <1>8, StepAdds DEF Step
  <2>2. Started' = Started /\ Ended' = Ended
    BY <2>1, StagesKept
  <2>3. /\ spending(pc'[w]) => spending(pc[w])
        /\ pc[w] \in {"running", "failing"} => pc'[w] \in {"running", "failing"}
    <3>1. CASE Gate(w)
      BY <3>1 DEF Gate
    <3>2. CASE Admit(w) \/ StageRaises(w) \/ PassReview(w)
      BY <3>2 DEF Admit, StageRaises, PassReview, Goto, TypeInv, TypeOK
    <3>3. CASE ~(Gate(w) \/ Admit(w) \/ StageRaises(w) \/ PassReview(w))
      BY <1>8, <3>3 DEF Step, Overspend, RequestApproval, RefuseTask, DeferForPlan, ScheduleRetry,
        Replan, GiveUp, FailQuality, PassStage, Finalize, Return, Goto, TypeInv, TypeOK
    <3>4. QED
      BY <3>1, <3>2, <3>3
  <2>4. QED
    BY <1>0, <1>2, <2>2, <2>3
<1>9. QED
  BY <1>3, <1>4, <1>6, <1>7, <1>8

LEMMA AttemptNext ==
  ASSUME Alone, Calm, Calm', TypeInv, TypeInv', AttemptInv, [Next]_vars
  PROVE  AttemptInv'
<1>1. CASE (\E approved \in BOOLEAN : Decide(approved)) \/ RetryComesDue
  <2>1. /\ Adds({"approval", "failed"}) /\ UNCHANGED <<pc, ctx>>
        /\ status' = status \/ status' = "blocked"
    BY <1>1, OutsideAdds DEF Decide, RetryComesDue
  <2>2. Started' = Started /\ Ended' = Ended
    BY <2>1, StagesKept
  <2>3. \A w \in Workers : Live(w)' => Live(w)
    BY <2>1 DEF Live
  <2>4. QED
    BY <2>1, <2>2, <2>3 DEF AttemptInv, AttemptsWithinCap, Started
<1>2. CASE UNCHANGED vars
  BY <1>2 DEF vars, AttemptInv, AttemptsWithinCap, Started, Ended, Live, Where
<1>3. QED
  BY <1>1, <1>2, AttemptStep, CalmSteps DEF Next

LEMMA AttemptInit == Init => AttemptInv
<1> SUFFICES ASSUME Init PROVE AttemptInv
  OBVIOUS
<1>1. Ended = {} /\ Started = {} /\ \A w \in Workers : pc[w] = "idle"
  BY DEF Init, Ended, Started, Where, Flagged, Event
<1>2. QED
  BY <1>1, FS_EmptySet, SettingsAssumption DEF AttemptInv, AttemptsWithinCap, Started

\* With one pass at a time, none cut short, on a log that fits the read window, no
\* more stages ever start than autonomy_max_total_steps.
THEOREM AttemptsAlwaysWithinCap ==
  ASSUME Alone
  PROVE  Spec /\ []Calm => []AttemptsWithinCap
<1>1. Spec => []TypeInv
  BY TypeInit, TypeNext, PTL DEF Spec
<1>2. Calm /\ Calm' /\ TypeInv /\ TypeInv' /\ AttemptInv /\ [Next]_vars => AttemptInv'
  BY AttemptNext
<1>3. Spec /\ []Calm => []AttemptInv
  BY <1>1, <1>2, AttemptInit, PTL DEF Spec
<1>4. AttemptInv => AttemptsWithinCap
  BY DEF AttemptInv
<1>5. QED
  BY <1>3, <1>4, PTL

-----------------------------------------------------------------------------
(* One undisturbed pass at a time: retries *)

Failed(stage, c) == Of(DOMAIN log, "stage.failed", stage, c)

\* In the cycle opened last a stage has failed at most MaxRetries times, unless the
\* pass is about to open the next cycle or to give up; what it counts, it read.
RetryInv ==
  /\ FailuresWithinRetries
  /\ \A w \in Workers :
       /\ Live(w) /\ pc[w] \notin {"replanning", "giving_up"} =>
            \A stage \in Stage, c \in 1..MaxCycles :
              Latest(c) => Cardinality(Failed(stage, c)) <= MaxRetries
       /\ pc[w] \in {"cleared", "running", "failing"} =>
            Of(ctx[w].seen, "stage.failed", ctx[w].stage, ctx[w].cycle)
              = Failed(ctx[w].stage, ctx[w].cycle)

LEMMA FailedCounts ==
  ASSUME TypeInv
  PROVE  \A stage, c : /\ Failed(stage, c) \subseteq DOMAIN log
                       /\ Failed(stage, c) \subseteq Ended
                       /\ Cardinality(Failed(stage, c)) \in Nat
                       /\ \A i \in Failed(stage, c) : log[i].cycle = c
BY Countable DEF Failed, Of, Where, Ended

LEMMA LatestUnique ==
  ASSUME TypeInv, NEW a, NEW b, Latest(a), Latest(b)
  PROVE  a = b
<1>1. PICK i \in Opened : log[i].cycle = a /\ \A j \in Opened : j <= i
  BY DEF Latest
<1>2. PICK k \in Opened : log[k].cycle = b /\ \A j \in Opened : j <= k
  BY DEF Latest
<1>3. i \in Nat /\ k \in Nat
  BY LogTyped DEF Opened, Where
<1>4. QED
  BY <1>1, <1>2, <1>3

\* A pass is live at every step it takes.
LEMMA LiveSteps ==
  ASSUME NEW w \in Workers, Step(w)
  PROVE  Live(w)
BY DEF Live, Step, Pick, Overspend, Admit, Gate, RequestApproval, RefuseTask, DeferForPlan,
  StartStage, StageReturns, StageRaises, RecordFailure, ScheduleRetry, Replan, GiveUp,
  FailQuality, PassStage, PassReview, Finalize

\* A pass that is judging a stage is still about the stage its gate chose, and
\* only Gate and the running stage lead there.
LEMMA StageKept ==
  ASSUME TypeInv, TypeInv', NEW w \in Workers, Step(w), ~Gate(w),
         pc'[w] \in {"cleared", "running", "failing"}
  PROVE  /\ StartStage(w) \/ StageRaises(w)
         /\ pc[w] \in {"cleared", "running"}
         /\ ctx'[w].stage = ctx[w].stage /\ ctx'[w].cycle = ctx[w].cycle
         /\ ctx'[w].seen = ctx[w].seen /\ ctx'[w].now = ctx[w].now
<1>1. StartStage(w) \/ StageRaises(w)
  <2>1. RecordFailure(w) => pc'[w] \notin {"cleared", "running", "failing"}
    BY FailureWrites DEF after_failure
  <2>2. QED
    BY <2>1 DEF Step, Pick, Overspend, Admit, RequestApproval, RefuseTask, DeferForPlan,
      StageReturns, ScheduleRetry, Replan, GiveUp, FailQuality, PassStage, PassReview,
      Finalize, Return, Goto, TypeInv, TypeOK
<1>2. ctx' = ctx \/ \E sig : ctx' = [ctx EXCEPT ![w].sig = sig]
  BY <1>1 DEF StartStage, StageRaises
<1>3. QED
  BY <1>1, <1>2 DEF StartStage, StageRaises, TypeInv, TypeOK, CtxType

\* What a gate reads and decides.
LEMMA GateReads ==
  ASSUME Fits, TypeInv, NEW w \in Workers, Gate(w), pc'[w] # "idle"
  PROVE  /\ UNCHANGED log
         /\ ctx'[w].seen = DOMAIN log
         /\ ctx'[w].cycle = ctx[w].cycle /\ ctx'[w].now = ctx[w].now
         /\ ctx'[w].stage = next_stage(DOMAIN log, ctx[w].cycle)
         /\ pc'[w] = verdict(DOMAIN log, ctx'[w].stage, ctx[w].cycle, ctx[w].required, ctx[w].now)
<1>1. Recent = DOMAIN log
  BY WholeLogRead DEF Fits
<1> DEFINE stage == next_stage(DOMAIN log, ctx[w].cycle)
           label == verdict(DOMAIN log, stage, ctx[w].cycle, ctx[w].required, ctx[w].now)
<1>2. label # "idle" /\ ctx' = [ctx EXCEPT ![w].stage = stage, ![w].seen = Recent]
        /\ pc' = [pc EXCEPT ![w] = label]
  BY <1>1 DEF Gate, Return, Goto, TypeInv, TypeOK
<1> HIDE DEF stage, label
<1>3. /\ ctx'[w].stage = stage /\ ctx'[w].seen = DOMAIN log /\ ctx'[w].cycle = ctx[w].cycle
      /\ ctx'[w].now = ctx[w].now /\ pc'[w] = label
  BY <1>1, <1>2 DEF TypeInv, TypeOK, CtxType
<1>4. QED
  BY <1>3 DEF Gate, stage, label

\* A stage that was cleared keeps what it read while it runs.
LEMMA RetryReads ==
  ASSUME Alone, Fits, TypeInv, TypeInv', RetryInv, NEW w \in Workers, Step(w),
         pc'[w] \in {"cleared", "running", "failing"}
  PROVE  (Of(ctx[w].seen, "stage.failed", ctx[w].stage, ctx[w].cycle)
            = Failed(ctx[w].stage, ctx[w].cycle))'
<1>1. CASE Gate(w)
  BY <1>1, GateReads DEF Failed
<1>2. CASE ~Gate(w)
  <2>1. Adds({"stage.started"}) \/ Adds({"diagnosis"})
    BY <1>2, StageKept, StepAdds
  <2>2. Failed(ctx[w].stage, ctx[w].cycle)' = Failed(ctx[w].stage, ctx[w].cycle)
    <3>1. \A stage, c : Of(DOMAIN log, "stage.failed", stage, c)'
                           = Of(DOMAIN log, "stage.failed", stage, c)
      <4>1. PICK K : Adds(K) /\ "stage.failed" \notin K
        BY <2>1
      <4>2. QED
        BY <4>1, KindKept
    <3>2. ctx'[w].stage = ctx[w].stage /\ ctx'[w].cycle = ctx[w].cycle
      BY <1>2, StageKept
    <3>3. QED
      BY <3>1, <3>2 DEF Failed
  <2>3. \A i \in DOMAIN log : log'[i] = log[i]
    BY <2>1, HeldStays DEF Adds
  <2>4. ctx[w].seen \subseteq DOMAIN log /\ ctx'[w].seen = ctx[w].seen
    BY <1>2, StageKept, ContextTyped
  <2>5. Of(ctx[w].seen, "stage.failed", ctx[w].stage, ctx[w].cycle)'
          = Of(ctx[w].seen, "stage.failed", ctx[w].stage, ctx[w].cycle)
    BY <1>2, <2>3, <2>4, StageKept DEF Of, Where
  <2>6. QED
    BY <1>2, <2>2, <2>5, StageKept DEF RetryInv
<1>3. QED
  BY <1>1, <1>2

LEMMA RetryStep ==
  ASSUME Alone, Calm, Calm', TypeInv, TypeInv', CycleInv, RetryInv, NEW w \in Workers, Step(w)
  PROVE  RetryInv'
<1> DEFINE settled == Live(w) /\ pc[w] \notin {"replanning", "giving_up"}
<1>1. SUFFICES
        ASSUME NEW stage \in Stage, NEW c \in 1..MaxCycles
        PROVE  /\ Cardinality(Failed(stage, c)') <= MaxRetries + 1
               /\ settled' /\ Latest(c)' => Cardinality(Failed(stage, c)') <= MaxRetries
  BY RetryReads DEF RetryInv, FailuresWithinRetries, Failed, Alone, Calm
<1>2. /\ MaxRetries \in Nat /\ Cardinality(Failed(stage, c)) \in Nat
      /\ Cardinality(Failed(stage, c)) <= MaxRetries + 1
      /\ pc[w] \notin {"replanning", "giving_up"} /\ Latest(c)
           => Cardinality(Failed(stage, c)) <= MaxRetries
  BY LiveSteps, FailedCounts, SettingsAssumption DEF RetryInv, FailuresWithinRetries, Failed
<1>3. ASSUME NEW K, Adds(K), "stage.failed" \notin K
      PROVE  Failed(stage, c)' = Failed(stage, c)
  BY <1>3, KindKept DEF Failed
<1>4. ASSUME NEW K, Adds(K), "stage.failed" \notin K, status' = "blocked", pc'[w] = "idle"
      PROVE  Cardinality(Failed(stage, c)') <= MaxRetries + 1 /\ ~settled'
  BY <1>2, <1>3, <1>4 DEF Live
<1>5. CASE DeferForPlan(w) \/ Replan(w) \/ FailQuality(w)
  <2>1. CASE Adds({"missing_plan", "low_information_gain", "failed"}) /\ status' = "blocked"
    BY <1>4, <1>5, <2>1, OpeningStep
  <2>2. CASE /\ Opens(ctx[w].cycle + 1) /\ ctx[w].cycle < MaxCycles
             /\ Adds({"execute_plan.missing", "quality.failed", "cycle.started"})
    <3>1. Latest(ctx[w].cycle) /\ ctx[w].cycle \in 1..MaxCycles
      BY <1>5, ContextTyped DEF CycleInv, DeferForPlan, Replan, FailQuality
    <3>2. Failed(stage, c)' = Failed(stage, c)
      BY <1>3, <2>2
    <3>3. Latest(c)' => c = ctx[w].cycle + 1
      BY <2>2, <3>1, OpenedNext
    <3>4. \A i \in Ended : log[i].cycle <= ctx[w].cycle
      BY <2>2, <3>1, OpenedNext
    <3>5. c = ctx[w].cycle + 1 => Failed(stage, c) = {}
      BY <3>1, <3>4, FailedCounts
    <3>6. QED
      BY <1>2, <3>2, <3>3, <3>5, FS_EmptySet
  <2>3. QED
    BY <1>5, <2>1, <2>2, OpeningStep
<1>6. CASE RecordFailure(w)
  <2>1. CASE Adds({"low_information_gain"}) /\ status' = "blocked" /\ pc'[w] = "idle"
    BY <1>4, <2>1
  <2>2. ASSUME Grows, NEW n, DOMAIN log' = DOMAIN log \union {n}, n \notin DOMAIN log,
               log'[n].kind = "stage.failed", log'[n].stage = ctx[w].stage,
               log'[n].cycle = ctx[w].cycle, NEW sig, pc'[w] = after_failure(w, sig)
        PROVE  /\ Cardinality(Failed(stage, c)') <= MaxRetries + 1
               /\ settled' /\ Latest(c)' => Cardinality(Failed(stage, c)') <= MaxRetries
    <3>1. pc[w] = "failing" /\ Latest(ctx[w].cycle)
      BY <1>6 DEF RecordFailure, CycleInv
    <3>2. Latest(c)' => Latest(c) /\ c = ctx[w].cycle
      <4>1. Adds({"stage.failed"})
        BY <2>2 DEF Adds
      <4>2. Latest(c)' => Latest(c)
        BY <4>1, CycleStays
      <4>3. QED
        BY <3>1, <4>2, LatestUnique
    <3>0. Failed(stage, c)' = IF log'[n].stage = stage /\ log'[n].cycle = c
                              THEN Failed(stage, c) \union {n} ELSE Failed(stage, c)
      <4>1. \A s, b : Of(DOMAIN log, "stage.failed", s, b)' =
                       IF log'[n].stage = s /\ log'[n].cycle = b
                       THEN Of(DOMAIN log, "stage.failed", s, b) \union {n}
                       ELSE Of(DOMAIN log, "stage.failed", s, b)
        BY <2>2, OneAdded
      <4>2. QED
        BY <4>1 DEF Failed
    <3>3. CASE ~(stage = ctx[w].stage /\ c = ctx[w].cycle)
      <4>1. Failed(stage, c)' = Failed(stage, c)
        BY <2>2, <3>0, <3>3
      <4>2. QED
        BY <1>2, <3>1, <3>2, <4>1
    <3>4. CASE stage = ctx[w].stage /\ c = ctx[w].cycle
      <4>1. Failed(stage, c)' = Failed(stage, c) \union {n}
        BY <2>2, <3>0, <3>4
      <4>2. Cardinality(Failed(stage, c)') = Cardinality(Failed(stage, c)) + 1
        BY <2>2, <4>1, FailedCounts, CountOneMore
      <4>3. Cardinality(Failed(stage, c)) <= MaxRetries
        BY <1>2, <3>1, <3>4
      <4>4. failed_attempts(ctx[w].seen, ctx[w].stage, ctx[w].cycle)
              = Cardinality(Failed(stage, c))
        BY <3>1, <3>4 DEF RetryInv, failed_attempts
      <4>5. pc'[w] \notin {"replanning", "giving_up"} =>
              Cardinality(Failed(stage, c)) + 1 <= MaxRetries
        BY <2>2, <4>4 DEF after_failure
      <4>6. QED
        BY <1>2, <4>2, <4>3, <4>5
    <3>5. QED
      BY <3>3, <3>4
  <2>3. QED
    BY <1>6, <2>1, <2>2, FailureWrites
<1>7. CASE Admit(w)
  <2>1. Failed(stage, c)' = Failed(stage, c)
    <3>1. Adds({"started", "cycle.started"})
      BY <1>7, StepAdds
    <3>2. QED
      BY <1>3, <3>1
  <2>2. CASE Where(ctx[w].seen, "started") # {}
    <3>1. UNCHANGED log /\ pc[w] = "picked"
      BY <1>7, <2>2 DEF Admit
    <3>2. Latest(c)' <=> Latest(c)
      BY <3>1 DEF Latest, Opened, Where
    <3>3. QED
      BY <1>2, <2>1, <3>1, <3>2
  <2>3. CASE Where(ctx[w].seen, "started") = {}
    <3>1. Opened = {}
      BY <1>7, <2>3 DEF Admit, CycleInv
    <3>2. Failed(stage, c) = {}
      BY <3>1, FailedCounts DEF CycleInv
    <3>3. QED
      BY <1>2, <2>1, <3>2, FS_EmptySet
  <2>4. QED
    BY <2>2, <2>3
<1>8. CASE ~(DeferForPlan(w) \/ Replan(w) \/ FailQuality(w) \/ RecordFailure(w) \/ Admit(w))
  <2>1. PICK K : Adds(K) /\ K \intersect {"started", "cycle.started", "stage.failed"} = {}
    <3>1. StageReturns(w) => Adds({"stage.completed"})
      BY ReturnWrites DEF Adds
    <3>2. QED
      BY <1>8, <3>1, StepAdds DEF Step
  <2>2. Latest(c)' <=> Latest(c)
    BY <2>1, CycleStays
  <2>3. settled' => pc[w] \notin {"replanning", "giving_up"}
    <3>1. CASE GiveUp(w)
      BY <3>1 DEF GiveUp, Block, Return, Goto, Live, TypeInv, TypeOK
    <3>2. CASE ~GiveUp(w)
      BY <1>8, <3>2 DEF Step, Pick, Overspend, Gate, RequestApproval, RefuseTask, StartStage,
        StageReturns, StageRaises, ScheduleRetry, PassStage, PassReview, Finalize
    <3>3. QED
      BY <3>1, <3>2
  <2>4. QED
    BY <1>2, <1>3, <2>1, <2>2, <2>3
<1>9. QED
  BY <1>5, <1>6, <1>7, <1>8

LEMMA RetryNext ==
  ASSUME Alone, Calm, Calm', TypeInv, TypeInv', CycleInv, RetryInv, [Next]_vars
  PROVE  RetryInv'
<1>1. CASE (\E approved \in BOOLEAN : Decide(approved)) \/ RetryComesDue
  <2>1. /\ Adds({"approval", "failed"}) /\ UNCHANGED <<pc, ctx>>
        /\ status' = status \/ status' = "blocked"
    BY <1>1, OutsideAdds DEF Decide, RetryComesDue
  <2>2. \A stage, c : Failed(stage, c)' = Failed(stage, c)
    BY <2>1, KindKept DEF Failed
  <2>3. /\ \A w \in Workers : Live(w)' => Live(w)
        /\ \A c : Latest(c)' <=> Latest(c)
    BY <2>1, CycleStays DEF Live
  <2>4. FailuresWithinRetries'
    BY <2>2 DEF RetryInv, FailuresWithinRetries, Failed
  <2>5. ASSUME NEW w \in Workers, pc[w] \in {"cleared", "running", "failing"}
        PROVE  (Of(ctx[w].seen, "stage.failed", ctx[w].stage, ctx[w].cycle)
                  = Failed(ctx[w].stage, ctx[w].cycle))'
    <3>1. Of(ctx[w].seen, "stage.failed", ctx[w].stage, ctx[w].cycle)'
            = Of(ctx[w].seen, "stage.failed", ctx[w].stage, ctx[w].cycle)
      BY <2>1, HeldStays, ContextTyped DEF Adds, Of, Where
    <3>2. Failed(ctx[w].stage, ctx[w].cycle)' = Failed(ctx[w].stage, ctx[w].cycle)
      BY <2>1, <2>2 DEF Failed
    <3>3. QED
      BY <2>5, <3>1, <3>2 DEF RetryInv
  <2>6. ASSUME NEW w \in Workers, Live(w)', pc'[w] \notin {"replanning", "giving_up"},
               NEW stage \in Stage, NEW c \in 1..MaxCycles, Latest(c)'
        PROVE  Cardinality(Failed(stage, c)') <= MaxRetries
    BY <2>1, <2>2, <2>3, <2>6 DEF RetryInv
  <2>7. QED
    BY <2>1, <2>4, <2>5, <2>6 DEF RetryInv
<1>2. CASE UNCHANGED vars
  BY <1>2 DEF vars, RetryInv, FailuresWithinRetries, Failed, Live, Latest, Opened, Of, Where
<1>3. QED
  BY <1>1, <1>2, RetryStep, CalmSteps DEF Next

LEMMA RetryInit == Init => RetryInv
<1> SUFFICES ASSUME Init PROVE RetryInv
  OBVIOUS
<1>1. \A stage, c : Failed(stage, c) = {}
  BY DEF Init, Failed, Of, Where, Flagged, Event
<1>2. \A w \in Workers : pc[w] = "idle"
  BY DEF Init
<1>3. QED
  BY <1>1, <1>2, FS_EmptySet, SettingsAssumption DEF RetryInv, FailuresWithinRetries, Failed

\* With one pass at a time, none cut short, on a log that fits the read window, a
\* stage fails at most autonomy_max_retries + 1 times in a cycle.
THEOREM FailuresAlwaysWithinRetries ==
  ASSUME Alone
  PROVE  Spec /\ []Calm => []FailuresWithinRetries
<1>1. Spec => []TypeInv
  BY TypeInit, TypeNext, PTL DEF Spec
<1>2. Calm => Fits
  BY DEF Calm
<1>3. Fits /\ TypeInv /\ TypeInv' /\ CycleInv /\ [Next]_vars => CycleInv'
  BY CycleNext
<1>4. Spec /\ []Calm => []CycleInv
  BY <1>1, <1>2, <1>3, CycleInit, PTL DEF Spec
<1>5. Calm /\ Calm' /\ TypeInv /\ TypeInv' /\ CycleInv /\ RetryInv /\ [Next]_vars => RetryInv'
  BY RetryNext
<1>6. Spec /\ []Calm => []RetryInv
  BY <1>1, <1>4, <1>5, RetryInit, PTL DEF Spec
<1>7. RetryInv => FailuresWithinRetries
  BY DEF RetryInv
<1>8. QED
  BY <1>6, <1>7, PTL

-----------------------------------------------------------------------------
(* Retries wait for their time *)

Retries(stage, c) == Of(DOMAIN log, "retry.scheduled", stage, c)

\* What a pass took to be due is due, and a pass past the gate found the last retry
\* of its stage due.
RipeInv ==
  \A w \in Workers :
    /\ ctx[w].now \subseteq ripe
    /\ pc[w] = "cleared" =>
         LET R == Retries(ctx[w].stage, ctx[w].cycle) IN R = {} \/ Max(R) \in ctx[w].now

\* The gate lets no stage through whose last retry was not due.
LEMMA GateWaits ==
  ASSUME Fits, TypeInv, NEW w \in Workers, Gate(w), pc'[w] = "cleared"
  PROVE  (LET R == Retries(ctx[w].stage, ctx[w].cycle) IN R = {} \/ Max(R) \in ctx[w].now)'
<1>1. /\ UNCHANGED log /\ ctx'[w].cycle = ctx[w].cycle /\ ctx'[w].now = ctx[w].now
      /\ "cleared" = verdict(DOMAIN log, ctx'[w].stage, ctx[w].cycle, ctx[w].required, ctx[w].now)
  BY GateReads
<1>2. ~retry_waits(DOMAIN log, ctx'[w].stage, ctx[w].cycle, ctx[w].now)
  BY <1>1 DEF verdict
<1>3. (LET R == Of(DOMAIN log, "retry.scheduled", ctx'[w].stage, ctx[w].cycle)
       IN  R = {} \/ Max(R) \in ctx[w].now)
  BY <1>2 DEF retry_waits
<1>4. Retries(ctx[w].stage, ctx[w].cycle)'
        = Of(DOMAIN log, "retry.scheduled", ctx'[w].stage, ctx[w].cycle)
  BY <1>1 DEF Retries, Of, Where
<1>5. QED
  BY <1>1, <1>3, <1>4

LEMMA RipeNext ==
  ASSUME Alone, Fits, TypeInv, TypeInv', RipeInv, [Next]_vars
  PROVE  RipeInv'
<1>1. ASSUME NEW w \in Workers, Step(w) \/ Die(w)
      PROVE  RipeInv'
  <2>1. ripe' = ripe
    BY <1>1 DEF Step, Die, Pick, Overspend, Admit, Gate, RequestApproval, RefuseTask,
      DeferForPlan, StartStage, StageReturns, StageRaises, RecordFailure, ScheduleRetry, Replan,
      GiveUp, FailQuality, PassStage, PassReview, Finalize
  <2>2. ctx'[w].now \subseteq ripe
    <3>1. CASE Pick(w)
      BY <3>1, NoCtxTyped DEF Pick, TypeInv, TypeOK, CtxType
    <3>2. CASE Gate(w)
      <4>1. CASE Return(w)
        BY <4>1 DEF Return, NoCtx, TypeInv, TypeOK
      <4>2. CASE ~Return(w)
        BY <3>2, <4>2 DEF Gate, RipeInv, TypeInv, TypeOK, CtxType
      <4>3. QED
        BY <4>1, <4>2
    <3>3. CASE Admit(w) \/ StartStage(w) \/ PassReview(w)
      <4>1. ctx' = ctx \/ \E c : ctx' = [ctx EXCEPT ![w].cycle = c]
        BY <3>3 DEF Admit, StartStage, PassReview
      <4>2. QED
        BY <4>1 DEF RipeInv, TypeInv, TypeOK, CtxType
    <3>4. CASE StageReturns(w) \/ StageRaises(w)
      <4>1. \E p, s : ctx' = [ctx EXCEPT ![w].passed = p, ![w].sig = s]
                        \/ ctx' = [ctx EXCEPT ![w].sig = s]
        BY <3>4 DEF StageReturns, StageRaises
      <4>2. QED
        BY <4>1 DEF RipeInv, TypeInv, TypeOK, CtxType
    <3>5. CASE RecordFailure(w)
      BY <3>5 DEF RecordFailure, Return, NoCtx, RipeInv, TypeInv, TypeOK
    <3>6. CASE ~(Pick(w) \/ Gate(w) \/ Admit(w) \/ StartStage(w) \/ PassReview(w)
                 \/ StageReturns(w) \/ StageRaises(w) \/ RecordFailure(w))
      <4>1. Return(w)
        BY <1>1, <3>6 DEF Step, Overspend, RequestApproval, RefuseTask, DeferForPlan,
          ScheduleRetry, Replan, GiveUp, FailQuality, PassStage, Finalize, Die
      <4>2. QED
        BY <4>1 DEF Return, NoCtx, TypeInv, TypeOK
    <3>7. QED
      BY <3>1, <3>2, <3>3, <3>4, <3>5, <3>6
  <2>3. pc'[w] = "cleared" =>
          (LET R == Retries(ctx[w].stage, ctx[w].cycle) IN R = {} \/ Max(R) \in ctx[w].now)'
    BY <1>1, ClearedByGate, GateWaits
  <2>4. QED
    BY <2>1, <2>2, <2>3 DEF RipeInv, Alone
<1>2. CASE (\E approved \in BOOLEAN : Decide(approved)) \/ RetryComesDue
  <2>1. Adds({"approval", "failed"}) /\ UNCHANGED <<pc, ctx>> /\ ripe \subseteq ripe'
    BY <1>2, OutsideAdds DEF Decide, RetryComesDue
  <2>2. \A stage, c : Retries(stage, c)' = Retries(stage, c)
    <3>1. PICK K : Adds(K) /\ "retry.scheduled" \notin K
      BY <2>1
    <3>2. QED
      BY <3>1, KindKept DEF Retries
  <2>3. ASSUME NEW w \in Workers
        PROVE  Retries(ctx[w].stage, ctx[w].cycle)' = Retries(ctx[w].stage, ctx[w].cycle)
    BY <2>1, <2>2 DEF Retries
  <2>4. QED
    BY <2>1, <2>3 DEF RipeInv
<1>3. CASE UNCHANGED vars
  BY <1>3 DEF vars, RipeInv, Retries, Of, Where
<1>4. QED
  BY <1>1, <1>2, <1>3 DEF Next

\* With one pass at a time, on a log that fits the read window, no stage starts
\* again before its last retry has come due, wherever passes die.
THEOREM RetriesAlwaysWait ==
  ASSUME Alone
  PROVE  Spec /\ []Fits => NoEarlyRetry
<1>1. Spec => []TypeInv
  BY TypeInit, TypeNext, PTL DEF Spec
<1>2. Init => RipeInv
  BY DEF Init, RipeInv, NoCtx
<1>3. Fits /\ TypeInv /\ TypeInv' /\ RipeInv /\ [Next]_vars => RipeInv'
  BY RipeNext
<1>4. Spec /\ []Fits => []RipeInv
  BY <1>1, <1>2, <1>3, PTL DEF Spec
<1>5. RipeInv => [\A w \in Workers : StartStage(w) =>
                    LET R == Of(DOMAIN log, "retry.scheduled", ctx[w].stage, ctx[w].cycle)
                    IN  R = {} \/ Max(R) \in ripe]_vars
  BY DEF RipeInv, StartStage, Retries
<1>6. QED
  BY <1>4, <1>5, PTL DEF NoEarlyRetry

-----------------------------------------------------------------------------
(* One undisturbed pass at a time: every gate was passed *)

\* What was completed in cycle c had output that passed its gate.
Sound(c) == \A i \in Where(DOMAIN log, "stage.completed") : log[i].cycle = c => log[i].ok

\* Output that failed its gate leaves the cycle opened last, or the task, behind.
PassedInv ==
  /\ CompletedPassedEveryGate
  /\ \A w \in Workers :
       /\ Live(w) /\ (pc[w] = "assessing" => ctx[w].passed) =>
            \A c \in 1..MaxCycles : Latest(c) => Sound(c)
       /\ pc[w] \in {"cleared", "running", "assessing"} =>
            Prepared(ctx[w].stage, ctx[w].cycle)
       /\ pc[w] = "assessing" =>
            \E i \in Of(DOMAIN log, "stage.completed", ctx[w].stage, ctx[w].cycle) :
              log[i].ok = ctx[w].passed
       /\ pc[w] = "finalizing" =>
            \A s \in Stage : Of(DOMAIN log, "stage.completed", s, ctx[w].cycle) # {}

\* What the log records of a stage, it records still.
LEMMA RecordsStay ==
  ASSUME TypeInv, Grows
  PROVE  /\ \A kind, s, c : \A i \in Of(DOMAIN log, kind, s, c) :
              i \in Of(DOMAIN log, kind, s, c)' /\ log'[i] = log[i]
         /\ \A s, c : Prepared(s, c) => Prepared(s, c)'
         /\ CompletedPassedEveryGate /\ status = "completed" => CompletedPassedEveryGate'
<1>1. \A i \in DOMAIN log : i \in DOMAIN log' /\ log'[i] = log[i]
  BY HeldStays
<1>2. \A kind, s, c : \A i \in Of(DOMAIN log, kind, s, c) :
        i \in Of(DOMAIN log, kind, s, c)' /\ log'[i] = log[i]
  BY <1>1 DEF Of, Where
<1>3. \A s, c : Prepared(s, c) => Prepared(s, c)'
  BY <1>1 DEF Prepared
<1>4. ASSUME CompletedPassedEveryGate, status = "completed"
      PROVE  CompletedPassedEveryGate'
  <2>1. PICK c \in 1..MaxCycles : \A s \in Stage :
          \E i \in Of(DOMAIN log, "stage.completed", s, c) : log[i].ok
    BY <1>4 DEF CompletedPassedEveryGate
  <2>2. \A s \in Stage : \E i \in Of(DOMAIN log, "stage.completed", s, c)' : log'[i].ok
    BY <1>2, <2>1
  <2>3. QED
    BY <2>2 DEF CompletedPassedEveryGate
<1>5. QED
  BY <1>2, <1>3, <1>4

\* A gate finds nothing left to run only when every stage is complete in the cycle.
LEMMA NothingLeft ==
  ASSUME NEW V, NEW c, next_stage(V, c) = "none"
  PROVE  \A s \in Stage : s \in completed_stages(V, c)
<1> DEFINE left == {n \in DOMAIN AUTONOMY_STAGES :
                      AUTONOMY_STAGES[n] \notin completed_stages(V, c)}
<1>1. DOMAIN AUTONOMY_STAGES = {1, 2, 3} /\ AUTONOMY_STAGES[1] = "plan"
        /\ AUTONOMY_STAGES[2] = "execute" /\ AUTONOMY_STAGES[3] = "review"
  BY DEF AUTONOMY_STAGES
<1>2. left = {}
  <2>1. SUFFICES ASSUME left # {} PROVE FALSE
    OBVIOUS
  <2>2. Min(left) \in {1, 2, 3}
    <3>1. left \in SUBSET Nat
      BY <1>1
    <3>2. Min(left) \in left
      BY <2>1, <3>1, MinIsLeast
    <3>3. QED
      BY <1>1, <3>2
  <2>3. next_stage(V, c) = AUTONOMY_STAGES[Min(left)]
    BY <2>1 DEF next_stage
  <2>4. QED
    BY <1>1, <2>2, <2>3
<1>3. QED
  BY <1>1, <1>2 DEF Stage

\* Where a pass stands once a stage was judged.
LEMMA PassedStep ==
  ASSUME Alone, Calm, Calm', TypeInv, TypeInv', CycleInv, PassedInv, NEW w \in Workers, Step(w)
  PROVE  PassedInv'
<1> DEFINE settled == Live(w) /\ (pc[w] = "assessing" => ctx[w].passed)
<1>1. Grows
  BY PassAdds, StartWrites DEF Adds
<1>2. Live(w)
  BY LiveSteps
<1>3. CompletedPassedEveryGate'
  <2>1. CASE Finalize(w)
    <3>1. Latest(ctx[w].cycle) /\ ctx[w].cycle \in 1..MaxCycles /\ pc[w] = "finalizing"
      BY <2>1, ContextTyped DEF Finalize, CycleInv
    <3>2. Sound(ctx[w].cycle)
      BY <1>2, <3>1 DEF PassedInv
    <3>3. \A s \in Stage : \E i \in Of(DOMAIN log, "stage.completed", s, ctx[w].cycle) : log[i].ok
      BY <3>1, <3>2 DEF PassedInv, Sound, Of
    <3>4. CompletedPassedEveryGate
      BY <3>1, <3>3 DEF CompletedPassedEveryGate
    <3>5. PICK c \in 1..MaxCycles : \A s \in Stage :
            \E i \in Of(DOMAIN log, "stage.completed", s, c) : log[i].ok
      BY <3>1, <3>3
    <3>6. \A s \in Stage : \E i \in Of(DOMAIN log, "stage.completed", s, c)' : log'[i].ok
      BY <1>1, <3>5, RecordsStay
    <3>7. QED
      BY <3>6 DEF CompletedPassedEveryGate
  <2>2. CASE ~Finalize(w)
    <3>1. status' = status \/ status' # "completed"
      BY <2>2 DEF Step, Pick, Overspend, Admit, Gate, RequestApproval, RefuseTask, DeferForPlan,
        StartStage, StageReturns, StageRaises, RecordFailure, ScheduleRetry, Replan, GiveUp,
        FailQuality, PassStage, PassReview, Block
    <3>2. QED
      BY <1>1, <3>1, RecordsStay DEF PassedInv, CompletedPassedEveryGate
  <2>3. QED
    BY <2>1, <2>2
<1>4. ASSUME settled', NEW c \in 1..MaxCycles, Latest(c)'
      PROVE  Sound(c)'
  <2>1. ASSUME NEW K, Adds(K), "stage.completed" \notin K
        PROVE  Where(DOMAIN log, "stage.completed")' = Where(DOMAIN log, "stage.completed")
               /\ \A i \in Where(DOMAIN log, "stage.completed") : log'[i] = log[i]
    BY <2>1, KindKept
  <2>2. CASE DeferForPlan(w) \/ Replan(w) \/ FailQuality(w)
    <3>1. /\ Opens(ctx[w].cycle + 1)
          /\ Adds({"execute_plan.missing", "quality.failed", "cycle.started"})
      BY <1>4, <2>2, OpeningStep DEF Live
    <3>2. Latest(ctx[w].cycle) /\ ctx[w].cycle \in 1..MaxCycles
      BY <2>2, ContextTyped DEF CycleInv, DeferForPlan, Replan, FailQuality
    <3>3. c = ctx[w].cycle + 1 /\ \A i \in Ended : log[i].cycle <= ctx[w].cycle
      BY <1>4, <3>1, <3>2, OpenedNext
    <3>4. \A i \in Where(DOMAIN log, "stage.completed") : log[i].cycle # c
      BY <3>2, <3>3 DEF Ended
    <3>5. QED
      BY <2>1, <3>1, <3>4 DEF Sound
  <2>3. CASE StageReturns(w)
    <3> DEFINE n == Len(log) + 1
    <3>1. /\ DOMAIN log' = DOMAIN log \union {n} /\ n \notin DOMAIN log
          /\ log'[n].kind = "stage.completed" /\ log'[n].ok = ctx'[w].passed
      BY <2>3, ReturnWrites
    <3> HIDE DEF n
    <3>2. pc[w] = "running" /\ pc'[w] = "assessing"
      BY <2>3 DEF StageReturns, Goto, TypeInv, TypeOK
    <3>3. Latest(c)
      <4>1. Adds({"stage.completed"})
        BY <1>1, <3>1 DEF Adds
      <4>2. QED
        BY <1>4, <4>1, CycleStays
    <3>4. Sound(c)
      BY <1>2, <3>2, <3>3 DEF PassedInv
    <3>5. \A i \in DOMAIN log : log'[i] = log[i]
      BY <1>1, HeldStays
    <3>6. QED
      BY <1>4, <3>1, <3>2, <3>4, <3>5 DEF Sound, Where
  <2>4. CASE Admit(w)
    <3>1. Adds({"started", "cycle.started"})
      BY <2>4, StepAdds
    <3>2. CASE Where(ctx[w].seen, "started") # {}
      <4>1. UNCHANGED log /\ pc[w] = "picked"
        BY <2>4, <3>2 DEF Admit
      <4>2. Latest(c)
        BY <1>4, <4>1 DEF Latest, Opened, Where
      <4>3. Sound(c)
        BY <1>2, <4>1, <4>2 DEF PassedInv
      <4>4. QED
        BY <4>1, <4>3 DEF Sound, Where
    <3>3. CASE Where(ctx[w].seen, "started") = {}
      <4>1. Opened = {}
        BY <2>4, <3>3 DEF Admit, CycleInv
      <4>2. Where(DOMAIN log, "stage.completed") = {}
        BY <4>1 DEF CycleInv, Ended
      <4>3. QED
        BY <2>1, <3>1, <4>2 DEF Sound
    <3>4. QED
      BY <3>2, <3>3
  <2>5. CASE ~(DeferForPlan(w) \/ Replan(w) \/ FailQuality(w) \/ StageReturns(w) \/ Admit(w))
    <3>1. PICK K : Adds(K) /\ K \intersect {"started", "cycle.started", "stage.completed"} = {}
      <4>1. RecordFailure(w) => Adds({"low_information_gain"}) \/ Adds({"stage.failed"})
        BY FailureWrites DEF Adds
      <4>2. QED
        BY <2>5, <4>1, StepAdds DEF Step
    <3>2. Latest(c)
      BY <1>4, <3>1, CycleStays
    <3>3. pc[w] = "assessing" => ctx[w].passed
      BY <2>5 DEF Step, Pick, Overspend, Gate, RequestApproval, RefuseTask,
        StartStage, StageRaises, RecordFailure, ScheduleRetry, GiveUp, PassStage,
        PassReview, Finalize
    <3>4. Sound(c)
      BY <1>2, <3>2, <3>3 DEF PassedInv
    <3>5. QED
      BY <2>1, <3>1, <3>4 DEF Sound
  <2>6. QED
    BY <2>2, <2>3, <2>4, <2>5
<1>5. ASSUME pc'[w] \in {"running", "assessing", "finalizing"}, ~Gate(w)
      PROVE  \/ StartStage(w) /\ ctx' = ctx /\ pc[w] = "cleared" /\ pc'[w] = "running"
             \/ StageReturns(w) /\ pc[w] = "running" /\ pc'[w] = "assessing"
             \/ PassReview(w) /\ ctx' = ctx /\ pc[w] = "assessing" /\ pc'[w] = "finalizing"
  <2>1. RecordFailure(w) => pc'[w] \notin {"running", "assessing", "finalizing"}
    BY FailureWrites DEF after_failure
  <2>2. QED
    BY <1>5, <2>1 DEF Step, Pick, Overspend, Admit, RequestApproval, RefuseTask, DeferForPlan,
      StartStage, StageReturns, StageRaises, ScheduleRetry, Replan, GiveUp, FailQuality,
      PassStage, PassReview, Finalize, Return, Goto, TypeInv, TypeOK
<1>6. ASSUME pc'[w] \in {"cleared", "running", "assessing"}
      PROVE  Prepared(ctx[w].stage, ctx[w].cycle)'
  <2>1. CASE pc'[w] = "cleared"
    BY <2>1, ClearedByGate, GatePrepares
  <2>2. CASE pc'[w] # "cleared" /\ Gate(w)
    BY <1>6, <2>2, GateReads DEF Calm, verdict
  <2>3. CASE pc'[w] # "cleared" /\ ~Gate(w)
    <3>1. /\ pc[w] \in {"cleared", "running"}
          /\ ctx'[w].stage = ctx[w].stage /\ ctx'[w].cycle = ctx[w].cycle
      BY <1>5, <1>6, <2>3, ReturnWrites
    <3>2. Prepared(ctx[w].stage, ctx[w].cycle)
      BY <3>1 DEF PassedInv
    <3>3. \A i \in DOMAIN log : i \in DOMAIN log' /\ log'[i] = log[i]
      BY <1>1, HeldStays
    <3>4. QED
      BY <3>1, <3>2, <3>3 DEF Prepared
  <2>4. QED
    BY <2>1, <2>2, <2>3
<1>7. ASSUME pc'[w] = "assessing"
      PROVE  (\E i \in Of(DOMAIN log, "stage.completed", ctx[w].stage, ctx[w].cycle) :
                log[i].ok = ctx[w].passed)'
  <2>1. StageReturns(w)
    <3>1. ~Gate(w)
      BY <1>7, GateReads DEF Calm, verdict
    <3>2. QED
      BY <1>5, <1>7, <3>1
  <2> DEFINE n == Len(log) + 1
  <2>2. /\ n \in DOMAIN log' /\ log'[n].kind = "stage.completed"
        /\ log'[n].stage = ctx'[w].stage /\ log'[n].cycle = ctx'[w].cycle
        /\ log'[n].ok = ctx'[w].passed
    BY <2>1, ReturnWrites
  <2> HIDE DEF n
  <2>3. QED
    BY <2>2 DEF Of, Where
<1>8. ASSUME pc'[w] = "finalizing", NEW s \in Stage
      PROVE  (Of(DOMAIN log, "stage.completed", s, ctx[w].cycle) # {})'
  <2>1. CASE Gate(w)
    <3>1. /\ UNCHANGED log /\ ctx'[w].cycle = ctx[w].cycle
          /\ next_stage(DOMAIN log, ctx[w].cycle) = "none"
      BY <1>8, <2>1, GateReads DEF Calm, verdict
    <3>2. s \in completed_stages(DOMAIN log, ctx[w].cycle)
      BY <3>1, NothingLeft
    <3>3. QED
      BY <3>1, <3>2 DEF completed_stages, Of, Where
  <2>2. CASE ~Gate(w)
    <3>1. PassReview(w) /\ ctx' = ctx /\ pc[w] = "assessing" /\ ctx[w].stage = "review"
      BY <1>5, <1>8, <2>2 DEF PassReview
    <3>2. Of(DOMAIN log, "stage.completed", "review", ctx[w].cycle) # {}
      BY <3>1 DEF PassedInv
    <3>3. /\ Of(DOMAIN log, "stage.completed", "plan", ctx[w].cycle) # {}
          /\ Of(DOMAIN log, "stage.completed", "execute", ctx[w].cycle) # {}
      <4>1. Prepared("review", ctx[w].cycle)
        BY <3>1 DEF PassedInv
      <4>2. DOMAIN AUTONOMY_STAGES = {1, 2, 3} /\ AUTONOMY_STAGES[1] = "plan"
              /\ AUTONOMY_STAGES[2] = "execute" /\ AUTONOMY_STAGES[3] = "review"
        BY DEF AUTONOMY_STAGES
      <4>3. QED
        BY <4>1, <4>2 DEF Prepared, Of, Where
    <3>4. UNCHANGED log
      BY <3>1 DEF PassReview
    <3>5. QED
      BY <3>1, <3>2, <3>3, <3>4 DEF Stage, Of, Where
  <2>3. QED
    BY <2>1, <2>2
<1>9. QED
  BY <1>3, <1>4, <1>6, <1>7, <1>8 DEF PassedInv, Alone

LEMMA PassedNext ==
  ASSUME Alone, Calm, Calm', TypeInv, TypeInv', CycleInv, PassedInv, [Next]_vars
  PROVE  PassedInv'
<1>1. CASE (\E approved \in BOOLEAN : Decide(approved)) \/ RetryComesDue
  <2>1. /\ Adds({"approval", "failed"}) /\ UNCHANGED <<pc, ctx>>
        /\ status' = status \/ status' = "blocked"
    BY <1>1, OutsideAdds DEF Decide, RetryComesDue
  <2>2. Grows
    BY <2>1 DEF Adds
  <2>3. /\ Where(DOMAIN log, "stage.completed")' = Where(DOMAIN log, "stage.completed")
        /\ \A i \in Where(DOMAIN log, "stage.completed") : log'[i] = log[i]
    <3>1. PICK K : Adds(K) /\ "stage.completed" \notin K
      BY <2>1
    <3>2. QED
      BY <3>1, KindKept
  <2>4. \A c : (Latest(c)' <=> Latest(c)) /\ (Sound(c) => Sound(c)')
    BY <2>1, <2>3, CycleStays DEF Sound
  <2>5. CompletedPassedEveryGate'
    BY <2>1, <2>2, RecordsStay DEF PassedInv, CompletedPassedEveryGate
  <2>6. \A w \in Workers : Live(w)' => Live(w)
    BY <2>1 DEF Live
  <2>7. \A w \in Workers : \A s : \A i \in Of(DOMAIN log, "stage.completed", s, ctx[w].cycle) :
          i \in Of(DOMAIN log, "stage.completed", s, ctx[w].cycle)' /\ log'[i] = log[i]
    BY <2>1, <2>3 DEF Of
  <2>8. ASSUME NEW w \in Workers
        PROVE  Prepared(ctx[w].stage, ctx[w].cycle) => Prepared(ctx[w].stage, ctx[w].cycle)'
    BY <2>1, <2>2, PreparedStays
  <2>9. ASSUME NEW w \in Workers, pc[w] = "assessing"
        PROVE  (\E i \in Of(DOMAIN log, "stage.completed", ctx[w].stage, ctx[w].cycle) :
                  log[i].ok = ctx[w].passed)'
    <3>1. PICK i \in Of(DOMAIN log, "stage.completed", ctx[w].stage, ctx[w].cycle) :
            log[i].ok = ctx[w].passed
      BY <2>9 DEF PassedInv
    <3>2. /\ i \in Of(DOMAIN log, "stage.completed", ctx[w].stage, ctx[w].cycle)'
          /\ log'[i] = log[i]
      BY <2>1, <2>3 DEF Of
    <3>3. QED
      BY <2>1, <3>1, <3>2
  <2>10. ASSUME NEW w \in Workers, pc[w] = "finalizing", NEW s \in Stage
         PROVE  (Of(DOMAIN log, "stage.completed", s, ctx[w].cycle) # {})'
    BY <2>7, <2>10 DEF PassedInv
  <2>11. QED
    BY <2>1, <2>4, <2>5, <2>6, <2>8, <2>9, <2>10 DEF PassedInv
<1>2. CASE UNCHANGED vars
  BY <1>2 DEF vars, PassedInv, CompletedPassedEveryGate, Live, Latest, Opened, Sound, Prepared,
    Of, Where
<1>3. QED
  BY <1>1, <1>2, PassedStep, CalmSteps DEF Next

LEMMA PassedInit == Init => PassedInv
BY DEF Init, PassedInv, CompletedPassedEveryGate, Latest, Opened, Where, Flagged, Event

\* With one pass at a time, none cut short, on a log that fits the read window, a
\* task ends completed only after every stage passed its gate in one cycle.
THEOREM CompletedAlwaysPassed ==
  ASSUME Alone
  PROVE  Spec /\ []Calm => []CompletedPassedEveryGate
<1>1. Spec => []TypeInv
  BY TypeInit, TypeNext, PTL DEF Spec
<1>2. Calm => Fits
  BY DEF Calm
<1>3. Fits /\ TypeInv /\ TypeInv' /\ CycleInv /\ [Next]_vars => CycleInv'
  BY CycleNext
<1>4. Spec /\ []Calm => []CycleInv
  BY <1>1, <1>2, <1>3, CycleInit, PTL DEF Spec
<1>5. Calm /\ Calm' /\ TypeInv /\ TypeInv' /\ CycleInv /\ PassedInv /\ [Next]_vars => PassedInv'
  BY PassedNext
<1>6. Spec /\ []Calm => []PassedInv
  BY <1>1, <1>4, <1>5, PassedInit, PTL DEF Spec
<1>7. PassedInv => CompletedPassedEveryGate
  BY DEF PassedInv
<1>8. QED
  BY <1>6, <1>7, PTL
=============================================================================
