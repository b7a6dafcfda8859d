-------------------------- MODULE WorkspaceProofs --------------------------
(***************************************************************************)
(* Theorems about WorkspaceLoop, for any requests, answers, files and      *)
(* number of loops that share a workspace.                                 *)
(***************************************************************************)
EXTENDS WorkspaceLoop, Extrema, FiniteSetTheorems, TLAPS

Fields == {"pc", "step", "todo", "changed", "results", "tested", "probed", "why", "seen",
           "start", "spilled", "stale", "shared"}
IsLoop(s) == DOMAIN s = Fields

\* The end of a run that its last verification let through.
Closing == {"learning", "recording", "completed"}

\* What the request asks of the files that the run altered.
Accepted(l) ==
  LET q == asked[l] IN
  /\ Altered(l) \intersect (q.forbidden \union q.must_not_modify) = {}
  /\ Len(loop[l].changed) <= Inspected => \A p \in Altered(l) : files[p] # Secret
  /\ \A p \in q.must_create : Exists(p)
  /\ q.max_changed > 0 => Cardinality(Altered(l)) <= q.max_changed

\* Metadata that someone read: their readiness is that of what they say, and they count
\* no more outcomes than were recorded.
IsMeta(m) ==
  /\ DOMAIN m = {"contract", "learning", "readiness"}
  /\ m.learning \in [{"success", "failure"} -> Nat]
  /\ m.readiness = readiness(m.contract, m.learning)
Counted(m) == m.learning.success + m.learning.failure
Read(m) == IsMeta(m) /\ Counted(m) <= recorded

\* Unless others edit the files, a loop notes all that its actions alter.
LoopInv(l) ==
  /\ IsLoop(loop[l]) /\ loop[l].shared \in BOOLEAN
  /\ ~loop[l].shared => Altered(l) \subseteq Range(loop[l].changed)
  /\ ~loop[l].shared /\ loop[l].pc \in Closing /\ loop[l].why = "completed" /\ l \in Active => Accepted(l)
  /\ loop[l].pc = "completed" => loop[l].why = "completed"
  /\ loop[l].pc = "recording" => Read(loop[l].seen)

LoopsInv ==
  /\ loop = [l \in Loops |-> loop[l]]
  /\ Active \subseteq Loops /\ \A l \in Active : asked[l].max_changed \in Nat
  /\ recorded \in Nat
  /\ \A l \in Loops : LoopInv(l)

MetaInv ==
  /\ Read(meta) /\ overlapped \in BOOLEAN /\ (~overlapped => Counted(meta) = recorded)
  /\ scan # NoCopy => Read(scan)

Statuses == {"ok", "failed", "blocked"}
Testing  == {"checking", "ending", "retesting"}
Judged   == {"verifying", "retesting", "reverifying"}
Places   == Ended \union Testing \union Judged
              \union {"preflight", "planning", "asking", "acting", "judging", "learning", "recording"}
Contents == Texts \union {Absent}
Results  == [command : Commands, status : Statuses]

WellAsked(q) ==
  /\ q.max_steps \in Int /\ q.tests \in Seq(Commands) /\ q.must_pass \in Seq(Commands)
  /\ q.setup \in Seq(Commands) /\ q.probes \in Seq(Commands)
  /\ q.answers \subseteq Seq(Actions) \ {<<>>}

\* The results of the probes are those of the first probes, in their order.
Probed(q, probed) ==
  /\ probed \in Seq(Results) /\ Len(probed) <= Len(q.probes)
  /\ \A i \in 1..Len(probed) : probed[i].command = q.probes[i]

\* The state of a loop: only while it tests has it gone through some of the commands.
Typed(q, s) ==
  /\ s.pc \in Places /\ s.step \in 1..max_steps(q)
  /\ s.changed \in Seq(Paths) /\ s.spilled \subseteq Paths /\ s.stale \subseteq Commands
  /\ Probed(q, s.probed)
  /\ \A r \in s.results : r.status \in Statuses
  /\ s.pc = "acting" => s.todo \in Seq(Actions) \ {<<>>}
  /\ s.tested \in Nat /\ (s.tested > 0 => s.results # {})
  /\ s.pc \notin Testing \union {"failed"} => s.tested = 0

\* A command that cannot succeed on the files, unless a command altered what it needs.
Fails(q, s, tree, c) == ~command_allowed(q, c) \/ ~Succeeds(tree, c) \/ c \in s.stale
\* What is known of a command that a list has gone through: each verification runs the
\* probes again.
Shown(q, s, tree, c) == observed_ok(s.results, c) \/ Fails(q, s, tree, c) \/ c \in Range(q.probes)

Current(q, s, tree) ==
  LET list == required_commands(q) IN
  /\ s.pc \in {"checking", "ending"} => \A i \in DOMAIN list : i <= s.tested => Shown(q, s, tree, list[i])
  /\ s.pc \in Judged => \A i \in DOMAIN list : Shown(q, s, tree, list[i])
  /\ s.pc \in {"learning", "recording", "failed"} /\ s.why = "commands_did_not_pass" =>
       \E i \in DOMAIN list : ~observed_ok(s.results, list[i]) /\ Fails(q, s, tree, list[i])

TypeInv ==
  /\ files \in [Paths -> Contents] /\ deps \in BOOLEAN
  /\ \A l \in Active :
       /\ WellAsked(asked[l]) /\ Typed(asked[l], loop[l])
       /\ ~loop[l].shared => Current(asked[l], loop[l], files)

-----------------------------------------------------------------------------
(* The verification *)

LEMMA GateTexts ==
  ASSUME NEW q, NEW changed, NEW results, NEW probed
  PROVE  /\ behavioral_probes(q, results, probed) \in {Ok, "probe_failed", "output_not_observed"}
         /\ mechanical_gates(q, results \union probed) \in {Ok, "commands_did_not_pass"}
         /\ diff_risk(q, changed) \in {Ok, "forbidden_paths", "too_many_files"}
         /\ acceptance_criteria(q, changed)
              \in {Ok, "not_modified", "disallowed_paths", "behavior_not_found", "not_created"}
         /\ secret_safety(changed) \in {Ok, "secret_material"}
BY DEF behavioral_probes, mechanical_gates, diff_risk, acceptance_criteria, secret_safety

\* The verdict is that of the first gate that fails.
LEMMA FirstGate ==
  ASSUME NEW q, NEW changed, NEW results, NEW probed
  PROVE  LET verdict == verify_workspace_execution(q, changed, results, probed)
             passed == /\ diff_risk(q, changed) = Ok /\ acceptance_criteria(q, changed) = Ok
                       /\ secret_safety(changed) = Ok IN
         /\ verdict # "completed"
         /\ verdict \in {Ok, "no_changes"} => passed
         /\ verdict = "commands_did_not_pass" =>
              behavioral_probes(q, results, probed) = Ok /\ mechanical_gates(q, results \union probed) # Ok
<1> DEFINE gates == <<behavioral_probes(q, results, probed), mechanical_gates(q, results \union probed),
                      diff_risk(q, changed), acceptance_criteria(q, changed), secret_safety(changed),
                      IF changed = <<>> /\ results \union probed = {} THEN "no_changes" ELSE Ok>>
           failed == {i \in DOMAIN gates : gates[i] # Ok}
           verdict == verify_workspace_execution(q, changed, results, probed)
<1>1. verdict = IF failed = {} THEN Ok ELSE gates[Min(failed)]
  BY DEF verify_workspace_execution
<1>2. DOMAIN gates = 1..6
  OBVIOUS
<1>3. /\ gates[1] = behavioral_probes(q, results, probed)
      /\ gates[2] = mechanical_gates(q, results \union probed)
      /\ gates[3] = diff_risk(q, changed) /\ gates[4] = acceptance_criteria(q, changed)
      /\ gates[5] = secret_safety(changed) /\ gates[6] \in {Ok, "no_changes"}
  OBVIOUS
<1>4. SUFFICES /\ verdict # "completed"
               /\ verdict \in {Ok, "no_changes"} => gates[3] = Ok /\ gates[4] = Ok /\ gates[5] = Ok
               /\ verdict = "commands_did_not_pass" => gates[1] = Ok /\ gates[2] # Ok
  BY <1>3
<1> HIDE DEF gates, verdict
<1>5. /\ gates[1] \notin {"completed", "no_changes", "commands_did_not_pass"}
      /\ gates[2] \notin {"completed", "no_changes"}
      /\ gates[3] \notin {"completed", "no_changes", "commands_did_not_pass"}
      /\ gates[4] \notin {"completed", "no_changes", "commands_did_not_pass"}
      /\ gates[5] \notin {"completed", "no_changes", "commands_did_not_pass"}
      /\ gates[6] \notin {"completed", "commands_did_not_pass"}
  BY <1>3, GateTexts DEF Ok
<1>6. \A i \in 1..6 : /\ gates[i] # "completed" /\ (i # 6 => gates[i] # "no_changes")
                      /\ i # 2 => gates[i] # "commands_did_not_pass"
  <2>1. TAKE i \in 1..6
  <2>2. i = 1 \/ i = 2 \/ i = 3 \/ i = 4 \/ i = 5 \/ i = 6
    BY <2>1
  <2>3. QED
    BY <1>5, <2>2
<1>7. CASE failed = {}
  <2>1. \A i \in 1..6 : gates[i] = Ok
    BY <1>2, <1>7
  <2>2. gates[3] = Ok /\ gates[4] = Ok /\ gates[5] = Ok
    BY <2>1
  <2>3. verdict = Ok
    BY <1>1, <1>7
  <2>4. QED
    BY <2>2, <2>3 DEF Ok
<1>8. CASE failed # {}
  <2> DEFINE first == Min(failed)
  <2>1. failed \in SUBSET Nat
    BY <1>2
  <2>2. first \in failed /\ \A i \in failed : first <= i
    BY <1>8, <2>1, MinIsLeast
  <2>3. first \in 1..6 /\ gates[first] # Ok /\ verdict = gates[first]
    BY <1>1, <1>2, <1>8, <2>2
  <2> HIDE DEF first
  <2>4. \A i \in 1..6 : i < first => gates[i] = Ok
    <3>1. ASSUME NEW i \in 1..6, i < first
          PROVE  gates[i] = Ok
      <4>1. i \notin failed
        BY <2>2, <2>3, <3>1
      <4>2. QED
        BY <1>2, <4>1
    <3>2. QED
      BY <3>1
  <2>5. ASSUME verdict = "no_changes"
        PROVE  gates[3] = Ok /\ gates[4] = Ok /\ gates[5] = Ok
    <3>1. first = 6
      BY <1>6, <2>3, <2>5
    <3>2. QED
      BY <2>4, <3>1
  <2>6. ASSUME verdict = "commands_did_not_pass"
        PROVE  gates[1] = Ok /\ gates[2] # Ok
    <3>1. first = 2
      BY <1>6, <2>3, <2>6
    <3>2. QED
      BY <2>3, <2>4, <3>1
  <2>7. verdict # "completed" /\ verdict # Ok
    BY <1>6, <2>3
  <2>8. QED
    BY <2>5, <2>6, <2>7
<1>9. QED
  BY <1>7, <1>8

LEMMA AtMost ==
  ASSUME NEW few \in Nat, NEW many \in Nat, NEW bound \in Nat, few <= many, ~(many > bound)
  PROVE  few <= bound
OBVIOUS

\* The files of a list of notes are finitely many, and all are read when they are few.
LEMMA NotedPaths ==
  ASSUME NEW changed \in Seq(Paths)
  PROVE  /\ Range(changed) \subseteq Paths /\ IsFiniteSet(Range(changed))
         /\ Len(changed) <= Inspected => inspected(changed) = Range(changed)
<1>1. Range(changed) \subseteq Paths
  BY DEF Range
<1>2. IsFiniteSet(Range(changed))
  BY <1>1, WorkspaceAssumption, FS_Subset
<1>3. ASSUME Len(changed) <= Inspected
      PROVE  DOMAIN changed \intersect 1..Inspected = DOMAIN changed
  <2>1. Inspected \in Nat /\ DOMAIN changed = 1..Len(changed) /\ Len(changed) \in Nat
    BY WorkspaceAssumption
  <2>2. QED
    BY <1>3, <2>1
<1>4. QED
  BY <1>1, <1>2, <1>3 DEF inspected, Range

\* A run that verifies, or does but for having done nothing, leaves the files as its request
\* wants them.
LEMMA VerifiedAccepted ==
  ASSUME LoopsInv, TypeInv, NEW l \in Active, ~loop[l].shared, NEW probed,
         verify_workspace_execution(asked[l], loop[l].changed, loop[l].results, probed) \in {Ok, "no_changes"}
  PROVE  Accepted(l)
<1> DEFINE q == asked[l]
           changed == loop[l].changed
           noted == Range(changed)
<1>1. diff_risk(q, changed) = Ok /\ acceptance_criteria(q, changed) = Ok /\ secret_safety(changed) = Ok
  BY FirstGate
<1>2. Altered(l) \subseteq noted /\ changed \in Seq(Paths) /\ q.max_changed \in Nat
  BY DEF LoopsInv, LoopInv, TypeInv, Typed
<1>3. IsFiniteSet(noted) /\ (Len(changed) <= Inspected => inspected(changed) = noted)
  BY <1>2, NotedPaths
<1> HIDE DEF q
<1>4. noted \intersect q.forbidden = {} /\ (q.max_changed > 0 => ~(Cardinality(noted) > q.max_changed))
  BY <1>1 DEF diff_risk, Ok
<1>5. q.must_not_modify \intersect noted = {} /\ \A p \in q.must_create : Exists(p)
  BY <1>1 DEF acceptance_criteria, Ok
<1>6. \A p \in inspected(changed) : files[p] # Secret
  BY <1>1 DEF secret_safety, Ok
<1> HIDE DEF noted
<1>7. Cardinality(Altered(l)) \in Nat /\ Cardinality(noted) \in Nat /\ Cardinality(Altered(l)) <= Cardinality(noted)
  BY <1>2, <1>3, FS_Subset, FS_CardinalityType
<1>8. /\ Altered(l) \intersect (q.forbidden \union q.must_not_modify) = {}
      /\ Len(changed) <= Inspected => \A p \in Altered(l) : files[p] # Secret
      /\ \A p \in q.must_create : Exists(p)
  BY <1>2, <1>3, <1>4, <1>5, <1>6
<1>9. ASSUME q.max_changed > 0
      PROVE  Cardinality(Altered(l)) <= q.max_changed
  <2> DEFINE bound == q.max_changed
             few == Cardinality(Altered(l))
             many == Cardinality(noted)
  <2>1. ~(many > bound)
    BY <1>4, <1>9
  <2>2. bound \in Nat /\ few \in Nat /\ many \in Nat /\ few <= many
    BY <1>2, <1>7
  <2>3. few <= bound
    BY <2>1, <2>2, AtMost
  <2>4. QED
    BY <2>3
<1>10. QED
  BY <1>8, <1>9 DEF Accepted, q

-----------------------------------------------------------------------------
(* Steps that leave the files alone *)

\* What such a step may make of the state of its loop.
Fine(l, new) ==
  /\ IsLoop(new) /\ new.start = loop[l].start /\ new.shared = loop[l].shared
  /\ new.changed = loop[l].changed /\ new.spilled = loop[l].spilled
  /\ ~new.shared /\ new.pc \in Closing /\ new.why = "completed" => Accepted(l)
  /\ new.pc = "completed" => new.why = "completed"
  /\ new.pc = "recording" => Read(new.seen)

LEMMA ReadKept ==
  ASSUME recorded \in Nat, recorded' \in {recorded, recorded + 1}, NEW m, Read(m)
  PROVE  Read(m)'
BY DEF Read, IsMeta, Counted, readiness, score, declared_points, learned_points

LEMMA StillStep ==
  ASSUME LoopsInv, NEW l \in Active, NEW new, Fine(l, new), Become(l, new),
         files' = files, asked' = asked, recorded' \in {recorded, recorded + 1}
  PROVE  LoopsInv'
<1>1. l \in Loops /\ loop' = [m \in Loops |-> IF m = l THEN new ELSE loop[m]]
  BY DEF LoopsInv, Become
<1>2. \A m \in Loops : loop'[m] = IF m = l THEN new ELSE loop[m]
  BY <1>1
<1>3. /\ Active' = Active
      /\ \A m \in Loops : /\ loop'[m].start = loop[m].start /\ loop'[m].changed = loop[m].changed
                          /\ loop'[m].spilled = loop[m].spilled
  BY <1>2 DEF Active, Fine
<1>4. \A m \in Loops : Altered(m)' = Altered(m)
  BY <1>3 DEF Altered
<1>5. \A m \in Loops : Accepted(m) => Accepted(m)'
  BY <1>3, <1>4 DEF Accepted, Exists
<1>6. ASSUME NEW m \in Loops
      PROVE  LoopInv(m)'
  <2>1. LoopInv(m)
    BY DEF LoopsInv
  <2>2. CASE m # l
    <3>1. loop'[m] = loop[m]
      BY <1>2, <2>2
    <3>2. loop[m].pc = "recording" => Read(loop[m].seen)'
      BY <2>1, <3>1, ReadKept DEF LoopInv, LoopsInv
    <3>3. QED
      BY <2>1, <3>1, <3>2, <1>3, <1>4, <1>5 DEF LoopInv, IsLoop
  <2>3. CASE m = l
    <3>1. loop'[m] = new
      BY <1>2, <2>3
    <3>2. ~new.shared => Altered(m)' \subseteq Range(new.changed)
      BY <2>1, <2>3, <1>4 DEF LoopInv, Fine
    <3>3. new.pc = "recording" => Read(loop[m].seen)'
      BY <3>1, ReadKept DEF Fine, LoopsInv
    <3>4. QED
      BY <2>1, <2>3, <3>1, <3>2, <3>3, <1>5 DEF LoopInv, Fine, IsLoop
  <2>4. QED
    BY <2>2, <2>3
<1>7. /\ loop' = [m \in Loops |-> loop'[m]]
      /\ Active' \subseteq Loops /\ \A m \in Active' : asked'[m].max_changed \in Nat
      /\ recorded' \in Nat
  BY <1>1, <1>3 DEF LoopsInv
<1>8. QED
  BY <1>6, <1>7 DEF LoopsInv

\* A step before the last verification, or that fails the run.
LEMMA OpenStep ==
  ASSUME LoopsInv, NEW l \in Active, NEW new, IsLoop(new),
         new.start = loop[l].start, new.shared = loop[l].shared,
         new.changed = loop[l].changed, new.spilled = loop[l].spilled,
         new.pc \notin Closing \/ new.why # "completed", new.pc \notin {"completed", "recording"}
  PROVE  Fine(l, new)
BY DEF Fine

LEMMA RaiseStep ==
  ASSUME LoopsInv, NEW l \in Active, NEW why, Raise(l, why), files' = files, asked' = asked, recorded' = recorded
  PROVE  LoopsInv'
<1> DEFINE new == Raised(loop[l], why)
<1>1. l \in Loops /\ LoopInv(l)
  BY DEF LoopsInv
<1>2. /\ IsLoop(new) /\ new.start = loop[l].start /\ new.shared = loop[l].shared
      /\ new.changed = loop[l].changed /\ new.spilled = loop[l].spilled /\ new.pc = "failed"
  BY <1>1 DEF LoopInv, IsLoop, Fields, Raised
<1>3. Become(l, new)
  BY DEF Raise
<1> HIDE DEF new
<1>4. Fine(l, new)
  BY <1>2, OpenStep DEF Closing
<1>5. QED
  BY <1>3, <1>4, StillStep

-----------------------------------------------------------------------------
(* Steps that alter the files *)

\* What a step that leaves the files as new may make of the state of its loop: another loop
\* sees a change from outside.
Altering(l, new, s) ==
  /\ IsLoop(s) /\ s.start = loop[l].start /\ s.shared = loop[l].shared
  /\ ~s.shared => \A p \in Paths : new[p] # s.start[p] /\ p \notin s.spilled => p \in Range(s.changed)
  /\ s.pc \notin Closing \/ s.why # "completed"
  /\ s.pc \notin {"completed", "recording"}

LEMMA AlterStep ==
  ASSUME LoopsInv, NEW l \in Active, NEW new, NEW s, Altering(l, new, s), Alter(l, new, s),
         asked' = asked, recorded' = recorded
  PROVE  LoopsInv'
<1> DEFINE told(m) == [loop[m] EXCEPT !.shared = (loop[m].shared \/ new # files)]
<1>1. l \in Loops /\ LoopInv(l) /\ files' = new
  BY DEF LoopsInv, Alter
<1>2. loop' = [m \in Loops |-> IF m = l THEN s ELSE told(m)]
  BY DEF Alter
<1>3. Active' = Active
  BY DEF Active
<1>4. ASSUME NEW m \in Loops
      PROVE  LoopInv(m)'
  <2>1. LoopInv(m)
    BY DEF LoopsInv
  <2>2. CASE m = l
    <3>1. loop'[m] = s
      BY <1>2, <2>2
    <3>2. ASSUME ~s.shared
          PROVE  Altered(m)' \subseteq Range(s.changed)
      BY <1>1, <3>1, <3>2 DEF Altered, Altering
    <3>3. s.shared \in BOOLEAN
      BY <1>1 DEF LoopInv, Altering
    <3>4. QED
      BY <3>1, <3>2, <3>3 DEF LoopInv, IsLoop, Altering
  <2>3. CASE m # l
    <3>1. loop'[m] = told(m)
      BY <1>2, <2>3
    <3>2. /\ IsLoop(told(m)) /\ told(m).pc = loop[m].pc /\ told(m).why = loop[m].why
          /\ told(m).changed = loop[m].changed /\ told(m).start = loop[m].start
          /\ told(m).spilled = loop[m].spilled
          /\ told(m).shared = (loop[m].shared \/ new # files) /\ told(m).seen = loop[m].seen
      BY <2>1 DEF LoopInv, IsLoop, Fields
    <3> HIDE DEF told
    <3>3. IsLoop(loop'[m]) /\ loop'[m].shared \in BOOLEAN
      BY <2>1, <3>1, <3>2 DEF LoopInv, IsLoop
    <3>4. loop'[m].pc = "recording" => Read(loop[m].seen)'
      BY <2>1, <3>1, <3>2, ReadKept DEF LoopInv, LoopsInv
    <3>5. CASE loop'[m].shared
      BY <2>1, <3>1, <3>2, <3>3, <3>5, <3>4 DEF LoopInv, IsLoop
    <3>6. CASE ~loop'[m].shared
      <4>1. ~loop[m].shared /\ files' = files
        BY <1>1, <3>1, <3>2, <3>6
      <4>2. Altered(m)' = Altered(m) /\ (Accepted(m) => Accepted(m)')
        BY <3>1, <3>2, <4>1 DEF Altered, Accepted, Exists
      <4>3. QED
        BY <1>3, <2>1, <3>1, <3>2, <3>3, <3>4, <4>1, <4>2 DEF LoopInv, IsLoop
    <3>7. QED
      BY <3>5, <3>6
  <2>4. QED
    BY <2>2, <2>3
<1>5. /\ loop' = [m \in Loops |-> loop'[m]]
      /\ Active' \subseteq Loops /\ \A m \in Active' : asked'[m].max_changed \in Nat
      /\ recorded' \in Nat
  BY <1>2, <1>3 DEF LoopsInv
<1>6. QED
  BY <1>4, <1>5 DEF LoopsInv

\* What a command can do.
LEMMA OutcomeTypes ==
  ASSUME TypeInv, NEW q, NEW c, NEW o \in Outcomes(q, c)
  PROVE  /\ o.files \in [Paths -> Contents] /\ o.deps \in BOOLEAN
         /\ o.result.command = c /\ o.result.status \in Statuses \union {"timeout"}
         /\ o.result.status = "blocked" => ~command_allowed(q, c)
         /\ o.result.status = "failed" => ~Succeeds(files, c) \/ ~Succeeds(o.files, c)
<1>1. files \in [Paths -> Contents] /\ deps \in BOOLEAN
  BY DEF TypeInv
<1>2. CASE command_allowed(q, c)
  <2>1. /\ o \in [result : [command : {c}, status : {"ok", "failed", "timeout"}],
                   files : Leaves(c), deps : BOOLEAN]
        /\ o.result.status = "failed" => ~Succeeds(files, c) \/ ~Succeeds(o.files, c)
    BY <1>2 DEF Outcomes
  <2>2. o.files \in [Paths -> Contents] /\ o.deps \in BOOLEAN
    BY <2>1 DEF Leaves, Contents
  <2>3. o.result \in [command : {c}, status : {"ok", "failed", "timeout"}]
    BY <2>1
  <2>4. o.result.command = c /\ o.result.status \in {"ok", "failed", "timeout"}
    BY <2>3
  <2>5. QED
    BY <2>1, <2>2, <2>4 DEF Statuses
<1>3. CASE ~command_allowed(q, c)
  <2>1. o = [result |-> [command |-> c, status |-> "blocked"], files |-> files, deps |-> deps]
    BY <1>3 DEF Outcomes
  <2>2. o.files = files /\ o.deps = deps /\ o.result = [command |-> c, status |-> "blocked"]
    BY <2>1
  <2>3. QED
    BY <1>1, <1>3, <2>2 DEF Statuses
<1>4. QED
  BY <1>2, <1>3

LEMMA OutcomeResult ==
  ASSUME NEW q, NEW c, NEW o \in Outcomes(q, c)
  PROVE  o.result = [command |-> c, status |-> o.result.status]
<1>1. CASE command_allowed(q, c)
  <2>1. o.result \in [command : {c}, status : {"ok", "failed", "timeout"}]
    BY <1>1 DEF Outcomes
  <2>2. QED
    BY <2>1
<1>2. CASE ~command_allowed(q, c)
  BY <1>2 DEF Outcomes
<1>3. QED
  BY <1>1, <1>2

\* The state of a loop after a command: s, unless the command ran past its time.
Then(l, o, s) == IF o.result.status = "timeout" THEN Raised(loop[l], "timeout") ELSE s

LEMMA CommandStep ==
  ASSUME LoopsInv, TypeInv, NEW l \in Active, NEW c, NEW o \in Outcomes(asked[l], c), NEW s,
         Commanded(l, c, o, s), IsLoop(s), s.start = loop[l].start, s.shared = loop[l].shared,
         s.changed = loop[l].changed, s.spilled = loop[l].spilled,
         s.pc \notin Closing \/ s.why # "completed", s.pc \notin {"completed", "recording"},
         asked' = asked, recorded' = recorded
  PROVE  LoopsInv'
<1> DEFINE then == Then(l, o, s)
           altered == {p \in Paths : o.files[p] # files[p]}
           after == Ran(then, c, o.files)
<1>1. l \in Loops /\ LoopInv(l)
  BY DEF LoopsInv
<1>2. /\ IsLoop(then) /\ then.start = loop[l].start /\ then.shared = loop[l].shared
      /\ then.changed = loop[l].changed /\ then.spilled = loop[l].spilled
      /\ then.pc \notin Closing \/ then.why # "completed"
      /\ then.pc \notin {"completed", "recording"}
  BY <1>1 DEF Then, Raised, LoopInv, IsLoop, Fields, Closing
<1>3. Alter(l, o.files, after)
  BY DEF Commanded, Then
<1> HIDE DEF then
<1>4. /\ IsLoop(after) /\ after.start = then.start /\ after.shared = then.shared
      /\ after.changed = then.changed /\ after.spilled = then.spilled \union altered
      /\ after.pc = then.pc /\ after.why = then.why
  BY <1>2 DEF Ran, IsLoop, Fields
<1> HIDE DEF after
<1>5. ASSUME ~after.shared, NEW p \in Paths, o.files[p] # after.start[p], p \notin after.spilled
      PROVE  p \in Range(after.changed)
  <2>1. files[p] = o.files[p] /\ p \notin loop[l].spilled
    BY <1>2, <1>4, <1>5
  <2>2. p \in Altered(l)
    BY <1>2, <1>4, <1>5, <2>1 DEF Altered
  <2>3. QED
    BY <1>1, <1>2, <1>4, <1>5, <2>2 DEF LoopInv
<1>6. Altering(l, o.files, after)
  BY <1>2, <1>4, <1>5 DEF Altering
<1>7. QED
  BY <1>3, <1>6, AlterStep

LEMMA PreflightStep ==
  ASSUME LoopsInv, TypeInv, NEW l \in Active, Preflight(l)
  PROVE  LoopsInv'
<1> DEFINE plans == [loop[l] EXCEPT !.pc = "planning"]
           stops == [loop[l] EXCEPT !.pc = "learning", !.why = "preflight"]
           setup == Head(asked[l].setup)
<1>1. LoopInv(l) /\ asked' = asked /\ recorded' = recorded
  BY DEF LoopsInv, Preflight, metadata
<1>2. Fine(l, plans)
  BY <1>1 DEF Fine, LoopInv, IsLoop, Fields, Closing
<1>3. Fine(l, stops)
  BY <1>1 DEF Fine, LoopInv, IsLoop, Fields
<1>4. plans.pc = "planning" /\ stops.pc = "learning" /\ stops.why = "preflight"
  BY <1>1 DEF LoopInv, IsLoop, Fields
<1>5. \/ (Become(l, plans) \/ Become(l, stops)) /\ files' = files
      \/ \E o \in Outcomes(asked[l], setup) : Commanded(l, setup, o, plans) \/ Commanded(l, setup, o, stops)
  BY DEF Preflight
<1> HIDE DEF plans, stops, setup
<1>6. QED
  BY <1>1, <1>2, <1>3, <1>4, <1>5, StillStep, CommandStep DEF Fine, Closing

-----------------------------------------------------------------------------
(* The steps of a loop *)

LEMMA PlanStep ==
  ASSUME LoopsInv, NEW l \in Active, Plan(l)
  PROVE  LoopsInv'
<1> DEFINE planned == [loop[l] EXCEPT !.pc = IF asked[l].dry_run THEN "planned" ELSE "asking"]
<1>1. LoopInv(l) /\ files' = files /\ asked' = asked /\ recorded' = recorded
  BY DEF LoopsInv, Plan, metadata
<1>2. Fine(l, planned)
  BY <1>1 DEF Fine, LoopInv, IsLoop, Fields, Closing
<1>3. Become(l, planned) \/ Raise(l, "provider") \/ Raise(l, "approval")
  BY DEF Plan
<1> HIDE DEF planned
<1>4. QED
  BY <1>1, <1>2, <1>3, StillStep, RaiseStep

LEMMA NextStepFine ==
  ASSUME LoopsInv, NEW l \in Active, NEW q, NEW s, IsLoop(s),
         s.start = loop[l].start, s.shared = loop[l].shared, s.changed = loop[l].changed,
         s.spilled = loop[l].spilled
  PROVE  Fine(l, NextStep(s, q))
<1> DEFINE again == [s EXCEPT !.pc = "asking", !.step = @ + 1]
           ends == [s EXCEPT !.pc = "ending"]
<1>1. Fine(l, again)
  BY DEF Fine, IsLoop, Fields, Closing
<1>2. Fine(l, ends)
  BY DEF Fine, IsLoop, Fields, Closing
<1>3. NextStep(s, q) = again \/ NextStep(s, q) = ends
  BY DEF NextStep
<1> HIDE DEF again, ends
<1>4. QED
  BY <1>1, <1>2, <1>3

LEMMA AskStep ==
  ASSUME LoopsInv, NEW l \in Active, Ask(l)
  PROVE  LoopsInv'
<1>1. LoopInv(l) /\ files' = files /\ asked' = asked /\ recorded' = recorded
  BY DEF LoopsInv, Ask, metadata
<1>2. CASE Raise(l, "provider")
  BY <1>1, <1>2, RaiseStep
<1>3. CASE \E reply \in asked[l].answers : Become(l, [loop[l] EXCEPT !.pc = "acting", !.todo = reply])
  <2>1. PICK reply : Become(l, [loop[l] EXCEPT !.pc = "acting", !.todo = reply])
    BY <1>3
  <2> DEFINE new == [loop[l] EXCEPT !.pc = "acting", !.todo = reply]
  <2>2. Fine(l, new)
    BY <1>1 DEF Fine, LoopInv, IsLoop, Fields, Closing
  <2> HIDE DEF new
  <2>3. QED
    BY <1>1, <2>1, <2>2, StillStep DEF new
<1>4. CASE Become(l, NextStep(loop[l], asked[l]))
  BY <1>1, <1>4, NextStepFine, StillStep DEF LoopInv
<1>5. QED
  BY <1>2, <1>3, <1>4 DEF Ask

LEMMA TestStep ==
  ASSUME LoopsInv, TypeInv, NEW l \in Active, Test(l)
  PROVE  LoopsInv'
<1> DEFINE s == loop[l]
           list == IF s.pc = "retesting" THEN asked[l].tests ELSE required_commands(asked[l])
           then == CASE s.pc = "checking" -> "judging" [] s.pc = "ending" -> "verifying"
                     [] s.pc = "retesting" -> "reverifying"
           i == Min(missing(list, s))
           c == list[i]
           done == [s EXCEPT !.tested = 0, !.pc = then]
           run(o) == [s EXCEPT !.tested = i, !.results = @ \union {o.result}]
<1>1. LoopInv(l) /\ asked' = asked /\ recorded' = recorded /\ s.pc \in Testing
  BY DEF LoopsInv, Test, metadata, Testing
<1>2. then \in {"judging", "verifying", "reverifying"}
  BY <1>1 DEF Testing
<1>3. \/ Become(l, NextStep(s, asked[l])) /\ files' = files
      \/ Become(l, done) /\ files' = files
      \/ \E o \in Outcomes(asked[l], c) : Commanded(l, c, o, run(o))
  BY DEF Test
<1> HIDE DEF then, i
<1>4. Fine(l, done)
  BY <1>1, <1>2 DEF Fine, LoopInv, IsLoop, Fields, Closing
<1>5. ASSUME NEW o
      PROVE  /\ IsLoop(run(o)) /\ run(o).start = s.start /\ run(o).shared = s.shared
             /\ run(o).changed = s.changed /\ run(o).spilled = s.spilled /\ run(o).pc = s.pc
  BY <1>1 DEF LoopInv, IsLoop, Fields
<1> HIDE DEF done, run, c
<1>6. CASE \E o \in Outcomes(asked[l], c) : Commanded(l, c, o, run(o))
  <2>1. PICK o \in Outcomes(asked[l], c) : Commanded(l, c, o, run(o))
    BY <1>6
  <2>2. run(o).pc \notin Closing \union {"completed", "recording"}
    BY <1>1, <1>5 DEF Closing, Testing
  <2>3. QED
    BY <1>1, <1>5, <2>1, <2>2, CommandStep
<1>7. QED
  BY <1>1, <1>3, <1>4, <1>6, NextStepFine, StillStep DEF LoopInv

LEMMA ProbeStep ==
  ASSUME LoopsInv, TypeInv, NEW l \in Active, Probe(l)
  PROVE  LoopsInv'
<1> DEFINE s == loop[l]
           c == asked[l].probes[Len(s.probed) + 1]
           run(o) == [s EXCEPT !.probed = Append(@, o.result)]
<1>1. /\ LoopInv(l) /\ asked' = asked /\ recorded' = recorded
      /\ s.pc \in {"judging", "verifying", "reverifying"}
  BY DEF LoopsInv, Probe, metadata
<1>2. PICK o \in Outcomes(asked[l], c) : Commanded(l, c, o, run(o))
  BY DEF Probe
<1>3. /\ IsLoop(run(o)) /\ run(o).start = s.start /\ run(o).shared = s.shared
      /\ run(o).changed = s.changed /\ run(o).spilled = s.spilled /\ run(o).pc = s.pc
  BY <1>1 DEF LoopInv, IsLoop, Fields
<1> HIDE DEF run, c
<1>4. run(o).pc \notin Closing \union {"completed", "recording"}
  BY <1>1, <1>3 DEF Closing
<1>5. QED
  BY <1>1, <1>2, <1>3, <1>4, CommandStep

LEMMA UnprobedFields ==
  ASSUME NEW s, IsLoop(s)
  PROVE  LET u == Unprobed(s) IN
         /\ IsLoop(u) /\ u.start = s.start /\ u.shared = s.shared /\ u.changed = s.changed
         /\ u.spilled = s.spilled /\ u.pc = s.pc /\ u.step = s.step /\ u.results = s.results
         /\ u.tested = s.tested /\ u.stale = s.stale /\ u.probed = <<>>
BY DEF Unprobed, IsLoop, Fields

LEMMA JudgeStep ==
  ASSUME LoopsInv, NEW l \in Active, Judge(l)
  PROVE  LoopsInv'
<1> DEFINE u == Unprobed(loop[l])
           ends == [u EXCEPT !.pc = "ending"]
<1>1. LoopInv(l) /\ files' = files /\ asked' = asked /\ recorded' = recorded
  BY DEF LoopsInv, Judge, metadata
<1>2. /\ IsLoop(u) /\ u.start = loop[l].start /\ u.shared = loop[l].shared
      /\ u.changed = loop[l].changed /\ u.spilled = loop[l].spilled
  BY <1>1, UnprobedFields DEF LoopInv
<1>3. Become(l, ends) \/ Become(l, NextStep(u, asked[l]))
  BY DEF Judge
<1> HIDE DEF u
<1>4. Fine(l, ends)
  BY <1>2 DEF Fine, IsLoop, Fields, Closing
<1> HIDE DEF ends
<1>5. QED
  BY <1>1, <1>2, <1>3, <1>4, NextStepFine, StillStep

LEMMA RecallStep ==
  ASSUME LoopsInv, MetaInv, NEW l \in Active, Recall(l)
  PROVE  LoopsInv'
<1> DEFINE new == [loop[l] EXCEPT !.pc = "recording", !.seen = meta]
<1>1. LoopInv(l) /\ files' = files /\ asked' = asked /\ recorded' = recorded /\ Become(l, new) /\ loop[l].pc = "learning"
  BY DEF LoopsInv, Recall, metadata
<1>2. Fine(l, new)
  BY <1>1 DEF Fine, LoopInv, IsLoop, Fields, Closing, MetaInv
<1> HIDE DEF new
<1>3. QED
  BY <1>1, <1>2, StillStep

LEMMA RecordStep ==
  ASSUME LoopsInv, NEW l \in Active, Record(l)
  PROVE  LoopsInv'
<1> DEFINE new == [loop[l] EXCEPT !.pc = IF loop[l].why = "completed" THEN "completed" ELSE "failed",
                                  !.seen = NoCopy]
<1>1. LoopInv(l) /\ files' = files /\ asked' = asked /\ Become(l, new) /\ loop[l].pc = "recording"
      /\ recorded' = recorded + 1
  BY DEF LoopsInv, Record
<1>2. Fine(l, new)
  BY <1>1 DEF Fine, LoopInv, IsLoop, Fields, Closing
<1> HIDE DEF new
<1>3. QED
  BY <1>1, <1>2, StillStep

\* The last verification: what it lets through is as the request wants it.
LEMMA VerifyStep ==
  ASSUME LoopsInv, TypeInv, NEW l \in Active, Verify(l)
  PROVE  LoopsInv'
<1> DEFINE q == asked[l]
           s == loop[l]
           u == Unprobed(s)
           verdict == verdict_of(q, s)
           retests == [u EXCEPT !.pc = "retesting"]
           refused == [u EXCEPT !.pc = "learning", !.why = verdict]
           empty == [u EXCEPT !.pc = "failed", !.why = "meaningless"]
           done == [u EXCEPT !.pc = "learning", !.why = "completed"]
<1>1. LoopInv(l) /\ files' = files /\ asked' = asked /\ recorded' = recorded
  BY DEF LoopsInv, Verify, metadata
<1>2. /\ verdict # "completed"
      /\ ~s.shared /\ verdict \in {Ok, "no_changes"} => Accepted(l)
  <2> DEFINE probed == Range(s.probed)
  <2>1. verdict = verify_workspace_execution(asked[l], loop[l].changed, loop[l].results, probed)
    BY DEF verdict_of
  <2> HIDE DEF probed, verdict
  <2>2. verdict # "completed"
    BY <2>1, FirstGate
  <2>3. ASSUME ~s.shared, verdict \in {Ok, "no_changes"}
        PROVE  Accepted(l)
    BY <2>1, <2>3, VerifiedAccepted
  <2>4. QED
    BY <2>2, <2>3
<1>3. \/ Become(l, retests) \/ Become(l, refused) \/ Become(l, empty)
      \/ Become(l, done) /\ verdict \in {Ok, "no_changes"}
  BY DEF Verify, Concluded
<1>4. /\ IsLoop(u) /\ u.start = s.start /\ u.shared = s.shared
      /\ u.changed = s.changed /\ u.spilled = s.spilled
  BY <1>1, UnprobedFields DEF LoopInv
<1> HIDE DEF verdict, u
<1>5. Fine(l, retests)
  BY <1>4 DEF Fine, IsLoop, Fields, Closing
<1>6. Fine(l, refused)
  BY <1>2, <1>4 DEF Fine, IsLoop, Fields
<1>7. Fine(l, empty)
  BY <1>4 DEF Fine, IsLoop, Fields, Closing
<1>8. verdict \in {Ok, "no_changes"} => Fine(l, done)
  BY <1>2, <1>4 DEF Fine, IsLoop, Fields
<1> HIDE DEF retests, refused, empty, done
<1>9. QED
  BY <1>1, <1>3, <1>5, <1>6, <1>7, <1>8, StillStep


-----------------------------------------------------------------------------
(* The actions of an answer *)

LEMMA ActedFields ==
  ASSUME NEW s, IsLoop(s), s.pc = "acting"
  PROVE  /\ IsLoop(Acted(s)) /\ Acted(s).pc \in {"acting", "checking"}
         /\ Acted(s).changed = s.changed /\ Acted(s).start = s.start /\ Acted(s).shared = s.shared
         /\ Acted(s).spilled = s.spilled
BY DEF Acted, IsLoop, Fields

\* An action that leaves the files alone.
LEMMA DidStep ==
  ASSUME LoopsInv, NEW l \in Active, NEW results, loop[l].pc = "acting",
         Become(l, [Acted(loop[l]) EXCEPT !.results = @ \union results]),
         files' = files, asked' = asked, recorded' = recorded
  PROVE  LoopsInv'
<1> DEFINE acted == Acted(loop[l])
           new == [acted EXCEPT !.results = @ \union results]
<1>1. LoopInv(l) /\ Become(l, new)
  BY DEF LoopsInv
<1>2. /\ IsLoop(acted) /\ acted.pc \in {"acting", "checking"} /\ acted.spilled = loop[l].spilled
      /\ acted.changed = loop[l].changed /\ acted.start = loop[l].start /\ acted.shared = loop[l].shared
  BY <1>1, ActedFields DEF LoopInv
<1> HIDE DEF acted
<1>3. Fine(l, new)
  BY <1>2 DEF Fine, IsLoop, Fields, Closing
<1> HIDE DEF new
<1>4. QED
  BY <1>1, <1>3, StillStep

LEMMA LookStep ==
  ASSUME LoopsInv, NEW l \in Active, NEW new, loop[l].pc = "acting",
         new = Acted(loop[l]) \/ new = [loop[l] EXCEPT !.todo = <<>>, !.pc = "checking"],
         Become(l, new), files' = files, asked' = asked, recorded' = recorded
  PROVE  LoopsInv'
<1>1. LoopInv(l)
  BY DEF LoopsInv
<1>2. /\ IsLoop(new) /\ new.pc \in {"acting", "checking"} /\ new.spilled = loop[l].spilled
      /\ new.changed = loop[l].changed /\ new.start = loop[l].start /\ new.shared = loop[l].shared
  <2>1. CASE new = Acted(loop[l])
    BY <1>1, <2>1, ActedFields DEF LoopInv
  <2>2. CASE new = [loop[l] EXCEPT !.todo = <<>>, !.pc = "checking"]
    BY <1>1, <2>2 DEF LoopInv, IsLoop, Fields
  <2>3. QED
    BY <2>1, <2>2
<1>3. Fine(l, new)
  BY <1>2 DEF Fine, Closing
<1>4. QED
  BY <1>3, StillStep

LEMMA Noted ==
  ASSUME NEW S, NEW s \in Seq(S), NEW t \in Seq(S)
  PROVE  Range(s \o t) = Range(s) \union Range(t)
<1>1. /\ Len(s) \in Nat /\ Len(t) \in Nat /\ Len(s \o t) = Len(s) + Len(t)
      /\ DOMAIN s = 1..Len(s) /\ DOMAIN t = 1..Len(t) /\ DOMAIN (s \o t) = 1..(Len(s) + Len(t))
  OBVIOUS
<1>2. /\ \A i \in 1..Len(s) : (s \o t)[i] = s[i]
      /\ \A i \in 1..Len(t) : (s \o t)[Len(s) + i] = t[i]
  OBVIOUS
<1>3. \A i \in 1..(Len(s) + Len(t)) : i \in 1..Len(s) \/ (i - Len(s) \in 1..Len(t) /\ i = Len(s) + (i - Len(s)))
  BY <1>1
<1>4. \A i \in 1..Len(t) : Len(s) + i \in 1..(Len(s) + Len(t))
  BY <1>1
<1>5. \A i \in 1..Len(s) : i \in 1..(Len(s) + Len(t))
  BY <1>1
<1>6. Range(s \o t) \subseteq Range(s) \union Range(t)
  BY <1>1, <1>2, <1>3 DEF Range
<1>7. Range(s) \subseteq Range(s \o t) /\ Range(t) \subseteq Range(s \o t)
  BY <1>1, <1>2, <1>4, <1>5 DEF Range
<1>8. QED
  BY <1>6, <1>7

\* An edit is noted by its own loop.
LEMMA EditStep ==
  ASSUME LoopsInv, TypeInv, NEW l \in Active, NEW new, NEW paths \in Seq(Paths), loop[l].pc = "acting",
         Edit(l, new, paths), \A p \in Paths \ Range(paths) : new[p] = files[p],
         asked' = asked, recorded' = recorded
  PROVE  LoopsInv'
<1> DEFINE acted == Acted(loop[l])
           mine == [acted EXCEPT !.changed = @ \o paths]
<1>1. LoopInv(l) /\ loop[l].changed \in Seq(Paths)
  BY DEF LoopsInv, TypeInv, Typed
<1>2. Alter(l, new, mine)
  BY DEF Edit
<1>3. /\ IsLoop(acted) /\ acted.pc \in {"acting", "checking"} /\ acted.spilled = loop[l].spilled
      /\ acted.changed = loop[l].changed /\ acted.start = loop[l].start /\ acted.shared = loop[l].shared
  BY <1>1, ActedFields DEF LoopInv
<1> HIDE DEF acted
<1>4. /\ IsLoop(mine) /\ mine.pc \in {"acting", "checking"} /\ mine.spilled = loop[l].spilled
      /\ mine.changed = loop[l].changed \o paths
      /\ mine.start = loop[l].start /\ mine.shared = loop[l].shared
  BY <1>3 DEF IsLoop, Fields
<1> HIDE DEF mine
<1>5. Range(mine.changed) = Range(loop[l].changed) \union Range(paths)
  BY <1>1, <1>4, Noted
<1>6. ASSUME ~mine.shared, NEW p \in Paths, new[p] # mine.start[p], p \notin mine.spilled
      PROVE  p \in Range(mine.changed)
  <2>1. CASE p \in Range(paths)
    BY <1>5, <2>1
  <2>2. CASE p \notin Range(paths)
    <3>1. p \in Altered(l)
      BY <1>4, <1>6, <2>2 DEF Altered
    <3>2. QED
      BY <1>1, <1>4, <1>5, <1>6, <3>1 DEF LoopInv
  <2>3. QED
    BY <2>1, <2>2
<1>7. Altering(l, new, mine)
  BY <1>4, <1>6 DEF Altering, Closing
<1>8. QED
  BY <1>2, <1>7, AlterStep

LEMMA ActionPaths ==
  ASSUME NEW a \in Actions
  PROVE  /\ a.type \in {"write_file", "patch_file", "delete_file", "move_file"} => a.path \in Paths
         /\ a.type \in {"write_file", "patch_file"} => a.text \in Texts
         /\ a.type = "move_file" => a.to \in Paths
BY DEF Actions

\* What an edit makes of the files.
LEMMA EditFiles ==
  ASSUME TypeInv, NEW l \in Active, NEW a \in Actions,
         Write(l, a) \/ Patch(l, a) \/ Delete(l, a) \/ Move(l, a)
  PROVE  \E new \in [Paths -> Contents], paths \in Seq(Paths) :
           Edit(l, new, paths) /\ \A p \in Paths \ Range(paths) : new[p] = files[p]
<1>1. files \in [Paths -> Contents]
  BY DEF TypeInv
<1>2. \A p \in Paths : <<p>> \in Seq(Paths) /\ Range(<<p>>) = {p}
  BY DEF Range
<1>3. ASSUME NEW p \in Paths, NEW t \in Contents, Edit(l, [files EXCEPT ![p] = t], <<p>>)
      PROVE  \E new \in [Paths -> Contents], paths \in Seq(Paths) :
               Edit(l, new, paths) /\ \A r \in Paths \ Range(paths) : new[r] = files[r]
  <2> DEFINE new == [files EXCEPT ![p] = t]
  <2>1. new \in [Paths -> Contents] /\ \A r \in Paths \ {p} : new[r] = files[r]
    BY <1>1, <1>3
  <2>2. Edit(l, new, <<p>>)
    BY <1>3
  <2> HIDE DEF new
  <2>3. QED
    BY <1>2, <2>1, <2>2
<1>4. CASE Write(l, a) \/ Patch(l, a)
  <2>1. Edit(l, [files EXCEPT ![a.path] = a.text], <<a.path>>) /\ a.type \in {"write_file", "patch_file"}
    BY <1>4 DEF Write, Patch
  <2>2. a.path \in Paths /\ a.text \in Contents
    BY <2>1, ActionPaths DEF Contents
  <2>3. QED
    BY <1>3, <2>1, <2>2
<1>5. CASE Delete(l, a)
  <2>1. Edit(l, [files EXCEPT ![a.path] = Absent], <<a.path>>) /\ a.type = "delete_file"
    BY <1>5 DEF Delete
  <2>2. a.path \in Paths /\ Absent \in Contents
    BY <2>1, ActionPaths DEF Contents
  <2>3. QED
    BY <1>3, <2>1, <2>2
<1>6. CASE Move(l, a)
  <2> DEFINE new == [files EXCEPT ![a.to] = files[a.path], ![a.path] = Absent]
             paths == <<a.path, a.to>>
  <2>1. Edit(l, new, paths) /\ a.type = "move_file"
    BY <1>6 DEF Move, moved_paths
  <2>2. a.path \in Paths /\ a.to \in Paths /\ Absent \in Contents
    BY <2>1, ActionPaths DEF Contents
  <2>3. new \in [Paths -> Contents] /\ \A r \in Paths \ {a.path, a.to} : new[r] = files[r]
    BY <1>1, <2>2
  <2>4. paths \in Seq(Paths) /\ Range(paths) = {a.path, a.to}
    BY <2>2 DEF Range
  <2> HIDE DEF new, paths
  <2>5. QED
    BY <2>1, <2>3, <2>4
<1>7. QED
  BY <1>4, <1>5, <1>6

LEMMA NextAction ==
  ASSUME TypeInv, NEW l \in Active, loop[l].pc = "acting"
  PROVE  Head(loop[l].todo) \in Actions
<1>1. loop[l].todo \in Seq(Actions) \ {<<>>}
  BY DEF TypeInv, Typed
<1>2. ASSUME NEW S, NEW list \in Seq(S), list # <<>>
      PROVE  Head(list) \in S
  BY <1>2
<1>3. QED
  BY <1>1, <1>2

LEMMA RunStep ==
  ASSUME LoopsInv, TypeInv, NEW l \in Active, NEW a, loop[l].pc = "acting", Run(l, a),
         asked' = asked, recorded' = recorded
  PROVE  LoopsInv'
<1> DEFINE acted == Acted(loop[l])
           c == command_of(asked[l], a)
           run(o) == [acted EXCEPT !.results = @ \union {o.result}]
<1>1. LoopInv(l)
  BY DEF LoopsInv
<1>2. PICK o \in Outcomes(asked[l], c) : Commanded(l, c, o, run(o))
  BY DEF Run
<1>3. /\ IsLoop(acted) /\ acted.pc \in {"acting", "checking"} /\ acted.spilled = loop[l].spilled
      /\ acted.changed = loop[l].changed /\ acted.start = loop[l].start /\ acted.shared = loop[l].shared
  BY <1>1, ActedFields DEF LoopInv
<1> HIDE DEF acted, c
<1>4. /\ IsLoop(run(o)) /\ run(o).pc = acted.pc /\ run(o).spilled = loop[l].spilled
      /\ run(o).changed = loop[l].changed /\ run(o).start = loop[l].start /\ run(o).shared = loop[l].shared
  BY <1>3 DEF IsLoop, Fields
<1> HIDE DEF run
<1>5. run(o).pc \notin Closing \union {"completed", "recording"}
  BY <1>3, <1>4 DEF Closing
<1>6. QED
  BY <1>2, <1>4, <1>5, CommandStep

LEMMA ActStep ==
  ASSUME LoopsInv, TypeInv, NEW l \in Active, Act(l)
  PROVE  LoopsInv'
<1> DEFINE a == Head(loop[l].todo)
<1>1. loop[l].pc = "acting" /\ asked' = asked /\ recorded' = recorded
  BY DEF Act, metadata
<1>2. \/ Block(l, a) \/ Write(l, a) \/ Patch(l, a) \/ Delete(l, a) \/ Move(l, a)
      \/ Stumble(l, a) \/ Look(l, a) \/ Finish(l, a) \/ Run(l, a)
  BY DEF Act
<1>3. a \in Actions
  BY <1>1, NextAction
<1> HIDE DEF a
<1>4. CASE Block(l, a)
  BY <1>1, <1>4, DidStep DEF Block
<1>5. CASE Look(l, a) \/ Finish(l, a)
  BY <1>1, <1>5, LookStep DEF Look, Finish
<1>6. CASE Stumble(l, a)
  BY <1>1, <1>6, RaiseStep DEF Stumble
<1>7. CASE Run(l, a)
  BY <1>1, <1>7, RunStep
<1>8. CASE Write(l, a) \/ Patch(l, a) \/ Delete(l, a) \/ Move(l, a)
  <2>1. PICK new \in [Paths -> Contents], paths \in Seq(Paths) :
          Edit(l, new, paths) /\ \A p \in Paths \ Range(paths) : new[p] = files[p]
    BY <1>3, <1>8, EditFiles
  <2>2. QED
    BY <1>1, <2>1, EditStep
<1>9. QED
  BY <1>2, <1>4, <1>5, <1>6, <1>7, <1>8

LEMMA RetryStep ==
  ASSUME LoopsInv, NEW l \in Active, Retry(l)
  PROVE  LoopsInv'
<1>1. /\ l \in Loops /\ files' = files /\ asked' = asked /\ loop' = [loop EXCEPT ![l] = NewLoop]
      /\ recorded' = recorded
  BY DEF LoopsInv, Retry, Become, metadata
<1>2. \A m \in Loops : loop'[m] = IF m = l THEN NewLoop ELSE loop[m]
  BY <1>1 DEF LoopsInv
<1>3. ASSUME NEW m \in Loops
      PROVE  LoopInv(m)'
  <2>1. CASE m # l
    <3>1. loop'[m] = loop[m] /\ LoopInv(m) /\ Active' = Active
      BY <1>1, <1>2, <2>1 DEF LoopsInv, Active
    <3>2. Altered(m)' = Altered(m) /\ (Accepted(m) => Accepted(m)')
      BY <1>1, <3>1 DEF Altered, Accepted, Exists
    <3>3. loop[m].pc = "recording" => Read(loop[m].seen)'
      BY <1>1, <3>1, ReadKept DEF LoopInv, LoopsInv
    <3>4. QED
      BY <3>1, <3>2, <3>3 DEF LoopInv, IsLoop
  <2>2. CASE m = l
    <3>1. /\ IsLoop(NewLoop) /\ NewLoop.pc = "preflight"
          /\ NewLoop.start = files /\ NewLoop.shared = FALSE
      BY DEF NewLoop, IsLoop, Fields
    <3>2. loop'[m] = NewLoop
      BY <1>2, <2>2
    <3>3. Altered(m)' = {}
      BY <1>1, <3>1, <3>2 DEF Altered
    <3>4. QED
      BY <3>1, <3>2, <3>3 DEF LoopInv, IsLoop, Closing
  <2>3. QED
    BY <2>1, <2>2
<1>4. QED
  BY <1>1, <1>3 DEF LoopsInv, Active

-----------------------------------------------------------------------------
(* The metadata *)

LEMMA LearnedRead ==
  ASSUME NEW m, IsMeta(m), NEW outcome \in {"success", "failure"}
  PROVE  IsMeta(learned(m, outcome)) /\ Counted(m) \in Nat /\ Counted(learned(m, outcome)) = Counted(m) + 1
<1> DEFINE now == [m.learning EXCEPT ![outcome] = @ + 1]
           new == [m EXCEPT !.learning = now, !.readiness = readiness(m.contract, now)]
<1>1. m.learning \in [{"success", "failure"} -> Nat]
  BY DEF IsMeta
<1>2. /\ now \in [{"success", "failure"} -> Nat]
      /\ now.success + now.failure = m.learning.success + m.learning.failure + 1
      /\ m.learning.success + m.learning.failure \in Nat
  BY <1>1
<1> HIDE DEF now
<1>3. /\ DOMAIN new = {"contract", "learning", "readiness"} /\ new.contract = m.contract
      /\ new.learning = now /\ new.readiness = readiness(m.contract, now)
  BY DEF IsMeta
<1>4. learned(m, outcome) = new
  BY DEF learned, now
<1> HIDE DEF new
<1>5. QED
  BY <1>2, <1>3, <1>4 DEF IsMeta, Counted

LEMMA ScannedRead ==
  ASSUME NEW m, IsMeta(m), NEW c
  PROVE  IsMeta(scanned(m, c)) /\ Counted(scanned(m, c)) = Counted(m)
BY DEF scanned, IsMeta, Counted

LEMMA MetaKept ==
  ASSUME MetaInv, UNCHANGED <<meta, scan, recorded, overlapped>>
  PROVE  MetaInv'
BY DEF MetaInv, Read, IsMeta, Counted, readiness, score, declared_points, learned_points

LEMMA RecordMeta ==
  ASSUME LoopsInv, MetaInv, NEW l \in Active, Record(l)
  PROVE  MetaInv'
<1> DEFINE outcome == IF loop[l].why = "completed" THEN "success" ELSE "failure"
           seen == loop[l].seen
<1>1. /\ meta' = learned(seen, outcome) /\ overlapped' = (overlapped \/ seen # meta)
      /\ recorded' = recorded + 1 /\ scan' = scan /\ loop[l].pc = "recording"
  BY DEF Record
<1>2. Read(seen) /\ recorded \in Nat
  BY <1>1 DEF LoopsInv, LoopInv
<1>3. IsMeta(meta') /\ Counted(seen) \in Nat /\ Counted(meta') = Counted(seen) + 1
  BY <1>1, <1>2, LearnedRead DEF Read
<1> HIDE DEF outcome, seen
<1>4. Read(meta)'
  BY <1>1, <1>2, <1>3 DEF Read, IsMeta, Counted, readiness, score, declared_points, learned_points
<1>5. overlapped' \in BOOLEAN
  BY <1>1 DEF MetaInv
<1>6. ASSUME ~overlapped'
      PROVE  Counted(meta)' = recorded'
  <2>1. ~overlapped /\ seen = meta
    BY <1>1, <1>6
  <2>2. Counted(seen) = recorded
    BY <2>1 DEF MetaInv
  <2>3. QED
    BY <1>1, <1>3, <2>2 DEF Counted
<1>7. scan' # NoCopy => Read(scan)'
  BY <1>1, <1>2, ReadKept DEF MetaInv, Read, IsMeta, Counted, readiness, score, declared_points, learned_points, NoCopy
<1>8. QED
  BY <1>4, <1>5, <1>6, <1>7 DEF MetaInv, NoCopy

LEMMA ScanReadsMeta ==
  ASSUME LoopsInv, MetaInv, ScanReads
  PROVE  MetaInv'
BY DEF ScanReads, MetaInv, Read, IsMeta, Counted, readiness, score, declared_points, learned_points, NoCopy

LEMMA ScanWritesMeta ==
  ASSUME LoopsInv, MetaInv, ScanWrites
  PROVE  MetaInv'
<1>1. PICK c \in Contracts : meta' = scanned(scan, c)
  BY DEF ScanWrites
<1>2. /\ scan # NoCopy /\ scan' = NoCopy /\ recorded' = recorded
      /\ overlapped' = (overlapped \/ scan # meta)
  BY DEF ScanWrites
<1>3. Read(scan)
  BY <1>2 DEF MetaInv
<1>4. IsMeta(meta') /\ Counted(meta') = Counted(scan)
  BY <1>1, <1>3, ScannedRead DEF Read
<1>5. Read(meta)'
  BY <1>2, <1>3, <1>4 DEF Read, IsMeta, Counted, readiness, score, declared_points, learned_points
<1>6. overlapped' \in BOOLEAN
  BY <1>2 DEF MetaInv
<1>7. ASSUME ~overlapped'
      PROVE  Counted(meta)' = recorded'
  <2>1. ~overlapped /\ scan = meta
    BY <1>2, <1>7
  <2>2. Counted(scan) = recorded
    BY <2>1 DEF MetaInv
  <2>3. QED
    BY <1>2, <1>4, <2>2 DEF Counted
<1>8. QED
  BY <1>2, <1>5, <1>6, <1>7 DEF MetaInv, NoCopy

-----------------------------------------------------------------------------
(* The invariant *)

Inv == LoopsInv /\ MetaInv

LEMMA InitInv ==
  ASSUME Init
  PROVE  Inv
<1>1. PICK s \in Scenarios :
        /\ asked = s.asked /\ files = s.files
        /\ meta = [contract |-> s.contract, learning |-> [success |-> 0, failure |-> 0],
                   readiness |-> readiness(s.contract, [success |-> 0, failure |-> 0])]
        /\ loop = [l \in Loops |-> [NewLoop EXCEPT !.pc = IF l \in DOMAIN s.asked THEN @ ELSE "absent"]]
        /\ scan = NoCopy /\ recorded = 0 /\ overlapped = FALSE
  BY DEF Init
<1>2. /\ Active \subseteq Loops /\ \A l \in Active : asked[l].max_changed \in Nat
      /\ recorded \in Nat /\ loop = [l \in Loops |-> loop[l]]
  BY <1>1, WorkspaceAssumption DEF Active
<1>3. ASSUME NEW l \in Loops
      PROVE  LoopInv(l)
  <2>1. /\ IsLoop(loop[l]) /\ loop[l].pc \in {"preflight", "absent"}
        /\ loop[l].start = files /\ loop[l].shared = FALSE
    BY <1>1 DEF NewLoop, IsLoop, Fields
  <2>2. Altered(l) = {}
    BY <2>1 DEF Altered
  <2>3. QED
    BY <2>1, <2>2 DEF LoopInv, Closing
<1>4. MetaInv
  <2> DEFINE none == [success |-> 0, failure |-> 0]
  <2>1. none \in [{"success", "failure"} -> Nat] /\ none.success + none.failure = 0
    OBVIOUS
  <2> HIDE DEF none
  <2>2. PICK c : meta = [contract |-> c, learning |-> none, readiness |-> readiness(c, none)]
    BY <1>1 DEF none
  <2>3. IsMeta(meta) /\ Counted(meta) = 0
    BY <2>1, <2>2 DEF IsMeta, Counted
  <2>4. Read(meta) /\ Counted(meta) = recorded
    BY <1>1, <2>3 DEF Read
  <2>5. scan = NoCopy /\ overlapped \in BOOLEAN
    BY <1>1
  <2>6. QED
    BY <2>4, <2>5 DEF MetaInv
<1>5. QED
  BY <1>2, <1>3, <1>4 DEF Inv, LoopsInv

LEMMA StutterInv ==
  ASSUME LoopsInv, UNCHANGED <<asked, files, loop, recorded>>
  PROVE  LoopsInv'
<1>1. Active' = Active
  BY DEF Active
<1>2. ASSUME NEW l \in Loops
      PROVE  LoopInv(l)'
  <2>1. LoopInv(l)
    BY DEF LoopsInv
  <2>2. Altered(l)' = Altered(l) /\ (Accepted(l) => Accepted(l)')
    BY DEF Altered, Accepted, Exists
  <2>3. loop[l].pc = "recording" => Read(loop[l].seen)'
    BY <2>1, ReadKept DEF LoopInv, LoopsInv
  <2>4. QED
    BY <1>1, <2>1, <2>2, <2>3 DEF LoopInv, IsLoop
<1>3. QED
  BY <1>1, <1>2 DEF LoopsInv

LEMMA NextInv ==
  ASSUME Inv, TypeInv, [Next]_vars
  PROVE  Inv'
<1>1. LoopsInv /\ MetaInv
  BY DEF Inv
<1>2. CASE UNCHANGED vars
  BY <1>1, <1>2, StutterInv, MetaKept DEF vars, Inv
<1>3. CASE ScanReads
  BY <1>1, <1>3, StutterInv, ScanReadsMeta DEF ScanReads, Inv
<1>4. CASE ScanWrites
  BY <1>1, <1>4, StutterInv, ScanWritesMeta DEF ScanWrites, Inv
<1>5. ASSUME NEW l \in Active, LoopStep(l) \/ Retry(l)
      PROVE  Inv'
  <2>1. CASE Preflight(l)
    BY <1>1, <2>1, PreflightStep, MetaKept DEF Preflight, metadata, Inv
  <2>2. CASE Plan(l)
    BY <1>1, <2>2, PlanStep, MetaKept DEF Plan, metadata, Inv
  <2>3. CASE Ask(l)
    BY <1>1, <2>3, AskStep, MetaKept DEF Ask, metadata, Inv
  <2>4. CASE Act(l)
    BY <1>1, <2>4, ActStep, MetaKept DEF Act, metadata, Inv
  <2>5. CASE Test(l)
    BY <1>1, <2>5, TestStep, MetaKept DEF Test, metadata, Inv
  <2>6. CASE Probe(l)
    BY <1>1, <2>6, ProbeStep, MetaKept DEF Probe, metadata, Inv
  <2>7. CASE Verify(l)
    BY <1>1, <2>7, VerifyStep, MetaKept DEF Verify, metadata, Inv
  <2>8. CASE Recall(l)
    BY <1>1, <2>8, RecallStep, MetaKept DEF Recall, metadata, Inv
  <2>9. CASE Record(l)
    BY <1>1, <2>9, RecordStep, RecordMeta DEF Inv
  <2>10. CASE Retry(l)
    BY <1>1, <2>10, RetryStep, MetaKept DEF Retry, metadata, Inv
  <2>11. CASE Judge(l)
    BY <1>1, <2>11, JudgeStep, MetaKept DEF Judge, metadata, Inv
  <2>12. QED
    BY <1>5, <2>1, <2>2, <2>3, <2>4, <2>5, <2>6, <2>7, <2>8, <2>9, <2>10, <2>11 DEF LoopStep
<1>6. QED
  BY <1>2, <1>3, <1>4, <1>5 DEF Next

-----------------------------------------------------------------------------
(* The types, and what the tests show of the files *)

LEMMA MaxStepsRange ==
  ASSUME NEW q, q.max_steps \in Int
  PROVE  max_steps(q) \in 1..StepLimit
<1>1. ASSUME NEW a \in Int, NEW b \in Int
      PROVE  /\ Min({a, b}) = IF a <= b THEN a ELSE b
             /\ Max({a, b}) = IF a >= b THEN a ELSE b
  <2>1. \A x \in {a, b} : (\A y \in {a, b} : x <= y) <=> x = IF a <= b THEN a ELSE b
    OBVIOUS
  <2>2. \A x \in {a, b} : (\A y \in {a, b} : x >= y) <=> x = IF a >= b THEN a ELSE b
    OBVIOUS
  <2>3. QED
    BY <2>1, <2>2 DEF Min, Max
<1> DEFINE cut == Min({q.max_steps, StepLimit})
<1>2. cut \in Int /\ cut <= StepLimit
  BY <1>1 DEF StepLimit
<1> HIDE DEF cut
<1>3. Max({1, cut}) = IF 1 >= cut THEN 1 ELSE cut
  BY <1>1, <1>2
<1>4. QED
  BY <1>2, <1>3 DEF max_steps, cut, StepLimit

LEMMA RequiredSeq ==
  ASSUME NEW q, WellAsked(q)
  PROVE  required_commands(q) \in Seq(Commands)
<1>1. CASE q.must_pass = <<>> /\ q.tests # <<>>
  <2>1. Head(q.tests) \in Commands
    BY <1>1 DEF WellAsked
  <2>2. QED
    BY <1>1, <2>1 DEF required_commands
<1>2. CASE q.must_pass # <<>> \/ q.tests = <<>>
  BY <1>2 DEF required_commands, WellAsked
<1>3. QED
  BY <1>1, <1>2

\* What a command shows of the commands gone through before, and of itself.
LEMMA CommandShows ==
  ASSUME LoopsInv, TypeInv, NEW l \in Active, NEW d \in Commands, NEW o \in Outcomes(asked[l], d),
         NEW s, IsLoop(s), s.stale = loop[l].stale,
         s.results = loop[l].results \union {o.result}
           \/ (s.results = loop[l].results /\ d \in Range(asked[l].probes)),
         o.result.status # "timeout"
  PROVE  LET after == Ran(s, d, o.files) IN
         /\ Shown(asked[l], after, o.files, d)
         /\ \A c \in Commands : Shown(asked[l], loop[l], files, c) => Shown(asked[l], after, o.files, c)
<1> DEFINE q == asked[l]
           altered == {p \in Paths : o.files[p] # files[p]}
           touched == {c \in Commands : Needs[c] \intersect altered # {}}
           after == Ran(s, d, o.files)
<1>1. after.results = s.results /\ after.stale = (loop[l].stale \ {d}) \union touched
  BY DEF Ran, IsLoop, Fields
<1>2. loop[l].results \subseteq after.results
  BY <1>1
<1> HIDE DEF after
<1>3. \A c \in Commands : Needs[c] \subseteq Paths
  BY WorkspaceAssumption
<1>4. \A c \in Commands : c \notin touched => (Succeeds(files, c) <=> Succeeds(o.files, c))
  BY <1>3 DEF Succeeds
<1>5. Shown(q, after, o.files, d)
  <2>1. CASE d \in Range(q.probes)
    BY <2>1 DEF Shown
  <2>2. CASE s.results = loop[l].results \union {o.result}
    <3>1. /\ o.result.command = d /\ o.result.status \in Statuses \union {"timeout"}
          /\ o.result.status = "blocked" => ~command_allowed(q, d)
          /\ o.result.status = "failed" => ~Succeeds(files, d) \/ ~Succeeds(o.files, d)
      BY OutcomeTypes
    <3>2. CASE o.result.status = "ok"
      BY <1>1, <2>2, <3>1, <3>2 DEF Shown, observed_ok, match
    <3>3. CASE o.result.status = "blocked"
      BY <3>1, <3>3 DEF Shown, Fails
    <3>4. CASE o.result.status = "failed"
      <4>1. d \in touched \/ ~Succeeds(o.files, d)
        BY <1>4, <3>1, <3>4
      <4>2. QED
        BY <1>1, <4>1 DEF Shown, Fails
    <3>5. QED
      BY <3>1, <3>2, <3>3, <3>4 DEF Statuses
  <2>3. QED
    BY <2>1, <2>2
<1>6. ASSUME NEW c \in Commands, Shown(q, loop[l], files, c), c # d
      PROVE  Shown(q, after, o.files, c)
  <2>1. CASE observed_ok(loop[l].results, c)
    BY <1>2, <2>1 DEF Shown, observed_ok
  <2>2. CASE ~command_allowed(q, c) \/ c \in Range(q.probes)
    BY <2>2 DEF Shown, Fails
  <2>3. CASE c \in touched \/ c \in loop[l].stale
    BY <1>1, <1>6, <2>3 DEF Shown, Fails
  <2>4. CASE ~Succeeds(files, c) /\ c \notin touched
    <3>1. ~Succeeds(o.files, c)
      BY <1>4, <2>4
    <3>2. QED
      BY <3>1 DEF Shown, Fails
  <2>5. QED
    BY <1>6, <2>1, <2>2, <2>3, <2>4 DEF Shown, Fails
<1>7. QED
  BY <1>5, <1>6 DEF after

\* A verification that names the required commands found one of them that has no success
\* and is no probe: the probes all passed.
LEMMA VerdictNames ==
  ASSUME NEW q, WellAsked(q), NEW s, Probed(q, s.probed), ~probing(q, s),
         verdict_of(q, s) = "commands_did_not_pass"
  PROVE  \E i \in DOMAIN required_commands(q) :
           ~observed_ok(s.results, required_commands(q)[i]) /\ required_commands(q)[i] \notin Range(q.probes)
<1> DEFINE probed == Range(s.probed)
           list == required_commands(q)
<1>1. behavioral_probes(q, s.results, probed) = Ok /\ mechanical_gates(q, s.results \union probed) # Ok
  BY FirstGate DEF verdict_of
<1>2. PICK i \in DOMAIN list : ~observed_ok(s.results \union probed, list[i])
  BY <1>1 DEF mechanical_gates, Range
<1>3. \A r \in probed : r.status = "ok"
  BY <1>1 DEF behavioral_probes, Ok
<1>4. ~(Len(s.probed) < Len(q.probes))
  BY <1>3 DEF probing
<1>5. Len(s.probed) = Len(q.probes) /\ DOMAIN s.probed = 1..Len(s.probed) /\ DOMAIN q.probes = 1..Len(q.probes)
  <2>1. Len(s.probed) \in Nat /\ Len(q.probes) \in Nat /\ Len(s.probed) <= Len(q.probes)
    BY DEF Probed, WellAsked
  <2>2. DOMAIN s.probed = 1..Len(s.probed) /\ DOMAIN q.probes = 1..Len(q.probes)
    BY DEF Probed, WellAsked
  <2>3. QED
    BY <1>4, <2>1, <2>2
<1>6. list[i] \notin Range(q.probes)
  <2>1. SUFFICES ASSUME list[i] \in Range(q.probes)
                 PROVE  FALSE
    OBVIOUS
  <2>2. PICK j \in DOMAIN q.probes : q.probes[j] = list[i]
    BY <2>1 DEF Range
  <2>3. s.probed[j].command = list[i] /\ s.probed[j] \in probed
    BY <1>5, <2>2 DEF Probed, Range
  <2>4. observed_ok(s.results \union probed, list[i])
    BY <1>3, <2>3 DEF observed_ok, match
  <2>5. QED
    BY <1>2, <2>4
<1>7. ~observed_ok(s.results, list[i])
  BY <1>2 DEF observed_ok
<1>8. QED
  BY <1>6, <1>7

-----------------------------------------------------------------------------
(* Steps of a loop *)

\* What a step that leaves the files as tree must make of the state of its loop.
Sound(l, s, tree) ==
  /\ Typed(asked[l], s)
  /\ s.shared = loop[l].shared
  /\ ~s.shared => Current(asked[l], s, tree)

LEMMA TypeInvOf ==
  ASSUME LoopsInv, TypeInv, NEW l \in Active
  PROVE  /\ IsLoop(loop[l]) /\ l \in Loops /\ WellAsked(asked[l]) /\ Typed(asked[l], loop[l])
         /\ ~loop[l].shared => Current(asked[l], loop[l], files)
         /\ max_steps(asked[l]) \in Nat
<1>1. WellAsked(asked[l])
  BY DEF TypeInv
<1>2. max_steps(asked[l]) \in Nat
  BY <1>1, MaxStepsRange DEF WellAsked, StepLimit
<1>3. QED
  BY <1>1, <1>2 DEF TypeInv, LoopsInv, LoopInv

\* The types of the next state, one loop at a time.
LEMMA NextTypeInv ==
  ASSUME asked' = asked, files' \in [Paths -> Contents], deps' \in BOOLEAN,
         \A m \in Active : /\ WellAsked(asked[m]) /\ Typed(asked[m], loop'[m])
                           /\ ~loop'[m].shared => Current(asked[m], loop'[m], files')
  PROVE  TypeInv'
<1>1. Active' = Active
  BY DEF Active
<1>2. QED
  BY <1>1 DEF TypeInv

LEMMA SoundStep ==
  ASSUME LoopsInv, TypeInv, NEW l \in Active, NEW new, Sound(l, new, files), Become(l, new),
         files' = files, asked' = asked, deps' \in BOOLEAN
  PROVE  TypeInv'
<1>1. \A m \in Active : loop'[m] = IF m = l THEN new ELSE loop[m]
  BY DEF LoopsInv, Become
<1>2. ASSUME NEW m \in Active
      PROVE  /\ WellAsked(asked[m]) /\ Typed(asked[m], loop'[m])
             /\ ~loop'[m].shared => Current(asked[m], loop'[m], files')
  BY <1>1 DEF TypeInv, Sound
<1>3. files' \in [Paths -> Contents]
  BY DEF TypeInv
<1>4. QED
  BY <1>2, <1>3, NextTypeInv

\* A step that alters the files is no business of a loop that it does not disturb.
LEMMA AlterSound ==
  ASSUME LoopsInv, TypeInv, NEW l \in Active, NEW new \in [Paths -> Contents], NEW s,
         Sound(l, s, new), Alter(l, new, s), asked' = asked, deps' \in BOOLEAN
  PROVE  TypeInv'
<1> DEFINE told(m) == [loop[m] EXCEPT !.shared = (loop[m].shared \/ new # files)]
<1>1. l \in Loops /\ files' = new /\ Active \subseteq Loops
  BY TypeInvOf DEF Alter, LoopsInv
<1>2. loop' = [m \in Loops |-> IF m = l THEN s ELSE told(m)]
  BY DEF Alter
<1>3. ASSUME NEW m \in Active
      PROVE  /\ WellAsked(asked[m]) /\ Typed(asked[m], loop'[m])
             /\ ~loop'[m].shared => Current(asked[m], loop'[m], files')
  <2>1. IsLoop(loop[m]) /\ WellAsked(asked[m]) /\ Typed(asked[m], loop[m]) /\ loop[m].shared \in BOOLEAN
        /\ (~loop[m].shared => Current(asked[m], loop[m], files))
    BY <1>1, TypeInvOf DEF LoopsInv, LoopInv
  <2>2. CASE m = l
    <3>1. loop'[m] = s
      BY <1>1, <1>2, <2>2
    <3>2. QED
      BY <1>1, <2>1, <2>2, <3>1 DEF Sound
  <2>3. CASE m # l
    <3>1. loop'[m] = told(m)
      BY <1>1, <1>2, <2>3
    <3>2. /\ told(m).pc = loop[m].pc /\ told(m).todo = loop[m].todo /\ told(m).step = loop[m].step
          /\ told(m).changed = loop[m].changed /\ told(m).results = loop[m].results
          /\ told(m).tested = loop[m].tested /\ told(m).why = loop[m].why
          /\ told(m).spilled = loop[m].spilled /\ told(m).stale = loop[m].stale
          /\ told(m).probed = loop[m].probed
          /\ told(m).shared = (loop[m].shared \/ new # files)
      BY <2>1 DEF IsLoop, Fields
    <3> HIDE DEF told
    <3>3. Typed(asked[m], loop'[m])
      BY <2>1, <3>1, <3>2 DEF Typed
    <3>4. ASSUME ~loop'[m].shared
          PROVE  Current(asked[m], loop'[m], files')
      <4>1. ~loop[m].shared /\ files' = files
        BY <1>1, <2>1, <3>1, <3>2, <3>4
      <4>2. QED
        BY <2>1, <3>1, <3>2, <4>1 DEF Current, Shown, Fails
    <3>5. QED
      BY <2>1, <3>3, <3>4
  <2>4. QED
    BY <2>2, <2>3
<1>4. QED
  BY <1>1, <1>3, NextTypeInv

\* The state of a loop that raised.
LEMMA RaisedFields ==
  ASSUME NEW s, IsLoop(s), NEW why
  PROVE  LET r == Raised(s, why) IN
         /\ IsLoop(r) /\ r.pc = "failed" /\ r.why = why /\ r.step = s.step /\ r.changed = s.changed
         /\ r.results = s.results /\ r.tested = s.tested /\ r.probed = s.probed
         /\ r.spilled = s.spilled /\ r.stale = s.stale /\ r.shared = s.shared
BY DEF Raised, IsLoop, Fields

LEMMA RaiseSound ==
  ASSUME LoopsInv, TypeInv, NEW l \in Active, NEW why, why # "commands_did_not_pass", Raise(l, why),
         files' = files, asked' = asked, deps' \in BOOLEAN
  PROVE  TypeInv'
<1> DEFINE new == Raised(loop[l], why)
<1>1. IsLoop(loop[l]) /\ Typed(asked[l], loop[l])
  BY TypeInvOf
<1>2. Become(l, new)
  BY DEF Raise
<1>3. /\ new.pc = "failed" /\ new.why = why /\ new.step = loop[l].step /\ new.changed = loop[l].changed
      /\ new.results = loop[l].results /\ new.tested = loop[l].tested /\ new.probed = loop[l].probed
      /\ new.spilled = loop[l].spilled /\ new.stale = loop[l].stale /\ new.shared = loop[l].shared
  BY <1>1, RaisedFields
<1> HIDE DEF new
<1>4. Typed(asked[l], new)
  BY <1>1, <1>3 DEF Typed, Places, Ended, Testing
<1>5. Sound(l, new, files)
  BY <1>3, <1>4 DEF Sound, Current, Judged
<1>6. QED
  BY <1>2, <1>5, SoundStep

\* A command: what s is without the command's own marks is for the caller to show.
LEMMA CommandSound ==
  ASSUME LoopsInv, TypeInv, NEW l \in Active, NEW c \in Commands, NEW o \in Outcomes(asked[l], c), NEW s,
         Commanded(l, c, o, s), asked' = asked, IsLoop(s), s.stale = loop[l].stale, s.spilled = loop[l].spilled,
         o.result.status # "timeout" =>
           /\ Typed(asked[l], s) /\ s.shared = loop[l].shared
           /\ ~s.shared => Current(asked[l], Ran(s, c, o.files), o.files)
  PROVE  TypeInv'
<1> DEFINE q == asked[l]
           then == Then(l, o, s)
           altered == {p \in Paths : o.files[p] # files[p]}
           touched == {d \in Commands : Needs[d] \intersect altered # {}}
           after == Ran(then, c, o.files)
<1>1. IsLoop(loop[l]) /\ Typed(q, loop[l])
  BY TypeInvOf
<1>2. o.files \in [Paths -> Contents] /\ o.deps \in BOOLEAN
  BY OutcomeTypes
<1>3. Alter(l, o.files, after) /\ deps' = o.deps
  BY DEF Commanded, Then
<1>4. /\ IsLoop(then) /\ Typed(q, then) /\ then.shared = loop[l].shared
      /\ o.result.status = "timeout" => then.pc = "failed" /\ then.why = "timeout"
  <2>1. CASE o.result.status = "timeout"
    <3>1. then = Raised(loop[l], "timeout")
      BY <2>1 DEF Then
    <3>2. /\ IsLoop(then) /\ then.pc = "failed" /\ then.why = "timeout" /\ then.step = loop[l].step
          /\ then.changed = loop[l].changed /\ then.results = loop[l].results
          /\ then.tested = loop[l].tested /\ then.probed = loop[l].probed
          /\ then.spilled = loop[l].spilled /\ then.stale = loop[l].stale /\ then.shared = loop[l].shared
      BY <1>1, <3>1, RaisedFields
    <3> HIDE DEF then
    <3>3. Typed(q, then)
      BY <1>1, <3>2 DEF Typed, Places, Ended, Testing
    <3>4. QED
      BY <3>2, <3>3
  <2>2. CASE o.result.status # "timeout"
    BY <2>2 DEF Then
  <2>3. QED
    BY <2>1, <2>2
<1>5. o.result.status # "timeout" => then = s
  BY DEF Then
<1> HIDE DEF then
<1>6. /\ after.pc = then.pc /\ after.why = then.why /\ after.step = then.step /\ after.todo = then.todo
      /\ after.changed = then.changed /\ after.results = then.results
      /\ after.tested = then.tested /\ after.probed = then.probed /\ after.shared = then.shared
      /\ after.spilled = then.spilled \union altered
      /\ after.stale = (then.stale \ {c}) \union touched
  BY <1>4 DEF Ran, IsLoop, Fields
<1>7. o.result.status # "timeout" /\ ~s.shared => Current(q, after, o.files)
  BY <1>5
<1> HIDE DEF after
<1>8. Typed(q, after)
  BY <1>4, <1>6 DEF Typed
<1>9. ~after.shared => Current(q, after, o.files)
  <2>1. CASE o.result.status = "timeout"
    BY <1>4, <1>6, <2>1 DEF Current, Judged
  <2>2. CASE o.result.status # "timeout"
    BY <1>5, <1>6, <1>7, <2>2
  <2>3. QED
    BY <2>1, <2>2
<1>10. Sound(l, after, o.files)
  BY <1>4, <1>6, <1>8, <1>9 DEF Sound
<1>11. QED
  BY <1>2, <1>3, <1>10, AlterSound

LEMMA OneMore ==
  ASSUME NEW n \in Nat, NEW k \in 1..n, NEW j, j = k \/ (k < n /\ j = k + 1)
  PROVE  j \in 1..n
OBVIOUS

LEMMA Positions ==
  ASSUME NEW S, NEW list \in Seq(S)
  PROVE  \A i \in DOMAIN list : i \in Nat /\ ~(i <= 0)
OBVIOUS

\* The state of a loop that goes on to another place, with nothing more done.
SameStep(l, new) == new.step = loop[l].step
MoreStep(l, new) == loop[l].step < max_steps(asked[l]) /\ new.step = loop[l].step + 1
OpenPlaces == Places \ (Judged \union {"acting"})
GoesOn(l, new) ==
  /\ new.changed = loop[l].changed /\ new.results = loop[l].results /\ new.shared = loop[l].shared
  /\ new.spilled = loop[l].spilled /\ new.stale = loop[l].stale
  /\ new.probed = loop[l].probed \/ new.probed = <<>>
  /\ new.tested = 0 /\ new.pc \in OpenPlaces
  /\ new.pc \in {"learning", "recording", "failed"} => new.why # "commands_did_not_pass"

LEMMA NoneProbed ==
  ASSUME NEW q, WellAsked(q)
  PROVE  Probed(q, <<>>)
BY DEF Probed, WellAsked

\* A loop that has gone through none of its commands knows nothing of them.
LEMMA Untested ==
  ASSUME NEW q, WellAsked(q), NEW s, s.tested = 0, s.pc \notin Judged, NEW tree,
         s.pc \in {"learning", "recording", "failed"} => s.why # "commands_did_not_pass"
  PROVE  Current(q, s, tree)
<1>1. \A i \in DOMAIN required_commands(q) : ~(i <= 0)
  BY RequiredSeq, Positions
<1>2. QED
  BY <1>1 DEF Current

LEMMA PlaceSound ==
  ASSUME LoopsInv, TypeInv, NEW l \in Active, NEW new, GoesOn(l, new), SameStep(l, new) \/ MoreStep(l, new),
         NEW tree
  PROVE  Sound(l, new, tree)
<1>1. Typed(asked[l], loop[l]) /\ max_steps(asked[l]) \in Nat /\ WellAsked(asked[l])
  BY TypeInvOf
<1>2. loop[l].step \in 1..max_steps(asked[l])
  BY <1>1 DEF Typed
<1>3. new.step \in 1..max_steps(asked[l])
  BY <1>1, <1>2, OneMore DEF SameStep, MoreStep
<1>4. Probed(asked[l], new.probed)
  BY <1>1, NoneProbed DEF GoesOn, Typed
<1>5. /\ new.changed \in Seq(Paths) /\ new.spilled \subseteq Paths /\ new.stale \subseteq Commands
      /\ \A r \in new.results : r.status \in Statuses
  BY <1>1 DEF Typed, GoesOn
<1>6. new.pc \in Places /\ new.pc # "acting" /\ new.pc \notin Judged /\ new.tested = 0
  BY DEF GoesOn, OpenPlaces
<1>7. Typed(asked[l], new)
  BY <1>3, <1>4, <1>5, <1>6 DEF Typed
<1>8. Current(asked[l], new, tree)
  BY <1>1, <1>6, Untested DEF GoesOn
<1>9. QED
  BY <1>7, <1>8 DEF Sound, GoesOn

LEMMA RanFields ==
  ASSUME NEW s, IsLoop(s), NEW c, NEW new
  PROVE  LET r == Ran(s, c, new) IN
         /\ r.pc = s.pc /\ r.why = s.why /\ r.tested = s.tested /\ r.results = s.results /\ r.shared = s.shared
BY DEF Ran, IsLoop, Fields

LEMMA PreflightSound ==
  ASSUME LoopsInv, TypeInv, NEW l \in Active, Preflight(l)
  PROVE  TypeInv'
<1> DEFINE plans == [loop[l] EXCEPT !.pc = "planning"]
           stops == [loop[l] EXCEPT !.pc = "learning", !.why = "preflight"]
           setup == Head(asked[l].setup)
<1>1. IsLoop(loop[l]) /\ Typed(asked[l], loop[l]) /\ WellAsked(asked[l])
      /\ loop[l].pc = "preflight" /\ asked' = asked /\ deps \in BOOLEAN
  BY TypeInvOf DEF Preflight, TypeInv
<1>2. loop[l].tested = 0
  BY <1>1 DEF Typed, Testing
<1>3. \/ (Become(l, plans) \/ Become(l, stops)) /\ files' = files /\ deps' = deps
      \/ /\ asked[l].setup # <<>>
         /\ \E o \in Outcomes(asked[l], setup) : Commanded(l, setup, o, plans) \/ Commanded(l, setup, o, stops)
  BY DEF Preflight
<1>4. asked[l].setup # <<>> => setup \in Commands
  BY <1>1 DEF WellAsked
<1> HIDE DEF setup
<1>5. /\ plans.pc = "planning" /\ plans.step = loop[l].step /\ plans.changed = loop[l].changed
      /\ plans.results = loop[l].results /\ plans.tested = 0 /\ plans.shared = loop[l].shared
      /\ plans.spilled = loop[l].spilled /\ plans.stale = loop[l].stale /\ plans.probed = loop[l].probed
      /\ IsLoop(plans)
  BY <1>1, <1>2 DEF IsLoop, Fields
<1>6. /\ stops.pc = "learning" /\ stops.step = loop[l].step /\ stops.changed = loop[l].changed
      /\ stops.results = loop[l].results /\ stops.tested = 0 /\ stops.shared = loop[l].shared
      /\ stops.spilled = loop[l].spilled /\ stops.stale = loop[l].stale /\ stops.probed = loop[l].probed
      /\ stops.why = "preflight" /\ IsLoop(stops)
  BY <1>1, <1>2 DEF IsLoop, Fields
<1> HIDE DEF plans, stops
<1>7. \A tree : Sound(l, plans, tree)
  BY <1>5, PlaceSound DEF GoesOn, SameStep, MoreStep, OpenPlaces, Places, Judged, Testing, Ended
<1>8. \A tree : Sound(l, stops, tree)
  BY <1>6, PlaceSound DEF GoesOn, SameStep, MoreStep, OpenPlaces, Places, Judged, Testing, Ended
<1>9. ASSUME NEW s, s = plans \/ s = stops, asked[l].setup # <<>>,
             NEW o \in Outcomes(asked[l], setup), Commanded(l, setup, o, s)
      PROVE  TypeInv'
  <2>1. /\ IsLoop(s) /\ s.stale = loop[l].stale /\ s.spilled = loop[l].spilled
        /\ Typed(asked[l], s) /\ s.shared = loop[l].shared
    BY <1>5, <1>6, <1>7, <1>8, <1>9 DEF Sound
  <2>2. /\ Ran(s, setup, o.files).tested = 0 /\ Ran(s, setup, o.files).pc \notin Judged
        /\ \/ Ran(s, setup, o.files).pc = "planning"
           \/ Ran(s, setup, o.files).why = "preflight"
    BY <1>5, <1>6, <1>9, <2>1, RanFields DEF Judged
  <2>3. Current(asked[l], Ran(s, setup, o.files), o.files)
    BY <1>1, <2>2, Untested
  <2>4. QED
    BY <1>1, <1>4, <1>9, <2>1, <2>3, CommandSound
<1>10. QED
  BY <1>1, <1>3, <1>7, <1>8, <1>9, SoundStep

LEMMA PlanSound ==
  ASSUME LoopsInv, TypeInv, NEW l \in Active, Plan(l)
  PROVE  TypeInv'
<1> DEFINE planned == [loop[l] EXCEPT !.pc = IF asked[l].dry_run THEN "planned" ELSE "asking"]
<1>1. IsLoop(loop[l]) /\ Typed(asked[l], loop[l]) /\ loop[l].pc = "planning" /\ files' = files /\ asked' = asked
  BY TypeInvOf DEF Plan
<1>2. loop[l].tested = 0
  BY <1>1 DEF Typed, Testing
<1>3. deps' \in BOOLEAN
  BY DEF Plan, TypeInv
<1>4. /\ planned.pc \in {"planned", "asking"} /\ planned.step = loop[l].step /\ planned.changed = loop[l].changed
      /\ planned.results = loop[l].results /\ planned.tested = 0 /\ planned.shared = loop[l].shared
      /\ planned.spilled = loop[l].spilled /\ planned.stale = loop[l].stale /\ planned.probed = loop[l].probed
  BY <1>1, <1>2 DEF IsLoop, Fields
<1>5. Become(l, planned) \/ Raise(l, "provider") \/ Raise(l, "approval")
  BY DEF Plan
<1> HIDE DEF planned
<1>6. Sound(l, planned, files)
  BY <1>2, <1>4, PlaceSound DEF GoesOn, SameStep, MoreStep, OpenPlaces, Places, Judged, Testing, Ended
<1>7. QED
  BY <1>1, <1>3, <1>5, <1>6, SoundStep, RaiseSound

LEMMA NextStepSound ==
  ASSUME LoopsInv, TypeInv, NEW l \in Active, NEW s, IsLoop(s), s.tested = 0, s.step = loop[l].step,
         s.changed = loop[l].changed, s.results = loop[l].results, s.shared = loop[l].shared,
         s.spilled = loop[l].spilled, s.stale = loop[l].stale, s.probed = loop[l].probed \/ s.probed = <<>>
  PROVE  Sound(l, NextStep(s, asked[l]), files)
<1> DEFINE again == [s EXCEPT !.pc = "asking", !.step = @ + 1]
           ends == [s EXCEPT !.pc = "ending"]
<1>1. /\ ends.pc = "ending" /\ ends.step = s.step /\ ends.changed = s.changed
      /\ ends.results = s.results /\ ends.tested = 0 /\ ends.shared = s.shared
      /\ ends.spilled = s.spilled /\ ends.stale = s.stale /\ ends.probed = s.probed
  BY DEF IsLoop, Fields
<1>2. /\ again.pc = "asking" /\ again.step = s.step + 1 /\ again.changed = s.changed
      /\ again.results = s.results /\ again.tested = 0 /\ again.shared = s.shared
      /\ again.spilled = s.spilled /\ again.stale = s.stale /\ again.probed = s.probed
  BY DEF IsLoop, Fields
<1>3. NextStep(s, asked[l]) = IF s.step < max_steps(asked[l]) THEN again ELSE ends
  BY DEF NextStep
<1> HIDE DEF again, ends
<1>4. Sound(l, ends, files)
  BY <1>1, PlaceSound DEF GoesOn, SameStep, MoreStep, OpenPlaces, Places, Judged, Testing, Ended
<1>5. s.step < max_steps(asked[l]) => Sound(l, again, files)
  BY <1>2, PlaceSound DEF GoesOn, SameStep, MoreStep, OpenPlaces, Places, Judged, Testing, Ended
<1>6. QED
  BY <1>3, <1>4, <1>5

LEMMA AskSound ==
  ASSUME LoopsInv, TypeInv, NEW l \in Active, Ask(l)
  PROVE  TypeInv'
<1>1. /\ IsLoop(loop[l]) /\ Typed(asked[l], loop[l]) /\ WellAsked(asked[l])
      /\ loop[l].pc = "asking" /\ files' = files /\ asked' = asked
  BY TypeInvOf DEF Ask
<1>2. loop[l].tested = 0
  BY <1>1 DEF Typed, Testing
<1>3. deps' \in BOOLEAN
  BY DEF Ask, TypeInv
<1>4. ASSUME NEW reply \in asked[l].answers, Become(l, [loop[l] EXCEPT !.pc = "acting", !.todo = reply])
      PROVE  TypeInv'
  <2> DEFINE new == [loop[l] EXCEPT !.pc = "acting", !.todo = reply]
  <2>1. /\ new.pc = "acting" /\ new.step = loop[l].step /\ new.changed = loop[l].changed
        /\ new.results = loop[l].results /\ new.tested = 0 /\ new.shared = loop[l].shared
        /\ new.spilled = loop[l].spilled /\ new.stale = loop[l].stale /\ new.probed = loop[l].probed
        /\ new.todo = reply
    BY <1>1, <1>2 DEF IsLoop, Fields
  <2>2. reply \in Seq(Actions) \ {<<>>}
    BY <1>1 DEF WellAsked
  <2>3. Become(l, new)
    BY <1>4
  <2> HIDE DEF new
  <2>4. Typed(asked[l], new)
    BY <1>1, <2>1, <2>2 DEF Typed, Places, Testing
  <2>5. Sound(l, new, files)
    BY <2>1, <2>4 DEF Sound, Current, Judged
  <2>6. QED
    BY <1>1, <1>3, <2>3, <2>5, SoundStep
<1>5. CASE Become(l, NextStep(loop[l], asked[l]))
  BY <1>1, <1>2, <1>3, <1>5, NextStepSound, SoundStep
<1>6. QED
  BY <1>1, <1>3, <1>4, <1>5, RaiseSound DEF Ask

\* The list that a loop goes through, and what is next in it.
LEMMA NextInList ==
  ASSUME NEW S, NEW list \in Seq(S), NEW s, s.tested \in Nat, missing(list, s) # {}
  PROVE  LET i == Min(missing(list, s)) IN
         /\ i \in DOMAIN list /\ i \in Nat /\ i > s.tested
         /\ \A j \in DOMAIN list : s.tested < j /\ j < i => observed_ok(s.results, list[j])
<1> DEFINE m == missing(list, s)
           i == Min(m)
<1>1. DOMAIN list \in SUBSET Nat
  BY Positions
<1>2. \A j : j \in m <=> j \in DOMAIN list /\ j > s.tested /\ ~observed_ok(s.results, list[j])
  BY DEF missing
<1>3. m \in SUBSET Nat /\ m # {}
  BY <1>1, <1>2
<1> HIDE DEF m
<1>4. i \in m /\ \A j \in m : i <= j
  BY <1>3, MinIsLeast
<1> HIDE DEF i
<1>5. ASSUME NEW j \in DOMAIN list, s.tested < j, j < i
      PROVE  observed_ok(s.results, list[j])
  <2>1. j \in Nat /\ i \in Nat /\ ~(i <= j) /\ j > s.tested
    BY <1>1, <1>2, <1>4, <1>5
  <2>2. j \notin m
    BY <1>4, <2>1
  <2>3. QED
    BY <1>2, <1>5, <2>1, <2>2
<1>6. QED
  BY <1>1, <1>2, <1>4, <1>5 DEF i, m

LEMMA TestSound ==
  ASSUME LoopsInv, TypeInv, NEW l \in Active, Test(l)
  PROVE  TypeInv'
<1> DEFINE q == asked[l]
           s == loop[l]
           req == required_commands(q)
           list == IF s.pc = "retesting" THEN q.tests ELSE req
           then == CASE s.pc = "checking" -> "judging" [] s.pc = "ending" -> "verifying"
                     [] s.pc = "retesting" -> "reverifying"
           i == Min(missing(list, s))
           c == list[i]
           done == [s EXCEPT !.tested = 0, !.pc = then]
           run(o) == [s EXCEPT !.tested = i, !.results = @ \union {o.result}]
<1>1. /\ IsLoop(s) /\ Typed(q, s) /\ WellAsked(q) /\ (~s.shared => Current(q, s, files))
      /\ asked' = asked /\ s.pc \in Testing /\ deps \in BOOLEAN
  BY TypeInvOf DEF Test, Testing, TypeInv
<1>2. req \in Seq(Commands) /\ list \in Seq(Commands) /\ s.tested \in Nat
  BY <1>1, RequiredSeq DEF WellAsked, Typed
<1>3. then \in {"judging", "verifying", "reverifying"}
      /\ (then = "verifying" => s.pc = "ending") /\ (then = "reverifying" => s.pc = "retesting")
  BY <1>1 DEF Testing
<1>4. \/ s.results = {} /\ Become(l, NextStep(s, q)) /\ files' = files /\ deps' = deps
      \/ missing(list, s) = {} /\ Become(l, done) /\ files' = files /\ deps' = deps
      \/ missing(list, s) # {} /\ \E o \in Outcomes(q, c) : Commanded(l, c, o, run(o))
  BY DEF Test
<1>5. CASE s.results = {} /\ Become(l, NextStep(s, q)) /\ files' = files /\ deps' = deps
  <2>1. s.tested = 0
    BY <1>1, <1>2, <1>5 DEF Typed
  <2>2. Sound(l, NextStep(s, q), files)
    BY <1>1, <2>1, NextStepSound
  <2>3. QED
    BY <1>1, <1>5, <2>2, SoundStep
<1>6. CASE missing(list, s) = {} /\ Become(l, done) /\ files' = files /\ deps' = deps
  <2> HIDE DEF then
  <2>1. /\ done.pc = then /\ done.step = s.step /\ done.changed = s.changed /\ done.results = s.results
        /\ done.tested = 0 /\ done.shared = s.shared /\ done.probed = s.probed
        /\ done.spilled = s.spilled /\ done.stale = s.stale
    BY <1>1 DEF IsLoop, Fields
  <2> HIDE DEF done
  <2>2. Typed(q, done)
    BY <1>1, <1>3, <2>1 DEF Typed, Places, Judged, Testing
  <2>3. ASSUME ~s.shared, then \in Judged, NEW j \in DOMAIN req
        PROVE  Shown(q, s, files, req[j])
    <3>1. CASE s.pc = "retesting"
      BY <1>1, <2>3, <3>1 DEF Current, Judged
    <3>2. CASE s.pc = "ending"
      <4>1. list = req /\ j \in Nat
        BY <1>2, <3>2, Positions
      <4>2. CASE j <= s.tested
        BY <1>1, <2>3, <3>2, <4>2 DEF Current
      <4>3. CASE j > s.tested
        BY <1>6, <2>3, <4>1, <4>3 DEF missing, Shown
      <4>4. QED
        BY <1>2, <4>1, <4>2, <4>3
    <3>3. QED
      BY <1>3, <2>3, <3>1, <3>2 DEF Judged
  <2>4. ASSUME ~s.shared, then \in Judged, NEW j \in DOMAIN req
        PROVE  Shown(q, done, files, req[j])
    BY <2>1, <2>3, <2>4 DEF Shown, Fails
  <2>5. ~s.shared => Current(q, done, files)
    BY <1>3, <2>1, <2>4 DEF Current, Judged
  <2>6. Sound(l, done, files)
    BY <2>1, <2>2, <2>5 DEF Sound
  <2>7. QED
    BY <1>1, <1>6, <2>6, SoundStep
<1>7. CASE missing(list, s) # {} /\ \E o \in Outcomes(q, c) : Commanded(l, c, o, run(o))
  <2>1. PICK o \in Outcomes(q, c) : Commanded(l, c, o, run(o))
    BY <1>7
  <2>2. /\ i \in DOMAIN list /\ i \in Nat /\ i > s.tested
        /\ \A j \in DOMAIN list : s.tested < j /\ j < i => observed_ok(s.results, list[j])
    BY <1>2, <1>7, NextInList
  <2>3. c \in Commands
    BY <1>2, <2>2
  <2>4. o.result.status \in Statuses \union {"timeout"}
    BY OutcomeTypes
  <2> HIDE DEF i
  <2>5. /\ IsLoop(run(o)) /\ run(o).pc = s.pc /\ run(o).step = s.step /\ run(o).changed = s.changed
        /\ run(o).shared = s.shared /\ run(o).probed = s.probed /\ run(o).spilled = s.spilled
        /\ run(o).stale = s.stale /\ run(o).tested = i /\ run(o).results = s.results \union {o.result}
        /\ run(o).why = s.why
    BY <1>1 DEF IsLoop, Fields
  <2> HIDE DEF run
  <2> DEFINE after == Ran(run(o), c, o.files)
  <2>6. o.result.status # "timeout" => Typed(q, run(o))
    <3>1. o.result.status # "timeout" => \A x \in run(o).results : x.status \in Statuses
      BY <1>1, <2>4, <2>5 DEF Typed
    <3>2. run(o).results # {}
      BY <2>5
    <3>3. QED
      BY <1>1, <2>2, <2>5, <3>1, <3>2 DEF Typed, Testing
  <2>7. ASSUME o.result.status # "timeout", ~s.shared
        PROVE  Current(q, after, o.files)
    <3>1. /\ Shown(q, after, o.files, c)
          /\ \A d \in Commands : Shown(q, s, files, d) => Shown(q, after, o.files, d)
      BY <2>3, <2>5, <2>7, CommandShows
    <3>2. /\ after.pc = s.pc /\ after.why = s.why /\ after.tested = i
      BY <2>5, RanFields
    <3> HIDE DEF after, c
    <3>3. \A j \in DOMAIN req : req[j] \in Commands
      BY <1>2
    <3>4. ASSUME s.pc \in {"checking", "ending"}, NEW j \in DOMAIN req, j <= i
          PROVE  Shown(q, after, o.files, req[j])
      <4>1. list = req /\ j \in Nat
        BY <1>2, <3>4, Positions
      <4>2. CASE j <= s.tested
        BY <1>1, <2>7, <3>1, <3>3, <3>4, <4>2 DEF Current
      <4>3. CASE s.tested < j /\ j < i
        BY <2>2, <3>1, <3>3, <3>4, <4>1, <4>3 DEF Shown
      <4>4. CASE j = i
        BY <3>1, <4>1, <4>4 DEF c
      <4>5. QED
        BY <1>2, <2>2, <3>4, <4>1, <4>2, <4>3, <4>4
    <3>5. ASSUME s.pc = "retesting", NEW j \in DOMAIN req
          PROVE  Shown(q, after, o.files, req[j])
      BY <1>1, <2>7, <3>1, <3>3, <3>5 DEF Current, Judged
    <3>6. QED
      BY <1>1, <3>2, <3>4, <3>5 DEF Current, Judged, Testing
  <2>8. QED
    BY <1>1, <2>1, <2>3, <2>5, <2>6, <2>7, CommandSound
<1>8. QED
  BY <1>4, <1>5, <1>6, <1>7

LEMMA OneProbeMore ==
  ASSUME NEW q, WellAsked(q), NEW probed, Probed(q, probed), Len(probed) < Len(q.probes),
         NEW r \in Results, r.command = q.probes[Len(probed) + 1]
  PROVE  Probed(q, Append(probed, r))
<1>1. probed \in Seq(Results) /\ Len(probed) \in Nat /\ Len(q.probes) \in Nat
  BY DEF Probed, WellAsked
<1>2. Append(probed, r) \in Seq(Results) /\ Len(Append(probed, r)) = Len(probed) + 1
  BY <1>1
<1>3. ASSUME NEW i \in 1..(Len(probed) + 1)
      PROVE  Append(probed, r)[i].command = q.probes[i]
  <2>1. CASE i = Len(probed) + 1
    BY <1>1, <2>1
  <2>2. CASE i # Len(probed) + 1
    <3>1. i \in 1..Len(probed)
      BY <1>1, <2>2
    <3>2. Append(probed, r)[i] = probed[i]
      BY <1>1, <3>1
    <3>3. QED
      BY <3>1, <3>2 DEF Probed
  <2>3. QED
    BY <2>1, <2>2
<1>4. QED
  BY <1>1, <1>2, <1>3 DEF Probed

LEMMA ProbeSound ==
  ASSUME LoopsInv, TypeInv, NEW l \in Active, Probe(l)
  PROVE  TypeInv'
<1> DEFINE q == asked[l]
           s == loop[l]
           c == q.probes[Len(s.probed) + 1]
           run(o) == [s EXCEPT !.probed = Append(@, o.result)]
<1>1. /\ IsLoop(s) /\ Typed(q, s) /\ WellAsked(q) /\ (~s.shared => Current(q, s, files))
      /\ asked' = asked /\ s.pc \in {"judging", "verifying", "reverifying"} /\ Len(s.probed) < Len(q.probes)
  BY TypeInvOf DEF Probe, probing
<1>2. PICK o \in Outcomes(q, c) : Commanded(l, c, o, run(o))
  BY DEF Probe
<1>3. Probed(q, s.probed) /\ s.tested = 0
  BY <1>1 DEF Typed, Testing
<1>4. c \in Commands /\ c \in Range(q.probes)
  <2>1. /\ Len(s.probed) \in Nat /\ Len(q.probes) \in Nat /\ DOMAIN q.probes = 1..Len(q.probes)
        /\ q.probes \in Seq(Commands)
    BY <1>1, <1>3 DEF Probed, WellAsked
  <2>2. Len(s.probed) + 1 \in DOMAIN q.probes
    BY <1>1, <2>1
  <2>3. QED
    BY <2>1, <2>2 DEF Range
<1>5. /\ o.result.command = c /\ o.result.status \in Statuses \union {"timeout"}
      /\ o.result = [command |-> c, status |-> o.result.status]
  BY OutcomeTypes, OutcomeResult
<1>6. /\ IsLoop(run(o)) /\ run(o).pc = s.pc /\ run(o).step = s.step /\ run(o).changed = s.changed
      /\ run(o).shared = s.shared /\ run(o).probed = Append(s.probed, o.result) /\ run(o).spilled = s.spilled
      /\ run(o).stale = s.stale /\ run(o).tested = s.tested /\ run(o).results = s.results
      /\ run(o).why = s.why
  BY <1>1 DEF IsLoop, Fields
<1> HIDE DEF run
<1>7. ASSUME o.result.status # "timeout"
      PROVE  Typed(q, run(o))
  <2>1. o.result \in Results
    BY <1>4, <1>5, <1>7 DEF Results
  <2>2. Probed(q, run(o).probed)
    BY <1>1, <1>3, <1>5, <1>6, <2>1, OneProbeMore
  <2>3. QED
    BY <1>1, <1>6, <2>2 DEF Typed
<1>8. ASSUME o.result.status # "timeout", ~s.shared
      PROVE  Current(q, Ran(run(o), c, o.files), o.files)
  <2> DEFINE after == Ran(run(o), c, o.files)
  <2>1. \A d \in Commands : Shown(q, s, files, d) => Shown(q, after, o.files, d)
    BY <1>4, <1>6, <1>8, CommandShows
  <2>2. after.pc = s.pc /\ after.why = s.why
    BY <1>6, RanFields
  <2> HIDE DEF after, c
  <2>3. \A j \in DOMAIN required_commands(q) : required_commands(q)[j] \in Commands
    BY <1>1, RequiredSeq
  <2>4. s.pc \in Judged => \A j \in DOMAIN required_commands(q) : Shown(q, s, files, required_commands(q)[j])
    BY <1>1, <1>8 DEF Current
  <2>5. Current(q, after, o.files)
    BY <1>1, <2>1, <2>2, <2>3, <2>4 DEF Current
  <2>6. QED
    BY <2>5 DEF after
<1>9. QED
  BY <1>1, <1>2, <1>4, <1>6, <1>7, <1>8, CommandSound

LEMMA JudgeSound ==
  ASSUME LoopsInv, TypeInv, NEW l \in Active, Judge(l)
  PROVE  TypeInv'
<1> DEFINE u == Unprobed(loop[l])
           ends == [u EXCEPT !.pc = "ending"]
<1>1. IsLoop(loop[l]) /\ Typed(asked[l], loop[l]) /\ loop[l].pc = "judging" /\ files' = files /\ asked' = asked
  BY TypeInvOf DEF Judge
<1>2. loop[l].tested = 0
  BY <1>1 DEF Typed, Testing
<1>3. deps' \in BOOLEAN
  BY DEF Judge, TypeInv
<1>4. /\ IsLoop(u) /\ u.shared = loop[l].shared /\ u.changed = loop[l].changed
      /\ u.spilled = loop[l].spilled /\ u.step = loop[l].step /\ u.results = loop[l].results
      /\ u.tested = 0 /\ u.stale = loop[l].stale /\ u.probed = <<>>
  BY <1>1, <1>2, UnprobedFields
<1>5. Become(l, ends) \/ Become(l, NextStep(u, asked[l]))
  BY DEF Judge
<1> HIDE DEF u
<1>6. /\ ends.pc = "ending" /\ ends.step = loop[l].step /\ ends.changed = loop[l].changed
      /\ ends.results = loop[l].results /\ ends.tested = 0 /\ ends.shared = loop[l].shared
      /\ ends.spilled = loop[l].spilled /\ ends.stale = loop[l].stale /\ ends.probed = <<>>
  BY <1>4 DEF IsLoop, Fields
<1> HIDE DEF ends
<1>7. Sound(l, ends, files)
  BY <1>6, PlaceSound DEF GoesOn, SameStep, OpenPlaces, Places, Judged, Testing, Ended
<1>8. Sound(l, NextStep(u, asked[l]), files)
  BY <1>4, NextStepSound
<1>9. QED
  BY <1>1, <1>3, <1>5, <1>7, <1>8, SoundStep

LEMMA VerifySound ==
  ASSUME LoopsInv, TypeInv, NEW l \in Active, Verify(l)
  PROVE  TypeInv'
<1> DEFINE q == asked[l]
           s == loop[l]
           u == Unprobed(s)
           verdict == verdict_of(q, s)
           retests == [u EXCEPT !.pc = "retesting"]
           refused == [u EXCEPT !.pc = "learning", !.why = verdict]
           empty == [u EXCEPT !.pc = "failed", !.why = "meaningless"]
           passed == [u EXCEPT !.pc = "learning", !.why = "completed"]
<1>1. /\ IsLoop(s) /\ Typed(q, s) /\ WellAsked(q) /\ (~s.shared => Current(q, s, files))
      /\ files' = files /\ asked' = asked /\ s.pc \in {"verifying", "reverifying"} /\ ~probing(q, s)
  BY TypeInvOf DEF Verify
<1>2. s.tested = 0 /\ Probed(q, s.probed) /\ Probed(q, <<>>)
  BY <1>1, NoneProbed DEF Typed, Testing
<1>3. deps' \in BOOLEAN
  BY DEF Verify, TypeInv
<1>4. \/ Become(l, retests) \/ Become(l, refused) \/ Become(l, empty) \/ Become(l, passed)
  BY DEF Verify, Concluded
<1>5. ASSUME ~s.shared, verdict = "commands_did_not_pass"
      PROVE  \E i \in DOMAIN required_commands(q) :
               ~observed_ok(s.results, required_commands(q)[i]) /\ Fails(q, s, files, required_commands(q)[i])
  <2>1. PICK i \in DOMAIN required_commands(q) :
          ~observed_ok(s.results, required_commands(q)[i]) /\ required_commands(q)[i] \notin Range(q.probes)
    BY <1>1, <1>2, <1>5, VerdictNames
  <2>2. Shown(q, s, files, required_commands(q)[i])
    BY <1>1, <1>5 DEF Current, Judged
  <2>3. QED
    BY <2>1, <2>2 DEF Shown
<1>6. /\ IsLoop(u) /\ u.shared = s.shared /\ u.changed = s.changed /\ u.spilled = s.spilled
      /\ u.step = s.step /\ u.results = s.results /\ u.tested = 0 /\ u.stale = s.stale /\ u.probed = <<>>
  BY <1>1, <1>2, UnprobedFields
<1> HIDE DEF verdict, u
<1>7. /\ retests.pc = "retesting" /\ retests.step = s.step /\ retests.changed = s.changed
      /\ retests.results = s.results /\ retests.tested = 0 /\ retests.shared = s.shared
      /\ retests.spilled = s.spilled /\ retests.stale = s.stale /\ retests.probed = <<>>
  BY <1>6 DEF IsLoop, Fields
<1>8. /\ refused.pc = "learning" /\ refused.step = s.step /\ refused.changed = s.changed
      /\ refused.results = s.results /\ refused.tested = 0 /\ refused.shared = s.shared
      /\ refused.spilled = s.spilled /\ refused.stale = s.stale /\ refused.probed = <<>>
      /\ refused.why = verdict
  BY <1>6 DEF IsLoop, Fields
<1>9. /\ empty.pc = "failed" /\ empty.step = s.step /\ empty.changed = s.changed
      /\ empty.results = s.results /\ empty.tested = 0 /\ empty.shared = s.shared
      /\ empty.spilled = s.spilled /\ empty.stale = s.stale /\ empty.probed = <<>>
      /\ empty.why = "meaningless"
  BY <1>6 DEF IsLoop, Fields
<1>10. /\ passed.pc = "learning" /\ passed.step = s.step /\ passed.changed = s.changed
       /\ passed.results = s.results /\ passed.tested = 0 /\ passed.shared = s.shared
       /\ passed.spilled = s.spilled /\ passed.stale = s.stale /\ passed.probed = <<>>
       /\ passed.why = "completed"
  BY <1>6 DEF IsLoop, Fields
<1> HIDE DEF retests, refused, empty, passed
<1>11. Sound(l, retests, files)
  <2>1. Typed(q, retests)
    BY <1>1, <1>2, <1>7 DEF Typed, Places, Testing, Judged
  <2>2. ~s.shared => Current(q, retests, files)
    BY <1>1, <1>7 DEF Current, Judged, Shown, Fails
  <2>3. QED
    BY <1>7, <2>1, <2>2 DEF Sound
<1>12. Sound(l, refused, files)
  <2>1. Typed(q, refused)
    BY <1>1, <1>2, <1>8 DEF Typed, Places, Testing, Judged
  <2>2. ~s.shared => Current(q, refused, files)
    BY <1>5, <1>8 DEF Current, Judged, Fails
  <2>3. QED
    BY <1>8, <2>1, <2>2 DEF Sound
<1>13. Sound(l, empty, files)
  BY <1>9, PlaceSound DEF GoesOn, SameStep, OpenPlaces, Places, Judged, Testing, Ended
<1>14. Sound(l, passed, files)
  BY <1>10, PlaceSound DEF GoesOn, SameStep, OpenPlaces, Places, Judged, Testing, Ended
<1>15. QED
  BY <1>1, <1>3, <1>4, <1>11, <1>12, <1>13, <1>14, SoundStep

LEMMA RecallSound ==
  ASSUME LoopsInv, TypeInv, NEW l \in Active, Recall(l)
  PROVE  TypeInv'
<1> DEFINE new == [loop[l] EXCEPT !.pc = "recording", !.seen = meta]
<1>1. /\ IsLoop(loop[l]) /\ Typed(asked[l], loop[l]) /\ (~loop[l].shared => Current(asked[l], loop[l], files))
      /\ files' = files /\ asked' = asked /\ Become(l, new) /\ loop[l].pc = "learning"
  BY TypeInvOf DEF Recall
<1>2. deps' \in BOOLEAN
  BY DEF Recall, TypeInv
<1>3. /\ new.pc = "recording" /\ new.step = loop[l].step /\ new.changed = loop[l].changed
      /\ new.results = loop[l].results /\ new.tested = loop[l].tested /\ new.shared = loop[l].shared
      /\ new.spilled = loop[l].spilled /\ new.stale = loop[l].stale /\ new.probed = loop[l].probed
      /\ new.why = loop[l].why
  BY <1>1 DEF IsLoop, Fields
<1> HIDE DEF new
<1>4. Typed(asked[l], new)
  BY <1>1, <1>3 DEF Typed, Places, Ended, Testing
<1>5. ~new.shared => Current(asked[l], new, files)
  BY <1>1, <1>3 DEF Current, Judged, Fails
<1>6. QED
  BY <1>1, <1>2, <1>3, <1>4, <1>5, SoundStep DEF Sound

LEMMA RecordSound ==
  ASSUME LoopsInv, TypeInv, NEW l \in Active, Record(l)
  PROVE  TypeInv'
<1> DEFINE new == [loop[l] EXCEPT !.pc = IF loop[l].why = "completed" THEN "completed" ELSE "failed",
                                  !.seen = NoCopy]
<1>1. /\ IsLoop(loop[l]) /\ Typed(asked[l], loop[l]) /\ (~loop[l].shared => Current(asked[l], loop[l], files))
      /\ files' = files /\ asked' = asked /\ Become(l, new) /\ loop[l].pc = "recording"
  BY TypeInvOf DEF Record
<1>2. deps' \in BOOLEAN
  BY DEF Record, TypeInv
<1>3. /\ new.pc \in {"completed", "failed"} /\ new.step = loop[l].step /\ new.changed = loop[l].changed
      /\ new.results = loop[l].results /\ new.tested = loop[l].tested /\ new.shared = loop[l].shared
      /\ new.spilled = loop[l].spilled /\ new.stale = loop[l].stale /\ new.probed = loop[l].probed
      /\ new.why = loop[l].why
  BY <1>1 DEF IsLoop, Fields
<1> HIDE DEF new
<1>4. Typed(asked[l], new)
  BY <1>1, <1>3 DEF Typed, Places, Ended, Testing
<1>5. ~new.shared => Current(asked[l], new, files)
  BY <1>1, <1>3 DEF Current, Judged, Fails
<1>6. QED
  BY <1>1, <1>2, <1>3, <1>4, <1>5, SoundStep DEF Sound

-----------------------------------------------------------------------------
(* The actions of an answer, again *)

LEMMA ActedSound ==
  ASSUME NEW s, IsLoop(s), s.pc = "acting", s.todo \in Seq(Actions) \ {<<>>}
  PROVE  LET acted == Acted(s) IN
         /\ IsLoop(acted) /\ acted.step = s.step /\ acted.changed = s.changed /\ acted.results = s.results
         /\ acted.tested = s.tested /\ acted.why = s.why /\ acted.shared = s.shared
         /\ acted.probed = s.probed /\ acted.spilled = s.spilled /\ acted.stale = s.stale
         /\ \/ acted.pc = "checking"
            \/ acted.pc = "acting" /\ acted.todo \in Seq(Actions) \ {<<>>}
<1> DEFINE acted == Acted(s)
           rest == Tail(s.todo)
           place == IF Len(s.todo) = 1 THEN "checking" ELSE s.pc
<1>1. acted = [s EXCEPT !.todo = rest, !.pc = place]
  BY DEF Acted
<1>2. ASSUME NEW S, NEW list \in Seq(S), list # <<>>, Len(list) # 1
      PROVE  Tail(list) \in Seq(S) \ {<<>>}
  <2>1. Len(Tail(list)) = Len(list) - 1 /\ Len(list) \in Nat /\ Len(list) # 0
    BY <1>2
  <2>2. Len(Tail(list)) # 0
    BY <1>2, <2>1
  <2>3. Tail(list) \in Seq(S)
    BY <1>2
  <2>4. Len(<<>>) = 0
    OBVIOUS
  <2>5. QED
    BY <2>2, <2>3, <2>4
<1>3. place = "checking" \/ (place = "acting" /\ rest \in Seq(Actions) \ {<<>>})
  BY <1>2
<1> HIDE DEF rest, place
<1>4. /\ IsLoop(acted) /\ acted.step = s.step /\ acted.changed = s.changed /\ acted.results = s.results
      /\ acted.tested = s.tested /\ acted.why = s.why /\ acted.shared = s.shared
      /\ acted.probed = s.probed /\ acted.spilled = s.spilled /\ acted.stale = s.stale
      /\ acted.pc = place /\ acted.todo = rest
  BY <1>1 DEF IsLoop, Fields
<1> HIDE DEF acted
<1>5. QED
  BY <1>3, <1>4 DEF acted

\* The state of a loop after an action that noted some paths and added some results.
GoesActing(l, new, paths, results) ==
  /\ new.step = loop[l].step /\ new.changed = loop[l].changed \o paths
  /\ new.results = loop[l].results \union results /\ new.tested = loop[l].tested
  /\ new.shared = loop[l].shared /\ new.probed = loop[l].probed
  /\ new.spilled = loop[l].spilled /\ new.stale = loop[l].stale
  /\ \/ new.pc = "checking"
     \/ new.pc = "acting" /\ new.todo \in Seq(Actions) \ {<<>>}

LEMMA ActingSound ==
  ASSUME LoopsInv, TypeInv, NEW l \in Active, loop[l].pc = "acting", NEW new, NEW paths \in Seq(Paths),
         NEW results, \A r \in results : r.status \in Statuses, GoesActing(l, new, paths, results)
  PROVE  \A tree : Sound(l, new, tree)
<1>1. Typed(asked[l], loop[l]) /\ WellAsked(asked[l])
  BY TypeInvOf
<1>2. loop[l].tested = 0 /\ loop[l].changed \in Seq(Paths)
  BY <1>1 DEF Typed, Testing
<1>3. new.changed \in Seq(Paths)
  BY <1>2 DEF GoesActing
<1>4. \A r \in new.results : r.status \in Statuses
  BY <1>1 DEF Typed, GoesActing
<1>5. Typed(asked[l], new)
  BY <1>1, <1>2, <1>3, <1>4 DEF Typed, Places, Testing, GoesActing
<1>6. \A tree : Current(asked[l], new, tree)
  BY <1>1, <1>2, Untested DEF GoesActing, Judged
<1>7. QED
  BY <1>5, <1>6 DEF Sound, GoesActing

LEMMA NothingNoted ==
  ASSUME TypeInv, NEW l \in Active
  PROVE  <<>> \in Seq(Paths) /\ loop[l].changed \o <<>> = loop[l].changed
<1>1. loop[l].changed \in Seq(Paths)
  BY DEF TypeInv, Typed
<1>2. QED
  BY <1>1

LEMMA DidSound ==
  ASSUME LoopsInv, TypeInv, NEW l \in Active, NEW results, loop[l].pc = "acting",
         Become(l, [Acted(loop[l]) EXCEPT !.results = @ \union results]),
         \A r \in results : r.status \in Statuses,
         files' = files, asked' = asked, deps' \in BOOLEAN
  PROVE  TypeInv'
<1> DEFINE acted == Acted(loop[l])
           new == [acted EXCEPT !.results = @ \union results]
<1>1. IsLoop(loop[l]) /\ Typed(asked[l], loop[l]) /\ Become(l, new)
  BY TypeInvOf
<1>2. loop[l].todo \in Seq(Actions) \ {<<>>}
  BY <1>1 DEF Typed
<1>3. /\ IsLoop(acted) /\ acted.step = loop[l].step /\ acted.changed = loop[l].changed
      /\ acted.results = loop[l].results /\ acted.tested = loop[l].tested /\ acted.shared = loop[l].shared
      /\ acted.probed = loop[l].probed /\ acted.spilled = loop[l].spilled /\ acted.stale = loop[l].stale
      /\ \/ acted.pc = "checking"
         \/ acted.pc = "acting" /\ acted.todo \in Seq(Actions) \ {<<>>}
  BY <1>1, <1>2, ActedSound
<1> HIDE DEF acted
<1>4. /\ new.pc = acted.pc /\ new.todo = acted.todo /\ new.step = loop[l].step
      /\ new.changed = loop[l].changed /\ new.results = loop[l].results \union results
      /\ new.tested = loop[l].tested /\ new.shared = loop[l].shared
      /\ new.probed = loop[l].probed /\ new.spilled = loop[l].spilled /\ new.stale = loop[l].stale
  BY <1>3 DEF IsLoop, Fields
<1> HIDE DEF new
<1>5. GoesActing(l, new, <<>>, results)
  BY <1>3, <1>4, NothingNoted DEF GoesActing
<1>6. Sound(l, new, files)
  BY <1>5, NothingNoted, ActingSound
<1>7. QED
  BY <1>1, <1>6, SoundStep

LEMMA LookKeeps ==
  ASSUME LoopsInv, TypeInv, NEW l \in Active, loop[l].pc = "acting", NEW new,
         GoesActing(l, new, <<>>, {})
  PROVE  Sound(l, new, files)
<1> DEFINE nothing == <<>>
           none == {}
<1>1. nothing \in Seq(Paths) /\ \A r \in none : r.status \in Statuses
  OBVIOUS
<1>2. GoesActing(l, new, nothing, none)
  OBVIOUS
<1> HIDE DEF nothing, none
<1>3. QED
  BY <1>1, <1>2, ActingSound

LEMMA LookSound ==
  ASSUME LoopsInv, TypeInv, NEW l \in Active, NEW new, loop[l].pc = "acting",
         new = Acted(loop[l]) \/ new = [loop[l] EXCEPT !.todo = <<>>, !.pc = "checking"],
         Become(l, new), files' = files, asked' = asked, deps' \in BOOLEAN
  PROVE  TypeInv'
<1>1. IsLoop(loop[l]) /\ Typed(asked[l], loop[l])
  BY TypeInvOf
<1>2. loop[l].todo \in Seq(Actions) \ {<<>>}
  BY <1>1 DEF Typed
<1>3. /\ new.step = loop[l].step /\ new.changed = loop[l].changed
      /\ new.results = loop[l].results /\ new.tested = loop[l].tested /\ new.shared = loop[l].shared
      /\ new.probed = loop[l].probed /\ new.spilled = loop[l].spilled /\ new.stale = loop[l].stale
      /\ \/ new.pc = "checking"
         \/ new.pc = "acting" /\ new.todo \in Seq(Actions) \ {<<>>}
  <2>1. CASE new = Acted(loop[l])
    BY <1>1, <1>2, <2>1, ActedSound
  <2>2. CASE new = [loop[l] EXCEPT !.todo = <<>>, !.pc = "checking"]
    BY <1>1, <2>2 DEF IsLoop, Fields
  <2>3. QED
    BY <2>1, <2>2
<1>4. GoesActing(l, new, <<>>, {})
  BY <1>3, NothingNoted DEF GoesActing
<1>5. Sound(l, new, files)
  BY <1>4, LookKeeps
<1>6. QED
  BY <1>5, SoundStep

LEMMA EditSound ==
  ASSUME LoopsInv, TypeInv, NEW l \in Active, NEW new \in [Paths -> Contents], NEW paths \in Seq(Paths),
         loop[l].pc = "acting", Edit(l, new, paths), asked' = asked
  PROVE  TypeInv'
<1> DEFINE acted == Acted(loop[l])
           mine == [acted EXCEPT !.changed = @ \o paths]
<1>1. IsLoop(loop[l]) /\ Typed(asked[l], loop[l])
  BY TypeInvOf
<1>2. Alter(l, new, mine) /\ deps' \in BOOLEAN
  BY DEF Edit, TypeInv
<1>3. loop[l].todo \in Seq(Actions) \ {<<>>}
  BY <1>1 DEF Typed
<1>4. /\ IsLoop(acted) /\ acted.step = loop[l].step /\ acted.changed = loop[l].changed
      /\ acted.results = loop[l].results /\ acted.tested = loop[l].tested /\ acted.shared = loop[l].shared
      /\ acted.probed = loop[l].probed /\ acted.spilled = loop[l].spilled /\ acted.stale = loop[l].stale
      /\ \/ acted.pc = "checking"
         \/ acted.pc = "acting" /\ acted.todo \in Seq(Actions) \ {<<>>}
  BY <1>1, <1>3, ActedSound
<1> HIDE DEF acted
<1>5. /\ mine.pc = acted.pc /\ mine.todo = acted.todo /\ mine.step = loop[l].step
      /\ mine.changed = loop[l].changed \o paths /\ mine.results = loop[l].results
      /\ mine.tested = loop[l].tested /\ mine.shared = loop[l].shared
      /\ mine.probed = loop[l].probed /\ mine.spilled = loop[l].spilled /\ mine.stale = loop[l].stale
  BY <1>4 DEF IsLoop, Fields
<1> HIDE DEF mine
<1>6. GoesActing(l, mine, paths, {})
  BY <1>4, <1>5 DEF GoesActing
<1>7. Sound(l, mine, new)
  BY <1>6, ActingSound
<1>8. QED
  BY <1>2, <1>7, AlterSound

LEMMA CommandOf ==
  ASSUME NEW q, WellAsked(q), NEW a \in Actions, command_of(q, a) # None
  PROVE  command_of(q, a) \in Commands
<1>1. a.command \in Commands \union {None}
  BY DEF Actions
<1>2. \A list \in Seq(Commands) : list # <<>> => Head(list) \in Commands
  OBVIOUS
<1>3. runner_default(q, a.type) \in Commands \union {None}
  BY <1>2, WorkspaceAssumption DEF runner_default, WellAsked
<1>4. QED
  BY <1>1, <1>3 DEF command_of

LEMMA RunSound ==
  ASSUME LoopsInv, TypeInv, NEW l \in Active, NEW a \in Actions, loop[l].pc = "acting", Run(l, a), asked' = asked
  PROVE  TypeInv'
<1> DEFINE acted == Acted(loop[l])
           c == command_of(asked[l], a)
           run(o) == [acted EXCEPT !.results = @ \union {o.result}]
<1>1. IsLoop(loop[l]) /\ Typed(asked[l], loop[l]) /\ WellAsked(asked[l])
  BY TypeInvOf
<1>2. PICK o \in Outcomes(asked[l], c) : Commanded(l, c, o, run(o))
  BY DEF Run
<1>3. c \in Commands
  BY <1>1, CommandOf DEF Run
<1>4. o.result.status \in Statuses \union {"timeout"}
  BY OutcomeTypes
<1>5. loop[l].todo \in Seq(Actions) \ {<<>>} /\ loop[l].tested = 0
  BY <1>1 DEF Typed, Testing
<1>6. /\ IsLoop(acted) /\ acted.step = loop[l].step /\ acted.changed = loop[l].changed
      /\ acted.results = loop[l].results /\ acted.tested = loop[l].tested /\ acted.shared = loop[l].shared
      /\ acted.probed = loop[l].probed /\ acted.spilled = loop[l].spilled /\ acted.stale = loop[l].stale
      /\ \/ acted.pc = "checking"
         \/ acted.pc = "acting" /\ acted.todo \in Seq(Actions) \ {<<>>}
  BY <1>1, <1>5, ActedSound
<1> HIDE DEF acted, c
<1>7. /\ IsLoop(run(o)) /\ run(o).pc = acted.pc /\ run(o).todo = acted.todo /\ run(o).step = loop[l].step
      /\ run(o).changed = loop[l].changed /\ run(o).results = loop[l].results \union {o.result}
      /\ run(o).tested = loop[l].tested /\ run(o).shared = loop[l].shared
      /\ run(o).probed = loop[l].probed /\ run(o).spilled = loop[l].spilled /\ run(o).stale = loop[l].stale
  BY <1>6 DEF IsLoop, Fields
<1> HIDE DEF run
<1>8. GoesActing(l, run(o), <<>>, {o.result})
  BY <1>6, <1>7, NothingNoted DEF GoesActing
<1>9. o.result.status # "timeout" => \A tree : Sound(l, run(o), tree)
  BY <1>4, <1>8, NothingNoted, ActingSound
<1>10. Current(asked[l], Ran(run(o), c, o.files), o.files)
  <2>1. Ran(run(o), c, o.files).pc \in {"checking", "acting"} /\ Ran(run(o), c, o.files).tested = 0
    BY <1>5, <1>6, <1>7, RanFields
  <2>2. QED
    BY <1>1, <2>1, Untested DEF Judged
<1>11. QED
  BY <1>2, <1>3, <1>7, <1>9, <1>10, CommandSound DEF Sound

LEMMA ActSound ==
  ASSUME LoopsInv, TypeInv, NEW l \in Active, Act(l)
  PROVE  TypeInv'
<1> DEFINE a == Head(loop[l].todo)
<1>1. loop[l].pc = "acting" /\ asked' = asked /\ deps \in BOOLEAN
  BY DEF Act, TypeInv
<1>2. \/ Block(l, a) \/ Write(l, a) \/ Patch(l, a) \/ Delete(l, a) \/ Move(l, a)
      \/ Stumble(l, a) \/ Look(l, a) \/ Finish(l, a) \/ Run(l, a)
  BY DEF Act
<1>3. a \in Actions
  BY <1>1, NextAction
<1> HIDE DEF a
<1>4. CASE Block(l, a)
  <2>1. PICK c : /\ Become(l, [Acted(loop[l]) EXCEPT !.results = @ \union {[command |-> c, status |-> "blocked"]}])
                 /\ UNCHANGED <<files, deps>>
    BY <1>4 DEF Block
  <2> DEFINE results == {[command |-> c, status |-> "blocked"]}
  <2>2. \A r \in results : r.status \in Statuses
    BY DEF Statuses
  <2>3. Become(l, [Acted(loop[l]) EXCEPT !.results = @ \union results])
    BY <2>1
  <2>4. files' = files /\ deps' \in BOOLEAN
    BY <1>1, <2>1
  <2> HIDE DEF results
  <2>5. QED
    BY <1>1, <2>2, <2>3, <2>4, DidSound
<1>5. CASE Look(l, a) \/ Finish(l, a)
  BY <1>1, <1>5, LookSound DEF Look, Finish
<1>6. CASE Stumble(l, a)
  BY <1>1, <1>6, RaiseSound DEF Stumble
<1>7. CASE Run(l, a)
  BY <1>1, <1>3, <1>7, RunSound
<1>8. CASE Write(l, a) \/ Patch(l, a) \/ Delete(l, a) \/ Move(l, a)
  <2>1. PICK new \in [Paths -> Contents], paths \in Seq(Paths) :
          Edit(l, new, paths) /\ \A p \in Paths \ Range(paths) : new[p] = files[p]
    BY <1>3, <1>8, EditFiles
  <2>2. QED
    BY <1>1, <2>1, EditSound
<1>9. QED
  BY <1>2, <1>4, <1>5, <1>6, <1>7, <1>8

LEMMA NewLoopSound ==
  ASSUME NEW q, WellAsked(q), NEW tree
  PROVE  Typed(q, NewLoop) /\ Current(q, NewLoop, tree) /\ NewLoop.shared = FALSE
<1>1. max_steps(q) \in 1..StepLimit
  BY MaxStepsRange DEF WellAsked
<1>2. 1 \in 1..max_steps(q)
  BY <1>1 DEF StepLimit
<1>3. /\ NewLoop.pc = "preflight" /\ NewLoop.step = 1 /\ NewLoop.changed = <<>> /\ NewLoop.results = {}
      /\ NewLoop.tested = 0 /\ NewLoop.shared = FALSE /\ NewLoop.probed = <<>>
      /\ NewLoop.spilled = {} /\ NewLoop.stale = {}
  BY DEF NewLoop
<1>4. Probed(q, <<>>)
  BY NoneProbed
<1>5. <<>> \in Seq(Paths)
  OBVIOUS
<1>6. QED
  BY <1>2, <1>3, <1>4, <1>5 DEF Typed, Current, Places, Judged, Testing

LEMMA RetrySound ==
  ASSUME LoopsInv, TypeInv, NEW l \in Active, Retry(l)
  PROVE  TypeInv'
<1>1. WellAsked(asked[l]) /\ l \in Loops /\ Active \subseteq Loops
  BY TypeInvOf DEF LoopsInv
<1>2. /\ asked' = asked /\ files' = files /\ deps' = deps
      /\ \A m \in Active : loop'[m] = IF m = l THEN NewLoop ELSE loop[m]
  BY <1>1 DEF Retry, Become, LoopsInv
<1>3. ASSUME NEW m \in Active
      PROVE  /\ WellAsked(asked[m]) /\ Typed(asked[m], loop'[m])
             /\ ~loop'[m].shared => Current(asked[m], loop'[m], files')
  BY <1>1, <1>2, NewLoopSound DEF TypeInv
<1>4. files' \in [Paths -> Contents] /\ deps' \in BOOLEAN
  BY <1>2 DEF TypeInv
<1>5. QED
  BY <1>2, <1>3, <1>4, NextTypeInv

LEMMA InitTyped ==
  ASSUME Init
  PROVE  TypeInv
<1>1. PICK s \in Scenarios :
        /\ asked = s.asked /\ files = s.files /\ deps = s.deps
        /\ loop = [l \in Loops |-> [NewLoop EXCEPT !.pc = IF l \in DOMAIN s.asked THEN @ ELSE "absent"]]
  BY DEF Init
<1>2. /\ Active \subseteq Loops /\ files \in [Paths -> Contents] /\ deps \in BOOLEAN
      /\ \A l \in Active : WellAsked(asked[l])
  BY <1>1, WorkspaceAssumption DEF Active, WellAsked, Contents
<1>3. \A l \in Active : loop[l] = NewLoop
  <2>1. ASSUME NEW l \in Active
        PROVE  loop[l] = NewLoop
    <3>1. loop[l] = [NewLoop EXCEPT !.pc = NewLoop.pc]
      BY <1>1, <1>2 DEF Active
    <3>2. [NewLoop EXCEPT !.pc = NewLoop.pc] = NewLoop
      BY DEF NewLoop
    <3>3. QED
      BY <3>1, <3>2
  <2>2. QED
    BY <2>1
<1>4. QED
  BY <1>2, <1>3, NewLoopSound DEF TypeInv

LEMMA NextTyped ==
  ASSUME Inv, TypeInv, [Next]_vars
  PROVE  TypeInv'
<1>1. LoopsInv
  BY DEF Inv
<1>2. CASE UNCHANGED <<asked, files, deps, loop>>
  BY <1>2 DEF TypeInv, Active
<1>3. CASE ScanReads \/ ScanWrites \/ UNCHANGED vars
  BY <1>2, <1>3 DEF ScanReads, ScanWrites, vars
<1>4. ASSUME NEW l \in Active, LoopStep(l) \/ Retry(l)
      PROVE  TypeInv'
  BY <1>1, <1>4, PreflightSound, PlanSound, AskSound, ActSound, TestSound, ProbeSound, JudgeSound, VerifySound,
     RecallSound, RecordSound, RetrySound DEF LoopStep
<1>5. QED
  BY <1>3, <1>4 DEF Next

LEMMA Typing == Spec => [](Inv /\ TypeInv)
<1>1. Init => Inv /\ TypeInv
  BY InitInv, InitTyped
<1>2. Inv /\ TypeInv /\ [Next]_vars => (Inv /\ TypeInv)'
  BY NextInv, NextTyped
<1>3. QED
  BY <1>1, <1>2, PTL DEF Spec

-----------------------------------------------------------------------------
(* The theorems *)

\* A completed run that nobody else's edits disturbed leaves the files that its actions
\* altered as its request wants them, whatever its commands alter besides and however many
\* loops, actions and retries there are (dispatch_actions, verify_workspace_execution).
THEOREM CompletedRunsAreAccepted == Spec => []CompletedTreeAccepted
<1>1. ASSUME Inv
      PROVE  CompletedTreeAccepted
  <2>1. SUFFICES ASSUME NEW l \in Active, loop[l].pc = "completed", ~loop[l].shared
                 PROVE  Accepted(l)
    BY DEF CompletedTreeAccepted, Accepted
  <2>2. LoopInv(l)
    BY <1>1 DEF Inv, LoopsInv
  <2>3. loop[l].why = "completed" /\ loop[l].pc \in Closing
    BY <2>1, <2>2 DEF LoopInv, Closing
  <2>4. QED
    BY <2>1, <2>2, <2>3 DEF LoopInv
<1>2. QED
  BY <1>1, Typing, PTL

\* The readiness that the engine reads is always that of the contract and the learning
\* beside it, whichever writers overlap (compute_workspace_readiness).
THEOREM ReadinessIsOfItsRow == Spec => []ReadinessMatchesMetadata
<1>1. Inv => ReadinessMatchesMetadata
  BY DEF Inv, MetaInv, Read, IsMeta, ReadinessMatchesMetadata
<1>2. QED
  BY <1>1, Typing, PTL

\* Learning counts each outcome at most once, and all of them unless a writer wrote back a
\* copy out of date (record_success, record_failure, scan_workspace).
THEOREM LearningIsAccounted == Spec => []LearningAccounts
<1>1. Inv => LearningAccounts
  BY DEF Inv, MetaInv, Read, Counted, LearningAccounts
<1>2. QED
  BY <1>1, Typing, PTL

\* Every variable keeps its type, and no run asks the model in more steps than its request
\* allows, whatever it answers and however often the run is retried (execute_loop).
THEOREM LoopsKeepTheirTypes == Spec => []TypeOK
<1>1. ASSUME Inv, TypeInv
      PROVE  TypeOK
  <2>1. meta.readiness \in Modes /\ meta.learning \in [{"success", "failure"} -> Nat]
    BY <1>1 DEF Inv, MetaInv, Read, IsMeta, readiness, Modes
  <2>2. ASSUME NEW l \in Active
        PROVE  /\ loop[l].pc \in Ended \union {"preflight", "planning", "asking", "acting", "checking",
                                               "judging", "ending", "verifying", "retesting",
                                               "reverifying", "learning", "recording"}
               /\ loop[l].step \in 1..max_steps(asked[l])
               /\ loop[l].changed \in Seq(Paths) /\ loop[l].spilled \subseteq Paths
               /\ loop[l].stale \subseteq Commands
               /\ Len(loop[l].probed) <= Len(asked[l].probes)
               /\ \A r \in loop[l].results : r.status \in {"ok", "failed", "blocked"}
    <3>1. Typed(asked[l], loop[l])
      BY <1>1 DEF TypeInv
    <3>2. loop[l].pc \in Places
      BY <3>1 DEF Typed
    <3>3. QED
      BY <3>1, <3>2 DEF Typed, Probed, Places, Ended, Testing, Judged, Statuses
  <2>3. QED
    BY <1>1, <2>1, <2>2 DEF TypeInv, TypeOK, Contents
<1>2. QED
  BY <1>1, Typing, PTL

\* A run is failed for its required commands only when one without a success on record may
\* not run, fails on the files the run leaves, or was not run again after a command altered
\* files it needs; so for any files that commands alter, at any time, unless others edit the
\* files meanwhile (ensure_required_verification_commands_run).
THEOREM FailuresAreCurrent == Spec => []FailureIsCurrent
<1>1. ASSUME TypeInv
      PROVE  FailureIsCurrent
  <2>1. SUFFICES ASSUME NEW l \in Active, loop[l].pc = "failed", loop[l].why = "commands_did_not_pass",
                        ~loop[l].shared
                 PROVE  \E c \in Range(required_commands(asked[l])) :
                          ~observed_ok(loop[l].results, c) /\ Fails(asked[l], loop[l], files, c)
    BY DEF FailureIsCurrent, Fails
  <2>2. PICK i \in DOMAIN required_commands(asked[l]) :
          /\ ~observed_ok(loop[l].results, required_commands(asked[l])[i])
          /\ Fails(asked[l], loop[l], files, required_commands(asked[l])[i])
    BY <1>1, <2>1 DEF TypeInv, Current
  <2>3. QED
    BY <2>2 DEF Range
<1>2. QED
  BY <1>1, Typing, PTL
=============================================================================
