--------------------------- MODULE WorkspaceLoop ---------------------------
(***************************************************************************)
(* Executing a task in a workspace: WorkspaceExecutionCoordinator and the  *)
(* services it drives.  A loop checks the environment, plans, and then     *)
(* asks a model, at most max_steps times, for actions on the files, which  *)
(* it applies one by one and verifies after each answer.  It ends with a   *)
(* report, or with an exception.                                           *)
(*                                                                         *)
(* Loops of several tasks share one workspace: its files, and its metadata *)
(* row, which every writer reads whole and writes back whole.              *)
(***************************************************************************)
EXTENDS Integers, Sequences, FiniteSets, FiniteSetsExt, SequencesExt, Functions

CONSTANTS
  Loops,       \* the tasks whose loops run in the workspace
  Paths,       \* files of the workspace
  Commands,    \* shell commands
  DefaultTest, \* the test command of a runner that names none (pytest -q)
  Needs,       \* files whose text must be right for a command to succeed
  Edits,       \* files that a command may create, change or delete: a formatter, an installer
  Occurs,    \* <<a, b>>: the text of command a occurs in the text of command b
  Slow,        \* commands that may run past timeout_seconds
  Inspected,   \* how many of the noted changes are read for secrets and behaviours (50)
  Contracts,   \* contracts a scan may find, as the facets they declare
  Scenarios    \* the requests, the workspace they start from, and the bounds on retries and scans

Absent == "absent"     \* there is no file
Right  == "right"      \* text that the commands accept and that shows the behaviours asked for
Wrong  == "wrong"      \* any other text
Secret == "secret"     \* right text with a secret marker in it
Texts  == {Right, Wrong, Secret}

None   == "none"       \* nothing is named
StepLimit == 8         \* max_steps is cut to 1..8

\* What an answer may ask: an edit names the files it is about, and the text.
Actions ==
  {a \in [type : STRING, path : Paths \union {None}, to : Paths \union {None}, text : Texts \union {None},
          before : Texts \union {None}, command : Commands \union {None}] :
     /\ a.type \in {"write_file", "patch_file", "delete_file", "move_file"} => a.path \in Paths
     /\ a.type \in {"write_file", "patch_file"} => a.text \in Texts
     /\ a.type = "move_file" => a.to \in Paths}

ASSUME WorkspaceAssumption ==
  /\ IsFiniteSet(Paths) /\ IsFiniteSet(Commands)
  /\ Needs \in [Commands -> SUBSET Paths] /\ Edits \in [Commands -> SUBSET Paths]
  /\ Inspected \in Nat
  /\ DefaultTest \in Commands /\ Occurs \subseteq Commands \X Commands /\ Slow \subseteq Commands
  /\ \A s \in Scenarios :
       /\ DOMAIN s.asked \subseteq Loops
       /\ \A l \in DOMAIN s.asked :
            LET q == s.asked[l] IN
            /\ q.max_changed \in Nat /\ q.max_steps \in Int
            /\ q.tests \in Seq(Commands) /\ q.must_pass \in Seq(Commands)
            /\ q.setup \in Seq(Commands) /\ q.probes \in Seq(Commands)
            /\ q.answers \subseteq Seq(Actions) \ {<<>>}
       /\ s.deps \in BOOLEAN /\ s.files \in [Paths -> Texts \union {Absent}]

VARIABLES
  asked,     \* the request of each loop, and the lists of actions its model may answer
  files,     \* the text of each file
  deps,      \* whether the dependency artefacts (node_modules, .venv) exist
  meta,      \* the metadata of the workspace row: contract, learning and readiness
  loop,      \* the state of each loop
  retries,   \* bound: retries of failed runs still to come
  scan,      \* the metadata an operator's scan has read and not written back yet
  scans,     \* bound: scans still to come
  recorded,  \* history: learning records written
  overlapped \* history: whether a writer of the metadata wrote back a copy out of date

vars == <<asked, files, deps, meta, loop, retries, scan, scans, recorded, overlapped>>

NoCopy == [contract |-> "none"]

-----------------------------------------------------------------------------
(* The policy of a request: a profile, a policy pack, the runbook and the contract *)

Readers   == {"read_file", "search_code", "run_command", "run_test", "complete_work", "finish"}
ProfileActions ==
  [strict   |-> Readers \union {"write_file", "patch_file"},
   balanced |-> Readers \union {"write_file", "patch_file", "move_file", "run_lint"},
   fulldev  |-> Readers \union {"write_file", "patch_file", "move_file", "delete_file",
                                "run_lint", "install_deps"}]
Profiles == DOMAIN ProfileActions

\* A pack's list of actions replaces the profile's, the contract's replaces both; a
\* pack chooses the profile only when the request names none that exists.
base_profile(q) ==
  CASE q.profile \in Profiles -> q.profile
    [] q.profile \notin Profiles /\ q.pack.profile \in Profiles -> q.pack.profile
    [] OTHER -> "balanced"

allowed_actions(q) ==
  LET chosen == IF q.contract_actions # {} THEN q.contract_actions
                ELSE IF q.pack.actions # {} THEN q.pack.actions
                ELSE ProfileActions[base_profile(q)]
  IN  chosen \ q.denied_actions

\* The runbook's commands (setup, test, probe, ...) join the pack's or the profile's.
allow_commands(q) ==
  (IF q.pack.commands # {} THEN q.pack.commands ELSE q.profile_commands)
    \union q.runbook_commands \union Range(q.setup \o q.tests \o q.probes)

command_allowed(q, c) == c \in allow_commands(q) \ q.blocked_commands

\* check_action_allowed: what an action names is looked at, and a move's source.
path_allowed(q, p) ==
  /\ p \notin q.forbidden /\ p \notin q.approval_paths
  /\ q.allowed_paths = {} \/ p \in q.allowed_paths

action_allowed(q, a) ==
  /\ a.type \in allowed_actions(q)
  /\ a.path # None => path_allowed(q, a.path)
  /\ a.command # None => command_allowed(q, a.command)

-----------------------------------------------------------------------------
(* Commands and their results *)

Exists(p) == files[p] # Absent
Succeeds(tree, c) == \A p \in Needs[c] : tree[p] \in {Right, Secret}

\* run_workspace_command, any command of a shell in the workspace: it may leave any text in
\* the files it edits, whatever its status, and judges the files as it finds or as it leaves
\* them; a setup command also installs the artefacts.
Leaves(c) ==
  {new \in [Paths -> Texts \union {Absent}] : \A p \in Paths \ Edits[c] : new[p] = files[p]}
Outcomes(q, c) ==
  IF command_allowed(q, c)
  THEN {o \in [result : [command : {c}, status : {"ok", "failed", "timeout"}],
               files : Leaves(c), deps : BOOLEAN] :
          /\ o.result.status = "ok" => Succeeds(files, c) \/ Succeeds(o.files, c)
          /\ o.result.status = "failed" => ~Succeeds(files, c) \/ ~Succeeds(o.files, c)
          /\ o.result.status = "timeout" => c \in Slow
          /\ o.deps # deps => c \in Range(q.setup)
          /\ c \in Range(q.setup) /\ o.result.status = "ok" => o.deps}
  ELSE {[result |-> [command |-> c, status |-> "blocked"], files |-> files, deps |-> deps]}

\* workspace_commands_match: either text occurs in the other.
match(a, b) == a = b \/ <<a, b>> \in Occurs \/ <<b, a>> \in Occurs
observed_ok(results, c) == \E r \in results : r.status = "ok" /\ match(c, r.command)

\* The commands of a list, from where it has been gone through, that no earlier success
\* stands for.
missing_TriedOnce(list, s) ==
  {i \in DOMAIN list : i > s.tested /\ ~\E r \in s.results : match(list[i], r.command)}
missing(list, s) ==
  {i \in DOMAIN list : i > s.tested /\ ~observed_ok(s.results, list[i])}

-----------------------------------------------------------------------------
(* Verification *)

Ok == "ok"

\* The probes ran before, until one failed; their results are not kept.
behavioral_probes(q, results, probed) ==
  IF \E r \in probed : r.status # "ok" THEN "probe_failed"
  ELSE IF \E c \in q.must_observe : [command |-> c, status |-> "ok"] \notin results \union probed
  THEN "output_not_observed" ELSE Ok

\* The contract's commands, or else the first of the runner's tests.
required_commands(q) == IF q.must_pass # <<>> THEN q.must_pass ELSE IF q.tests = <<>> THEN <<>> ELSE <<Head(q.tests)>>

mechanical_gates(q, results) ==
  IF \A c \in Range(required_commands(q)) : observed_ok(results, c)
  THEN Ok ELSE "commands_did_not_pass"

\* changed is the list of the changes noted, in their order; only the first are read.
inspected(changed) == {changed[i] : i \in DOMAIN changed \intersect 1..Inspected}

diff_risk(q, changed) ==
  IF Range(changed) \intersect q.forbidden # {} THEN "forbidden_paths"
  ELSE IF q.max_changed > 0 /\ Cardinality(Range(changed)) > q.max_changed THEN "too_many_files" ELSE Ok

acceptance_criteria(q, changed) ==
  CASE ~(q.must_modify \subseteq Range(changed)) -> "not_modified"
    [] q.must_not_modify \intersect Range(changed) # {} -> "disallowed_paths"
    [] q.behavior /\ ~\E p \in inspected(changed) : files[p] \in {Right, Secret} -> "behavior_not_found"
    [] \E p \in q.must_create : ~Exists(p) -> "not_created"
    [] OTHER -> Ok

secret_safety(changed) ==
  IF \E p \in inspected(changed) : files[p] = Secret THEN "secret_material" ELSE Ok

\* The first gate that fails gives the reason.
verify_workspace_execution(q, changed, results, probed) ==
  LET gates == <<behavioral_probes(q, results, probed), mechanical_gates(q, results \union probed),
                 diff_risk(q, changed), acceptance_criteria(q, changed), secret_safety(changed),
                 IF changed = <<>> /\ results \union probed = {} THEN "no_changes" ELSE Ok>>
      failed == {i \in DOMAIN gates : gates[i] # Ok}
  IN  IF failed = {} THEN Ok ELSE gates[Min(failed)]

\* The gate on a change that means something: for the children of a task that chose a
\* candidate, one of its files.
meaningful_change(q, changed) ==
  CASE q.parent = "none" -> changed # <<>>
    [] q.parent = "no_candidate" -> TRUE
    [] q.parent = "candidate" ->
         changed # <<>> /\ (q.targets = {} \/ Range(changed) \intersect q.targets # {})

-----------------------------------------------------------------------------
(* The metadata of the workspace *)

\* The facets a contract may declare, by the points they give.
Fives    == {"env", "files", "stack"}
Tens     == {"schema", "pack", "runner", "binaries", "capabilities", "paths"}
Fifteens == {"commands", "acceptance"}

\* compute_workspace_readiness: a contract is the set of the facets it declares.
learned_points(learning) ==
  (IF learning.success >= 3 THEN 10 ELSE IF learning.success >= 1 THEN 5 ELSE 0)
    - (IF learning.failure >= 5 THEN 15 ELSE IF learning.failure >= 1 THEN 5 ELSE 0)
declared_points(contract) ==
  5 * Cardinality(contract \intersect Fives) + 10 * Cardinality(contract \intersect Tens)
    + 15 * Cardinality(contract \intersect Fifteens)
score(contract, learning) ==
  Max({0, Min({100, declared_points(contract) + learned_points(learning)})})
readiness(contract, learning) ==
  LET s == score(contract, learning)
  IN  IF s >= 85 THEN "unattended" ELSE IF s >= 65 THEN "supervised"
      ELSE IF s >= 40 THEN "guided" ELSE "observe"

scanned_Unlearned(m, contract) ==
  [contract |-> contract, learning |-> m.learning,
   readiness |-> readiness(contract, [success |-> 0, failure |-> 0])]
scanned(m, contract) ==
  [contract |-> contract, learning |-> m.learning, readiness |-> readiness(contract, m.learning)]
learned_Flag(m, outcome) ==
  LET now == [m.learning EXCEPT ![outcome] = 1]
  IN  [m EXCEPT !.learning = now, !.readiness = readiness(m.contract, now)]
learned(m, outcome) ==
  LET now == [m.learning EXCEPT ![outcome] = @ + 1]
  IN  [m EXCEPT !.learning = now, !.readiness = readiness(m.contract, now)]

-----------------------------------------------------------------------------
(* The loop *)

\* History: start is the files as they were; spilled, the files that its commands altered;
\* stale, the commands that did not run since a command altered a file they need; shared,
\* whether others altered files.
NewLoop == [pc |-> "preflight", step |-> 1, todo |-> <<>>, changed |-> <<>>, results |-> {}, tested |-> 0,
            probed |-> <<>>, why |-> None, seen |-> NoCopy,
            start |-> files, spilled |-> {}, stale |-> {}, shared |-> FALSE]

Init ==
  \E s \in Scenarios :
    /\ asked = s.asked /\ files = s.files /\ deps = s.deps
    /\ meta = [contract |-> s.contract, learning |-> [success |-> 0, failure |-> 0],
               readiness |-> readiness(s.contract, [success |-> 0, failure |-> 0])]
    /\ loop = [l \in Loops |-> [NewLoop EXCEPT !.pc = IF l \in DOMAIN s.asked THEN @ ELSE "absent"]]
    /\ retries = s.retries
    /\ scan = NoCopy /\ recorded = 0 /\ overlapped = FALSE /\ scans = s.scans

Active == DOMAIN asked
metadata == <<meta, scan, scans, recorded, overlapped>>

Become(l, new) == loop' = [loop EXCEPT ![l] = new]
\* An exception ends the loop: nothing is reported, nothing undone.
Raised(s, why) == [s EXCEPT !.pc = "failed", !.why = why, !.todo = <<>>]
Raise(l, why) == Become(l, Raised(loop[l], why))

\* The files become new: the other loops work on them too.
Alter(l, new, s) ==
  /\ files' = new
  /\ loop' = [m \in Loops |-> IF m = l THEN s ELSE [loop[m] EXCEPT !.shared = (@ \/ new # files)]]

\* A command ran and leaves the files as new: nothing notes what it altered.
Ran(s, c, new) ==
  LET altered == {p \in Paths : new[p] # files[p]} IN
  [s EXCEPT !.spilled = @ \union altered,
            !.stale = (@ \ {c}) \union {d \in Commands : Needs[d] \intersect altered # {}}]

\* The loop goes on in state s, unless the command ran past its time: that raises.
Commanded(l, c, o, s) ==
  /\ Alter(l, o.files, Ran(IF o.result.status = "timeout" THEN Raised(loop[l], "timeout") ELSE s, c, o.files))
  /\ deps' = o.deps

environment_ok(q, artefacts) == q.env = "ready" \/ (q.env = "needs_deps" /\ artefacts)
needs_dependency_bootstrap(q) == q.runner = "python" \/ (q.runner = "node" /\ ~deps)

\* A failed preflight runs the setup command once and, if it succeeded, looks again.
Preflight(l) ==
  LET q == asked[l]
      repairs == needs_dependency_bootstrap(q) /\ q.setup # <<>>
      Ready   == [loop[l] EXCEPT !.pc = "planning"]
      Unready == [loop[l] EXCEPT !.pc = "learning", !.why = "preflight"]
  IN  /\ loop[l].pc = "preflight"
      /\ \/ /\ environment_ok(q, deps) \/ ~repairs
            /\ Become(l, IF environment_ok(q, deps) THEN Ready ELSE Unready)
            /\ UNCHANGED <<files, deps>>
         \/ /\ ~environment_ok(q, deps) /\ repairs
            /\ \E o \in Outcomes(q, Head(q.setup)) :
                 Commanded(l, Head(q.setup), o,
                           IF o.result.status = "ok" /\ environment_ok(q, o.deps) THEN Ready ELSE Unready)
  /\ UNCHANGED <<asked, retries, metadata>>

\* The model plans; a request for approval, or for a dry run, ends here.
Plan(l) ==
  LET q == asked[l] IN
  /\ loop[l].pc = "planning"
  /\ \/ Raise(l, "provider")
     \/ q.require_approval /\ Raise(l, "approval")
     \/ /\ ~q.require_approval
        /\ Become(l, [loop[l] EXCEPT !.pc = IF q.dry_run THEN "planned" ELSE "asking"])
  /\ UNCHANGED <<asked, files, deps, retries, metadata>>

max_steps(q) == Max({1, Min({q.max_steps, StepLimit})})

NextStep_OneMore(s, q) ==
  IF s.step <= max_steps(q) THEN [s EXCEPT !.pc = "asking", !.step = @ + 1]
  ELSE [s EXCEPT !.pc = "ending"]
NextStep_SameStep(s, q) ==
  IF s.step < max_steps(q) THEN [s EXCEPT !.pc = "asking"] ELSE [s EXCEPT !.pc = "ending"]
NextStep(s, q) ==
  IF s.step < max_steps(q) THEN [s EXCEPT !.pc = "asking", !.step = @ + 1]
  ELSE [s EXCEPT !.pc = "ending"]

\* An answer without actions is asked for once more; without any the step is over.
Ask(l) ==
  LET s == loop[l] IN
  /\ s.pc = "asking"
  /\ \/ Raise(l, "provider")
     \/ \E reply \in asked[l].answers : Become(l, [s EXCEPT !.pc = "acting", !.todo = reply])
     \/ Become(l, NextStep(s, asked[l]))
  /\ UNCHANGED <<asked, files, deps, retries, metadata>>

\* The next action is done with; the last one leads to verification.
Acted(s) == [s EXCEPT !.todo = Tail(@), !.pc = IF Len(s.todo) = 1 THEN "checking" ELSE @]

\* An action that the policy refuses, finish too, is noted among the results.
Block(l, a) ==
  /\ ~action_allowed(asked[l], a)
  /\ LET result == [command |-> IF a.command # None THEN a.command ELSE a.type, status |-> "blocked"]
     IN  Become(l, [Acted(loop[l]) EXCEPT !.results = @ \union {result}])
  /\ UNCHANGED <<files, deps>>

\* An edit notes the paths that the action names.
moved_paths_SourceOnly(a) == <<a.path>>
moved_paths(a) == <<a.path, a.to>>
Edit(l, new, paths) ==
  /\ Alter(l, new, [Acted(loop[l]) EXCEPT !.changed = @ \o paths])
  /\ UNCHANGED deps

Write(l, a) ==
  /\ a.type = "write_file"
  /\ Edit(l, [files EXCEPT ![a.path] = a.text], <<a.path>>)
Patch(l, a) ==
  /\ a.type = "patch_file" /\ Exists(a.path) /\ files[a.path] = a.before
  /\ Edit(l, [files EXCEPT ![a.path] = a.text], <<a.path>>)
Delete(l, a) ==
  /\ a.type = "delete_file" /\ Exists(a.path)
  /\ Edit(l, [files EXCEPT ![a.path] = Absent], <<a.path>>)
Move(l, a) ==
  /\ a.type = "move_file" /\ Exists(a.path)
  /\ Edit(l, [files EXCEPT ![a.to] = files[a.path], ![a.path] = Absent], moved_paths(a))

\* A file that is not there, or a patch whose before-text is not, raises.
Stumble(l, a) ==
  /\ \/ a.type \in {"delete_file", "move_file", "read_file"} /\ ~Exists(a.path)
     \/ a.type = "patch_file" /\ a.before # None /\ (~Exists(a.path) \/ files[a.path] # a.before)
  /\ Raise(l, "missing_file")
  /\ UNCHANGED <<files, deps>>

\* The command of an action, or the runner's first for its kind; without one it is skipped.
Runners == {"run_command", "run_test", "run_lint", "install_deps"}
runner_default(q, type) ==
  CASE type = "run_test" -> IF q.tests = <<>> THEN DefaultTest ELSE Head(q.tests)
    [] type = "install_deps" /\ q.setup # <<>> -> Head(q.setup)
    [] OTHER -> None
command_of(q, a) == IF a.command # None THEN a.command ELSE runner_default(q, a.type)

\* Reading and searching only add to the next prompt, as notes do; a patch of nothing and a
\* command that nothing names are skipped.
Look(l, a) ==
  /\ \/ a.type = "read_file" /\ Exists(a.path)
     \/ a.type \in {"search_code", "complete_work"}
     \/ a.type = "patch_file" /\ a.before = None
     \/ a.type \in Runners /\ command_of(asked[l], a) = None
  /\ Become(l, Acted(loop[l]))
  /\ UNCHANGED <<files, deps>>

\* finish drops the actions behind it.
Finish(l, a) ==
  /\ a.type = "finish"
  /\ Become(l, [loop[l] EXCEPT !.todo = <<>>, !.pc = "checking"])
  /\ UNCHANGED <<files, deps>>

Run(l, a) ==
  LET c == command_of(asked[l], a) IN
  /\ a.type \in Runners /\ c # None
  /\ \E o \in Outcomes(asked[l], c) :
       Commanded(l, c, o, [Acted(loop[l]) EXCEPT !.results = @ \union {o.result}])

\* dispatch_actions, one action of the answer.
Act(l) ==
  /\ loop[l].pc = "acting"
  /\ LET a == Head(loop[l].todo) IN
     \/ Block(l, a)
     \/ /\ action_allowed(asked[l], a)
        /\ \/ Write(l, a) \/ Patch(l, a) \/ Delete(l, a) \/ Move(l, a)
           \/ Stumble(l, a) \/ Look(l, a) \/ Finish(l, a) \/ Run(l, a)
  /\ UNCHANGED <<asked, retries, metadata>>

\* After the actions of a step, and at the end, the commands still missing run one by one;
\* when the last verification fails for them, all the tests of the runner do.
\* A step that did nothing is not verified.
Test(l) ==
  LET q == asked[l]
      s == loop[l]
      list == IF s.pc = "retesting" THEN q.tests ELSE required_commands(q) IN
  /\ s.pc \in {"checking", "ending", "retesting"}
  /\ IF s.pc = "checking" /\ s.changed = <<>> /\ s.results = {}
     THEN Become(l, NextStep(s, q)) /\ UNCHANGED <<files, deps>>
     ELSE IF missing(list, s) = {}
     THEN /\ Become(l, [s EXCEPT !.tested = 0,
                                 !.pc = CASE @ = "checking" -> "judging" [] @ = "ending" -> "verifying"
                                          [] @ = "retesting" -> "reverifying"])
          /\ UNCHANGED <<files, deps>>
     ELSE LET i == Min(missing(list, s)) IN
          \E o \in Outcomes(q, list[i]) :
            Commanded(l, list[i], o, [s EXCEPT !.tested = i, !.results = @ \union {o.result}])
  /\ UNCHANGED <<asked, retries, metadata>>

\* Every verification begins by running the probes one by one, until one does not succeed.
probing(q, s) == Len(s.probed) < Len(q.probes) /\ \A r \in Range(s.probed) : r.status = "ok"

Probe(l) ==
  LET q == asked[l]
      s == loop[l]
      c == q.probes[Len(s.probed) + 1] IN
  /\ s.pc \in {"judging", "verifying", "reverifying"} /\ probing(q, s)
  /\ \E o \in Outcomes(q, c) : Commanded(l, c, o, [s EXCEPT !.probed = Append(@, o.result)])
  /\ UNCHANGED <<asked, retries, metadata>>

\* The verdict, and the loop with the results of its probes dropped.
verdict_of(q, s) == verify_workspace_execution(q, s.changed, s.results, Range(s.probed))
Unprobed(s) == [s EXCEPT !.probed = <<>>]

\* The loop goes on, whether the model finished or not, until what it did verifies.
Judge(l) ==
  LET q == asked[l]
      s == loop[l] IN
  /\ s.pc = "judging" /\ ~probing(q, s)
  /\ Become(l, IF verdict_of(q, s) = Ok THEN [Unprobed(s) EXCEPT !.pc = "ending"]
               ELSE NextStep(Unprobed(s), q))
  /\ UNCHANGED <<asked, files, deps, retries, metadata>>

\* What a last verification leads to: a local_echo run that did nothing is let through to
\* the gate on meaningful changes; a failure at that gate is not learned from.
Concluded(q, s, verdict) ==
  IF verdict # Ok /\ ~(verdict = "no_changes" /\ q.echo) THEN [s EXCEPT !.pc = "learning", !.why = verdict]
  ELSE IF ~meaningful_change(q, s.changed) THEN [s EXCEPT !.pc = "failed", !.why = "meaningless"]
  ELSE [s EXCEPT !.pc = "learning", !.why = "completed"]

Verify(l) ==
  LET q == asked[l]
      s == loop[l] IN
  /\ s.pc \in {"verifying", "reverifying"} /\ ~probing(q, s)
  /\ \E verdict \in {verdict_of(q, s)} :
       Become(l, IF verdict = "commands_did_not_pass" /\ s.pc = "verifying"
                 THEN [Unprobed(s) EXCEPT !.pc = "retesting"] ELSE Concluded(q, Unprobed(s), verdict))
  /\ UNCHANGED <<asked, files, deps, retries, metadata>>

-----------------------------------------------------------------------------
(* Writing the metadata: read the row, then write it back whole *)

\* record_success and record_failure.
Recall(l) ==
  /\ loop[l].pc = "learning"
  /\ Become(l, [loop[l] EXCEPT !.pc = "recording", !.seen = meta])
  /\ UNCHANGED <<asked, files, deps, retries, metadata>>
Record(l) ==
  LET s == loop[l] IN
  /\ s.pc = "recording"
  /\ meta' = learned(s.seen, IF s.why = "completed" THEN "success" ELSE "failure")
  /\ overlapped' = (overlapped \/ s.seen # meta)
  /\ recorded' = recorded + 1
  /\ Become(l, [s EXCEPT !.pc = IF s.why = "completed" THEN "completed" ELSE "failed", !.seen = NoCopy])
  /\ UNCHANGED <<asked, files, deps, retries, scan, scans>>

\* scan_workspace, asked for by an operator: reads the row, then the contract file.
ScanReads ==
  /\ scan = NoCopy /\ scans > 0
  /\ scan' = meta /\ scans' = scans - 1
  /\ UNCHANGED <<asked, files, deps, meta, loop, retries, recorded, overlapped>>
ScanWrites ==
  /\ scan # NoCopy
  /\ \E c \in Contracts : meta' = scanned(scan, c)
  /\ overlapped' = (overlapped \/ scan # meta)
  /\ scan' = NoCopy
  /\ UNCHANGED <<asked, files, deps, loop, retries, scans, recorded>>

\* The task engine retries a stage that failed, with the files as they are.
Retry(l) ==
  /\ loop[l].pc = "failed" /\ retries > 0
  /\ Become(l, NewLoop)
  /\ retries' = retries - 1
  /\ UNCHANGED <<asked, files, deps, metadata>>

LoopStep(l) ==
  \/ Preflight(l) \/ Plan(l) \/ Ask(l) \/ Act(l) \/ Test(l) \/ Probe(l) \/ Judge(l) \/ Verify(l)
  \/ Recall(l) \/ Record(l)

Next ==
  \/ \E l \in Active : LoopStep(l) \/ Retry(l)
  \/ ScanReads \/ ScanWrites

Spec == Init /\ [][Next]_vars
\* A request handler, or the background loop, executes its loop to the end.
FairSpec == Spec /\ \A l \in Loops : WF_vars(l \in Active /\ LoopStep(l))

-----------------------------------------------------------------------------
(* Properties *)

Modes == {"unattended", "supervised", "guided", "observe"}
Ended == {"completed", "failed", "planned"}

\* Every variable keeps its type, and no run asks the model in more steps than its request
\* allows (the range of execute_loop).
TypeOK ==
  /\ files \in [Paths -> Texts \union {Absent}] /\ deps \in BOOLEAN
  /\ meta.readiness \in Modes /\ meta.learning \in [{"success", "failure"} -> Nat]
  /\ \A l \in Active :
       /\ loop[l].pc \in Ended \union {"preflight", "planning", "asking", "acting", "checking",
                                       "judging", "ending", "verifying", "retesting",
                                       "reverifying", "learning", "recording"}
       /\ loop[l].step \in 1..max_steps(asked[l])
       /\ loop[l].changed \in Seq(Paths) /\ loop[l].spilled \subseteq Paths /\ loop[l].stale \subseteq Commands
       /\ Len(loop[l].probed) <= Len(asked[l].probes)
       /\ \A r \in loop[l].results : r.status \in {"ok", "failed", "blocked"}

\* What a run has altered, when no other loop edits the files meanwhile, with its actions:
\* its commands altered the rest.
Altered(l) == {p \in Paths : files[p] # loop[l].start[p]} \ loop[l].spilled

\* A run that is completed leaves files that meet the acceptance criteria and the risk
\* rules, judged by what its actions really altered and not by what it noted: the last
\* verification comes after its last edit, whatever commands edit in between, and the notes
\* miss none (dispatch_actions, verify_workspace_execution).  Nothing judges what commands
\* alter, nor reads the files noted after the first Inspected for secrets.
CompletedTreeAccepted ==
  \A l \in Active : loop[l].pc = "completed" /\ ~loop[l].shared =>
    LET q == asked[l] IN
    /\ Altered(l) \intersect (q.forbidden \union q.must_not_modify) = {}
    /\ Len(loop[l].changed) <= Inspected => \A p \in Altered(l) : files[p] # Secret
    /\ \A p \in q.must_create : Exists(p)
    /\ q.max_changed > 0 => Cardinality(Altered(l)) <= q.max_changed

\* A run is failed for its required commands only when one without a success on record may
\* not run, really fails on the files as the run leaves them, or was not run again after a
\* command altered files it needs: a failure from before an edit of the run's own is never
\* held against it (ensure_required_verification_commands_run).
FailureIsCurrent ==
  \A l \in Active :
    loop[l].pc = "failed" /\ loop[l].why = "commands_did_not_pass" /\ ~loop[l].shared =>
      \E c \in Range(required_commands(asked[l])) :
        /\ ~observed_ok(loop[l].results, c)
        /\ ~command_allowed(asked[l], c) \/ ~Succeeds(files, c) \/ c \in loop[l].stale

\* The readiness kept with the workspace, from which the task engine takes the mode, is
\* that of the contract and the learning kept with it, however scans and loops overlap
\* (compute_workspace_readiness in each of the three writers).
ReadinessMatchesMetadata == meta.readiness = readiness(meta.contract, meta.learning)

\* Learning never counts an outcome twice, and loses one only when a writer wrote back a
\* copy that another had made out of date (record_success, record_failure, scan_workspace).
LearningAccounts ==
  LET counted == meta.learning.success + meta.learning.failure
  IN  counted <= recorded /\ (~overlapped => counted = recorded)

\* Every run ends, whatever the model answers: finish or not, blocked or empty answers
\* (execute_loop).
LoopEnds == \A l \in Loops : (l \in Active /\ loop[l].pc = "preflight") ~> (l \in Active /\ loop[l].pc \in Ended)

\* A request that the task engine sends once its operator approved it is not turned down
\* for want of an approval.
ApprovedRunsApply ==
  \A l \in Active : asked[l].approved => loop[l].why # "approval"
=============================================================================
