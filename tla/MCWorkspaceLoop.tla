-------------------------- MODULE MCWorkspaceLoop --------------------------
(* Small workspaces and requests for WorkspaceLoop. *)
EXTENDS WorkspaceLoop

CONSTANTS l1, l2

Files == {"code", "guide"}
Shell == {"test", "test all", "smoke", "setup"}
ShellNeeds == [c \in Shell |-> CASE c = "test" -> {"code"} [] c = "test all" -> {"code"}
                               [] c = "smoke" -> {"guide"} [] c = "setup" -> {}]
ShellEdits == [c \in Shell |-> CASE c = "smoke" -> {"code"} [] c = "setup" -> {"guide"} [] OTHER -> {}]
ShellOccurs == {<<"test", "test all">>}

NoAction == [type |-> None, path |-> None, to |-> None, text |-> None, before |-> None, command |-> None]
Writing(p, t) == [NoAction EXCEPT !.type = "write_file", !.path = p, !.text = t]
Patching(p, b, t) == [Writing(p, t) EXCEPT !.type = "patch_file", !.before = b]
Deleting(p) == [NoAction EXCEPT !.type = "delete_file", !.path = p]
Moving(p, d) == [NoAction EXCEPT !.type = "move_file", !.path = p, !.to = d]
Reading(p) == [NoAction EXCEPT !.type = "read_file", !.path = p]
Plain(type) == [NoAction EXCEPT !.type = type]
Running(c) == [NoAction EXCEPT !.type = "run_command", !.command = c]

Good    == <<Writing("code", Right)>>
Late    == <<Plain("run_test"), Writing("code", Wrong)>>
Early   == <<Writing("code", Wrong), Plain("run_test")>>
Leak    == <<Writing("code", Secret), Plain("finish")>>
Mend    == <<Patching("code", Wrong, Right)>>
Shift   == <<Moving("code", "guide"), Running("smoke")>>
Drop    == <<Deleting("guide"), Running("test all")>>
Browse  == <<Reading("guide"), Plain("finish"), Plain("run_lint")>>
Install == <<Plain("install_deps"), Plain("run_lint")>>
Build   == <<Plain("install_deps"), Writing("code", Right)>>
Bury    == <<Plain("finish"), Patching("guide", None, Right), Writing("code", Secret), Moving("code", "guide")>>

NoPack == [profile |-> None, commands |-> {}, actions |-> {}]

Base ==
  [profile |-> "fulldev", pack |-> NoPack, profile_commands |-> {"test", "test all"},
   contract_actions |-> {}, denied_actions |-> {}, runbook_commands |-> {}, blocked_commands |-> {},
   forbidden |-> {}, approval_paths |-> {}, allowed_paths |-> {},
   tests |-> <<"test", "test all">>, setup |-> <<"setup">>, probes |-> <<>>, must_pass |-> <<>>,
   must_observe |-> {}, must_modify |-> {}, must_not_modify |-> {}, must_create |-> {},
   behavior |-> FALSE, max_changed |-> 0, parent |-> "none", targets |-> {},
   env |-> "ready", runner |-> "node", echo |-> FALSE,
   require_approval |-> FALSE, approved |-> FALSE, dry_run |-> FALSE, max_steps |-> 3,
   answers |-> {Good, Early, Late, Drop}]

Requests ==
  {Base,
   [Base EXCEPT !.must_not_modify = {"guide"}, !.must_create = {"code"}, !.profile = "custom",
                !.answers = {Good, Shift, Browse, Drop}],
   [Base EXCEPT !.forbidden = {"guide"}, !.max_changed = 1, !.must_pass = <<"test all">>, !.blocked_commands = {"smoke"},
                !.answers = {Build, Early, Shift}],
   [Base EXCEPT !.behavior = TRUE, !.max_changed = 1, !.probes = <<"smoke">>, !.must_observe = {"smoke"},
                !.denied_actions = {"delete_file"}, !.max_steps = 2, !.answers = {Good, Leak, Shift, Drop}],
   [Base EXCEPT !.denied_actions = {"finish"}, !.must_pass = <<"smoke">>, !.runbook_commands = {"smoke"},
                !.max_steps = 2, !.answers = {Bury, Leak}],
   [Base EXCEPT !.must_modify = {"code"}, !.parent = "candidate", !.targets = {"code"},
                !.approval_paths = {"guide"}, !.profile = "strict", !.must_pass = <<"test", "smoke">>,
                !.runbook_commands = {"smoke"}, !.answers = {Mend, Leak, Drop}],
   [Base EXCEPT !.echo = TRUE, !.parent = "no_candidate", !.tests = <<>>, !.allowed_paths = {"code"},
                !.env = "needs_deps", !.answers = {Browse, Install}],
   [Base EXCEPT !.env = "broken", !.runner = "python", !.max_steps = 0, !.profile = None,
                !.pack = [profile |-> "strict", commands |-> {"smoke"}, actions |-> {"write_file", "finish"}]],
   [Base EXCEPT !.env = "needs_deps", !.setup = <<"test all">>, !.must_pass = <<"test">>, !.probes = <<"test all">>,
                !.answers = {Good}],
   [Base EXCEPT !.require_approval = TRUE, !.approved = TRUE], [Base EXCEPT !.dry_run = TRUE]}

Full == {"schema", "pack", "runner", "binaries", "commands", "acceptance", "paths"}
Found == {Full, {"commands"}}

Trees == {[p \in Files |-> IF p = "code" THEN Wrong ELSE Absent], [p \in Files |-> Right]}

Situation(who, tree, d, n) ==
  [asked |-> who, files |-> tree, deps |-> d, contract |-> Full, scans |-> n, retries |-> 1 - n]

\* Any one request, or two short ones side by side while the workspace is scanned.
Alone == {Situation(l1 :> q, t, q.env = "ready", 0) : q \in Requests, t \in Trees}
Short == [Base EXCEPT !.max_steps = 1, !.answers = {Good, Mend}]
Paired == {Situation(l1 :> Short @@ l2 :> [Short EXCEPT !.answers = {Late, Shift}, !.must_pass = <<"test">>],
                     t, TRUE, 1) : t \in Trees}
Situations == Alone \union Paired
Approved == {s \in Alone : s.asked[l1].approved}
=============================================================================
