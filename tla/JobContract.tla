---------------------------- MODULE JobContract ----------------------------
(***************************************************************************)
(* What the run queue promises of a job, whatever store and however many   *)
(* scanners serve it: a job is executed by one scanner at a time, at most  *)
(* MaxAttempts times, and an ended job is never touched again.             *)
(***************************************************************************)
EXTENDS Naturals

CONSTANTS
  Jobs,        \* run_queue rows
  MaxAttempts  \* max_attempts of every row

VARIABLES
  state,  \* where each job stands
  tries   \* attempts charged to each job

cvars == <<state, tries>>

Init ==
  /\ state = [j \in Jobs |-> "absent"]
  /\ tries = [j \in Jobs |-> 0]

Move(j, from, to) == state[j] = from /\ state' = [state EXCEPT ![j] = to]

Enter(j) == Move(j, "absent", "waiting") /\ UNCHANGED tries
Start(j) == Move(j, "waiting", "running") /\ UNCHANGED tries
Succeed(j) == Move(j, "running", "completed") /\ UNCHANGED tries
Refuse(j) == Move(j, "running", "failed") /\ UNCHANGED tries

Fail(j) ==
  /\ tries' = [tries EXCEPT ![j] = @ + 1]
  /\ Move(j, "running", IF tries'[j] = MaxAttempts THEN "failed" ELSE "waiting")

Next == \E j \in Jobs : Enter(j) \/ Start(j) \/ Succeed(j) \/ Refuse(j) \/ Fail(j)

Spec == Init /\ [][Next]_cvars
=============================================================================
