------------------------------ MODULE RunQueue ------------------------------
(***************************************************************************)
(* The run queue: jobs in the run_queue table, and scanners that claim,    *)
(* execute and complete them (RunQueueService.scan_once).  A scanner is    *)
(* the background loop of lifecycle.py or an HTTP thread serving           *)
(* /runs/queue/scan-once.                                                  *)
(*                                                                         *)
(* The two stores differ in what is atomic.  Postgres claims a row, and    *)
(* charges an attempt, in one statement.  SQLite selects first and updates *)
(* later, outside any transaction.                                         *)
(*                                                                         *)
(* A store call that raises is taken to have written nothing.              *)
(***************************************************************************)
EXTENDS Integers, Sequences, FiniteSets, FiniteSetsExt

CONSTANTS
  Jobs,         \* rows that may be enqueued
  Malformed,    \* jobs whose payload no longer validates
  Scanners,     \* threads that may run scan_once
  MaxAttempts,  \* max_attempts of the rows
  Deployments,  \* installations: whether the store claims atomically, and the scanners at work
  MaxCrashes,   \* bound: scanners killed in the middle of a job
  MaxFaults     \* bound: complete_run_job calls that raise

\* enqueue_run_job stores max(1, max_attempts).
ASSUME QueueAssumption ==
  /\ Malformed \subseteq Jobs
  /\ MaxAttempts \in Nat \ {0}
  /\ Deployments \subseteq [atomic : BOOLEAN, crew : SUBSET Scanners]
  /\ MaxCrashes \in Nat /\ MaxFaults \in Nat

VARIABLES
  deployment, \* the installation; it never changes
  row,      \* status and attempt_count of each job
  created,  \* jobs in the order of created_at
  pc,       \* where each scanner is
  job,      \* the job each scanner has in hand
  wanted,   \* the status each scanner is about to ask complete_run_job for
  read,     \* the row each scanner's complete_run_job has selected (SQLite)
  runs,     \* how often each job was executed (saturates above MaxAttempts)
  lost,     \* jobs whose scanner was killed or gave up without completing them
  crashes, faults

vars == <<deployment, row, created, pc, job, wanted, read, runs, lost, crashes, faults>>
scanner == <<pc, job, wanted, read>>

Absent == [status |-> "absent", attempts |-> 0]

Init ==
  /\ deployment \in Deployments
  /\ row = [j \in Jobs |-> Absent]
  /\ created = <<>>
  /\ pc = [s \in Scanners |-> "idle"]
  /\ job = [s \in Scanners |-> "none"]
  /\ wanted = [s \in Scanners |-> "retry"]
  /\ read = [s \in Scanners |-> Absent]
  /\ runs = [j \in Jobs |-> 0]
  /\ lost = {}
  /\ crashes = 0 /\ faults = 0

-----------------------------------------------------------------------------
(* The store *)

\* Whether it is Postgres, and not SQLite.
Atomic == deployment.atomic

claimable_AnyUnfinished(status) == status \in {"queued", "retry", "running"}
claimable(status) == status \in {"queued", "retry"}

\* ORDER BY created_at ASC LIMIT 1 over the rows that may be claimed.
Candidates == {n \in DOMAIN created : claimable(row[created[n]].status)}
next_job == created[Min(Candidates)]

completed_row_OffByOne(r, status) ==
  IF status # "retry" THEN [r EXCEPT !.status = status]
  ELSE [status   |-> IF r.attempts + 1 > MaxAttempts THEN "failed" ELSE "retry",
        attempts |-> r.attempts + 1]

completed_row_Uncounted(r, status) == [r EXCEPT !.status = status]

\* complete_run_job: the row it writes over r when asked for status.
completed_row(r, status) ==
  IF status # "retry" THEN [r EXCEPT !.status = status]
  ELSE [status   |-> IF r.attempts + 1 >= MaxAttempts THEN "failed" ELSE "retry",
        attempts |-> r.attempts + 1]

-----------------------------------------------------------------------------
(* Steps *)

Goto(s, label) == pc' = [pc EXCEPT ![s] = label]

enqueue(j) ==
  /\ row[j].status = "absent"
  /\ row' = [row EXCEPT ![j] = [status |-> "queued", attempts |-> 0]]
  /\ created' = Append(created, j)
  /\ UNCHANGED <<scanner, runs, lost, crashes, faults>>

\* Postgres: one UPDATE over a row selected FOR UPDATE SKIP LOCKED.
Claim(s) ==
  /\ Atomic /\ pc[s] = "idle" /\ Candidates # {}
  /\ job' = [job EXCEPT ![s] = next_job]
  /\ row' = [row EXCEPT ![next_job].status = "running"]
  /\ Goto(s, "executing")
  /\ UNCHANGED <<created, wanted, read, runs, lost, crashes, faults>>

\* SQLite: the SELECT.
Look(s) ==
  /\ ~Atomic /\ pc[s] = "idle" /\ Candidates # {}
  /\ job' = [job EXCEPT ![s] = next_job]
  /\ Goto(s, "claiming")
  /\ UNCHANGED <<row, created, wanted, read, runs, lost, crashes, faults>>

\* SQLite: the guarded UPDATE; the row is returned whether or not it matched.
Take(s) ==
  /\ pc[s] = "claiming"
  /\ row' = [row EXCEPT ![job[s]].status = IF claimable(@) THEN "running" ELSE @]
  /\ Goto(s, "executing")
  /\ UNCHANGED <<created, job, wanted, read, runs, lost, crashes, faults>>

\* A payload that does not validate fails the job at once.
Reject(s) ==
  /\ pc[s] = "executing" /\ job[s] \in Malformed
  /\ wanted' = [wanted EXCEPT ![s] = "failed"]
  /\ Goto(s, "completing")
  /\ UNCHANGED <<row, created, job, read, runs, lost, crashes, faults>>

Execute_Swallowed(s) ==
  /\ pc[s] = "executing" /\ job[s] \notin Malformed
  /\ \E outcome \in {"completed", "retry"} :
       /\ wanted' = [wanted EXCEPT ![s] = outcome]
       /\ Goto(s, IF outcome = "retry" THEN "idle" ELSE "completing")
  /\ runs' = [runs EXCEPT ![job[s]] = IF @ > MaxAttempts THEN @ ELSE @ + 1]
  /\ UNCHANGED <<row, created, job, read, lost, crashes, faults>>

\* RunExecutionService.execute returns, or raises.
Execute(s) ==
  /\ pc[s] = "executing" /\ job[s] \notin Malformed
  /\ \E outcome \in {"completed", "retry"} : wanted' = [wanted EXCEPT ![s] = outcome]
  /\ runs' = [runs EXCEPT ![job[s]] = IF @ > MaxAttempts THEN @ ELSE @ + 1]
  /\ Goto(s, "completing")
  /\ UNCHANGED <<row, created, job, read, lost, crashes, faults>>

\* complete_run_job on Postgres.
Complete(s) ==
  /\ Atomic /\ pc[s] = "completing"
  /\ row' = [row EXCEPT ![job[s]] = completed_row(@, wanted[s])]
  /\ Goto(s, "idle")
  /\ UNCHANGED <<created, job, wanted, read, runs, lost, crashes, faults>>

\* complete_run_job on SQLite: the SELECT, and the UPDATE computed from it.
ReadRow(s) ==
  /\ ~Atomic /\ pc[s] = "completing"
  /\ read' = [read EXCEPT ![s] = row[job[s]]]
  /\ Goto(s, "writing")
  /\ UNCHANGED <<row, created, job, wanted, runs, lost, crashes, faults>>

WriteRow(s) ==
  /\ pc[s] = "writing"
  /\ row' = [row EXCEPT ![job[s]] = completed_row(read[s], wanted[s])]
  /\ Goto(s, "idle")
  /\ UNCHANGED <<created, job, wanted, read, runs, lost, crashes, faults>>

\* The store raises: after a success the except clause asks for a retry; any other
\* failure escapes scan_once.
CompleteRaises(s) ==
  /\ pc[s] \in {"completing", "writing"}
  /\ faults < MaxFaults
  /\ faults' = faults + 1
  /\ IF wanted[s] = "completed"
     THEN /\ wanted' = [wanted EXCEPT ![s] = "retry"]
          /\ Goto(s, "completing")
          /\ UNCHANGED lost
     ELSE /\ lost' = lost \union {job[s]}
          /\ Goto(s, "idle")
          /\ UNCHANGED wanted
  /\ UNCHANGED <<row, created, job, read, runs, crashes>>

Crash(s) ==
  /\ pc[s] # "idle"
  /\ crashes < MaxCrashes
  /\ crashes' = crashes + 1
  /\ lost' = IF pc[s] = "claiming" THEN lost ELSE lost \union {job[s]}
  /\ Goto(s, "idle")
  /\ UNCHANGED <<row, created, job, wanted, read, runs, faults>>

Step(s) ==
  \/ Claim(s) \/ Look(s) \/ Take(s)
  \/ Reject(s) \/ Execute(s)
  \/ Complete(s) \/ ReadRow(s) \/ WriteRow(s)

Next ==
  /\ \/ \E j \in Jobs : enqueue(j)
     \/ \E s \in deployment.crew : Step(s) \/ CompleteRaises(s) \/ Crash(s)
  /\ UNCHANGED deployment

Spec == Init /\ [][Next]_vars

\* The loop polls for ever and an execution returns or raises.
FairSpec ==
  Spec /\ \A s \in Scanners : WF_vars(s \in deployment.crew /\ Step(s) /\ UNCHANGED deployment)

-----------------------------------------------------------------------------
(* Properties *)

Ended == {"completed", "failed"}

\* Every variable has its type; the attempts charged never pass max_attempts.
TypeOK ==
  /\ deployment \in Deployments
  /\ row \in [Jobs -> [status : {"absent", "queued", "retry", "running"} \union Ended,
                       attempts : 0..MaxAttempts]]
  /\ created \in Seq(Jobs)
  /\ pc \in [Scanners -> {"idle", "claiming", "executing", "completing", "writing"}]
  /\ job \in [Scanners -> Jobs \union {"none"}]
  /\ wanted \in [Scanners -> {"completed", "failed", "retry"}]
  /\ read \in [Scanners -> [status : {"absent", "queued", "retry", "running"} \union Ended,
                            attempts : 0..MaxAttempts]]
  /\ runs \in [Jobs -> 0..MaxAttempts + 1]
  /\ lost \subseteq Jobs
  /\ crashes \in Nat /\ faults \in Nat

\* A job is executed at most max_attempts times, whatever raised in between, the
\* store's own failure to record a success included (scan_once).
ExecutionsWithinAttempts == \A j \in Jobs : runs[j] <= MaxAttempts

\* A row is left running with no scanner at work on it only if its scanner died or
\* the store refused its last word.
OnlyLostJobsStayRunning ==
  \A j \in Jobs :
    row[j].status = "running" /\ j \notin lost => \E s \in Scanners : pc[s] # "idle" /\ job[s] = j

\* Every enqueued job ends, or is lost: retries cannot go round for ever and no job
\* starves behind one that keeps failing, although a retry keeps its place in line.
EveryJobEnds ==
  \A j \in Jobs : row[j].status = "queued" ~> (row[j].status \in Ended \/ j \in lost)

job_state ==
  [j \in Jobs |-> IF row[j].status \in {"queued", "retry"} THEN "waiting" ELSE row[j].status]

Contract == INSTANCE JobContract WITH
  state <- job_state, tries <- [j \in Jobs |-> row[j].attempts]

\* The queue keeps the contract of a job: one scanner at a time, attempts counted,
\* ended jobs left alone.
KeepsContract == Contract!Spec
=============================================================================
