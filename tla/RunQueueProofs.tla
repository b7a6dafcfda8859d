--------------------------- MODULE RunQueueProofs ---------------------------
(***************************************************************************)
(* Theorems about RunQueue, for any number of jobs, scanners, crashes and  *)
(* store failures.  They hold of a store that claims in one statement, and *)
(* of one that does not as long as a single scanner serves it.             *)
(***************************************************************************)
EXTENDS RunQueue, Extrema, SequenceTheorems, TLAPS

\* Every installation is Postgres, or SQLite behind one scanner.
Exclusive == \A d \in Deployments : d.atomic \/ \A s, t \in d.crew : s = t

Working == {"executing", "completing", "writing"}

\* What a scanner knows of its row.
ScannerInv(s) ==
  /\ pc[s] # "idle" => job[s] \in Jobs /\ s \in deployment.crew
  /\ pc[s] = "claiming" => ~Atomic /\ claimable(row[job[s]].status)
  /\ pc[s] = "writing" => ~Atomic /\ read[s] = row[job[s]]
  /\ pc[s] \in Working => row[job[s]].status = "running"
  /\ pc[s] = "executing" => runs[job[s]] <= row[job[s]].attempts
  /\ pc[s] \in {"completing", "writing"} /\ wanted[s] = "failed"
       => runs[job[s]] <= row[job[s]].attempts

\* What the attempts charged to a job say of its executions.
JobInv(j) ==
  /\ row[j].status = "absent" => runs[j] = 0 /\ row[j].attempts = 0
  /\ row[j].status \in {"absent", "queued", "retry"} => runs[j] <= row[j].attempts
  /\ row[j].status = "running" => runs[j] <= row[j].attempts + 1
  /\ row[j].status \in {"absent", "queued", "retry", "running"} => row[j].attempts < MaxAttempts
  /\ runs[j] <= MaxAttempts

\* No two scanners work on one job.
Apart ==
  \A s, t \in Scanners : pc[s] \in Working /\ pc[t] \in Working /\ job[s] = job[t] => s = t

QueueInv ==
  /\ TypeOK
  /\ Apart
  /\ \A s \in Scanners : ScannerInv(s)
  /\ \A j \in Jobs : JobInv(j)

\* The job a claim picks is one that may be claimed.
LEMMA NextJobClaimable ==
  ASSUME TypeOK, Candidates # {}
  PROVE  next_job \in Jobs /\ claimable(row[next_job].status)
<1>1. Candidates \in SUBSET Nat
  BY DEF Candidates, TypeOK
<1>2. Min(Candidates) \in Candidates
  BY <1>1, MinIsLeast
<1>3. QED
  BY <1>2, ElementOfSeq DEF Candidates, next_job, TypeOK

\* A row that complete_run_job writes over a running one.
LEMMA CompletedRow ==
  ASSUME NEW r \in [status : {"running"}, attempts : 0..MaxAttempts], r.attempts < MaxAttempts,
         NEW status \in {"completed", "failed", "retry"}
  PROVE  LET w == completed_row(r, status) IN
         /\ w \in [status : {"retry"} \union Ended, attempts : 0..MaxAttempts]
         /\ status = "retry" => w.attempts = r.attempts + 1
         /\ status # "retry" => w.attempts = r.attempts /\ w.status = status
         /\ status = "retry" =>
              w.status = IF w.attempts = MaxAttempts THEN "failed" ELSE "retry"
BY QueueAssumption DEF completed_row, Ended

LEMMA QueueInit == Init => QueueInv
BY QueueAssumption
DEF Init, QueueInv, TypeOK, Apart, ScannerInv, JobInv, Absent, Working, Ended, claimable

\* A scanner that takes a claimable row has it to itself.
LEMMA Claimed ==
  ASSUME QueueInv, NEW s \in Scanners, s \in deployment.crew, NEW j \in Jobs,
         claimable(row[j].status),
         job' = [job EXCEPT ![s] = j], row' = [row EXCEPT ![j].status = "running"],
         pc' = [pc EXCEPT ![s] = "executing"],
         pc[s] \notin Working, \A t \in Scanners \ {s} : pc[t] # "claiming",
         UNCHANGED <<deployment, created, wanted, read, runs, lost, crashes, faults>>
  PROVE  QueueInv'
<1> USE DEF Working, Atomic
<1>1. TypeOK'
  BY DEF QueueInv, TypeOK
<1>2. \A t \in Scanners : pc[t] \in Working => job[t] # j
  BY DEF QueueInv, ScannerInv, claimable
<1>3. Apart'
  BY <1>2 DEF QueueInv, TypeOK, Apart
<1>4. ASSUME NEW t \in Scanners
      PROVE  ScannerInv(t)'
  <2>1. CASE t = s
    BY <2>1 DEF QueueInv, TypeOK, ScannerInv, JobInv, claimable
  <2>2. CASE t # s
    BY <1>2, <2>2 DEF QueueInv, TypeOK, ScannerInv
  <2>3. QED
    BY <2>1, <2>2
<1>5. ASSUME NEW k \in Jobs
      PROVE  JobInv(k)'
  BY QueueAssumption DEF QueueInv, TypeOK, JobInv, claimable, Ended
<1>6. QED
  BY <1>1, <1>3, <1>4, <1>5 DEF QueueInv

\* A scanner that completes its row as it stands leaves it consistent.
LEMMA Completed ==
  ASSUME QueueInv, NEW s \in Scanners, pc[s] \in {"completing", "writing"},
         row' = [row EXCEPT ![job[s]] = completed_row(row[job[s]], wanted[s])],
         pc' = [pc EXCEPT ![s] = "idle"],
         UNCHANGED <<deployment, created, job, wanted, read, runs, lost, crashes, faults>>
  PROVE  QueueInv'
<1> USE DEF Working, Atomic
<1> DEFINE r == row[job[s]]
           w == completed_row(r, wanted[s])
<1>1. job[s] \in Jobs /\ wanted[s] \in {"completed", "failed", "retry"}
  BY DEF QueueInv, TypeOK, ScannerInv
<1>2. r \in [status : {"running"}, attempts : 0..MaxAttempts] /\ r.attempts < MaxAttempts
  BY <1>1 DEF QueueInv, TypeOK, ScannerInv, JobInv
<1>3. /\ w \in [status : {"retry"} \union Ended, attempts : 0..MaxAttempts]
      /\ wanted[s] = "retry" => w.attempts = r.attempts + 1
      /\ wanted[s] # "retry" => w.attempts = r.attempts /\ w.status = wanted[s]
      /\ wanted[s] = "retry" =>
           w.status = IF w.attempts = MaxAttempts THEN "failed" ELSE "retry"
  BY <1>1, <1>2, CompletedRow
<1>4. row' = [row EXCEPT ![job[s]] = w]
  OBVIOUS
<1> HIDE DEF w
<1>5. TypeOK'
  BY <1>1, <1>3, <1>4 DEF QueueInv, TypeOK
<1>6. Apart'
  BY DEF QueueInv, TypeOK, Apart
<1>7. ASSUME NEW t \in Scanners
      PROVE  ScannerInv(t)'
  <2>1. CASE t = s
    BY <2>1 DEF QueueInv, TypeOK, ScannerInv
  <2>2. CASE t # s
    <3>1. pc[t] \in Working => job[t] # job[s]
      BY <2>2 DEF QueueInv, Apart
    <3>2. pc[t] = "claiming" => job[t] # job[s]
      BY <1>1, <1>2 DEF QueueInv, ScannerInv, claimable
    <3>3. QED
      BY <2>2, <3>1, <3>2, <1>4 DEF QueueInv, TypeOK, ScannerInv
  <2>3. QED
    BY <2>1, <2>2
<1>8. ASSUME NEW k \in Jobs
      PROVE  JobInv(k)'
  <2>1. CASE k # job[s]
    BY <2>1, <1>4 DEF QueueInv, TypeOK, JobInv
  <2>2. CASE k = job[s]
    <3>1. row'[k] = w /\ runs'[k] = runs[k] /\ runs[k] <= r.attempts + 1
      BY <1>1, <1>2, <1>4, <2>2 DEF QueueInv, TypeOK, JobInv
    <3>2. runs[k] \in Nat /\ r.attempts \in Nat /\ MaxAttempts \in Nat /\ runs[k] <= MaxAttempts
      BY <1>1, <1>2, QueueAssumption DEF QueueInv, TypeOK, JobInv
    <3>3. QED
      BY <1>1, <1>2, <1>3, <3>1, <3>2 DEF JobInv, Ended
  <2>3. QED
    BY <2>1, <2>2
<1>9. QED
  BY <1>5, <1>6, <1>7, <1>8 DEF QueueInv

LEMMA QueueNext == Exclusive /\ QueueInv /\ [Next]_vars => QueueInv'
<1> SUFFICES ASSUME Exclusive, QueueInv, [Next]_vars PROVE QueueInv'
  OBVIOUS
<1> USE DEF Goto, Working, Atomic
<1>1. ASSUME NEW j \in Jobs, enqueue(j), UNCHANGED deployment
      PROVE  QueueInv'
  <2>1. TypeOK' /\ Apart'
    BY <1>1, QueueAssumption DEF enqueue, scanner, QueueInv, TypeOK, Apart
  <2>2. \A s \in Scanners : ScannerInv(s)'
    BY <1>1, QueueAssumption DEF enqueue, scanner, QueueInv, TypeOK, ScannerInv, claimable
  <2>3. \A k \in Jobs : JobInv(k)'
    <3>1. runs[j] = 0
      BY <1>1 DEF enqueue, QueueInv, JobInv
    <3>2. QED
      BY <1>1, <3>1, QueueAssumption DEF enqueue, scanner, QueueInv, TypeOK, JobInv
  <2>4. QED
    BY <2>1, <2>2, <2>3 DEF QueueInv
<1>2. ASSUME NEW s \in Scanners, s \in deployment.crew, Claim(s), UNCHANGED deployment
      PROVE  QueueInv'
  <2>1. next_job \in Jobs /\ claimable(row[next_job].status)
    BY <1>2, NextJobClaimable DEF Claim, QueueInv
  <2>2. \A t \in Scanners : pc[t] # "claiming"
    BY <1>2 DEF Claim, QueueInv, ScannerInv
  <2>3. QED
    BY <1>2, <2>1, <2>2, Claimed DEF Claim
<1>3. ASSUME NEW s \in Scanners, s \in deployment.crew, Look(s), UNCHANGED deployment
      PROVE  QueueInv'
  <2>1. next_job \in Jobs /\ claimable(row[next_job].status)
    BY <1>3, NextJobClaimable DEF Look, QueueInv
  <2>2. TypeOK' /\ Apart'
    BY <1>3, <2>1 DEF Look, QueueInv, TypeOK, Apart
  <2>3. \A t \in Scanners : ScannerInv(t)'
    BY <1>3, <2>1 DEF Look, QueueInv, TypeOK, ScannerInv
  <2>4. \A k \in Jobs : JobInv(k)'
    BY <1>3 DEF Look, QueueInv, JobInv
  <2>5. QED
    BY <2>2, <2>3, <2>4 DEF QueueInv
<1>4. ASSUME NEW s \in Scanners, s \in deployment.crew, Take(s), UNCHANGED deployment
      PROVE  QueueInv'
  <2>1. \A t \in Scanners \ {s} : pc[t] # "claiming"
    <3>1. ~deployment.atomic /\ deployment \in Deployments
      BY <1>4 DEF Take, QueueInv, TypeOK, ScannerInv
    <3>2. \A t \in deployment.crew : t = s
      BY <1>4, <3>1 DEF Exclusive
    <3>3. QED
      BY <3>2 DEF QueueInv, ScannerInv
  <2>2. job[s] \in Jobs /\ claimable(row[job[s]].status) /\ job' = [job EXCEPT ![s] = job[s]]
    BY <1>4 DEF Take, QueueInv, TypeOK, ScannerInv
  <2>3. row' = [row EXCEPT ![job[s]].status = "running"]
    BY <1>4, <2>2 DEF Take
  <2>4. QED
    BY <1>4, <2>1, <2>2, <2>3, Claimed DEF Take
<1>5. ASSUME NEW s \in Scanners, s \in deployment.crew, Reject(s), UNCHANGED deployment
      PROVE  QueueInv'
  <2>1. TypeOK' /\ Apart'
    BY <1>5 DEF Reject, QueueInv, TypeOK, Apart
  <2>2. \A t \in Scanners : ScannerInv(t)'
    BY <1>5 DEF Reject, QueueInv, TypeOK, ScannerInv
  <2>3. \A k \in Jobs : JobInv(k)'
    BY <1>5 DEF Reject, QueueInv, JobInv
  <2>4. QED
    BY <2>1, <2>2, <2>3 DEF QueueInv
<1>6. ASSUME NEW s \in Scanners, s \in deployment.crew, Execute(s), UNCHANGED deployment
      PROVE  QueueInv'
  <2>1. /\ job[s] \in Jobs /\ runs[job[s]] <= row[job[s]].attempts
        /\ row[job[s]].attempts < MaxAttempts /\ row[job[s]].status = "running"
    BY <1>6 DEF Execute, QueueInv, ScannerInv, JobInv
  <2>2. /\ runs[job[s]] \in Nat /\ row[job[s]].attempts \in Nat /\ MaxAttempts \in Nat
    BY <2>1, QueueAssumption DEF QueueInv, TypeOK
  <2>3. runs' = [runs EXCEPT ![job[s]] = @ + 1]
    <3>1. ~(runs[job[s]] > MaxAttempts)
      BY <2>1, <2>2
    <3>2. QED
      BY <1>6, <3>1 DEF Execute
  <2>4. PICK outcome \in {"completed", "retry"} : wanted' = [wanted EXCEPT ![s] = outcome]
    BY <1>6 DEF Execute
  <2>5. TypeOK' /\ Apart'
    BY <1>6, <2>1, <2>2, <2>3, <2>4 DEF Execute, QueueInv, TypeOK, Apart
  <2>6. ASSUME NEW t \in Scanners
        PROVE  ScannerInv(t)'
    <3>1. CASE t = s
      BY <1>6, <2>1, <2>4, <3>1 DEF Execute, QueueInv, TypeOK, ScannerInv
    <3>2. CASE t # s
      <4>1. pc[t] \in Working => job[t] # job[s]
        BY <1>6, <3>2 DEF Execute, QueueInv, Apart
      <4>2. QED
        BY <1>6, <2>1, <2>3, <2>4, <3>2, <4>1 DEF Execute, QueueInv, TypeOK, ScannerInv
    <3>3. QED
      BY <3>1, <3>2
  <2>7. \A k \in Jobs : JobInv(k)'
    BY <1>6, <2>1, <2>2, <2>3 DEF Execute, QueueInv, TypeOK, JobInv
  <2>8. QED
    BY <2>5, <2>6, <2>7 DEF QueueInv
<1>7. ASSUME NEW s \in Scanners, s \in deployment.crew, Complete(s), UNCHANGED deployment
      PROVE  QueueInv'
  BY <1>7, Completed DEF Complete
<1>8. ASSUME NEW s \in Scanners, s \in deployment.crew, ReadRow(s), UNCHANGED deployment
      PROVE  QueueInv'
  <2>1. TypeOK' /\ Apart'
    BY <1>8 DEF ReadRow, QueueInv, TypeOK, Apart, ScannerInv
  <2>2. \A t \in Scanners : ScannerInv(t)'
    BY <1>8 DEF ReadRow, QueueInv, TypeOK, ScannerInv
  <2>3. \A k \in Jobs : JobInv(k)'
    BY <1>8 DEF ReadRow, QueueInv, JobInv
  <2>4. QED
    BY <2>1, <2>2, <2>3 DEF QueueInv
<1>9. ASSUME NEW s \in Scanners, s \in deployment.crew, WriteRow(s), UNCHANGED deployment
      PROVE  QueueInv'
  <2>1. read[s] = row[job[s]]
    BY <1>9 DEF WriteRow, QueueInv, ScannerInv
  <2>2. QED
    BY <1>9, <2>1, Completed DEF WriteRow
<1>10. ASSUME NEW s \in Scanners, s \in deployment.crew, CompleteRaises(s), UNCHANGED deployment
       PROVE  QueueInv'
  <2>1. TypeOK' /\ Apart'
    <3>1. job[s] \in Jobs
      BY <1>10 DEF CompleteRaises, QueueInv, ScannerInv
    <3>2. /\ UNCHANGED <<row, created, job, read, runs, crashes>> /\ faults' = faults + 1
          /\ lost' = lost \/ lost' = lost \union {job[s]}
          /\ wanted' = wanted \/ wanted' = [wanted EXCEPT ![s] = "retry"]
          /\ pc' = [pc EXCEPT ![s] = "idle"] \/ pc' = [pc EXCEPT ![s] = "completing"]
      BY <1>10 DEF CompleteRaises
    <3>3. TypeOK'
      <4>1. pc' \in [Scanners -> {"idle", "claiming", "executing", "completing", "writing"}]
        BY <3>2 DEF QueueInv, TypeOK
      <4>2. wanted' \in [Scanners -> {"completed", "failed", "retry"}]
        BY <3>2 DEF QueueInv, TypeOK
      <4>3. lost' \subseteq Jobs /\ faults' \in Nat
        BY <3>1, <3>2 DEF QueueInv, TypeOK
      <4>4. deployment' \in Deployments
        BY <1>10 DEF QueueInv, TypeOK
      <4>5. QED
        BY <3>2, <4>1, <4>2, <4>3, <4>4 DEF QueueInv, TypeOK
    <3>4. \A t \in Scanners : pc'[t] \in Working => pc[t] \in Working
      BY <1>10, <3>2 DEF CompleteRaises, QueueInv, TypeOK
    <3>5. QED
      BY <3>2, <3>3, <3>4 DEF QueueInv, Apart
  <2>2. \A t \in Scanners : ScannerInv(t)'
    BY <1>10 DEF CompleteRaises, QueueInv, TypeOK, ScannerInv
  <2>3. \A k \in Jobs : JobInv(k)'
    BY <1>10 DEF CompleteRaises, QueueInv, JobInv
  <2>4. QED
    BY <2>1, <2>2, <2>3 DEF QueueInv
<1>11. ASSUME NEW s \in Scanners, s \in deployment.crew, Crash(s), UNCHANGED deployment
       PROVE  QueueInv'
  <2>1. TypeOK' /\ Apart'
    BY <1>11 DEF Crash, QueueInv, TypeOK, Apart, ScannerInv
  <2>2. \A t \in Scanners : ScannerInv(t)'
    BY <1>11 DEF Crash, QueueInv, TypeOK, ScannerInv
  <2>3. \A k \in Jobs : JobInv(k)'
    BY <1>11 DEF Crash, QueueInv, JobInv
  <2>4. QED
    BY <2>1, <2>2, <2>3 DEF QueueInv
<1>12. CASE UNCHANGED vars
  BY <1>12 DEF vars, QueueInv, TypeOK, Apart, ScannerInv, JobInv
<1>13. deployment.crew \subseteq Scanners
  BY QueueAssumption DEF QueueInv, TypeOK
<1>14. QED
  BY <1>13, <1>1, <1>2, <1>3, <1>4, <1>5, <1>6, <1>7, <1>8, <1>9, <1>10, <1>11, <1>12 DEF Next, Step

LEMMA QueueAlways == Exclusive /\ Spec => []QueueInv
<1>1. CASE Exclusive
  <2>1. QueueInv /\ [Next]_vars => QueueInv'
    BY <1>1, QueueNext
  <2>2. QED
    BY <2>1, QueueInit, PTL DEF Spec
<1>2. QED
  BY <1>1

\* A job is executed at most max_attempts times, crashes and store failures included.
THEOREM ExecutionsBounded == Exclusive /\ Spec => []ExecutionsWithinAttempts
<1>1. QueueInv => ExecutionsWithinAttempts
  BY DEF QueueInv, JobInv, ExecutionsWithinAttempts
<1>2. QED
  BY <1>1, QueueAlways, PTL

\* Every variable of the queue keeps its type: no row is charged more attempts than
\* max_attempts (complete_run_job).
THEOREM QueueTypeCorrect == Exclusive /\ Spec => []TypeOK
<1>1. QueueInv => TypeOK
  BY DEF QueueInv
<1>2. QED
  BY <1>1, QueueAlways, PTL

-----------------------------------------------------------------------------
(* Rows that stay running *)

\* Every running row that is not lost is in the hands of a scanner past its claim.
Held ==
  \A j \in Jobs :
    row[j].status = "running" /\ j \notin lost => \E s \in Scanners : pc[s] \in Working /\ job[s] = j

\* What the proof needs of the types.
Statuses == {"absent", "queued", "retry", "running", "completed", "failed"}
Typed ==
  /\ pc \in [Scanners -> {"idle", "claiming", "executing", "completing", "writing"}]
  /\ job \in [Scanners -> Jobs \union {"none"}]
  /\ row \in [Jobs -> [status : Statuses, attempts : 0..MaxAttempts]]

\* A scanner that takes row j, or leaves what it has, keeps the others' rows held.
LEMMA TakingHolds ==
  ASSUME Held, NEW s \in Scanners, pc[s] \notin Working, Typed,
         NEW j \in Jobs, row' = [row EXCEPT ![j].status = "running"],
         pc' = [pc EXCEPT ![s] = "executing"], job' = [job EXCEPT ![s] = j], lost' = lost
  PROVE  Held'
<1> SUFFICES ASSUME NEW k \in Jobs, row'[k].status = "running", k \notin lost
             PROVE  \E t \in Scanners : pc'[t] \in Working /\ job'[t] = k
  BY DEF Held
<1>1. CASE k = j
  BY <1>1 DEF Working, Typed
<1>2. CASE k # j
  <2>1. PICK t \in Scanners : pc[t] \in Working /\ job[t] = k
    BY <1>2 DEF Held
  <2>2. QED
    BY <1>2, <2>1 DEF Typed
<1>3. QED
  BY <1>1, <1>2

LEMMA HeldNext == Exclusive /\ QueueInv /\ Held /\ [Next]_vars => Held'
<1> SUFFICES ASSUME Exclusive, QueueInv, Held, [Next]_vars PROVE Held'
  OBVIOUS
<1> USE DEF Goto
<1>1. Typed
  BY DEF QueueInv, TypeOK, Typed, Statuses, Ended
<1>2. ASSUME NEW j \in Jobs, enqueue(j)
      PROVE  Held'
  <2>1. row' = [row EXCEPT ![j] = [status |-> "queued", attempts |-> 0]]
    BY <1>2 DEF enqueue
  <2>2. \A k \in Jobs : row'[k].status = "running" => row[k].status = "running"
    BY <1>1, <2>1 DEF Typed
  <2>3. pc' = pc /\ job' = job /\ lost' = lost
    BY <1>2 DEF enqueue, scanner
  <2>4. QED
    BY <2>2, <2>3 DEF Held
<1>3. ASSUME NEW s \in Scanners, Claim(s)
      PROVE  Held'
  <2>1. next_job \in Jobs
    BY <1>3, NextJobClaimable DEF Claim, QueueInv
  <2>2. pc[s] \notin Working
    BY <1>3 DEF Claim, Working
  <2>3. QED
    BY <1>1, <1>3, <2>1, <2>2, TakingHolds DEF Claim
<1>4. ASSUME NEW s \in Scanners, Look(s)
      PROVE  Held'
  BY <1>1, <1>4 DEF Look, Held, Working, Typed
<1>5. ASSUME NEW s \in Scanners, Take(s)
      PROVE  Held'
  <2>1. job[s] \in Jobs /\ claimable(row[job[s]].status) /\ job' = [job EXCEPT ![s] = job[s]]
    BY <1>5 DEF Take, QueueInv, TypeOK, ScannerInv
  <2>2. row' = [row EXCEPT ![job[s]].status = "running"]
    BY <1>5, <2>1 DEF Take
  <2>3. pc[s] \notin Working
    BY <1>5 DEF Take, Working
  <2>4. QED
    BY <1>1, <1>5, <2>1, <2>2, <2>3, TakingHolds DEF Take
<1>6. ASSUME NEW s \in Scanners, Reject(s) \/ Execute(s) \/ ReadRow(s)
      PROVE  Held'
  BY <1>1, <1>6 DEF Reject, Execute, ReadRow, Held, Working, Typed
<1>7. ASSUME NEW s \in Scanners, Complete(s) \/ WriteRow(s)
      PROVE  Held'
  <2> DEFINE w == completed_row(row[job[s]], wanted[s])
  <2>1. job[s] \in Jobs /\ (WriteRow(s) => read[s] = row[job[s]])
    BY <1>7 DEF Complete, WriteRow, QueueInv, ScannerInv
  <2>2. wanted[s] \in {"completed", "failed", "retry"}
    BY DEF QueueInv, TypeOK
  <2>3. /\ row[job[s]] \in [status : {"running"}, attempts : 0..MaxAttempts]
        /\ row[job[s]].attempts < MaxAttempts
    BY <1>7, <2>1 DEF Complete, WriteRow, QueueInv, TypeOK, ScannerInv, JobInv, Working
  <2>4. w.status # "running"
    BY <2>2, <2>3, CompletedRow DEF Ended
  <2>5. /\ row' = [row EXCEPT ![job[s]] = w] /\ pc' = [pc EXCEPT ![s] = "idle"]
        /\ job' = job /\ lost' = lost
    BY <1>7, <2>1 DEF Complete, WriteRow
  <2> HIDE DEF w
  <2>6. QED
    BY <1>1, <2>1, <2>4, <2>5 DEF Held, Typed
<1>8. ASSUME NEW s \in Scanners, CompleteRaises(s)
      PROVE  Held'
  BY <1>1, <1>8 DEF CompleteRaises, Held, Working, Typed
<1>9. ASSUME NEW s \in Scanners, Crash(s)
      PROVE  Held'
  BY <1>1, <1>9 DEF Crash, Held, Working, Typed
<1>10. CASE UNCHANGED vars
  BY <1>10 DEF vars, Held
<1>11. deployment.crew \subseteq Scanners
  BY QueueAssumption DEF QueueInv, TypeOK
<1>12. QED
  BY <1>2, <1>3, <1>4, <1>5, <1>6, <1>7, <1>8, <1>9, <1>10, <1>11 DEF Next, Step

\* No row stays running unless a scanner works on it, or its scanner died or could not
\* store its last word (scan_once).
THEOREM OnlyLostJobsAreLeft == Exclusive /\ Spec => []OnlyLostJobsStayRunning
<1>1. Init => Held
  BY DEF Init, Held, Absent
<1>2. QueueInv /\ Held => OnlyLostJobsStayRunning
  BY DEF Held, OnlyLostJobsStayRunning, Working
<1>3. CASE Exclusive
  <2>1. QueueInv /\ Held /\ [Next]_vars => Held'
    BY <1>3, HeldNext
  <2>2. Spec => []QueueInv
    BY <1>3, QueueAlways
  <2>3. QED
    BY <1>1, <1>2, <2>1, <2>2, PTL DEF Spec
<1>4. QED
  BY <1>3

-----------------------------------------------------------------------------
(* The queue keeps its contract *)

\* Steps that change no row are stutters of the contract.
LEMMA SameRowsStutter ==
  ASSUME UNCHANGED row
  PROVE  UNCHANGED <<job_state, [j \in Jobs |-> row[j].attempts]>>
BY DEF job_state

\* What a row's change means to the contract.
LEMMA RowMoves ==
  ASSUME QueueInv, NEW j \in Jobs, NEW w, row' = [row EXCEPT ![j] = w]
  PROVE  /\ job_state' = [job_state EXCEPT ![j] = IF claimable(w.status) THEN "waiting" ELSE w.status]
         /\ [k \in Jobs |-> row[k].attempts]' = [[k \in Jobs |-> row[k].attempts] EXCEPT ![j] = w.attempts]
BY DEF QueueInv, TypeOK, job_state, claimable

LEMMA ContractStep ==
  Exclusive /\ QueueInv /\ [Next]_vars => [Contract!Next]_(Contract!cvars)
<1> SUFFICES ASSUME Exclusive, QueueInv, [Next]_vars, row' # row
             PROVE  Contract!Next
  BY SameRowsStutter DEF Contract!cvars
<1> DEFINE charged == [j \in Jobs |-> row[j].attempts]
<1>1. ASSUME NEW j \in Jobs, enqueue(j)
      PROVE  Contract!Enter(j)
  <2> DEFINE w == [status |-> "queued", attempts |-> 0]
  <2>1. row[j].status = "absent" /\ row[j].attempts = 0
    BY <1>1 DEF enqueue, QueueInv, JobInv
  <2>2. row' = [row EXCEPT ![j] = w] /\ w.status = "queued" /\ w.attempts = 0
    BY <1>1 DEF enqueue
  <2> HIDE DEF w
  <2>3. /\ job_state' = [job_state EXCEPT ![j] = "waiting"]
        /\ charged' = [charged EXCEPT ![j] = 0]
    BY <2>2, RowMoves DEF claimable
  <2>4. charged[j] = 0 /\ job_state[j] = "absent"
    BY <2>1 DEF job_state
  <2>5. charged' = charged
    BY <2>3, <2>4
  <2>6. QED
    BY <2>3, <2>4, <2>5 DEF Contract!Enter, Contract!Move
<1>2. ASSUME NEW s \in Scanners, NEW j \in Jobs, claimable(row[j].status),
             row' = [row EXCEPT ![j].status = "running"]
      PROVE  Contract!Start(j)
  <2> DEFINE w == [row[j] EXCEPT !.status = "running"]
  <2>1. row' = [row EXCEPT ![j] = w] /\ w.status = "running" /\ w.attempts = row[j].attempts
    BY <1>2 DEF QueueInv, TypeOK
  <2> HIDE DEF w
  <2>2. /\ job_state' = [job_state EXCEPT ![j] = "running"]
        /\ charged' = [charged EXCEPT ![j] = row[j].attempts]
    <3>1. /\ job_state' = [job_state EXCEPT ![j] =
                             IF claimable(w.status) THEN "waiting" ELSE w.status]
          /\ charged' = [charged EXCEPT ![j] = w.attempts]
      BY <2>1, RowMoves
    <3>2. QED
      BY <2>1, <3>1 DEF claimable
  <2>3. charged[j] = row[j].attempts /\ job_state[j] = "waiting"
    BY <1>2 DEF job_state, claimable
  <2>4. charged' = charged
    BY <2>2, <2>3
  <2>5. QED
    BY <2>2, <2>3, <2>4 DEF Contract!Start, Contract!Move
<1>3. ASSUME NEW s \in Scanners, NEW j \in Jobs, j = job[s], pc[s] \in {"completing", "writing"},
             row' = [row EXCEPT ![j] = completed_row(row[j], wanted[s])]
      PROVE  Contract!Succeed(j) \/ Contract!Refuse(j) \/ Contract!Fail(j)
  <2> DEFINE r == row[j]
             w == completed_row(r, wanted[s])
  <2>1. wanted[s] \in {"completed", "failed", "retry"}
    BY <1>3 DEF QueueInv, TypeOK, ScannerInv
  <2>2. r \in [status : {"running"}, attempts : 0..MaxAttempts] /\ r.attempts < MaxAttempts
    BY <1>3, <2>1 DEF QueueInv, TypeOK, ScannerInv, JobInv, Working
  <2>3. /\ wanted[s] = "retry" => w.attempts = r.attempts + 1
        /\ wanted[s] # "retry" => w.attempts = r.attempts /\ w.status = wanted[s]
        /\ wanted[s] = "retry" =>
             w.status = IF w.attempts = MaxAttempts THEN "failed" ELSE "retry"
    BY <2>1, <2>2, CompletedRow
  <2>4. row' = [row EXCEPT ![j] = w]
    BY <1>3
  <2> HIDE DEF w
  <2>5. /\ job_state' = [job_state EXCEPT ![j] =
                           IF claimable(w.status) THEN "waiting" ELSE w.status]
        /\ charged' = [charged EXCEPT ![j] = w.attempts]
    BY <2>1, <2>4, RowMoves
  <2>6. job_state[j] = "running" /\ charged[j] = r.attempts
    BY <2>1, <2>2 DEF job_state
  <2>7. charged'[j] = w.attempts
    BY <2>1, <2>5
  <2>8. CASE wanted[s] = "completed"
    <3>1. charged' = charged
      BY <2>1, <2>3, <2>5, <2>8
    <3>2. QED
      BY <2>3, <2>5, <2>6, <2>8, <3>1 DEF Contract!Succeed, Contract!Move, claimable
  <2>9. CASE wanted[s] = "failed"
    <3>1. charged' = charged
      BY <2>1, <2>3, <2>5, <2>9
    <3>2. QED
      BY <2>3, <2>5, <2>6, <2>9, <3>1 DEF Contract!Refuse, Contract!Move, claimable
  <2>10. CASE wanted[s] = "retry"
    BY <2>3, <2>5, <2>6, <2>7, <2>10 DEF Contract!Fail, Contract!Move, claimable
  <2>11. QED
    BY <2>1, <2>8, <2>9, <2>10
<1>4. ASSUME NEW s \in Scanners, Step(s) \/ CompleteRaises(s) \/ Crash(s)
      PROVE  Contract!Next
  <2>1. CASE Claim(s)
    <3>1. next_job \in Jobs /\ claimable(row[next_job].status)
      BY <2>1, NextJobClaimable DEF Claim, QueueInv
    <3>2. QED
      BY <1>2, <2>1, <3>1 DEF Claim, Contract!Next
  <2>2. CASE Take(s)
    <3>1. job[s] \in Jobs /\ claimable(row[job[s]].status)
      BY <2>2 DEF Take, QueueInv, ScannerInv
    <3>2. row' = [row EXCEPT ![job[s]].status = "running"]
      BY <2>2, <3>1 DEF Take
    <3>3. QED
      BY <1>2, <3>1, <3>2 DEF Contract!Next
  <2>3. CASE Complete(s) \/ WriteRow(s)
    <3>1. job[s] \in Jobs /\ (WriteRow(s) => read[s] = row[job[s]])
      BY <2>3 DEF Complete, WriteRow, QueueInv, ScannerInv
    <3>2. row' = [row EXCEPT ![job[s]] = completed_row(row[job[s]], wanted[s])]
      BY <2>3, <3>1 DEF Complete, WriteRow
    <3>3. pc[s] \in {"completing", "writing"}
      BY <2>3 DEF Complete, WriteRow
    <3>4. PICK j \in Jobs : j = job[s]
      BY <3>1
    <3>5. Contract!Succeed(j) \/ Contract!Refuse(j) \/ Contract!Fail(j)
      BY <1>3, <3>2, <3>3, <3>4
    <3>6. QED
      BY <3>5 DEF Contract!Next
  <2>4. QED
    BY <1>4, <2>1, <2>2, <2>3 DEF Step, Look, Reject, Execute, ReadRow, CompleteRaises, Crash
<1>5. deployment.crew \subseteq Scanners
  BY QueueAssumption DEF QueueInv, TypeOK
<1>6. QED
  BY <1>1, <1>4, <1>5 DEF Next, vars, Contract!Next

\* The queue implements the contract of a job, on Postgres with any number of
\* scanners and on SQLite with one.
THEOREM QueueKeepsContract == Exclusive /\ Spec => KeepsContract
<1>1. Init => Contract!Init
  BY DEF Init, Contract!Init, job_state, Absent
<1>2. CASE Exclusive
  <2>1. QueueInv /\ [Next]_vars => [Contract!Next]_(Contract!cvars)
    BY <1>2, ContractStep
  <2>2. Spec => []QueueInv
    BY <1>2, QueueAlways
  <2>3. QED
    BY <1>1, <2>1, <2>2, PTL DEF Spec, KeepsContract, Contract!Spec
<1>3. QED
  BY <1>2
=============================================================================
