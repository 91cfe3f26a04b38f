------------------------ MODULE ComposabilityProofs ------------------------
(***************************************************************************)
(* What a report of the composability harness is about, for any number of  *)
(* runs in one directory: which command wrote the deployed program, which  *)
(* programs were compared, and what was paid.                              *)
(***************************************************************************)
EXTENDS Composability, TLAPS

Before == {"idle", "base", "spawn"}
Labels == Before \cup {"wait", "read", "prompt", "search", "finals",
                       "reported", "raised", "refused"}
States == {"none", "running", "writing", "zero", "nonzero", "killed"}

(* The harness and the files have their types.                             *)
Types ==
  /\ run \in 0 .. MaxRuns /\ allow \in BOOLEAN /\ at \in Labels
  /\ at \notin Over => run \in Runs
  /\ output \in Programs \cup {Absent, Torn}
  /\ command \in [Runs -> States]
  /\ wrote \in [Runs -> BOOLEAN]
  /\ orphans \subseteq Runs
  /\ deployed \in Programs

(* The commands of later runs have not begun; one that lives is waited for *)
(* or has outlived its run; the harness reads after a success.             *)
Commands ==
  /\ \A r \in Runs : r > run \/ (r = run /\ at \in Before) =>
       command[r] = "none" /\ ~wrote[r]
  /\ \A r \in Runs : Alive(r) => r \in orphans \/ (r = run /\ at = "wait")
  /\ at = "read" \/ Accepted => command[run] = "zero"

(* A file of another run is there because this run's command has written   *)
(* nothing, or because the other one has outlived its run.                 *)
FileIsVouched ==
  at \in {"wait", "read"} /\ output \in Programs =>
    \/ output.prompt \in {Base.prompt, run}
    \/ ~wrote[run]
    \/ output.prompt \in orphans

Vouched == Types /\ Commands /\ FileIsVouched /\ DeployedIsVouched

(* The initial state.                                                      *)
LEMMA VouchedInit == Init => Vouched
<1> SUFFICES ASSUME Init PROVE Vouched
  OBVIOUS
<1>1. Base \in Programs
  BY ComposabilityAssumption DEF Base, Programs
<1>2. Types
  <2>1. run \in 0 .. MaxRuns /\ at \in Labels /\ at \in Over
    BY ComposabilityAssumption DEF Init, Labels, Before, Over
  <2>2. command \in [Runs -> States] /\ wrote \in [Runs -> BOOLEAN]
    BY DEF Init, States
  <2>3. QED BY <1>1, <2>1, <2>2 DEF Init, Types
<1>3. Commands
  BY ComposabilityAssumption DEF Init, Commands, Before, Alive, Accepted, Runs
<1>4. FileIsVouched /\ DeployedIsVouched
  BY DEF Init, FileIsVouched, DeployedIsVouched, Accepted
<1>5. QED BY <1>2, <1>3, <1>4 DEF Vouched

(* The steps in which neither a command nor a file changes.                *)
LEMMA VouchedHarness ==
  ASSUME Vouched,
         \/ NewRun \/ EvaluateBase \/ CommandSucceeded \/ CommandFailed
         \/ Unreadable \/ EvaluatePrompt \/ Search \/ EvaluateFinal \/ Report
  PROVE  Vouched'
<1> USE ComposabilityAssumption, FileAssumption
    DEF Vouched, Types, Commands, FileIsVouched, DeployedIsVouched, Before,
        Labels, States, Over, Alive, Accepted, Runs, shell, books
<1>1. CASE NewRun
  <2>1. Base \in Programs BY DEF Base, Programs
  <2>2. deployed' = Base BY <1>1 DEF NewRun
  <2>3. Types' BY <1>1, <2>1 DEF NewRun
  <2>4. Commands' BY <1>1 DEF NewRun
  <2>5. QED BY <1>1, <2>3, <2>4 DEF NewRun
<1>2. CASE EvaluateBase BY <1>2 DEF EvaluateBase, Evaluate
<1>3. CASE CommandSucceeded BY <1>3 DEF CommandSucceeded, ExitZero
<1>4. CASE CommandFailed BY <1>4 DEF CommandFailed, ExitZero
<1>5. CASE Unreadable BY <1>5 DEF Unreadable
<1>6. CASE EvaluatePrompt BY <1>6 DEF EvaluatePrompt, Evaluate
<1>7. CASE Search BY <1>7 DEF Search
<1>8. CASE EvaluateFinal BY <1>8 DEF EvaluateFinal, Evaluate
<1>9. CASE Report BY <1>9 DEF Report
<1>10. QED BY <1>1, <1>2, <1>3, <1>4, <1>5, <1>6, <1>7, <1>8, <1>9

(* The steps that begin, end or read a command.                            *)
LEMMA VouchedCommand ==
  ASSUME Vouched, Spawn \/ Timeout \/ Deploy \/ Interrupt
  PROVE  Vouched'
<1> USE ComposabilityAssumption, FileAssumption
    DEF Vouched, Types, Commands, FileIsVouched, DeployedIsVouched, Before,
        Labels, States, Over, Alive, Accepted, Runs, shell, books
<1>1. CASE Spawn BY <1>1 DEF Spawn
<1>2. CASE Timeout BY <1>2 DEF Timeout, KillShell
<1>3. CASE Deploy BY <1>3 DEF Deploy
<1>4. CASE Interrupt
  <2>1. CASE UNCHANGED <<command, orphans>> /\ ~Alive(run)
    BY <1>4, <2>1 DEF Interrupt
  <2>2. CASE KillShell
    BY <1>4, <2>2 DEF Interrupt, KillShell
  <2>3. QED BY <1>4, <2>1, <2>2 DEF Interrupt
<1>5. QED BY <1>1, <1>2, <1>3, <1>4

(* The steps of the commands themselves.                                   *)
LEMMA VouchedOutput ==
  ASSUME Vouched, NEW r \in Runs, OpenOutput(r) \/ WriteOutput(r) \/ Exit(r)
  PROVE  Vouched'
<1> USE ComposabilityAssumption, FileAssumption
    DEF Vouched, Types, Commands, FileIsVouched, DeployedIsVouched, Before,
        Labels, States, Over, Alive, Accepted, Runs, shell, books
<1>1. CASE OpenOutput(r) BY <1>1 DEF OpenOutput
<1>2. CASE WriteOutput(r)
  <2>1. output' \in Programs /\ output'.prompt \in {Base.prompt, r}
    BY <1>2 DEF WriteOutput, Programs
  <2>2. Types' BY <1>2, <2>1 DEF WriteOutput
  <2>3. Commands' BY <1>2 DEF WriteOutput
  <2>4. FileIsVouched' BY <1>2, <2>1 DEF WriteOutput
  <2>5. DeployedIsVouched' BY <1>2 DEF WriteOutput
  <2>6. QED BY <2>2, <2>3, <2>4, <2>5
<1>3. CASE Exit(r) BY <1>3 DEF Exit
<1>4. QED BY <1>1, <1>2, <1>3

(* Whatever is deployed, the command of its run has succeeded; the prompts *)
(* are that command's or the base program's, but for the two cases         *)
(* DeployedIsVouched names.                                                *)
THEOREM DeployedProvenance == Spec => []DeployedIsVouched
<1>1. Vouched /\ [Next]_vars => Vouched'
  <2>1. CASE UNCHANGED vars
    BY <2>1 DEF vars, Vouched, Types, Commands, FileIsVouched,
                DeployedIsVouched, Alive, Accepted
  <2>2. QED
    BY <2>1, VouchedHarness, VouchedCommand, VouchedOutput
    DEF Next, Harness, Command
<1>2. Vouched => DeployedIsVouched BY DEF Vouched
<1>3. QED BY <1>1, <1>2, VouchedInit, PTL DEF Spec

-----------------------------------------------------------------------------
(* The programs evaluated so far, stage by stage.                          *)
Compared ==
  /\ deployed \in Programs
  /\ Accepted => deployed.demos = BaseDemos
  /\ results \in Seq(Programs)
  /\ at = "base" => results = <<>>
  /\ at \in {"spawn", "wait", "read", "prompt"} => results = <<Base>>
  /\ at \in {"search", "finals", "reported"} =>
       /\ Len(results) >= 2 /\ results[1] = Base
       /\ \A i \in 2 .. Len(results) : results[i] = deployed

(* The initial state.                                                      *)
LEMMA ComparedInit == Init => Compared
<1>1. Base \in Programs
  BY ComposabilityAssumption DEF Base, Programs
<1>2. QED BY <1>1 DEF Init, Compared, Accepted

(* One more evaluation of the deployed program.                            *)
LEMMA ComparedOneMore ==
  ASSUME Compared, NEW p \in Programs, results' = Append(results, p)
  PROVE  /\ results' \in Seq(Programs)
         /\ Len(results') = Len(results) + 1
         /\ \A i \in 1 .. Len(results) : results'[i] = results[i]
         /\ results'[Len(results) + 1] = p
  BY DEF Compared

(* Every step.                                                             *)
LEMMA ComparedNext == Compared /\ [Next]_vars => Compared'
<1> SUFFICES ASSUME Compared, [Next]_vars PROVE Compared'
  OBVIOUS
<1>1. Base \in Programs
  BY ComposabilityAssumption DEF Base, Programs
<1>2. CASE NewRun
  <2>1. results' = <<>> /\ deployed' = Base /\ at' = "base"
    BY <1>2 DEF NewRun
  <2>2. QED BY <1>1, <2>1 DEF Compared, Accepted
<1>3. CASE EvaluateBase
  <2>1. results' = <<Base>>
    BY <1>3 DEF EvaluateBase, Evaluate, Compared
  <2>2. at' = "spawn" /\ deployed' = deployed
    BY <1>3 DEF EvaluateBase
  <2>3. QED BY <1>1, <2>1, <2>2 DEF Compared, Accepted
<1>4. CASE Spawn \/ CommandSucceeded \/ CommandFailed \/ Timeout
           \/ Unreadable \/ Interrupt
  <2>1. UNCHANGED <<results, deployed>>
    BY <1>4 DEF Spawn, CommandSucceeded, CommandFailed, Timeout, Unreadable,
                Interrupt, books
  <2>2. \/ at' \in {"wait", "read"} /\ at \in {"spawn", "wait"}
        \/ at' = "raised"
    BY <1>4 DEF Spawn, CommandSucceeded, CommandFailed, Timeout, Unreadable,
                Interrupt
  <2>3. QED BY <2>1, <2>2 DEF Compared, Accepted
<1>5. CASE Deploy
  <2>1. /\ output \in Programs /\ deployed' = output
        /\ at = "read" /\ results' = results
    BY <1>5 DEF Deploy, books
  <2>2. \/ at' = "refused"
        \/ at' = "prompt" /\ deployed'.demos = BaseDemos
    BY <1>5 DEF Deploy, HarnessAccepts, CallGraph, Base
  <2>3. QED BY <2>1, <2>2 DEF Compared, Accepted
<1>6. CASE EvaluatePrompt
  <2>1. /\ results' = Append(results, deployed) /\ results = <<Base>>
        /\ at' = "search" /\ deployed' = deployed /\ Accepted
    BY <1>6 DEF EvaluatePrompt, Evaluate, Compared, Accepted
  <2>2. deployed \in Programs /\ deployed.demos = BaseDemos
    BY <2>1 DEF Compared
  <2>3. Len(results) = 1 /\ results[1] = Base
    BY <2>1
  <2>4. /\ results' \in Seq(Programs) /\ Len(results') = 2
        /\ results'[1] = Base /\ results'[2] = deployed
    BY <2>1, <2>2, <2>3, ComparedOneMore
  <2>5. QED BY <2>1, <2>2, <2>4 DEF Compared
<1>7. CASE Search \/ Report
  BY <1>7 DEF Search, Report, Compared, Accepted
<1>8. CASE EvaluateFinal
  <2>1. results' = Append(results, deployed) /\ at = "finals"
    BY <1>8 DEF EvaluateFinal, Evaluate
  <2>2. at' = at /\ deployed' = deployed
    BY <1>8 DEF EvaluateFinal
  <2>3. deployed \in Programs
    BY DEF Compared
  <2>4. Len(results) \in Nat /\ Len(results) >= 2
    BY <2>1 DEF Compared
  <2>5. /\ results' \in Seq(Programs)
        /\ Len(results') = Len(results) + 1
        /\ \A i \in 1 .. Len(results) : results'[i] = results[i]
        /\ results'[Len(results) + 1] = deployed
    BY <2>1, <2>3, ComparedOneMore
  <2>6. results'[1] = Base /\ Len(results') >= 2
    BY <2>1, <2>4, <2>5 DEF Compared
  <2>7. \A i \in 2 .. Len(results') : results'[i] = deployed
    BY <2>1, <2>4, <2>5 DEF Compared
  <2>8. QED BY <2>1, <2>2, <2>5, <2>6, <2>7 DEF Compared, Accepted
<1>9. CASE Command \/ UNCHANGED vars
  BY <1>9 DEF Command, OpenOutput, WriteOutput, Exit, books, vars, Compared,
              Accepted
<1>10. QED
  BY <1>2, <1>3, <1>4, <1>5, <1>6, <1>7, <1>8, <1>9 DEF Next, Harness

(* A report compares the base program with the deployed one and with       *)
(* schemas on the deployed one, all with the base program's demo ids.      *)
THEOREM ReportsCompareAlike == Spec => []ComparedAlike
<1>1. Compared => ComparedAlike
  <2> SUFFICES ASSUME Compared, at = "reported" PROVE ComparedAlike
    BY DEF ComparedAlike
  <2>1. /\ deployed.demos = BaseDemos /\ Base.demos = BaseDemos
        /\ results[1] = Base /\ Len(results) \in Nat
        /\ \A i \in 2 .. Len(results) : results[i] = deployed
    BY DEF Compared, Accepted, Base
  <2>2. \A i \in DOMAIN results : i = 1 \/ i \in 2 .. Len(results)
    BY <2>1 DEF Compared
  <2>3. QED BY <2>1, <2>2 DEF ComparedAlike
<1>2. QED BY <1>1, ComparedInit, ComparedNext, PTL DEF Spec

-----------------------------------------------------------------------------
(* What was paid is the cost of the evaluations and at most what the       *)
(* closed loop reports.                                                    *)
PaidInv ==
  /\ Compared
  /\ paid \in Nat /\ optimizer \in Nat
  /\ at \in Over \ {"reported"} \/ at \in {"finals", "reported"}
       \/ optimizer = 0
  /\ paid <= EvalCalls * Len(results) + optimizer
  /\ ReportCoversPaid

(* An evaluation adds EvalCalls to both sides.                             *)
LEMMA PaidOneMore ==
  ASSUME NEW n \in Nat, NEW c \in Nat, NEW o \in Nat, NEW q \in Nat,
         q <= c * n + o
  PROVE  q + c <= c * (n + 1) + o
<1>1. c * (n + 1) = c * n + c
  OBVIOUS
<1>2. c * n \in Nat
  OBVIOUS
<1>3. QED BY <1>1, <1>2

(* Rollouts from a cache are reported and not paid.                        *)
LEMMA PaidCached ==
  ASSUME NEW q \in Nat, NEW c \in Nat, NEW o \in Nat, NEW k \in 0 .. o,
         q <= c
  PROVE  q + o - k \in Nat /\ q + o - k <= c + o
  OBVIOUS

(* Every step.                                                             *)
LEMMA PaidNext == PaidInv /\ [Next]_vars => PaidInv'
<1> SUFFICES ASSUME PaidInv, [Next]_vars PROVE PaidInv'
  OBVIOUS
<1>1. Compared'
  BY ComparedNext DEF PaidInv
<1>2. Len(results) \in Nat /\ EvalCalls \in Nat
  BY ComposabilityAssumption DEF PaidInv, Compared
<1>3. EvalCalls * Len(results) \in Nat
  BY <1>2
<1>4. CASE NewRun
  <2>1. /\ results' = <<>> /\ paid' = 0 /\ optimizer' = 0 /\ at' = "base"
    BY <1>4 DEF NewRun
  <2>2. Len(results') = 0
    BY <2>1
  <2>3. paid' <= EvalCalls * Len(results') + optimizer'
    BY <1>2, <2>1, <2>2
  <2>4. QED BY <1>1, <2>1, <2>3 DEF PaidInv, ReportCoversPaid
<1>5. ASSUME NEW p \in Programs, Evaluate(p), optimizer' = optimizer,
             at' # "reported",
             at' \in {"finals", "raised"} \/ optimizer = 0
      PROVE  PaidInv'
  <2>1. Len(results') = Len(results) + 1
    BY <1>5, ComparedOneMore DEF Evaluate, PaidInv
  <2>2. paid' = paid + EvalCalls /\ paid' \in Nat
    BY <1>2, <1>5 DEF Evaluate, PaidInv
  <2>3. paid + EvalCalls <= EvalCalls * (Len(results) + 1) + optimizer
    BY <1>2, PaidOneMore DEF PaidInv
  <2>4. paid' <= EvalCalls * Len(results') + optimizer'
    BY <1>5, <2>1, <2>2, <2>3
  <2>5. QED BY <1>1, <1>5, <2>2, <2>4 DEF PaidInv, ReportCoversPaid, Over
<1>6. CASE EvaluateBase
  <2>1. Base \in Programs
    BY ComposabilityAssumption DEF Base, Programs
  <2>2. QED BY <1>5, <1>6, <2>1 DEF EvaluateBase, PaidInv, Over
<1>7. CASE EvaluatePrompt \/ EvaluateFinal
  <2>1. deployed \in Programs
    BY DEF PaidInv, Compared
  <2>2. QED
    BY <1>5, <1>7, <2>1 DEF EvaluatePrompt, EvaluateFinal, PaidInv, Over
<1>8. CASE Search
  <2>1. /\ at' = "finals" /\ results' = results
        /\ optimizer' \in Nat /\ optimizer = 0
        /\ \E cached \in 0 .. optimizer' : paid' = paid + optimizer' - cached
    BY <1>8, ComposabilityAssumption DEF Search, PaidInv, Over
  <2>2. PICK cached \in 0 .. optimizer' : paid' = paid + optimizer' - cached
    BY <2>1
  <2>3. paid \in Nat /\ paid <= EvalCalls * Len(results)
    BY <1>3, <2>1 DEF PaidInv
  <2>4. paid' \in Nat /\ paid' <= EvalCalls * Len(results) + optimizer'
    BY <1>3, <2>1, <2>2, <2>3, PaidCached
  <2>5. QED BY <1>1, <2>1, <2>4 DEF PaidInv, ReportCoversPaid
<1>9. CASE Report
  <2>1. /\ at' = "reported" /\ total' = EvalCalls * Len(results) + optimizer
        /\ UNCHANGED <<results, optimizer, paid>>
    BY <1>9 DEF Report, BudgetSummary
  <2>2. QED BY <1>1, <2>1 DEF PaidInv, ReportCoversPaid
<1>10. CASE Spawn \/ CommandSucceeded \/ CommandFailed \/ Timeout
            \/ Unreadable \/ Deploy \/ Interrupt
  <2>1. UNCHANGED books /\ at' # "reported"
    BY <1>10 DEF Spawn, CommandSucceeded, CommandFailed, Timeout, Unreadable,
                 Deploy, Interrupt
  <2>2. \/ at \in {"spawn", "wait", "read"}
        \/ at' = "raised"
    BY <1>10 DEF Spawn, CommandSucceeded, CommandFailed, Timeout, Unreadable,
                 Deploy, Interrupt
  <2>3. QED BY <1>1, <2>1, <2>2 DEF PaidInv, ReportCoversPaid, books, Over
<1>11. CASE Command \/ UNCHANGED vars
  BY <1>1, <1>11 DEF Command, OpenOutput, WriteOutput, Exit, books, vars,
                     PaidInv, ReportCoversPaid
<1>12. QED
  BY <1>4, <1>6, <1>7, <1>8, <1>9, <1>10, <1>11 DEF Next, Harness

(* A report never states less than its run has paid.                       *)
THEOREM ReportsCoverPaid == Spec => []ReportCoversPaid
<1>1. Init => PaidInv
  <2> SUFFICES ASSUME Init PROVE PaidInv
    OBVIOUS
  <2>1. Len(results) = 0 /\ paid = 0 /\ optimizer = 0 /\ at = "idle"
    BY DEF Init
  <2>2. paid <= EvalCalls * Len(results) + optimizer
    BY <2>1, ComposabilityAssumption
  <2>3. QED BY <2>1, <2>2, ComparedInit DEF PaidInv, ReportCoversPaid
<1>2. PaidInv => ReportCoversPaid BY DEF PaidInv
<1>3. QED BY <1>1, <1>2, PaidNext, PTL DEF Spec
=============================================================================
