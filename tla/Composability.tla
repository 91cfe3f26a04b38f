--------------------------- MODULE Composability ---------------------------
(***************************************************************************)
(* run_prompt_optimizer_then_schemaevo                                     *)
(* (src/schemaevo/experiments/composability.py) with the external prompt   *)
(* optimizer it is given (experiments/external_prompt_optimizer.py): the   *)
(* harness evaluates the base program, runs a shell command that writes an *)
(* optimized program to a file, deploys what it finds in the file, runs    *)
(* the closed loop on it and evaluates the schemas of the final front.     *)
(*                                                                         *)
(* The harness may be run again in the same directory.  A command may hang,*)
(* fail, write nothing, write twice or stop in the middle of a write; the  *)
(* timeout and an interruption end the shell, not always the command.      *)
(*                                                                         *)
(* A program is its prompts, named by the run whose command wrote them,    *)
(* and its demo_ids.  Of the file few_shot_demo_ids are taken over as well *)
(* (apply_prompt_spec); they are left out here: no check looks at them     *)
(* where there are demo_ids, and no call is made with them.                *)
(***************************************************************************)
EXTENDS Integers, Sequences

CONSTANTS
  MaxRuns,          \* bound: how often the harness is started
  MaxFinals,        \* bound: schemas on the final front
  Demos,            \* demo ids a command may choose
  BaseDemos,        \* demo ids of the base program
  EvalCalls,        \* target task calls of one evaluation
  OptimizerCalls,   \* calls the closed loop may report
  Absent, Torn

ASSUME ComposabilityAssumption ==
  /\ MaxRuns \in Nat /\ MaxFinals \in Nat /\ EvalCalls \in Nat
  /\ OptimizerCalls \subseteq Nat
  /\ BaseDemos \in Demos
  /\ Absent # Torn

Runs == 1 .. MaxRuns

Base == [prompt |-> 0, demos |-> BaseDemos]

Programs == [prompt : {Base.prompt} \cup Runs, demos : Demos]

ASSUME FileAssumption == Absent \notin Programs /\ Torn \notin Programs

VARIABLES
  run,        \* the run of the harness, 0 before the first
  allow,      \* allow_demo_changes of this run
  at,         \* where the harness is
  output,     \* <name>_output_program.json
  command,    \* command[r]: what the command of run r is doing
  wrote,      \* wrote[r]: the command of run r has written its output
  orphans,    \* runs whose command has outlived them
  deployed,   \* the program the prompt optimizer returned
  results,    \* programs evaluated on the evaluation examples, in order
  finals,     \* schemas of the final front still to be evaluated
  optimizer,  \* calls in the closed loop's budget summary
  paid,       \* calls paid in this run
  total       \* total_target_task_calls of the report

vars == <<run, allow, at, output, command, wrote, orphans, deployed, results,
          finals, optimizer, paid, total>>

shell == <<output, command, wrote, orphans>>
books == <<results, finals, optimizer, paid, total>>

Over == {"idle", "reported", "raised", "refused"}

-----------------------------------------------------------------------------
(* What the harness compares *)

(* A call graph without the demo ids.                                      *)
CallGraphWithoutDemos(program) == TRUE

(* extract_call_graph: all else is the base program's own.                 *)
CallGraph(program) == program.demos

(* _assert_same_deployment_graph compares what the file cannot change.     *)
DeploymentGraph(program) == TRUE

(* ExternalPromptOptimizer: the deployment graph if demo changes are       *)
(* allowed, the call graph otherwise.                                      *)
OptimizerAccepts(program) ==
  IF allow THEN DeploymentGraph(program) = DeploymentGraph(Base)
           ELSE CallGraph(program) = CallGraph(Base)

(* The harness, and evaluate_program with base_program as its baseline.    *)
HarnessAccepts(program) == CallGraph(program) = CallGraph(Base)

-----------------------------------------------------------------------------
(* The harness *)

NewRun ==
  /\ at \in Over /\ run < MaxRuns
  /\ run' = run + 1
  /\ allow' \in BOOLEAN
  /\ at' = "base"
  /\ deployed' = Base
  /\ results' = <<>> /\ finals' = 0
  /\ optimizer' = 0 /\ paid' = 0 /\ total' = 0
  /\ UNCHANGED shell

(* evaluate_program without a rollout cache: every call is paid.           *)
Evaluate(program) ==
  /\ results' = Append(results, program)
  /\ paid' = paid + EvalCalls

EvaluateBase ==
  /\ at = "base"
  /\ Evaluate(Base)
  /\ at' = "spawn"
  /\ UNCHANGED <<run, allow, shell, deployed, finals, optimizer, total>>

(* The input file is written and the command started.                      *)
Spawn ==
  /\ at = "spawn"
  /\ command' = [command EXCEPT ![run] = "running"]
  /\ at' = "wait"
  /\ UNCHANGED <<run, allow, output, wrote, orphans, deployed, books>>

Alive(r) == command[r] \in {"running", "writing"}

(* Any exit is as good as another (check=False).                           *)
ExitAny == command[run] \in {"zero", "nonzero"}

ExitZero == command[run] = "zero"

CommandSucceeded ==
  /\ at = "wait" /\ ExitZero
  /\ at' = "read"
  /\ UNCHANGED <<run, allow, shell, deployed, books>>

CommandFailed ==
  /\ at = "wait" /\ ~Alive(run) /\ ~ExitZero
  /\ at' = "raised"
  /\ UNCHANGED <<run, allow, shell, deployed, books>>

(* The command may outlive the shell that started it.                      *)
KillShell ==
  \/ /\ command' = [command EXCEPT ![run] = "killed"]
     /\ UNCHANGED orphans
  \/ /\ orphans' = orphans \cup {run}
     /\ UNCHANGED command

(* A harness that waits for the command as long as it takes.               *)
TimeoutNever == FALSE /\ UNCHANGED vars

(* subprocess.run kills the shell and raises.                              *)
Timeout ==
  /\ at = "wait" /\ Alive(run)
  /\ KillShell
  /\ at' = "raised"
  /\ UNCHANGED <<run, allow, output, wrote, deployed, books>>

(* No file, or one that json.loads refuses.                                *)
Unreadable ==
  /\ at = "read" /\ output \in {Absent, Torn}
  /\ at' = "raised"
  /\ UNCHANGED <<run, allow, shell, deployed, books>>

(* Whatever whole file is there is applied to the base program; a program  *)
(* that the optimizer or the harness does not accept ends the run.         *)
Deploy ==
  /\ at = "read" /\ output \in Programs
  /\ deployed' = output
  /\ at' = IF OptimizerAccepts(output) /\ HarnessAccepts(output)
           THEN "prompt" ELSE "refused"
  /\ UNCHANGED <<run, allow, shell, books>>

EvaluatePrompt ==
  /\ at = "prompt"
  /\ Evaluate(deployed)
  /\ at' = "search"
  /\ UNCHANGED <<run, allow, shell, deployed, finals, optimizer, total>>

(* schema_evo_optimize has a rollout cache, which it keeps from run to     *)
(* run: it may pay less than it reports.  Its front may be empty.          *)
Search ==
  /\ at = "search"
  /\ optimizer' \in OptimizerCalls
  /\ \E cached \in 0 .. optimizer' : paid' = paid + optimizer' - cached
  /\ finals' \in 0 .. MaxFinals
  /\ at' = "finals"
  /\ UNCHANGED <<run, allow, shell, deployed, results, total>>

EvaluateFinal ==
  /\ at = "finals" /\ finals > 0
  /\ Evaluate(deployed)
  /\ finals' = finals - 1
  /\ UNCHANGED <<run, allow, at, shell, deployed, optimizer, total>>

(* A summary of the prompt's and the schemas' evaluations.                 *)
SummaryWithoutBase == EvalCalls * (Len(results) - 1) + optimizer

(* _budget_summary: all evaluations and the closed loop's own count.       *)
BudgetSummary == EvalCalls * Len(results) + optimizer

Report ==
  /\ at = "finals" /\ finals = 0
  /\ total' = BudgetSummary
  /\ at' = "reported"
  /\ UNCHANGED <<run, allow, shell, deployed, results, finals, optimizer,
                 paid>>

(* An exception of a runner, or an interruption of the harness.            *)
Interrupt ==
  /\ at \notin Over
  /\ IF Alive(run) THEN KillShell ELSE UNCHANGED <<command, orphans>>
  /\ at' = "raised"
  /\ UNCHANGED <<run, allow, output, wrote, deployed, books>>

-----------------------------------------------------------------------------
(* The command of run r, in or after that run.  It opens its output for    *)
(* writing, writes a program, and exits, perhaps between the two.          *)
OpenOutput(r) ==
  /\ command[r] = "running"
  /\ command' = [command EXCEPT ![r] = "writing"]
  /\ output' = Torn
  /\ UNCHANGED <<run, allow, at, wrote, orphans, deployed, books>>

(* A command may leave the prompts out and return the demo ids alone.      *)
WriteOutput(r) ==
  /\ command[r] = "writing"
  /\ command' = [command EXCEPT ![r] = "running"]
  /\ output' \in [prompt : {Base.prompt, r}, demos : Demos]
  /\ wrote' = [wrote EXCEPT ![r] = TRUE]
  /\ UNCHANGED <<run, allow, at, orphans, deployed, books>>

Exit(r) ==
  /\ Alive(r)
  /\ \/ command[r] = "running" /\ command' = [command EXCEPT ![r] = "zero"]
     \/ command' = [command EXCEPT ![r] = "nonzero"]
  /\ UNCHANGED <<run, allow, at, output, wrote, orphans, deployed, books>>

-----------------------------------------------------------------------------
Init ==
  /\ run = 0 /\ allow = FALSE /\ at = "idle"
  /\ output = Absent
  /\ command = [r \in Runs |-> "none"]
  /\ wrote = [r \in Runs |-> FALSE]
  /\ orphans = {}
  /\ deployed = Base
  /\ results = <<>> /\ finals = 0
  /\ optimizer = 0 /\ paid = 0 /\ total = 0

Harness ==
  \/ EvaluateBase \/ Spawn
  \/ CommandSucceeded \/ CommandFailed \/ Timeout
  \/ Unreadable \/ Deploy
  \/ EvaluatePrompt \/ Search \/ EvaluateFinal \/ Report

Command == \E r \in Runs : OpenOutput(r) \/ WriteOutput(r) \/ Exit(r)

Next == NewRun \/ Harness \/ Interrupt \/ Command

(* The harness goes on while it can; nothing is assumed of the command.    *)
Spec == Init /\ [][Next]_vars /\ WF_vars(Harness)

-----------------------------------------------------------------------------
(* Programs of this run that went through the prompt optimizer.            *)
Accepted == at \in {"prompt", "search", "finals", "reported"}

(* Nothing is deployed unless the command of this run has ended with status*)
(* zero, and the prompts deployed are those of this command or the base    *)
(* program's own, which a command may leave as they are.  The two          *)
(* exceptions are a command that succeeded without writing, for which the  *)
(* file of an earlier run is taken, and a command that has outlived its own*)
(* run and may write whenever it likes (ExternalPromptOptimizer.__call__). *)
DeployedIsVouched ==
  Accepted =>
    /\ command[run] = "zero"
    /\ \/ deployed.prompt \in {Base.prompt, run}
       \/ ~wrote[run]
       \/ deployed.prompt \in orphans

(* All programs a report compares have the demo ids of the base program,   *)
(* and all after the first the prompts of the deployed one: the deltas are *)
(* due to prompts, then to schemas (composability.py, README "safeguards").*)
ComparedAlike ==
  at = "reported" =>
    /\ \A i \in DOMAIN results : results[i].demos = BaseDemos
    /\ results[1] = Base
    /\ \A i \in 2 .. Len(results) : results[i] = deployed

(* A report never understates what its run has paid, wherever the rollout  *)
(* cache of an earlier run helped (_budget_summary).                       *)
ReportCoversPaid == at = "reported" => paid <= total

(* A run of the harness ends, whatever its command does, hang included.    *)
RunsEnd == at \notin Over ~> at \in Over

(* README: "Pass `--allow-demo-changes` only when the comparison should    *)
(* permit demo changes": with the flag no program is refused for its demos.*)
DemoChangesArePermitted == at = "refused" => ~allow
=============================================================================
