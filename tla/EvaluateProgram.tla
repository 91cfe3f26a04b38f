-------------------------- MODULE EvaluateProgram --------------------------
(***************************************************************************)
(* Batches of evaluations: evaluate_program (src/schemaevo/eval/scoring.py)*)
(* with its rollout cache (eval/cache.py), the calls of LMProgram.run      *)
(* (programs/base.py), and the worker pool in which the fixed-pool driver  *)
(* evaluates its candidates when no budget is set                          *)
(* (optimizers/fixed_pool_schema.py), with the files all of them leave in  *)
(* one artifact directory.  The process may be interrupted anywhere, a     *)
(* module runner may raise anywhere, and the process is started again on   *)
(* the same directory.                                                     *)
(*                                                                         *)
(* An evaluation is one call of evaluate_program: a program, a seed and an *)
(* intervention on a list of examples.  Program, example and seed together *)
(* are a key of the cache.  Module runners are language models: a run of a *)
(* program gives some answer, not always the same.                         *)
(***************************************************************************)
EXTENDS Integers, SequencesExt

CONSTANTS
  Keys,           \* cache keys
  Evaluations,    \* what there is to evaluate
  KeysOf,         \* KeysOf[e]: the keys of the examples of e, in order
  Intervention,   \* Intervention[e]: field intervention, or None
  Batches,        \* the candidates of each batch, as they were proposed
  Pooled,         \* the batches that go to the pool (config.workers > 1)
  Workers,        \* workers of the pool
  Modules,        \* modules of the program, one call each
  Answers,        \* Answers[k]: what a run for key k may give
  MaxFaults,      \* interruptions and exceptions, together
  None, Absent, Torn

BatchNumbers == 1 .. Len(Batches)

KeySet(e) == ToSet(KeysOf[e])

(* A key holds the program, so that two candidates have no key in common.  *)
ASSUME BatchesAssumption ==
  /\ Batches \in Seq(Seq(Evaluations)) /\ Batches # <<>>
  /\ Pooled \subseteq BatchNumbers
  /\ \A b \in Pooled : \A d, e \in ToSet(Batches[b]) :
       d # e => KeySet(d) \cap KeySet(e) = {}

ASSUME EvaluationsAssumption ==
  /\ IsFiniteSet(Keys) /\ IsFiniteSet(Evaluations)
  /\ KeysOf \in [Evaluations -> Seq(Keys) \ {<<>>}]
  /\ Workers \in Nat \ {0} /\ Modules \in Nat \ {0} /\ MaxFaults \in Nat
  /\ Absent # Torn

(* A prediction remembers under which intervention it was made.            *)
Predictions ==
  [answer : UNION {Answers[k] : k \in Keys},
   under  : {Intervention[e] : e \in Evaluations}]

ASSUME FilesAssumption == Absent \notin Predictions /\ Torn \notin Predictions

(* The driver evaluates in slot 0, the pool in the others.                 *)
Driver == 0
Slots  == Driver .. Workers

VARIABLES
  entry,     \* rollout_cache/<key>.json
  temp,      \* rollout_cache/<key>.tmp
  logs,      \* logs/<run>.jsonl: lines for a key
  ledger,    \* cost_ledgers/<run>.jsonl: lines for a key
  scores,    \* results/<run>_scores.jsonl
  made,      \* runner calls made for a key in an evaluation
  process,   \* "up", "failing", "down" or "done"
  batch,     \* the running batch
  started,   \* jobs of the batch that were started
  limit,     \* jobs of the batch that will be started
  ended,     \* jobs of the batch that returned a result
  raised,    \* jobs of the batch that raised an exception
  slot,      \* what each slot is doing
  faults,    \* interruptions and exceptions so far
  lost       \* runs of a program that were cut short

vars == <<entry, temp, logs, ledger, scores, made, process, batch, started,
          limit, ended, raised, slot, faults, lost>>

files   == <<entry, temp>>
books   == <<logs, ledger, made>>
control == <<process, batch, started, limit, ended, raised>>
history == <<faults, lost>>

EmptyMemory == [k \in Keys |-> Absent]

Idle == [pc |-> "idle", job |-> 0, module |-> 1, memory |-> EmptyMemory,
         current |-> Absent, results |-> <<>>]

-----------------------------------------------------------------------------
(* The jobs of a batch and what a slot is at *)

(* A pool that keeps what it is given.                                     *)
AsProposed(candidates) == candidates

(* The candidates of a batch, each once: _build_schema_pool keys them by   *)
(* their schema id.                                                        *)
Unique(candidates) ==
  FoldLeft(LAMBDA kept, e :
             IF e \in ToSet(kept) THEN kept ELSE Append(kept, e),
           <<>>, candidates)

Jobs == [b \in BatchNumbers |-> Unique(Batches[b])]

(* Who works on the batch: the driver alone, or min(workers, jobs) workers.*)
Crew(b) ==
  IF b \in Pooled
  THEN 1 .. (IF Workers < Len(Jobs[b]) THEN Workers ELSE Len(Jobs[b]))
  ELSE {Driver}

At(s, label) == slot[s].pc = label

Evaluation(s) == Jobs[batch][slot[s].job]

(* The field ablations run without a cache (eval/field_ablations.py).      *)
UsesCache(e) == Intervention[e] = None

Left(s) == Len(slot[s].results) < Len(KeysOf[Evaluation(s)])

(* The key of the example that comes next.                                 *)
Key(s) == KeysOf[Evaluation(s)][Len(slot[s].results) + 1]

Add(count, s) == [count EXCEPT ![Evaluation(s)][Key(s)] = @ + 1]

(* The prediction is appended; the loop goes on with the next example.     *)
Take(s, p, memory) ==
  slot' = [slot EXCEPT ![s].pc = "lookup", ![s].memory = memory,
                       ![s].results = Append(@, p)]

(* A cache that does not look at the files of other processes.             *)
CachedInMemory(s) ==
  IF UsesCache(Evaluation(s)) THEN slot[s].memory[Key(s)] ELSE Absent

(* An evaluation with an intervention that shares the cache.               *)
CachedAlways(s) ==
  IF slot[s].memory[Key(s)] # Absent THEN slot[s].memory[Key(s)]
  ELSE entry[Key(s)]

(* RolloutCache.get: the memory, then the file, which is read, whole or    *)
(* not.  On a torn one json.load raises, in this and every later process:  *)
(* there is no step from there.                                            *)
Cached(s) ==
  IF ~UsesCache(Evaluation(s)) THEN Absent
  ELSE IF slot[s].memory[Key(s)] # Absent THEN slot[s].memory[Key(s)]
  ELSE entry[Key(s)]

-----------------------------------------------------------------------------
(* One evaluation in one slot *)

Hit(s) ==
  /\ At(s, "lookup") /\ Left(s)
  /\ Cached(s) \in Predictions
  /\ Take(s, Cached(s), [slot[s].memory EXCEPT ![Key(s)] = Cached(s)])
  /\ UNCHANGED <<files, books, scores, control, history>>

Miss(s) ==
  /\ At(s, "lookup") /\ Left(s)
  /\ Cached(s) = Absent
  /\ slot' = [slot EXCEPT ![s].pc = "call", ![s].module = 1]
  /\ UNCHANGED <<files, books, scores, control, history>>

(* LMProgram.run: call the runner, write the log line, write the ledger    *)
(* line, for one module after the other.                                   *)
CallModule(s) ==
  /\ At(s, "call")
  /\ made' = Add(made, s)
  /\ slot' = [slot EXCEPT ![s].pc = "log"]
  /\ UNCHANGED <<files, logs, ledger, scores, control, history>>

(* A job that catches the exception and returns what it has: the batch     *)
(* takes it for ended.                                                     *)
RunnerRaisesUnseen(s) ==
  /\ At(s, "call") /\ faults < MaxFaults
  /\ made' = Add(made, s)
  /\ ended' = ended \cup {slot[s].job}
  /\ slot' = [slot EXCEPT ![s] = Idle]
  /\ faults' = faults + 1
  /\ lost' = lost + 1
  /\ UNCHANGED <<files, logs, ledger, scores, process, batch, started, limit,
                 raised>>

(* The runner raises, and the job with it; the call may have been paid.    *)
RunnerRaises(s) ==
  /\ At(s, "call") /\ faults < MaxFaults
  /\ made' = Add(made, s)
  /\ raised' = raised \cup {slot[s].job}
  /\ slot' = [slot EXCEPT ![s] = Idle]
  /\ faults' = faults + 1
  /\ lost' = lost + 1
  /\ UNCHANGED <<files, logs, ledger, scores, process, batch, started, limit,
                 ended>>

WriteLog(s) ==
  /\ At(s, "log")
  /\ logs' = Add(logs, s)
  /\ slot' = [slot EXCEPT ![s].pc = "bill"]
  /\ UNCHANGED <<files, ledger, made, scores, control, history>>

LastModule(s) == slot[s].module = Modules

(* Billing when the program has run, for all its calls.                    *)
BillAtEnd(s) ==
  ledger' = IF LastModule(s)
            THEN [ledger EXCEPT ![Evaluation(s)][Key(s)] = @ + Modules]
            ELSE ledger

Bill(s) == ledger' = Add(ledger, s)

WriteLedger(s) ==
  /\ At(s, "bill")
  /\ Bill(s)
  /\ IF ~LastModule(s)
     THEN slot' = [slot EXCEPT ![s].pc = "call", ![s].module = @ + 1]
     ELSE \E answer \in Answers[Key(s)] :
            LET p == [answer |-> answer,
                      under |-> Intervention[Evaluation(s)]] IN
            IF UsesCache(Evaluation(s))
            THEN slot' = [slot EXCEPT ![s].pc = "set", ![s].current = p]
            ELSE Take(s, p, slot[s].memory)
  /\ UNCHANGED <<files, logs, made, scores, control, history>>

(* RolloutCache.set: a temporary file that every writer of the key shares, *)
(* then a rename.                                                          *)
OpenTemp(s) ==
  /\ At(s, "set")
  /\ temp' = [temp EXCEPT ![Key(s)] = Torn]
  /\ slot' = [slot EXCEPT ![s].pc = "write"]
  /\ UNCHANGED <<entry, books, scores, control, history>>

WriteTemp(s) ==
  /\ At(s, "write")
  /\ temp' = [temp EXCEPT ![Key(s)] = slot[s].current]
  /\ slot' = [slot EXCEPT ![s].pc = "replace"]
  /\ UNCHANGED <<entry, books, scores, control, history>>

Remembered(s) == [slot[s].memory EXCEPT ![Key(s)] = slot[s].current]

Replace(s) ==
  /\ At(s, "replace")
  /\ temp[Key(s)] # Absent     \* a rename needs the file
  /\ entry' = [entry EXCEPT ![Key(s)] = temp[Key(s)]]
  /\ temp' = [temp EXCEPT ![Key(s)] = Absent]
  /\ Take(s, slot[s].current, Remembered(s))
  /\ UNCHANGED <<books, scores, control, history>>

(* The score file, written in place and once more by every later process.  *)
OpenScores(s) ==
  /\ At(s, "lookup") /\ ~Left(s)
  /\ scores' = [scores EXCEPT ![Evaluation(s)] = Torn]
  /\ slot' = [slot EXCEPT ![s].pc = "scores"]
  /\ UNCHANGED <<files, books, control, history>>

(* The driver keeps its cache for the next evaluation.                     *)
WriteScores(s) ==
  /\ At(s, "scores")
  /\ scores' = [scores EXCEPT ![Evaluation(s)] = slot[s].results]
  /\ ended' = ended \cup {slot[s].job}
  /\ slot' = [slot EXCEPT ![s] = [Idle EXCEPT !.memory = slot[s].memory]]
  /\ UNCHANGED <<files, books, process, batch, started, limit, raised,
                 history>>

-----------------------------------------------------------------------------
(* The batch *)

(* What is in memory when a job begins: a worker makes a cache for each    *)
(* job, the driver has one for the whole run.                              *)
FirstMemory(s) == IF s = Driver THEN slot[s].memory ELSE EmptyMemory

(* A free slot, the first one since they are alike, takes the next job.    *)
(* The driver takes none after an exception of its own.                    *)
Start(s) ==
  /\ process \in {"up", "failing"}
  /\ s \in Crew(batch) /\ At(s, "idle")
  /\ \A t \in Crew(batch) : t < s => ~At(t, "idle")
  /\ started < limit
  /\ s = Driver => raised = {}
  /\ started' = started + 1
  /\ slot' = [slot EXCEPT ![s] = [Idle EXCEPT !.pc = "lookup",
                                              !.job = started + 1,
                                              !.memory = FirstMemory(s)]]
  /\ UNCHANGED <<files, books, scores, process, batch, limit, ended, raised,
                 history>>

Working == {s \in Slots : slot[s].pc # "idle"}

(* The driver takes results in the order of the jobs: an exception reaches *)
(* it after the results of all jobs before that one.  It cancels the jobs  *)
(* that wait, but for those in the call queue of a process pool, one more  *)
(* than it has workers; a thread pool has no such queue.                   *)
Surface ==
  /\ process = "up"
  /\ \E i \in raised : 1 .. (i - 1) \subseteq ended
  /\ process' = "failing"
  /\ \E extra \in 0 .. Workers + 1 :
       limit' = IF started + extra < limit THEN started + extra ELSE limit
  /\ UNCHANGED <<files, books, scores, batch, started, ended, raised, slot,
                 history>>

(* The pool waits for the jobs that run; then the process ends.            *)
GoDown ==
  /\ process' = "down"
  /\ batch' = 1 /\ started' = 0 /\ limit' = Len(Jobs[1])
  /\ ended' = {} /\ raised' = {}
  /\ slot' = [s \in Slots |-> Idle]
  /\ UNCHANGED <<files, books, scores>>

Shutdown ==
  /\ process = "failing"
  /\ Working = {}
  /\ started = limit \/ batch \notin Pooled
  /\ GoDown
  /\ UNCHANGED history

NextBatch ==
  /\ process = "up"
  /\ ended = DOMAIN Jobs[batch]
  /\ IF batch = Len(Batches)
     THEN process' = "done" /\ UNCHANGED <<batch, limit, ended, started>>
     ELSE /\ batch' = batch + 1
          /\ limit' = Len(Jobs[batch + 1])
          /\ started' = 0 /\ ended' = {}
          /\ UNCHANGED process
  /\ UNCHANGED <<files, books, scores, raised, slot, history>>

-----------------------------------------------------------------------------
NoLines == [e \in Evaluations |-> [k \in Keys |-> 0]]

Init ==
  /\ entry = [k \in Keys |-> Absent] /\ temp = entry
  /\ logs = NoLines /\ ledger = NoLines /\ made = NoLines
  /\ scores = [e \in Evaluations |-> Absent]
  /\ process = "up"
  /\ batch = 1 /\ started = 0 /\ limit = Len(Jobs[1])
  /\ ended = {} /\ raised = {}
  /\ slot = [s \in Slots |-> Idle]
  /\ faults = 0 /\ lost = 0

Running == {s \in Slots :
              slot[s].pc \in {"call", "log", "bill", "set", "write",
                              "replace"}}

(* The process and its workers are gone with all they had in memory.       *)
Interrupt ==
  /\ process \in {"up", "failing"}
  /\ faults < MaxFaults
  /\ faults' = faults + 1
  /\ lost' = lost + Cardinality(Running)
  /\ GoDown

(* The same command again: the same batches with the same run ids.         *)
Restart ==
  /\ process = "down"
  /\ process' = "up"
  /\ UNCHANGED <<files, books, scores, batch, started, limit, ended, raised,
                 slot, history>>

SlotStep(s) ==
  \/ Start(s) \/ Hit(s) \/ Miss(s)
  \/ CallModule(s) \/ WriteLog(s) \/ WriteLedger(s)
  \/ OpenTemp(s) \/ WriteTemp(s) \/ Replace(s)
  \/ OpenScores(s) \/ WriteScores(s)

Step == (\E s \in Slots : SlotStep(s)) \/ Surface \/ Shutdown \/ NextBatch

Over == process = "done" /\ UNCHANGED vars

Next == Step \/ (\E s \in Slots : RunnerRaises(s)) \/ Interrupt \/ Restart
        \/ Over

(* The driver and its workers run until they are interrupted, and the      *)
(* command is given again.                                                 *)
Spec == Init /\ [][Next]_vars /\ WF_vars(Step) /\ WF_vars(Restart)

-----------------------------------------------------------------------------
Reported == {e \in Evaluations : scores[e] \notin {Absent, Torn}}

(* Wherever the process is interrupted, and whatever the workers do at the *)
(* same time, no cache file is torn, so that no process fails to read one  *)
(* (RolloutCache.set renames a file that one writer at a time has open).   *)
NoTornEntry == \A k \in Keys : entry[k] # Torn

(* Evaluations agree: two score files that share an example of a program,  *)
(* written by any processes, show the same prediction of it, unless they   *)
(* are ablations; and none shows a prediction that was made under another  *)
(* intervention than its own.                                              *)
ReportsAgree ==
  /\ \A d, e \in Reported :
       UsesCache(d) /\ UsesCache(e) =>
         \A m \in DOMAIN KeysOf[d], n \in DOMAIN KeysOf[e] :
           KeysOf[d][m] = KeysOf[e][n] => scores[d][m] = scores[e][n]
  /\ \A e \in Reported : \A n \in DOMAIN scores[e] :
       scores[e][n].under = Intervention[e]

Total(count, S) ==
  MapThenSumSet(LAMBDA x : count[x[1]][x[2]], S \X Keys)

(* What the models have been paid for and no ledger shows is at most one   *)
(* call for each run that was cut short or is under way; logs and ledgers  *)
(* are no further apart, and a reported prediction has a ledger line for   *)
(* every module of some run of the program on that example.                *)
BooksCoverCalls ==
  /\ Total(ledger, Evaluations) <= Total(logs, Evaluations)
  /\ Total(logs, Evaluations) <= Total(made, Evaluations)
  /\ Total(made, Evaluations) <=
       Total(ledger, Evaluations) + lost + Cardinality(Running)
  /\ \A e \in Reported : \A k \in KeySet(e) :
       \E d \in Evaluations : ledger[d][k] >= Modules

(* Work is kept: with the cache, calls are made again only for the runs    *)
(* that were cut short, however many evaluations of a failed batch had     *)
(* ended and whichever of them share an example.                           *)
WorkIsKept ==
  Total(made, {e \in Evaluations : UsesCache(e)}) <=
    Modules * (Cardinality(Keys) + lost)

(* The batches get done, however often they are interrupted or a job of    *)
(* the pool raises, if that ends at some time: no worker waits for ever    *)
(* and no exception is swallowed.                                          *)
AllReported ==
  <>(process = "done"
     /\ Reported = UNION {ToSet(Batches[b]) : b \in BatchNumbers})
=============================================================================
