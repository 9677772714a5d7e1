# CAVE-Agent experiments: a TLA+ model

The repository runs experiments: agents that work through code are asked the
same questions as agents that call tools, what each produced is judged, and the
records become the tables of a paper. Its own logic is in the *drivers* that
bring a study to its end on an endpoint that fails, in the *evaluators* that
account for what a case cost and decide what it is judged on, in the *bridges*
to the benchmarks, and in what stands between a model's stream and the agent.
These are concurrent, retried, killed and resumed; a wrong step in them is a
wrong number in a table and no test goes red. They are what is modelled here.

Contents: [the system](#the-system) · [the modules](#the-modules) ·
[the runs](#the-runs) · [bounds](#bounds) · [fairness](#fairness) ·
[proofs](#proofs) · [what the code does not keep](#what-the-code-does-not-keep) ·
[not modelled](#not-modelled) · [what could come next](#what-could-come-next) ·
[running it](#running-it)

Paths are relative to `src/`; `X:n` is line `n` of file `X`.

## The system

### Parts

| part | code | state it keeps | operations | module |
|---|---|---|---|---|
| **Pipeline driver pool** | `bench/scripts/run_pipeline.py` (`run_channel`) | the pass, a deque of waiting cases with their attempts, the table of running tasks, the summary; on disk, stored runs | start a run, wait, count, retry, abandon, requeue on a refused connection, wait for the endpoint, abort | `ChannelPool` |
| **Case driver** | `bench/scripts/run.py` (`run_cases`) | target concurrency, the streak of successes, waiting and running cases, the summary; on disk transcript, record, verdict, error | start, halve and recover the pool, retry once, write the three files, abandon, resume | `CasePool` |
| **Case evaluator** | `bench/core/evaluator.py` | one runtime and agent per conversation, the turn's steps, counters of model calls | open a conversation, ask a turn, nudge, record, raise on an outage | `CaseEvaluation` |
| **Orchestrated studies** | `bench/core/orchestration_evaluator.py`, `fidelity_evaluator.py`, `rounds_evaluator.py` | per worker its runs, what each left, its outages; per case a clock and a token budget | run a worker, refuse one over the budget, snapshot, judge | `Orchestration` |
| **Hosted pipeline** | `bench/core/pipeline_evaluator.py` (`run_hosted`) | the runtime and the directory of the agent at work, what was handed on, the stages with their verdicts | run the agents in order, take each output, start the next from it, judge, blame | `HostedPipeline` |
| **Tool-call loop** | `bench/core/agents.py` (`ToolCallAgent`, `_ToolCallStream`) | the calls of the reply being read, the history, what was billed | stream a reply, keep a call, refuse or run it, write both into the history | `ToolCallTurn` |
| **Stream repair** | `bench/core/stream_repair.py` | held text, its own copy of the parser's fence state, the swallow and line-start flags | rewrite a delta, open and close a fence, replay, end of stream | `StreamRepair`, `ReplyStream` |
| **tau2 bridge** | `tau2/tau2_cave/agent.py`, `tau2/tau2_json_exec/agent.py` | a copy of the environment's database, recorded calls, a held reply | run a turn, correct it, hand the calls over, release the reply | `Tau2Turn` |
| **tau2 sweep** | `tau2/sweep.sh`, `run.py`, `merge.py`, `missing.py` | a lock per run, a results file per run, patches | hold a run, sweep it, count what is missing, re-run, merge, move aside | `TauSweep` |
| **BFCL multi-turn runner** | `bfcl-multiturn/run.py` | one results file, the rows this invocation holds, running tasks | run tasks concurrently, rewrite the file, stop, resume | `MultiTurnRun` |
| **BFCL multi-turn task** | `bfcl-multiturn/bfcl_multiturn/` (`arms.py`, `recorder.py`, `fidelity.py`) | the instances, the record of the calls made on them | ask a turn, dispatch, record, replay, judge | `MultiTurnTask`, `MultiTurnBench` |
| **Arms in shell** | `bench/scripts/drivers/x3_arm.sh`, `x5_arm.sh` | lock directories | claim a chunk, run the pool driver over it up to three times, release | `ArmChunks` |
| **Results on disk** | `bench/core/results.py`, `transcripts.py` | records by study, case and run id | write atomically, find the latest complete run | state of `CasePool` and `ChannelPool` |
| **Other** | `bfcl/`, `suites/`, `tau2-legacy/`, `figures/`, analysis, clients, cases | tables and pure functions | sequential | [not modelled](#not-modelled) |

### How they interact

An arm's script calls the pool driver with a chunk of cases, again and again
until it exits well. The pool starts one asyncio task per case; the task calls
an evaluator and writes the record itself, *before* the pool learns of it. The
evaluator builds a runtime and an agent per conversation and awaits the agent's
run, which reads a model's stream through the repair or the tool-call stream.
What comes back up is a record, or an exception in one of two classes: an
`InfrastructureError` (retried by the pool) or anything else (a defect: the
pool stops). An orchestrated case is an agent too, whose *code* runs the workers
and whose cell swallows their exceptions; the host looks at the workers when the
orchestrator has stopped. In a hosted pipeline it is the host that runs the
agents, and what crosses between two of them is a table in a runtime, a file or
a reply. The two benchmarks have drivers of their own: `sweep.sh` around tau2,
whose simulator calls the agent turn by turn and replays its calls on the
database it scores; and `bfcl-multiturn/run.py` around a conversation whose calls
are recorded and replayed when it is judged.

So there are five kinds of shared state: the disk between invocations and
between copies of a driver; a pool's tables between the driver and its tasks
(written between two awaits); the outcome of a run carried by an exception;
objects handed by reference from agent to agent; and a database or a set of
instances that two parties change, each on its own copy.

### What is hard, and what makes it correct

* **Pools** — runs finish in any order while the driver handles a batch; a batch
  is left half way when the connection was refused; an attempt counter travels
  through three queues; the process dies between a record and its being counted.
  Correct when no case is lost, doubled, run past its repeats or charged for an
  outage, when the summary agrees with the disk, and when an invocation ends once the
  endpoint either serves completions or fails its probes for good.
* **Adaptive concurrency** — halved by failures and grown by successes of the same
  batch. Correct when it stays between one and what was asked, one bad case halves
  it once, and no place is owed for ever.
* **Files and locks** — several drivers over one file, a lock inherited by a process
  whose holder is killed, a lock directory nobody removes, a file rewritten in place.
  Correct when a file has one writer, a result that was had is kept, nothing stored
  is run again, and whoever waits gets in.
* **Accounting** — an outage ends an attempt in the middle of a turn, a nudge or a
  later conversation; a deadline ends a request in the middle of a call. Correct when
  every model call is counted once, also in the attempts that are thrown away, and
  nudges stay within the budget of their turn.
* **Orchestration and pipelines** — agents run in any order, cancelled and repeated,
  or one after another in one runtime. Correct when each is judged on what it left
  itself against what it started from, what crosses is what was judged, an outage or
  a spent budget reaches the host, and a failure is blamed on somebody.
* **Copies** — a turn works on a copy, its calls are replayed on the original, its reply
  is held back. Correct when the original goes through the very calls of the turn, once
  and in order, and a change that no call accounts for is never credited.
* **Streaming** — the stream cuts the reply anywhere and may be replayed. Correct
  when what is acted on does not depend on the cuts, and reading ends.

`PROJECT.json` lists these hazards one by one with the line where each bites, and
the properties that would notice.

## The modules

Every definition that stands for code has its lines in `PROJECT.json` (`map`).
An operator whose comment begins with *Mutant of X* is a plausible wrong version
of `X`: the specification never uses it; putting it in X's place breaks the property
named in `PROJECT.json`, which is how each property is known to bite. A variable
marked *history* is in no guard.

### `ChannelPool` (with `StudyPromise`, `MCChannelPool`)

`run_channel` is one asyncio task; the runs it started move only while it
awaits. `pc` therefore says between which two awaits the driver is, and `Store`,
`Fail` and `RaiseError` — what a run may do — are enabled in `"await"` alone.

| code | model |
|---|---|
| `for wanted in range(1, repeats + 1)` | `BeginPass`, `EndPass`, `FinishStudy` |
| `cases_short_of` (one disk read per case, before the pass) | `Survey`, `SurveyEnds` |
| filling `running` from `pending` | `Start(s)`, then `Wait` |
| `asyncio.wait(FIRST_COMPLETED)` | `Wake`: the batch is *all* that has finished by then |
| `for task in done` | `Count`, `Retry`, `Abandon`, `Refused`, `Abort`, in any order; `DrainEnds` |
| the outage branch: put this one back, cancel and put back the rest, leave the loop | `Refused`, `Requeue`, `Requeued` — finished runs stay in the table for the next wait |
| `_wait_for_endpoint` | `Answered`, `GiveUp` |
| `_run_and_write` | `Complete` (the record is stored before the driver hears), `Fail`, `RaiseError` |
| the process, the endpoint | `Kill`, `Restart`, `EndpointChanges` |

A slot is a place in the `running` table; which slot a run gets means nothing.
The texts of an `InfrastructureError` are a constant, because the code reads the
text: `OwnTexts` and `OutageTexts` are what runs raise, `RefusalTexts` what the
driver recognises. The endpoint has two sides that need not agree: `up` is whether
completions are served, `answers` whether the probe of `/models` gets a status below
500 — or the model has no `base_url` and nothing is probed (349-350). Both change
freely. That is why `Terminates` has a premise: a refused run keeps its attempts, so an
endpoint that goes on refusing while its probe is satisfied sends the pool round the
outage branch for ever.

`StudyPromise` is the promise without pool or retry: a pass owes one run to each
case short of its count, a run is stored or given up on, nothing else is stored.
`Promise` maps the passes begun to `level` and the cases still owed to `owed`.

### `CasePool` (with `MCCasePool`)

The same shape for `run_cases`, with what differs: the pool's `target`, halved by a
case's *first* failure and raised after `RecoverAfter` successes; the single retry,
put in front; and the files. A run writes transcript, record and verdict
without an await between them, so `Held` keeps every other action but `Kill` and a
failing write out until the last is on disk. `files` names the *attempt* that wrote each
artifact, which is what `AttemptsOnRecord` compares. `Invoke` reads what is complete
once, as `main` does, under a new run id; `--no-skip` is `again`.

### `CaseEvaluation` (with `MCCaseEvaluation`)

`evaluate_case`, `_evaluate_conversation` and `evaluate_turn` as one thread of
control. A run of the agent is one step that returns a `Result` (steps, resumed
replies, whether code ran, how it stopped); a validator's answer is a `Verdict`. Both
are free within what their types allow. What the module keeps exactly is the order
of snapshot, run, addition and raise: `before` (`spent_before`), `turnSpent`
(`all_spent`), `recorded`, `finished` (the conversations closed) and `errorSpent`
(what the exception carries). `paid` is history: every call, counted where it happens.

### `Orchestration` (with `MCOrchestration`)

`Worker.run`, `ObjectWorker.run`/`_snapshot`, `RoundsWorker.run`, `run_rounds` and
`_Judge`. The orchestrator's code is the environment: `RunWorker` at any time, of any
worker, while others run; `Cancelled` whenever it likes. Each element of `calls` is one
call of `RoundsWorker.run` and holds its entry in `attempts` (`told`, `stamp`,
`delivered`) next to history (`left`, `before`, `amid`). An object is known by the
call that last wrote it, and is shared: a later worker may `Write` into the one it was
handed. `stamp` is read from the worker's list as the call *ends*, `New` is what
joined the list since the call began, as the code does both. `EveryCallTold` is the
lookup `attempt["stamp"]` succeeding. One assumption: the external runtime's `retrieve`
does not suspend, so a run returns and is snapshotted in one step.

### `HostedPipeline` (with `MCHostedPipeline`)

`run_hosted` and what it calls of `evaluate_turn`. An agent's cells are the
environment: they look at the variable it was handed (`Looks`), bind variables
(`Assigns`), change a table in place (`Changes`) or write the output file (`Writes`).
The turn ends or is nudged once (`NeedsRepair`, `Nudge`, `EndTurn`); `as_it_ended` picks
which run's reply and outputs count; `Taken` is `_cross` on the five channels the code
tells apart; `HandOn` gives the next agent its runtime (`NextRuntime`) and directory
(`NewWorkdir`, `NextFile`); `Judge` works out the two verdicts of each stage and who is
blamed. `Accepted` is what an agent's check takes for a table: `task.check` reads an integer as
the digits of an identifier and allows numbers a tolerance, while the rules, `Rule`, work on the rows as they are
and may tell the two apart (`follow_up.compute`). A file that is no Parquet file makes `collect_outputs` raise
(`CollectRaises`), which nothing catches before `main`. A value carries the agent, and the attempt of the case, that produced it, so that
"what it made in its own turn" can be said; the code has no such mark, and no guard reads it.

### `ToolCallTurn`

One run after another of the tool-call loop. `Request`, `TextChunk`, `CallChunk`,
`Replay`, `Fails` and `Ends` are what a connection may do; `Close` is what `_stream_once`
makes of the reply; `Refuse`, `Run`, `Result` and `NoCallToRun` are `_handle_turn`; `Cancel` is a
deadline at any await. The arguments of a call are the numbers of the connections its
parts came over, so a call put together from two connections, or from half of one, shows. `Wire` is the
history as it is sent, with an answer put in for a call left without one. Its names are apart from those of `CaseEvaluation`,
so that `AgentTurn_proofs` can be about both and about `ReplyStream`; so are those of `MultiTurnRun` and `HostedPipeline`.

### `StreamRepair`, `ReplyStream` (with `MCReplyStream`)

`StreamRepair` is the rewriting of sequences of symbols; a
symbol is a character where the code can cut something in the middle (fences,
`]]>`) and a longer piece elsewhere. `Pass` is one turn of the loop in `_rewrite`, on the repair and what is left of the
buffer, and `Rewrite` as many turns as the buffer has symbols, enough for it to be empty (lemma `RewriteEnds`). `ReplyStream` lets the connection deliver any
prefix of what is left, fail, and be replayed, and then ends as `__anext__` does:
held text, one closing fence, stop. The parser (`Feed`) is the installed package's and
external; it follows the rules `stream_repair.py` and its tests state.
`SameHoweverCut` compares the text passed on with that of the same reply in one delta. It leaves out replies
in which a fence or another tag is the next thing behind a tag that names code (`FencedAgain`), for there a fence line is
swallowed or not by where it was cut ([5](#what-the-code-does-not-keep)). Line ends do not count as a
thing between the two, and neither does a CDATA close (`Hollow`): it is dropped where no block is open, as behind a tag in the middle of
a line, which writes a fence the parser does not take for one. `x<code>]]>` and then a fence shows that; the run has a piece for it.

### `Tau2Turn` (with `DirectAgent`, `MCTau2Turn`)

`generate_next_message` in both arms. `BeginTurn` copies the database (`_sync_shadow`), `Call` acts on the
copy and is recorded, `CellChanges` is a cell that assigns to the copy without a tool,
`AskAgain` is the one correction, `Fail` a stop that raises, `Answer` hands over the calls and
holds the reply back, `Replay` is tau2 applying them to `live`, one by one, and `Release` or
`Released` (the json arm's override) lets the reply go.

`DirectAgent` is what the benchmark takes an agent for: one that has the database itself.
`ImplementsDirect` maps the database as the calls so far leave it to `db`, the failed and the
replayed turn included. It holds whatever the turn's code did to the copy behind the tools,
because a later call is replayed on the original, not on the copy.

### `TauSweep` (with `MCTauSweep`)

Each element of `Drivers` is a `sweep.sh`, with the run.py it may have started (`child`). `lock[r]` is the *set* of
processes that hold the lock open, because fd 9 is inherited: a run.py outlives its driver
with it. `dir` is the order of modification, which is how `latest` finds a file.

| code | model |
|---|---|
| `hold_run` | `Hold`, `Inherited`, `Released` |
| `latest`, then run.py or not | `Look`, `Launch`, `Swept` |
| `missing.py`, `--resume`, the patch | `Count`, `Launch`, `Resumed` |
| `merge.py` and the `mv` after it | `Merge`, `MergeWrites` (the file is cut while it is written), `Supersede` |
| a file written again, by run.py or the merge | `Touched`: it is the latest |
| tau2 in run.py, `number_simulations` | `Opens`, `TaskEnds`, `Ends`, `Numbered` |
| signals, the machine | `KillDriver`, `KillRun`, `Gone`, `Crash`; a `run.py` that is killed may leave its file cut short (`CutShort`), as it writes it in place both for a task and to number it |

### `MultiTurnRun`, `MultiTurnTask`, `MultiTurnBench` (with `MCMultiTurnBench`)

`MultiTurnRun` is `main`: `Invoke` reads the file and picks `ToDo`; `Acquire`, `Return`, `DeadlinePasses` are
`guarded(t)` under the semaphore and the deadline; rows wait in `finished` for `Collect`, after each of which the
file is written in place (`BeginSave`, `EndSave`: `whole` is FALSE between). `Sigterm` raises in the main task at any of these points,
`Kill` leaves the file as it is.

`MultiTurnTask` is one conversation, in both arms: cells or dispatched calls change the
instances (`reached`) and are recorded, or change them without being recorded (`Direct`);
`TakeTurn`, fidelity and `Score` are `one_task`. Upstream caches the instances of a replay by a
tag and keeps them for the life of the process (`left`).

`MultiTurnBench` composes them: the task `Watched` is a `MultiTurnTask`, begun, given up,
cut off and begun again by the runner, and its row is what the conversation came to.

### `ArmChunks` (with `MCArmChunks`)

Copies of an arm over its chunks. `Claim` is the `mkdir`, `Pass` the `continue`, `Exits` and `Fails` the return of
the pool driver, `LeavesChunk` the `rmdir`. A chunk stands for one case, and the pool driver over it is
what `StudyPromise` says: owed once a pass, stored or given up. `Kill` leaves lock and pool
driver behind; `Clear` is the operator following the script's header, *carefully* (once nothing of the arm
runs) or not. `ChunkAsPromised` is `StudyPromise` again: all copies together are one driver.

## The runs

| run | what it shows |
|---|---|
| `channel_pool` | a case has one place in the pool, is worked on only while its pass owes it a run, carries its own failures and is never dropped (`CasesAccounted`); killed and re-run at any step, no case is pushed past its repeats (`NeverPastRepeats`); the summary counts what was stored and reports the shortfall (`SummaryIsTrue`); the driver ends (`Terminates`) and implements `StudyPromise` (`KeepsPromise`) |
| `channel_pool_down` | the docstring's "should cost none of them anything" (`OutageCostsNothing`) is violated: [1](#what-the-code-does-not-keep) |
| `case_pool` | no case lost or doubled; the pool stays in bounds, halves once per case and gives places back; a stored case is not paid for again; the disk says what the summary says; every attempt is on record; an invocation ends |
| `case_evaluation` | every call is counted once, also when the attempt is lost; a turn and its nudges share the budget, only a turn that ran no code is nudged, and a turn is told of no later one |
| `orchestration` | outages and spent budgets surface; entries are their own; a run is judged on what it left against what it was to start from |
| `hosted_pipeline` | what an agent is handed is what the one before was judged on; a stage is credited for its own work only; a failure is blamed on an agent, has a verdict that could not be told, or shows the seam where a table right only by its check's tolerance turned wrong |
| `tool_call_turn` | what is acted on is the first call the model made, whole; every call in the history has its answer; every request is billed once |
| `reply_stream` | repair and parser agree on the open block; the text does not depend on cuts or replays; reading ends |
| `tau2_turn` | a turn's calls, reply and cost reach tau2 whole and in order; the bridge implements `DirectAgent` |
| `tau2_sweep` | a run has one driver and a file one writer (`WorksOn`: by the file, not by the run's number), though a driver is killed while its run goes on; no result lost or doubled; nothing is run again unless something was killed; every driver gets its turn and ends |
| `multi_turn` | what the file calls solved was solved in one conversation and on the record; the record is every call; a judged task is judged once, whatever stops the runner; an invocation ends |
| `arm_chunks` | a chunk ends with its runs and no more; the copies together keep `StudyPromise`; they end, with every chunk seen to |

Every listed run checks each property in one instance, and between them every action of every module fires.
Deadlock is checked in `channel_pool`, where the driver can always be run again; the others end, and their
cfg says so. The files `*_unkept.cfg` hold the claims the code does not keep, and `tau2_sweep_two_runs.cfg` (`OneWriter` when a
driver goes from run 1 to run 2, which a second driver holds: passes) is a larger variant.

## Bounds

Each bound is a constant in a guard, and named in the module.

| run | bound | why it is enough |
|---|---|---|
| `channel_pool` | 2 cases, 2 repeats, 2 slots, 2 attempts; up to 3 runs stored before (above the repeats); 1 kill (`Restart` is unbounded, and so is how often the endpoint changes) | two passes; one case refused while the other has finished, failed or is in flight; a retry that succeeds, one that abandons; a kill at every step. A third slot adds runs that are put back like the second |
| `case_pool` | 3 cases, concurrency 1 or 4, `RecoverAfter` 2 (5 in the code), 2 invocations, 1 failing write, 1 failing verdict | 4 halves to 2 and 1; with three cases a pool of 4 is halved twice and gives one place back; a second invocation sees every state of the disk the first can leave |
| `case_evaluation` | two conversations, three turns that share outputs; 3 steps, 2 nudges, 1 resumed reply | a nudge after a nudge, a budget used up exactly, an outage in the first and in a later conversation |
| `orchestration` | chain of 3, 3 calls, budget 1, 2 model calls | a worker repeated between runs of its neighbour, a worker called again while a run of it is under way, a run cancelled in the middle, a refused run; a fourth call repeats one of these |
| `hosted_pipeline` | 3 agents (the main study's retriever, narrower, analyst), 5 tables of which one cannot be worked on and one passes the check for another, a file that cannot be read, 2 steps, 1 nudge, 2 attempts, 4 channels; `Naming` {FALSE} | every pair of neighbours and one stage between others; a table right, right only to the check, wrong, empty and unusable; an outage after any stage. Naming a source table matters only to a claim the code does not keep, and is on in `hosted_pipeline_unkept.cfg`, with the channel the text is bound on |
| `tool_call_turn` | 3 requests, 4 connections, 2 runs; a call has 2 parts | a call cut by a connection and replayed, cut by the limit and resumed, and a second run over the history of the first |
| `reply_stream` | 12 pieces, 3 per reply, every cut, 1 lost connection | every pair of things that may meet at a cut, with something before or after; one piece is a tag in the middle of a line, so that with a CDATA close behind it there is still room for a fence |
| `tau2_turn` | 2 turns, 2 calls a turn, 4 states of the database, 3 calls that do not commute, both arms | a reply held while the next message is under way; order and number of calls show in the state |
| `tau2_sweep` | 2 tasks, 2 drivers asked for one run, 1 re-run each, 1 kill, 1 crash | a run.py that outlives its driver while the other waits, finds its file, resumes it and merges; a third driver waits like the second, a second re-run meets what the first may leave |
| `multi_turn` | 2 tasks, 1 at once, 2 turns, 1 call in a turn, 2 invocations, 1 SIGTERM, 1 kill | a row waiting while another is written, a task cut off and taken up again, an invocation with a smaller limit than the one before |
| `arm_chunks` | 3 copies beginning at different chunks, 2 chunks, 2 repeats, 2 tries (3 in the script), 1 kill, 1 clearing | a copy that comes to a chunk another holds, has done, or died at; with two tries the last one is one that follows another |

All are proved safe for all values, some of it under an assumption [named below](#proofs): the bounds
matter to liveness only.

## Fairness

* `ChannelPool`, `FairSpec`: weak fairness of the driver — the event loop resumes a task
  whose await is over — and of each run: `PIPELINE_TIMEOUT_S` ends any run in one way or
  another. Nothing obliges the endpoint to return, to fail or to be honest about it, or
  anybody to kill or restart; `GiveUp`, after an hour of failed probes, is the driver's own step.
  `Terminates` itself supposes `<>[]up` or `<>[]~answers`; without that it does not hold.
* `CasePool`, `FairSpec`: the driver, and each case's run: steps are budgeted and requests
  time out. Per case and not for all together, so that one slow run cannot be starved
  by another. `Kill` and `Invoke` are not fair.
* `ReplyStream`, `FairStream`: the connection delivers, ends or times out; the agent
  reads to the end. Failing is not fair, and is bounded.
* `MultiTurnBench`, `BenchSpec`: the main task (`Collect`, `AllTaken`, `EndSave`), each
  task's deadline (`DeadlinePasses`) and the semaphore, which lets a waiting task in (`Acquire`,
  `Begins`). A task's own progress is *not* fair: one that hangs is ended by its deadline, and
  only by that.
* `TauSweep`, `FairSpec`: each driver's own steps and each `run.py`, which tau2 ends, are weakly
  fair. `Hold` is strongly fair, because a lock that is let go and taken again is not
  continuously free: a driver that waits for it is given it in the end. Kills and
  crashes are not fair.
* `ArmChunks`, `FairSpec`: each copy once started, and each pool driver, which is what `Terminates` of
  `ChannelPool` shows. Nobody has to start a copy, kill one or clear a lock.
* `CaseEvaluation`, `Orchestration`, `HostedPipeline`, `ToolCallTurn`, `Tau2Turn`: safety only. How long an agent goes on is
  its model's and the step budget's, and the budget is modelled as a bound.

## Proofs

TLC checks the instances above; the theorems hold for every value of the constants that
satisfies the named assumptions of the module (`ASSUME`), which TLC evaluates in the runs.
Each has the same shape: the property is seldom inductive, so a stronger `Inv` is, and the
proof has a step for each action.

| module | what is proved | the invariant it needs |
|---|---|---|
| `ChannelPool_proofs` | `TypeCorrect`, `OnePlacePerCase`, `ResumeIsSafe` (`NeverPastRepeats`), `AttemptsAreFailures`, `NothingIsLost`, `CasesAreAccounted` (`CasesAccounted`), `SummaryTellsTheTruth` (`SummaryIsTrue`), `PoolKeepsPromise` (`KeepsPromise`, the refinement of `StudyPromise`) | a case stands in one place at most (`NoCaseTwice`); what waits or runs is owed a run of this pass (`OwedWork`), which rests on what the survey read and on nobody else writing; the attempt a case carries is the number of its failures. For `NothingIsLost` also where each case is at each `pc`, in the half-handled batch of the outage branch above all. For the summary (`SummaryInv`): a run stored by this invocation is counted or is still in the pool's hands, and a run missing of a surveyed case is abandoned, queued or in flight. The assumption `DistinctCases` is needed: `main` does not check it |
| `CasePool_proofs` | `TypeCorrect`, `CasesAreKept` (`EveryCaseOnce`), `PoolIsGivenBack` (`RecoveryNotForgotten`), `PoolIsPaced` (`PoolPaced`), `StoredIsNotPaidAgain` (`PaidOnce`), `DiskIsTrue` (`DiskAgrees`), `AttemptsAreCounted` (`AttemptsOnRecord`) | what the files hold of a case that waits, of one in flight and of one that is through (`Traced`, `OnDisk`), across writes that fail half way and invocations that were killed; for the pace (`PaceInv`), that the pool is never narrower than its first size halved once for each case that lost its turn, which needs what the recursive function `HalvedBy` computes |
| `AgentTurn_proofs` | of `CaseEvaluation`: `TypeCorrect`, `NoCallLost` (`CallsCounted`), `TurnsAreAskedFairly` (`AskedFairly`); of `ToolCallTurn`: `LoopHolds` (the inductive invariant), `TheModelsCallIsRun` (`CallIsTheModels`), `HistoryIsWellFormed` (`EveryCallAnswered`), `RequestsAreBilled` (`BilledOnce`); of `ReplyStream`: `BlocksAreKnown` (`ParserAgrees`), `SameTextHoweverCut` (`SameHoweverCut`) | the calls of every record, lost attempt and turn in progress add up; steps of a turn and its nudges; what has been named so far. For the loop (`LoopInv`): what came of the reply's first call is kept and came over the connection open now (`ReplyInv`); the call handled is that one and was whole (`CallInv`); a call in the history has its result behind it, but for the last while it runs or was cancelled there (`HistoryInv`). For the stream see below |
| `Orchestration_proofs` | `TypeCorrect`, `LossesReachTheHost` (`LossesSurface`), `AttemptsAreTheirOwn` (`AttemptIsItsOwn`) and `EachRunIsJudgedOnItsOwn` (`JudgedOnItsRun`), all unconditional: a worker may be run again while a run of it is under way, and the two properties speak of every run that was alone from its start to its end | what a worker's history, its entry and the shared log say of each run, and that the entry a run finds at its end is its own unless another run overlapped it |
| `Judging_proofs` | of `HostedPipeline`: `HostedTypes`, `CrossesWhatIsJudged`, `CreditIsEarned`, `FailuresAreExplained`; of `MultiTurnBench`: `BenchIsWellTyped` (`BenchTypeOK`), `ConversationsAreRecorded` (`RecordedAsItWent`), `SolvedWithinOne` (`SolvedInOneConversation`), `JudgedOnce` (`JudgedOnceAndForAll`, an action property) | each stage's output is its own and was collected as it ended; what a verdict means; right up to the first that is not, or to a seam where a table turned wrong. Nothing is assumed of the checks (`Accepted`); that each reference table is what the rule makes of the one before (`PipelineAssumption`) is how `expected_tables` builds them. For the benchmark see below |
| `Tau2Turn_proofs` | `TypeCorrect`, `TurnsAreHandedOver`, `BridgeIsDirect` (the bridge implements `DirectAgent`, an agent that calls the environment itself), with no assumption | the copy is the environment with the recorded calls made on it, and the calls not yet replayed lead from one to the other |
| `TauSweep_proofs` | `RunsHaveOneDriver`, for every plan; `FilesHaveOneWriter` (`OneWriter`), `SweepKeepsResults` (`ResultsKept`) and `RunsOnce` (`RunOnceUnlessKilled`) when no run's number begins another's (`RunsApart`) | a lock is held by one driver or by the `run.py` that inherited it, and whoever writes a run's file holds its lock; a driver works only on files `latest` finds for its run, which are that run's own; which file of a run is its newest, what the driver and its `run.py` have read of it, and that a result is in the file being written or in one that stays (`SweepInv`; `CalmInv` while nothing has been killed) |
| `ArmChunks_proofs` | `ArmTypes`, `NeverPastRepeatsIfCareful`, `EveryChunkAsPromised` (`ChunkAsPromised`, the refinement of `StudyPromise`) | a chunk's runs and what its pool driver still owes add up to the repeats at most, and one copy holds it; needs `CarefulClear`: locks are cleared by hand only when no copy runs |

`RunsApart` holds of every sweep of fewer than ten runs, and the repository asks for three by default. With run 1 and run
10 it fails, and so does what rests on it ([8](#what-the-code-does-not-keep)).

**The benchmark's argument.** `RunnerInv` says of the runner, without the conversation, that the rows waiting in
`finished` are those of the tasks done and not yet taken (`QueueInv`); that the file, even while it is cut, stands for the rows of the
last whole one, and that a task judged in it is at rest (`FileInv`); and that what an invocation holds begins with
what the file had (`CollectedInv`). `TalkInv` says of the conversation that `made` is the flattened record of the
turns taken, of the steps closed and of the open one, one after another (`RecordInv`), and that both replays start from
nothing (`ReplayInv`): a tag shared by the two would break the second. `BenchRuns` and `BenchTalks` show each step of the
composition to be a step of either or a stutter, and `LinkInv` ties them: whoever calls the watched task right, in
memory, in the queue or in the file, speaks of the conversation there is, and no other can have begun since.

**The stream's argument.** `StreamInv` says that the repair's copy of the parser is the parser's state on the text passed on
(`Knows`), and that a block closed at the end stays closed and has nothing passed on behind it. The second half is a
case for each action. The first rests on a fact about `Observe`, that a text in two parts is observed in two parts
(`ObserveConcat`); from it everything the repair emits keeps `Knows`, whatever was swallowed (`EmitKnows`), hence each turn of
the loop does, wherever in the buffer it finds a tag (`PassSteady`), and so the loop (`RewriteEnds`) and a delta. That a
swallowed fence line is cut where there is one needs what `FirstOf` finds (`AfterFenceLineTyped`).

That the text does not depend on the cuts is the invariant `CutInv`: the repair is at every moment what one delta of all that
has arrived would have made of it. The step is `ReadInTwo`: rewriting `a`, and then what was held of it with `b`, is rewriting `a` and
`b` at once. It is an induction on the length of `a`, because each turn of the loop consumes some of it, and each turn decides on the
first thing in its buffer (`PassCases`). A CDATA close (`CloseInFront`) and a tag (`TagInFront`) are found whole in
`a`, hence at the same place in the longer buffer, and what follows them is shorter. With neither, what is held is an end of `a`
that may still become one (`HoldInTwo`, `EndInTwo`, `HalfTagInTwo`), and the front passed on now is passed on
unchanged later (`PassSame`). `FencedAgain` comes in where text is passed on in two goes (`EmitInTwo`): the flag that swallows a fence line looks at one go, so
while it is set the text must not begin with a fence (`Soft`), and behind a tag, which sets it, neither (`Tame`). The attempt to prove the property
with a narrower exclusion is what found the reply `x<code>]]>` with a fence, which no run had reached.

**Recursion over data.** The library's induction theorems take an operator as a parameter, which the installed
backends cannot instantiate. Where a proof needs to know what a recursive function computes, induction is stated of a set of
numbers (`SetInduction`, `NaturalSets`, from the theorem that a well-founded relation has a minimal element), the function is built
as a family of finite tables, and any two of them are shown to agree: `HalvedBy` in `CasePool_proofs`, `FlattenSeq` in
`Judging_proofs`. In `AgentTurn_proofs` one lemma (`SomeChain`: a function that starts from `x` and is taken on by a step at each
place exists, and stays in the steps' set) serves `FlattenSeq`, `Observe` and `Rewrite`; `ReadInTwo` is an induction of the same kind.

**Only model-checked.** Liveness (`Terminates`, `Ends`, `ReadingEnds`, `EveryDriverEnds`, `EveryChunkSettled`), as
liveness under fairness and `ENABLED` are out of the prover's reach.

## What the code does not keep

Where the code and a sentence of the repository part, the sentence is stated as a property and
TLC shows a behaviour of the code that violates it. The first is in `PROJECT.json`; the others are in
the `*_unkept.cfg` files. TLC stops at the first violated invariant of a cfg: run it with
`-continue`, or one at a time.

1. `OutageCostsNothing` (`channel_pool_down.cfg`). `run_channel` knows an outage by words in the
   error's text (`bench/scripts/run_pipeline.py:413`); the errors its runs raise say *agent stopped with
   model_error* (`bench/core/evaluator.py:269`). An endpoint that is down spends attempts and abandons
   cases, though it "should cost none of them anything" (`run_pipeline.py:343-344`).
2. `EveryCaseBroughtUp` (`channel_pool_unkept.cfg`). An abandoned case is not tried in a later pass
   (`run_pipeline.py:381`), against the passes described at 372-375.
3. `ScoringCostsNoCall` (`case_pool_unkept.cfg`). A verdict that cannot be written makes the case a
   failure and it is run again (`bench/scripts/run.py:87`), against 85-86.
4. `FinishedOrNot`, `DesignedMeansEachRan` (`orchestration_unkept.cfg`). The call of a worker that is still under
   way when the orchestrator stops has an entry that was never completed, and judging the case reads keys it does
   not have (`bench/core/rounds_evaluator.py:417`, against 87: one entry per call, "finished or not"). And a worker
   that was started and never answered makes a case *as designed* (533) in which it is also listed as
   skipped (`orchestration.py:312-314`: "each worker once").
5. `SwallowedHoweverCut`, `ClosingTagCloses` (`reply_stream_unkept.cfg`). Whether a fence line is swallowed can depend
   on where the stream was cut, and an envelope with nothing in it has the fence that closes it swallowed
   (`bench/core/stream_repair.py:222`, against 55-57 and 39).
6. `StoppedCanResume`, `FinishedIsKept`, `OutageIsNotAnAnswer` (`multi_turn_unkept.cfg`). A SIGTERM during the last
   save is taken for an end (`bfcl-multiturn/run.py:176`); rows that finished while another was being
   written are lost by a stop (194, against 8-10: "an interrupted run keeps what it had"); a turn that
   ended in a model error is scored (`bfcl_multiturn/arms.py:91`, against `run.py:12`).
7. `SaysSomething` (`tau2_turn_unkept.cfg`). In the JSON arm the filler is put in a reply that was held back only; a turn
   with neither calls nor text hands over an empty message (`tau2/tau2_cave/agent.py:412`, against
   `tau2/tau2_json_exec/agent.py:38-40`).
8. `CostsOnlyMissing`, `ResultsSurvive`, `DoneIsNumbered` (`tau2_sweep_unkept.cfg`). The newest file of a run is taken for
   its sweep, and after a crash that can be a re-run not yet merged, so what the sweep has is run again
   (`tau2/sweep.sh:67`); a merge that is killed leaves the sweep cut short (`merge.py:115`), both against
   `sweep.sh:65-66`. And a `run.py` that is killed leaves tau2's own trial numbers, which the merge then gives to
   the re-runs as well (`merge.py:76`, against `run.py:84-86`). `EachRunHasItsFile` and, of drivers of
   run 1 and run 10 side by side, `OneWriter` (`tau2_sweep_side_unkept.cfg`): a run's file is looked up by a prefix, so
   that of run 10 is also run 1's (`sweep.sh:44`, against 21-22), and the driver of run 1 goes on with it while that of
   run 10 writes it (against 46-47).
9. `CostIsTheProviders` (`tool_call_turn_unkept.cfg`). A reply is left at its second call, before the usage report, so
   a tool call is not always "read to its end" (`bench/core/agents.py:365`, against 32-33).
10. `NeverPastRepeats` with careless clearing (`arm_chunks_unkept.cfg`). Clearing the lock directories while a copy is at work
    lets two copies run one chunk (`bench/scripts/drivers/x3_arm.sh:29`, against 8-9).
11. In `hosted_pipeline_unkept.cfg`, of `bench/core/pipeline_evaluator.py`:
    `CauseIsNamed` — a case can fail with every table judged right, every agent faithful and nobody to blame: a code delivered
    as a number passes the check of the table (`bench/core/validation.py:217-234`) and gives a wrong answer when it is compared with its
    text, as the repository's own tests show of one question (`bench/tests/test_pipeline_cases.py:127-158`), against 624-626;
    `FirstOnlyIfTheRestFaithful` — the first agent is blamed when a later stage's faithfulness could not be told
    (631, against 625-626); `ContractIsTheFirstWrong` — a stage that hands nothing on is named though one before it was wrong
    (594, against 211); `SourceReadsSeen` — only the turn's own snippets are searched, not those of its nudge (277,
    against 170); `RightTablesNotKept` — the outputs of a nudged stage stay in the record, right or not (189, against
    180); `InjectionConfirmed` — identity is compared after the next agent may have bound the name anew (545,
    against 341-343).

## Not modelled

In the modelled parts:

* `ChannelPool`: a case named twice on the command line (`DistinctCases`), a run whose cell swallows its
  cancellation. The hazards in `PROJECT.json` name them. How many probes make the hour is not counted.
* `Orchestration`: the input slot of a worker, and the two sibling studies, which keep the same state. Runs of one
  worker that overlap are modelled, and what is claimed of a run is claimed of those no other run of the worker
  overlapped: of two that overlap, the entry one finds at its end may be the other's (`orchestration_evaluator.py:118`).
* `HostedPipeline`: tables are five values; a described and a signalled object are the object with more text; two agents that
  share one mutable object by aliasing are not told apart.
* `ReplyStream`: which tag names are dropped, and the cap of 200 characters on a held prefix.
* `TauSweep`: `redact_run`. A file is rewritten by it only when it holds a key, which takes an agent on a gateway of its
  own; then a file an earlier kill left with its key would become the latest.
* `CaseEvaluation`: revised tables, and what a validator looks at.

Whole parts:

* the agent loop around the tool-call loop, its step budget and compaction: the installed `cave_agent` package, not the
  repository's code; `bfcl/` vendors a copy as a library;
* prompts, case modules, tables, loaders and validators, which are data and pure checks of values;
* clients (conversions), single-turn BFCL, the suites' runner, the legacy tau2 adapter: sequential loops;
* redaction, statistics, analysis and figures: no state;
* the shell campaigns, which start the modelled drivers one after another.

Most of the repository's lines are of these kinds — cases, expected rows, prompts, vendored code, analysis — and a model of
them would only restate their data. The lines that decide what is run, kept, counted and believed are few, and
it is those the map covers.

## What could come next

* The agent loop of `cave_agent` as vendored: the step budget and compaction, and composing it with `ReplyStream` and
  `ToolCallTurn`, in place of the outcomes `CaseEvaluation` takes as input.
* The suites' runner, for the file it rewrites after each scenario.

## Running it

```
tlc -workers 2 -config channel_pool.cfg MCChannelPool     # a run: cfg and module as in PROJECT.json
tlc -continue -config multi_turn_unkept.cfg MCMultiTurnBench
tlapm CasePool_proofs.tla                                 # the proofs of a module
```

A run takes seconds to a few minutes; so do the proofs of a module.
