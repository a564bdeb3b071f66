# LiteAgent in TLA+

LiteAgent (`src/src/liteagent`) runs small agent chains on an edge device and a
workstation.  What makes it hard is that state is *trusted to be in a place*: a
KV-cache answer of tier HOT restores nothing and relies on a model still holding
what was saved; several callers, inference threads and retries share the models;
files outlive processes.  These modules say what must not go wrong there, check it
with TLC on small instances, and prove the core for every instance with TLAPS.
Paths below are relative to `src/src/liteagent`.

## 1. Inventory

| Component | State | Operations | What makes it correct |
|---|---|---|---|
| **KV-cache manager** `cache/manager.py`, `tiers.py` | `hot_state`, `_hot_dirty`, `metadata_store`, the RAM dict | `load_cache`, `save_cache`, `mark_context_dirty`, promotion, eviction; one RLock | a HOT answer is the saved state of that model and prompt; RAM is bounded; no state is lost silently; the tiers are one map |
| **Cold storage** `cache/storage.py` | pairs `<key>.bin`, `<key>.json` | `save_to_ssd`, `load_from_ssd` | the accepted pair belongs together, after failures and crashes |
| **Eviction** `cache/eviction.py` | none | score, victim | recency decides within a role weight |
| **Serialisation** `cache/serialization.py` | none (writes the model's context) | serialise, deserialise | refused before the model is touched, or complete |
| **Local dispatch** `network/dispatch.py` | a lock per model, the contexts, inference threads | `_execute_local`, `run_inference`, the watchdog | nobody continues another request's tokens; a saved prefix is the prefix alone; callers are let go |
| **Remote dispatch** `network/dispatch.py`, `client.py` | attempts and deadline of each request | the retry loop, fallback | always ends; retries do not evaluate a prompt twice |
| **Workstation server** `network/server.py` | one model, its lock, its cache | `DispatchTask` | sessions do not see each other's context |
| **Rate limiter** `network/server.py` | tokens, last update | `_check_rate_limit` | bounded in every window, nobody starved |
| **Orchestrator** `agents/` | the blackboard, tier, counts | `execute_task`: chain, verdict, revision, escalation | the answer is a draft that was judged, or the bound was reached |
| **Harness** `eval/harness.py`, `run_evaluation.py` | the results file, the failure log, the completed set | `evaluate_task`, resume | each task recorded once, what is lost is bounded and has a known cause, across crashes |
| **Energy monitor** `eval/energy.py` | the samples, a polling thread | `start`, `stop` | a task is charged with its own samples |
| **Capability labels** `router/capability_labels.py` | the labels file | the staged pass over tiers, resume | every prompt labelled once, with the smallest tier that solves it |
| **Router** `router/` | none | score to tier and active agents | monotone, total |
| **Baselines** `baselines/`, `runner.py` | the flat cache; how each configuration sets the chain up | load, save | never more keys than slots, and the harness lives with that |
| **Execution verifier** `eval/exec_verifier.py` | none | `verify_program` | a draft that cannot be run is no verdict |
| calibration, metrics, sampling, decoding, model files, CLI, stubs | none or numerics | | see section 7 |

Interactions.  The harness calls the orchestrator (or a baseline) once per task; the
orchestrator calls the dispatcher once per agent step; the dispatcher runs a step on
an edge model under the lock of that model, or sends it to the workstation over gRPC
and falls back to the edge.  Edge and workstation each own a cache, and a cache is
*one* for all models of its process: `hot_state` and `_hot_dirty` are shared by all
of them.  Callers must call `mark_context_dirty`, or save, once they advance a
context; the manager cannot see that they did.  The batch programs talk to their
earlier selves through append-only JSON-lines files.

Hard behaviours, with the lines where they bite, are the `hazards` of
`PROJECT.json`: stale HOT answers, restores that fail half-way, failing evictions in
the middle of another key's save, crashes between the two files of a pair, the
watchdog that frees a lock its thread still needs, retries of requests that are
still running, `cache_disabled` calls between cached ones, deadline against RPC
timeout, verdicts that are older than the draft they are taken for, steps of the
chain that fail while others have posted, records cut in the middle and glued to the
next, polling threads and samples that outlive their task, and the bounds of RAM, of
the bucket and of the flat cache.

## 2. Modules

```
 FlatStore  <--implements--  CacheClient  --EXTENDS-->  KVCache
                               ^      ^                  ^    ^
                  implements   |      |   implements     |    |  EXTENDS
                        EdgeDispatch  Workstation -------+----+-- EdgeDispatch
                                        ^
                                 RemoteDispatch (EXTENDS)           RateLimiter

 AgentChain --EXTENDS--> Router         EvalHarness --> JsonLines, EnergyMonitor
                                             ^
                                         BatchRuns --> CapabilityLabels --> JsonLines

 proofs:  KVCacheProofs <--EXTENDS-- CacheProofs <--EXTENDS-- HotProofs (of CacheClient)
              ^                                             |  INSTANCE
              +--EXTENDS-- EdgeProofs (of EdgeDispatch) ----+
              +--EXTENDS-- RemoteProofs (of RemoteDispatch) +
          RateLimiterProofs, AgentChainProofs, BatchProofs (of BatchRuns)
 TLC:     MCCache, MCEdge, MCRemote, MCBatch
```

**KVCache** models the manager with everything it calls.  Each public method holds
the RLock throughout, so a call is one step; `load_cache` is one action per way it
ends (`LoadMismatch`, `LoadHot`, `LoadStandby`, `LoadStandbyFails`, `LoadCold`,
`LoadColdNoRoom`, `LoadColdFails`, `LoadColdRejected`, `LoadAbsent`), grouped as
what the caller sees: `LoadHits`, `LoadMisses`, `LoadRaises`.  Promotion includes the
eviction it triggers, and the eviction includes the write to SSD, its failure (which
removes *both* files) and the death of the process inside it (`save_to_ssd_torn`).
`ctx[m]`, the context a llama.cpp model really holds, is outside the manager's
knowledge.  A state carries the model and hash it was *computed from*; the cache
only sees the metadata beside it.

**CacheClient** is the cache with callers that keep the contract: one request per
model at a time, and a declaration or a save between advancing a context and
giving the model away.  **FlatStore** is what a cache promises: a map from keys to
states, without tiers.

**EdgeDispatch** is `_execute_local`: `caller[r]` is the thread that holds the model
lock and joins with a timeout, `thread[r]` the inference thread `run_inference`.
Steps are cut where the code leaves the cache's lock, so every interleaving of
evaluation, prefix save, suffix and declaration with other requests is there,
abandoned threads included.  **Workstation** is `DispatchTask` for the calls of all
clients; **RemoteDispatch** adds the clients: attempts, deadline, broken
connections, timeouts.  A broken connection leaves the handler running.

**RateLimiter** counts time and tokens in ticks, a token being worth one second.

**Router** is the way from a score to a tier, a chain and a margin.  **AgentChain** is
`execute_task` for one task in any configuration that `runner.py` builds: `Skip`,
`Run` (the chain), `Judge` (`current_verdict`), `VerifierRaises` (the exception that
`current_verdict` lets through), `Escalate`, `Revise`, `GiveUp` (the two `break`s),
`Redraft`, `Recheck`, `Answer`.  A message on the blackboard is its type,
whether its text is empty, what a critique decided, and *which message its author
was shown*: that is what tells a critique of this draft from one of the draft before.
A step is the call to the dispatcher together with what `run_agent` makes of its
outcome; how a step ends is left to `EdgeDispatch` and `RemoteDispatch`, so here any
step of a role in `Faulty` may fail.

**JsonLines** is an append-only file with writes that may be cut anywhere: a line that
lost its newline takes the next record on, and neither can be read.  **EvalHarness** is
the driver and the harness over any number of restarts, with the flat cache of the
baseline and its slots: `Record`, `Limit` and `Error` are the ways `evaluate_task` ends,
and `Uncaught` an exception outside its `try` (scoring, or the start of the energy
monitor), which only the driver sees.  The history `untraced` holds what left nothing
on disk, and no guard reads it.  **EnergyMonitor** is a part of it, with one `start` for
each backend: a sample is told apart only by whether it was taken in the window of the
task that is running.  **CapabilityLabels**
is the staged pass with its driver and `--resume`.  **BatchRuns** puts the two
programs side by side; a behaviour is the history of one of them and its file.

The operators marked `Mutant` in the modules are wrong variants of the definition
below them.  No specification uses them; `PROJECT.json` says which property each
one breaks when it takes that definition's place.

## 3. Runs

| Run | Question | Result |
|---|---|---|
| `cache_faults` | types, bound of RAM, metadata of every resident state, validation of HOT, priorities of eviction, under every failure short of a crash | hold |
| `cache_flat` | nothing is turned away, and the tiers implement `FlatStore`, with failing saves and writes and keys used for any model and prompt | hold |
| `cache_crash` | HOT is lossless and file pairs agree, over crashes in every part of a write | hold for prefix keys, which determine model and prompt |
| `edge_prefix` | outputs are one's own, prefix snapshots are pure, the dispatcher keeps the contract | hold without watchdog and evaluation errors |
| `edge_watchdog` | every caller returns, with hanging threads, all errors and the watchdog | holds |
| `edge_zombie` | prefix snapshots are pure when the watchdog fires | **violated** |
| `remote_sessions` | no foreign context, no double evaluation but after a lost connection, the server keeps the contract | hold |
| `remote_returns` | the dispatcher comes back | holds |
| `remote_uncached` | no foreign context when some calls are `cache_disabled` | **violated** |
| `rate_limit` | bounds of the bucket | hold |
| `agent_chain` | the answer was judged itself, what was discarded was rejected, a task without an answer had one of three reasons and took no other draft along, larger models start afresh, one model per session key, the cost is bounded, the loop ends | hold |
| `batch_resume` | one record and one label each, losses have a known cause, damage is bounded, energy and slots, labels are smallest; in the end all is recorded and labelled | hold |

The contract is how the runs connect: `edge_prefix` and `remote_sessions` show that
the two real callers are `CacheClient`s on small instances, and section 5 proves
it, together with what the cache gives to any `CacheClient`, for all of them.

### Bounds

*Cache.*  Two or three keys and room for one or two states make every save of a new
key evict; two models are what it takes for one model's request to move
`hot_state` under another's; two hashes and two bodies tell a wrong state from the
right one; all states have one length, so that the length check never helps.  `cache_faults` has three roles of weights 10, 8 and 3 and a clock of two
ticks, the least where a lower weight can outlive an older one; it has one model,
and the theorems cover the rest.  The scores are in tenths of the code's.
*Edge.*  Three requests on one model: two tasks that share a prefix and a session;
two more on a second model.  One state fits in RAM, so states travel through SSD.
*Remote.*  Two sessions, two attempts each; for
`remote_returns` one request with three attempts, as nothing is assumed of the
server, where the calls of others could only be in the way.  *Bucket.*  Capacity 3, two ticks
a second and 14 ticks: the bucket empties, refills and is clipped.
*Chain.*  The thresholds of the code (35, 75), every score, every benchmark kind, every
role faulty, two revisions (the code has one, so that a second critique can be
stale) and two escalations (the whole ladder).
*Batch.*  Two configurations, one of them on the flat cache, three tasks for two
slots (the third is a limit; on the next start there is room for it), two candidates
for three tiers; two breaks in each program, the least that can glue two
records together *and* cut the result, or interrupt the run that repairs another.
`MaxTime` bounds the clock in the guard of `Tick`, `MaxBreaks` and `MaxStops` the
failures of the batch programs; no other counter needs a bound.
Symmetry is used in the cache runs, over sets whose members the model only compares
(in none with fairness).  Deadlock is checked in all runs; where all requests are
done, `Quiet` says so.

### Fairness

`edge_watchdog` assumes weak fairness of the callers, `remote_returns` of the client
side except for `Disconnect`.  Both are threads the operating system runs, and
what they wait for ends by time: `inf_thread.join(timeout)`, the RPC's timeout, the
deadline.  Nothing is assumed of inference threads or of the server, which may hang
inside `llama.eval`.  A caller waits for a model lock that its holder
always gives back, and TLC shows that the wait ends for a finite set of requests.

`agent_chain` assumes weak fairness of `Work`: `execute_task` is one thread and every
dispatcher call returns (the two runs above).  `batch_resume` assumes it of `Next`: a
program that runs goes on, and one that has ended is started again; the operator who
passes `--resume` is part of the system, and the claim is about what restarting can
repair.  Breaks are finitely many, so that it is not about a disk that
never works, nor about an answer whose scoring raises every time.

## 4. Findings

1. `edge_zombie`: the watchdog (`dispatch.py:312`) releases the model while the
   abandoned thread uses it; foreign tokens get into a prefix snapshot.
2. `remote_uncached`: a `cache_disabled` call (`server.py:220`) neither saves nor
   marks; the next turn of the hot session is served on its context.

Divergences that show in the models and have no run of their own:

* *Cache.*  The error handlers of `load_cache` (`manager.py:109-119`, `156-163`) purge
  the entry but leave `hot_state` clean, although `load_state` may already have
  overwritten the context another key is HOT in: `HotIsLossless` needs `load_state` to
  be out of `Faults`.  A crash between the two files of a pair leaves a
  new binary with old metadata; under a prefix key both were made for one model and
  prompt, and `cache_crash` holds; under a session key only the length
  (`storage.py:109`) would tell, and with `AnyUse` the run fails.
* *Dispatch.*  An exception in an evaluation skips `mark_context_dirty`
  (`dispatch.py:285`), and the next task with the prefix continues from the failed
  one: `OutputIsOwn` needs `eval` to be out of `EdgeFaults`.  After a broken connection the retry is
  sent although the first handler may have completed and saved, and the prompt is
  evaluated on top of itself: `NoDoubleEval` has to except the attempts in `lost`.
* *Rate.*  The bucket is full at the start and refills at one token a second, so that
  in the worst minute about twice the "60 requests per minute" of `server.py:34` get
  through: `WindowBounded` is the bound that does hold.
* *Chain.*  "Judges the standing draft" (`orchestrator.py:202`) is not so when the
  Critic failed on a revision: the verdict is the critique of the draft before.  Such a
  critique can only reject (`StaleRejects`), so it costs attempts and never lets a
  draft through.  A task also fails with "produced no Executor draft"
  (`orchestrator.py:249`) when an empty revision replaced a draft that was there.
  "Only the Executor is load-bearing; the rest degrade silently" (`orchestrator.py:155`)
  does not hold of the verifier: `verify_completion` is called outside any `try`
  (`orchestrator.py:209`), `verify_program` catches only `SyntaxError`
  (`exec_verifier.py:141`) and the sandbox only a timeout (`sandbox.py:166`), so in
  `exec_cascade` anything else, a full disk say, ends a task that holds a good draft.
  `FailureJustified` has to allow that third reason.
  `architecture.md:80` gives the Large tier a Critic; `pruning.py:32-39` leaves it out.
* *Batch.*  `tests/router/build_capability_labels.py:39` reads its output with an unguarded
  `json.loads`, so that one cut line ends every later resume, which line 7 promises:
  `EverythingIsLabelled` has to except it.  The CSV of an external meter is read
  when the harness is built and never reloaded (`energy.py:196` against `162-163`), so a
  live meter measures nothing.
  `progress.md:508` says that resuming works "without duplicating records or corrupting
  logs".  The first half holds (`OneRecordPerTask`), the second does not: nothing ends
  a line that was cut before the next record is appended (`harness.py:85-86`), and that
  record, a good one, is glued to it and lost as well.  `DamageIsLocal` is the bound that
  does hold, one line and two records for each break.
  `docs/phase7/metric_definitions.md:72` says that a task that fails gets a record in
  `failed_evals.jsonl`.  Two kinds do not: one whose write failed, as `_append_jsonl` only
  warns (`harness.py:89-91`), and one on which something raised outside the `try` of
  `evaluate_task`: scoring (`harness.py:237-279`, where the sandbox lets through whatever
  is not a timeout) or the start of the monitor (`harness.py:157`).  `run_evaluation.py:169-173`
  then prints it and goes on.  `LossesExplained` has to allow both.  The failure
  log does not name the configuration either, so an entry of one counts for all.

## 5. Proofs

Every type invariant, safety invariant, action property and refinement that a passing
run checks is also a theorem, for all values of the constants.

### Assumptions

Assumptions on constants are the named `ASSUME`s of the modules; TLC evaluates them
in every run.  The set of keys is finite; models, hashes, bodies and roles are any
sets.  Two of them say something about the program: `PrefixKeyAssumption`, that all
tasks with the key of a prefix are tasks of that prefix on that model, because
`_execute_local` builds the key from the model and the hash of the prefix, in a
namespace of its own; and `ContractAssumption`, that the value for "nothing" is not
a request.

Some theorems have a hypothesis on the faults.  Each excludes faults under which the
code breaks the property or the contract it rests on (section 4), and each holds in
the runs that check the property:

| Hypothesis | Says | Where it is needed |
|---|---|---|
| `Whole` | no `load_state` fails half-way; and if the process may die, a key fixes the model and the prompt of its requests | HOT and COLD answers |
| `Decodes` | what was written can be read again, and the process lives | the flat map |
| `NoWatchdog` | no running inference thread is given up | exclusion on a model |
| `Cautious` (edge) | no watchdog, no evaluation error, no failing save or write | the contract on the edge |
| `Cautious` (server) | nothing raises half-way, no `cache_disabled` call | the contract on the server |
| `NoServerFaults` | nothing raises half-way (`cache_disabled` calls allowed) | evaluating once |

### The cache

* `KVCacheProofs` has no theorem of a specification: it holds the lemmas about the
  operations that every caller's proof needs.  For each group of actions, what it
  does to the types, to `RamInv`, to the dates, and where states and metadata may
  move (`Shifts`, `MetaShifts`: what is found under a key afterwards was found there
  before, or was just saved).
* `CacheProofs`: `TypeCorrect`; then `StandbyCorrect`, `NothingDropped` and `HotChecked`
  from `RamInv`, their conjunction, which is inductive relative to the types: a victim
  leaves RAM before the new key enters, so the bound survives; metadata are written
  with every state that enters and purged only together with the state; and a purge
  reaches only a key that was not served HOT, so the clean hot key keeps its
  metadata.  `EvictionCorrect` needs `ClockInv`: an entry dated ahead of the clock
  would score 0 as if it had just been used, and files bring old dates back into RAM,
  so the invariant is about both.  Then the larger score, age times (10 - weight),
  decides by age within a weight.  These hold under *all* faults, crashes included.
* `HotProofs`: `HotCorrect` and `ColdCorrect`, under `Whole`.  The invariant `HotInv`
  has five parts.  `HotIsLossless` alone is not inductive: a HOT answer now depends on
  what was in RAM or on SSD when the key became hot.  `TagsAgree` and `PairsAgree` say
  that metadata describe states in RAM and in the pairs of files that are accepted;
  `HotIsResident` that the clean hot key's state is held and its model has it, unless
  the one request that holds that model still owes its declaration; `ContextsOwned`
  that a context comes from the prompt of its request.  `TagsAsked`, that nothing is
  recorded of a key but what some request for it came with, carries the crashes: a
  crash between two files leaves a new binary beside old metadata, and if every request
  for the key has the same model and prompt the two still agree.
* `HotProofs` also has `FlatCorrect`, the refinement `ImplementsFlatStore` step by step,
  and `NobodyRejected`, under `Decodes`.  Beyond `HotInv` it takes `FlatInv`: metadata
  are there exactly for the keys that are held, and fit, length included, what is held
  (`HeldFits`) and what is on SSD (`FilesFit`).  Then the checks of `load_cache` decide
  by the state itself, as the flat map does.

### The callers of the cache

The argument has four layers, the same on the edge and on the server.

1. *Exclusion.*  `ThreadsExclude` from `LocksHeld` and `ThreadsJoined`: a model's lock
   names the caller that holds it, and a thread is only at work while its caller waits
   for it, which is what the watchdog breaks.  On the server `HandlersExclude` from
   `HandlerHolds`; there it holds under every fault.
2. *What the cache keeps in any case.*  `EdgeTypeCorrect`, `EdgeRamCorrect`,
   `RemoteTypeCorrect`, `ServerRamCorrect`: types, the RAM bound, metadata and the
   validation of HOT survive callers that break the contract, abandoned threads too.
   `PrefixesPure` needs exclusion and `PureInv`: a thread about to save a prefix finds
   in the model the prefix alone.
3. *The contract.*  `EdgeKeepsContract`, `ServerKeepsContract`: under the refinement
   mapping `EdgeReq` (`ServerReq`), which reads the request of a model off its lock and
   the phase off the thread, every step is a step of `CacheClient` or a stutter.
4. *What the cache gives to such a caller.*  `HotProofs` is instantiated with that
   mapping, its assumptions are proved to hold (`CacheAssumptions`), and its
   theorems carry over: `EdgeHotCorrect`.  `IInv` then says that a request that is served
   finds what is stored under its key (`HitIsServed`), and `OwnInv`, that what is stored
   and what is in the models belongs to its session, is inductive: `OutputsOwn` and
   `ContextsStayHome`.

`EvaluatedOnce` is apart: it needs no contract.  `AttemptsInOrder` says that every
attempt but the last was refused or lost, and `TokensDone` that whatever tokens
are anywhere come from calls that were evaluated, which a refused call never was.

### The other components

* `RateLimiterProofs`: `RateIsBounded`, `NobodyStarves` from `BucketInv`: what was
  spent since the window opened plus what is left is at most one full bucket plus
  the time, both counted up to the last call rather than up to now.
* `AgentChainProofs`: types, and `RouterMonotone`, `MarginNatural` of the operators.
  `ShapeInv` says what the chain leaves to the loop (there is a draft, and no critique
  without a Critic).  `CostIsBounded` from `BudgetInv`: the calls so far are at most what
  the position in the chain and the attempts begun allow.  `OutcomeCorrect` and
  `DiscardedCorrect` from `JudgeInv`; its core is `StaleRejects` with `CritiqueFits`: a
  redraft happens only after a rejection, so a critique that outlives its draft is one
  that rejected, and an approval is always about the standing draft.  `FailureCorrect`
  rests on its `RejectedOnes`: what the task had when it failed was rejected, was empty,
  or is the draft whose examples raised.  `FreshEyesCorrect`
  from `FreshInv`, which adds what `JudgeInv` does not say: when a draft is about to be
  replaced on its own tier, the last critique rejected *that* draft, or the Critic
  failed (`RejectedBy`); and only an escalation hides the feedback (`FeedbackInv`).
  `KeysCorrect` from `KeyInv`: the tier in a key tells the model.
* `BatchProofs`: `ResumeIsExact`, `LossesCorrect`, `EnergyCorrect`, `SlotsCorrect` from
  `EvalInv`, for any numbers of tasks, configurations, slots and breaks.  What makes it
  inductive: what a harness has not passed yet and has no record of when it was
  built still has none (`Accounted`), and a task it has passed left a trace or is in `untraced` (`Traced`).
  `DamageStaysLocal`, by counting an open last line as lost already and the record that
  will join it with it (`DamageInv`).  `LabelledOnce`, `LabelledLow` from `LabelInv`:
  pending prompts have no readable label, and every smaller tier was tried on them and
  failed or raised.

### Only model-checked

Liveness: `CallersReturn`, `DispatcherReturns`, `ChainEnds`, `EverythingIsRecorded` and
`EverythingIsLabelled`.  They rest on fairness, whose `ENABLED` no installed prover
treats.  The two violations are TLC's as well.

## 6. Plan

Done: the models of sections 2 and 3, and every safety property of a passing run as a
theorem.  What is left, in this order:

1. The liveness arguments as safety: that a state in which nothing can be done is one
   where all is done, and measures that every step of a loop lowers, for
   `ChainEnds` and `DispatcherReturns`.
2. Weaker hypotheses than `Cautious`, which is sufficient and not always necessary: an
   evaluation that raises on a context nobody is HOT in does no harm.
3. `ImplementsFlatStore` over crashes, for an abstract map that may fall back to an
   earlier state of a key.

## 7. Not modelled

* Log files, wording, token counts and latencies: no property depends on them.
* `compute_cache_key` and `delete_from_ssd`: nothing calls them.
* The byte layout of serialised states: only its outcomes are.
* `cache_disabled` for a whole dispatcher: it takes the cache out of the path.
* `Ping`, authentication and validation: they keep no state and are `Reject`.
* A clock that is set back: `now` never decreases.
* A chain whose steps are the steps of `EdgeDispatch`: the chain waits for each
  call, so nothing but its outcome gets back, and that is left open in `AgentChain`.
* A resume with other settings (few-shot, seed, token budget): records count as done by
  configuration and task, and the settings are fixed over a behaviour.
* Two drivers on one file at a time: nothing in the repository starts two.
* A verifier together with a Critic in the chain: `runner.py` builds no such
  configuration.
* The integration of power samples, the limits of the sandbox (the operating
  system's), and the extraction of examples from a prompt (text).
* Calibration and metrics (floating-point batch numerics), sampling, few-shot
  construction and routing features (pure text), decoding (logits), model files, CLI,
  configuration and generated stubs.
