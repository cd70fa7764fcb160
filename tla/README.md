# AgentActum: TLA+ models, model checking and proofs

AgentActum is a Python library that stands between an AI agent and the tools it
wants to call. A host registers tool contracts and handlers; an agent's
`ActionIntent` is resolved against a contract, validated, put before policy and
approval, claimed under an idempotency key, executed once, checked, and logged.
Beside the pipeline the library has a transactional outbox, a compensation
coordinator, a transaction state machine and a facade. This directory models them
in TLA+, checks small instances with TLC and proves the main safety results with
TLAPS for every value of the constants.

Paths below are relative to `src/agentactum/` in the repository.

## 1. Inventory

| Component | State | Operations | Interacts with | What makes it correct |
|---|---|---|---|---|
| single-action runtime (`execution/runtime.py`) | none of its own; the locals of each running `execute()` | `execute` | calls registry, engine, approval checker, backend, ledger, conditions and handler, in that order | no effect around a gate; one effect per key; truthful results; every claim settled |
| idempotency backend (`idempotency/backend.py`) | key -> record (in progress / completed, owner token, result) under an `RLock` | `claim`, `get_record`, `mark_completed` | called by the runtime, from any thread | one owner per key; a final outcome is final |
| policy engine (`policies/engine.py`) | tuple of policies | `evaluate` | called by the runtime; calls host policies | fails closed; risk never lowered; independent of order |
| approval checkers (`execution/runtime.py`) | set of approved intent ids | `is_approved` | called by the runtime | an exception never approves |
| tool registry (`contracts/registry.py`) | name -> registered tool, under an `RLock` | `register`, `get`, `contains`, `list_contracts` | read by the runtime while hosts register | a name is bound once, for ever |
| audit ledger (`ledger/`) | list of events with sequence numbers, under an `RLock` | `append`, reads | written by runtime, outbox, coordinator | append-only, gapless |
| transactional outbox (`outbox/`) | operation id -> staged operation, under an `RLock` | `stage`, `release`, `release_all`, reads | runs handlers under its lock; writes to the ledger | one release per operation |
| compensation coordinator (`compensation/`) | none | `compensate` | runs compensators; writes to the ledger | reverse order, best effort, complete report |
| transaction state machine (`transactions/`) | immutable snapshots | `transition` | none; no other code of the package looks at a transaction's status | only legal transitions; terminal states are terminal |
| key derivation (`idempotency/keys.py`) | none | `create_key` from the tool name and chosen argument fields | used by the facade | two actions share a key exactly when tool and chosen fields agree |
| schema subset (`execution/runtime.py`) | none | validate a value | used by the runtime | rejects what the schema rejects |
| facade, LangGraph adapter (`facade.py`, `langgraph.py`) | wrapper closures | `protect` and wrapped calls | build intents for `execute` | every wrapped call goes through `execute` |

**What is hard.** All of these are called from several threads; `execute()` holds
no lock, so two calls interleave between any two accesses to the registry, the
backend and the ledger. Every callback may raise, and the ledger is called up to
seven times in one `execute()`: two of those appends must stop the call if they
fail, the others must not change its outcome. Six return paths lie behind the
claim and each must complete it. Retries arrive before, during and after the
first call. The policy loop returns early at the first bad answer and yet must
not depend on order. The outbox runs handlers under its reentrant lock, so a handler
can call it again, and every exception has to unwind that lock. Transactions are
immutable snapshots, so that several holders can commit the same one. The
coordinator lets a raising ledger through in the middle of a recovery. A wrapper
of the facade may share an iterator among its calls. `PROJECT.json` lists these hazards at the line where they
bite, with the properties that would catch them.

## 2. Modules

| Module | Role |
|---|---|
| `IdempotencyRecords` | the bodies of `claim` and `mark_completed` as operators on one record |
| `AtomicIdempotency` | abstract specification: what the backend promises, each operation one atomic step |
| `IdempotencyBackend` | the backend as written: threads enter a method, wait for the lock, read, write, leave, or raise inside the lock |
| `Policies` | decisions and the composition rule |
| `BuiltInPolicies` | the four built-in policies, and `float()` as their thresholds meet it |
| `PolicyEngine`, `MCPolicyEngine` | the evaluation loop over those policies and arbitrary host policies |
| `SingleActionRuntime`, `MCRuntime` | concurrent `execute()` calls over registry, policies, approval, idempotency records and ledger |
| `Facade`, `MCFacade` | `protect()`, its wrappers, key derivation and the adapter's result, on top of `SingleActionRuntime` (which it extends) |
| `Outbox` | the outbox with its lock, threads, nested calls and handlers |
| `TransactionSnapshots` | the transition table, `transition()` and the validator as operators on one snapshot |
| `TransactionHolders`, `MCTransactionHolders` | the snapshots of one transaction in the hands of a host: constructed, moved on, copied, replaced, dropped |
| `Compensation`, `MCCompensation` | `compensate()`, called once or again |
| `IdempotencyProofs`, `RuntimeProofs`, `CompositionProofs`, `PolicyProofs`, `OutboxProofs`, `TransactionProofs`, `CompensationProofs`, `FacadeProofs` | theorems |

`SingleActionRuntime` uses `Policies` (through `Evaluate`, the engine's loop as one
step) and `IdempotencyRecords` (one critical section as one step). That the latter
is sound is what `IdempotencyBackend` => `AtomicIdempotency` establishes, by TLC
and by proof. `PolicyEngine` keeps no shared state, so its loop is one step of a call;
that the loop computes `Evaluate` is a theorem of `PolicyProofs`. The proof modules
follow the same lines: `FacadeProofs` extends `RuntimeProofs`, and `RuntimeProofs` and
`PolicyProofs` share `CompositionProofs`.

### IdempotencyBackend and the code

`records` is `self._records`, `lock` the holder of `self._lock`. `pc` is where a thread
is: idle, waiting at `with self._lock` (`acquire`), about to look the key up (`read`),
about to decide on what it found (`decide`), about to leave the block (`release`).
`existing` is the record it read and `answer` what the method returns or raises
(`KeyError`, `IdempotencyOwnershipError`). `Acquire`, `Read`, `Decide` and `Release`
are the steps of each of the three methods. Owner tokens come from `uuid4` and are never drawn
twice for a claim (`granted` remembers which token won which key). Any token may be
handed to `mark_completed`, since `claim()` shows the owner's token to every
caller that loses. `result_reference` is left out, as nothing reads it, and so are the
timestamps (see section 5).

### SingleActionRuntime and the code

A member of `Calls` is one call of `execute()` and also names the `execution_id` and
owner token drawn for it. `pc[c]` is the next place at which the call touches shared
state or a callback; the actions in order are

| Action | Code |
|---|---|
| `Register` | `ToolRegistry.register`, at any time |
| `Receive` | entry and the `action_received` gate |
| `Resolve` | `registry.get`, contract match, input schema, `contract_validated` |
| `EvaluatePolicy` | `engine.evaluate`, `policy_evaluated`, denial |
| `CheckApproval` | `is_approved`, exceptions counted as "no" |
| `ProceedWithoutKey`, `ClaimKey` | missing key, claim, replay or in-progress refusal |
| `CheckPreconditions` | all pass, or the first failure concludes the call |
| `StartExecution` | the `execution_started` gate |
| `InvokeHandler`, `HandlerRaises`, `HandlerReturns` | the handler, entered and left in separate steps, and the output schema |
| `CheckPostconditions` | postconditions, final result and its event |
| `CompleteClaim` | `_complete_claim`, return |
| `Interrupt` | a `BaseException` that `execute()` does not catch, at any point |

A ledger append is `Recorded \/ NotRecorded`: it may raise on any call, which
`_append_event` turns into `False`. A result passes through `model_dump` and
`_decode_execution_result` on its way through the store. Outputs are abstracted to
the schema's verdict and to how they serialize: JSON, accepted by `json.dumps` but
not by the result model, or neither. Arguments are abstracted to whether the
contract's schema accepts them.

### PolicyEngine and the code

One `Begin`/.../`Return` cycle is one `evaluate()`. `Consult` is one iteration of the
loop; a host policy may return any decision, a decision for another intent,
something that is no decision, or raise. `Compose` is `_compose`, whose
`ValidationError` on duplicate constraint names is an outcome of its own. Constraints
are a set, so the order of the constraint tuple is outside the model, as is the
wording of the reasons, which also follows the order of the policies.

`NumericApprovalThresholdPolicy` converts its threshold with `float()` and compares
amounts with the result. In `BuiltInPolicies` every finite number, amounts and thresholds
alike, is an integer count of the smallest positive float, which makes comparisons
exact, as Python's between `int` and `float` are. `float` rounds to the nearest float, half
to even, in a format given by two constants: `Significand` (2^53 in CPython) and
`Spacings` (2^0 to 2^2045 in that unit). NaN and the infinities are thresholds too;
amounts are finite, since `ActionIntent` rejects the others
(`tests/unit/test_enums_and_contracts.py:191`). A threshold for which `float()` raises
`OverflowError` makes no policy (`Convertible`).

### Facade and the code

A call `c` is in `phase` "idle", "fields" (arguments bound, reading
`idempotency_fields`), "executing" (inside `execute()`, from where the actions of
`SingleActionRuntime` carry on) or "refused" (the wrapper raised and the runtime was
not called).

| Action | Code |
|---|---|
| `Protect` | `protect()` and its decorator: `registry.register`, then the wrapper |
| `CallWrapper` | `_bind_json_arguments`, which binds and converts, or raises |
| `TakeField` | `tuple(idempotency_fields)` when it is an iterator, field by field, since a generator lets other threads run between two fields; `rest` is what it still holds |
| `CallExecute` | `create_key`, the `ActionIntent`, and `execute()` up to its first gate |
| `WrapperRaises` | `create_key`, the clock or the context factory raises |

A key is its material: the tool, the fields in order, and their JSON values.
`create_key` serializes numbers as JSON text, so 250 and 250.0 are different values
to the model as they are to the code. `_serialize_result` is what the LangGraph
adapter returns for a result.

### Outbox and the code

`operations` and `order` are `self._operations` (a dict keeps insertion order), `lock`
is the owner of `self._lock`. `stack[t]` holds the calls thread `t` is in, the
innermost last: a handler that calls the outbox again pushes a call on its own
thread's stack and gets through the reentrant lock. A call of `release()` is at
"acquire", "invoke" (looked up, about to run the handler) or "handler"; a call of
`release_all()` holds its snapshot, what is left of it (`todo`, taken in insertion order
by `Earliest`), and its two lists, as sets of operations.

| Action | Code |
|---|---|
| `Stage` | `stage()`; a ledger that raises comes after the operation is stored |
| `CallRelease`, `Acquire` | `release()` up to `with self._lock`, then the lookup: unknown raises, an outcome is returned, staged goes on |
| `CallReleaseAll`, `ReleaseNext`, `ReturnSummary` | `release_all()`: its snapshot, its loop, its summary |
| `Invoke` | the handler is entered |
| `HandlerReturns`, `HandlerRaises` | the outcome is stored and logged; the append may raise (`Store`) |
| `OutputRejected` | the record of the outcome cannot be built; nothing is stored |
| `Interrupt` | a `BaseException` crosses all calls of the thread |

`effects`, `unstored` and `reentered` are histories: how often each handler was
entered, and the two reasons why it may be entered again.

### TransactionHolders and the code

A holder is a variable of the host, in whatever thread; `held[h]` is the snapshot it is
bound to. `Create` is the constructor, which accepts every snapshot the validator
accepts, proposed or later. `Transition(h, g, ...)` is `g = h.transition(...)` with any
status and any arguments: times before and after creation, a reason or none, approval
request ids left out, empty, given, or given twice. With `g` = `h` the old snapshot is
replaced, otherwise it stays and can be moved on again. A call that raises changes
nothing. `Copy` and `Drop` are what a host does to pass a snapshot on. `path` remembers the
statuses a snapshot went through, `outcomes` how often the transaction came to a
terminal one, and `shared` whether it was ever moved on while another snapshot of it was
held. `transition()` and `validate_state()` write out their sets of terminal states
separately, and so does `TransactionSnapshots`.

Transactions and outbox are not composed: `stage()`, `release()` and `release_all()` take a
transaction id and never look at a transaction, so nothing the state machine does
reaches the outbox.

### Compensation and the code

`Begin`, the loop (`IgnoreFailed`, `SkipPlan`, `AnnounceAttempt`, `EnterCompensator`,
`CompensatorEnds`, `RecordResult`) and `Summarize` follow `compensate()` and
`_attempt_compensation()` line by line; `Disposition` is the branch a plan takes.
Any append may raise, which ends the call (`AppendRaises`), and so do an output that
is no JSON value and a `BaseException` (`ResultLost`). `CallAgain` is a host that
calls `compensate()` again with the same plans. `entered` and `undone` remember, per
call, which compensators ran and which returned.

## 3. Runs

| Run | Result | Shows |
|---|---|---|
| `idempotency_backend` | pass | `SingleOwner`, `OwnerIsGrantee`: a key is granted once and the store names the grantee. `CompletionIsFinal`: a completed record never changes and a claimed one keeps its owner. `Linearizable`: the locked backend implements `AtomicIdempotency`. `LockProgress`: whenever a thread waits for the lock, some thread reaches the end of its critical section, so no exit keeps the lock. |
| `policy_engine` | pass | `FailClosed`, `RiskFloor`, `OrderIrrelevant` (also across early returns), `MorePoliciesNeverWeaken`, `BuiltInsEnforced`: what passes without approval satisfies every built-in policy, amounts exceeding a finite threshold by no more than the rounding of its conversion, one part in `Significand` |
| `runtime_safety` | pass | `AtMostOneInvocationPerKey`, `NoUngatedEffect` (of the audit events, `action_received` and `execution_started` are gates; see the observations below), `ReplayIsFaithful`, `TruthfulResult`, `EffectUnderOwnClaim` |
| `facade` | pass | `OneEffectPerAction`: calls that agree on the declared fields enter the function once, unless they divided an iterator among them. `DerivedKeysDoNotAlias`: a replayed outcome belongs to the same action, unless calls divided an iterator that names a field twice. `OutputMeansSuccess`: a bare output from the adapter comes from a function that ran and succeeded. `ClaimsSettle`: every path behind the claim completes it, unless an exception left `execute()`. |
| `outbox` | pass | `DuplicatesAreExplained`: races and repetitions alone never run a handler twice; only an outcome that could not be stored or a handler that releases itself does. `OutcomeIsFinal`, `SummaryIsTruthful` (also for operations another thread released), `LedgerFailureKeepsOutcome`, `LockIsFreed`. |
| `transaction_holders` | pass | `TerminalStatesStay`: no lineage of snapshots leaves a terminal state. `OneOutcomeUnlessShared`: however it is handed about, a transaction has one outcome unless it was moved on while a second snapshot of it was held. `LegalMovesSucceed`: the table, the terminal set of `transition()` and that of the validator agree. |
| `compensation` | pass | `ReverseOrder`, also where a call breaks off; `EffectsAccountedOnce`; `StatusIsHonest`; `RecoveryIsAudited`; `NoSecondAttempt` within a call; `CallEnds` |
| `composition_error` | violation | `evaluate()` raises instead of denying |
| `changed_intent` | violation | another tool or other arguments under a used key alias to the recorded outcome |
| `unstructured_failure` | violation | `execute()` raises after the effect and leaves the key in progress |
| `unaudited_success` | violation | success returned without its audit event |
| `repeated_release` | violation | a second `release()` runs the handler again |

### Findings

The five violations are places where the code differs from its documents.

1. `policies/engine.py:354`. Two `ALLOW_WITH_CONSTRAINTS` decisions with a common
   constraint name make `_compose` raise a validation error outside the loop's
   `try`. `docs/security-invariants.md:71-73` promises a denial. No tool runs, so
   it is safe, but the caller gets an exception.
2. `execution/runtime.py:263`. The claim is made by key alone.
   `docs/security-invariants.md:120-121` promises that a changed fingerprint is
   rejected and never aliases. `create_key` puts the tool name and the chosen fields in
   the key, so a derived key can alias only in the fields that were left out.
3. `execution/runtime.py:360`. A tuple passes `json.dumps` and is then rejected by
   the result model after the handler ran; the exception leaves `execute()` and the
   claim is never completed. The trace TLC prints is the shortest: an output that does
   not conform to the schema, which `_failure` is to report (lines 353-361). A failed
   postcondition (379-388) and a success (398-407) end in the same way.
   `docs/product-spec.md:169-170` promises a structured failure.
4. `execution/runtime.py:408`. The answer of the last append is ignored.
   `docs/security-invariants.md:197-199` promises an indeterminate outcome.
5. `outbox/backend.py:131`. `release()` builds the record of the outcome after the
   handler ran and outside the `try`. An output that is no JSON value raises there,
   the operation stays staged, and the next release repeats an irreversible effect.
   A handler that releases its own operation gets the same result through the
   reentrant lock. `tests/unit/test_outbox.py:60` says that releasing twice does not
   duplicate the side effect. The name of that test limits this to operations that
   are terminal, which these are not; its docstring does not.

Further observations have no run of their own:

- `execution/runtime.py:189, 201`: a `contract_validated` or `policy_evaluated` event that
  cannot be appended is ignored and the action goes on to its effect.
  `docs/security-invariants.md:194-195` (INV-AUD-04) says that failure to record a
  required decision prevents effect release. `NoUngatedEffect` therefore excludes these
  two events and counts only `action_received` and `execution_started` as gates.
- `transactions/models.py:106`: two holders of a snapshot can both commit it, or one
  commit and one fail it. `docs/security-invariants.md:141-143` (INV-TXN-03) promises a
  single commit owner, and line 211 (INV-CONC-01) synchronized transaction
  ownership. `OneOutcomeUnlessShared` says what is left of it: a host that keeps one
  snapshot at a time gets one outcome.
- `outbox/backend.py:78, 104, 151`: `stage()` and the releases accept any transaction id
  in any state, while the docstrings at lines 49-53 speak of release after commit and
  INV-TXN-04 of no irreversible effect before it. The order is the host's to keep, and
  no property here claims it.
- `policies/engine.py:245`: the docstring (line 255) asks for approval when the argument
  exceeds the threshold. A threshold that `float()` rounds up lets amounts through that
  exceed it (with 9007199254740995, the amount 9007199254740996), and with NaN nothing
  needs approval. `BuiltInsEnforced` has the exact bound.
- The outbox keeps its lock while handlers run, which `docs/security-invariants.md:215`
  (INV-CONC-02) rules out for executors.
- `docs/architecture.md:188-191` says that the coordinator continues after a
  compensation failure: it does when a compensator raises, but an output that is no
  JSON value, or a ledger that raises, ends the call and leaves the earlier effects in
  place (`ReverseOrder` says exactly which).

### Bounds and why they are enough

- Backend: two threads, two keys, two tokens, two results, with no bound on the
  number of operations. Races on a record are between two threads; two keys show
  that keys do not disturb each other; a second token and result make a theft or a
  rewrite visible. The proofs lift the bounds.
- Engine: built-in policies pairwise before a host policy, three host policies, and
  the empty engine; four risk levels; floats with four significands and three
  spacings, so that of the thresholds 5 is rounded down, 7 up and 9 down, 3 and 0 are
  exact and one is negative, beside NaN and the infinities; amounts below, at and
  above the converted thresholds or missing. Composition is a maximum over risk and a choice by kind of decision, so
  three policies contain every combination of two with a witness.
- Runtime: two calls on one key, so that every pair of sites is reached; a high-risk
  tool that needs a key and a low-risk one that does not; seven intents, one per
  gate, two of which change arguments or tool under the same key; six sequences of
  policy answers (none, high risk, approval, a raising policy, constraints,
  conflicting constraints). Calls are interchangeable, hence the symmetry set. The
  safety results are proved for any number of calls.
- Facade: two calls of one protected function, which is all that racing for a key
  takes, and for an iterator of distinct fields (section 4 has the case of a repeated
  field, which takes three; the proofs cover any number of calls); six ways to protect it (no key, required fields, no usable
  "required", explicit fields, a field that is no parameter, an iterator of two
  fields); two argument objects that agree in one field and differ in the other.
  One policy answer and a low risk, since the gates are the subject of
  `runtime_safety`; no symmetry, for the sake of `ClaimsSettle`.
- Outbox: two threads, two operations, two transactions, calls nested two deep
  (`MaxDepth`; a `release_all()` in a handler adds a third level). The number of
  calls is not bounded. Two operations let a summary be half done, two levels let a
  handler release itself and the other operation.
- Transactions: two holders, two points in time, of which one lies before the creation,
  one approval request. Two snapshots that are moved on past each other take two
  holders; a handover takes a copy and a drop. The proofs cover any number.
- Compensation: all lists of up to three plans of seven kinds, one per branch of the
  loop and two that are attempted; with and without a ledger and a failed execution;
  two calls (`MaxCalls`).

### Fairness

- `IdempotencyBackend`: weak fairness of each thread's progress through a method.
  `RLock` gives no fairness among waiters, so nothing is claimed of a waiting
  thread; a thread that holds the lock runs straight-line code.
- `SingleActionRuntime`: weak fairness of each call's steps, i.e. a thread is
  scheduled and callbacks come back. `execute()` has no timeout; with a handler that
  never returns, its claim stays in progress by design. `Interrupt`, `Register` and
  `Receive` are not fair: they may never happen.

- `Facade`: the same, and weak fairness of the wrapper's own steps.
- `Outbox`: weak fairness of each thread inside the outbox, which implies that
  handlers come back, and for each nesting depth strong fairness of a handler's end:
  a handler that keeps calling the outbox still ends at some time. As above, nothing
  is claimed for a thread that waits for the lock.
- `Compensation`: weak fairness of the call; compensators come back. `CallAgain` is
  not fair.
- `PolicyEngine` and `TransactionHolders` state no fairness: their properties are safety.

Deadlock is checked in every run. Where calls end for good, `Quiescent` and
`FacadeQuiescent` mark the states in which all have.

## 4. Proofs

Every safety property of the passing runs is also proved: 35 of the 39, the other four
being liveness. Constants are arbitrary sets: any number of threads, calls, keys,
tools, policies, plans, operations and transactions, and calls nested to any depth.
The assumptions are the named `ASSUME`s of the modules, which TLC evaluates in the
runs:

- `None` is no member of the sets it is joined with;
- contracts have a name, a risk level and a key flag, intents a tool and a key or none,
  amounts are integers (in the unit above) or missing, thresholds are convertible or not
  finite, policies are built-in or the host's, and answers
  are sequences of answers;
- plans, approval requests, required and chosen fields are lists of plans, requests
  and fields; times are numbers and the time of creation is one of them;
- `FloatFormat`, `NonFiniteAssumption`: significands and spacings are positive, and what is not
  finite is no integer; that spacings are powers of two is not needed;
- `KeysAssumption`, `DerivedIntentsAssumption`: the runtime's `Keys` and `Intents` hold
  what the facade may derive, from finitely many fields;
- `ApprovalCanBeRequested`: some list of approval requests is neither empty nor
  repeats itself. Without it `LegalMovesSucceed` is false, since a host without a
  request to name cannot move to "awaiting_approval".

**`IdempotencyProofs`.** `SingleOwner` is not inductive: it needs that the record a
thread read is still the stored one when it writes. The invariant therefore says
that a thread inside a critical section holds the lock (`MutualExclusion`), that what
it has read is current (`ReadIsCurrent`), and that a key has been granted to a token
exactly when the store has a record owned by it (`GranteeIsOwner`, `OwnerIsGrantee`).
From it follow `SingleOwnerHolds`, `OwnerIsGranteeHolds`,
`CompletionIsFinalHolds` (an action property) and `Refinement`: each write under the
lock is the abstract step, everything else a stutter.

**`RuntimeProofs`.** The inductive invariant `IInv` has, besides
`TypeOK`, one part per gate, saying what a call has established by the time it is at
or beyond a site (`ResolvedGate`, `ReceivedGate`, `DecisionGate`, `ApprovalGate`,
`ClaimGate`, `StartGate`), two parts that tie `acquired` and the stored owner to each
other (`ClaimHasRecord`, `RecordHasClaim`), one that says a completed record is the
dumped result of its owner (`RecordIsResult`), and parts for results
(`ResultStage`, `ReplaySource`). The gates are needed because `NoUngatedEffect` speaks
of calls that were invoked, and what makes it true was decided several steps and
possibly many other calls' steps earlier. From it follow
`AtMostOneInvocationPerKeyHolds`, `NoUngatedEffectHolds`, `ReplayIsFaithfulHolds`,
`TruthfulResultHolds` and `EffectUnderOwnClaimHolds`.

**`CompositionProofs`.** Three theorems about `Evaluate` for answers of any number, used
for the engine and for the runtime: `EvaluationKeepsRiskFloor` (the maximum of the risks
is one of them and bounds them, so it is at least the contract's),
`EvaluationIgnoresOrder` (the composition looks only at which answers occur, and an
injection of a finite set into itself reaches every position) and
`MoreAnswersAreStricter` (the sets the composition chooses from only grow).

**`PolicyProofs`.** The loop is tied to `Evaluate` by `LoopComputesEvaluate`: while it runs,
the answers are those of the first policies, in order, and all are decisions
(`AskedInOrder`, `LoopEvaluates`); when it ends, early or not, the outcome is what
`Evaluate` says of the answers it has seen. An action without its contract is denied
and nobody is asked (`NothingAsked`). `EngineFailsClosed`, `EngineKeepsRiskFloor`,
`OrderDoesNotMatter`, `MorePoliciesAreStricter` and `BuiltInsAreEnforced` follow from it
and the theorems on composition. For the last one, `RoundingError` bounds the conversion of
a threshold: it is off by at most half a spacing, and a spacing other than the smallest
is at most two parts in `Significand` of the number. Hence an amount that passes exceeds
the threshold by at most one part in `Significand`, and below `Significand` units, where
that is less than one, not at all. It is also what lets `SingleActionRuntime` take the
loop as one step.

**`OutboxProofs`.** The difficulty is the reentrant lock: holding it excludes other
threads but not the thread's own handlers. `Ownership` says that whoever is inside a
`release()` owns the lock, `Nesting` what a call may have inside it, `LookedUp` that what
a thread looked up is still staged, and `Alone` that a thread is inside `release()` of
an operation only once, both unless the operation's own handler released it.
`Counted` relates the number of effects to the status and to the handlers that are
running. `Listed` is what `SummaryIsTruthful` needs to be inductive: nobody who could
still change the outcome of a listed operation is inside, except the callers of that
very `release_all()`. The theorems are `DuplicatesHaveAReason`, `SummariesAreTruthful`,
`OutcomesAreKept` and `OutcomesAreFinal` (an action property).

**`TransactionProofs`.** `OneOutcomeUnlessShared` counts events and is not inductive: it needs
that, until the transaction is shared, all holders have the same snapshot and that
this is the outcome once there was one (`OneLineage`), from where the table has no way
on. Beside it stand the validity of all that is held (`Validated`) and
`TerminalStatesStay`. Hence `OutcomesDoNotFork`, `TerminalStatesAreFinal` and
`NobodyIsStranded`, whose proof needs the two terminal sets to be equal.

**`CompensationProofs`.** The loop runs from the last plan to the first; each part of the
invariant says what holds of the plans behind it: which compensators were entered
(`EnteredSoFar`) and returned (`UndoneSoFar`), which results and left-overs the lists
hold, in descending order (`ResultsSoFar`, `LeftSoFar`), and which events the log has
(`AuditSoFar`). `Past` keeps the calls of one host apart. When the loop is through, all
plans are behind it, which gives `RecoveryRunsBackwards`, `EveryEffectIsAccounted`,
`SummaryIsHonest`, `AttemptsStayVisible` and `CompensatorsRunOnce` (an action property).

**`FacadeProofs`.** `FacadeUsesTheRuntime`: what the facade does to the runtime is a
behaviour of the runtime, so the theorems of `RuntimeProofs` hold for protected
tools. The invariant adds that a wrapper's contract is the registered one
(`ProtectedIsRegistered`), that the runtime was called with the intent the wrapper
built (`IntentsAreBuilt`), and how calls divide an iterator (`FieldsAreDivided`): what
any two calls took and what is left is no more than was declared, and when the
declared fields are distinct, no field went to two calls. `ProtectedToolsActOnce` then
follows from one invocation per key: calls without an iterator derive one key, and a
call that got all the fields of an iterator leaves the others none, so that
`create_key` refuses them. `ReplaysAreOfTheSameAction` reads the tool, the fields and
their values off the common key.

The attempt to prove `DerivedKeysDoNotAlias` showed that an earlier form of it, without
the last disjunct, is false: three calls that divide an iterator over "payment",
"payment", "amount" may take one field each, and the two that took "payment" share a
key although their amounts differ. Two calls cannot do this, which is why the run did
not show it; with three calls TLC finds it. Read by one call alone such an iterator is
refused, as its fields repeat. The property now says so.

**Only model-checked.** The liveness properties `LockProgress`, `ClaimsSettle`,
`LockIsFreed` and `CallEnds`, which need fairness and `ENABLED`, beyond the provers used;
and the five violations, which are counterexamples. That `create_key` derives the key
from the JSON text of the material, and SHA-256 being injective, is assumed in the
model and not proved.

## 5. Not modelled

- Clocks and timestamps, except in transactions, where the caller gives them. Four
  validators reject a record or a result that ends before it starts
  (`idempotency/models.py:43`, `execution/models.py:34`, `outbox/models.py:53`,
  `compensation/models.py:28`), which only a clock that runs backwards can cause;
  `docs/security-invariants.md:35` puts that out of scope.
- Aliasing of mutable dictionaries that hosts keep references to.
- Idempotency backends, ledgers and registries that a host writes itself, except
  that the ledger may raise and the callbacks may answer anything.
- What a JSON schema accepts (a recursive function over JSON documents): the runtime
  model uses the verdict only. Likewise which Python values `_as_json_value` takes.
- The ledger's own code, which appends to a list under a lock and numbers events by
  the list's length; the models have what its users see of it.
- Several outboxes whose handlers release into each other, and several facades that
  share a registry but not a backend.
- `ApprovalRequest` (a validated value that nothing consumes), the enumerations, the
  LangGraph adapter's `tool_node()` (a third-party import).

## 6. Plan

1. Refinements beyond the backend: the outbox against an abstract one whose `release()`
   is a single step, for hosts whose handlers do not call it again; the facade against
   "one effect per action".
2. More of the runtime's conduct as theorems: what the audit log of a call contains at
   each of its ends, and that a call that ended stays as it is.
3. Three calls in the `facade` run, should the state space allow it.
