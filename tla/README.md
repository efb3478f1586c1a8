# TLA+ models of the SQCM-i inventory system

SQCM-i is an asset and inventory system for one company: an Express API over
PostgreSQL (`src/src`), a browser front end (`src/frontend`), and a large set of
operations programs (`src/src/operations`) that put a release into production.
This directory holds TLA+ specifications of the parts in which several actors
touch the same rows, files or services, the TLC configurations that check them
on small instances, and TLAPS proofs of the properties that matter most.

Contents: [inventory](#1-inventory) · [modules](#2-modules-and-the-code-they-model) ·
[runs](#3-runs) · [fairness](#4-fairness) · [proofs](#5-proofs) ·
[disagreements](#6-where-documents-and-code-disagree) ·
[limits](#7-what-is-not-modelled) · [plan](#8-plan)

## 1. Inventory

All state that matters is in PostgreSQL. Node handlers keep nothing between
requests; what they read before an `await` may be stale after it, unless a row
lock protects it. The connection pool has ten connections, and each has
`statement_timeout` 5 s. Two more actors write to the same database: the
outbox timer and the automation worker; nothing keeps a second server process
from doing so. The operations programs keep their state in files (leases, receipts,
evidence documents) and may die anywhere.

| Component | State | Operations | Interacts with | What is hard | What makes it correct |
|---|---|---|---|---|---|
| Stock ledger (`services/inventory-service.js`) | `items`, `loans` | create, update, deactivate, checkout, return | same transaction writes audit and outbox rows | five read-check-write transactions on the same rows; locks taken in two orders of tables | stock balances, stays in bounds, no loan on a deactivated item, a loan closes once, no deadlock; the transactions are those of an atomic ledger |
| Assets and requests (`enterprise-service.js`, `approval-service.js`) | `assets`, `asset_assignments`, `workflow_requests`, approval steps | create asset, change status, create/submit/approve/reject/cancel request | approvals apply to assets and assignments in one transaction; photos gate returns | checks made at draft time, used at approval time; two ways to change a status | steps in order, assignments only by a last approval |
| Return evidence, files (`return-service.js`, `file-service.js`) | file rows, object store | upload, download, deactivate | scanner and store between two transactions | check before `await`, write after it | a return is approved only with a photo |
| Procurement (`enterprise-service.js`) | `purchase_orders`, `receipts`, `inspections`, `assets` | order, receive, inspect | the request of the workflow; an inspection creates assets | sums over rows that others insert | never over-received, assets match passed receipts, verdicts final (proved only) |
| Idempotency (`idempotency.js`) | `api_idempotency_keys` | insert, look up, take over, complete, delete | wraps every mutating handler | key row and business transaction commit apart; takeover after two minutes | one handler at a time, answers are true, repeats only after faults |
| Outbox (`outbox-service.js`, `server.js`) | `outbox_events` | claim, publish, record outcome | external HTTP service | slow worker loses its lock; delivery without acknowledgement | one worker at a time for an event, nothing lost, every event settled |
| Automation worker (`automation/worker.js`) | worker lease, runs, notifications | take the lease, run rules, notify | assets, outbox | the lease of 55 s is not renewed while rules run, and compared with the clock of each host; an error leaves a run RUNNING | rules run as lease and run rows say |
| Organizations and invitations (`organization-service.js`) | organizations, users, invitations | invite, revoke, accept | login | look-up and insertion are two statements; accept against revoke | an address is accepted once |
| Login, MFA, sessions (`app.js`, `mfa-service.js`) | users, sessions, MFA rows, reset tokens | login, lock, TOTP, recovery, enrol, disable, change and reset a password | session store | counters outside transactions; a session is written back at the end of a response; replay of a code | a code is used once; a changed password ends sessions; MFA that is demanded can be met |
| Migrations (`db.js`, `server.js`) | `schema_migrations` | migrate under an advisory lock, or verify only | every start of a server | servers of several releases start together | each migration once; a server meets the schema of its release |
| Production cutover (`operations/production-cutover-*.mjs`) | receipts of each run, checkpoints, evidence, sign-offs | execute twelve gates, pause, resume, finalise, contain | ingress, containment | a gate fails and containment fails; a command dies, or two work on one run; the window runs out | gates in order; a failure ends contained; GO once, and only for a complete run |
| Ingress publication (`scripts/production-ingress-*.mjs`, `production-route-disable.mjs`) | lease, credential and configuration files, tunnel, DNS record, local process | publish, roll back, disable, recover orphans, recover the lease | cutover, provider | the owner of a lease dies; a call fails whose effect comes later | one holder; no tunnel loses its key |
| Operations activation (`operations/operations-activation-*.mjs`) | lease, claim, receipts, documents, SLO ledger | a heartbeat runs the next step of a plan as a child process | the commands below | two heartbeats; a child outlives its command; a document expires | one writer; evidence in order; it ends |
| Evidence runners of P7 (`operations/*backup*`, `*alert*`, `*oncall*`, `*improvement*`, `*maintenance*`, `*certificate*`) | a dump, a drill database, exports | dump and restore, page, read issues, look at production | production, GitHub, providers | production changes and is damaged meanwhile; replies are late; cleaning up fails | an export says what was so; nothing is left behind |
| Gate steps (`operations/*uat*`, `*role-core-smoke*`, `*authenticated-idempotency*`, log gate, health) | actors and a marker asset in production | provision, log in, write, clean, read logs | login limiter, idempotency | a request that times out may still be committed | a step that passed has left nothing |
| Handover (`operations/operations-handover-*.mjs`, `scripts/production-handover-*.mjs`) | sign-off, manifest, four files of the repository | sign, assemble, close P7 | activation | a document is replaced between reading and signing; writing the files stops half-way | P7 is closed as a whole or not at all |
| Reference data, reports, cost, AI, adapters, front end, rehearsals | mostly read-only | | | | see section 7 |

## 2. Modules and the code they model

Each specification module states its abstractions where it makes them, and those with
state of their own have a `TypeOK`.
`PROJECT.json` maps every definition to its source lines.

**`StockTables`, `StockLedger`.** The promise of the stock ledger: `items` and
`loans` change by one whole operation at a time (`CreateItem`, `UpdateItem`,
`DeactivateItem`, `CheckoutItem`, `ReturnItem`). `Conservation` says that a
piece is available, out on loan or lost; `StockInBounds` that the database CHECK
constraints hold without being needed; `NoLoanLeftBehind` that an inactive item
has no open loan. `Sums` has SQL's `SUM` as a recursive function.

**`StockTransactions`.** The same operations as the code runs them. A connection
`p` has a transaction `tx[p]` with the values its handler has read; one action is
the locking `SELECT` with the checks up to it, one each further statement that
can wait or see others, one the last write with COMMIT. A ROLLBACK may happen
anywhere. `INSERT` of a new code holds the key of the unique index, as a lock.
`returnItem` locks the loan first and the item second, and only when something
is put back. `Ledger == INSTANCE StockLedger` with the committed tables is the
refinement mapping: the read values and locks are hidden, a COMMIT is the
operation, everything else stutters.

**`AssetWorkflow`.** `assets.status_code`, the user of the ACTIVE assignment, the
request rows with their copied approval steps, the return photo and the return
ledger. Handlers of requests and assets are one transaction that locks the
request and the asset before it decides, so each is one action; the upload of a
photo is three, as it awaits a scanner and a store in the middle.
`applyApprovedRequest` is `Apply`, a conjunct of the approval that calls it: when
it refuses, the whole approval is rolled back and nothing happens.

**`Procurement`.** `createPurchaseOrder`, `createReceipt`, `inspectReceipt` as
transactions that lock, read and sum, and commit later. All three lock the row
of the purchase request (alone or with rows that hang from it), so the model
has one lock for each request. A receipt that failed inspection stays in the sum,
as in the code.

**`Idempotency`.** One (user, key) pair and all HTTP requests that carry it.
Insert, look-up after a conflict, take-over of an old row, the handler, and what
`res.end` does are separate actions, because other requests can come between.
The handler commits one business transaction or none; `Handle` also has the
COMMIT whose answer is lost and which therefore looks like a failure. `Crash`
takes every request in flight. `Age` is the two minutes after which a row may be
taken over. `SlowHandlers` says whether a handler may still run by then:
database statements time out after 5 s, calls to a scanner or an object store
do not. The run takes FALSE; the proofs hold for both.

**`Outbox`.** Rows of `outbox_events` and the `publishOne` of each worker. A
delivery may be received without being acknowledged; recording the outcome may
fail or lose its answer; a worker may die (`Gone` is the id it leaves in
`locked_by`) or be slower than its five-minute lock.

**`CutoverGates`, `Cutover`.** The promise of a cutover, and the commands that keep
it. An operator `o` has at most one command; `job[o]` is where in the code it is:
about to run the step of plan entry `at`, after the child of that step, or
before the evidence. A run's receipts are a sequence, as each file has the next
number; `checkpoint` and `evidence` stand for the files of these names. The plan
of twelve gates is a parameter: a set of positions that are steps, a set that
are gate summaries, and which step publishes, needs the public URL, or is the
sign-off. `route` is the run whose DNS record is published, `tunnel` how far a
publication has got with the provider. The clock has four values, as the code
asks four questions of it: is there time for another child before the reserve,
is it before the cutoff, is it in the window, is it over. Actions are the stretches
between two awaits of a child: `Execute`, `Pause`, `GateTooLate`, `StepTooLate`,
`Run` (with the script of the step: `Publish`, `Disable`, `Recover`, `Check`),
`Record`, `Summarise`, `Resume`, `Finalise`, `Assemble`; `Throw` is a changed
bundle or a file that cannot be written, `Crash` the end of a process.

What the model of the cutover leaves out: the documents of a resume (role
results, approvals, sign-offs, confirmations) are accepted or not, by choice;
there is one path for the evidence; a script acts at one instant, so
scripts interleave as wholes (`Ingress` has them call by call); a child that
outlives a crashed command is one that had ended before; the tunnel process does
not die on its own.

**`Ingress`.** The four commands that open and close the public route, call by
call. A run `r` is a process; `owner` is the lease file, which another process
may clear when its owner is dead and its time is over. A call to the provider
may fail although it takes effect, then or later (`Land`); DNS propagates by
itself. The tunnel, its only key (the credential file) and the local process are
followed from their creation to their removal.

**`ActivationSteps`, `Activation`.** A heartbeat starts a command (`Acquire`),
which claims the receipt root for its approval, takes the lease, finds the first
step of the plan without a receipt, runs it as a child and writes the receipt.
`ActivationSteps` says of each script what it reads, writes, makes of a document
that is there already or missing, and whether what it writes expires; the
contents are left out. The child has a state of its own: it is killed when its
time is over, and outlives a command that is killed. The step of the SLO adds a
sample for a day and exports after enough days; the last one writes the roadmap
and the closing files. An operator may remove a lease, rightly or not.

**`Accounts`.** One person's invitation, login with its lock, MFA, password change
and reset, and sessions. A transaction reads only rows it has locked, hence is
one action at its COMMIT; statements outside of transactions are actions of
their own (`LoginRead` and `LoginPass` or `LoginFail`; `InviteInsert`;
`ResetIssue`), and so is the session store: a handler loads the session first,
and one it has changed is written back at the end of the response (`Save`),
whether or not the row is still there.

**`Operations`** puts nine parts beside each other of which one runs in a behaviour;
they share the clock and the bound on mishaps (`DrillWorld`).

- `Startup`: servers of three releases start, stop and are killed; they migrate
  under the advisory lock of the database, file by file with checksums, or only
  verify. A release has a list of migrations, and one of the three has changed
  the text of one.
- `Automation`: the lease and its time by each host's clock, which may be ahead of
  the database's or behind it, the row of each run, matching, notices. What a
  query of a rule finds is any set of things.
- `Bundle`: the digest of a script and the modules it imports, read one file after
  the other, compared before and after a child of the cutover, before it only in
  the activation. `Imports` is what the digest follows; the child also gets at
  what its files require, or copy and run by a path (`Requires`, `LoadRequired`).
  Anybody may edit a file meanwhile, remove it, or change it back (`Edit`).
- `GateSteps`: the steps by which the gates try production: provisioning of the
  actors by a worker in the container, the role smoke with its second code, the
  authenticated idempotency with its marker asset, the log gate, health. A
  request that times out may be committed later. Here is also the login limiter.
- `BackupDrill`: dump under an exported snapshot, restoring, counting, removal
  of the drill database, export and the two compilers.
- `PageDrill`: test pages with a key per drill, which the provider knows again.
- `QueueExport`: the issues, read page by page while they are opened and closed. What
  the collector has read is a set of issues with their places, so that one read
  twice is told apart.
- `Observation`: maintenance and certificate: what is looked at one after the
  other while it is deployed, taken back, replaced, broken and repaired. A history
  (`meanwhile`) says what production was like since the runner began.
- `Handover`: documents read one by one, sign-off, manifest, and the completion
  that writes four files and restores them when one of them fails.

| Module | State for | Main actions |
|---|---|---|
| `StockTransactions` | items, loans, row locks, transactions | `CreateInsert/Commit`, `UpdateLock/Commit`, `DeactivateLock/Count/Commit`, `CheckoutLock/Commit`, `ReturnLock/Lost/UpdateItem/Commit`, `Rollback` |
| `AssetWorkflow` | assets, assignments, requests, steps, photos, returns | `CreateAsset`, `ChangeAssetStatus`, `CreateRequest`, `Upload*`, `DeactivatePhoto`, `Submit`, `Cancel`, `Reject`, `ApproveStep`, `ApproveFinal` |
| `Procurement` | requests, orders, receipts, assets made | `Approve`, `OrderLock/Commit`, `ReceiveLock/Commit`, `InspectLock/Commit`, `Rollback` |
| `Idempotency` | key row, requests, commits, answers | `Insert`, `Look`, `Reclaim`, `Handle`, `End`, `EndError`, `Crash`, `Age` |
| `Outbox` | event rows, jobs, deliveries | `Insert`, `Claim`, `Publish`, `Ack`, `AckError`, `Fail`, `Abort`, `LockExpires`, `RetryDue` |
| `Cutover` | clock, route, tunnel, receipts, checkpoints, evidence, commands under way | `Execute`, `Pause`, `GateTooLate`, `StepTooLate`, `Run`, `Record`, `Summarise`, `Throw`, `Crash`, `Resume`, `Finalise`, `Assemble`, `DisableByHand`, `Tick` |
| `Ingress` | lease, files, provider, runs | `AcquireLease`, `Finish`, `RecoverLease`, `ClearLease`, steps of `Publication`, `OrphanRecovery`, `RouteDisable`, `Kill`, `Lost`, `Land` |
| `Activation` | claim, lease, receipts, documents, samples, commands and children | `Acquire`, `CommandSteps`, `ChildSteps`, `ChildTimeout`, `DayPasses`, `Incidents` |
| `Accounts` | user, MFA rows, sessions, invitations, tokens, handlers | `LoginRead/Pass/Fail`, `Verify*`, `Setup`, `Enable`, `Disable`, `Change`, `ResetIssue/Confirm`, `InviteInsert`, `Accept`, `Save` |
| `Operations` | which part runs | the `Next` of `Startup`, `Automation`, `Bundle`, `GateSteps`, `BackupDrill`, `PageDrill`, `QueueExport`, `Observation`, `Handover` |

Operators with a name such as `CheckoutLockUnchecked` and a comment that starts
with "Mutant" are not part of a specification. Each is a plausible bug in the
operator that follows it, and each property is violated by at least one of them
(`PROJECT.json`, "mutants").

## 3. Runs

States and times are from two TLC workers.

| Run | Instance | Distinct states | What it shows |
|---|---|---|---|
| `stock_transactions` | 2 items, 2 connections, 2 loans, up to 2 pieces | 179,597 (70 s) | the interleaved transactions implement the ledger (`Serializable`), keep its books (`BooksKept`: balance, bounds, no loan left behind), and each ends without the help of a timeout (`ConnectionsComeBack`: no cycle of locks, no lock kept) |
| `asset_workflow` | 1 asset, 3 users (manager, administrator, neither), 2 requests of all seven types, plans of one and two steps | 582,963 (48 s) | `ApprovalInOrder`, `AssignmentNeedsApproval` |
| `stale_return` | 1 asset, 2 users, 4 ASSIGN/RETURN requests | violation, 20 steps | a second return request of a former holder ends the assignment of the next one |
| `procurement` | 2 requests, 2 connections, 4 receipts, quantities up to 3 | 148,182 (11 s) | `NeverOverReceived`, `AssetsMatchReceipts` |
| `idempotency` | 4 requests, 2 payloads, 2 faults | 34,948 | `OneAtATime`, `AnswersAreTrue`, `RepeatsNeedFaults` |
| `repeated_write` | 2 requests, 1 fault | violation | one failed statement after the COMMIT lets a key execute twice |
| `outbox` | 2 events, 2 workers, 3 attempts, 2 faults | 231,858 (40 s) | `OneWorkerPerEvent`, `NothingLost`, `EventuallySettled` |
| `cutover` | 2 runs, 2 operators, 3 commands, 1 incident, a plan of 9 entries | 551,447 (44 s) | `GatesInOrder`; what is recorded or reported as contained is (`ContainmentIsReal`); a failed run leaves no open route (`FailureClosesRoute`); GO for an undisturbed run is given to a public service (`GoMeansPublic`); refinement of `CutoverGates` (`GatesKept`) |
| `ingress` | 5 runs, 2 faults | 523,739 (48 s) | one live run holds the lease (`OneHolder`); no existing tunnel has lost its key (`KeyKept`) |
| `activation` | 2 commands, 1 approval, a plan of 4 steps, 2 days, 2 incidents | 369,839 (96 s) | one command or child at work (`OneWriter`); evidence only after all earlier steps (`EvidenceInOrder`); samples and closing are spoiled only after a wrongly removed lease (`LeaseGuardsWorld`); P7 is closed, or what stopped it can be named (`Settles`) |
| `accounts` | 2 handlers, 2 session ids, 2 invitations, 2 tokens | 1,750,392 (140 s) | `IdleSessionsEnd`, `CodesAcceptedOnce`, `MfaCanBeMet`, `OneAcceptance` |
| `operations` | nine parts, see below | 1,903,604 (115 s) | `AppliedOnce`, `ServesItsSchema` (Startup), `RunsAsRecorded` (Automation), `RanWhatWasApproved` (Bundle), `PassLeavesNothing`, `SecondCodeWorks` (GateSteps), `DrillWasReal`, `NothingLeftBehind` (BackupDrill), `PagedOnce`, `QueueIsComplete`, `SawWhatWasThere` (Observation), `ClosedAsAWhole` (Handover) |

Why the bounds suffice to exercise what is hard:

- *Stock.* Two connections on one item are the conflicting pair for every pair of
  operations; the second item and loan let two transactions hold one lock each
  and want the other's. Two pieces make partial checkouts possible and make
  "both fit alone, together they do not" happen. `MaxLoans` stops checkouts only.
- *Workflow.* Two requests race for the asset, three users separate requester,
  reviewer and stranger, plans of two steps have an intermediate approval. The
  stale return needs an assignment, two drafts and a second assignment: four
  requests, hence a run of its own.
- *Procurement.* With a quantity of three, receipts fill an order in one, two or
  three parts, and an excess by one is possible; the fourth receipt leaves one
  for the other request.
- *Idempotency.* Two faults allow three executions; the fourth request then
  sees what the others leave. Payloads matter up to equality: two suffice.
- *Outbox.* Three attempts stand for ten: a first, a middle and a last. Two
  faults let a worker lose its lock and the one that takes over die as well.
- *Cutover.* The plan of nine entries has each kind of gate: before the
  publication, `health_readiness` with its two steps, after it, and the sign-off;
  the other eight of the twelve differ from these only in their scripts. Three
  commands let a run be executed and resumed twice, or resumed twice at a time,
  or two runs work beside each other and one be resumed. Sixteen documents stand
  for 64: one run fits with its containment, two complete runs do not.
- *Ingress.* Five runs are a publication, one that finds its lease, a removal,
  an orphan recovery and a lease recovery, in any choice and order; they are
  symmetric. Two faults kill a publication and then what repairs after it.
- *Activation.* Two commands are two heartbeats at a time; ended ones start again,
  up to nine times. One approval: a claim is never released, so a second one would
  only be turned away (the theorems have any number). The plan has a step that
  waits for days, one that runs and one that compiles with an expiry, and the one
  that closes P7. Two incidents are, for instance, a killed command and a removed
  lease.
- *Accounts.* Two handlers are every pair of requests; two session ids an old and
  a new session; two enrolments a code of the former enrolment. Lock after two
  failures instead of five.
- *Operations.* Each part has two of what it counts (servers, hosts, rules,
  things, tries, pages) and two mishaps, a kill and another; times are one or two
  units, so that something is exactly at, before and after its limit. Three
  releases are one that is behind, one that is ahead and one that disagrees; one
  host's clock is a unit ahead of the database's, the other's a unit behind. Five
  source files have a chain of imports, one file beside it and one that is only
  required; there are two edits, so that one may be changed and changed back, or
  two of them changed. Three pages hold two issues, a pull
  request and one that moves up.

The properties name what they exclude. `FailureClosesRoute` and `GoMeansPublic`:
the window ended before the route could be removed; a crash, a thrown error, an
error of the provider or a removal by hand; the containment of another run (the
code does not look at the route again before GO). `OneHolder` and `KeyKept`: two
lease recoveries that were about to remove at once, as the second unlinks the
lease of a living run. `OneWriter` and `LeaseGuardsWorld`: a lease removed
by hand from a command or child that lives. `IdleSessionsEnd`: a session in use
when the password is changed, which its request writes back, and a login whose
row was read before. `QueueIsComplete`: an issue closed while pages are read.
`RunsAsRecorded`: around midnight the day of a notice is that of the host that ran
the rule, which may be the day before the database has the run begin.
`RanWhatWasApproved`: what is required, copied by its path or taken from the
packages, as no digest follows it, with what that imports; and a file that was
changed and changed back between two inspections, with what it led to.
`SawWhatWasThere`: both containers replaced while the runner looks, each before
the look at the other; the release named may then be one they never had together.
`ClosedAsAWhole`: a completion that is killed or cannot restore. For the cutover,
the automation, the bundle and the observation TLC finds each property false
without its exclusion.

Deadlock checking is off: every system here may come to rest (everything
decided, answered, received, settled or closed, every command ended, or a bound
reached), as the comment in each `.cfg` says. That no transaction waits for ever
is `ConnectionsComeBack`, that an activation does not stop for no reason `Settles`.
The proofs of section 5 do not depend on these bounds.

## 4. Fairness

Safety is checked for every behaviour. Liveness is stated in three places.

- `StockTransactions!Fairness`: a started transaction is driven on (weak
  fairness of `Proceed`), as a handler awaits one statement after the other and
  a statement that can run does run. PostgreSQL queues the waiters of a row
  lock, so a waiting UPDATE is not overtaken for ever: strong fairness of
  `ReturnUpdateItem`, the only statement that waits while it holds a lock. No
  fairness is asked of `Rollback`, hence of timeouts (except at the bound
  `MaxLoans`, where the model has no row left), nor of starting a transaction.
- `Outbox!Fairness`: the timer of `server.js` calls `publishBatch` again and
  again (`Claim`), a `fetch` ends in the end (`Publish`), statements return
  (`Ack`, `Fail`), and clocks go on (`RetryDue`, and `LockExpires` for the locks
  of workers that are gone).
- `Activation!Fairness`: commands and children that can go on do; a child that
  takes too long is killed by the timer of its command (`ChildTimeout`); days
  pass; the heartbeat starts a command again and again, so that each approval is
  tried unless the lease is held for ever (strong fairness of `Acquire`, as the
  lease is taken and given back in between).

Crashes, errors, edits and other incidents are never fair, and bounded.

## 5. Proofs

TLAPS proves every safety property of the runs for all values of the constants.
The assumptions are the named `ASSUME`s of the modules. Most say that bounds are
numbers; those that say more:

- `None` (`Nothing`, `Gone`, ...) is not one of the values it is told apart from;
- `WorkflowAssumption`: plans are not empty; `CutoverAssumption`: the publication
  stands between two gates and the sign-off is the last step;
- `ActivationAssumption`: no child stands twice in the plan; it may have any
  length and order otherwise;
- `StartupAssumption`: there is a release, and each migration a release names has a
  text in it;
- `AutomationAssumption`: a query of a rule finds finitely many things, and a day
  has a length; the clocks of the hosts differ from the database's by any integer;
- `GateStepsAssumption`: one of the actors is the administrator, and a gate tries at
  least once; `BundleAssumption`, `PageDrillAssumption` and the like give the types
  of the constant tables.

Modules that share no state are put together in one proof module: `Api_proofs`
has `Idempotency`, `AssetWorkflow` and `Accounts`, `Delivery_proofs` has
`Procurement` and `Outbox`, `Rollout_proofs` has `Activation` and `Ingress`,
`Operations_proofs` the nine parts of `Operations`.

**Stock** (`Sums_proofs`, `StockLedger_proofs`, `StockTransactions_proofs`).
1. `Sums_proofs`: the recursive sum exists and obeys its recursion equation, has
   the type of its summands, and changes by what one summand changes by. There
   being no usable induction rule, these are by descent from a least
   counterexample, which `WFMin` of `WellFoundedInduction` provides.
2. `StockLedger_proofs!LedgerInvariant`: `LedgerInv` (types, balance per item,
   no loan on an inactive item) is inductive; `LedgerSafe` follows.
3. `StockTransactions_proofs!LockingCorrect`: `LockInv`. A transaction holds the
   locks of the rows it has read and these rows still say what it read. The
   balance alone is not inductive: `UpdateCommit` writes values computed from
   an earlier read.
4. `ImplementsLedger`: under `LockInv` each COMMIT is a step of the ledger and
   every other step stutters, hence `Spec => Serializable`.
5. `TransactionsSafe` transfers the safety of the ledger through the refinement:
   `Spec => []BooksKept`.

**Idempotency** (`Api_proofs`). `TruthInvariant`: `Truth` joins types,
who owns the row (`Owned`, `Taken`), what has been committed by where a request
is (`Known`), and that the stored response and all given answers report what
happened (`Replays`, `Answers`). `TypesCorrect`, `HandlersExclude` and
`AnswersTrue` follow. `RepeatsArePaidFor` needs a count: executions, plus
requests that have committed and are about to report a failure (`Uncertain`:
their `res.end` will delete the row), plus one if the row is free for another
execution (`Slack`), never exceed one more than the faults. The count of
executions alone is not inductive, as a lost COMMIT is paid for when it
happens and used when the next request inserts the key.

**Workflow** (`Api_proofs`), for any number of assets, users and requests
and any set of plans. `WorkflowInvariant`: types, the shape of each plan, and that
the row of a request and the rows of its steps tell one story (`OneStory`): a
draft has no step, a submitted request has its current step and those after it
open and those before it approved, a decided one is approved throughout, or not
by its last step. Hence the lowest open step, which the code selects, is the
current one, and an approval that is not the last moves to the next.
`StepsInOrder` follows; `AssignmentsApproved` from it and the shape of what
`Apply` does to holders.

**Accounts** (`Api_proofs`), for any number of handlers, sessions, invitations and
tokens. `AccountsInvariant`: a session that a password change has cut is in the
hands of no handler (`Cut`), so that no `Save` at the end of a response writes it
back: `IdleSessionsEndForGood`. The credential is as new as the newest code
accepted since it was enrolled, and the recovery code is gone if it was accepted
(`Codes`): `NoCodeTwice`. A person who is not there has accepted nothing
(`Acceptances`): `OneIsAccepted`. `MfaIsMet` is inductive with the types.

**Procurement** (`Delivery_proofs`). `BooksInvariant`: types, books and, for
each transaction, the lock it holds and that the sum, status and quantity it
read are those of the tables. `ReceiptsInBounds`, `AssetsAreReceived` and the
action property `VerdictsStay` follow. The sums rest on `Sums_proofs`.

**Outbox** (`Delivery_proofs`). `OutboxInvariant` joins the types and both promises
with two facts: an attempt about to be acknowledged has been delivered, and a
lock grows old under a live worker only by a fault. `WorkersExclude` and
`NothingIsLost` follow.

**Cutover** (`Cutover_proofs`), for any plan and any number of runs, operators,
commands and incidents.
1. `OrderInv` is inductive: an execution works alone on its run and its receipts
   are those of the entries before the one it stands at (`Alone`, `Advanced`); of
   a resume, which may have company, only that what is behind it is among the
   receipts; a resume never stands before the sign-off (`Placed`). `TypesCorrect`
   and `GatesOrdered` follow.
2. `ImplementsGates`: under `OrderInv` a receipt is a `Pass` or `Fail`, a
   publication that creates the record is an `Open`, and all else a `Close`, a
   `Go` or a stutter.
3. `ContainmentStaysReal`: a command past a successful route-disable has its run
   out of the DNS (`Contained`). It stays so because only a command at the
   publication creates a record, and its run has nothing contained (`Opening`).
4. `FailuresClose`: until a failed run is excused, some command of it stands at
   route-disable (`Closing`); one that fails there has an excuse (`NotDisabled`).
   The latter needs that there is no record without a tunnel (`LiveTunnel`), as
   route-disable does nothing without one.
5. `GoIsPublic`, an action property: without an incident, once any publication has
   succeeded there is a route until a route-disable has succeeded (`StaysPublic`),
   whether or not the successes have been recorded yet. When GO is given the run
   has its publication among its receipts and no route-disable, and that no other
   run has one, nor is about to, is what `Undisturbed` says.

**Activation** (`Rollout_proofs`), for any number of commands and approvals and any
plan of distinct children. `ActivationInvariant` has three layers. `Phases`: a
command that waits has a child, no other has one. `Progress`: what a child has
written is what its phase says, and the steps before its own have passed;
from this and that each document has one writer `EvidenceIsInOrder` follows,
whoever has the lease. `Leases` and `Alone`, as long as no lease was forced from
the living: whoever is busy has the lease and an orphan has left it `Dead`;
hence `OneWriterAtMost`, and hence the ledger and the closing files are what the
one child knows of them, from which `LeaseKeepsWorld` follows.

**Ingress** (`Rollout_proofs`), for any number of runs and faults.
`IngressInvariant`: as long as no two recoveries overlap, the lease a recovery is
about to remove is the one it has seen, of a run that is over (`Removals`): this
is why reading and unlinking, two calls, still leave one holder
(`OneHolderOfLease`). `Credentials` says in which of the two files the key of a
tunnel is while it is linked into place, and `Origins` from where a run has its
tunnel, with calls of dead runs that may still take effect; `KeysAreKept` follows.

**Operations** (`Operations_proofs`). A step of one part leaves the others alone and
changes clock and mishaps by one at most (`AllTick`, `OneAtATime`), so that
`OperationsInvariant` is the conjunction of nine inductive invariants:
- `StartupInv`: schema and history have the same rows, and a server that migrates
  has the migrations before the one it comes to (`Caught`): `MigrationsOnce` and
  `ServersMeetTheirSchema`, for any set of releases.
- `AutomationInv`: the lease is as long as that of any run that goes on
  (`Leased`), a rule that is being worked on has its row, of this host, and what it
  matched is noticed or still in hand (`InHand`): `RulesRunAsRecorded`, for clocks
  apart by any amount, ahead of the database's or behind it. A notice is of the
  day of its host, so the run is dated by the calendar of that host (`BeganOn`); by
  the database's the statement is false, as TLC shows with a host one unit behind.
- `BundleInv`: an inspection has read, or has still to read, all that what it has
  read imports (`ReadsAll`), so that a digest leads to nothing outside itself. A
  child that is outside it was told to by a requirement, or by a file that it found
  at another version than the digest (`Reached`, `Astray`). The version of the
  digest is then one that file was changed from, and the second inspection finds
  another unless it was changed back (`InStepOrFound`, `NewOrBack`):
  `CodeWasApproved`, for any graph of imports and requirements, cyclic ones
  included, and any edits.
- `GatesInv`: a step that has seen nothing bad knows that what it started in
  production is over (`KnowsItIsOver`): `NothingIsLeftByAPass`. No code of a step of the clock
  to come has been accepted, and none while an actor waits (`CodesOfThePast`):
  `SecondCodesWork`.
- `BackupInv`: the snapshot is closed before there is a drill database, and there
  is none while the runner has not named it (`NothingUnknown`); the counts are of
  one version of production: `DrillsAreReal`, `NoDrillDatabaseStays`.
- `PageInv`: the provider has one page for a key, and a key is of one drill and
  message: `NobodyIsPagedTwice`.
- `QueueInv`: what lies before the page that is read next has been read
  (`ReadUpTo`), as an opened issue only moves the others back; the page that is
  not full is the last: `ExportsAreComplete`, for any size of pages.
- `ObservationInv`: a check that has been failing all the time is known to the
  runner once it has looked at it (`FailuresAreKnown`). After the look at the
  frontend its release is still that, or the frontend was replaced; if the backend
  had it too, both had it at that moment; so the look at the backend either finds
  the same release while, or after, both had it, or both were replaced
  (`ReleasesSeen`). A certificate that was seen was served (`CertificatesSeen`):
  `ObservationsAreTrue`.
- `HandoverInv`: how far the files are written, or restored, and on documents of one
  publication (`Written`): `HandoverIsWhole`.

*Only model-checked:* the liveness properties `ConnectionsComeBack`,
`EventuallySettled` and `Settles`: liveness under fairness and ENABLED are out of
the prover's reach. Of six parts of `Operations` (`Startup`, `Bundle`, `PageDrill`,
`QueueExport`, `Observation`, `Handover`) only those types are proved that the
invariants need.

## 6. Where documents and code disagree

- `stale_return`: `docs/phase-reports/27_반납_사진.md` promises that a requester
  can return only the asset currently assigned to him. The code checks this when
  the draft is made; the approval closes whichever assignment is ACTIVE by then.
- `repeated_write`: `develop docs/30_Phase34_39_운영완성체인.md` promises one ledger
  entry for repeated requests. When the response cannot be stored after the
  handler has committed, the key is deleted and a retry executes again.
  `RepeatsNeedFaults` is what the code does guarantee in its place.

Remarks without a run of their own:

- Report 160 of `agent docs/reports` says that a resume after the cutoff goes over
  to disabling the route. After the end of the window it is refused before that
  (`production-cutover-executor.mjs`), and `production:route-disable` refuses too.
  `FailureClosesRoute` holds up to the end of the window.
- Report 259 describes lease recovery as safe against a new owner. Reading and
  unlinking are two calls: of two recoveries at once the second may remove the
  lease of a run that has just begun.
- The completion checks the documents it is given, not that they are those the
  owner has signed.
- The login limiter also counts logins that succeed with MFA.
- `agent docs/reports/271_P6_Production_Cutover_Step_Bundle_Provenance.md:7` speaks
  of a bundle of the transitive local dependencies of each step. The digest follows
  relative `import` and `from` only (`production-cutover-bundle.mjs:13`). Two
  scripts require `mfa-service`, and with it `inventory-service`
  (`production-role-core-smoke.mjs:22`, `production-authenticated-idempotency.mjs:21`),
  and a third copies a worker into the container and runs it by its path
  (`production-uat-actor-provision.mjs:12`): an edit of these goes unnoticed. So does
  one of any file that is undone before the second inspection. `RanWhatWasApproved`
  is what the digest does guarantee.
- An automation run that a host whose clock is behind begins just after midnight
  writes its notices for the day before; the next run of the day writes them again
  under the new one.

## 7. What is not modelled

- Audit rows, texts, validation of single fields and access scopes: they are
  written or read in the transaction of the modelled operation and decide
  nothing the properties speak about.
- `AssetWorkflow`: departments, organizations, status and reason policies,
  disposal and service rows. Policies are a constant set of plans. Photos: blobs,
  checksums, downloads and files of other kinds; outcomes of the scanner and
  the store are nondeterministic. `Procurement`: asset tags.
- `Accounts`: the code that enabled MFA may be used once more at the next login, as
  enabling forgets the last counter (`mfa-service.js:104`); `CodesAcceptedOnce`
  counts from the enrolment on. The failures and the lock of the login are modelled,
  as they decide which logins pass; no property is about them.
- `BackupDrill`: a `createdb` whose client has timed out and which takes effect only
  after the `dropdb --if-exists` of the cleanup
  (`operations-backup-restore-runner.mjs:257`, 284-292) would leave a database; a
  `createdb` here has had its effect, or will have none, when its client gives up.
- Times of day in the inventory program. Timeouts and expiry are flags (`old`,
  `due`) that may turn at any time.
- Organization units and the provisioning of users from a file: one transaction
  each. OIDC login, CSRF tokens and CSP headers: no shared state beside the
  session that `Accounts` has.
- Seeds, the test user, the target manifest of Supabase.
- Contents of role results, sign-offs and approval receipts; the finalizer of the
  cutover, the public probe, the nonfunctional baseline, rollback readiness, the
  incident contract and the preflights: they only read, and judge documents
  field by field.
- The request for an approval, and the rehearsals, which repeat the commands on
  fixtures; the harness and contract checks, which check the repository.
- Reference data, reporting, cost and AI services: single-row life cycles,
  queries and arithmetic. The rules of the automation take any set as the result
  of their queries, so that a LIMIT without an order is not told apart.
- The front end: it gives every submission a fresh key, which is what the
  requests of `Idempotency` stand for.

## 8. Plan

The order was: what corrupts data first, then what delivers it, then what deploys
it.

| | Module | Composes or implements | Run | Theorems |
|---|---|---|---|---|
| 1 | `StockLedger` | abstract | | invariant |
| 2 | `StockTransactions` | implements `StockLedger` | `stock_transactions` | refinement, safety |
| 3 | `AssetWorkflow` | | `asset_workflow`, `stale_return` | approvals in order, assignments approved |
| 4 | `Procurement` | uses `Sums` | `procurement` | books |
| 5 | `Idempotency` | | `idempotency`, `repeated_write` | truth, counting |
| 6 | `Outbox` | | `outbox` | one worker for each event, nothing lost |
| 7 | `CutoverGates` | abstract | | |
| 8 | `Cutover` | implements `CutoverGates` | `cutover` | refinement, order, containment, GO |
| 9 | `Ingress` | the scripts of `Cutover`, call by call | `ingress` | one holder, keys |
| 10 | `Activation` | `ActivationSteps` | `activation` | one writer, evidence, lease |
| 11 | `Accounts` | | `accounts` | sessions, codes, MFA, invitations |
| 12 | `Operations` | `Startup`, `Automation`, `Bundle`, `GateSteps`, `BackupDrill`, `PageDrill`, `QueueExport`, `Observation`, `Handover` | `operations` | every property of its run |

All of it is built, and every safety property that a run checks is proved. What
remains: `AllOrNothing` and the other promises of the parts of `Operations` as
small abstract specifications, which their parts implement; and steps towards
the liveness properties that are safety in themselves (that a transaction waiting for a lock waits
for one whose holder can go on).
