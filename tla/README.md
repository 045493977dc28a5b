# Verification of the workflow kernel

This directory holds the TLA+ models of svc-workflow-kernel, a Rust service
over PostgreSQL that runs workflow instances along published definition graphs:
what each part keeps and does, what TLC checks of it on small instances, and
what TLAPS proves of it for all. Paths in this file are relative to the
repository; W, A, L and D abbreviate `src/store/postgres/` followed by
`workflow_instance_repository`, `admin_recovery_repository`,
`legacy_import_repository` and `definition_repository`.
`PROJECT.json` maps every definition to the lines it models.

## 1. The system

| Component | State | Operations | Where |
|---|---|---|---|
| Instance commands | `workflow_instances` (projection), context revisions, node visits, submissions, events | create, revise context, execute transition, revise-and-transition | W |
| Command receipts | `command_receipts`, one row per (principal, idempotency key) | take, complete, replay, refuse | W/command_receipt.rs, A/receipt.rs, application/workflow_instance |
| Admin recovery | the same tables, recovery audits | emergency override, rebuild projection, replay of the history | A |
| Legacy import | the same tables, external references, an advisory lock for each | import an instance at any node | L |
| Definition graph rules and searches | none (pure) | validate_graph | domain/definition/graph |
| Definition lifecycle | definitions, versions, nodes, transitions | create draft, replace graph, publish, deprecate, revoke | application/definition, D |
| Row locks | PostgreSQL's lock table | FOR UPDATE, FOR SHARE, foreign keys | every write transaction |
| JWKS cache | cached key set with its age, refresh mutex | lookup, refresh, fetch | auth/jwks_verifier.rs |
| Token verification, principals | none | verify a token, find its principal | auth |
| Query service | none; REPEATABLE READ snapshots | detail, timeline, contexts, visits, submissions, two worklists | W/query_*.rs |
| HTTP layer | none | decode, time out, map errors | http |
| Triggers and constraints | the schema | refuse UPDATE/DELETE of facts, uniqueness | migrations |

**How they interact.** A request is authenticated (JWKS cache), its handler runs
one command, and a command is one database transaction under READ COMMITTED.
The components share nothing but tables. An instance command takes the receipt
of its key, then the instance row, then the definition version row; the
lifecycle service takes the version row; recovery takes the same locks as the
commands and then rows of its actor for sharing; the import takes its receipt,
the domain and everyone bound to it, and the advisory lock of its reference. A
query takes no locks; it reads all its rows from one snapshot. The validator decides what can be published, and
the commands run on what was published.

**What is hard.** (a) *Concurrency at statement level*: what a transaction
reads without a lock, or a service before its transaction, may have changed when
it is used. (b) *Retries*: a caller that heard nothing, whose connection was lost
or whose handler was dropped by the request timeout, repeats its command, perhaps
while the first is still running. (c) *Two readings of one history*: the commands
write it and the replay code, written separately, must accept it after any
sequence of them, or an administrator cannot recover the instance. (d) *Lock
waits*: nothing retries a transaction that PostgreSQL aborts for a deadlock.
(e) *A cache shared by requests that are dropped at any await*. (f) *One rule written
twice*: revise-and-transition repeats two commands in one, what a reader is offered is computed apart from what the commands accept,
the rows of an answer by several queries, and a stored refusal is written by one table
and read back by another.

What makes each component correct: a key takes effect once and is answered
alike ever after (receipts); no update is lost, only assignees move, contexts
freeze after the draft, only a RETURN goes back (commands); the history is always
replayable to the projection (recovery); an accepted trunk reaches a terminal
node and validation answers (graph); published content is valid, sealed and
frozen, by someone entitled (lifecycle); a record becomes one instance (import); an
answer is true of one state and agrees with the commands (queries); no cycle of waits (locks); the key set never goes back and
every request is answered (JWKS). `PROJECT.json` lists the hazards line by line.

## 2. The modules

    DefinitionGraph <- WorkflowFacts <- WorkflowKernel <- KernelProperties <- MCKernel, WorkflowKernelProofs
    DefinitionGraph <- GraphWalks <- MCGraphWalks, GraphWalkProofs
    WorkflowFacts   <- QueryViews
    WorkflowKernel  <- Query (QueryViews, per state) <- QueryProperties (AtomicQuery) <- MCQuery
    QueryProperties, WorkflowKernelProofs <- QueryProofs
    AtomicCommand   <- CommandReceipt <- ReceiptProperties <- MCReceipt, CommandReceiptProofs
    AtomicImport    <- LegacyImport <- ImportProperties <- MCImport, ImportProofs
    VersionLog      <- DefinitionLifecycle <- LifecycleProperties
    LifecycleProperties <- LifecycleAuthority <- MCLifecycle, LifecycleProofs
    LockOrder       <- MCLockOrder, LockOrderProofs
    JwksCache       <- JwksProperties <- MCJwks, JwksProofs
    StoredAnswers (in CommandReceiptProofs)

An arrow points to the module extended, a name in brackets is instantiated. Operators written only to show what a
property notices stand next to the definition they vary and are marked
"mutant"; no specification uses them.

**DefinitionGraph** states every error code of `validate_graph` as a rule on a
graph. **WorkflowFacts** holds the tables (a row's id is its position; the
triggers make them append-only) and the whole of `event_replay.rs` and
`snapshot.rs` as one operator, `ReplayAccepts`, with `Replayed` for the
projection it rebuilds. The replay is a fold, but each step leaves the event's
own context and visit as the current ones, so the state before event k is read
off event k-1 and no recursion is needed.

**WorkflowKernel** has one action per command. The command is one step here
because it holds the instance and version rows from its checks to its commit;
that this is sound is what CommandReceipt and AtomicCommand are about. Each
`...Verdict` is the handler's chain of early returns in its order, ending in
"OK"; a refused command writes no workflow fact. Inserts that a UNIQUE constraint would
refuse are guards (`SequenceFree`, `RevisionFree`, `SourceFree`). Event rows keep
one `sequence` (the code sets it to the new state version), the snapshot digest
of an override is the snapshot itself, and columns that repeat others are
dropped. What happens outside the program: `Switch` (a principal or domain is
disabled or enabled), `ChangeRole`, and `Drift` (a projection row is set back to
an earlier value, the damage that RebuildProjection exists for).

**AtomicCommand** is what the idempotency protocol promises: a key is decided
once, in one step with its effect, and repeated calls are answered from the
decision. **CommandReceipt** is the code: each call runs the statements of its
handler in the handler's order (`Plan`), holding `gate` (the receipt's row, or
its uncommitted insert), the instance row and the version row. A rebuilding of the
projection is a command too, whose effect is no event (`IsEventOf`). Written rows
appear at COMMIT. `RollBack` may come at any statement: a crash, the request
timeout, a storage error, or a failure that is not stored. `Heard` is the other
half: COMMIT was sent and the answer lost. Equality of requests stands for equality of request hashes.
`ImplementsAtomicCommand` is the refinement; the abstract variables are the
committed rows and what the callers were told, so the mapping is the identity
on them. Two freedoms in AtomicCommand are there because the code has them. An
ordinary command may be accepted, or refused, on an `enabled` flag that has
changed since it was read without a lock; `been` (no code keeps it), which records what the actor of a
pending call has been since the call was made, says how old the flag may be: as old as
this call. And a revision may be refused before its receipt.

**StoredAnswers** is a protocol of two steps for each of the seven commands: the first
call stores a refusal as a status and a label, a repetition reads it back through
another table. The two tables are the two sets of each command, taken from the code
label by label. `Refusals` leaves out one label that an owner of a receipt cannot meet:
PRINCIPAL_NOT_FOUND, since the receipt has a foreign key on its principal; a revision
alone stores it for another reason, that its caller is not the creator.

**QueryViews** says what the seven queries compute from the rows they read: who sees
an instance and how much of it (`Sight`), when its rows are refused (`Consistent`,
which counts events where the recovery code replays them), what it offers
(`BlockedReason`, `CombinedExecutable`), and the rows of each answer. **Query** puts one query beside the
commands of the kernel. Its transaction's statements are steps (`ReadActor`,
`ReadBase`, `ReadRows`); commands commit between them, and the first statement, not
BEGIN, fixes the snapshot. A query's audits are part of its answer (`audited`).
**AtomicQuery** is what a caller may think of it: one answer, true of one moment
between question and answer. The refinement settles the answer when the snapshot is
taken.

**AtomicImport** is the import as one step: decided once per key, on rows that hold
then, and a repetition is answered only to an actor who may still import.
**LegacyImport** is the code: the receipt's row (`gate`), the rows of the domain
(`domainLock`: domain, bindings and principals are locked together, and an update of
any of them, of a new binding even, waits), the advisory lock of the reference
(`advisory`), each kept to the end of the transaction, and other transactions between any
two statements. Creations with a reference of the caller's choice
(`CreateReferenced`) and other commands under an import's key (`ClaimKey`) are the
environment. What the import writes to an instance is an action of
the kernel. Two things the code does show in AtomicImport: a deterministic failure is
stored under a key derived from the record, so a corrected request of the same actor
is told IDEMPOTENCY_CONFLICT for good; and a creation may carry a reference that an
import has just found absent.

**GraphWalks** runs the three searches of the validator step by step; the start
order (a HashMap's) and the order of the stack are arbitrary. Transitions may lead to
nodes that do not exist: `draft_graph.rs` refuses them, but publish reads the nodes and
the transitions in separate statements and may validate those of two editions together.

**VersionLog** is the definition service as a caller may think of it, each use
case one step. **DefinitionLifecycle** is the code: reads outside the
transaction are steps of their own, the transaction is one step under the
version's lock. `edition` counts the replacements of a graph; nodes
read in one edition and transitions in another cannot be valid together, because a
replacement inserts fresh ids. A digest is the tuple of what it covers.

**LifecycleAuthority** adds what DefinitionLifecycle leaves open: each look-up of the
caller, the domain, its owner or a fixed principal is a step (`LookUp`) due before a
certain statement (`Due`), on facts that `Administer` changes at any time; the code
locks none of these rows. Fixed principals are looked up one after the other, in the
order of the nodes. The look-ups inside a transaction are steps too, which
allows more interleavings than the version's lock does. `seen` collects what was true
at some moment of a call; no code keeps it. The callers are one principal.

**LockOrder** reduces each write transaction to the sequence of row locks it
asks for, with PostgreSQL's four modes and their conflicts, foreign-key locks
included. A transaction may end at any point.

**JwksCache** has the cached set (a number into the issuer's successive sets, and
its age), the refresh mutex as a queue, and each request's place in
`lookup_key`, `refresh_and_find` and `fetch_jwks`. The issuer answers with the
set it has when asked; the answer is stored later. `TimeOut` drops a request at any await.
`cache.by` and `caller.renewed` are there for the properties only.

## 3. The runs

| Run | Bounds | Checks |
|---|---|---|
| kernel | one instance, state version up to 4, one version with a DRAFT, a review and two TERMINAL nodes, three principals, the owner's role given and taken, the creator switched off and on | TypeOK, HistoryReplays, OnlyAssigneesMove, ContextFrozenAfterDraft, OneSubmissionPerVisit, OnlyReturnsGoBack, ReferencesPrecede |
| query | the same definition, two principals, state version up to 3, a detail, a timeline in pages of one and a worklist, one commit while a query runs, the creator switched off and on, the owner's role given and taken, drift | ProjectionIsReplay, DriftedRowIsFrozen, NoFalseAlarm, OffersAreHonest, HistoryAndTimelineAgree, CombinedIsReviseThenAdvance, ImplementsAtomicQuery, ParticipantsKeepSight |
| receipts | 3 calls, 2 keys, 5 requests of as many kinds | EachKeyTakesEffectOnce, NoLostUpdate, SameRequestSameAnswer, ReadsStillHold, ImplementsAtomicCommand, EveryCallEnds |
| import | 3 calls of 2 actors, 2 domains, one record, sound, unfit and malformed input, one creation | OneImportPerRecord, ReceiptsMatchImports, ImplementsAtomicImport, EveryImportEnds |
| walks | all three-node graphs and one name that is no node, at most one transition besides the primary ones | EachCycleReportedOnce, AcceptedTrunkReachesTerminal, ReachabilityAgrees, AnswersUnlessTrapped |
| locks | 3 transactions, 2 principals, 2 keys, 2 instances, 13 commands | NoDeadlock |
| lifecycle | 4 calls, 6 requests, 2 versions, a graph with two fixed principals, one fact lost: the caller, his domain, his role or the first fixed principal | EditedDraftIsValid, PublishedIsSealed, OnePublisher, ImplementsVersionLog, FrozenOncePublished, WritersWereEntitled, AssigneesWereEnabled |
| jwks | 2 requests that repeat, 2 key ids, 3 key sets, TTL 1, max_stale 2 | SetNeverGoesBack, FetchedKeyIsFound, EveryRequestAnswered |

Why these bounds are enough to mean something. *Kernel*: four versions are a
creation, a submission, a return and a second pass or an override; the graph has every
node type and effect, an ADVANCE that is no primary transition and goes back, a
TERMINAL node that a TERMINATE reaches by going back, and a DRAFT that can be terminated,
so that it has something to offer when its primary ADVANCE has no assignee; the validator
accepts them all. One instance, because commands on different
instances share only definitions and principals, which change freely. *Receipts*: three
calls are one that runs, its retry, and one that interferes; the requests
reuse a key for other requests and for other kinds of command; each call has its own
few (`Asks`): an override meets its own repetition, every command meets its rivals and
another request with its key. The repetition of a revision, whose principal is looked up
before its receipt, is not in the run; SameAnswer proves it for every command. A creation, which locks no instance, is left to the theorems.
*Query*: a second commit during a query is no different from the first to statements that
read a snapshot, and `ReadCommitted`, the variant that does not, is caught by one; a
page of one has a cursor to go on from; the four kinds of query that are not asked differ
in their rows (`QueryViews`), not in the order of their statements. A row that falls back
triples the states, so it is varied here, at three versions, and not in the kernel run; a
fallen row admits no command, so what it can damage shows at any version. *Import*: one record, since records share nothing but
the domain's rows; each row that an access depends on can be lost alone. *Locks*: two transactions suffice for a cycle
between two rows and three for a longer one. *Lifecycle*: create, two
clients, and a publication; one change of standing falls between any look-up and
its use. *Walks*: three nodes give self-loops,
cycles with a tail, second DRAFTs and unreachable nodes. *JWKS*: ages beyond both windows
are alike, so `Oldest` caps them.

CHECK_DEADLOCK is off where the system may stop: bounded versions in the kernel
and query runs, calls all answered in the lifecycle and walk runs. Symmetry is used only in runs
without liveness properties.

### What the code and its documents disagree on

Four runs are expected to find a violation; each checks one property that a
document, comment or test states.

| Run | Statement | What the run shows |
|---|---|---|
| revise_replay | architecture, rule 40: the same request gets the same first result | `W/revise_transaction.rs:207` stores 404 principal_not_found for a caller who is not the creator; `application/workflow_instance/revise.rs:71` has no arm for it, so the repetition is told a storage error |
| walks_cycle | `graph_tests.rs:180`, definition contract rule 4: a primary cycle is answered | `transition_validation.rs:216`: the trunk walk does not end on a cycle of two nodes or more; the test builds a self-loop |
| locks_import | creation contract: no deadlock cycle exists | a creation and an import in one domain lock principals and the domain in opposite orders |
| jwks_expired | JWKS contract: beyond max_stale evict and refresh | `jwks_verifier.rs:281`: the second look at the cache ignores the age |

Smaller ones are visible in the models without a run of their own. An ordinary TERMINATE
commits without a submission when its transition has no submission schema
(`W/transition_transaction.rs:333`), against rule 31 of the architecture, by which
it submits a reason. A move to a disabled creator is accepted by the commands
and shown as TARGET_ASSIGNEE_UNAVAILABLE by the queries (`CreatorIsAway` in
OffersAreHonest). A draft is combinedExecutable, by section 6 of the query contract
(`docs/contracts/WORKFLOW_QUERY_CONTRACT_V0_1.md:172`), if its context is editable, its
reader is the assignee and at least one outgoing transition is executable;
`W/query_worklists.rs:185` wants the executable one to be the primary ADVANCE. They differ
while that finds no assignee and the draft can be terminated, which the query run meets:
take the second exception, `PrimaryUnassignable`, out of OffersAreHonest and TLC finds it
violated in four states. The code's rule is the one the combined command accepts. A
revision looks its principal up before its receipt (`revise.rs:52`), so a committed
revision, repeated after its principal was disabled, is refused,
against rule 40 of the architecture (the same request gets the same first
result); AtomicCommand's `Refuse` says so, and SameRequestSameAnswer therefore
speaks of settled answers only. The reads that `publish.rs:32` calls a consistent
snapshot are separate statements, so publish may validate the nodes of
one graph with the transitions of another and answer GRAPH_VALIDATION_FAILED;
it never publishes such a mixture (PublishedIsSealed). Two imports of two actors bound to
one domain can wait for one another as a creation and an import do: each receipt keeps its
own actor's row from the other's FOR UPDATE (put a second import in place of the creation
in `MCImports`). And a request that
waited for a refresh fetches again if its key id is still unknown
(`jwks_verifier.rs:292`), where the JWKS contract has only one fetch proceed.

### Fairness

*CommandReceipt* and *LegacyImport*: weak fairness of each call's statements: the database
executes a statement whose locks are free. Calls are not obliged to be made, and rollbacks
and status changes may never come. *GraphWalks*: the validator is a loop in one
thread; weak fairness of its next step. *JwksCache*: weak fairness of each
fetch (the HTTP client has a timeout) and of each request's steps under the
mutex (the runtime polls woken tasks, and tokio's mutex is first in, first
out). `TimeOut` is not fair: EveryRequestAnswered does not lean on it. The
other specifications are checked for safety only.

## 4. The proofs

All theorems hold for every value of the constants under the named assumptions
of the modules (types of the inputs, distinctness of the null values, and what
foreign keys and the validator guarantee of definitions).

**WorkflowKernelProofs**: `TablesTyped`, `AssigneesMove`, `ContextFrozen`, and of the
history `HistoriesReplay`, `ProjectionsReplay`, `SubmissionsUnique`,
`ReferencesComeFirst`, `GoesOnward`, `DriftedRowsWait`, `CombinedAgrees`. Each command
is shown once to have one form (`CommandStep`: one event, at most one context, visit
and submission, and the row that goes with them), and what follows is about that form.
`Inv` adds to TypeOK that an instance has rows exactly when it was created, that the
visits of a node are numbered 1, 2, .. without gaps, and that what an event says of its
visits, actor and context stays true as rows are added. TypeOK alone is not inductive:
that the projection points at existing rows after an override or a rebuild depends on
the events pointing at existing rows. `HInv` adds the record of an instance
(`RecordOK`): the replay accepts it, its last event has the last context, the visits of a
node are as many as the events that introduce one there, every submission belongs to one
event, and references and order indices are as the properties say; and the row is the
replay of its history unless its version is lower. The argument for drift is
`Undrifted`: the version a command would write is the sequence of its event, which on
a row that fell back is taken, so a command that commits ran on the replayed row.
`AddedReplays` then shows of the form what the replay asks of one more event, and
`EventStays` that the earlier ones still get what they asked for. `CombinedAgrees` has two
halves. The verdicts of the combined command and of the two it combines, chains of checks
in different orders, come down to one condition. Of the rows, `CombinedRowsAgree` takes the
event of a combined command apart, into that of a revision and that of a submission
pointing at the same rows: the replay code, which knows how each kind of command must
leave its rows, accepts both in its place and ends one version higher at the same context
and visit (`CombinedApart`). For this `RecordOK` also holds the authors of the contexts
that events introduce (`ContextAuthored`).

**CommandReceiptProofs**: `ReadsHold`, `ReceiptsRefine`, `ExactlyOnce`,
`NoUpdateIsLost`, `SameAnswer`, `NoCircleOfCalls`, `OthersAreToldAgain`. Inv is ReceiptTypeOK, that every pending call is
within its plan, and ReadsStillHold: for each statement a call has passed, it
holds the lock and what it read is still so, or, for the flag that is read without one,
has been so during the call. It is inductive because whoever
changes an instance, a version, a receipt or an actor's row needs the lock
another holds. From it every step of the code is a step, or a stutter, of
AtomicCommand (`StepRefines`), and the three properties of receipts and history
are then proved of AtomicCommand's much smaller steps. `SameAnswer` needs that a
settled answer is what its receipt says (`AnswersFromReceipts`). `NoCircleOfCalls` is the
safety half of EveryCallEnds: while calls are pending, one of them waits for nobody, and
the comparison in its commit matches. It needs the converse of ReadsStillHold, that a lock
is held only by a pending call past the statement that takes it (`HeldByCalls`); then of the
calls that hold a lock, the one furthest in the order receipt, instance, version waits for
none. Each statement moves its call on in a plan of at most seven or ends it; that the
calls therefore all end is left to TLC. `OthersAreToldAgain`
is about StoredAnswers: for six of the seven commands every refusal that an owner of a
receipt can have stored (`Refusals`) has its arm; the revision is excepted, and
revise_replay shows why.

**LockOrderProofs**: `DeadlockFree`. Every plan but the import's takes its
exclusive locks in the order receipt, instance, version, at most one of each,
and shares everything behind them. So whoever blocks a transaction waits for a
row further on in that order, and in a set that waits for itself someone would
have to wait for a row beyond the last. The theorem assumes no IMPORT, and
locks_import shows that it must. LegacyImport has the locks that the import asks for
itself and not those of foreign keys: EveryImportEnds says that the former close no circle, and
leaves the others to the database, which aborts one of the transactions (`RollBack`).

**LifecycleProofs**: `Sealed`, `DraftsStayValid`, `PublishedOnce`,
`ContentFrozen`, `LogImplemented`. A published row is valid because of what the publishing call
read before its transaction, so Inv says of a call between its halves what its
first half established (`CallOK`): that what it is about to write is valid and,
if it keeps the stored schema, that the stored schema is still valid. No
other call undoes that (`OthersUndisturbed`). The refinement needs the version numbers as
well (`NumbersOK`): the MAX + 1 that a creation has read may be out of date, but it is
in use then, and the unique index leaves only the next one to insert.

Of the authority: `OnlyTheEntitledWrite`, `OnlyEnabledAreAssigned`. The
invariant relates a call's place in its handler to the look-ups made so far
(`CallerDue`, `PublishDue` and the rest between them cover the three facts on each
path), and the graph whose principals were looked up to the digest that the publishing
transaction compares with. `LookUpsOnlyRestrict` shows that every behaviour with look-ups
is one of DefinitionLifecycle, so that all that is proved of the versions holds with them.

**QueryProofs**: `QueryIsAtomic`, `AlarmsAreTrue`, `OffersHold`, `SightIsKept`,
`ListsAgree`. For the first, the invariant says of each step of a query which
of its reads have been made and that they are those of the snapshot (`base` is what
the authorization of the query finds there); a commit changes neither. The others rest on
HInv, which holds of the tables whatever queries run (`TablesOfKernel`). `CountIsReplay`
compares the counts of the queries with the replay. `OffersHold` brings the
commands' chain of refusals and the offer's to one condition (`AcceptedWhen`,
`OfferedWhen`), with what the validator guarantees of an arrow (`ArrowRules`): without
it an offer to a node without an assignee, or a RETURN forward, would be refused.

**ImportProofs**: `ImportIsAtomic`, and `RecordImportedOnce` and `ImportsHaveReceipts`
of it. The invariant is one of locks: what a call has validated still holds because it
holds the rows it was read from, and the reference it found absent has been imported by
nobody because it holds the advisory lock, which is why that lock must be taken
before the look and kept to the end.

**GraphWalkProofs**: `CyclesReportedOnce`, `AcceptedTrunksEnd`, `ReachabilityDecided`,
`CycleDecided`, `TrappedIsNeverAnswered`, `RisingTrunkHasNoCycle`. A search is a loop
over data, but nothing is proved by induction along it: the invariants quantify over the sets
of nodes that are closed under the loop's step. A closed set that holds one node of the path
holds all later ones (`PathOK`), so the nodes from the one met again are a least closed
set, a cycle; and every closed set that meets the visited nodes holds a reported cycle
(`FoundOK`), so when all are visited none is missing. Of the trunk (`TrunkOK`) and the
search for unreachable nodes (`ReachOK`) the same is said of the sets with the DRAFT in
them. Only ReachabilityAgrees needs the graph to be finite (GraphsAssumption): without it, to
have one DRAFT means nothing. `CycleDecided` and `ReachabilityDecided` say that the loops decide the
rules that ValidGraph states, which the kernel assumes of a definition.
`RisingTrunkHasNoCycle` says that the rule on orders makes the cycle rule redundant: what
the cycle search finds, PRIMARY_NOT_ADVANCING has reported too.
`TrappedIsNeverAnswered` is the safety half of walks_cycle's finding.

**JwksProofs**: `OneRefreshAtATime`, `TheSetNeverGoesBack`, `TheFetchedKeyIsFound`. The
invariant is one of the mutex (`MutexOK`): the requests in `refresh_and_find` are those in
the queue, each once, and only its head has gone on to fetch, whatever a timeout removes
from anywhere in it (`Removed`). So between what a request receives and what it
stores, or looks up again, nobody else stores but the startup fetch (`FetchOK`).

Only model-checked: liveness (EveryCallEnds, EveryImportEnds, EveryRequestAnswered,
AnswersUnlessTrapped), since the prover does not reach fairness and ENABLED; `NoCircleOfCalls`
is the part of EveryCallEnds that is safety.

## 5. Not modelled, and why

- Token signature and claim checks, principal lookup: pure, one request each.
- HTTP decoding and status codes: no state. The stored refusals are modelled as labels.
- Attempt, security and recovery audits: written, never read by a command.
- Pages ordered by creation time: `created_at` is when the transaction started, so a
  visit or submission committed later may sort before a cursor already handed out.
  Time is not modelled. Nor is the limit of a worklist's page, nor that an item of it
  shows the latest 50 submissions and RETURNs and marks the rest as truncated.
- The spelling of ids: `relatedSubmissionIds` are accepted as UUIDs in any
  spelling and matched as text by the queries.
- The expected-digest option of both admin commands: a caller's further refusal.
- Creating the definition row and the read-only validate use case of the
  definition service.
- Triggers that repeat a check of the code: left out on purpose, so that
  the properties rest on the code.
- Integer width: state versions are i32 and capped by MaxVersion here; the
  ordinary commands add 1 unchecked, the override checks. The boundary is 2^31
  commands on one instance away.
- Payload contents, schema languages, digests byte by byte: reduced to the
  outcomes that the checks distinguish.

## 6. Plan

Written in this order: the kernel (facts, commands, replay), the receipt protocol with
its abstract specification, the graph searches, lock order, the
definition lifecycle with its abstract specification, the JWKS cache; then the
queries, the import, the stored refusals and the authority of the lifecycle; proofs
beside each. What remains is in section 5.

## 7. Running it

    tlc -workers 2 -config receipts.cfg MCReceipt.tla
    tlapm CommandReceiptProofs.tla

Each run of section 3 names its configuration; the module is in `PROJECT.json`.
