# TLA+ models of computeid-go

ComputeID issues *passports* to AI agents and to devices. The repository holds an HTTP server over
Postgres that issues, verifies, audits and revokes them, and a Go SDK: a REST client, passports that
live in the memory of a program, and a "passport office" that registers those. This directory models
both halves in TLA+, checks the models with TLC, and proves every safety property that the runs check,
and both refinements, with TLAPS.

## 1. The system

| Component | Source | State it keeps | Operations | What makes it correct |
|---|---|---|---|---|
| agents API | `server/handlers_agents.go` | tables `agents`, `agent_actions` | register, verify, capability, log action, list actions, list, revoke | a revocation that was acknowledged is never forgotten, an issued passport is found, what was logged is listed, the audit trail speaks the truth |
| devices API | `server/handlers_devices.go` | tables `devices`, `device_counters` | register, approve, authenticate, list | codes are dense, unique, growing and lasting; a JWT needs an approval |
| signer | `server/signer.go` | table `signing_keys`, a key in memory | load or create, sign, verify | one key for all replicas and restarts |
| migrations | `server/migrate.go`, `server/migrations` | table `schema_migrations`, the schema | migrate | every migration once, in order, whoever boots |
| server process, Postgres adapter | `cmd/computeid-server/main.go`, `server/postgres.go` | where `run` stands, the listener, the pool and who holds its connections | boot, serve, shut down, acquire, release, close | what it accepted is answered before it exits in time, and an exit cuts no transaction |
| routing, admin guard | `server/server.go` | none | dispatch, `checkAdmin` | admin routes need the token |
| REST client, errors, device snapshot | `client.go`, `errors.go`, `device.go` | none; the caller keeps what it was told | one request per call, the mapping of answers to errors | nil means done, and an error says what happened |
| local agent passport, presets | `agent.go`, `helpers.go`, `capabilities.go` | fields and audit log of a passport, behind a mutex | issue, log, verify, require, revoke, export, load | trust never comes back, no log entry is lost, a document never hides a revocation |
| passport office | `office.go` | two maps of passports, behind an RWMutex | register, lookups, active ones, `AuditReport` | a report knows the revocations before it, nobody waits for ever |
| examples | `examples` | none | sequential demonstrations | — |

**How they interact.** A request runs in a goroutine of a replica; replicas share nothing but the
database. Only device registration and a migration use a transaction; in every other handler each
statement commits by itself, on a connection it takes from the pool of its process and gives back. A
replica reads the signing key once, at boot, and keeps it in memory. The REST client sends one request
per method and knows nothing but the answer. The SDK's local passports never talk to the server;
goroutines of one program share them through their mutexes, and through the office.

**What is hard.** Handlers made of several statements, of which some errors are discarded; statements
that take effect and report an error; lost replies, timeouts and clients that try again; replicas that
boot at the same time, or die between two statements; a shutdown with a deadline over handlers that
queue for a connection; counters per *spelling* under codes that are unique per upper-case form;
methods made of several critical sections (`Revoke`, `VerifyAction`, `Export`, `AuditReport`); fields
read without the mutex; a read lock held over many other locks. `PROJECT.json` lists these hazards at
their lines, each with the properties that would show it going wrong.

## 2. Modules

| Module | Models | State and actions |
|---|---|---|
| `PassportLedger` | the promise of the agents API: every call takes effect at one instant | the status of each passport; per call its phase and outcome |
| `AgentRegistry` | all agents handlers, one action per SQL statement and the branch on its result | the two tables, and per call the next statement (`pc`), the request and the reply |
| `CodeAllocator` | the promise of the devices API: a registration takes the next number at one instant, or fails; only an approved device gets a token | the last number of each type, the status and code of each device; per call its phase and outcome |
| `DeviceRegistry` | the devices handlers, register with its transaction | counters, devices; per registration its statement and what it knows |
| `ServerBoot` | `run` until it serves: `Migrate`, `LoadOrInitSigner`, on several replicas | schema, recorded versions, persisted key; per replica its step and its key |
| `ServerLifecycle` | `run` from there on: signal, listener, `Shutdown`, `Close`; the pool; handlers, a revoke's `EXISTS` included, by the connections they need | where `run` stands, the listener, the pool; per request its statement and status code |
| `SDKClient` | every method of the REST client, on top of instances of `PassportLedger` and `CodeAllocator` | the two ledgers; per goroutine the call it is in and what came of it |
| `LocalPassport` | local passports, presets and `RequirePassport`, one action per critical section | the objects; per goroutine the call, its next section, the half-made document |
| `PassportOffice` | the office, extending `LocalPassport` | the maps; per goroutine its place in the office (queue, lock, walk) |
| `AgentRegistryProofs`, `DeviceRegistryProofs`, `ServerBootProofs`, `ServerLifecycleProofs`, `SDKClientProofs`, `LocalPassportProofs`, `PassportOfficeProofs` | theorems about the module of that name; the last one rests on the one before it, as the office does on its passports | — |
| `AgentLedgerProofs` | that `AgentRegistry` implements `PassportLedger`, on top of `AgentRegistryProofs` | — |
| `MC*` | small values and symmetry for TLC | — |

The modules fit together like this. `ServerBoot` ends where `ServerLifecycle` begins, with a process
that listens. `ServerLifecycle` follows the handlers of the two APIs as far as a shutdown can tell them
apart, that is by which connections they take and when; `AgentRegistry` and `DeviceRegistry` say what
each of their statements does. `AgentRegistry` implements `PassportLedger` and `DeviceRegistry`
implements `CodeAllocator`, so `SDKClient` is checked against these two promises and not against the
handlers again. `PassportOffice` takes the actions of `LocalPassport` as they are and adds its own.

Names follow the code: `RevokeUpdate`, `RevokeExists` and `RevokeAudit` are the three statements of
`handleAgentRevoke`, `CheckParent` and `Create` the two halves of `IssueAgentPassport`. Variables that
are not in the code are histories, named as such: what clients have been told (`acked` in
`AgentRegistry`, `told` in `SDKClient`), what they had been told when a call began (`before`, `since`),
which keys lost the race of first boots (`strays`), who approved what (`approvals`), which requests
found the pool closed (`refused`). With them a property can speak of "after a client learned of the
revocation". Definitions commented "Mutated" are plausible bugs; no specification uses them, and
`PROJECT.json` says which property each one breaks.

### Abstractions

* *Postgres* is not under test. A statement is atomic. It works, or fails without effect, or takes
  effect and reports an error (a broken connection). Lock waits are guards. An identifier that is not
  a UUID makes the statement fail, and is that case.
* *Audit rows* carry the action the client sent, which may be any text but a blank one, the names of the
  server's own rows `passport_issued` and `passport_revoked` included. A history field (`by`) keeps
  apart what the server wrote of its own accord. The rows are ordered by commit, where the code sorts by
  `occurred_at`, the clock at the start of the statement. The list of agents is sorted by the clocks of
  replicas, so any full page is possible.
* *The pool* hands a free connection to any handler that waits. pgxpool serves its queue in order, so
  the model allows more behaviours than the code has.
* *The network of `SDKClient`*: a request is lost before the server sees it, or is taken up; its answer
  arrives, or the call ends without one, and the server goes on with the request. Names that contain
  a slash are kept apart from those that do not, because the server splits the path after it was
  unescaped; the names `.` and `..`, which `http.ServeMux` redirects, are left out. `parseAPIError`
  looks for a word anywhere in the path, so `Beginning` says which identifiers and capability names
  begin with it. Slots of the server are places for requests.
* *Cryptography*: a signature is valid for the key that made it. The payload is stored next to the
  signature and never changes, so it is left out. A JWT is the device and code it names.
* *Data*: names, descriptions, details, organizations, and fields of a passport that never change
  after issue are left out. So are the limits of `AgentCapabilities` (`MaxActionsPerHour`,
  `HumanInLoop`, domains, tools, tokens): no method looks at them; what a preset *allows* is modelled.
  Times are left out but for `ExpiresAt`, which `Tick` may pass at any moment.
* *The Go memory model*: a critical section is one action. The reads of `Export` outside the mutex are
  actions of their own; a string read while another goroutine writes it may come out `"torn"`. A crash
  on such a string is left out. So is `RequirePassport` of a nil passport, which shares nothing, and the
  suffix `_call` of the name under which it logs.
* *The primary key of `schema_migrations`* is a wait and a failure of `RecordVersion`, as unique values
  are in `DeviceRegistry`. While body and version are one transaction it never has to act.

## 3. Runs

Each passing property has a mutant of the code in `PROJECT.json` that violates it under the same
configuration, so none of them holds by the shape of the model alone.

| Run | Instance | Shows |
|---|---|---|
| `AgentRegistry_safety` | 2 replicas, 2 calls in flight, 1 passport, 2 reasons, 2 action names of which one is `passport_revoked`, 4 requests, 1 fault, audit window 1 | `TypeOK`; `NoAuthorityAfterRevocation`: no answer to a request sent after an acknowledged revocation treats the passport as active; `AcknowledgedActionsListed`; `LifecycleReportsAreTrue`: the lifecycle rows the server writes are true, and none is missing unless something failed; `RevocationIsFinal` |
| `AgentRegistry_ledger` | 2 passports, 3 requests, 1 fault, list page 1 | `PassportNeverForgotten`; `ImplementsLedger`: the handlers look atomic to clients; `RevokeCompletes` |
| `ServerBoot_concurrent` | 2 replicas, 2 migrations, 3 exits, 5 keys | `TypeOK`; `MigrationsAppliedOnce`; `OnlyStraysDisagree`: a signature is refused only by or from a replica that lost the race of first boots; `PersistedKeyIsPermanent`; `BootEnds` |
| `ServerLifecycle` | a read, a revoke and a device registration, a pool of 1, 1 fault | `TypeOK`; `GracefulExit`: status 0 means all accepted requests were answered; `RevocationsAudited`: a gap in the audit trail needs a failure or a shutdown out of time; `ExitCutsNoTransaction`; `ShutdownEnds`; `HandlersEnd` |
| `DeviceRegistry` | 3 registrations in flight, 3 devices, types `GPU` and `gpu`, 2 faults | `TypeOK`; `CodesAreDense`; `JwtsNeedApproval`; `OneSpellingPerPrefix`; `RegistrationEnds`; `ImplementsAllocator`: clients see an atomic allocator |
| `SDKClient` | 2 goroutines, 2 slots of the server, 1 passport, 1 made-up identifier that begins with `revoke`, 1 device, 2 capability names, 3 calls | `TypeOK`; `NilMeansDone`; `KnownRevocationsHold`; `NotFoundIsAboutThePassport`; `ErrorsNameTheirCall` |
| `LocalPassport_safety` | 2 goroutines, 2 objects, 4 calls | `TypeOK`; `RevokedMeansRefused`; `ExportsAdmitRevocation`; `ExportsRememberRevocation`; `TrustNeverReturns` |
| `PassportOffice` | 2 goroutines, 2 objects, 1 device, 4 calls | `OfficeTypeOK`; `ReportsKnowRevocations`; `ReportsAddUp`; `OfficeCallsReturn` |

Four runs are expected to find a violation: they state what a comment or a document says and the code
does not do. `PROJECT.json` quotes both under `findings`.

| Run | What the counterexample shows |
|---|---|
| `ServerBoot_first_boot` | two replicas on an empty database both draw a key; the one whose `INSERT ... DO NOTHING` did nothing serves with a key nobody else has |
| `AgentRegistry_revoke_404` | when `SELECT EXISTS` fails, revoke answers 404 for a stored passport |
| `DeviceRegistry_spelling` | after `GPU`, a registration of `gpu` fails on the unique code, every time |
| `LocalPassport_round_trip` | a document counts an entry that it does not hold |

Smaller disagreements are read off the models and have no run of their own:

* a passport can be issued, or end revoked, without its audit row, because `RegisterAudit` and
  `RevokeAudit` may fail unnoticed (`server/README.md:20` says revoke writes one);
  `LifecycleReportsAreTrue` and `RevocationsAudited` say when;
* a client may log actions called `passport_issued` and `passport_revoked` itself, and a reader of the
  trail cannot tell them from the server's;
* a second revoke writes another `passport_revoked` row, where `server/integration_test.go:282` speaks
  of a no-op;
* a capability whose name holds a slash is answered 404 by the router;
* any error status but 401 and 403 about a capability whose name begins with `register` or `revoke`,
  or about an identifier that does, is reported as `ErrRegistration` or `ErrRevocation`, because
  `parseAPIError` looks for these words in the whole path: a verify of the made-up `revoke-me` fails with `ErrRevocation`. No
  passport the server has issued is called so. For these sentinels and `ErrAuthentication` the HTTP
  status is lost;
* `README.md:118` comments `dev.IsValid()` with "true once admin approves", but a device passport of
  the SDK is a snapshot that nothing refreshes;
* a passport revoked between the two checks of `RequirePassport` gets `ErrTrust` although it has the
  capability, and an entry of `AuditReport` takes summary and log at two moments.

**Bounds.** Two replicas with one call each are enough for any two statements of two requests to
interleave, and slots are reused, so requests also follow one another. Four requests cover register,
revoke, another revoke or log, and the check that judges them; one fault is enough for each statement to
fail in each way, or for a crash between any two. A window and a page of one row are full at once, so
the limits 50 and 200 bite in a small instance. Two migrations make the order of files matter; three
exits let a replica die inside a boot, come back to what another one left, and die once more, and every
boot finds a fresh key among five. Three devices over two spellings let a code collide, a counter grow
past one, and a transaction roll back under two others that wait for it; the second fault lets one of
them fail as well. A pool of one connection under three handlers makes all of them queue, also behind
the transaction that keeps it, and lets the pool close at each place of that queue. Three calls of the
client cover register, revoke and the check that judges them, or a call that is given up, tried again,
and overtaken by its first attempt; a plain name and one that begins like a method and holds a slash, an
issued identifier and one that was made up, meet every branch of `parseAPIError`. In the SDK two objects
are a parent and its child, or a passport and its reloaded copy; four calls reach issue, revoke, export,
load, or issue, register, revoke, report. Two goroutines are enough for any two critical sections to
interleave, and for a reader of the office to meet a writer that waits for it. The bounds are the
constants `MaxRequests`, `MaxFaults`, `MaxExits`, `MaxCalls`, `MaxConns`, the sets `Keys`, `Devices`,
`Slots` and `Requests`, and `ListLimit` and `Limit` where they are small.

**Fairness.** A goroutine or a booting process that can take its next step takes it (`WF` of `Handle`,
`Boot`, `Run`, `Proceed`): the Go scheduler and a database that answers guarantee that. A timer
fires: the ten seconds of `Shutdown` are part of `Run`. Two waits are strong: Postgres grants a row lock
in the order of its queue (`SF` in `DeviceRegistry`), and `sync.RWMutex` lets a waiting writer in before
new readers, and waiting readers in before the next writer (`SF` of `Enqueue`). In `ServerLifecycle`
requests are sent once, so a handler waits behind finitely many others and `WF` is enough. No client is
made to send a request or to finish its body, no signal and no kill has to come, and no process is
restarted: `docker-compose.yml` sets no restart policy. `SDKClient` assumes no fairness: whether a call
returns is up to the server and to the `Timeout` of the `http.Client`, which `NewClient` sets to thirty
seconds and a caller of `WithHTTPClient` to what he likes, and the model promises nothing about it. The
methods of the office that look an agent up (`IsTrusted`, `RevokeAgent`) begin, in the model, when they
get the read lock, so `OfficeCallsReturn` is about the methods that queue for it (registrations, lists
of active ones, `AuditReport`) and about those of passports. Deadlock is checked in every run; a bounded
behaviour that has used up its calls stutters explicitly (`Quiescent`, `Exhausted`, `Gone`).

## 4. Theorems

Each theorem holds for all values of the constants that meet the named assumptions of its module; TLC
evaluates those in every run. The bounds on faults, exits, requests and calls are any natural numbers.
The other assumptions, and why the code meets them:

* `ServerOfAssumption`, `KindAssumption`, `ToUpperAssumption`: a parameter that is a function has the
  domain its use needs; `ToUpper` may be any function.
* `NoneAssumption`, `KeysAssumption`, `ReasonsAssumption`, `SlotsAssumption`, `NobodyAssumption`: the
  model's "nothing" is not a value. It stands for an absent row, a nil pointer, an empty reason field.
* `StrangerAssumption`: there is an identifier nobody issues, which a caller may ask for.
* `LimitAssumption`, `MaxConnsAssumption`: 50, 200 and a pool of at least one connection are positive.
* `FiniteAssumption`, `DevicesAssumption`: goroutines, objects in memory and devices of an office are
  finitely many; they are counted (`len(o.agents)`, and the room that `new` finds).
* `IdentifiersAssumption`: passports and devices are UUIDs drawn by the server
  (`handlers_agents.go:50`, `handlers_devices.go:63`), so no identifier is both. It needs no assumption
  that a UUID never begins with `revoke` or `register`: `UUIDs` is defined as the identifiers that do not.

**`AgentRegistryProofs`** (any replicas, calls, passports, capabilities, reasons, limits):
`TypeCorrect`; `RevokedMeansNoAuthority` (`NoAuthorityAfterRevocation`); `IssuedMeansFound`
(`PassportNeverForgotten`); `ReportsAreTrue` (`LifecycleReportsAreTrue`); `RevocationStands`
(`RevocationIsFinal`); `LoggedMeansListed` (`AcknowledgedActionsListed`). None of the invariants is
inductive: an answer is right because of what the table said when its statement ran, and the table is
right because of what clients had been told before. `SafetyInv` joins both sides, and `SafetyInvariant`
proves that every step keeps it:

* `TypeInv`, the types the proof needs;
* `MintedInv`: a stored passport has an identifier handed out before, and never the stranger's, so
  a register in flight holds an identifier that nobody else stores;
* `AckedInv`: every acknowledged register is stored, every acknowledged revoke is revoked in the table;
* `TrailInv`: a `passport_issued` row that the server wrote names a stored passport, and a
  `passport_revoked` row that it wrote a revoked one. Rows that clients logged may be called anything;
* `CallInv(c)`: a call past its deciding statement has had its effect, and `before` is part of `acked`;
* `AnswerInv(c)`: a written reply respects what the client knew when it sent the request.

Its engine is two lemmas on rows: no step makes a stored row absent, and none makes a revoked row
active, which is the `status = 'active'` in the `WHERE` of the UPDATE. Actions with the same effect are
grouped (all arrivals; all handlers that only read), and each group is one lemma. `LoggedMeansListed`
needs more: `AuditInv` adds that every acknowledged entry has its row (`AckedLogs`), and that a page
already answered shows the rows its client knew of, or is full of newer ones (`LogInv`), and that
without a fault a register or revoke that is answered has its lifecycle row (`LifecycleInv`), which
`ReportsAreTrue` needs too. That rows are never removed keeps both; that `ORDER BY ... LIMIT` leaves out
only older rows, when the page is full, is a lemma about finite sets of numbers (`NewestOf`).

**`AgentLedgerProofs`**: `RegistryImplementsLedger` (`ImplementsLedger`), the refinement: every behaviour
of the statement-level handlers, with failing statements, crashes and lost replies, is one of the ledger
on which calls take effect at one instant. The mapping reads phase and outcome off the next statement
and the reply of a call. A register takes effect at its INSERT and a revoke at its UPDATE; both audits
that follow are stutters. A read takes effect where it reads. A revoke that found no active row takes
effect at `EXISTS`, also when that statement fails, because `SafetyInv` knows that by then the row is
absent or was revoked by somebody else. A lost reply and a crash are `End`.

**`DeviceRegistryProofs`** (any registrations in flight, spellings, devices, tokens, and any function
`ToUpper`): `TypeCorrect`; `NumbersAreDense` (`CodesAreDense`); `OneSpelling` (`OneSpellingPerPrefix`);
`ApprovalComesFirst` (`JwtsNeedApproval`); `UniqueCodes`; `CodesOnlyGrow`; and
`RegistryImplementsAllocator` (`ImplementsAllocator`), the refinement: the commit of the transaction is
the instant at which a registration takes effect, and every other step maps to one of the allocator or
to a stutter. `DeviceInv` is the types and

* `IdInv`: a registration in flight has an identifier of its own, under which nothing is stored yet;
* `CounterInv`: behind the lock on its counter row there is one registration per type, and the number it
  read is still the next one;
* `CodeInv`: stored codes are unique, and so are those of open transactions, which the unique index
  makes wait for each other;
* `DenseInv`: the numbers of a type are all those up to its counter;
* `ApprovalInv`: what is active, or has a JWT, was approved with the admin token.

`OneSpelling` follows from density and uniqueness alone: two spellings with one upper-case form would
both hold number 1 of it.

**`ServerBootProofs`** (any replicas, keys, migrations, exits): `TypeCorrect`; `MigrationsOnce`
(`MigrationsAppliedOnce`); `StraysOnly` (`OnlyStraysDisagree`); `KeyIsPermanent`
(`PersistedKeyIsPermanent`). `BootInv` adds `ProgressInv`, how much of the schema a replica at a given
step has seen, `TransactionInv`, that the one migration in an open transaction is the next one, and
`KeyInv`, that whoever serves has the persisted key or is a stray, and so has whoever signed. That the
primary key of `schema_migrations` never refuses a version is a consequence: the body of that
migration would have failed, or waited, before.

**`ServerLifecycleProofs`** (any requests of the three kinds, any pool, any faults): `TypeCorrect`,
which says that the pool is never overdrawn; `ExitIsGraceful` (`GracefulExit`); `AuditsSurviveShutdown`
(`RevocationsAudited`); `NoTransactionIsCut` (`ExitCutsNoTransaction`). `LifeInv` adds `RunInv` (while
`run` still serves or drains, the pool is open and nobody was refused; status 0 later means that nobody
is in flight), `StatementInv` (which statement a handler can be at), `CutInv` (what an exit found) and
`AuditInv` (what a reply to revoke implies about its audit). The heart of it is that `Close` waits for
the connections in use, and that a transaction keeps the one it has.

**`SDKClientProofs`** (any goroutines, requests in hand, calls, passports, devices, capability names):
`ClientTypeCorrect`; `NilIsDone` (`NilMeansDone`); `RevocationsKnownHold` (`KnownRevocationsHold`);
`NotFoundIsThePassport` (`NotFoundIsAboutThePassport`); `ErrorsAreNamed` (`ErrorsNameTheirCall`). They use
nothing about the server but the two promises, so with the refinements they hold of a client that talks
to the handlers. `ClientInv` is

* `ShapeOK`: the types, and that a made-up identifier that begins like a method is never stored;
* `SlotOK(s)`: a request is for one of the two APIs, has an answer once it took effect, and registers a
  passport only under a UUID;
* `ClientOK(t)`: a call that waits is the only one with its request and the request asks what the call
  asks (`Carries`), although abandoned requests stay and go on beside it;
* `Known`: what each answer says of the passports *now*, for a call in flight and for one that has
  returned. It survives all later steps because of `Grown`: no step unregisters a passport or device,
  takes back a revocation or an approval;
* `ToldInv`: what has been reported is so.

**`LocalPassportProofs`** (any goroutines, objects, calls): `PassportTypeCorrect` (`TypeOK`);
`RevokedIsRefused` (`RevokedMeansRefused`); `DocumentsRememberRevocation` (`ExportsRememberRevocation`);
`TrustStaysLost` (`TrustNeverReturns`); `LogsAreKept`, that audit logs are append-only; and
`DocumentsAdmitRevocation` (`ExportsAdmitRevocation`), which has a hypothesis: that callers of `LogAction`
leave the action name `passport_revoked` to `Revoke`. The code does not make them, and a document whose
log was written by somebody else in that name says nothing about a revocation; the runs keep to it.
Every write to an object is one of four (`HeapStep`: expiry is recorded, an entry appended, a passport
revoked, a new object filled in), and `Grows` says what none of them undoes. `PassportInv` adds

* `HeapInv`: `Revoke` sets the fields in its first critical section and logs in its second, so a log that
  speaks of a revocation never runs ahead of the fields;
* `DocInv`: `Export` reads the log first; if that speaks of a revocation, or the revocation had been
  reported before, then every part read later carries it, torn strings included;
* `RefusedInv`: a call that began after a reported revocation can only be on its way to a refusal;
* `RevokeInv`, `ToldInv`: when `Revoke` returns, fields and entry are there;
* `RoomInv`: an object is left for each goroutine that may still create one.

**`PassportOfficeProofs`** (also any devices): `OfficeTypeCorrect`; `ReportsKnow`
(`ReportsKnowRevocations`); `ReportsBalance` (`ReportsAddUp`); and `PassportsOfTheOffice`, that
`RevokedMeansRefused`, `ExportsRememberRevocation` and `TrustNeverReturns` still hold when passports are
used through an office. `OfficeInv` is `PassportInv`, the types of the maps, and for each walk
(`VisitOK`): the entries made, the passport in hand and those left to visit make the total
(`Counted`); a passport that was not counted as trusted was left inactive by that check and cannot become
active before its summary is taken (`InHand`); the log can only grow between summary and copy (`Summed`);
and each finished entry is consistent by itself (`Honest`).

**Only model-checked**: all liveness (`RevokeCompletes`, `BootEnds`, `RegistrationEnds`, `ShutdownEnds`,
`HandlersEnd`, `OfficeCallsReturn`), because fairness is out of the prover's reach, and the
four violations of section 3, which are counterexamples. Every other property of the passing runs is
stated by a theorem.

## 5. Not modelled

* `examples`: sequential programs that call the SDK.
* The health page, the list of devices and the lists' filters: reads that no property is about.
* How a JWT is signed and parsed (`signJWT`, `verifyJWT`), how a passport is hashed and signed.
* `NewClient`, its options (the timeout of the `http.Client` among them) and headers, `String` methods,
  and JSON formats.
* The clocks behind `occurred_at` and `issued_at`; section 2 says what stands for them.
* The kill of a process in the middle of a statement is in `AgentRegistry`, `DeviceRegistry` and
  `ServerLifecycle`; the loss of the database itself is in none of them.

## 6. Plan

Done, in this order: `AgentRegistry` with `PassportLedger`, its proofs, `ServerBoot`, `DeviceRegistry`,
`LocalPassport`, `PassportOffice`, `CodeAllocator`, `ServerLifecycle`, `SDKClient`, the proofs about
devices, boot and shutdown, and the proofs about passports, office, client and ledger. Next:

1. what the ledger itself promises (a passport that was revoked stays so, a register answered "ok" is
   stored) as theorems of `PassportLedger`, so that a reader need not trust the abstraction;
2. that what `SDKClient` proves holds of the composed system, by way of the two refinements;
3. boot composed with the registry, so that `SignerKey` is what the race of first boots left.
