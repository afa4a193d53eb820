# Verification of ripmcp

`ripmcp` is a command-line client of MCP servers. It starts local servers
through a persistent per-user supervisor, talks to remote ones over HTTP, keeps
their credentials in the desktop keyring, and installs and removes servers and
itself. This directory holds TLA+ models of the parts in which several
processes, tasks or crashes meet, the TLC configurations that check them, and
TLAPS proofs of what is checked.

Paths below are relative to the repository (`src/...` is `src/src/...` in
`PROJECT.json`, where the sources are mounted).

- [The system](#the-system)
- [Modules](#modules)
- [Runs](#runs)
- [Fairness](#fairness)
- [Proofs](#proofs)
- [Findings](#findings)
- [What is abstracted](#what-is-abstracted)
- [Not modelled, and what is left](#not-modelled-and-what-is-left)

## The system

| component | state | operations | meets |
|---|---|---|---|
| Supervisor manager (`supervisor/manager*`, `barrier.rs`, `launch.rs`) | a slot per scoped server: connection, revision, health, a queue of 16 and a mutex; the barrier | start, tools, call, stop, status, uninstall, install, self-uninstall, shutdown | sessions call it; it launches guards and reads configuration and trust at every step |
| Guard processes (`supervisor/guardian*`) | lease file lock, server process and its group, container recovery record | supervise: lock, check, record, spawn, wait, terminate, clean up | started by the manager, killed by the connection's worker, outlive the daemon |
| Policy and trust (`config/effective.rs`, `trust/`) | configuration files per scope, `trust.json` | load, identity, authorize | edited by other commands and by editors at any time |
| Supervisor endpoint (`supervisor/endpoint.rs`, `client.rs`, `service.rs`) | socket, pending socket, record, two locks, the launched child | connect, ensure, reconcile, bind, remove | every local command is a client, the daemon the server |
| Sessions (`service/session.rs`, `wire.rs`) | one task per connection, 32 permits | ping, status, local request with prompts, shutdown | cancel the manager's operation when the client goes away |
| Stdio transport (`mcp/stdio*`, `mcp/client.rs`) | registry of pending and abandoned requests, writer queue, permits | request, cancel, receive, shutdown | one worker, reader and writer task per server process |
| Discovery and calls (`mcp/tools.rs`, `interaction.rs`) | pages of tools, rounds of input | discover, call_tool_checked | rechecks policy through the manager before each round |
| HTTP transport (`mcp/http.rs`, `sse.rs`, `headers.rs`) | event parser, retry budget | request, stream | remote servers |
| OAuth credentials (`auth/provider.rs`, `credentials.rs`, `store.rs`) | keyring item, epoch file, lock file per endpoint | login, logout, authorize, refresh, challenge | any number of processes, the keyring behind D-Bus, the browser |
| Bearer secrets and their configuration (`auth/bearer.rs`, `configure*`, `cleanup.rs`) | keyring items, configuration entries | set, use, remove | as above |
| OAuth discovery, callback, registration (`auth/metadata.rs`, `callback.rs`, ...) | none of their own | fetch and validate documents | the login flow |
| Transactional store (`storage/transaction.rs`, `directory.rs`) | a file, its lock, a temporary file | update, update_with_deadline | configuration, trust, ownership, epoch files |
| Maintenance lock (`storage/maintenance.rs`) | shared or exclusive file lock, removal record | acquire, finish | every mutating command against self-removal |
| Installation (`supervisor/manager/install.rs`, `install/*`) | staged runtime, configuration entry, ownership record | stage, verify, commit, rollback | store, ownership, manager |
| Ownership and cleanup (`ownership/`, `cleanup/{plan,journal,remove}.rs`) | ownership records, journal, resources on disk | begin, delete, finish | uninstall |
| Self-removal (`cleanup/self_*.rs`, `manager/self_uninstall.rs`) | removal record, helper process | plan, quiesce, delete, resume | maintenance lock, supervisor |
| Tool policy commands (`tools/policy.rs`) | enabled flags in configuration files | enable, disable | store |
| Command line, output, JSON | none | parse, print | everything |

### What is hard here

- **Files change under a handler.** The supervisor never trusts its caller's or
  its own earlier view of configuration and trust: it reads them again after
  every wait. Which reads must be repeated, and what must still be the same, is
  the substance of `execute`, `recheck` and `call_tool_checked`.
- **Processes outlive each other.** The daemon, the guard of a server, the
  server, its descendants and its container can each die alone. What a later
  daemon may do depends on an inherited file lock and a recovery record.
- **Shutdown must not wait in a circle.** The daemon waits for the barrier and
  for each slot, handlers inside the barrier wait for processes, and the
  connection's worker waits for the guard, which waits for the server.
- **A keyring write cannot be taken back.** Its caller may time out or die and
  the write may be carried out minutes later, after a logout.
- **A caller goes away.** Its request is with the server, its permit is in use,
  its answer will arrive late or never.
- **Two files say one thing.** An installation writes `ownership.json` five
  times around one rename of `config.json`; each write may fail before or after
  it took effect, the daemon may die between them, and editors know of no lock.
- **Deleting what others can change.** `uninstall --clean` deletes by path what
  was recorded by identity, while anybody creates, moves and deletes files
  beside it, and continues after a crash with what the journal says.
- **Removing oneself.** `--uninstall-everything` deletes the executable, the
  records that say what it may delete, and the very lock file that keeps other
  commands away, and must be startable again wherever it died.
- **A command works on what it has read.** `login`, `enable` or `call` waits for
  people, keyrings and servers, and then writes a whole definition back or sends
  a secret, while others change the same files.
- **Startup races.** Several first commands, the leftovers of a dead daemon, and
  a launcher whose deadline kills the daemon it has launched.

Correctness, per component: at most one guard owns processes of a server, no
error path loses one, Stop and uninstall are truthful, starts and calls happen
only under the policy in force (manager, guards, policy); a logout is final, a
refresh token is used once, a login is neither disturbed nor demanded without
cause (credentials); the server's load is bounded, cancellations are in order,
a well-behaved server keeps its connection (stdio); a serving daemon is unique
and reachable, and leftovers are replaced (endpoint); an entry has its durable
record, a committed record its entry, no failure leaves a process, and nobody's
edit, entry or approval is overwritten (installation and removal); only what was
recorded and nobody shares is deleted, and an interrupted removal comes to its
end (cleanup); no mutation overlaps a removal of ripmcp, the provenance of what
is left survives, a retry finishes (self-removal); requests leave under the
policy in force with its own secrets, no command undoes another's write
(remote servers). `PROJECT.json` lists every hazard with the properties that
cover it.

## Modules

Every module models what a process does between two awaits, or between two
effects that another process can see, as one step.

### Lifecycle

`supervisor/manager.rs`, `manager/{execute,uninstall}.rs`, `barrier.rs`,
`launch.rs`, `guardian*`, the policy functions of `config/effective.rs` and the
rounds of `mcp/tools.rs`.

State: `config` and `approved` (files of other processes); `daemon`; per slot
`client` and `revision`; per request `pc` and `job` (arguments and locals of its
handler); per guard its step `gst`, its slot and revision, whether its lease
descriptor is locked (`held`), and what it started (`child`, `stray`); the
engine's `container`; recovery records (`marker`); `probe`, a status report
that looks at a lease.

A handler holds the barrier, a queue permit, the slot mutex and the trial lease
exactly while its `pc` is in certain sets (`ReaderPCs`, `SlotPCs`, ...), because
in the code they are guards of its stack frame. A recheck is two steps: the
policy is read, then, after the await of `Prepared::load`, compared; when the
comparison allows it, what it was for - starting a guard, keeping or reusing a
connection, sending a call, reporting - happens in the same step, as in the code.
`Fail` is every early return; after a guard was started it first shuts that guard
down. `Plan` also takes the retry of a removal whose entry is gone already, and
`Unregister` may fail after it has removed the entry.
The daemon may `Crash` at any step, which makes its guards orphans.

### Credentials

`auth/provider.rs` and the `Vault` of `auth/credentials.rs` over
`auth/store.rs`, for one endpoint.

State: the keyring (`store`, `doubled` when it has two items, and `pending`, the
writes it may still carry out), the `epoch` file, the `lock`, and per client the
step of its operation. Every write is four steps - revoke, ask the keyring, read
back, validate - and any of them can fail, with what was sent to the keyring
staying sent. A login gives the lock up while the user is in the browser.
`Reboot` ends every process and, unless `EpochSurvives`, empties `/tmp`.

`Cell` is what that amounts to for those who use it: a cell whose writer, one at
a time, first gives up what the cell holds and then puts its own record there or
leaves it empty. `Credentials` implements it (`TheCell`, with `Value` the record a
load would return, `lock` the writer and `Intended` the record on its way), and
what is left pending in the keyring, found twice or spoilt is gone from the cell.

### StdioRegistry

`mcp/stdio.rs`, `mcp/stdio/registry.rs` and the tasks of `mcp/stdio/process.rs`.

State: `pending` and `abandoned` are the registry's entries, which own the
permits; `queue` and `writing` are the channel to the writer and what it has
taken; `worker` is the connection's task; `received` is what the server has been
sent. The server is external and answers any id at any time, so `Receive` takes
every id. A cancelled caller either leaves no trace (it was not submitted), or
leaves an abandoned entry and a `notifications/cancelled`, or closes the
registry because there is no room for the latter.

### Endpoint

`supervisor/endpoint.rs`, `client.rs` and the life of `service.rs`.

State: `at`, the inode found under each of the two socket names; `record`;
per daemon its step, its listener's inode and the leftover it is looking at;
per client its step in `connect`, `ensure` or `ready`, the record it has read,
the daemon that accepted it and the one it launched. Inodes are used again once
nothing refers to them. Both locks are derived from the steps of their holders,
as they are released by the end of a process or frame.

A client looks at the socket, reads the record, compares, connects and exchanges
hellos in separate steps; a daemon binds, saves and publishes in separate steps.
`Crash` ends a daemon anywhere, `Interrupt` is a client's deadline or Ctrl-C,
which kills the daemon it launched (`Launch::drop`), `Kill` leaves that daemon
alone.

### Registration

`manager/install.rs`, `manager/uninstall.rs`, `install/{target,records}.rs`,
`cleanup/{plan,journal}.rs` without the deletions, `storage/transaction.rs` as
they use it, and the other users of the two files: `config/mutation.rs`,
`launch.rs`, an editor.

State: `config` and `journal`, the contents of `config.json` and
`ownership.json` for one name; `running`, the installation whose process the
slot holds; per command `pc` and `job`, its arguments and what it has read. An
installation's record and the operation filed under its id are one record, as
every write replaces or updates both together. `by`, the installation that wrote
the entry, and `seen`, the one a user was shown, are history.

Every `records::save` is a step with three outcomes: saved, failed, and failed
after the rename (`SaveFailed`); so is the rename of `config.json` (`Commit`,
`Apply`). `Unchanged` is the re-reading of `LockedStore::unchanged`. `Candidates`
is `resolve`, with its preference for the record of a pending clean removal.
The lock of `config.json`, the slot's mutex and the barrier are derived from the
steps of their holders. `Crash` ends the commands inside the daemon; a mutation
by another command and a user looking at a plan go on.

`Entry` is what becomes of the name as its user sees it: installations are at it
one after the other, each is new, begun, published and over, in that order and once,
and an entry is withdrawn only on behalf of a user who was shown it. `Registration`
implements it (`TheEntry`): `Phase` reads an installation's part from the journal,
from whose entry it is and from who is on the way to publish; `Shown` are the
entries that users have before them.

### Cleanup

`cleanup/{plan,journal,remove}.rs` as they delete the resources of an
installation, over `ownership.json` and a file system that others use.

State: `place`, where each object is (a directory and a name); `gone`, the
deleted ones; `journal`, per installation and path the recorded identity and how
far its deletion has got; and of the one cleaner its step, the plan it has left
(`todo`), the parent it holds open (`dir`) and how it goes (`fine`, `ok`).
Objects are told apart by their time of birth and may share an inode one after
the other, which is what the hidden name `.ripmcp-remove-<device>-<inode>`
is made of.

Opening the parent, looking, renaming, verifying, restoring, unlinking and
saving the journal are each a step, and `Create`, `Delete` and `Move` by others
come between any two of them, `Edits` times in all. `Crash` ends the cleaner
anywhere. `moved` and `disturbed` are history: what others moved, and whether
anything but a crash was in the way.

### Removal and Gate

`cleanup/self_*.rs`, `supervisor/manager/self_uninstall.rs`,
`storage/maintenance.rs`, `auth/cleanup.rs`, and the stores' way of recording
ripmcp's own files.

State: `lockfile`, the inode at `.maintenance.lock`, and per process the inode
it has open (`fd`) - a complete removal unlinks the file, so a lock may be held
on one that no path leads to any more; `present`, `ledger` and `journal`, which files
exist and what their records say (no entry, fits, stale, removed); `things`,
`keyring`, `binary`, `daemon`, what there is to be removed; the marker
`self-removal.json` (`pending`) with its copies of the journal (`backup`) and of
the ledger (`copy`) and the identity of the ledger (`sealed`).

The steps of a remover are those of `execute` (`Early`), the daemon's part
(`Stopping`), the deletions (`Deleting`), `finish_resources` (`Last`) and
`Maintenance::finish` (`Ending`). A store writes a file and then records its new
identity: `writing` is between the two. Any step may fail, after which the
report is saved and the remover ends or goes on as the code does; `Crash` ends
any process, and the removal may be started again.

`Gate` is what the lock promises: processes enter while nobody removes and no
removal is incomplete; a remover begins while nobody is inside. `FencesMutations`
says that `Removal` implements it, under the mapping `Lockers`: inside is who has
passed the check of the locked file and not closed it, and the incomplete removal is
the marker.

### Remote

`auth/{remote,command,configure,bearer}.rs`, `tools/policy.rs`,
`config/mutation.rs`, and `mcp/{client,http,tools,interaction}.rs` as a command
without the supervisor uses them.

State: `config` (per scope), `approved`, `keyring`; `revoked`, references whose
item a logout may have removed; per process its step and a `job`: what the
command has read (`seen`), the definition it will write (`target`), the reference
it stored (`key`), the request under way, the pages of tools so far and the
rounds of input.

A request is `Prepare`, `Send` and its answer, with a `Recheck` on both sides
of each wait. `Page` is one page of `tools/list` with its cursor, `Round` one
round of input. `Configure` stores the secret and then commits the
definition; `Policy` prepares a flag, validates the tool by a listing when it
enables one, and commits it onto the definition that is in the file by then;
`Logout` removes the item of a reference. `Edit` and `Approve` are people.

### How they compose

`Lifecycle` takes from `Endpoint` that there is one daemon (`Boot`), and from
`StdioRegistry` that a connection whose worker closes ends all of its requests
(`Shutdown`, `closed`). `Registration` takes from `Lifecycle` that stopping a
slot ends its process, or is seen to have failed (`StopIsTrue`), and `Lifecycle`
from `Registration` that a launch finds the record of what it launches
(`IntentDurable`). `Registration` takes the deletion of an installation's
resources as the last step of a removal, `FinishUninstall`, and `Removal` each
deletion of one resource: that it deletes nothing else and can be repeated is
`Cleanup` (`DeletesRecorded`, `InterruptedFinishes`). `Removal` takes from
`Lifecycle` that a daemon asked to stop does so with all of its servers
(`ShutdownEnds`, `NoLostGuard`), and all others take from `Removal` that they
are not running during a removal: that is `Gate`, stated on its own so that it can
be relied on without the removal. `Remote` reads the policy as `Lifecycle`
does, and the OAuth record that its `login` obtains is the one of `Credentials`.
`Gate`, `Cell` and `Entry` are abstract specifications that a module is shown to
implement; elsewhere the abstractions meet in guards: each module states the promise the other
relies on.

## Runs

| run | instance | shows |
|---|---|---|
| `lifecycle` | 2 requests, 2 guards, a Docker server, 1 content; start, call, stop and uninstall | `OneOwnedProcess`, `NoLostGuard`, `ContainerRecorded`, `DeletesQuiescent`, `StopIsTrue`: two operations on one slot while its file changes, the daemon crashes and restarts and the engine fails |
| `lifecycle_live` | 2 requests, 1 guard, 2 environments; tools, call and stop | `RequestsEnd`, `ShutdownEnds`, `OrphansEnd`; and, as the policy changes at any await, `KeepsCurrent` (what is kept, found again or reported from) and `CallsCurrent` (what a call reaches) |
| `credentials` | 2 clients, 4 generations, 3 tokens, 2 late writes | `LogoutFinal`, `RefreshOnce`, `LoginUndisturbed`, `LoginRequiredDeserved` |
| `credentials_reboot` | the same without the epoch file after a reboot | violates `LogoutFinal` |
| `registry` | 3 concurrent requests, 1 permit | `ServerLoad`, `CancelsAbandoned`, `HonestServerKept`, `RequestsEnd`, `CancelKeepsConnection` |
| `endpoint` | 2 commands, 2 daemons, 2 inodes | `ServingReachable`, `StartIsClean`, `RecoversOthers`, `FirstCallsConnect` |
| `endpoint_orphan` | the same | violates `StaleReplaced` |
| `endpoint_restart` | the same | violates `RestartOnNextUse` |
| `registration` | 2 commands, 2 installations, 2 definitions, 2 contents of the rest of the file, removals with `--clean` | `IntentDurable`, `CommittedConfigured`, `RunningConfigured`, `NoLostEdit`, `RemovesApproved` |
| `cleanup` | 2 installations, 2 paths of which one is below the other, 5 objects of which two have had the inode of another, 2 edits | `RemovedGone`, `InterruptedFinishes`, `DeletesRecorded`, `SharedKept` |
| `removal` | 1 command, 1 remover, 2 inodes of the lock, 1 file and 1 link to remove | `EvidenceKept`, `RetryCompletes`, `ExecutableLast`; `FencesMutations`, the refinement of `Gate` |
| `remote` | 2 processes (call, disable, login against configure, logout), user and project scope, 2 endpoints, 1 tool, 1 reference, 1 cursor, 2 pages, 1 round | `ReferenceStored`, `SentCurrent`, `NothingLost`, `CommandsEnd` |

Type invariants are theorems of every module, and not run.

Bounds, and why they are enough:

- Slots of a manager share only the barrier, so one scope with two requests has
  every interleaving of two operations on a slot; two guards are an orphan of a
  dead daemon and the guard of its successor, or the old and the new process of
  a slot. In `lifecycle_live` the absent content stands for every content that
  is not admissible, and two caller environments for the part of a revision that
  is not in a file; shadowing and trust are run in `remote` and, for guards,
  covered by the proofs, which take any scopes. Listings are in `lifecycle_live` and starts
  in `lifecycle`: a start ends where listing and call go on to use the connection, and
  to the slot a listing is a call without its last steps. `QueueLimit` is below the 16 of the code so that a full
  queue happens.
- Two credential clients are a login and whatever disturbs it. Four generations
  are the record's, the two clients' and one write that is late; a third write
  repeats what two show. Three tokens are one before, one by login, one by
  refresh.
- `InFlight` 1 instead of 16 makes the limits bind; three requests are one that
  is abandoned, one that takes its place and one that waits. `CancelKeepsConnection`
  is about calls one at a time, as the slot's mutex admits them; the run has
  these behaviours among the concurrent ones, and the property tells them apart.
- Two daemons are the dead one and its successor, or an orphan of a killed
  client and the one the next client launches. What a third one finds is in the
  proofs, which have no bound.
- Two installations of a name are the old and the new one around a removal, or
  two attempts of which one was interrupted; two commands are an installation
  or removal and whoever comes between. Two definitions distinguish a record
  that fits the entry from one that does not, two contents an edit. Plain
  removals differ from clean ones in the operation they file and do not delete;
  with both kinds the run has four times the states, and the proofs cover both.
- In `cleanup`, two installations share a path or do not, and a directory with a
  file in it needs an order of deletion. Two edits are the replacement of an object
  by another (delete and create) or one that happens while the first one is being undone;
  two objects of one inode are what a hidden name cannot tell apart. Two names in two
  directories are the two recorded places and two that nobody records.
- In `removal` one command stands for all that hold the lock shared, which do
  not exclude each other; two inodes are the unlinked lock file and the new one.
  One file and one link have different turns, more of a kind take turns in any
  order. Two removers are in the proofs.
- In `remote` the process that sends meets one that configures; each disturbs the
  others through the files alone. A second reference would differ only by its
  name, and the proofs take any number; the second page repeats the first one's
  cursor or ends.
- Symmetry is used where no liveness is checked. `VIEW` in `MCLifecycle` drops
  what a released guard or slot held before and is never read again: no property
  and no guard of an action depends on it, so states that differ in it alone have the
  same behaviours, also for the liveness properties. That of
  `MCRegistration` what a command will not read again and digests no launch looks
  at.
- Deadlock is off only where everything asked for may be finished: in the
  registry (the connection is gone and every id used), in the endpoint (all
  commands have ended), in `cleanup` (everything recorded is removed and the edits are
  used up) and in `removal` (ripmcp is gone).

## Fairness

- `Lifecycle`: a guard's own code, the wake-ups of handlers that wait for a
  process to end, each operation's deadline (`Fail`), the daemon's shutdown and
  the kernel's parent-death signal are weakly fair. Each is a task or process
  that is runnable until it has acted, or a timer. Servers, containers, users,
  callers and progress before a deadline are not fair.
- `StdioRegistry`: the worker's reaction to a failed reader or a stop, the end
  of the writer, the semaphore's hand-over, and tasks with an answer. The
  server is not, nor are deadlines: `RequestsEnd` is about ends that come without
  them. Permits are granted in any order, the code's semaphore is FIFO, so less
  is assumed than holds.
- `Endpoint`: every live process takes its next step. The bootstrap lock is
  polled every 5 ms, and each command holds it once, so weak fairness gives each
  its turn. Nobody has to start, stop, die or be interrupted.
- `Remote`: each process takes its own steps, and servers answer; a wait for a
  person, the keyring or the provider ends by its deadline. A request to a server has no
  deadline in `CommandsEnd`, so that the end comes from the limits on
  pages, cursors and rounds and not from the clock. Edits, approvals and
  new commands are not fair.
- `Cleanup` and `Removal` state safety only: everything in them is a step of a
  command that a user may or may not start again. That a retry gets
  to its end is said by invariants (`InterruptedFinishes`, `RetryCompletes`).

## Proofs

Each module has its `...Proofs`, which prove type correctness and every safety
property of the passing runs except those named below, for all values of the
constants that satisfy the named assumptions of the modules: constants are
distinct, limits are positive, installations are finitely many, the files of
`Cleanup` are in directories that are there.

- **Lifecycle.** `Inv` is `TypeOK` with the mutual exclusion of barrier, slot
  mutex and lease, the facts about who may hold a lease with a live process, and
  the phases of a recovery record. `OneOwnedProcess` alone is not inductive: a
  server can be spawned only by a guard that holds the lease, and keeps it alive
  after the guard has died; that is the lease part. `ContainerRecorded` needs
  that a record is erased only by the guard that holds the slot's lease, after
  its container was listed and removed. `NoLostGuard`, `KeepsCurrent` and
  `CallsCurrent` need that the slot's connection is a guard that was started for
  the slot, that the slot's revision is the one it was started with, and that a
  handler which still has to keep its guard has it from its own launch (`SlotInv`):
  the comparisons of a recheck are with what was written down, and the properties
  are about the process.
  `WaitsEnd` adds `WaitInv`: a guard whose end a handler awaits without a deadline
  has been told to end, and when the daemon drains nobody is left in the barrier and
  every guard in a slot has been told. With `Distance`, a guard's steps to its
  release, which no step of anybody increases, these waits are for something that is
  on its way and never turns round.
- **Credentials.** Generations are unique among item, late writes and clients;
  every record that can still become valid carries a token that is not revoked
  and not spent; the holder of the lock is the only one whose generation can be
  validated. The four behavioural theorems assume `EpochSurvives`; the run
  `credentials_reboot` shows that `LogoutFinal` needs it.
  `VaultIsCell` is the refinement of `Cell`, under the same assumption. `Inv` does
  not imply it: a write of the past that the keyring carries out late must not
  change the record that counts. It is `Settled` that says so: no pending write
  carries that record, or the one the holder of the lock is about to validate.
- **StdioRegistry.** While the registry is open, every request that was or may
  yet be sent and has no answer owns a permit (`LoadInv`); a cancellation is
  behind its request in what the server is sent (`Order`). Both stay true after
  the registry has been closed in a form that no longer mentions permits.
  `CancelKeepsConnection` is about the length of the queue of one caller after
  another. What that caller sends is strictly ordered by request and, within one,
  by request before cancellation (`Rising`, with `SoloOK`), and a server that is
  honest answers only what it has (`AskedFirst`); so whatever waits in the queue
  while the writer is stuck belongs to distinct requests that hold permits
  (`QueueUnsettled`), of which there are at most the limit, and there is room for
  one more cancellation (`RoomToCancel`). `GoneReleases` is the other end of a
  request: when the writer's task is gone none waits for anything.
- **Endpoint.** One daemon holds the lock, and at each of its steps the files
  are what that step needs (`FilesFit`); a published socket is always recorded
  and never beside a pending one. From this a serving daemon is found, and
  reconcile can fail only over a pending socket whose record was never saved.
  `StartClean` is a second invariant of behaviours in which nothing was killed
  (`Clean`): there is one daemon, and it serves or is waited for under the bootstrap
  lock. `ConnectsNearer` gives the holder of that lock a distance (`Left`): while
  no daemon serves, the steps the launched one has yet to climb, and then its own
  steps to the answer to hello. Every step of that daemon and of the command lowers
  it, except a poll that finds the daemon on its way, and nobody raises it.
- **Registration.** `Inv` says who holds which lock and, per command and step,
  what it knows of the files: until its rename an installation's name is not
  configured, its record is there, is its own and is not committed
  (`InstallOK`); a removal's record is that of the entry the user saw
  (`RemovalOK`); while a plan waits for approval no record it knows disappears,
  and a later entry belongs to an installation the plan does not know
  (`ApprovedOK`). The last one makes `RemovesApproved` inductive: the comparison
  of the journal's digest is then a comparison of writers. `CommittedConfigured`
  needs that a removal has filed its own operation, in place of the committed
  one, before it touches the entry; that is `RemovalOK`, and `TargetIsWriter`
  shows that the plan of a configured name with a registered writer is about
  that writer. `NameIsEntry` is the refinement of `Entry`: most steps neither begin
  an installation nor touch the entry (`EntryQuiet`), and for the others
  `PublishingFacts` says that whoever is about to publish is alone and finds no
  entry. That an installation which is over stays so is the journal's doing: its
  records never disappear (`SameRecords`), and a new installation takes an
  identifier without one.
- **Cleanup.** `Inv` is `TypeOK`, that no two objects are in one place, and what
  the cleaner knows at each step: the claim it works on is in the journal, and
  what it has verified is what it will unlink, since nobody else uses a hidden
  name. `DeletesOwn` and `SharedStays` follow from the last.
  `RemovedGone` takes a second invariant, `Traces`. That a removal finds nothing
  at a path says nothing of the object that was recorded, so `Known` says where
  that may be: where its path leads, under the last name of the path or under its
  own hidden name (`Nested`); or *astray*, which is moved by others or below
  something that was or is under a hidden name; or deleted. Recorded as removed it is
  astray or deleted: its own hidden name is no excuse. That name is excluded because
  the cleaner looks under it when the path is empty, because the directory it has open
  is the one the object is in, and because whatever recorded object is in
  that directory has a path beside the one in work (`Neighbours`), so that what is
  left under a hidden name there is never another recorded object. All of it is stated of the tree as it is
  `Seen`, in which what the cleaner has put aside and not yet looked at is still where
  it was; Rename and Restore then change nothing. Each change of the tree moves,
  deletes or creates one object, and `FoundKept`, `Remains` and `Appears` say what
  that does to every path. `InterruptedFinishes` takes a third, `Calm`, of
  behaviours in which only crashes are in the way: every object is in its first
  place or under its hidden name, every claim was made of the object at its path,
  the plan is all that may be deleted, longest path first, and so a directory is
  empty when its turn comes (`Childless`: what was in it overlaps whatever it
  overlaps, and is preserved only if it is). Paths have any length; where
  something is shown along one, it is for the first place where it would fail,
  which `Least` gives from the well-foundedness of strict subsets of finite sets.
- **Removal.** `Inv` has the lock (`LockOK`: who is inside has the file at
  the path locked, and a remover shares it with nobody), the data (`DataOK`:
  what is left has its provenance in the journal or the copy, and the ledger or its copy is
  known), and per step what the remover has done (`RemoverOK`). `Fenced` is the
  refinement: each step is one of `Gate` or a stutter. It needs `LockOK`, as an
  inode at the path must be the one that is locked, and that the marker is set and
  erased only by a remover inside.
- **Remote.** `KeyInv`: every reference in a file, or remembered, has been drawn;
  one that is not committed yet is in nobody else's hands; one without an item
  was removed by a logout. `ReferenceStored` is then inductive. `CallInv` says that a
  call under way is of the tool that was checked. `SentUnderPolicy` and `OnlyOwnField`
  follow from the guards of the sending and committing steps with the types.
  `CommandsShorten` is the variant of a command: `ToGo` counts the steps it can still
  take, from its place and the pages, cursors and rounds it has used, and every step
  of it lowers that number, whatever the server answers and others configure
  meanwhile. A command has at most `5 * (Pages + Rounds) + 13` steps.

Only model-checked: the six liveness properties, which need fairness and `ENABLED`.
What each rests on besides is proved where it is not plain from the actions: that
nothing waits for what is not on its way, and that what is on its way only comes
nearer.

| liveness | proved |
|---|---|
| `RequestsEnd`, `ShutdownEnds`, `OrphansEnd` of `Lifecycle` | `WaitsEnd` |
| `RequestsEnd` of `StdioRegistry` | `GoneReleases`, for requests of a connection that is gone |
| `FirstCallsConnect` of `Endpoint` | `ConnectsNearer`, for the command that has the bootstrap lock |
| `CommandsEnd` of `Remote` | `CommandsShorten` |

That a process which can act does act, that a lock reaches each of those who poll
for it, and that a finite number of steps therefore comes to its end is TLC's part.

## Findings

- `credentials_reboot`, the run that covers the loss of the epoch file, since in
  `credentials` reboots keep it: without an epoch file any record counts
  (`Vault::read`), and the file is in `/tmp`. A write that was late, was revoked
  by its epoch and carried out after a logout counts again after a reboot.
- `endpoint_orphan`: a daemon that dies between `UnixListener::bind` and `save`
  leaves a pending socket with no matching record; `reconcile` then fails for
  every later daemon, until somebody deletes the file. The deadline of the
  launching client is enough to kill it there. `RecoversOthers` is the proof
  that this is the only such state. Keeping a socket without a record is deliberate
  where it may be somebody else's (`04-supervisor-lifecycle.md:80`,
  `tests/supervisor.rs:191`); the pending name is the program's own, in its private
  directory and under its lock, but is treated alike, against the recovery that line
  27 of the same document asks for.
- `endpoint_restart`: after a crash, the client that has launched the new daemon
  polls while that one removes the old socket and record, and can fail on what
  it sees half removed. It then kills the new daemon, and the command fails
  although nothing else went wrong.

More behaviours are worth knowing, though no document excludes them in so many
words.

- If the daemon dies between the registered intent and the rename of
  `config.json`, or the save of the rollback fails there, `ownership.json` keeps
  a registered record without an entry. The same `install` then succeeds again,
  since it looks at `config.json` only, and now two registered records have the
  name. `launch.rs:179` takes that for unprepared, `resolve` (`plan.rs:298`) for
  ambiguous, and `install` says that the server exists: no command can start,
  remove or replace it. In `Registration` the states in which `config.package #
  None /\ Ambiguous` are those. `contracts.md` says that "snapshots and
  intent/progress records resolve interrupted publication"; the retry does not
  look at them.
- `remove.rs:59`: a directory that turns out not to be empty is renamed back. If
  the daemon dies before that, it stays under its hidden name with what is in
  it; a retry takes it for one that was verified and fails, each time, because
  it is not empty. That is the one case in which `RemovedGone` lets a recorded object
  lie under a hidden name: not its own, but that of a directory it is in.
- `maintenance.rs:50`: while `self-removal.json` exists every command but the
  removal is refused. If the removal dies after it has deleted the executable
  and before it erases the marker, only another copy of the executable can finish it.
- The identity of one of ripmcp's own files is recorded after the file was
  replaced. A command that dies in between leaves a stale entry. For
  `credentials.json` and the lock of `ownership.json`, which no removal writes,
  each removal then fails on that file, and its marker keeps away the
  commands that would write it. `RetryCompletes` excepts a crash at these two places.
- `auth/command.rs:99`: `logout` of a disabled server fails, since its check
  of the definition requires it enabled. Its secret stays until it is enabled
  or uninstalled.

## What is abstracted

- **Lifecycle.** The digest of a configuration entry stands for all of its
  content, the installation id included. Resolving secrets is an await and no
  more. The limit of 16 rounds of input is not counted, the limit of 256 slots
  is left out. Mutexes are granted in any order. Descendants of a server keep
  the inherited lease. `Install` is in `Registration`, `self_uninstall` in `Removal`. A
  `docker create` that happened without the client's knowledge is covered
  by `Engine`, which goes on after its client has died.
- **Credentials.** One endpoint; scopes, metadata validation, configuration
  rechecks around the browser and the read-only status are left out. The four
  steps of a write keep their order, the revocation and the reads before it are
  one step (the module says why). The repository promises nothing about an
  endpoint with two items; they are reached and every later operation fails.
- **StdioRegistry.** Framing, message content and the stderr log are left out,
  as is `settle`, which nothing calls. A message is a request or a cancellation
  of an id. A caller that waits for room in the queue when the writer has gone
  sees that in `SubmitFailed`.
- **Endpoint.** One runtime directory and one storage context; a record of
  another build or context is rejected like a missing one and is left out.
  Ownership and modes of the files are those the program gives them. The 32
  permits of `accept` and the maintenance lock are left out.
- **Registration.** One name in the user scope; the trust of a project is in
  `Lifecycle`. People edit the rest of the file and leave the entry alone: what
  a hand-written entry leads to is refused by `launch.rs` for want of a record.
  The comparison before a rename and the rename are one step, so an editor that
  hits that instant is outside the model. Contents of a record besides its
  registration, definition, digest, resolution and operation are left out, with
  them the resources that a clean removal deletes; that the deletion may fail is
  in `FinishUninstall`. Queue and maintenance lock are elsewhere.
- **Cleanup.** An object is what its time of birth tells apart; owner, mode and
  link count are part of that identity. One cleaner: an uninstallation holds the
  barrier exclusively (`uninstall.rs:25`). Caches, logs and the containers of an engine are
  left out, the latter are in `Lifecycle`.
- **Removal.** What the installer has recorded besides the executable is
  `Links`. The lock files of the other stores and a keyring that writes late are
  left out. Preview, prompt and the process that hosts the removal have no
  state.
- **Remote.** One server name and one project; the digest is the
  content of one definition. Header secrets and OAuth clients stand behind the
  bearer reference, as they are configured in the same way. A content that
  changes and changes back is taken for unchanged, as its digest is.
  The limits on tools and bytes, the check for https and errors of parsing are `Fail`. Keyring items
  of a configuration that failed to commit stay, as in the code, and are nobody's.
  The search of a tool over all servers (`tools/mod.rs`) is left out.

## Not modelled, and what is left

`PROJECT.json` lists each component with its status.

- **OAuth discovery, browser callback and registration** fetch and validate documents of
  other parties; what they return is used by `Credentials` and `Remote`, and they
  keep nothing.
- **Command line, output and JSON** parse and print.
- **Runtime preparation** runs package managers, whose outcome is a step of
  `Registration`.
- Of the HTTP transport, the event parser and the parameter headers are pure functions
  of bytes; of the stdio transport, the framing.
- Of the manager, the limit of 256 slots; of the sessions, the 32 permits.

What would add most, in order: the search of a tool over all servers, whose result
can be stale in one server and not in another; an abstract specification, as `Gate`,
`Cell` and `Entry` are, of a slot for `Lifecycle`; and a variant for the deletions of
`Cleanup`.
