# Formal model of Relay

Relay runs the commands of a Cog bot. It connects to Cog over an MQTT bus,
keeps a catalog of the bundles Cog has assigned to it, tells Cog which of them
are available, executes the commands Cog sends in native processes or Docker
containers, and keeps the bundles' dynamic configuration on disk up to date.

This directory holds TLA+ modules for the parts of Relay in which several
goroutines, connections or processes meet, the TLC models that check them on
small instances, and TLAPS proofs of the properties that matter most.
`PROJECT.json` lists, for every definition, the source lines it models, and for
every checked property a mutation of the model (an operator `X_somethingWrong`
next to `X`) under which the property fails.

## The parts and how they interact

    bus client (paho, one alllogic and one router goroutine per connection)
      |  commands          |  directives            |  receipts     |  events
      v                    v                        v               v
    handleCommand      updateCatalog           cogReceipt     handleBusEvents
      | queue              | catalog, images        |               |
      v                    v                        v               |
    workers            Catalog  <-------------  announcer  <--------+
      | get / put          ^                        |
      v                    | IsAvailable            v publish
    environment cache  Docker engine  <->  daemon, registry
      ^
      | getOld (clean-up timer)

    dynamic config updater (own connection)  ->  disk  ->  workers

| Module | Models | State and actions |
|---|---|---|
| `Catalog` | `relay/bundle/catalog.go` | `bundles`, `epoch`, `lastAcked`; one action per method (`Replace` with `diff` and `findByName`, `Remove`, `SetAvailable`, `EpochAcked`, `Reconnected`) |
| `Announcing` | what `relay/announcer.go` promises | the catalog, Cog's view, what Cog was told in this epoch, the receipts on their way, the epoch a call of `SendAnnouncement` is owed |
| `Announcer` | `relay/announcer.go` at the grain of `stateLock` | the loop, the functions of announce timers (retriers), receipts, the `control` channel; shown to implement `Announcing` |
| `Relay` | `relay/relay.go` around catalog and announcer | `handleBusEvents` and `updateCatalog` of each connection, the refresh timer, losses and reconnections; extends `Announcing` |
| `Dispatch` | `handleCommand`, `relay/worker/execution.go`, `relay/bus/mqtt.go`, `relay/bus/backoff.go` | a command's way from the wire through `alllogic`, a router, the queue and a worker to its response; the directives and receipts that share the way; the announcer as a publisher with its `control` channel; loss of the connection, back-off, reconnection |
| `CommandEnv` | `relay/messages/env_builder.go` | no state: `compileEnvironment` as a set of variables, names as sequences of words |
| `OutputParser` | `relay/worker/output_parser_v1.go` | no state: `Parse` as a fold over the kinds of the output's lines |
| `EnvLease` | what an engine promises a worker | who has which environment |
| `EnvCache` | `relay/engines/env_cache.go` and its users in `docker.go`, `native.go`, `execution.go` | the table, the workers' `NewEnvironment` .. `ReleaseEnvironment`, the clean-up; shown to implement `EnvLease` |
| `DockerImages` | `IsAvailable` of `relay/engines/docker.go` and `refreshBundles` | a refresh, step by step, against the daemon's tags and images and the registry |
| `DynConfig` | `relay/dynamic_config.go`, `relay/config/dynamic_config.go`, the dynamic-config mark of `relay/worker/execution.go` | start-up, the refresh timer, every file operation of an update, a worker that finds, reads and merges the layers, restarts |
| `Settings` | `relay/config/config.go`, `raw.go`, `loader.go`, `main.go` | no state: `populate` for one field, `parseEngines`, `Verify`, which file is taken, what stops the start |

`MCx` modules give small instances of module `x`; `xProofs` modules hold proofs, `AlgorithmProofs` those about
the modules without state. These are checked with `Dispatch`: `MCDispatch` extends `CommandEnv`, `OutputParser` and
`Settings`. Their properties quantify over all small inputs and are stated of the initial states.

Code outside the repository's own packages appears as its users meet it and is
marked external: the MQTT client's goroutines, broker, Cog, Docker daemon,
registry. Four facts about the vendored MQTT client shape the models: `alllogic`
hands each message to the router over an unbuffered channel and completes
publishes itself; a publish whose connection is lost never completes; a
subscribe request does not either; `OnConnect` runs in a goroutine of its own.

## What the runs check

| Run | Result | States | What it shows |
|---|---|---|---|
| `Catalog` | pass | 351 | Every list of up to three entries, with names that occur twice. `ReplaceIsSnapshot`: the catalog afterwards is the list, and `Dirty` says exactly whether the content changed. `EpochTracksContent`, `AvailabilityOfVersion`. `CatalogOK`: whatever epoch a receipt names, none is acknowledged before it begins. |
| `Announcer` | pass | 970 k | A retrier beside the loop, a timer the loop has replaced, a Cog that may miss announcements, lost receipts, a hanging publish, `Halt`. `RetryArmed`: while a receipt is awaited, a timer is armed, or a retrier is at work (one whose publish hangs counts as such), or the loop is about to arm the timer. `ImplementsPromise`: every step is a step of `Announcing`. `SettledView`: at rest, with the catalog acknowledged, Cog's view is the present epoch, unless Cog missed the last announcement; no late retry has replaced it by an older one. |
| `AnnouncerLive` | pass | 91 k | `NotLost`: every call of `SendAnnouncement` is served, one that came while a receipt was awaited included. `Acked`: what Cog has processed is acknowledged or superseded. |
| `AnnouncerReceipt` | violation | | `ReceiptNeverPanics`, see below. |
| `Relay` | pass | 215 k | `AckSound`: a catalog that counts as announced was announced in this epoch, with nothing it no longer has. `AckedOnline`: once the handler of a new connection is done, a catalog counts as announced only if Cog was told on this connection; no late receipt and no handler of the old connection makes Relay think it is known while Cog takes it to be offline. `NoNewChain`: only a connection that finds the catalog empty starts a refresh cycle (two such connections start two). `Converges`, `Reannounced`. |
| `RelayRefresh` | violation | | `KeepsRefreshing`, see below. |
| `EnvCache` | pass | 23 k | `ExclusiveLease`, `NoUseAfterShutdown`, `Isolation`, `Accounted` (no environment is forgotten before `Shutdown` is called, but on one error path, and the in-use marks are justified), `ImplementsLease`, `IdleReclaimed`. |
| `Dispatch` | pass | 202 k | `OnePlace`: a command is in one place at a time, so none is lost, but with the connection, or run twice. `StallCause`: what a standstill takes. `Served`: without a standstill every command is answered, dropped by a worker or lost with the connection. `ListensAgain`: after a loss Relay subscribes again. `CommandsInformed`: a command can tell its arguments and options from its environment. `ResponsesMeant`: the response says what the output does. `StartsAsConfigured`: environment before file before default, but for the zero values of a file; a Relay that starts has an engine, none twice, and a place for its configuration. |
| `DispatchStall` | violation | | `Answered`, see below. |
| `DynConfig` | pass | 542 k | `RootServes`: the root never dangles and has exactly its files, through errors and restarts. `UndisturbedRead`: a read is the layered content of one configuration, without illegal keys. `MarkedRightly`: an environment is marked as one without dynamic configuration only if there is none. `Converges`. |
| `DockerImages` | pass | 685 k | `AvailableHasImage`: a bundle that counts as available has its image, whatever failed, unless another actor meddled with its reference (`disturbed`: a second refresh of it at the same time, a worker's pull in developer mode, or the removal of an image that it shared). `NoneLeftBehind`: without errors, an image left without a tag was one of such a reference. `LatestFollows`: an available image tagged latest is the registry's, unless it is being pulled, a newer one was pushed or a refresh failed since (`behind`), or another actor meddled. |
| `Settings` | violation | | `AssignedKept`, see below. |

### Bounds

- `Catalog`: two names, two versions, lists of up to 3, epochs up to 4: a name
  twice with two versions next to another name; acknowledgements of epochs before,
  at and after the present one.
- `Announcer`: one bundle in one version, one retrier, `MaxEpoch` 1, all faults: an announcement of
  epoch 0, its receipt and its retries meet the change to epoch 1. `MaxStale` 1: one armed timer that
  `announceTimer` no longer points to. `MayHang` allows hanging publishes, `CogLossy` missed announcements.
  Two retriers and two epochs with all faults do not fit into one instance; the proofs have no such bounds.
- `Relay`: one lost connection, so two handlers and two routers; Cog replaces a
  Docker bundle by a native one, and either engine may be disabled. The number of epochs is not
  bounded. A router that comes back from a pull to a bundle that was replaced takes two refresh cycles, hence two
  losses, and is left to the proofs.
- `EnvCache`: two workers, two Docker keys and a native one, two environments, one for each
  worker: both can hold one, and a key can find that of another cached.
- `Dispatch`: one worker, hence a queue of one; three commands, one malformed, two
  directives and one announcement, one loss. Two packets are under way at a time. `DispatchStall` has four
  commands, the fewest that fill worker, queue, router and `alllogic`.
- `CommandEnv`: four option names, among them two that differ in case and one that ends in
  `_count`; up to two arguments and items. `OutputParser`: outputs of up to four lines of nine kinds.
- `DynConfig`: two configurations, one of them without the second file, with a key
  both layers set, one of one layer and an illegal one; one change, error, restart and lost reply each.
- `Settings`: every kind of field with and without a default; lists of up to three engines
  and locations.
- `DockerImages`: two refreshes at a time, a pinned and a latest reference that can have the same image, one push
  and one error, developer mode on or off.

Only `DockerImages` uses symmetry, of the two refreshes: it checks invariants only.

### Fairness

Goroutines that can run do run (weak fairness of their steps); armed timers
fire; the broker acknowledges publishes, and in `Announcer` and `Relay` the acknowledgement gets through while the
connection lasts: the standstill of the bus client that `Dispatch` describes is not part of them. Two assumptions are stronger. In
`Announcer`, whoever waits for `stateLock` gets it in the end although others take it
in between (strong fairness): Go's mutexes hand over to a goroutine that has waited
long. In `Relay`, the announcer serves a call it owes, which is
`NotLost` of `Announcer`. Nothing is assumed of Cog's receipts in `Relay`, of the next refresh in `DockerImages`
(`updateCatalog` looks at images only while the catalog is not acknowledged), or
of the return of a lost reply anywhere. `Clean` of `EnvCache` is fair because
the clean-up timer is armed again after each round; a round in which the daemon is out of reach does nothing, and
is taken not to happen for ever. In `Dispatch` Cog and the broker answer, and one of the
connection attempts, which `disconnected` repeats without end, succeeds; nothing is assumed of the loss of a
connection, of failed attempts, or of further commands and directives.

`CHECK_DEADLOCK FALSE` is set where the system may really stop: after `Halt`
or a panic (`Announcer`, `Relay`, `DynConfig`), at a bound, and in the standstill
of `Dispatch`. `Catalog`, `EnvCache` and `DockerImages` are checked for deadlock.

## What is proved

TLAPS proves, for every value of the constants (every number of workers, names, versions,
connections, layers, and every value of the bounds):

- `EnvCacheProofs`: `Types`, `Exclusion`, `NoUse`, `Reuse`, `NothingLost` and
  `Refinement` (`Spec => ImplementsLease`). None of the properties is inductive:
  that two workers never share an environment rests on the in-use flag of every
  cached one being right. The inductive invariant `IInv` says where an environment can be:
  what a worker has in hand is alive, its own, of its key and not being cleaned
  up (`HeldInv`); a cached environment is alive, cached under the key it was made
  for (so not twice), nobody's while its entry is not in use, somebody's or abandoned
  while it is (`EntryInv`); every live environment is somewhere (`EnvInv`). One lemma
  per action. Assumed is only that the values for nil are none of the
  others (`NilAssumption`).
- `CatalogProofs`: `CatalogSoundness`, `ReplaceTakesSnapshot`, `EpochsTrackContent` and `FlagsBelongToVersions`, for every
  finite list Cog may send and every receipt. They rest on `CleanDiff`: an update that opens no new epoch
  changes nothing; that the first and last position of a name exist uses the well-foundedness of `<`.
- `RelayProofs`, first part, of the announcer's promise: `AckSoundness`, `AckedBehind`, and `PromiseIsOfCatalog`
  (`PromiseSpec => CatalogSpec`), by which what holds of the catalog alone holds of the one that is announced.
  `AckSound` needs, besides, that no receipt on its way is from the future, that one for the present
  epoch means Cog was told of it, and that all Cog was told in this epoch is still in the
  catalog (`AckInv`).
- `AnnouncerProofs`: `Types`, `RetriesArmed`, `Settled` and `KeepsPromise` (`Spec => ImplementsPromise`), so
  that the promise's theorems hold of the announcer. The refinement rests on `Inv`: whoever is
  past `Lock` is the one that has it (`LockInv`), and an announcement in somebody's hands is of an epoch
  that has begun and, if of the present one, lists nothing the catalog does not have (`AnnInv`). `RetryArmed`
  needs that the loop stops only once halted (`StopHalts`). For `Settled`, `ViewInv` says that Cog's view, unless it missed the last announcement, is what the holder of the lock has just published, or what the
  announcer waits for, or what was acknowledged last.
- `RelayProofs`, second part: `RelayTypeOK`, `RelayAckSound`, `RelayAckedOnline`, `RelayNoNewChain`. Every step of the
  composed system is one of the promise or leaves it alone (`RelayUsesPromise`), and so the promise's
  theorems hold of it. `RelayAckedOnline` rests on `OnlineInv`: what Cog was told in the present epoch, acknowledged or
  not, it was told on this connection, as `Reconnected` has opened another one. `RelayInv` adds to the types that only a connection that may be lost is followed by another.
- `DispatchProofs`: `Types`, `CommandsInOnePlace` and `StandstillCause`. `OnePlace` counts places, not occurrences: it is
  inductive only with the fact that no command is twice in a channel, in two routers or at two workers
  (`Distinct`), and that an acknowledgement under way is that of a publisher that waits (`PubackInv`).
  The lemma `Moved` says what a step that takes one command from one place to another does to `OnePlace`; each
  action is shown to be such a step, or to move nothing. `StallCause` bounds a number: in a standstill behind a
  command the queue is full and every worker has a command, none of which is finished; since each of these
  commands is in one place only they can be counted (`CommandsStall`). `StallInv` adds to `OnePlace` that nothing is under
  way without a connection (`LinkInv`) and which command a worker that waits has answered (`JobInv`). `Stalled`
  is stated by the conditions under which the parts go on, without `ENABLED`.
- `DynConfigProofs`: `ConfigTypes`, `RootAlwaysServes`, `UndisturbedReads`, `RightlyMarked`. `DiskInv` adds to `RootServes`
  that no directory, one left behind by an earlier process included, has a file its
  configuration does not have, and what `updateConfigs` has got done at each of its
  steps; so the process may die at any of them. For the reads, `ReadInv` says of a process that has not been
  restarted that the files in use are whole and never written (`FirstLife`), and of a reader that the
  keys read so far have the value of the topmost layer read that sets them (`ReaderProgress`).
- `DockerImagesProofs`: `RefreshTypes`, `AvailableImages`, `NoImageLeft` and `LatestImages`, for any number of
  refreshes at a time, shared images, pushes and errors. `ImageInv` says, besides, that of two refreshes of one
  reference one is recorded as meddling (`AloneInv`), that the image `removeOldImage` compares with is then the one
  the reference has now (`AfterInv`), and that as long as nothing has failed nothing but the image about to be removed
  has lost its tag (`StoreInv`). A refresh that is alone with its reference is shown not to notice the others (`MovesAlone`).

- `AlgorithmProofs`: what the pure functions compute, for inputs of any length.
  - `CommandsAreInformed`. The environment is a set of pairs; for each variable a command reads, the proof
    finds the one place in `compileEnvironment` that can have put it there (`SourceOfVariable`), from the
    words of its name: the prefix `COG_OPT` changes no name into another, and names that are not
    `Confusable` differ whatever word ends them. Assumed of the constants is that `Digits` is injective and
    never "COUNT" (`EnvAssumption`).
  - `SettingsAsConfigured`. `parseEngines` keeps the engines of the list, each once (`EnginesParsed`); of the
    files the first that can be read is taken (`FirstFile`).
  - `ResponsesMeanOutput`. `Parse` reads line by line, `OutputMeaning` speaks of positions: the lines before
    the JSON mark, the payload, the last template. `Knows` relates what has been read after `i` lines
    to the positions up to `i`; `KnowsMore` is its step. The order of the body's lines is stated by rank:
    a line stands where as many lines of the payload come before it (`RankedStep`).

  The library's induction rules take an operator as a parameter, which the provers cannot instantiate. The loops are
  therefore written as recursive functions over the positions, and their
  induction goes over sets: a set of numbers that has 0 and, with `i`, `i + 1`, has all up to `n`
  (`Rounds`, from `Least`), and a recursive function of that form exists (`Loop`).

Every safety invariant, action property and refinement that a run checks is stated by a theorem. Only model-checked are the liveness properties,
out of the prover's reach (`NotLost`, `Acked`, `Converges`, `Reannounced`, `Served`, `ListensAgain`,
`IdleReclaimed`), and the counterexamples of the four runs below.

## Where the code departs from what it says

Four runs end in a counterexample:

- `AnnouncerReceipt`: `cogReceipt` stops `announceTimer`, which `loop` assigns only
  after `sendAnnouncement` has released the lock. The receipt of the first
  announcement may come in between, and the nil timer panics.
- `RelayRefresh`: a bundle list that is lost with the connection ends the refresh
  cycle: the timer is armed by a reply or by a failed request, and a reconnection
  with a non-empty catalog requests nothing.
- `DispatchStall`: `handleCommand` blocks the router while the queue is full; `alllogic`
  then blocks on the next message and completes no publish, so the workers never
  return. It takes 2 * MaxConcurrent + 2 commands.
- `Settings`: a configuration file cannot set a field that has a default to 0, false or "": `setDefaultValues`, which
  is to "set default values on unassigned fields", cannot tell such a value from none, and the default
  replaces it. `managed_dynamic_config: false`, which the example file offers, has no effect in a file, but has in the
  environment. (`Overruled` in `Precedence` excludes exactly this case from `StartsAsConfigured`.)

Others are built into the models and excused in the properties, each by a
condition that names it:

- `cogReceipt` waits in the router for the lock that `sendAnnouncement` keeps until
  its publish is acknowledged; one more message behind it makes a standstill. So do directives
  that fill the announcer's `control` channel meanwhile: `updateCatalog` blocks in `SendAnnouncement`
  (second disjunct of `StallCause`). `Relay` takes `SendAnnouncement` as a call that does not block, and
  excuses `stuck`.
- If that publish is left hanging by a lost connection and the channel is full, the handler of the next connected event
  blocks before it subscribes (second disjunct of `ListensAgain`).
- A worker whose response is being published when the connection is lost waits for good; a Relay that has lost
  all its workers this way answers nothing (`Exhausted` in `Served`). A response that cannot be published
  because there is no connection is dropped (`unanswered`), and commands sent while Relay is not subscribed
  are lost (`lost`).
- A publish that the lost connection leaves hanging keeps `stateLock`, and Relay
  never announces again (`stuck` in `Converges` and `Reannounced`).
- When `ToCircuitRequest` fails, the environment is not released (`abandoned` in
  `Accounted`). The engines do not try again when `Shutdown` itself fails.
- A bundle without a Docker stanza, assigned to a Relay without the native engine, makes `refreshBundles` call a nil
  engine (`fatal` in `Relay`).
- A worker's JSON decoder keeps its first syntax error, and the worker
  drops every later command (`ignored` in `Served`).
- A worker that reads while the root is moved may layer files of two
  configurations; after a restart the files in use are rewritten in place
  (`moved` and `restarts` in `UndisturbedRead`). If such a read finds nothing, or an update has not come yet,
  the environment is marked, and the later commands of its pipeline are not given the configuration
  either (`MarkedRightly`).
- Options whose names differ in case only, or of which one is the name of a count or an item of the
  other (`foo_count` and a list `foo`), share a variable (`Confusable` in `CommandsInformed`).
- A lost reply, or a link "new" left between `Symlink` and `Rename`, ends the updates of
  the dynamic configuration (`lost` and `new` in its `Converges`).
- The events handler may be called before `Connect` has stored it, and the
  updater's timer may be nil when a reply comes in, so that the deferred `Reset` panics (`crashed`).
- A failed pull is not tried again once the catalog without the bundle is
  acknowledged. (`Relay` leaves the outcome of a pull open.)
- The forced removal of a replaced image takes all its tags along: a bundle whose pinned tag names
  the image that "latest" named before loses it. Two refreshes at a time (an old connection's router
  and the new one's), or a worker's pull in developer mode, can leave an image behind or, when the
  registry goes back to an earlier image, remove the one in use (`disturbed` in the properties of `DockerImages`,
  which records the reference at the step that does it).
- `pullImage` does not report a transfer that fails, and an old image counts as the latest (`behind` in
  `LatestFollows`).

## What is not modelled

- `relay/bundle/version_list.go`: used by no other part.
- The JSON form of messages, compression, and the variables of a command that copy one field
  of the request, of the bundle or of Relay's own configuration: no choice is made there. Requests are taken to
  have the form `ExecutionRequest.Parse` expects, without options that are null: the reflection on such a value in
  `compileEnvironment` panics.
- The validation of single settings by the tags of their fields: a library call by reflection that can
  only refuse a configuration.
- `Stop`, signals and profiling: the process ends, and `Halt` of the announcer, the part with a state, is in
  `Announcer`. Logging and TLS: no state that a property here depends on.
- The circuit driver's container, and the second half of `Clean`, which removes
  containers that have exited: the models have environments, not containers.

## Running

    tlc -config Relay.cfg MCRelay
    tlapm EnvCacheProofs.tla

Every run takes about a minute or less. `AnnouncerProofs`, `DispatchProofs` and `AlgorithmProofs` take several minutes, the
other proofs one to three; leaves that are slow name their prover or a longer time limit.
