# A TLA+ model of Hostpack

Hostpack (`hostpackd`) runs one of several Minecraft modpacks on one Fly Machine. A login to
the hostname of a pack starts it, an empty pack is stopped and backed up, and the Machine goes
off until the next connection. This directory models the parts of the daemon in which
goroutines, processes, the Machine, the network and the files on the volume meet, checks them
with TLC and proves what holds for every instance with TLAPS.

## The system

| Component | State | Operations | Modelled in |
|---|---|---|---|
| lifecycle manager (`internal/runtime/manager.go`) | `m.state`, `m.process`, `expectedStop`, `loginSeen`, `lastActivity`, `done` | `NewManager`, `Ensure`, `start`, `waitProcess`, `switchTo`, `stopAndBackup`, `tick`, `Shutdown`, `Touch` | `Manager` |
| state file (`internal/runtime/state.go`) | `runtime/active.json` | `Load`, `Save` (temporary file, sync, rename, sync of the directory) | `AtomicFile`; by its outcome in `Manager` (`disk`, `Save`) |
| launcher (`internal/runtime/launcher.go`) | one process group per start | `Start`, `Wait`, `Kill` | `Manager` (`att[a].java`) |
| archive store (`internal/store/store.go`) | archive and manifest per generation | `Head`, `Commit`, `Restore` | `ArchiveStore`; coarser in `Manager` |
| backends (`filesystem.go`, `s3.go`, `rclone.go`) | objects | `List`, `Open`, `Put` | `ArchiveStore`; `Filesystem.Put` in `AtomicFile` |
| Fly client (`internal/flymachine`) | the Machine's config and the running VM | `FromEnv`, `Ensure` | `Manager` (`cfgSize`, `vmSize`, `updated`) |
| router (`internal/router`) | slots, address buckets, connections with their deadlines | `Serve`, `handle`, `allow` | `Router`; its logins in `Manager` |
| Minecraft protocol (`internal/mcproto`) | – | VarInt, handshake, status, ping | `Protocol`, `Router` |
| configuration (`internal/config/config.go`) | `packs.yaml` | `Load`, `PackForHost`, `IdentityDigest` | `Protocol` (host lookup), `PackRegistry` |
| pack lock (`internal/config/lock.go`) | `packs.lock.json`, `pack.lock.json` of an instance | `Generate`, `Validate`, `CheckImmutable`, `Matches` | `PackRegistry` |
| daemon (`cmd/hostpackd`) | – | `serve`, `backup`, `lock`, `config validate`, `doctor`, `guest` | `Manager` (`main`), `ArchiveStore` (clients), `PackRegistry` |
| dashboard log (`internal/webui/logbuffer.go`) | recent lines, a file and its predecessor | `Write`, rotation, reload, `Recent` | `LogBuffer` |
| RCON | – | commands | `Manager` by their answers |
| dashboard, guest page, infrastructure | – | – | `Touch` in `Manager`; otherwise not (see below) |

How they interact. The router calls `Ensure` from one goroutine per connection. `Ensure` starts
`start` or `switchTo` as goroutines; `start` resizes the Machine, restores the world, launches
Java, publishes it as `m.process` and polls its status. `waitProcess` is told when it exits.
`tick` polls the players and starts the idle drain. `serve` ends the router when the manager is
done or a signal arrives and calls `Shutdown`, which drains once more. All of them share
`m.state` under one mutex that is released around every slow call, so what a goroutine read
before a call may be stale after it. The state is saved in every critical section, and a new
process resumes from the file.

A connection goes through the router: it takes a slot, is counted by the limiter, sends a
handshake within a deadline, and is answered, refused or, when `Ensure` returns, joined with the
backend by two copying goroutines. Which pack its host name means, and which version of the
pack belongs to the world on the volume, is decided by the registry: `packs.yaml`, its lock, the
check of pull requests, and the identity file that every start compares.

What is hard: the overlap of the three drains and of several starts; a crash between any two
saves or in the middle of an eviction; answers that are lost after they took effect (Fly, RCON,
uploads); timeouts that race the thing they wait for; phases that nobody leaves; deadlines that
outlive their purpose and slots that an early return keeps; files that are replaced while
the power fails; a lock that is written from a configuration that has changed since. `PROJECT.json`
lists these hazards at their lines.

What makes the components correct:

- manager: one server at a time; it runs the newest world, in a VM of its size; a pack owns the
  machine until its world is saved; starts and drains end; an unused machine goes off;
- store: complete generations are an append-only log; what the daemon goes by can be restored;
  Restore puts whole worlds in place, and the newest;
- router: slots and rates are kept whatever handlers do; a session gets every byte that the
  client sent and no deadline of the handshake; every connection ends unless a peer keeps its
  session;
- protocol: what is written is read back, at every width and cut; what a client said in its
  handshake is what the backend is told;
- registry: a world is only ever played with the pack version that created it, and does not
  outlive its id;
- files: a path names a whole file, and a state that was saved stays saved;
- log: two files within their limit hold the recent lines, and show them in order.

## Modules

`Lifecycle` – abstract: which pack owns the machine and which worlds are saved. The machine is
handed on only when the owner's world is saved.

`Manager` – the manager and everything it drives. One action is one critical section of `m.mu`
or one call outside it. Correspondence:

- `state` is `m.state`, `disk` the file. `Save(s)` assigns both, or, with the fault `saveErr`,
  only the memory, as the code ignores the error. `EmptySince` is an age.
- `att[a]` is a call of `start` together with the process it launched: `pc` is where the
  goroutine is, `java` what the process does. `process` is the attempt whose process is
  `m.process`.
- `drain[d]` is the goroutine that runs `stopAndBackup` for the idle stop of `tick`, for
  `switchTo` or for `Shutdown`, with the values it read (`id`, `proc`, `gen`).
- `tick` is the monitor goroutine between reading the state, the query and applying the answer.
- `local[p]` and `head[p]` say which copy of a world has all the play so far: the directory on
  the volume may be absent, partly removed, behind, or current; the newest generation may be
  missing, behind, current, or torn (taken from a changing directory). `hgen[p]` is its number.
- `cfgSize`, `vmSize`, `updated` are the Machine's config, the running VM and a reboot that Fly
  still owes. The GET and the POST of the sizer are one step: nobody else changes the config.
- with `openErr`, `Head` passes over the newest generation, in `start`, in `Restore` and in `Commit`'s own
  comparison: it answers an older one, if there is any, or that there is no backup.
- `Faults` and `MaxFaults` say which kinds of mishaps may happen and how many.

`ArchiveStore` – the store for one pack, one object access per action, with several clients. `setup`
is fixed in a behaviour: whether `Put` replaces an object at once (filesystem, S3) or streams into it
(rclone), which clients are goroutines of the daemon and so commit, and what may fail. Two of them
commit at once when `Shutdown` drains beside an idle or switch drain. A goroutine writes
the generation to `m.state` in a step of its own after `Commit` or `Head` returned. `Stat` and `Rename` at the end of
`Restore` are two steps. While a commit runs, `Still` keeps the directory as it is, which `NoTornBackup` of
`Manager` is about; the exception is listed below. `GenerationLog` – abstract: the log of
world contents that it implements.

`Protocol` – pure operators: the codec on sequences of bytes and `PackForHost`. The widths are
constants, so that a byte can have a payload of four values instead of 128 and TLC can go
through every sequence up to a length.

`Router` – extends `Protocol`. `conn[c]` is a connection, the goroutine that handles it (`pc`)
and the two that copy (`up`, `down`, `errc` for what is in the channel). `stream` is what the
client sends in the end, `here` how much has arrived, `read` how much the buffered reader was
asked for, `got` what the backend got. `left` is the deadline of the connection as `SetDeadline`
leaves it. `grants` is history: how many connections were let in how long ago. Bytes from the
backend are not told apart. `Ensure` answers at any time up to `StartupWait`. `Accept` takes a slot, or
sheds the connection. A copy writes when its peer takes the bytes, which it need not do.

`PackRegistry` – `work` and `main` are the directory `config/` of a working copy and of the main
branch, `locker` what the lock command has read, `daemon` what `serve` has loaded. A pack is its
immutable fields, and a digest is what it was computed from. `file`, `world` and `backup` say for
each id which fields stand in the identity file and which pack created the world here and in the
store. The answers of the providers are success or refusal. A pull request is merged as the job
of `.github/workflows/ci.yml` checked it: the branch is up to date with main. A push to main and the loss of the volume are
mishaps that the checks cannot prevent.

`AtomicFile` – the steps of `StateFile.Save` (`kind = "state"`) and of the three functions like it
(`"plain"`). `order` is the sequence of renames onto the path. After a loss of power the path is
as after one of the renames since the last sync of the directory, and a file that was not synced
has any part of its content.

`LogBuffer` – the buffer and its two files, as sequences of numbered pieces of lines. It is run
as it stands.

`ManagerProofs`, `ArchiveStoreProofs`, `RouterProofs`, `ProtocolProofs`, `PackRegistryProofs`,
`AtomicFileProofs`, `LogBufferProofs` – the proofs, one module per component. `Counting` – lemmas
about sums, least elements, induction over numbers and the folds of the community modules that several
of them use.
`MCManager`, `MCArchiveStore`, `MCRouter`, `MCPackRegistry` –
constants and symmetry for TLC.

### Assumptions about timing

Go gives no order between goroutines, but some orders take minutes of delay on one side. Two
guards state the ones the model excludes. `Prompt`: before a server has stopped (seconds), a
goroutine that was just started takes the lock, and an answered status query is applied.
`Slow`: before a server has loaded or the age of `EmptySince` crosses a threshold (minutes),
also a status query of three seconds has ended and `serve` has got from the router to
`Shutdown` (five seconds at most). Everything else interleaves freely. `lateLogin`, a handler
that calls `Ensure` while `Shutdown` already drains, is possible in the code (`Serve` does not
await handlers) but needs a client that delays its handshake; it is a fault kind of its own that
only `all_faults` enables.

### Fairness

`FairSpec` assumes that runnable goroutines run (weak fairness of each start, each drain, the
monitor and `serve`), that an admitted handler dials, that Fly carries out a reboot it accepted,
and that time passes and processes load and exit when nothing prevents it for ever (strong
fairness of `Elapse` and `Java`, which `Prompt` and `Slow` disable now and then). Logins,
players leaving, dashboard polls and wake-ups are not fair: nothing makes them happen. No fault is
fair: fairness is of the steps without one (`Sound`), so that `serve` must leave the router when the
manager is done, but no signal has to come.

`FairSpec` of `Router` assumes weak fairness of every handler, of a copying goroutine that finds its
connection closed, and of what it sends to `errc`, and
strong fairness of `Tick`: time passes, although a goroutine that can run does so first.
Clients and the backend are not fair: they may stay silent for ever, and deadlines are what ends
them before a session begins; they may also stay and take nothing, so that a `Write` to them blocks.
There is no idle timeout in a session, which lasts for as long as its client is there, or a backend
that does not take what the client sent last; `ConnectionsSettle` therefore allows these two.

## Runs

All runs of `Manager` have two packs of different sizes (a switch resizes) and a Machine that
has the size of one of them. Two attempts are the fewest that overlap; with one, a second start
waits until the first attempt is forgotten. `EmptyBeforeSwitch` 1 and `IdleBeforeStop` 2 make an
age that allows a switch but not a stop; where they are both 1 the difference does not matter to
the property. `MaxGeneration` 2 lets a pack be backed up, evicted, restored and backed up again.

| Run | Shows |
|---|---|
| `lifecycle_faults` | any two of ten kinds of faults: `OneServer`, `NoTornBackup`, `SizedLaunch`, and `WorldsSpec`, the refinement of `Lifecycle`. The kinds left out (`javaExit`, `rconErr`, `startTimeout`, `flyErr`, `lateLogin`, `evictErr`) are those that break one of these, or need eviction |
| `eviction` | with eviction: `PlaysLatestWorld`, `OnePackOnVolume`, with failed launches, queries and saves |
| `all_faults` | each single fault of sixteen kinds, with late logins, on a Machine and outside Fly (`Machines = {1, None}`): `ProcessTracked`, `StopExpected` and `EvictionVerified`. One backup per pack is enough here, since `EvictionVerified` compares the store with what the same drain found before its commit |
| `progress` | each of thirteen kinds of faults, fair: `StartResolves`, `DrainResolves`, `EmptyMachineExits` |
| `store` | two clients in three setups: two goroutines of the daemon that may commit at once over an atomic backend; one of them and the command over a streaming backend; and these two with objects that cannot be opened. Crashes and failed uploads in all, two contents, three generations, two faults: enough to overwrite a generation that is not the newest. `ManifestLast`, `KnownExists`, `RestoredWhole`, `RestoresNewest` and `LogSpec`, the refinement of `GenerationLog` |
| `router` | two connections of one address over one slot, so that one is shed while the other is served; a limit of two per minute of three ticks, so that grants on both sides of a reset reach the bound of three; a login with bytes of play behind it and a needlessly long length, a login for a stranger's host, a status request with ping, and garbage, each arriving whole or cut inside the handshake or behind it. Handlers share the slots and the limiter only, and what a session leaves behind runs on beside the next handler; the theorems are for any number of slots. `SlotsConserved`, `RateBounded`, `StreamIntact`, `SessionLasts`, `ConnectionsSettle`; and `VarIntRoundTrip`, `HandshakeForwarded`, `StatusRoundTrip`, `HostRouting` for every number, spelling, body and host name of a small codec with two packs, the id of one ending in that of the other, in front of each of these streams: three-byte VarInts with two bits a byte overflow a word of 32 as five bytes overflow `uint32` |
| `log_buffer` | seven writes of lengths 2 and 3 into files of 5, three of six kinds of faults: `FileCap`, `ShowsRecent`, `RetainsEnough`. Seven writes rotate three times, so that the predecessor is replaced twice |
| `pack_registry` | two ids, two identities, five edits, one kind of mishap: `WorldKeepsIdentity`, `NoOrphans`. Four edits are needed to change a pack with a lock that looks right (fields in both files, digest of the configuration) |
| `atomic_file` | four files by two callers: `NeverTorn`, `NeverBack`, `TempsRemoved`. Three files are enough for an older, a promised and a failed one; two callers write plain files at the same time |

Three runs end in a violation, each of a sentence of the documentation; `findings` in
`PROJECT.json` quotes it and tells the story.

| Run | The code |
|---|---|
| `two_servers` | launches two servers for one pack: the first server dies before it answers, `waitProcess` reports it and a login begins a second `start`; the first `start`, still polling, times out and writes `FAILED` before the second has published its process; so the next login begins a third, and the second and the third both launch Java |
| `local_start` | enters the resizing outside Fly too: the sizer is a nil pointer in a non-nil interface. `SizerPanic` is what happens next, and as `active.json` names the pack, every later boot does the same |
| `late_refusal` | answers a login that waited for its pack after the deadline of its handshake, so the player gets no reason |

Further behaviours met while modelling have no run of their own; each follows by adding the
fault named here to the run named here, or by looking at one action:

- `crash` in `eviction`, `PlaysLatestWorld`: after a crash inside `os.RemoveAll`, `start` plays what
  is left of the directory, although the whole world is in the store;
- `sigterm` in `eviction`, `PlaysLatestWorld` and `NoTornBackup`: `Shutdown` drains beside the idle
  drain and archives a directory that the other is removing;
- `javaExit` in `progress`, `EmptyMachineExits`: `start` can report `READY` over a server that has
  just died, and `tick` then asks for its players for ever;
- `flyErr` in `lifecycle_faults`, `SizedLaunch`: after a lost answer to an update that Fly
  applied, the retry finds the config as wanted and launches Java in the VM of the old size;
- `openErr` in `eviction`, `PlaysLatestWorld`, and in `store`, `LogSpec` without its premise: a backup that
  cannot be opened counts as none, so an evicted pack starts a new world, or an older one, and a
  commit overwrites a generation, against "Immutable generation backups" (`README.md:16`);
- two committers over a streaming backend in `store`, `KnownExists` without its premise: both pass the
  same comparison, and the second upload takes away, until it is whole again, the generation that
  the first one verified. Over an atomic backend it repeats the same world and does no harm, unless
  objects cannot be opened;
- `PackForHost` loses `name.:port`, a final dot before a port, because it trims the dot before it cuts
  the port, while it takes `name:port.` (`config.go:213-216`); `DotBeforePort` is the exception of
  `HostRouting`;
- `ConnectionsSettle` without its exceptions: a client or a backend that stays but takes nothing holds
  its session, and a slot, for as long as it likes;
- `EnsureSwitch`: a player who joined after the last status query does not keep a login to
  another pack from switching;
- `Saving` of `Shutdown` after `IdleStopped`: the phase `SAVING` is saved without a pack, and if
  the process ends there, the next boot resumes nothing and refuses every login;
- `MaxMishaps = 2` in `pack_registry`, `WorldKeepsIdentity`: after an unchecked push and the loss of
  the volume an old world is restored under a new version, because `Restore` does not compare
  the digest in the manifest;
- `NeverBack` for plain files: without a sync of the directory, an identity file or an object of
  the filesystem backend that was reported as written may be gone after a loss of power (the
  configuration refuses eviction on that backend);
- packs of one size, `sigterm` in `lifecycle_faults`, `NoTornBackup`: the goroutine of `Shutdown` may be
  delayed between its own critical section and the one of `stopAndBackup` until a concurrent
  switch has ended; it then reads the pack that the switch is starting and archives its directory
  under the new server. Packs of different sizes are safe, because the new start first asks for
  another VM;
- four `saveErr` in `lifecycle_faults`, `WorldsSpec`: when every save of a stop and of the next start
  fails, a pack is played of which `active.json` knows nothing. Two failed saves are not enough;
- `Rotate` in `log_buffer`: after a failed rotation every line is refused until the daemon restarts.

Each property of a passing run has a mutant in `PROJECT.json`: a definition marked "Mutant" in
the module, a plausible error in the code, that breaks the property.

## Proofs

All theorems hold for every value of the constants that the `ASSUME` of the module allows: any
sets of packs, clients, connections, addresses, streams, ids or writers, any widths and any bounds
on faults and edits. Some have hypotheses about the faults. Each is stated as a named definition
with the reason, and TLC has a counterexample for each without it.

### `ManagerProofs`

Without hypotheses: `TypeCorrect`, `ProcessIsTracked` (the loop in `stopAndBackup` that waits for
`m.process` to become nil never waits for an exit that `waitProcess` has handled already),
and `EvictionIsVerified` (no step removes a whole world from the volume but that of a drain of the same
pack whose own commit has added a generation to the store).

The inductive invariant `IndInv` adds to the types: a running start or a process belongs to a
pack, and between launch and publication the process is there (`AttOK`: without it `Publish`
could set `m.process` to an attempt without one); a drain past the comparison in `Commit` works
for a pack, and a switch was asked for one (`DrainOK`: without it a switch could start nobody);
a drain past the commit works for a pack whose newest generation is beyond the one it expected
(`Backed`, from which `EvictionVerified` follows). There is one lemma per group of actions and in it one case per
action, and in each case one step per part of the invariant that the action changes; `Frames`
covers the parts it leaves alone.

`OneServerRuns` needs `Calm`: no server dies by itself (`javaExit`) or is too slow (`startTimeout`), no
RCON answer is lost (`rconErr`) and no login comes while `Shutdown` drains (`lateLogin`). Each of
them leaves a call of `start` and a server that do not know of each other; the first is the run
`two_servers`. Crashes, signals, timed out drains, reboots and all errors of Fly, of the store and
of the state file are allowed. The invariant `OneInv` says who may be at work at a time: there is
at most one call of `start`, and it works for the active pack while that is neither idle nor ready
(`Entitled`); a live server is `m.process`, or the one that start is about to publish (`Owned`); an
idle stop or a switch that has found the pack `READY` excludes every start and the other of the two
(`Exclusive`); until `Shutdown` begins, the phase says which of them is at work, and a server that was
told to stop is expected to (`Orderly`); nothing of this survives the process (`Quenched`).

`ServersFit` needs moreover that no answer of Fly is lost (`flyErr`). `SizeInv` ties what each stage of
`start` has seen of the Machine to the VM that runs.

`LatestIsPlayed` holds under every fault when `EvictAfterBackup` is off. `Resident`: the directory of
a pack that was ever played is whole and current, because nothing but the eviction, which no drain
reaches (`Keeping`), takes it away.

`BackupsAreWhole` needs `Calm` and `Separate`: eviction off and packs of different sizes (`Distinct`;
see above for what packs of one size do); answers of Fly may be lost. `FitInvariance` is the part
without eviction's hypothesis, which the theorem about the volume shares. The hard case is the drain of
`Shutdown`, which runs beside a switch: `Fitting` says that the Machine's config has the size of a
pack that is `READY`, so not that of the pack a switch leads to, and `LastServer` that during
`Shutdown` a start therefore stays with the sizer. `Measured` is the part of `SizeInv` about the
config, which an update without an answer keeps. `Intact` then follows from the archive being
taken at rest.

`WorldsAreKept` is the refinement of `Lifecycle`, `Spec => WorldsSpec`, and needs also `Durable`: no
`saveErr`. The invariants behind it: the file and memory agree; what `tick` read is about the
active pack (`Timed`: the answer of an old query must not begin the drain of the next pack); every
pack but the active one is saved (`Kept`); and what a drain has found and done is about the active
pack, or all packs are saved (`Dutiful`). `WorldsStep` goes through the steps: those that change the
active pack are `Claim` or `Handover`, a launch is `Play`, a commit `Backup`, all others stutter.

`OnePackFits` is `OnePackOnVolume`, with eviction on, under `Calm`, `Distinct` and `Durable`. TLC has a
counterexample without each: with every fault that `Calm` excludes, with `sigterm` when packs have one
size, and with `crash` after failed saves. `Lodged`: only the active pack has a directory and an
idle machine has none; `Vacated`: a drain that is over has emptied the volume, and the one of
`Shutdown`, if the pack it read is no longer the active one, works on an empty volume. `VolumeSteps`
names the steps that make a directory, and `Released` shows that those which change the active pack
find none.

`EvictedComesBack` and `EvictedWhole` are `PlaysLatestWorld` and `NoTornBackup` with eviction, for packs of
any sizes, under `Tame`: of the faults only failing launches, status queries and saves, those of the
run `eviction`, any number of them; and an idle time above zero, which `Config.Validate` asks for.
TLC has a counterexample to `PlaysLatestWorld` with each of the other kinds of faults, and with an idle
time of zero, where `tick` drains a pack beside the drain of `Shutdown`. The property is one line of the
last of seven parts of `TameInv`; the others are there because the world is only safe if no drain
runs into an error or beside another:

- `Held`: no directory is an old world, a missing one has its world as the newest backup, one that is
  partly removed is in the hands of a drain, and a drain that removes has the world in the store;
- `Housed`: the pack that is played has a directory; `Numbered`: `Generation` never runs ahead of the
  store and has caught up with it by the launch. With these two the drains of `tick` and `switchTo`
  get past the comparison and the archive in `Commit`;
- `Primed`: a pack that is `READY` has a server that listens until a drain stops it, so these drains
  get past RCON (`LeavingPrimed` shows that they end without an error);
- `Pressing`: an answer that nobody plays, and a drain before it takes the lock, still have a server,
  so that neither concerns the next pack;
- `Closed`: once the manager is done no other drain begins, and `Shutdown` is alone; `Rebooting`: nothing
  is at work between the update of the Machine's config and the reboot. By both no process ends in
  the middle of an eviction (`NotInEviction`).

There is one lemma per part (`HeldNext` and so on). They rest on lemmas that say for one variable
which steps change it and how: `StateSteps`, `AttemptSteps`, `HostSteps`, `DrainSteps`, `BackupMoves`,
`TameWorld`. TLC checked `TameInv` before the proof, with packs of one size and of two, with and
without eviction, for two and three faults.

### The other components

- `AtomicFileProofs`: `LoadNeverTorn`, `SavedStays`, `NoTempsLeft` and the types, without hypotheses,
  for any number of writers and files. The invariant says that a file that was ever renamed is
  whole, synced and written by nobody, and that what a writer still holds has only its own name.
- `ArchiveStoreProofs`, for any set of setups and any number of clients that commit and restore at
  once: `RestoreIsWhole` and the types in every setup; `ManifestIsLast`, `RestoreIsNewest` and `StoreIsLog`
  (the refinement of `GenerationLog`) in those that are `Sound`: commits overlap only over an atomic
  backend and objects can be opened; `KnownCanBeRestored` in these and, with one committer, in all. The
  properties have these premises themselves, and TLC has a counterexample without each. `LogInv` says
  that generations are complete up to the newest and that, when a commit writes, every generation
  behind the one it expected was made beside it, of the same directory, so that writing it again
  changes nothing (`CommitOK`). `KnownInv` is for one committer with failing opens, where there
  is no order: what a call will record is complete, and nobody else overwrites it.
- `PackRegistryProofs`: `NoOrphansEver` and `OneSafeguardIsEnough` without hypotheses; `WorldKept` for
  `MaxMishaps` at most 1, the bound of the run. The invariant relates the identity file, the world
  and the backup of an id with what main and the daemon have, apart for each kind of mishap.
- `ProtocolProofs`: for every width, `VarIntRead` (a written number is read back) and `HandshakeKept`
  (every sequence of bytes that is read as a handshake is sent on as the same one), and from them
  the three round trips; `VarIntCutOff` (one that is cut off is waited for); `HostsFound` (every sequence of bytes is
  taken for a pack exactly when it spells the pack's name, but for a dot before a port), which compares `Spells` and `PackForHost` position by position. `Weight`
  and `Value` are recursive functions and `FoldLeft` a fold; where the argument is an induction over
  a number it takes the least counterexample (`MinIs` in `Counting`).
- `RouterProofs`: `SlotsKept`, `LimitKept`, `StreamKept`, `SessionKept`, the types, and the round trips
  and `HostRouting` as invariants of the router. `RouterInv` describes each connection by where its
  handler is, what it has read and which copy it awaits, and counts: the slots by the cardinality of
  the handlers that run, the grants of an address by a sum over the ages of the current and the last
  window. Each window begins with a grant, so when the last one has reached into the current it has
  lost its first: the sum is below twice the limit.
- `LogBufferProofs`, without hypotheses: `CapKept` and `EnoughRetained` (the size that `Write` goes by is
  the length of the file whenever the file is open), `LogTyped` and `RecentShown`. `EntriesInv` says
  that what memory shows is a suffix of what was written, and either as many entries as there is
  room for or all that both files hold. A reload builds the entries from both files by two folds,
  of bytes into lines and of lines into the bounded list; the proof follows a fold through the
  sequence of its intermediate results (`Counting`) and inducts over the numbers of them.

`RouterAssumption` asks for an address and for cuts that are numbers, `ProtocolAssumption` for widths
like those of the code: a word ends inside the last group of a VarInt, a handshake with the longest
name fits in a packet. `NamesAssumption` is what `Config.Validate` makes sure of: ids and the labels of
the domain have lower-case letters, digits and hyphens only, so that an id has no dot.

### Model-checked only

- liveness (`StartResolves`, `DrainResolves`, `EmptyMachineExits`, `ConnectionsSettle`): fairness is out
  of the prover's reach;
- `WorldsSpec` with failing saves, which holds for two failures, as checked, and not for four;
- `StopExpected`, for one attempt and one fault.

## Not modelled

- contents of archives, environment, file ownership and provider-specific repairs in the
  launcher: data without influence on the control modelled here;
- `Config.Validate`: independent checks of single fields, without state;
- a pack that disappears from the config between two boots of the manager (in `PackRegistry`
  such a pack cannot be started), and I/O errors when `active.json` is read;
- packets of RCON, HTTP and the object stores, the answers of the providers, `doctor` and
  `guest export`, pages of the dashboard, the guest page, infrastructure and scripts: I/O or
  presentation.

## Plan

1. Done: `Manager`, `Lifecycle`, `ArchiveStore`, `GenerationLog` and their runs; types,
   `ProcessTracked` and `EvictionVerified` proved.
2. Done: `Protocol`, `Router`, `LogBuffer`, `PackRegistry`, `AtomicFile` and their runs;
   `EmptyMachineExits` over more faults.
3. Done: proofs about every component: the safety properties of `AtomicFile`, `ArchiveStore`,
   `PackRegistry`, `Router` and `Protocol`, both refinements, and of the manager `OneServer`,
   `SizedLaunch`, `PlaysLatestWorld` and `NoTornBackup`.
4. Done: `OnePackOnVolume`, `LogTypeOK` and `ShowsRecent` proved.
5. Done: `PlaysLatestWorld` and `NoTornBackup` with eviction proved.
6. Done: overlapping commits, failing opens and the window of `Restore`'s rename in `ArchiveStore`;
   shedding, blocked writes and the straddled reset in `Router`; the steps around `expectedStop` in `Manager`.
7. Open: a theorem for `StopExpected`; properties for the hazards that have none in `PROJECT.json`.
