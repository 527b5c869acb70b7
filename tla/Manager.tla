------------------------------ MODULE Manager ------------------------------
(***************************************************************************)
(* The lifecycle manager of hostpackd (internal/runtime/manager.go) with   *)
(* the parts of the program it drives: the daemon's main goroutine         *)
(* (cmd/hostpackd serve), the login handlers of the router, the Java child *)
(* processes, the Fly Machine that hosts everything and the backup store.  *)
(*                                                                         *)
(* Every goroutine that the code starts is a small process with a program  *)
(* counter; one action is one critical section of m.mu, or one call that   *)
(* leaves the lock (sizer, store, launcher, RCON, status query).           *)
(*                                                                         *)
(* Abstractions:                                                           *)
(*   - a pack's world is reduced to which copy holds all the play so far   *)
(*     (see local and head below); files, digests and texts are left out;  *)
(*   - time.Since(EmptySince) is an age that Elapse advances up to the     *)
(*     largest threshold the code compares it with;                        *)
(*   - what goes wrong in the environment is a fault: Faults names the     *)
(*     kinds a model allows and MaxFaults bounds how many happen;          *)
(*   - store.Put is atomic (filesystem and S3 drivers);                    *)
(*   - at most one idle drain, one switch and one shutdown are in flight,  *)
(*     and at most Cardinality(Attempts) starts.                           *)
(***************************************************************************)
EXTENDS Integers

CONSTANTS
    Packs,              \* pack ids of packs.yaml
    None,               \* the empty ActiveID and the nil process
    Attempts,           \* identities for calls of start() and their processes
    MachineSize,        \* machine_memory_mb / machine_cpus of each pack
    Machines,           \* guest resources it may be provisioned with, None outside Fly
    EvictAfterBackup,   \* storage.evict_after_backup
    EmptyBeforeSwitch,  \* runtime.empty_before_switch, as an age
    IdleBeforeStop,     \* runtime.idle_before_stop, as an age
    Faults,             \* kinds of faults the environment may inject
    MaxFaults,          \* bound: how many faults a behaviour contains
    MaxGeneration       \* bound: no login starts a pack with this many backups

FaultKinds == {"crash", "sigterm", "shutdownTimeout", "javaExit", "startTimeout",
               "stopTimeout", "rconErr", "queryErr", "flyErr", "launchErr",
               "headErr", "openErr", "storeErr", "evictErr", "saveErr", "lateLogin"}

ASSUME ManagerAssumption ==
    /\ None \notin Packs \cup Attempts
    /\ \A p \in Packs : MachineSize[p] # None
    /\ EvictAfterBackup \in BOOLEAN
    /\ EmptyBeforeSwitch \in Nat
    /\ IdleBeforeStop \in Nat
    /\ EmptyBeforeSwitch <= IdleBeforeStop
    /\ Faults \subseteq FaultKinds
    /\ MaxFaults \in Nat
    /\ MaxGeneration \in Nat

VARIABLES
    state,         \* m.state
    disk,          \* runtime/active.json
    process,       \* m.process: the attempt whose Java it is, or None
    expectedStop,  \* m.expectedStop
    loginSeen,     \* m.loginSeen
    quiet,         \* StatusIdleExit has passed since m.lastActivity
    done,          \* m.done is closed
    main,          \* where serve() is
    att,           \* the start() goroutines and their Java processes
    drain,         \* the goroutines that run stopAndBackup()
    tick,          \* the monitor goroutine
    admitted,      \* a handler was told "ready" and has yet to dial
    occupied,      \* players are connected to the backend
    local,         \* instances/<id>/server on the volume
    head,          \* content of the newest complete generation
    hgen,          \* its number, 0 when there is none
    cfgSize,       \* guest resources in the Machine's config
    vmSize,        \* guest resources of the running VM
    updated,       \* the config was updated since the VM booted
    faults         \* faults injected so far

persisted == <<state, disk, faults>>
mem == <<process, expectedStop, done, main>>
conn == <<loginSeen, quiet, admitted, occupied>>
world == <<local, head, hgen>>
fly == <<cfgSize, vmSize, updated>>
vars == <<persisted, mem, att, drain, tick, conn, world, fly>>

----------------------------------------------------------------------------
\* Types

Phases == {"Idle", "Resizing", "Loading", "Ready", "Draining", "Saving",
           "Recovering", "Failed"}

\* EmptySince: -1 is nil, otherwise how long ago it was.
Ages == -1 .. IdleBeforeStop

States == [phase: Phases, active: Packs \cup {None}, gen: Nat, empty: Ages,
           pending: BOOLEAN]

\* local: no directory, a directory some of whose files are missing, a world
\* that lacks some of the play so far, the world with all of the play.
LocalCopy == {"absent", "partial", "stale", "current"}

\* head: "torn" is an archive taken from a world that was changing.
HeadCopy == {"none", "stale", "current", "torn"}

StartPCs == {"idle", "resize", "sizing", "sized", "prepare", "restore", "identity",
             "launch", "publish", "poll", "ready", "fail"}

JavaStates == {"none", "loading", "up", "stopping", "killed", "exited"}

\* head is what store.Head answered: -1 an error, 0 no backup.
AttemptType == [pc: StartPCs, id: Packs \cup {None}, recovery: BOOLEAN,
                head: Nat \cup {-1}, java: JavaStates]

Drains == {"idle", "switch", "shutdown"}

DrainPCs == {"idle", "begin", "saving", "saveall", "expect", "stop", "unexpect", "waitstop",
             "commit", "archive", "commitErr", "record", "evict", "evicting", "finish", "error"}

\* caller: the pack the goroutine was started for; id, proc and gen: what
\* stopAndBackup read from the manager.
DrainType == [pc: DrainPCs, caller: Packs \cup {None}, id: Packs \cup {None},
              proc: Attempts \cup {None}, gen: Nat]

TickType == [pc: {"idle", "query", "apply"}, id: Packs \cup {None},
             players: {"err", "some", "none"}]

PersistedOK == state \in States /\ disk \in States /\ faults \in 0 .. MaxFaults

MemOK ==
    /\ process \in Attempts \cup {None}
    /\ expectedStop \in BOOLEAN
    /\ done \in BOOLEAN
    /\ main \in {"off", "serving", "closing", "draining"}

ConnOK == loginSeen \in BOOLEAN /\ quiet \in BOOLEAN /\ admitted \in BOOLEAN /\ occupied \in BOOLEAN

WorldOK ==
    /\ local \in [Packs -> LocalCopy]
    /\ head \in [Packs -> HeadCopy]
    /\ hgen \in [Packs -> Nat]

Sizes == Machines \cup {MachineSize[p] : p \in Packs}

FlyOK == cfgSize \in Sizes /\ vmSize \in Sizes /\ updated \in BOOLEAN

\* A call of start() and a Java process belong to a pack.
OwnedAttempts == \A a \in Attempts : att[a].pc # "idle" \/ att[a].java # "none" => att[a].id \in Packs

TypeOK ==
    /\ PersistedOK
    /\ MemOK
    /\ att \in [Attempts -> AttemptType]
    /\ OwnedAttempts
    /\ drain \in [Drains -> DrainType]
    /\ tick \in TickType
    /\ ConnOK
    /\ WorldOK
    /\ FlyOK

----------------------------------------------------------------------------
\* Helpers. A definition marked "Mutant" is no part of the specification: it is
\* a plausible error in the definition that follows it.

IdleState == [phase |-> "Idle", active |-> None, gen |-> 0, empty |-> -1,
              pending |-> FALSE]

\* A new State literal: Generation, EmptySince and BackupPending are zeroed.
LoadingState(id) == [IdleState EXCEPT !.phase = "Loading", !.active = id]

\* Mutant: fail() loses the pack. Mutant: fail() leaves the phase alone.
FailedNobody(id) == [state EXCEPT !.phase = "Failed", !.active = None]
FailedSilently(id) == [state EXCEPT !.active = id]

\* What m.fail(id, err) makes of m.state.
FailedState(id) == [state EXCEPT !.phase = "Failed", !.active = id]

NoAttempt == [pc |-> "idle", id |-> None, recovery |-> FALSE, head |-> 0,
              java |-> "none"]
NoDrain == [pc |-> "idle", caller |-> None, id |-> None, proc |-> None, gen |-> 0]
NoTick == [pc |-> "idle", id |-> None, players |-> "err"]

\* Attempts that nobody remembers.
FreeAttempts == {a \in Attempts : att[a] = NoAttempt /\ \A d \in Drains : drain[d].proc # a}

\* go m.start(id, recovery)
GoStart(id, recovery) ==
    \E a \in FreeAttempts :
       att' = [att EXCEPT ![a] = [NoAttempt EXCEPT !.pc = "resize", !.id = id,
                                                   !.recovery = recovery]]

\* Mutant: the process is forgotten with the goroutine that started it.
ReturnedForgetful(r) == NoAttempt

\* start() returns: what is left of the attempt is its Java process, if any.
Returned(r) == IF r.java = "none" THEN NoAttempt
               ELSE [r EXCEPT !.pc = "idle", !.recovery = FALSE, !.head = 0]

LiveJava == {"loading", "up", "stopping", "killed"}
Live(a) == att[a].java \in LiveJava
Up == {a \in Attempts : att[a].java = "up"}
Killed(r) == IF r.java \in LiveJava THEN [r EXCEPT !.java = "killed"] ELSE r

\* Timing. Before a server has stopped, a goroutine that was just started takes
\* the lock and tick() applies an answer it has; before a server has loaded or
\* minutes pass, also a status query ends (3 s) and serve() gets from the end
\* of the router to Shutdown (5 s).
Prompt == tick.pc # "apply" /\ \A d \in Drains : drain[d].pc # "begin"
Slow == Prompt /\ tick.pc = "idle" /\ main # "closing" /\ ~ (main = "serving" /\ done)

Fault(kind) == kind \in Faults /\ faults < MaxFaults /\ faults' = faults + 1

\* m.state = s; _ = m.stateFile.Save(m.state): a failed save goes unnoticed.
Save(s) ==
    /\ state' = s
    /\ \/ disk' = s /\ UNCHANGED faults
       \/ Fault("saveErr") /\ UNCHANGED disk

\* Mutant: nobody hears of it.
SignalLost == UNCHANGED done

SignalDone == done' = TRUE

\* The hostpackd process ends, and with it the VM, its children and
\* connections; the Machine comes back with the resources of its config.
Halt ==
    /\ main' = "off" /\ done' = FALSE
    /\ process' = None /\ expectedStop' = FALSE
    /\ att' = [a \in Attempts |-> NoAttempt]
    /\ drain' = [d \in Drains |-> NoDrain]
    /\ tick' = NoTick
    /\ loginSeen' = FALSE /\ quiet' = FALSE /\ admitted' = FALSE /\ occupied' = FALSE
    /\ vmSize' = cfgSize /\ updated' = FALSE
    /\ UNCHANGED <<cfgSize, world>>

Init ==
    /\ state = IdleState /\ disk = IdleState /\ faults = 0
    /\ main = "off" /\ done = FALSE
    /\ process = None /\ expectedStop = FALSE
    /\ att = [a \in Attempts |-> NoAttempt]
    /\ drain = [d \in Drains |-> NoDrain]
    /\ tick = NoTick
    /\ loginSeen = FALSE /\ quiet = FALSE /\ admitted = FALSE /\ occupied = FALSE
    /\ local = [p \in Packs |-> "absent"]
    /\ head = [p \in Packs |-> "none"]
    /\ hgen = [p \in Packs |-> 0]
    /\ cfgSize \in Machines /\ vmSize = cfgSize /\ updated = FALSE

----------------------------------------------------------------------------
\* The daemon: serve(), NewManager() and the Machine around them

\* Mutant: a phase is resumed without looking for a pack.
InterruptedPhase == disk.phase # "Idle"

Interrupted == disk.phase # "Idle" /\ disk.active # None

\* NewManager: an interrupted lifecycle is resumed without waiting for a login.
Boot ==
    /\ main = "off"
    /\ main' = "serving"
    /\ IF Interrupted
       THEN Save([disk EXCEPT !.phase = "Recovering"]) /\ GoStart(disk.active, TRUE)
       ELSE state' = disk /\ UNCHANGED <<disk, faults, att>>
    /\ UNCHANGED <<process, expectedStop, done, drain, tick, conn, world, fly>>

\* The router stops accepting: the manager is done or a signal arrived.
StopServing ==
    /\ main = "serving"
    /\ (done /\ UNCHANGED faults) \/ Fault("sigterm")
    /\ main' = "closing"
    /\ UNCHANGED <<state, disk, process, expectedStop, done, att, drain, tick, conn,
                   world, fly>>

\* Shutdown with nothing to stop: the process exits.
ShutdownNothing ==
    /\ main = "closing"
    /\ state.phase = "Idle" \/ process = None
    /\ Halt
    /\ state' = disk /\ UNCHANGED <<disk, faults>>

\* Shutdown with a process: it drains whatever the phase is.
ShutdownBegin ==
    /\ main = "closing"
    /\ state.phase # "Idle" /\ process # None
    /\ Save([state EXCEPT !.phase = "Draining"])
    /\ drain' = [drain EXCEPT !["shutdown"].pc = "saving"]
    /\ main' = "draining"
    /\ UNCHANGED <<process, expectedStop, done, att, tick, conn, world, fly>>

\* The process disappears: Shutdown's context expires, or a crash.
Crash ==
    /\ main # "off"
    /\ (main = "draining" /\ Fault("shutdownTimeout")) \/ Fault("crash")
    /\ Halt
    /\ state' = disk /\ UNCHANGED disk

\* Fly applies an update of the Machine's config by rebooting it.
Reboot ==
    /\ updated
    /\ Halt
    /\ state' = disk /\ UNCHANGED <<disk, faults>>

----------------------------------------------------------------------------
\* Login handlers: Ensure() and the proxying that follows it. Serve does not
\* await its handlers, so one may run while the daemon closes and, if its
\* client was slow ("lateLogin"), while Shutdown drains.

Login ==
    /\ main \in {"serving", "closing"} \/ (main = "draining" /\ "lateLogin" \in Faults)
    /\ loginSeen' = TRUE
    /\ quiet' = FALSE

\* The cases of the switch in Ensure(id).
Vacant == state.phase = "Idle"

ReadyFor(id) == state.phase = "Ready" /\ state.active = id

\* Mutant: a retry does not wait for the process of the failed attempt.
RetryableEarly(id) == state.phase = "Failed" /\ state.active = id

Retryable(id) == state.phase = "Failed" /\ state.active = id /\ process = None

EnsureIdle(id) ==
    /\ Login
    /\ Vacant
    /\ hgen[id] < MaxGeneration
    /\ Save(LoadingState(id))
    /\ GoStart(id, FALSE)
    /\ UNCHANGED <<mem, drain, tick, admitted, occupied, world, fly>>

EnsureRetry(id) ==
    /\ Login
    /\ Retryable(id)
    /\ hgen[id] < MaxGeneration
    /\ Save([state EXCEPT !.phase = "Loading"])
    /\ GoStart(id, FALSE)
    /\ UNCHANGED <<mem, drain, tick, admitted, occupied, world, fly>>

\* Ready for this pack, at once or at the end of waitReady.
EnsureReady(id) ==
    /\ Login
    /\ ReadyFor(id)
    /\ admitted' = TRUE
    /\ UNCHANGED <<persisted, mem, att, drain, tick, occupied, world, fly>>

EnsureSwitch(id) ==
    /\ Login
    /\ state.phase = "Ready" /\ state.active # id
    /\ state.empty >= EmptyBeforeSwitch
    /\ hgen[id] < MaxGeneration
    /\ drain["switch"].pc = "idle"
    /\ drain' = [drain EXCEPT !["switch"] = [NoDrain EXCEPT !.pc = "begin", !.caller = id]]
    /\ UNCHANGED <<persisted, mem, att, tick, admitted, occupied, world, fly>>

\* Told to wait, or that another pack is active.
EnsureRefused(id) ==
    /\ Login
    /\ ~Vacant /\ ~ReadyFor(id) /\ ~Retryable(id)
    /\ UNCHANGED <<persisted, mem, att, drain, tick, admitted, occupied, world, fly>>

Ensure(id) ==
    \/ EnsureIdle(id)
    \/ EnsureRetry(id)
    \/ EnsureReady(id)
    \/ EnsureSwitch(id)
    \/ EnsureRefused(id)

\* The admitted handler dials the backend, whatever happened meanwhile.
Connect ==
    /\ admitted
    /\ admitted' = FALSE
    /\ occupied' = (occupied \/ Up # {})
    /\ UNCHANGED <<persisted, mem, att, drain, tick, loginSeen, quiet, world, fly>>

Leave ==
    /\ occupied
    /\ occupied' = FALSE
    /\ UNCHANGED <<persisted, mem, att, drain, tick, loginSeen, quiet, admitted, world, fly>>

\* Touch(): an authenticated dashboard request.
Touch ==
    /\ main # "off" /\ quiet
    /\ quiet' = FALSE
    /\ UNCHANGED <<persisted, mem, att, drain, tick, loginSeen, admitted, occupied, world, fly>>

\* Time passes for lastActivity, which is read only until the first login ...
Quiesce ==
    /\ main # "off" /\ ~quiet /\ ~loginSeen
    /\ quiet' = TRUE
    /\ UNCHANGED <<persisted, mem, att, drain, tick, loginSeen, admitted, occupied, world, fly>>

Older(s) == IF s.empty \in 0 .. IdleBeforeStop - 1 THEN [s EXCEPT !.empty = @ + 1] ELSE s

\* ... and for EmptySince, in memory and in the file, also while the VM is off
\* but not while the daemon shuts down.
Elapse ==
    /\ Slow /\ main # "draining"
    /\ state' = Older(state)
    /\ disk' = Older(disk)
    /\ state' # state \/ disk' # disk
    /\ UNCHANGED <<faults, mem, att, drain, tick, conn, world, fly>>

----------------------------------------------------------------------------
\* start(id, recovery)

Goto(a, pc) == att' = [att EXCEPT ![a].pc = pc]
Return(a) == att' = [att EXCEPT ![a] = Returned(@)]

\* A critical section that gives up when another pack has become active.
IfActive(a, s, pc) ==
    IF state.active = att[a].id THEN Save(s) /\ Goto(a, pc)
                                ELSE Return(a) /\ UNCHANGED persisted

StartResize(a) ==
    /\ att[a].pc = "resize"
    /\ IfActive(a, [state EXCEPT !.phase = "Resizing"], "sizing")
    /\ UNCHANGED <<mem, drain, tick, conn, world, fly>>

\* Mutant: the resources are not compared.
FitsAlways(id) == TRUE

Fits(id) == cfgSize = MachineSize[id]

\* FLY_MACHINE_ID is set.
OnFly == cfgSize # None

\* flymachine.Client.Ensure: the config is read and, if it does not fit, replaced
\* (nobody else changes it in between). An error after the update was sent
\* leaves the Machine's config changed.
SizerEnsure(a) ==
    LET id == att[a].id
        Update == ~Fits(id) /\ cfgSize' = MachineSize[id] /\ updated' = TRUE
    IN
    /\ att[a].pc = "sizing"
    /\ OnFly
    /\ \/ Fits(id) /\ Goto(a, "sized") /\ UNCHANGED <<cfgSize, updated, faults>>
       \/ Update /\ Return(a) /\ UNCHANGED faults
       \/ /\ Fault("flyErr")
          /\ Update \/ UNCHANGED <<cfgSize, updated>>
          /\ Goto(a, "fail")
    /\ UNCHANGED <<state, disk, mem, drain, tick, conn, world, vmSize>>

\* Outside Fly the sizer is a nil *Client in a non-nil interface: the call
\* dereferences it and the process panics.
SizerPanic(a) ==
    /\ att[a].pc = "sizing"
    /\ ~OnFly
    /\ Halt
    /\ state' = disk /\ UNCHANGED <<disk, faults>>

StartSized(a) ==
    /\ att[a].pc = "sized"
    /\ IfActive(a, [state EXCEPT !.phase = IF att[a].recovery THEN "Recovering" ELSE "Loading"],
                "prepare")
    /\ UNCHANGED <<mem, drain, tick, conn, world, fly>>

\* Mutant: a missing directory is not restored.
NeverRestore(id, h) == "identity"

\* What start() does next when store.Head answered h.
AfterHead(id, h) == IF local[id] # "absent" \/ h = 0 THEN "identity"
                    ELSE IF h = -1 THEN "fail" ELSE "restore"

\* os.Stat(dir) and store.Head. A failed List is an error (-1); a generation that
\* cannot be opened is skipped, so that Head finds an older one or none (0).
Prepare(a) ==
    LET id == att[a].id IN
    /\ att[a].pc = "prepare"
    /\ \E h \in -1 .. hgen[id] :
         /\ \/ h = hgen[id] /\ UNCHANGED faults
            \/ h = -1 /\ Fault("headErr")
            \/ h \in 0 .. hgen[id] - 1 /\ Fault("openErr")
         /\ att' = [att EXCEPT ![a].head = h, ![a].pc = AfterHead(id, h)]
    /\ UNCHANGED <<state, disk, mem, drain, tick, conn, world, fly>>

\* store.Restore asks for the head again, unpacks it next to the destination and
\* renames at the end. A head that cannot be opened now gives way to an older
\* generation, which lacks some of the play, or to none.
Restore(a) ==
    LET id == att[a].id
        Possible == hgen[id] > 0 /\ local[id] = "absent"
        Unpacked == IF head[id] \in LocalCopy THEN head[id] ELSE "partial"
    IN
    /\ att[a].pc = "restore"
    /\ \/ /\ Possible
          /\ \/ local' = [local EXCEPT ![id] = Unpacked] /\ UNCHANGED faults
             \/ hgen[id] > 1 /\ local' = [local EXCEPT ![id] = "stale"] /\ Fault("openErr")
          /\ Goto(a, "identity")
       \/ /\ (~Possible /\ UNCHANGED faults) \/ Fault("storeErr") \/ Fault("openErr")
          /\ Goto(a, "fail")
          /\ UNCHANGED local
    /\ UNCHANGED <<state, disk, mem, drain, tick, conn, head, hgen, fly>>

\* ensureInstanceIdentity, then Generation and BackupPending are recorded,
\* without looking at ActiveID.
Identify(a) ==
    /\ att[a].pc = "identity"
    /\ Save([state EXCEPT !.gen = IF att[a].head > 0 THEN att[a].head ELSE @,
                          !.pending = @ \/ att[a].head = -1])
    /\ Goto(a, "launch")
    /\ UNCHANGED <<mem, drain, tick, conn, world, fly>>

\* A new world begins when there is none; a fork of an older one never catches
\* up with the world it was forked from.
PlayedLocal(id) == IF local[id] # "absent" THEN local[id]
                   ELSE IF hgen[id] = 0 THEN "current" ELSE "stale"

\* launcher.Start. Play on the current copy leaves the backup behind.
Launch(a) ==
    LET id == att[a].id IN
    /\ att[a].pc = "launch"
    /\ att' = [att EXCEPT ![a].pc = "publish", ![a].java = "loading"]
    /\ local' = [local EXCEPT ![id] = PlayedLocal(id)]
    /\ head' = [head EXCEPT ![id] = IF @ = "current" /\ PlayedLocal(id) = "current"
                                    THEN "stale" ELSE @]
    /\ UNCHANGED <<persisted, mem, drain, tick, conn, hgen, fly>>

\* os.Stat, ensureInstanceIdentity or launcher.Start returns an error. The
\* launcher has made the instance's directory before most of its errors.
LaunchFails(a) ==
    LET id == att[a].id IN
    /\ att[a].pc \in {"prepare", "identity", "launch"}
    /\ Fault("launchErr")
    /\ Goto(a, "fail")
    /\ \/ UNCHANGED local
       \/ att[a].pc = "launch" /\ local' = [local EXCEPT ![id] = PlayedLocal(id)]
    /\ UNCHANGED <<state, disk, mem, drain, tick, conn, head, hgen, fly>>

Publish(a) ==
    /\ att[a].pc = "publish"
    /\ IF state.active = att[a].id
       THEN process' = a /\ expectedStop' = FALSE /\ Goto(a, "poll")
       ELSE /\ att' = [att EXCEPT ![a] = Returned(Killed(@))]
            /\ UNCHANGED <<process, expectedStop>>
    /\ UNCHANGED <<persisted, done, main, drain, tick, conn, world, fly>>

\* The status query is answered by whichever server listens on the port.
PollAnswered(a) ==
    /\ att[a].pc = "poll"
    /\ Up # {}
    /\ Goto(a, "ready")
    /\ UNCHANGED <<persisted, mem, drain, tick, conn, world, fly>>

PollReady(a) ==
    /\ att[a].pc = "ready"
    /\ IF state.active = att[a].id THEN Save([state EXCEPT !.phase = "Ready"])
                                   ELSE UNCHANGED persisted
    /\ Return(a)
    /\ UNCHANGED <<mem, drain, tick, conn, world, fly>>

\* StartupTimeout: certain once the attempt's Java is gone, a fault otherwise.
PollTimeout(a) ==
    /\ att[a].pc = "poll"
    /\ IF Live(a) THEN Fault("startTimeout") ELSE UNCHANGED faults
    /\ att' = [att EXCEPT ![a] = [Killed(@) EXCEPT !.pc = "fail"]]
    /\ UNCHANGED <<state, disk, mem, drain, tick, conn, world, fly>>

StartFail(a) ==
    /\ att[a].pc = "fail"
    /\ Save(FailedState(att[a].id))
    /\ Return(a)
    /\ UNCHANGED <<mem, drain, tick, conn, world, fly>>

Start(a) ==
    \/ StartResize(a) \/ SizerEnsure(a) \/ SizerPanic(a) \/ StartSized(a)
    \/ Prepare(a) \/ Restore(a) \/ Identify(a)
    \/ Launch(a) \/ LaunchFails(a) \/ Publish(a)
    \/ PollAnswered(a) \/ PollReady(a) \/ PollTimeout(a) \/ StartFail(a)

----------------------------------------------------------------------------
\* The Java processes and waitProcess

JavaUp(a) ==
    /\ Slow
    /\ att[a].java = "loading"
    /\ att' = [att EXCEPT ![a].java = "up"]
    /\ UNCHANGED <<persisted, mem, drain, tick, conn, world, fly>>

\* A stopped or killed server exits, or a running one dies by itself.
JavaExit(a) ==
    /\ \/ Prompt /\ att[a].java \in {"stopping", "killed"} /\ UNCHANGED faults
       \/ att[a].java \in {"loading", "up"} /\ Fault("javaExit")
    /\ att' = [att EXCEPT ![a].java = "exited"]
    /\ occupied' = FALSE
    /\ UNCHANGED <<state, disk, mem, drain, tick, loginSeen, quiet, admitted, world, fly>>

\* Wait returns. Without a waiter (the process was never published) there is
\* nothing to do, as when another process took the place of this one.
WaitProcess(a) ==
    /\ att[a].java = "exited" /\ att[a].pc # "publish"
    /\ att' = [att EXCEPT ![a] = IF @.pc = "idle" THEN NoAttempt ELSE [@ EXCEPT !.java = "none"]]
    /\ IF process = a
       THEN /\ process' = None
            /\ expectedStop' = FALSE
            /\ IF expectedStop THEN UNCHANGED persisted
                               ELSE Save([state EXCEPT !.phase = "Failed"])
       ELSE UNCHANGED <<process, expectedStop, persisted>>
    /\ UNCHANGED <<done, main, drain, tick, conn, world, fly>>

Java(a) == JavaUp(a) \/ JavaExit(a) \/ WaitProcess(a)

----------------------------------------------------------------------------
\* switchTo(), the idle stop of tick() and Shutdown(), around stopAndBackup()

Step(d, pc) == drain' = [drain EXCEPT ![d].pc = pc]

\* The two goroutines that check the phase again before they drain.
DrainBegin(d) ==
    /\ drain[d].pc = "begin"
    /\ IF state.phase = "Ready" /\ ~ (d = "switch" /\ state.active = drain[d].caller)
       THEN Save([state EXCEPT !.phase = "Draining"]) /\ Step(d, "saving")
       ELSE drain' = [drain EXCEPT ![d] = NoDrain] /\ UNCHANGED persisted
    /\ UNCHANGED <<mem, att, tick, conn, world, fly>>

\* Mutant: without a process there is nothing to back up.
NothingToSave == IF process = None THEN "evict" ELSE "saveall"

AfterSaving == IF process = None THEN "commit" ELSE "saveall"

Saving(d) ==
    /\ drain[d].pc = "saving"
    /\ Save([state EXCEPT !.phase = "Saving"])
    /\ drain' = [drain EXCEPT ![d].id = state.active, ![d].proc = process, ![d].pc = AfterSaving]
    /\ UNCHANGED <<mem, att, tick, conn, world, fly>>

\* rcon.Command("save-all flush") ...
SaveAll(d) ==
    /\ drain[d].pc = "saveall"
    /\ \/ Up # {} /\ Step(d, "expect") /\ UNCHANGED faults
       \/ (IF Up = {} THEN UNCHANGED faults ELSE Fault("rconErr")) /\ Step(d, "error")
    /\ UNCHANGED <<state, disk, mem, att, tick, conn, world, fly>>

\* ... then expectedStop is set, whether or not the server is still there.
ExpectStop(d) ==
    /\ drain[d].pc = "expect"
    /\ expectedStop' = TRUE
    /\ Step(d, "stop")
    /\ UNCHANGED <<persisted, process, done, main, att, tick, conn, world, fly>>

\* Mutant: expectedStop stays set.
AfterStopErrorUnreset == "error"

AfterStopError == "unexpect"

\* rcon.Command("stop"). Without an answer the server may still obey.
StopCommand(d) ==
    LET Obeyed == \E b \in Up : att' = [att EXCEPT ![b].java = "stopping"] IN
    /\ drain[d].pc = "stop"
    /\ \/ Obeyed /\ Step(d, "waitstop") /\ UNCHANGED faults
       \/ /\ \/ Up = {} /\ UNCHANGED <<att, faults>>
             \/ Up # {} /\ Fault("rconErr") /\ (Obeyed \/ UNCHANGED att)
          /\ Step(d, AfterStopError)
    /\ UNCHANGED <<state, disk, mem, tick, conn, world, fly>>

\* On an error expectedStop is reset.
UnexpectStop(d) ==
    /\ drain[d].pc = "unexpect"
    /\ expectedStop' = FALSE
    /\ Step(d, "error")
    /\ UNCHANGED <<persisted, process, done, main, att, tick, conn, world, fly>>

\* Mutant: the backup does not wait.
StoppedAlways == TRUE

Stopped == process = None

WaitStopped(d) ==
    /\ drain[d].pc = "waitstop"
    /\ Stopped
    /\ drain' = [drain EXCEPT ![d].pc = "commit", ![d].proc = None]
    /\ UNCHANGED <<persisted, mem, att, tick, conn, world, fly>>

\* ShutdownTimeout passes: certain when nobody has asked m.process to stop.
StopTimeout(d) ==
    /\ drain[d].pc = "waitstop"
    /\ process # None
    /\ IF att[process].java \in {"loading", "up"} THEN UNCHANGED faults ELSE Fault("stopTimeout")
    /\ att' = [att EXCEPT ![drain[d].proc] = Killed(@)]
    /\ drain' = [drain EXCEPT ![d].pc = "error", ![d].proc = None]
    /\ UNCHANGED <<state, disk, mem, tick, conn, world, fly>>

\* Mutant: a rejected commit is tried again for ever.
CommitRetried(ok) == IF ok THEN "archive" ELSE "commit"

AfterCompare(ok) == IF ok THEN "archive" ELSE "commitErr"

\* Generation is read and store.Commit compares it with the head, or with an older
\* one when the head cannot be opened. For an empty ActiveID there is no
\* directory to archive.
CommitHead(d) ==
    LET id == drain[d].id IN
    /\ drain[d].pc = "commit"
    /\ \E ok \in BOOLEAN :
         /\ \/ ok = (id # None /\ hgen[id] = state.gen) /\ UNCHANGED faults
            \/ ~ok /\ Fault("headErr")
            \/ /\ id # None /\ Fault("openErr")
               /\ \E h \in 0 .. hgen[id] - 1 : ok = (h = state.gen)
         /\ drain' = [drain EXCEPT ![d].gen = state.gen, ![d].pc = AfterCompare(ok)]
    /\ UNCHANGED <<state, disk, mem, att, tick, conn, world, fly>>

\* What an archive of the local directory holds.
Archived(id) ==
    IF local[id] = "partial" \/ \E a \in Attempts : Live(a) /\ att[a].id = id
    THEN "torn" ELSE local[id]

\* store.Commit streams the archive, puts the manifest and verifies both. The
\* generation it writes is the new head, or the head itself: one that another
\* drain just wrote, or that the comparison did not see.
CommitArchive(d) ==
    LET id == drain[d].id
        Possible == local[id] # "absent" /\ hgen[id] \in {drain[d].gen, drain[d].gen + 1}
        Put == /\ Possible
               /\ head' = [head EXCEPT ![id] = Archived(id)]
               /\ hgen' = [hgen EXCEPT ![id] = drain[d].gen + 1]
    IN
    /\ drain[d].pc = "archive"
    /\ \/ Put /\ Step(d, "record") /\ UNCHANGED faults
       \/ ~Possible /\ Step(d, "commitErr") /\ UNCHANGED <<head, hgen, faults>>
       \/ Fault("storeErr") /\ Step(d, "commitErr") /\ (Put \/ UNCHANGED <<head, hgen>>)
    /\ UNCHANGED <<state, disk, mem, att, tick, conn, local, fly>>

CommitFailed(d) ==
    /\ drain[d].pc = "commitErr"
    /\ Save([state EXCEPT !.pending = TRUE])
    /\ Step(d, "error")
    /\ UNCHANGED <<mem, att, tick, conn, world, fly>>

\* Mutant: eviction is forgotten.
NeverEvict == "finish"

AfterBackup == IF EvictAfterBackup THEN "evict" ELSE "finish"

CommitRecorded(d) ==
    /\ drain[d].pc = "record"
    /\ Save([state EXCEPT !.gen = drain[d].gen + 1, !.pending = FALSE])
    /\ Step(d, AfterBackup)
    /\ UNCHANGED <<mem, att, tick, conn, world, fly>>

\* os.RemoveAll takes the files away one by one ...
Evict(d) ==
    /\ drain[d].pc = "evict"
    /\ local' = [local EXCEPT ![drain[d].id] = IF @ = "absent" THEN @ ELSE "partial"]
    /\ Step(d, "evicting")
    /\ UNCHANGED <<persisted, mem, att, tick, conn, head, hgen, fly>>

\* ... until the directory is gone, or stops at an error.
Evicted(d) ==
    /\ drain[d].pc = "evicting"
    /\ \/ /\ local' = [local EXCEPT ![drain[d].id] = "absent"]
          /\ Step(d, "finish")
          /\ UNCHANGED faults
       \/ Fault("evictErr") /\ Step(d, "error") /\ UNCHANGED local
    /\ UNCHANGED <<state, disk, mem, att, tick, conn, head, hgen, fly>>

IdleStopped ==
    /\ drain["idle"].pc = "finish"
    /\ Save(IdleState)
    /\ SignalDone
    /\ drain' = [drain EXCEPT !["idle"] = NoDrain]
    /\ UNCHANGED <<process, expectedStop, main, att, tick, conn, world, fly>>

\* switchTo goes on with start(id, false) in the same goroutine.
Switched ==
    /\ drain["switch"].pc = "finish"
    /\ Save(LoadingState(drain["switch"].caller))
    /\ GoStart(drain["switch"].caller, FALSE)
    /\ drain' = [drain EXCEPT !["switch"] = NoDrain]
    /\ UNCHANGED <<mem, tick, conn, world, fly>>

DrainFailed(d) ==
    /\ d # "shutdown" /\ drain[d].pc = "error"
    /\ Save(FailedState(IF d = "idle" THEN drain[d].caller ELSE state.active))
    /\ SignalDone
    /\ drain' = [drain EXCEPT ![d] = NoDrain]
    /\ UNCHANGED <<process, expectedStop, main, att, tick, conn, world, fly>>

\* Shutdown returns and serve() with it; only a clean drain records Idle.
ShutdownDone ==
    /\ \/ /\ drain["shutdown"].pc = "finish"
          /\ (disk' = IdleState /\ UNCHANGED faults) \/ (Fault("saveErr") /\ UNCHANGED disk)
       \/ drain["shutdown"].pc = "error" /\ UNCHANGED <<disk, faults>>
    /\ Halt
    /\ state' = disk'

StopAndBackup(d) ==
    \/ Saving(d) \/ SaveAll(d) \/ ExpectStop(d) \/ StopCommand(d) \/ UnexpectStop(d)
    \/ WaitStopped(d) \/ StopTimeout(d)
    \/ CommitHead(d) \/ CommitArchive(d) \/ CommitFailed(d) \/ CommitRecorded(d)
    \/ Evict(d) \/ Evicted(d)

Drain(d) ==
    \/ DrainBegin(d)
    \/ StopAndBackup(d)
    \/ d = "idle" /\ IdleStopped
    \/ d = "switch" /\ Switched
    \/ d = "shutdown" /\ ShutdownDone
    \/ DrainFailed(d)

----------------------------------------------------------------------------
\* tick()

\* Idle without a login for StatusIdleExit: the daemon is done.
TickExit ==
    /\ main # "off" /\ tick.pc = "idle"
    /\ state.phase = "Idle" /\ ~loginSeen /\ quiet
    /\ ~done /\ SignalDone
    /\ UNCHANGED <<persisted, process, expectedStop, main, att, drain, tick, conn, world, fly>>

TickRead ==
    /\ main # "off" /\ tick.pc = "idle"
    /\ state.phase = "Ready"
    /\ tick' = [NoTick EXCEPT !.pc = "query", !.id = state.active]
    /\ UNCHANGED <<persisted, mem, att, drain, conn, world, fly>>

TickQuery ==
    /\ tick.pc = "query"
    /\ \E answer \in {"err", "some", "none"} :
         /\ \/ answer = "err" /\ (IF Up = {} THEN UNCHANGED faults ELSE Fault("queryErr"))
            \/ answer = "some" /\ Up # {} /\ occupied /\ UNCHANGED faults
            \/ answer = "none" /\ Up # {} /\ ~occupied /\ UNCHANGED faults
         /\ tick' = [tick EXCEPT !.pc = "apply", !.players = answer]
    /\ UNCHANGED <<state, disk, mem, att, drain, conn, world, fly>>

\* The answer is applied to whatever the state is by now; a pack that has been
\* empty long enough is stopped by a new goroutine.
TickApply ==
    LET empty == IF tick.players # "none" THEN -1
                 ELSE IF state.empty = -1 THEN 0 ELSE state.empty
    IN
    /\ tick.pc = "apply"
    /\ Save([state EXCEPT !.empty = empty])
    /\ drain' = IF empty >= IdleBeforeStop /\ drain["idle"].pc = "idle"
                THEN [drain EXCEPT !["idle"] = [NoDrain EXCEPT !.pc = "begin", !.caller = tick.id]]
                ELSE drain
    /\ tick' = NoTick
    /\ UNCHANGED <<mem, att, conn, world, fly>>

Tick == TickExit \/ TickRead \/ TickQuery \/ TickApply

----------------------------------------------------------------------------

Main == StopServing \/ ShutdownNothing \/ ShutdownBegin

Next ==
    \/ Boot \/ Main \/ Crash \/ Reboot
    \/ \E id \in Packs : Ensure(id)
    \/ Connect \/ Leave \/ Touch \/ Quiesce \/ Elapse
    \/ \E a \in Attempts : Start(a) \/ Java(a)
    \/ \E d \in Drains : Drain(d)
    \/ Tick

Spec == Init /\ [][Next]_vars

\* A step without a fault in it.
Sound(A) == A /\ UNCHANGED faults

\* Every goroutine keeps running, servers load and stop, deadlines pass and Fly
\* reboots the Machine. No fault, login, player or wake-up need happen.
Fairness ==
    /\ WF_vars(Sound(Main))
    /\ WF_vars(Reboot)
    /\ WF_vars(Connect)
    /\ SF_vars(Elapse)
    /\ WF_vars(Quiesce)
    /\ WF_vars(Sound(Tick))
    /\ \A a \in Attempts : WF_vars(Sound(Start(a))) /\ SF_vars(Sound(Java(a)))
    /\ \A d \in Drains : WF_vars(Sound(Drain(d)))

FairSpec == Spec /\ Fairness

----------------------------------------------------------------------------
\* Safety

\* README: "only one pack and world can be active at a time". No two server
\* processes exist together, over all the goroutines that start and stop them.
OneServer == \A a, b \in Attempts : Live(a) /\ Live(b) => a = b

\* A server runs only on the copy of its world that has all the play so far,
\* whatever was evicted, restored or failed to be saved before start() looked.
PlaysLatestWorld == \A a \in Attempts : Live(a) => local[att[a].id] = "current"

\* The head of the store is never an archive of a world that was changing or
\* being removed while Commit read it.
NoTornBackup == \A p \in Packs : head[p] # "torn"

\* flymachine: "starting a large pack in an undersized VM is unsafe". A server
\* only runs in a VM that has the resources of its pack.
SizedLaunch == \A a \in Attempts : Live(a) => vmSize = MachineSize[att[a].id]

\* With eviction the volume holds the directory of one pack at most, also
\* during a switch.
OnePackOnVolume ==
    EvictAfterBackup =>
        \A p, q \in Packs : local[p] # "absent" /\ local[q] # "absent" => p = q

\* m.process is a process that waitProcess has yet to see exit: a drain that
\* waits for it to become nil waits for something that will happen.
ProcessTracked == process # None => att[process].java # "none"

\* operations.md: backups are "read back and checksum-verified before local
\* eviction". A directory is only removed by a drain of the same pack whose own
\* commit is in the store.
EvictionVerified ==
    [][\A p \in Packs :
          local[p] \in {"stale", "current"} /\ local'[p] \in {"absent", "partial"}
          => \E d \in Drains : /\ drain[d].pc \in {"evict", "evicting"} /\ drain[d].id = p
                                /\ hgen'[p] > drain[d].gen]_vars

\* waitProcess takes an exit for the requested one only while somebody stops the
\* server: expectedStop over a server that still runs is the business of a drain
\* that is about to send "stop", or to take expectedStop back.
StopExpected ==
    expectedStop /\ process # None =>
        \/ att[process].java \notin {"loading", "up"}
        \/ \E d \in Drains : drain[d].pc \in {"stop", "unexpect"}

\* configuration.md: "Local development skips Fly resizing".
LocalSkipsResizing == ~OnFly => \A a \in Attempts : att[a].pc # "sizing"

----------------------------------------------------------------------------
\* What the manager promises about worlds: a pack owns the machine until its
\* world is in the store (module Lifecycle). Saved packs: the newest world is
\* the head of the store, or there is no world yet.

Saved == {p \in Packs : head[p] = "current" \/ (local[p] = "absent" /\ hgen[p] = 0)}

Worlds == INSTANCE Lifecycle WITH owner <- disk.active, saved <- Saved

WorldsSpec == Worlds!Spec

----------------------------------------------------------------------------
\* Liveness

Starting == main # "off" /\ state.phase \in {"Resizing", "Loading", "Recovering"}
Stopping == main # "off" /\ state.phase \in {"Draining", "Saving"} /\ state.active # None

\* A start ends: ready, failed, drained, or with the reboot that resizes.
StartResolves == Starting ~> ~Starting

\* The drain of a pack ends: backed up, failed, or with the end of the daemon.
\* (Saving without a pack, which Shutdown beside an idle drain can leave
\* behind, may last for ever.)
DrainResolves == Stopping ~> ~Stopping

\* What nothing but a login gets the daemon out of: tick() acts on neither phase.
Waits == state.phase = "Failed" \/ (state.phase = "Saving" /\ state.active = None)

\* "The Machine saves and exits after ten empty minutes": once players stay
\* away and no dashboard polls, the machine goes off however often it is woken,
\* unless a failure left it waiting for a login.
EmptyMachineExits ==
    <>[]~occupied /\ <>[][~Touch]_vars => []<>(main = "off") \/ <>[]Waits
=============================================================================
