---------------------------- MODULE PackRegistry ----------------------------
(***************************************************************************)
(* The pack registry: packs.yaml and its lock (internal/config), the lock  *)
(* command and the check of pull requests (cmd/hostpackd, ci.yml), and     *)
(* what the daemon makes of them when it starts a pack: the identity file  *)
(* next to the instance and the world that the pack's installer created.   *)
(*                                                                         *)
(* An identity stands for provider, project, version or file, and Java of  *)
(* a pack, and a digest for what it was computed from. Fields that may     *)
(* change freely, and the artifact hash, which nothing compares, are left  *)
(* out. A packs.yaml that Load rejects stops every command, so edits lead  *)
(* from one accepted file to another. The daemon runs what is on main.     *)
(***************************************************************************)
EXTENDS Naturals, FiniteSets, Functions

CONSTANTS
    Ids,         \* pack ids
    Identities,  \* immutable fields of a pack
    None,        \* a file that does not exist
    MaxEdits,    \* bound: edits of the working copy
    MaxMishaps   \* bound: how many kinds of mishaps a behaviour contains

ASSUME RegistryAssumption ==
    /\ None \notin Ids \cup Identities
    /\ MaxEdits \in Nat /\ MaxMishaps \in Nat

VARIABLES
    edits,    \* edits so far
    work,     \* config/ of a working copy: packs.yaml and packs.lock.json
    main,     \* config/ on the main branch
    locker,   \* the config the lock command has loaded, None when it does not run
    daemon,   \* config and lock the daemon runs with, None when it is off
    start,    \* the start() that is under way
    running,  \* the pack whose server runs, None
    file,     \* instances/<id>/pack.lock.json: a digest
    world,    \* instances/<id>/server: what the world was created with
    backup,   \* the same of the newest backup
    mishaps   \* what happened that the checks cannot prevent

repo == <<edits, work, main, locker>>
volume == <<file, world>>
vars == <<edits, work, main, locker, daemon, start, running, file, world, backup, mishaps>>

\* The packs of packs.yaml; a locked pack has its fields and the digest of them.
Registries == UNION {[D -> Identities] : D \in SUBSET Ids}

LockedPack == [fields: Identities, digest: Identities]

Locks == [config: Registries, packs: UNION {[D -> LockedPack] : D \in SUBSET Ids}]

NoStart == [pc |-> "idle", id |-> None]

Maybe(S) == S \cup {None}

RegistryTypeOK ==
    /\ edits \in 0..MaxEdits
    /\ \A c \in {work, main} : c.yaml \in Registries /\ c.lock \in Maybe(Locks)
    /\ locker \in Maybe(Registries)
    /\ daemon # None => daemon.yaml \in Registries /\ daemon.lock \in Locks
    /\ start.pc \in {"idle", "restore", "identify", "launch"} /\ start.id \in Maybe(Ids)
    /\ running \in Maybe(Ids)
    /\ {file, world, backup} \subseteq [Ids -> Maybe(Identities)]
    /\ mishaps \subseteq {"push", "volume"}

----------------------------------------------------------------------------
\* config/lock.go

\* Generate: every pack with its own digest, the lock with the config's.
Generated(cfg) ==
    [config |-> cfg, packs |-> [id \in DOMAIN cfg |-> [fields |-> cfg[id], digest |-> cfg[id]]]]

\* LoadLock and Validate: the digests are those of the fields.
Valid(lock) ==
    lock # None /\ \A id \in DOMAIN lock.packs : lock.packs[id].digest = lock.packs[id].fields

\* Mutant: the packs of the next lock are looked up in the previous one.
ImmutableForward(previous, next) ==
    \A id \in DOMAIN next.packs \cap DOMAIN previous.packs :
        previous.packs[id].digest = next.packs[id].digest

\* CheckImmutable
Immutable(previous, next) ==
    \A id \in DOMAIN previous.packs :
        id \in DOMAIN next.packs /\ previous.packs[id].digest = next.packs[id].digest

Matches(lock, cfg) ==
    /\ lock.config = cfg
    /\ Cardinality(DOMAIN lock.packs) = Cardinality(DOMAIN cfg)
    /\ \A id \in DOMAIN cfg : id \in DOMAIN lock.packs /\ lock.packs[id].fields = cfg[id]

\* Mutant: a registry without a lock is taken as it stands.
LoadsUnlocked(c) == c.lock = None \/ (Valid(c.lock) /\ Matches(c.lock, c.yaml))

\* load()
Loads(c) == Valid(c.lock) /\ Matches(c.lock, c.yaml)

----------------------------------------------------------------------------

Empty == [id \in {} |-> None]

Init ==
    /\ edits = 0
    /\ work = [yaml |-> Empty, lock |-> Generated(Empty)]
    /\ main = work
    /\ locker = None
    /\ daemon = None /\ start = NoStart /\ running = None
    /\ file = [id \in Ids |-> None] /\ world = file /\ backup = file
    /\ mishaps = {}

\* The working copy: edits of packs.yaml and of the lock by hand or by a conflict
\* that was resolved badly, a lock file that is removed, a fresh checkout.
Edit ==
    /\ edits < MaxEdits /\ edits' = edits + 1
    /\ \E id \in Ids :
         \/ \E v \in Identities :
              work' = [work EXCEPT !.yaml = [i \in DOMAIN @ \cup {id} |-> IF i = id THEN v ELSE @[i]]]
         \/ work' = [work EXCEPT !.yaml = Restrict(@, DOMAIN @ \ {id})]
         \/ /\ work.lock # None /\ id \in DOMAIN work.lock.packs
            /\ \E v \in Identities : work' = [work EXCEPT !.lock.packs[id].fields = v]
         \/ work.lock # None /\ work' = [work EXCEPT !.lock.config = work.yaml]
         \/ work' = [work EXCEPT !.lock = None]
         \/ work' = main
    /\ UNCHANGED <<main, locker, daemon, start, running, volume, backup, mishaps>>

\* hostpackd lock: it loads the config and asks the providers, ...
LockLoad ==
    /\ locker = None
    /\ locker' = work.yaml
    /\ UNCHANGED <<edits, work, main, daemon, start, running, volume, backup, mishaps>>

\* ... one of which may not know the version, or know it for another project or
\* without a hash, or not answer at all.
LockRefused ==
    /\ locker # None /\ locker' = None
    /\ UNCHANGED <<edits, work, main, daemon, start, running, volume, backup, mishaps>>

\* When all have answered it compares with the lock it finds, if there is one,
\* and replaces it.
LockWrite ==
    /\ locker # None /\ locker' = None
    /\ IF work.lock = None \/ (Valid(work.lock) /\ Immutable(work.lock, Generated(locker)))
       THEN work' = [work EXCEPT !.lock = Generated(locker)]
       ELSE UNCHANGED work
    /\ UNCHANGED <<edits, main, daemon, start, running, volume, backup, mishaps>>

\* A pull request: lock --check --previous with the lock of main.
CheckPasses == Loads(work) /\ Valid(main.lock) /\ Immutable(main.lock, work.lock)

Merge ==
    /\ CheckPasses
    /\ main' = work
    /\ UNCHANGED <<edits, work, locker, daemon, start, running, volume, backup, mishaps>>

Mishap(kind) ==
    /\ mishaps' = mishaps \cup {kind}
    /\ Cardinality(mishaps') <= MaxMishaps

\* A push to main is not compared with what was there before.
Push ==
    /\ Mishap("push")
    /\ main' = work
    /\ UNCHANGED <<edits, work, locker, daemon, start, running, volume, backup>>

\* The volume is lost or replaced while the Machine is off.
VolumeLost ==
    /\ daemon = None /\ Mishap("volume")
    /\ file' = [id \in Ids |-> None] /\ world' = [id \in Ids |-> None]
    /\ UNCHANGED <<repo, daemon, start, running, backup>>

----------------------------------------------------------------------------
\* The daemon

Serve ==
    /\ daemon = None /\ Loads(main)
    /\ daemon' = main
    /\ UNCHANGED <<repo, start, running, volume, backup, mishaps>>

\* start(id); an id that is not in the config fails at once.
Start(id) ==
    /\ daemon # None /\ running = None /\ start = NoStart
    /\ id \in DOMAIN daemon.yaml
    /\ start' = [pc |-> "restore", id |-> id]
    /\ UNCHANGED <<repo, daemon, running, volume, backup, mishaps>>

\* A missing directory is restored; the manifest's digest is not compared.
Restore ==
    /\ start.pc = "restore"
    /\ world' = [world EXCEPT ![start.id] = IF @ = None THEN backup[start.id] ELSE @]
    /\ start' = [start EXCEPT !.pc = "identify"]
    /\ UNCHANGED <<repo, daemon, running, file, backup, mishaps>>

\* hostpackd backup restore, beside the daemon or without it.
RestoreCommand(id) ==
    /\ Loads(main) /\ id \in DOMAIN main.yaml
    /\ world[id] = None /\ backup[id] # None
    /\ world' = [world EXCEPT ![id] = backup[id]]
    /\ UNCHANGED <<repo, daemon, start, running, file, backup, mishaps>>

\* Mutant: an identity file that is there is written anew.
IdentityRenewed(id) == TRUE

\* The instance is of the pack that is locked, or of none yet.
IdentityAgrees(id) == file[id] \in {None, daemon.lock.packs[id].digest}

\* ensureInstanceIdentity
Identify ==
    /\ start.pc = "identify"
    /\ IF IdentityAgrees(start.id)
       THEN /\ file' = [file EXCEPT ![start.id] = daemon.lock.packs[start.id].digest]
            /\ start' = [start EXCEPT !.pc = "launch"]
       ELSE start' = NoStart /\ UNCHANGED file
    /\ UNCHANGED <<repo, daemon, running, world, backup, mishaps>>

\* The launcher installs the pack that packs.yaml names.
Launch ==
    /\ start.pc = "launch"
    /\ world' = [world EXCEPT ![start.id] = IF @ = None THEN daemon.yaml[start.id] ELSE @]
    /\ running' = start.id /\ start' = NoStart
    /\ UNCHANGED <<repo, daemon, file, backup, mishaps>>

\* The server stops and its world is backed up and perhaps evicted, or not.
StopAndBackup ==
    /\ running # None
    /\ \/ backup' = [backup EXCEPT ![running] = world[running]] /\ UNCHANGED world
       \/ /\ backup' = [backup EXCEPT ![running] = world[running]]
          /\ world' = [world EXCEPT ![running] = None]
       \/ UNCHANGED <<backup, world>>
    /\ running' = None
    /\ UNCHANGED <<repo, daemon, start, file, mishaps>>

\* The daemon ends, by itself or in the middle of something.
Exit ==
    /\ daemon # None
    /\ daemon' = None /\ start' = NoStart /\ running' = None
    /\ UNCHANGED <<repo, volume, backup, mishaps>>

Next ==
    \/ Edit \/ LockLoad \/ LockRefused \/ LockWrite \/ Merge \/ Push \/ VolumeLost
    \/ Serve \/ (\E id \in Ids : Start(id)) \/ Restore \/ Identify \/ Launch
    \/ StopAndBackup \/ Exit \/ (\E id \in Ids : RestoreCommand(id))

Spec == Init /\ [][Next]_vars

----------------------------------------------------------------------------

\* docs/operations.md: "Never point an existing ID at another version". A server
\* runs only on a world that its own pack created, over all edits, locks, merges,
\* evictions and restores, and also when one of the safeguards is gone: main was
\* pushed to without the check, or the volume lost with its identity files.
WorldKeepsIdentity == running # None => daemon.yaml[running] = world[running]

\* README.md: "Pack IDs cannot be changed or removed". As long as main changes by
\* checked pull requests only, every world and backup belongs to a pack of main.
NoOrphans ==
    "push" \notin mishaps =>
        \A id \in Ids : file[id] # None \/ world[id] # None \/ backup[id] # None
                        => id \in DOMAIN main.lock.packs
=============================================================================
