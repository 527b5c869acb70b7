------------------------- MODULE PackRegistryProofs -------------------------
(***************************************************************************)
(* Proofs about PackRegistry, for any packs, identities and numbers of     *)
(* edits. A world is tied to its pack in two independent ways: by the      *)
(* identity file next to it, and by the locks of main, each of which keeps *)
(* the digests of the one before. Either alone is enough, so a server runs *)
(* on a foreign world only when both are gone: a push to main that skips   *)
(* the check and a lost volume.                                            *)
(***************************************************************************)
EXTENDS PackRegistry, FiniteSetTheorems, TLAPS

PackLocks == UNION {[D -> LockedPack] : D \in SUBSET Ids}

Config == [yaml: Registries, lock: Maybe(Locks)]

StartPCs == {"idle", "restore", "identify", "launch"}

RegistryTypes ==
    /\ edits \in 0..MaxEdits
    /\ work \in Config /\ main \in Config
    /\ locker \in Maybe(Registries)
    /\ daemon # None => daemon \in Config /\ daemon.lock \in Locks
    /\ start \in [pc: StartPCs, id: Maybe(Ids)]
    /\ running \in Maybe(Ids)
    /\ file \in [Ids -> Maybe(Identities)]
    /\ world \in [Ids -> Maybe(Identities)]
    /\ backup \in [Ids -> Maybe(Identities)]
    /\ mishaps \subseteq {"push", "volume"}

\* The daemon starts or runs one pack at a time, of a config that its lock
\* agrees with.
DaemonOK ==
    /\ daemon # None =>
         \A id \in DOMAIN daemon.yaml :
           id \in DOMAIN daemon.lock.packs /\ daemon.lock.packs[id].digest = daemon.yaml[id]
    /\ start.pc # "idle" =>
         daemon # None /\ running = None /\ start.id \in DOMAIN daemon.yaml
    /\ running # None => daemon # None /\ running \in DOMAIN daemon.yaml
    /\ start.pc = "launch" => file[start.id] = daemon.yaml[start.id]

\* While no volume was lost, the identity file names what created the world
\* and the backup.
ByFile ==
    "volume" \notin mishaps =>
      \A id \in Ids : /\ world[id] # None => file[id] = world[id]
                      /\ backup[id] # None => file[id] = backup[id]

\* While main changes by checked pull requests, its lock names them, and agrees
\* with the older one that the daemon runs with.
ByMain ==
    "push" \notin mishaps =>
      /\ main.lock \in Locks
      /\ daemon # None => Immutable(daemon.lock, main.lock)
      /\ \A id \in Ids : \A x \in {file[id], world[id], backup[id]} :
           x # None => id \in DOMAIN main.lock.packs /\ main.lock.packs[id].digest = x

\* One of the two ties is enough.
OneTieEnough == "push" \notin mishaps \/ "volume" \notin mishaps => WorldKeepsIdentity

IndInv == RegistryTypes /\ DaemonOK /\ ByFile /\ ByMain /\ OneTieEnough

----------------------------------------------------------------------------
\* Registries and locks

\* A registry is a function from some of the ids; so are the packs of a lock.
LEMMA RegistryIs ==
    /\ \A f : f \in Registries <=> DOMAIN f \subseteq Ids /\ f \in [DOMAIN f -> Identities]
    /\ \A f : f \in PackLocks <=> DOMAIN f \subseteq Ids /\ f \in [DOMAIN f -> LockedPack]
<1>1. \A f : f \in Registries <=> DOMAIN f \subseteq Ids /\ f \in [DOMAIN f -> Identities]
  BY DEF Registries
<1>2. \A f : f \in PackLocks <=> DOMAIN f \subseteq Ids /\ f \in [DOMAIN f -> LockedPack]
  BY DEF PackLocks
<1> QED
  BY <1>1, <1>2

\* Locks by their parts.
LEMMA LocksAre == Locks = [config: Registries, packs: PackLocks]
  BY DEF Locks, PackLocks

\* Generate makes a lock of a registry.
LEMMA GeneratedIs == ASSUME NEW cfg \in Registries PROVE Generated(cfg) \in Locks
<1> DEFINE P == [id \in DOMAIN cfg |-> [fields |-> cfg[id], digest |-> cfg[id]]]
<1>1. DOMAIN cfg \subseteq Ids /\ \A id \in DOMAIN cfg : cfg[id] \in Identities
  BY RegistryIs
<1>2. P \in [DOMAIN cfg -> LockedPack] /\ DOMAIN P = DOMAIN cfg
  BY <1>1 DEF LockedPack
<1>3. P \in PackLocks
  BY <1>1, <1>2, RegistryIs
<1> QED
  BY <1>3, LocksAre DEF Generated

\* What load() lets through: the digests of the lock are the fields of the config.
LEMMA LoadsAgree ==
    ASSUME NEW c \in Config, Loads(c)
    PROVE  /\ c.lock \in Locks /\ c.lock # None
           /\ \A id \in DOMAIN c.yaml :
                id \in DOMAIN c.lock.packs /\ c.lock.packs[id].digest = c.yaml[id]
  BY DEF Config, Loads, Valid, Matches, Maybe

\* CheckImmutable is transitive: a lock keeps the digests of all before it.
LEMMA ImmutableTransitive ==
    ASSUME NEW a, NEW b, NEW c, Immutable(a, b), Immutable(b, c)
    PROVE  Immutable(a, c)
  BY DEF Immutable

----------------------------------------------------------------------------

\* The empty registry, its lock, no instances.
LEMMA InitInv == Init => IndInv
<1> SUFFICES ASSUME Init PROVE IndInv
  OBVIOUS
<1>1. Empty \in Registries
  BY RegistryIs DEF Empty
<1>2. Generated(Empty) \in Locks
  BY <1>1, GeneratedIs
<1>3. work \in Config /\ main \in Config /\ main.lock \in Locks
  BY <1>1, <1>2 DEF Init, Config, Maybe
<1>4. RegistryTypes
  BY <1>3, RegistryAssumption DEF Init, RegistryTypes, NoStart, StartPCs, Maybe
<1>5. DaemonOK /\ ByFile /\ OneTieEnough
  BY DEF Init, DaemonOK, ByFile, OneTieEnough, WorldKeepsIdentity, NoStart
<1>6. ByMain
  BY <1>3 DEF Init, ByMain
<1> QED
  BY <1>4, <1>5, <1>6 DEF IndInv

\* A step that only changes the working copy and the lock command.
LEMMA Aside ==
    ASSUME IndInv, edits' \in 0..MaxEdits, work' \in Config, locker' \in Maybe(Registries),
           UNCHANGED <<main, daemon, start, running, file, world, backup, mishaps>>
    PROVE  IndInv'
<1>1. RegistryTypes'
  BY DEF IndInv, RegistryTypes
<1>2. DaemonOK' /\ ByFile' /\ OneTieEnough'
  BY DEF IndInv, DaemonOK, ByFile, OneTieEnough, WorldKeepsIdentity
<1>3. ByMain'
  BY DEF IndInv, ByMain, Immutable
<1> QED
  BY <1>1, <1>2, <1>3 DEF IndInv

\* Edits of the working copy.
LEMMA EditInv == ASSUME IndInv, Edit PROVE IndInv'
<1>0. work \in Config /\ main \in Config /\ edits \in 0..MaxEdits /\ locker \in Maybe(Registries)
      /\ MaxEdits \in Nat
  BY RegistryAssumption DEF IndInv, RegistryTypes
<1>1. /\ edits' \in 0..MaxEdits
      /\ UNCHANGED <<main, locker, daemon, start, running, file, world, backup, mishaps>>
  BY <1>0 DEF Edit, volume
<1>2. work.yaml \in Registries /\ work.lock \in Maybe(Locks)
  BY <1>0 DEF Config
<1>3. \A y \in Registries : [work EXCEPT !.yaml = y] \in Config
  BY <1>0 DEF Config
<1>4. \A l \in Maybe(Locks) : [work EXCEPT !.lock = l] \in Config
  BY <1>0 DEF Config
<1>5. PICK id \in Ids :
         \/ \E v \in Identities :
              work' = [work EXCEPT !.yaml = [i \in DOMAIN @ \cup {id} |-> IF i = id THEN v ELSE @[i]]]
         \/ work' = [work EXCEPT !.yaml = Restrict(@, DOMAIN @ \ {id})]
         \/ /\ work.lock # None /\ id \in DOMAIN work.lock.packs
            /\ \E v \in Identities : work' = [work EXCEPT !.lock.packs[id].fields = v]
         \/ work.lock # None /\ work' = [work EXCEPT !.lock.config = work.yaml]
         \/ work' = [work EXCEPT !.lock = None]
         \/ work' = main
  BY DEF Edit
<1>6. ASSUME NEW v \in Identities
      PROVE  [i \in DOMAIN work.yaml \cup {id} |-> IF i = id THEN v ELSE work.yaml[i]] \in Registries
  BY <1>2, RegistryIs
<1>7. Restrict(work.yaml, DOMAIN work.yaml \ {id}) \in Registries
  BY <1>2, RegistryIs DEF Restrict
<1>8. ASSUME NEW v \in Identities, work.lock # None, id \in DOMAIN work.lock.packs,
             work' = [work EXCEPT !.lock.packs[id].fields = v]
      PROVE  work' \in Config
  <2> DEFINE p == work.lock.packs
             q == [p EXCEPT ![id] = [p[id] EXCEPT !.fields = v]]
             l == [work.lock EXCEPT !.packs = q]
  <2>1. work.lock \in [config: Registries, packs: PackLocks]
    BY <1>2, <1>8, LocksAre DEF Maybe
  <2>2. p \in PackLocks /\ DOMAIN p \subseteq Ids /\ p \in [DOMAIN p -> LockedPack]
    BY <2>1, RegistryIs
  <2>3. [p[id] EXCEPT !.fields = v] \in LockedPack
    BY <1>8, <2>2 DEF LockedPack
  <2>4. q \in [DOMAIN p -> LockedPack] /\ DOMAIN q = DOMAIN p
    BY <2>2, <2>3
  <2>5. q \in PackLocks
    BY <2>2, <2>4, RegistryIs
  <2>6. l \in Locks
    BY <2>1, <2>5, LocksAre
  <2>7. work' = [work EXCEPT !.lock = l]
    BY <1>0, <1>8, <2>1, <2>2 DEF Config
  <2> QED
    BY <1>4, <2>6, <2>7 DEF Maybe
<1>9. ASSUME work.lock # None, work' = [work EXCEPT !.lock.config = work.yaml]
      PROVE  work' \in Config
  <2>1. work.lock \in [config: Registries, packs: PackLocks]
    BY <1>2, <1>9, LocksAre DEF Maybe
  <2>2. [work.lock EXCEPT !.config = work.yaml] \in Locks
    BY <1>2, <2>1, LocksAre
  <2>3. work' = [work EXCEPT !.lock = [work.lock EXCEPT !.config = work.yaml]]
    BY <1>9
  <2> QED
    BY <1>4, <2>2, <2>3 DEF Maybe
<1>10. work' \in Config
  BY <1>0, <1>3, <1>4, <1>5, <1>6, <1>7, <1>8, <1>9 DEF Maybe
<1> QED
  BY <1>0, <1>1, <1>10, Aside

\* hostpackd lock, to its end.
LEMMA LockInv == ASSUME IndInv, LockLoad \/ LockRefused \/ LockWrite PROVE IndInv'
<1>0. work \in Config /\ locker \in Maybe(Registries) /\ edits \in 0..MaxEdits /\ work.yaml \in Registries
  BY DEF IndInv, RegistryTypes, Config
<1>1. UNCHANGED <<edits, main, daemon, start, running, file, world, backup, mishaps>>
  BY DEF LockLoad, LockRefused, LockWrite, volume
<1>2. locker' \in Maybe(Registries)
  BY <1>0 DEF LockLoad, LockRefused, LockWrite, Maybe
<1>3. work' \in Config
  <2>1. CASE work' = work
    BY <1>0, <2>1
  <2>2. CASE locker # None /\ work' = [work EXCEPT !.lock = Generated(locker)]
    <3>1. Generated(locker) \in Locks
      BY <1>0, <2>2, GeneratedIs DEF Maybe
    <3> QED
      BY <1>0, <2>2, <3>1 DEF Config, Maybe
  <2> QED
    BY <2>1, <2>2 DEF LockLoad, LockRefused, LockWrite
<1> QED
  BY <1>0, <1>1, <1>2, <1>3, Aside

----------------------------------------------------------------------------
\* The main branch and the volume

\* A pull request that passes the check keeps every digest of main.
LEMMA MergeInv == ASSUME IndInv, Merge PROVE IndInv'
<1>0. /\ UNCHANGED <<edits, work, locker, daemon, start, running, file, world, backup, mishaps>>
      /\ main' = work /\ Loads(work) /\ Immutable(main.lock, work.lock)
  BY DEF Merge, CheckPasses, volume
<1>1. work \in Config /\ work.lock \in Locks
  BY <1>0, LoadsAgree DEF IndInv, RegistryTypes
<1>2. RegistryTypes'
  BY <1>0, <1>1 DEF IndInv, RegistryTypes
<1>3. DaemonOK' /\ ByFile' /\ OneTieEnough'
  BY <1>0 DEF IndInv, DaemonOK, ByFile, OneTieEnough, WorldKeepsIdentity
<1>4. ASSUME "push" \notin mishaps PROVE ByMain'
  <2>1. daemon # None => Immutable(daemon.lock, work.lock)
    BY <1>0, <1>4, ImmutableTransitive DEF IndInv, ByMain
  <2>2. \A id \in Ids : \A x \in {file[id], world[id], backup[id]} :
          x # None => id \in DOMAIN work.lock.packs /\ work.lock.packs[id].digest = x
    BY <1>0, <1>4 DEF IndInv, ByMain, Immutable
  <2> QED
    BY <1>0, <1>1, <2>1, <2>2 DEF ByMain, Immutable
<1>5. ByMain'
  BY <1>0, <1>4 DEF ByMain
<1> QED
  BY <1>2, <1>3, <1>5 DEF IndInv

\* A push that skips the check leaves the identity files.
LEMMA PushInv == ASSUME IndInv, Push PROVE IndInv'
<1>0. /\ UNCHANGED <<edits, work, locker, daemon, start, running, file, world, backup>>
      /\ main' = work /\ mishaps' = mishaps \cup {"push"}
  BY DEF Push, Mishap, volume
<1>1. RegistryTypes'
  BY <1>0 DEF IndInv, RegistryTypes
<1>2. DaemonOK' /\ ByFile' /\ OneTieEnough' /\ ByMain'
  BY <1>0 DEF IndInv, DaemonOK, ByFile, OneTieEnough, WorldKeepsIdentity, ByMain
<1> QED
  BY <1>1, <1>2 DEF IndInv

\* A lost volume leaves the locks, and the backups that agree with them.
LEMMA VolumeLostInv == ASSUME IndInv, VolumeLost PROVE IndInv'
<1>0. /\ UNCHANGED <<edits, work, main, locker, daemon, start, running, backup>>
      /\ daemon = None /\ mishaps' = mishaps \cup {"volume"}
      /\ file' = [id \in Ids |-> None] /\ world' = [id \in Ids |-> None]
  BY DEF VolumeLost, Mishap, repo
<1>1. RegistryTypes'
  BY <1>0 DEF IndInv, RegistryTypes, Maybe
<1>2. DaemonOK' /\ ByFile' /\ OneTieEnough'
  BY <1>0 DEF IndInv, DaemonOK, ByFile, OneTieEnough, WorldKeepsIdentity
<1>3. ByMain'
  BY <1>0 DEF IndInv, ByMain
<1> QED
  BY <1>1, <1>2, <1>3 DEF IndInv

----------------------------------------------------------------------------
\* The daemon

\* The daemon loads main; start() is called; the daemon ends.
LEMMA ServeInv == ASSUME IndInv, Serve \/ (\E id \in Ids : Start(id)) \/ Exit PROVE IndInv'
<1>0. UNCHANGED <<edits, work, main, locker, file, world, backup, mishaps>>
  BY DEF Serve, Start, Exit, repo, volume
<1>1. ByFile'
  BY <1>0 DEF IndInv, ByFile
<1>2. CASE Serve
  <2>1. /\ daemon = None /\ daemon' = main /\ UNCHANGED <<start, running>>
        /\ main \in Config /\ main.lock \in Locks
        /\ \A id \in DOMAIN main.yaml :
             id \in DOMAIN main.lock.packs /\ main.lock.packs[id].digest = main.yaml[id]
    BY <1>2, LoadsAgree DEF Serve, IndInv, RegistryTypes
  <2>2. start.pc = "idle" /\ running = None
    BY <2>1 DEF IndInv, DaemonOK
  <2>3. RegistryTypes'
    BY <1>0, <2>1 DEF IndInv, RegistryTypes
  <2>4. DaemonOK' /\ OneTieEnough'
    BY <1>0, <2>1, <2>2 DEF DaemonOK, OneTieEnough, WorldKeepsIdentity
  <2>5. ByMain'
    BY <1>0, <2>1 DEF IndInv, ByMain, Immutable
  <2> QED
    BY <1>1, <2>3, <2>4, <2>5 DEF IndInv
<1>3. ASSUME NEW id \in Ids, Start(id) PROVE IndInv'
  <2>1. /\ daemon # None /\ running = None /\ id \in DOMAIN daemon.yaml
        /\ start' = [pc |-> "restore", id |-> id] /\ UNCHANGED <<daemon, running>>
    BY <1>3 DEF Start
  <2>2. RegistryTypes'
    BY <1>0, <2>1 DEF IndInv, RegistryTypes, StartPCs, Maybe
  <2>3. DaemonOK' /\ OneTieEnough'
    BY <1>0, <2>1 DEF IndInv, DaemonOK, OneTieEnough, WorldKeepsIdentity
  <2>4. ByMain'
    BY <1>0, <2>1 DEF IndInv, ByMain, Immutable
  <2> QED
    BY <1>1, <2>2, <2>3, <2>4 DEF IndInv
<1>4. CASE Exit
  <2>1. daemon' = None /\ start' = NoStart /\ running' = None
    BY <1>4 DEF Exit
  <2>2. RegistryTypes'
    BY <1>0, <2>1 DEF IndInv, RegistryTypes, StartPCs, Maybe, NoStart
  <2>3. DaemonOK' /\ OneTieEnough' /\ ByMain'
    BY <1>0, <2>1 DEF IndInv, DaemonOK, OneTieEnough, WorldKeepsIdentity, ByMain, NoStart
  <2> QED
    BY <1>1, <2>2, <2>3 DEF IndInv
<1> QED
  BY <1>2, <1>3, <1>4

\* A world that comes back from its backup is as much tied as the backup.
LEMMA Restored ==
    ASSUME IndInv, NEW id \in Ids, world[id] = None, world' = [world EXCEPT ![id] = backup[id]],
           UNCHANGED <<main, daemon, running, file, backup, mishaps>>
    PROVE  /\ world' \in [Ids -> Maybe(Identities)]
           /\ ByFile' /\ ByMain' /\ OneTieEnough'
<1>1. /\ world \in [Ids -> Maybe(Identities)] /\ backup[id] \in Maybe(Identities)
      /\ world' \in [Ids -> Maybe(Identities)]
      /\ world'[id] = backup[id] /\ \A i \in Ids : i # id => world'[i] = world[i]
  BY DEF IndInv, RegistryTypes
<1>2. ByFile'
  BY <1>1 DEF IndInv, ByFile
<1>3. ByMain'
  BY <1>1 DEF IndInv, ByMain, Immutable
<1>4. OneTieEnough'
  <2>1. ASSUME running # None, daemon.yaml[running] = world[running]
        PROVE  running \in Ids /\ running # id
    <3>1. running \in Ids /\ daemon.yaml \in Registries /\ running \in DOMAIN daemon.yaml
      BY <2>1 DEF IndInv, RegistryTypes, DaemonOK, Maybe, Config
    <3>2. world[running] \in Identities
      BY <2>1, <3>1, RegistryIs
    <3> QED
      BY <3>1, <3>2, RegistryAssumption
  <2> QED
    BY <1>1, <2>1 DEF IndInv, OneTieEnough, WorldKeepsIdentity
<1> QED
  BY <1>1, <1>2, <1>3, <1>4

\* start() restores a missing directory; so does the command.
LEMMA RestoreInv ==
    ASSUME IndInv, Restore \/ (\E id \in Ids : RestoreCommand(id))
    PROVE  IndInv'
<1>0. UNCHANGED <<edits, work, main, locker, daemon, running, file, backup, mishaps>>
  BY DEF Restore, RestoreCommand, repo
<1>1. CASE Restore
  <2> DEFINE s == start.id
  <2>1. /\ start.pc = "restore" /\ start' = [start EXCEPT !.pc = "identify"]
        /\ world' = [world EXCEPT ![s] = IF world[s] = None THEN backup[s] ELSE world[s]]
    BY <1>1 DEF Restore
  <2>2. /\ daemon # None /\ s \in DOMAIN daemon.yaml /\ daemon.yaml \in Registries /\ running = None
        /\ start \in [pc: StartPCs, id: Maybe(Ids)] /\ world \in [Ids -> Maybe(Identities)]
    BY <2>1 DEF IndInv, DaemonOK, RegistryTypes, Config
  <2>3. s \in Ids
    BY <2>2, RegistryIs
  <2>4. start'.pc = "identify" /\ start'.id = s /\ start' \in [pc: StartPCs, id: Maybe(Ids)]
    BY <2>1, <2>2 DEF StartPCs
  <2>5. /\ world' \in [Ids -> Maybe(Identities)]
        /\ ByFile' /\ ByMain' /\ OneTieEnough'
    <3>1. CASE world[s] = None
      BY <1>0, <2>1, <2>3, <3>1, Restored
    <3>2. CASE world[s] # None
      <4>1. world' = world
        BY <2>1, <2>2, <3>2
      <4> QED
        BY <1>0, <2>2, <4>1 DEF IndInv, ByFile, ByMain, Immutable, OneTieEnough, WorldKeepsIdentity
    <3> QED
      BY <3>1, <3>2
  <2>6. RegistryTypes'
    BY <1>0, <2>4, <2>5 DEF IndInv, RegistryTypes
  <2>7. DaemonOK'
    BY <1>0, <2>2, <2>4 DEF IndInv, DaemonOK
  <2> QED
    BY <2>5, <2>6, <2>7 DEF IndInv
<1>2. ASSUME NEW id \in Ids, RestoreCommand(id) PROVE IndInv'
  <2>1. world[id] = None /\ world' = [world EXCEPT ![id] = backup[id]] /\ UNCHANGED start
    BY <1>2 DEF RestoreCommand
  <2>2. world' \in [Ids -> Maybe(Identities)] /\ ByFile' /\ ByMain' /\ OneTieEnough'
    BY <1>0, <2>1, Restored
  <2>3. RegistryTypes' /\ DaemonOK'
    BY <1>0, <2>1, <2>2 DEF IndInv, RegistryTypes, DaemonOK
  <2> QED
    BY <2>2, <2>3 DEF IndInv
<1> QED
  BY <1>1, <1>2

\* ensureInstanceIdentity writes the digest of main, or finds it.
LEMMA IdentifyInv == ASSUME IndInv, Identify PROVE IndInv'
<1> DEFINE s == start.id
           d == daemon.lock.packs[s].digest
<1>0. /\ UNCHANGED <<edits, work, main, locker, daemon, running, world, backup, mishaps>>
      /\ start.pc = "identify"
  BY DEF Identify, repo
<1>1. /\ daemon # None /\ s \in DOMAIN daemon.yaml /\ daemon.yaml \in Registries /\ running = None
      /\ start \in [pc: StartPCs, id: Maybe(Ids)] /\ file \in [Ids -> Maybe(Identities)]
      /\ s \in DOMAIN daemon.lock.packs /\ d = daemon.yaml[s]
  BY <1>0 DEF IndInv, DaemonOK, RegistryTypes, Config
<1>2. s \in Ids /\ d \in Identities /\ d # None
  BY <1>1, RegistryIs, RegistryAssumption
<1>3. CASE IdentityAgrees(s)
  <2>1. /\ file' = [file EXCEPT ![s] = d] /\ start' = [start EXCEPT !.pc = "launch"]
        /\ file[s] \in {None, d}
    BY <1>0, <1>3 DEF Identify, IdentityAgrees
  <2>2. /\ file' \in [Ids -> Maybe(Identities)]
        /\ file'[s] = d /\ \A i \in Ids : i # s => file'[i] = file[i]
    BY <1>1, <1>2, <2>1 DEF Maybe
  <2>3. start'.pc = "launch" /\ start'.id = s /\ start' \in [pc: StartPCs, id: Maybe(Ids)]
    BY <1>1, <2>1 DEF StartPCs
  <2>4. RegistryTypes'
    BY <1>0, <2>2, <2>3 DEF IndInv, RegistryTypes
  <2>5. DaemonOK'
    BY <1>0, <1>1, <2>2, <2>3 DEF IndInv, DaemonOK
  <2>6. ByFile'
    BY <1>0, <2>1, <2>2 DEF IndInv, ByFile
  <2>7. ASSUME "push" \notin mishaps
        PROVE  s \in DOMAIN main.lock.packs /\ main.lock.packs[s].digest = d
    BY <1>1, <2>7 DEF IndInv, ByMain, Immutable
  <2>8. ByMain'
    BY <1>0, <2>2, <2>7 DEF IndInv, ByMain, Immutable
  <2>9. OneTieEnough'
    BY <1>0, <1>1 DEF OneTieEnough, WorldKeepsIdentity
  <2> QED
    BY <2>4, <2>5, <2>6, <2>8, <2>9 DEF IndInv
<1>4. CASE ~IdentityAgrees(s)
  <2>1. start' = NoStart /\ UNCHANGED file
    BY <1>0, <1>4 DEF Identify
  <2>2. RegistryTypes'
    BY <1>0, <2>1 DEF IndInv, RegistryTypes, StartPCs, Maybe, NoStart
  <2>3. DaemonOK' /\ ByFile' /\ OneTieEnough'
    BY <1>0, <1>1, <2>1 DEF IndInv, DaemonOK, ByFile, OneTieEnough, WorldKeepsIdentity, NoStart
  <2>4. ByMain'
    BY <1>0, <2>1 DEF IndInv, ByMain, Immutable
  <2> QED
    BY <2>2, <2>3, <2>4 DEF IndInv
<1> QED
  BY <1>3, <1>4

\* The server starts on a new world of its own pack, or on one that a tie has
\* shown to be its own.
LEMMA LaunchInv == ASSUME IndInv, Launch PROVE IndInv'
<1> DEFINE s == start.id
           d == daemon.yaml[s]
<1>0. /\ UNCHANGED <<edits, work, main, locker, daemon, file, backup, mishaps>>
      /\ start.pc = "launch" /\ running' = s /\ start' = NoStart
      /\ world' = [world EXCEPT ![s] = IF world[s] = None THEN d ELSE world[s]]
  BY DEF Launch, repo
<1>1. /\ daemon # None /\ s \in DOMAIN daemon.yaml /\ daemon.yaml \in Registries
      /\ world \in [Ids -> Maybe(Identities)] /\ file[s] = d
  BY <1>0 DEF IndInv, DaemonOK, RegistryTypes, Config
<1>2. s \in Ids /\ d \in Identities /\ d # None
  BY <1>1, RegistryIs, RegistryAssumption
<1>3. /\ world' \in [Ids -> Maybe(Identities)]
      /\ world'[s] = IF world[s] = None THEN d ELSE world[s]
      /\ \A i \in Ids : i # s => world'[i] = world[i]
  BY <1>0, <1>1, <1>2 DEF Maybe
<1>4. RegistryTypes'
  BY <1>0, <1>2, <1>3 DEF IndInv, RegistryTypes, StartPCs, Maybe, NoStart
<1>5. DaemonOK'
  BY <1>0, <1>1 DEF IndInv, DaemonOK, NoStart
<1>6. ByFile'
  BY <1>0, <1>1, <1>3 DEF IndInv, ByFile
<1>7. ASSUME "push" \notin mishaps
      PROVE  /\ s \in DOMAIN main.lock.packs /\ main.lock.packs[s].digest = d
             /\ world[s] # None => world[s] = d
  BY <1>1, <1>2, <1>7 DEF IndInv, ByMain
<1>8. ASSUME "volume" \notin mishaps PROVE world[s] # None => world[s] = d
  BY <1>1, <1>2, <1>8 DEF IndInv, ByFile
<1>9. ByMain'
  <2>1. /\ main' = main /\ daemon' = daemon /\ file' = file /\ backup' = backup
        /\ mishaps' = mishaps
    BY <1>0
  <2>2. ASSUME "push" \notin mishaps
        PROVE  main.lock \in Locks /\ (daemon # None => Immutable(daemon.lock, main.lock))
    BY <2>2 DEF IndInv, ByMain
  <2>3. ASSUME "push" \notin mishaps, NEW id \in Ids,
               NEW x \in {file[id], world'[id], backup[id]}, x # None
        PROVE  id \in DOMAIN main.lock.packs /\ main.lock.packs[id].digest = x
    <3>1. CASE x \in {file[id], world[id], backup[id]}
      BY <2>3, <3>1 DEF IndInv, ByMain
    <3>2. CASE x \notin {file[id], world[id], backup[id]}
      <4>1. id = s /\ x = d
        BY <1>3, <2>3, <3>2
      <4> QED
        BY <1>7, <2>3, <4>1
    <3> QED
      BY <3>1, <3>2
  <2> QED
    BY <2>1, <2>2, <2>3 DEF ByMain
<1>10. OneTieEnough'
  BY <1>0, <1>3, <1>7, <1>8 DEF OneTieEnough, WorldKeepsIdentity
<1> QED
  BY <1>4, <1>5, <1>6, <1>9, <1>10 DEF IndInv

\* The backup has what the world had.
LEMMA StopAndBackupInv == ASSUME IndInv, StopAndBackup PROVE IndInv'
<1>0. /\ UNCHANGED <<edits, work, main, locker, daemon, start, file, mishaps>>
      /\ running # None /\ running' = None
  BY DEF StopAndBackup, repo
<1>1. PICK r : r = running
  OBVIOUS
<1>2. /\ r \in Ids /\ start.pc = "idle" /\ start \in [pc: StartPCs, id: Maybe(Ids)]
      /\ world \in [Ids -> Maybe(Identities)] /\ backup \in [Ids -> Maybe(Identities)]
  BY <1>0, <1>1 DEF IndInv, RegistryTypes, DaemonOK, Maybe
<1>3. /\ world' \in [Ids -> Maybe(Identities)] /\ backup' \in [Ids -> Maybe(Identities)]
      /\ \A i \in Ids : /\ world'[i] \in {world[i], None}
                        /\ backup'[i] \in {world[i], backup[i]}
  BY <1>0, <1>1, <1>2 DEF StopAndBackup, Maybe
<1>4. RegistryTypes'
  BY <1>0, <1>3 DEF IndInv, RegistryTypes, Maybe
<1>5. DaemonOK' /\ OneTieEnough'
  BY <1>0, <1>2 DEF IndInv, DaemonOK, OneTieEnough, WorldKeepsIdentity
<1>6. ByFile'
  BY <1>0, <1>3 DEF IndInv, ByFile
<1>7. ByMain'
  BY <1>0, <1>3 DEF IndInv, ByMain, Immutable
<1> QED
  BY <1>4, <1>5, <1>6, <1>7 DEF IndInv

----------------------------------------------------------------------------

\* Every step keeps the inductive invariant.
LEMMA NextInv == IndInv /\ [Next]_vars => IndInv'
<1> SUFFICES ASSUME IndInv, [Next]_vars PROVE IndInv'
  OBVIOUS
<1>1. CASE UNCHANGED vars
  <2>1. UNCHANGED <<edits, work, main, locker, daemon, start, running, file, world, backup, mishaps>>
    BY <1>1 DEF vars
  <2>2. edits \in 0..MaxEdits /\ work \in Config /\ locker \in Maybe(Registries)
    BY DEF IndInv, RegistryTypes
  <2> QED
    BY <2>1, <2>2, Aside
<1>2. CASE Edit
  BY <1>2, EditInv
<1>3. CASE LockLoad \/ LockRefused \/ LockWrite
  BY <1>3, LockInv
<1>4. CASE Merge
  BY <1>4, MergeInv
<1>5. CASE Push
  BY <1>5, PushInv
<1>6. CASE VolumeLost
  BY <1>6, VolumeLostInv
<1>7. CASE Serve \/ (\E id \in Ids : Start(id)) \/ Exit
  BY <1>7, ServeInv
<1>8. CASE Restore \/ (\E id \in Ids : RestoreCommand(id))
  BY <1>8, RestoreInv
<1>9. CASE Identify
  BY <1>9, IdentifyInv
<1>10. CASE Launch
  BY <1>10, LaunchInv
<1>11. CASE StopAndBackup
  BY <1>11, StopAndBackupInv
<1> QED
  BY <1>1, <1>2, <1>3, <1>4, <1>5, <1>6, <1>7, <1>8, <1>9, <1>10, <1>11 DEF Next

\* The inductive invariant holds in every state of every behaviour.
THEOREM Invariance == Spec => []IndInv
  BY InitInv, NextInv, PTL DEF Spec

\* Type correctness of the repository, the daemon and the volume.
THEOREM TypeCorrect == Spec => []RegistryTypeOK
<1>1. IndInv => RegistryTypeOK
  BY DEF IndInv, RegistryTypes, RegistryTypeOK, Config, StartPCs
<1> QED
  BY <1>1, Invariance, PTL

\* README.md: "Pack IDs cannot be changed or removed". Whatever is edited, locked,
\* merged, evicted, restored or lost, every identity file, world and backup belongs
\* to a pack of main, as long as nobody pushes to main past the check.
THEOREM NoOrphansEver == Spec => []NoOrphans
<1>1. IndInv => NoOrphans
  BY DEF IndInv, ByMain, NoOrphans
<1> QED
  BY <1>1, Invariance, PTL

\* A server runs on a world of another pack only after both ties were cut: a push
\* past the check and a lost volume; any number of mishaps of one kind is harmless.
THEOREM OneSafeguardIsEnough == Spec => []OneTieEnough
<1>1. IndInv => OneTieEnough
  BY DEF IndInv
<1> QED
  BY <1>1, Invariance, PTL

\* docs/operations.md: "Never point an existing ID at another version". With at
\* most one kind of mishap, as the bound MaxMishaps of the run has it, a server
\* runs only on a world that its own pack created.
THEOREM WorldKept == ASSUME MaxMishaps <= 1 PROVE Spec => []WorldKeepsIdentity
<1> DEFINE NotBoth == "push" \notin mishaps \/ "volume" \notin mishaps
           J == mishaps \subseteq {"push", "volume"} /\ NotBoth
<1>1. Init => J
  BY DEF Init
<1>2. ASSUME NEW kind \in {"push", "volume"}, Mishap(kind), mishaps \subseteq {"push", "volume"}
      PROVE  J'
  <2>1. mishaps' \subseteq {"push", "volume"} /\ Cardinality(mishaps') <= MaxMishaps
    BY <1>2 DEF Mishap
  <2>2. SUFFICES ASSUME mishaps' = {"push", "volume"} PROVE FALSE
    BY <2>1
  <2>3. IsFiniteSet({"volume"}) /\ Cardinality({"volume"}) = 1
    BY FS_Singleton
  <2>4. Cardinality({"volume"} \cup {"push"}) = 2
    BY <2>3, FS_AddElement
  <2>5. mishaps' = {"volume"} \cup {"push"}
    BY <2>2
  <2> QED
    BY <2>1, <2>4, <2>5, RegistryAssumption
<1>3. J /\ [Next]_vars => J'
  <2> SUFFICES ASSUME J, [Next]_vars PROVE J'
    OBVIOUS
  <2>1. CASE Push
    BY <1>2, <2>1 DEF Push
  <2>2. CASE VolumeLost
    BY <1>2, <2>2 DEF VolumeLost
  <2>3. CASE UNCHANGED mishaps
    BY <2>3
  <2> QED
    BY <2>1, <2>2, <2>3 DEF Next, vars, Edit, LockLoad, LockRefused, LockWrite, Merge, Serve, Start,
                            Restore, Identify, Launch, StopAndBackup, Exit, RestoreCommand
<1>4. OneTieEnough /\ J => WorldKeepsIdentity
  BY DEF OneTieEnough
<1>5. Spec => []J
  BY <1>1, <1>3, PTL DEF Spec
<1> QED
  BY <1>4, <1>5, OneSafeguardIsEnough, PTL
=============================================================================
