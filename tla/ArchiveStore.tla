---------------------------- MODULE ArchiveStore ----------------------------
(***************************************************************************)
(* The backup store (internal/store/store.go) for one pack: Head, Commit   *)
(* and Restore over a backend that lists, opens and puts objects. A        *)
(* generation is an archive and a manifest with the digest of the archive; *)
(* Head reads them one object at a time, so everything a concurrent client *)
(* does may happen between two of its reads.                               *)
(*                                                                         *)
(* Clients are the daemon's goroutines and the commands "backup list" and  *)
(* "backup restore". A world's content stands for the bytes of its archive *)
(* and for their digest and size: two archives of the same directory are   *)
(* the same, as writeArchive() walks it in lexical order.                  *)
(*                                                                         *)
(* Which backend there is, how many goroutines commit and what may fail is *)
(* a setup: a behaviour has one, and a property says in which it holds.    *)
(***************************************************************************)
EXTENDS Integers, FiniteSetsExt

CONSTANTS
    Clients,        \* callers of the store
    Setups,         \* the setups that a model looks at
    Contents,       \* contents a world may have when it is archived
    Absent,         \* no such object or directory
    Partial,        \* an object that holds only a part of what was sent
    MaxStoreFaults, \* bound: how many faults happen
    MaxGeneration   \* bound: no commit goes beyond this generation

StoreFaultKinds == {"crash", "listErr", "openErr", "putErr"}

\* atomic: Put replaces an object at once (filesystem, S3), or streams into it
\* (rclone); committers: the clients that are goroutines of the daemon.
Setup == [atomic: BOOLEAN, committers: SUBSET Clients, faults: SUBSET StoreFaultKinds]

ASSUME StoreAssumption ==
    /\ Setups \subseteq Setup
    /\ Absent \notin Contents /\ Partial \notin Contents /\ Absent # Partial
    /\ MaxStoreFaults \in Nat
    /\ MaxGeneration \in Nat

VARIABLES
    setup,      \* the setup of this behaviour
    archives,   \* <id>/saves/<generation>.tar.zst
    manifests,  \* <id>/saves/<generation>.json
    calls,      \* the call each client is in
    known,      \* Generation in the daemon's state, the one Commit expects
    dest,       \* instances/<id>/server, which Commit archives and Restore creates
    mishaps     \* faults so far

vars == <<setup, archives, manifests, calls, known, dest, mishaps>>

----------------------------------------------------------------------------

AtomicPut == setup.atomic
Committers == setup.committers
StoreFaults == setup.faults

Generations == 1 .. MaxGeneration

Objects == Contents \cup {Absent, Partial}

\* keys: manifests that Head has yet to read, one of them being at work; seen:
\* digest in that manifest; base: the generation that Commit expects, that is to
\* be recorded, or (history) the newest one when Restore was called; content:
\* the world being archived or unpacked.
CallType == [op: {"none", "head", "commit", "verify", "restore"},
             pc: {"idle", "list", "manifest", "archive", "record", "putArchive", "upload",
                  "putManifest", "uploadManifest", "unpack", "stat", "rename"},
             keys: SUBSET Generations, seen: Contents \cup {Absent}, base: 0 .. MaxGeneration,
             content: Objects]

NoCall == [op |-> "none", pc |-> "idle", keys |-> {}, seen |-> Absent, base |-> 0,
           content |-> Absent]

StoreTypeOK ==
    /\ setup \in Setups
    /\ archives \in [Generations -> Objects]
    /\ manifests \in [Generations -> Objects]
    /\ calls \in [Clients -> CallType]
    /\ known \in 0 .. MaxGeneration
    /\ dest \in Objects
    /\ mishaps \in 0 .. MaxStoreFaults

Init ==
    /\ setup \in Setups
    /\ archives = [g \in Generations |-> Absent]
    /\ manifests = [g \in Generations |-> Absent]
    /\ calls = [c \in Clients |-> NoCall]
    /\ known = 0
    /\ dest = Absent
    /\ mishaps = 0

Mishap(kind) == kind \in StoreFaults /\ mishaps < MaxStoreFaults /\ mishaps' = mishaps + 1

\* A definition marked "Mutant" is a plausible error in the one that follows.
Goto(c, pc) == calls' = [calls EXCEPT ![c].pc = pc]
Return(c) == calls' = [calls EXCEPT ![c] = NoCall]

Complete(g) == manifests[g] \in Contents /\ archives[g] = manifests[g]

Newest == Max({0} \cup {g \in Generations : Complete(g)})

----------------------------------------------------------------------------
\* Calls

\* start() looks for the head: with a new State literal, which forgets the
\* generation, or with the state of the interrupted run.
CallHead(c) ==
    /\ calls[c].pc = "idle"
    /\ calls' = [calls EXCEPT ![c] = [NoCall EXCEPT !.op = "head", !.pc = "list"]]
    /\ known' \in IF c \in Committers THEN {0, known} ELSE {known}
    /\ UNCHANGED <<archives, manifests, dest, mishaps>>

\* stopAndBackup() commits, Shutdown's beside that of another drain.
CallCommit(c) ==
    /\ c \in Committers /\ calls[c].pc = "idle"
    /\ known < MaxGeneration
    /\ calls' = [calls EXCEPT ![c] = [NoCall EXCEPT !.op = "commit", !.pc = "list", !.base = known]]
    /\ UNCHANGED <<archives, manifests, known, dest, mishaps>>

CallRestore(c) ==
    /\ calls[c].pc = "idle"
    /\ calls' = [calls EXCEPT ![c] = [NoCall EXCEPT !.op = "restore", !.pc = "list", !.base = Newest]]
    /\ UNCHANGED <<archives, manifests, known, dest, mishaps>>

----------------------------------------------------------------------------
\* Head, and what each caller makes of its answer

\* Mutant: Commit does not compare the head with the expected generation.
NeverConflicts(c, g) == TRUE

Expected(c, g) == g = calls[c].base

\* Commit reads back what it wrote.
Verified(c, g) == g = calls[c].base + 1 /\ calls[c].seen = calls[c].content

\* The caller will write g to its state.
Keep(c, g) == calls' = [calls EXCEPT ![c].pc = "record", ![c].base = g]

\* Head answers g, or that there is no backup (0).
Answer(c, g) ==
    \/ /\ calls[c].op = "head"
       /\ IF g > 0 /\ c \in Committers THEN Keep(c, g) ELSE Return(c)
    \/ /\ calls[c].op = "commit"
       /\ IF Expected(c, g) THEN Goto(c, "putArchive") ELSE Return(c)
    \/ /\ calls[c].op = "verify"
       /\ IF Verified(c, g) THEN Keep(c, g) ELSE Return(c)
    \/ /\ calls[c].op = "restore"
       /\ IF g > 0 THEN Goto(c, "unpack") ELSE Return(c)

HeadList(c) ==
    /\ calls[c].pc = "list"
    /\ \/ /\ calls' = [calls EXCEPT ![c].pc = "manifest",
                                    ![c].keys = {g \in Generations : manifests[g] # Absent}]
          /\ UNCHANGED mishaps
       \/ Mishap("listErr") /\ Return(c)
    /\ UNCHANGED <<archives, manifests, known, dest>>

\* Mutant: the keys are not sorted in reverse.
OldestKey(c) == Min(calls[c].keys)

\* The manifest at work: the newest that is left.
Key(c) == Max(calls[c].keys)

\* A manifest or an archive that cannot be opened is skipped.
Skip(c) == calls' = [calls EXCEPT ![c].pc = "manifest", ![c].keys = calls[c].keys \ {Key(c)}]

\* Mutant: a manifest that does not parse is used all the same.
Unparsed(c) == TRUE

Decodable(c) == manifests[Key(c)] # Partial

HeadManifest(c) ==
    /\ calls[c].pc = "manifest"
    /\ \/ calls[c].keys = {} /\ Answer(c, 0) /\ UNCHANGED mishaps
       \/ /\ calls[c].keys # {} /\ Decodable(c)
          /\ calls' = [calls EXCEPT ![c].pc = "archive", ![c].seen = manifests[Key(c)]]
          /\ UNCHANGED mishaps
       \/ /\ calls[c].keys # {}
          /\ (~Decodable(c) /\ UNCHANGED mishaps) \/ Mishap("openErr")
          /\ Skip(c)
    /\ UNCHANGED <<archives, manifests, known, dest>>

Intact(c) == archives[Key(c)] = calls[c].seen

HeadArchive(c) ==
    /\ calls[c].pc = "archive"
    /\ \/ Intact(c) /\ Answer(c, Key(c)) /\ UNCHANGED mishaps
       \/ /\ (~Intact(c) /\ UNCHANGED mishaps) \/ Mishap("openErr")
          /\ Skip(c)
    /\ UNCHANGED <<archives, manifests, known, dest>>

\* start() or stopAndBackup() takes the lock and writes Generation.
Record(c) ==
    /\ calls[c].pc = "record"
    /\ known' = calls[c].base
    /\ Return(c)
    /\ UNCHANGED <<archives, manifests, dest, mishaps>>

----------------------------------------------------------------------------
\* The rest of Commit

Target(c) == calls[c].base + 1

\* The directory is archived while it is sent. A streaming backend shows an object
\* before it is whole; a failed Put may or may not have taken effect.
PutArchive(c) ==
    /\ calls[c].pc = "putArchive"
    /\ archives' = [archives EXCEPT ![Target(c)] = IF AtomicPut THEN @ ELSE Partial]
    /\ calls' = [calls EXCEPT ![c].pc = "upload", ![c].content = dest]
    /\ UNCHANGED <<manifests, known, dest, mishaps>>

\* Mutant: the manifest is sent even though the archive was not.
ManifestRegardless(ok) == "putManifest"

AfterUpload(ok) == IF ok THEN "putManifest" ELSE "idle"

\* Without a directory there is no archive.
Upload(c) ==
    LET sent == calls[c].content # Absent IN
    /\ calls[c].pc = "upload"
    /\ \E ok \in BOOLEAN :
         /\ \/ ok = sent /\ UNCHANGED mishaps
            \/ ~ok /\ Mishap("putErr")
         /\ \/ sent /\ archives' = [archives EXCEPT ![Target(c)] = calls[c].content]
            \/ ~ok /\ UNCHANGED archives
         /\ IF AfterUpload(ok) = "idle" THEN Return(c) ELSE Goto(c, AfterUpload(ok))
    /\ UNCHANGED <<manifests, known, dest>>

PutManifest(c) ==
    /\ calls[c].pc = "putManifest"
    /\ manifests' = [manifests EXCEPT ![Target(c)] = IF AtomicPut THEN @ ELSE Partial]
    /\ Goto(c, "uploadManifest")
    /\ UNCHANGED <<archives, known, dest, mishaps>>

ManifestSent(c) == manifests' = [manifests EXCEPT ![Target(c)] = calls[c].content]

\* Mutant: the generation counts whether or not the manifest was sent.
UploadManifestUnchecked(c) ==
    /\ calls[c].pc = "uploadManifest"
    /\ ManifestSent(c) \/ UNCHANGED manifests
    /\ known' = Target(c)
    /\ Return(c)
    /\ UNCHANGED <<archives, dest, mishaps>>

\* Commit goes on to read the generation back.
UploadManifest(c) ==
    /\ calls[c].pc = "uploadManifest"
    /\ \/ /\ ManifestSent(c)
          /\ calls' = [calls EXCEPT ![c].op = "verify", ![c].pc = "list"]
          /\ UNCHANGED mishaps
       \/ /\ Mishap("putErr")
          /\ ManifestSent(c) \/ UNCHANGED manifests
          /\ Return(c)
    /\ UNCHANGED <<archives, known, dest>>

----------------------------------------------------------------------------
\* The rest of Restore: unpack next to the destination, check, rename

\* Mutant: what was unpacked is not compared with the manifest.
ChecksumIgnored(c) == TRUE

ChecksumOK(c) == archives[Key(c)] = calls[c].seen

Unpack(c) ==
    /\ calls[c].pc = "unpack"
    /\ \/ /\ ChecksumOK(c)
          /\ calls' = [calls EXCEPT ![c].pc = "stat", ![c].content = archives[Key(c)]]
          /\ UNCHANGED mishaps
       \/ /\ (~ChecksumOK(c) /\ UNCHANGED mishaps) \/ Mishap("openErr")
          /\ Return(c)
    /\ UNCHANGED <<archives, manifests, known, dest>>

\* os.Stat: a destination that is there is refused ...
Stat(c) ==
    /\ calls[c].pc = "stat"
    /\ IF dest = Absent THEN Goto(c, "rename") ELSE Return(c)
    /\ UNCHANGED <<archives, manifests, known, dest, mishaps>>

\* ... and os.Rename fails on a directory that has appeared since.
Rename(c) ==
    /\ calls[c].pc = "rename"
    /\ dest' = IF dest = Absent THEN calls[c].content ELSE dest
    /\ Return(c)
    /\ UNCHANGED <<archives, manifests, known, mishaps>>

----------------------------------------------------------------------------
\* The world around the store

\* While a directory is archived no server changes it (NoTornBackup of Manager) and
\* nobody removes it.
Still == \A c \in Clients : calls[c].op \notin {"commit", "verify"}

\* A server changes its world, or creates one.
Play ==
    /\ Still
    /\ dest' \in Contents
    /\ UNCHANGED <<archives, manifests, calls, known, mishaps>>

\* The directory goes away: eviction or a lost volume.
Remove ==
    /\ Still
    /\ dest' = Absent
    /\ UNCHANGED <<archives, manifests, calls, known, mishaps>>

\* The machine stops with all its clients; the state file keeps the generation.
Crash ==
    /\ Mishap("crash")
    /\ calls' = [c \in Clients |-> NoCall]
    /\ UNCHANGED <<archives, manifests, known, dest>>

ReadHead(c) == HeadList(c) \/ HeadManifest(c) \/ HeadArchive(c) \/ Record(c)
Commit(c) == PutArchive(c) \/ Upload(c) \/ PutManifest(c) \/ UploadManifest(c)
Restore(c) == Unpack(c) \/ Stat(c) \/ Rename(c)

Next ==
    /\ \/ \E c \in Clients :
             \/ CallHead(c) \/ CallCommit(c) \/ CallRestore(c)
             \/ ReadHead(c) \/ Commit(c) \/ Restore(c)
       \/ Play
       \/ Remove
       \/ Crash
    /\ UNCHANGED setup

Spec == Init /\ [][Next]_vars

----------------------------------------------------------------------------
\* Properties. In a setup where generations may be overwritten or overlooked they
\* say less; the README lists what is lost there.

\* One goroutine commits at a time.
Exclusive == \A c, d \in Committers : c = d

\* Commits overlap only over a backend that puts objects at once, and every object
\* that is there can be opened.
Sound == (AtomicPut \/ Exclusive) /\ "openErr" \notin StoreFaults

\* configuration.md: "uploads the manifest last". A whole manifest is only
\* ever there with the archive it describes, whatever fails or crashes in between
\* and whoever commits beside.
ManifestLast == Sound => \A g \in Generations : manifests[g] \in Contents => Complete(g)

\* The generation the daemon goes by is one the store can restore, so that a
\* directory evicted after Commit returned has its copy: also when Head skipped a
\* newer one that it could not open, or when two goroutines commit the same world.
KnownExists == Sound \/ Exclusive => known = 0 \/ Complete(known)

\* operations.md: Restore "verifies the archive checksum before the final
\* rename": what appears at the destination is a whole world, in every setup.
RestoredWhole == dest # Partial

\* The generation that Restore unpacks is no older than the newest generation at the time of the
\* call, whatever is committed while it reads.
RestoresNewest ==
    Sound => \A c \in Clients : calls[c].pc \in {"unpack", "stat", "rename"} =>
                Key(c) >= calls[c].base

\* The complete generations are a log that only grows (module GenerationLog), by
\* one world at a time, also when two goroutines commit at once.
Log == INSTANCE GenerationLog WITH log <- IF Sound THEN [g \in 1 .. Newest |-> archives[g]] ELSE <<>>

LogSpec == Log!Spec
=============================================================================
