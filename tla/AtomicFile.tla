----------------------------- MODULE AtomicFile -----------------------------
(***************************************************************************)
(* Files that are replaced by renaming a temporary one: active.json, the   *)
(* identity file of an instance, packs.lock.json and the objects of the    *)
(* filesystem backend. The four functions take the same steps; only        *)
(* StateFile.Save holds a mutex and syncs the directory at the end, so     *)
(* `kind' is "state" or "plain". Every step may fail, the process may end  *)
(* between any two, and the power may fail, after which the disk has what  *)
(* was synced and any part of the rest.                                    *)
(*                                                                         *)
(* Files are numbered as CreateTemp makes them. The renames onto the path  *)
(* are kept in order; the path names the file of the last one.             *)
(***************************************************************************)
EXTENDS Naturals, Sequences, FiniteSets

CONSTANTS
    Writers,   \* callers that may write at the same time
    MaxFiles,  \* bound: files created
    None

ASSUME AtomicFileAssumption == MaxFiles \in Nat /\ None \notin Writers \cup Nat

VARIABLES
    kind,      \* which of the functions it is
    call,      \* what each caller is doing
    mutex,     \* StateFile.mu
    data,      \* content of every file: "empty", "part", "whole"
    synced,    \* files whose content is on the disk
    temps,     \* files that have a temporary name
    order,     \* files renamed onto the path
    durable,   \* renames that are on the disk
    promised,  \* renames of which a caller was told that they succeeded
    ended      \* how the process has ended so far: "exit", "power"

file == <<data, synced, temps>>
path == <<order, durable>>
vars == <<kind, call, mutex, file, path, promised, ended>>

Files == 1..MaxFiles
PCs == {"idle", "create", "write", "sync", "close", "rename", "syncDir", "return"}
NoCall == [pc |-> "idle", file |-> None, at |-> 0, err |-> FALSE]

AtomicFileTypeOK ==
    /\ kind \in {"state", "plain"}
    /\ call \in [Writers -> [pc: PCs, file: Files \cup {None}, at: 0..MaxFiles, err: BOOLEAN]]
    /\ mutex \in Writers \cup {None}
    /\ \E n \in 0..MaxFiles : data \in [1..n -> {"empty", "part", "whole"}]
    /\ synced \subseteq DOMAIN data /\ temps \subseteq DOMAIN data
    /\ order \in Seq(DOMAIN data)
    /\ durable \in 0..Len(order) /\ promised \in 0..MaxFiles
    /\ ended \subseteq {"exit", "power"}

----------------------------------------------------------------------------

\* What StateFile.Load finds: nothing, the file of a rename, or no JSON.
Load ==
    IF order = <<>> THEN "idle"
    ELSE IF data[order[Len(order)]] = "whole" THEN "state" ELSE "error"

Init ==
    /\ kind \in {"state", "plain"}
    /\ call = [w \in Writers |-> NoCall] /\ mutex = None
    /\ data = <<>> /\ synced = {} /\ temps = {}
    /\ order = <<>> /\ durable = 0 /\ promised = 0
    /\ ended = {}

At(w, pc) == call[w].pc = pc

Go(w, pc) == call' = [call EXCEPT ![w].pc = pc]

\* Mutant: an error is logged and the file renamed all the same.
FailsOver(w, pc) == Go(w, "rename")

\* A step that fails: nothing more is done but closing and removing the file.
Fails(w, pc) == call' = [call EXCEPT ![w].pc = pc, ![w].err = TRUE]

Begin(w) ==
    /\ At(w, "idle") /\ Len(data) < MaxFiles
    /\ kind = "state" => mutex = None
    /\ mutex' = IF kind = "state" THEN w ELSE mutex
    /\ Go(w, "create")
    /\ UNCHANGED <<kind, file, path, promised, ended>>

Create(w) ==
    /\ At(w, "create") /\ Len(data) < MaxFiles
    /\ \/ /\ data' = Append(data, "empty")
          /\ temps' = temps \cup {Len(data')}
          /\ call' = [call EXCEPT ![w].pc = "write", ![w].file = Len(data')]
       \/ Fails(w, "return") /\ UNCHANGED <<data, temps>>
    /\ UNCHANGED <<kind, mutex, synced, path, promised, ended>>

\* The whole content is written, or the volume is full before that.
Write(w) ==
    /\ At(w, "write")
    /\ \E d \in {"empty", "part", "whole"} :
         /\ data' = [data EXCEPT ![call[w].file] = d]
         /\ IF d = "whole" THEN Go(w, "sync") ELSE Fails(w, "close")
    /\ UNCHANGED <<kind, mutex, synced, temps, path, promised, ended>>

\* Mutant: the content is left to the page cache.
SyncedLater(w) == UNCHANGED synced

Synced(w) == synced' = synced \cup {call[w].file}

Sync(w) ==
    /\ At(w, "sync")
    /\ \/ Synced(w) /\ Go(w, "close")
       \/ Fails(w, "close") /\ UNCHANGED synced
    /\ UNCHANGED <<kind, mutex, data, temps, path, promised, ended>>

Close(w) ==
    /\ At(w, "close")
    /\ IF call[w].err THEN Go(w, "return") ELSE Go(w, "rename") \/ Fails(w, "return")
    /\ UNCHANGED <<kind, mutex, file, path, promised, ended>>

\* Mutant: the directory is left to the file system.
AfterRenameNoSync == "return"

AfterRename == IF kind = "state" THEN "syncDir" ELSE "return"

Rename(w) ==
    /\ At(w, "rename")
    /\ \/ /\ order' = Append(order, call[w].file)
          /\ temps' = temps \ {call[w].file}
          /\ call' = [call EXCEPT ![w].pc = AfterRename, ![w].at = Len(order')]
       \/ Fails(w, "return") /\ UNCHANGED <<order, temps>>
    /\ UNCHANGED <<kind, mutex, data, synced, durable, promised, ended>>

SyncDir(w) ==
    /\ At(w, "syncDir")
    /\ \/ durable' = Len(order) /\ Go(w, "return")
       \/ Fails(w, "return") /\ UNCHANGED durable
    /\ UNCHANGED <<kind, mutex, file, order, promised, ended>>

\* Mutant: the temporary file is removed at the end, not by a deferred call.
RemovedAfterRename(w) == IF call[w].err THEN temps ELSE temps \ {call[w].file}

\* defer os.Remove(tmp)
Removed(w) == temps \ {call[w].file}

Return(w) ==
    /\ At(w, "return")
    /\ temps' = Removed(w)
    /\ promised' = IF call[w].err \/ call[w].at < promised THEN promised ELSE call[w].at
    /\ mutex' = IF mutex = w THEN None ELSE mutex
    /\ call' = [call EXCEPT ![w] = NoCall]
    /\ UNCHANGED <<kind, data, synced, path, ended>>

\* The process ends; what it has written stays in the page cache.
Exit ==
    /\ call' = [w \in Writers |-> NoCall] /\ mutex' = None
    /\ ended' = ended \cup {"exit"}
    /\ UNCHANGED <<kind, file, path, promised>>

\* The machine stops: some of the last renames and of the data that was not
\* synced may be gone.
PowerLoss ==
    /\ call' = [w \in Writers |-> NoCall] /\ mutex' = None
    /\ \E n \in durable..Len(order) : order' = SubSeq(order, 1, n) /\ durable' = n
    /\ data' \in {d \in [DOMAIN data -> {"empty", "part", "whole"}] :
                   \A f \in DOMAIN data :
                     d[f] = data[f] \/ (f \notin synced /\ d[f] # "whole")}
    /\ synced' = DOMAIN data
    /\ ended' = ended \cup {"power"}
    /\ UNCHANGED <<kind, temps, promised>>

Call(w) ==
    \/ Begin(w) \/ Create(w) \/ Write(w) \/ Sync(w) \/ Close(w)
    \/ Rename(w) \/ SyncDir(w) \/ Return(w)

Next == (\E w \in Writers : Call(w)) \/ Exit \/ PowerLoss

Spec == Init /\ [][Next]_vars

----------------------------------------------------------------------------

\* Whatever fails and whenever the process or the power goes, the next Load of the
\* state, of a lock or of a backup finds no file or one that was written to its
\* end, never a part of one (state.go: "return State{}, err" would leave a
\* daemon that refuses every login).
NeverTorn == Load # "error"

\* A state that Save has reported as saved is there after any end of the process
\* and after a loss of power; the other files only promise that for the end of
\* the process. Later writes, also failed ones, never bring back an older file.
NeverBack == kind = "state" \/ "power" \notin ended => promised <= Len(order)

\* Temporary files are left behind by a process that ends in the middle only:
\* every failing path of the functions removes its own.
TempsRemoved == ended = {} => \A f \in temps : \E w \in Writers : call[w].file = f
=============================================================================
