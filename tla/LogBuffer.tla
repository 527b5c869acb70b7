----------------------------- MODULE LogBuffer -----------------------------
(***************************************************************************)
(* The dashboard's log buffer (internal/webui/logbuffer.go): the recent    *)
(* lines in memory, and one bounded file with one rotated predecessor that *)
(* survive the daemon. Write holds b.mu throughout, so its steps interleave *)
(* with nothing but the end of the process, which can fall between any two *)
(* of them.                                                                *)
(*                                                                         *)
(* Abstractions: a file is the sequence of the pieces that writes appended *)
(* to it, each with its number, its length and whether it ends its line; a *)
(* missing file is an empty one. A log line is longer than its newline and *)
(* fits in a file. What write(2) took survives the process; the volume     *)
(* itself losing power is not part of the model, fstat never fails, and no *)
(* line reaches the 1 MiB at which the scanner gives up.                   *)
(***************************************************************************)
EXTENDS Integers, SequencesExt

CONSTANTS
    MaxEntries,   \* lines kept in memory
    MaxBytes,     \* bound of the file, in units of length
    Lens,         \* the lengths of log lines
    LogFaults,    \* kinds of faults of the file system and the process
    MaxLogFaults, \* bound: how many faults a behaviour contains
    MaxWrites     \* bound: how many pieces are written

ASSUME LogAssumption ==
    /\ MaxEntries \in Nat \ {0}
    /\ MaxBytes \in Nat \ {0}
    /\ Lens \subseteq 2 .. MaxBytes
    /\ LogFaults \subseteq {"crash", "closeErr", "removeErr", "renameErr", "createErr", "shortWrite"}
    /\ MaxLogFaults \in Nat
    /\ MaxWrites \in Nat

VARIABLES
    prev,      \* dashboard.log.1
    cur,       \* dashboard.log
    entries,   \* b.entries: lines, each the pieces it is made of
    size,      \* b.size
    handle,    \* b.file: open, closed, nil; "off" when no daemon runs
    pc,        \* where Write is
    arg,       \* the length of its argument
    accepted,  \* every piece some Write took, in order
    faults     \* faults injected so far

files == <<prev, cur>>
vars == <<prev, cur, entries, size, handle, pc, arg, accepted, faults>>

Pieces == [n: 1 .. MaxWrites, len: 1 .. MaxBytes, ended: BOOLEAN]

\* How many bytes a file holds.
Bytes(f) == FoldLeft(LAMBDA sum, p : sum + p.len, 0, f)

\* Types, and the bound that memory keeps: files and entries are made of pieces
\* that some Write took, and no restart or append leaves more than MaxEntries.
LogTypeOK ==
    /\ accepted \in Seq(Pieces) /\ Len(accepted) <= MaxWrites
    /\ \A f \in {prev, cur, FlattenSeq(entries)} : ToSet(f) \subseteq ToSet(accepted)
    /\ handle \in {"open", "closed", "nil", "off"}
    /\ pc \in {"idle", "close", "remove", "rename", "create", "write"}
    /\ arg \in Lens \cup {0}
    /\ faults \in 0 .. MaxLogFaults
    /\ size \in Nat
    /\ Len(entries) <= MaxEntries

Fault(kind) == kind \in LogFaults /\ faults < MaxLogFaults /\ faults' = faults + 1

----------------------------------------------------------------------------
\* appendEntry and load

\* Mutant: nothing is dropped.
AppendEntryUncapped(es, line) == Append(es, line)

\* The oldest entry makes room for the newest.
AppendEntry(es, line) ==
    LET more == Append(es, line)
    IN  SubSeq(more, IF Len(more) > MaxEntries THEN Len(more) - MaxEntries + 1 ELSE 1, Len(more))

\* The lines a scanner finds in a file: a piece that was cut short runs into the
\* one after it.
Lines(f) ==
    LET Scan(ls, p) == IF ls = <<>> \/ Last(Last(ls)).ended
                       THEN Append(ls, <<p>>)
                       ELSE Append(Front(ls), Append(Last(ls), p))
    IN  FoldLeft(Scan, <<>>, f)

Load(es, f) == FoldLeft(AppendEntry, es, Lines(f))

\* Mutant: the files are loaded newest first.
LoadedBackwards == Load(Load(<<>>, cur), prev)

\* NewLogBuffer loads the rotated file before the current one.
Loaded == Load(Load(<<>>, prev), cur)

\* Mutant: the buffer starts counting at zero.
StatSizeZero == 0

\* The file may hold lines already when NewLogBuffer opens it to append.
StatSize == Bytes(cur)

Recent(limit) ==
    SubSeq(entries, IF limit <= 0 \/ limit > Len(entries) THEN 1 ELSE Len(entries) - limit + 1,
           Len(entries))

----------------------------------------------------------------------------

Init ==
    /\ prev = <<>> /\ cur = <<>> /\ entries = <<>> /\ size = 0
    /\ handle = "off" /\ pc = "idle" /\ arg = 0
    /\ accepted = <<>> /\ faults = 0

NewLogBuffer ==
    /\ handle = "off"
    /\ handle' = "open"
    /\ entries' = Loaded
    /\ size' = StatSize
    /\ UNCHANGED <<files, pc, arg, accepted, faults>>

\* Write(p) with a line of len bytes takes the lock.
Write(len) ==
    /\ handle # "off" /\ pc = "idle" /\ Len(accepted) < MaxWrites
    /\ arg' = len
    /\ pc' = IF size + len > MaxBytes THEN "close" ELSE "write"
    /\ UNCHANGED <<files, entries, size, handle, accepted, faults>>

\* Write returns.
Return == pc' = "idle" /\ arg' = 0

\* Mutant: the error of Close is not looked at.
CloseFileRegardless ==
    /\ pc = "close"
    /\ handle' = IF handle = "nil" THEN "nil" ELSE "closed"
    /\ pc' = "remove"
    /\ UNCHANGED <<files, entries, size, arg, accepted, faults>>

\* rotate, step by step. Closing a file twice, or a nil one, is an error.
CloseFile ==
    /\ pc = "close"
    /\ \/ handle = "open" /\ handle' = "closed" /\ pc' = "remove" /\ UNCHANGED <<arg, faults>>
       \/ handle = "open" /\ handle' = "closed" /\ Fault("closeErr") /\ Return
       \/ handle # "open" /\ Return /\ UNCHANGED <<handle, faults>>
    /\ UNCHANGED <<files, entries, size, accepted>>

RemoveOld ==
    /\ pc = "remove"
    /\ \/ prev' = <<>> /\ pc' = "rename" /\ UNCHANGED <<arg, faults>>
       \/ Fault("removeErr") /\ Return /\ UNCHANGED prev
    /\ UNCHANGED <<cur, entries, size, handle, accepted>>

RenameCurrent ==
    /\ pc = "rename"
    /\ \/ prev' = cur /\ cur' = <<>> /\ pc' = "create" /\ UNCHANGED <<arg, faults>>
       \/ Fault("renameErr") /\ Return /\ UNCHANGED files
    /\ UNCHANGED <<entries, size, handle, accepted>>

Create ==
    /\ pc = "create"
    /\ \/ cur' = <<>> /\ handle' = "open" /\ size' = 0 /\ pc' = "write" /\ UNCHANGED <<arg, faults>>
       \/ Fault("createErr") /\ Return /\ UNCHANGED <<cur, handle, size>>
    /\ UNCHANGED <<prev, entries, accepted>>

\* The bytes that the file took become an entry; a closed file takes none.
Took(n) ==
    LET piece == [n |-> Len(accepted) + 1, len |-> n, ended |-> n = arg] IN
    /\ cur' = Append(cur, piece)
    /\ size' = size + n
    /\ entries' = AppendEntry(entries, <<piece>>)
    /\ accepted' = Append(accepted, piece)

WriteFile ==
    /\ pc = "write"
    /\ \/ handle = "open" /\ Took(arg) /\ UNCHANGED faults
       \/ /\ handle = "open" /\ Fault("shortWrite")
          /\ \/ \E n \in 1 .. arg - 1 : Took(n)
             \/ UNCHANGED <<cur, size, entries, accepted>>
       \/ handle # "open" /\ UNCHANGED <<cur, size, entries, accepted, faults>>
    /\ Return
    /\ UNCHANGED <<prev, handle>>

\* serve's deferred Close; goroutines that still log find a nil file.
Close ==
    /\ handle \in {"open", "closed"} /\ pc = "idle"
    /\ handle' = "nil"
    /\ UNCHANGED <<files, entries, size, pc, arg, accepted, faults>>

\* The process ends after Close, or anywhere when it is killed.
Exit ==
    /\ \/ handle = "nil" /\ pc = "idle" /\ UNCHANGED faults
       \/ handle # "off" /\ Fault("crash")
    /\ handle' = "off" /\ entries' = <<>> /\ size' = 0
    /\ Return
    /\ UNCHANGED <<files, accepted>>

Rotate == CloseFile \/ RemoveOld \/ RenameCurrent \/ Create

Next ==
    \/ NewLogBuffer
    \/ \E len \in Lens : Write(len)
    \/ Rotate \/ WriteFile \/ Close \/ Exit

Spec == Init /\ [][Next]_vars

----------------------------------------------------------------------------

\* The comment of LogBuffer: "one bounded, rotated file". Neither file outgrows
\* the limit, over all the restarts, short writes and failed rotations.
FileCap == Bytes(prev) <= MaxBytes /\ Bytes(cur) <= MaxBytes

\* The dashboard shows the newest log lines in the order they were written, and
\* after a restart as many as the files hold and memory has room for.
ShowsRecent ==
    \A limit \in 0 .. MaxEntries + 1 :
        /\ IsSuffix(FlattenSeq(Recent(limit)), accepted)
        /\ handle # "off" /\ limit = 0 =>
             \/ Len(Recent(limit)) = MaxEntries
             \/ Bytes(prev) + Bytes(cur) <= Bytes(FlattenSeq(Recent(limit)))

\* "The persistent copy survives Machine stops": whichever step of a rotation
\* fails or is cut off, and however often it is tried again, the files keep
\* everything, or more than a full file less its longest line.
RetainsEnough ==
    \/ Bytes(prev) + Bytes(cur) = Bytes(accepted)
    \/ \E len \in Lens : Bytes(prev) + Bytes(cur) > MaxBytes - len
=============================================================================
