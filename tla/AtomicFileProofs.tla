-------------------------- MODULE AtomicFileProofs --------------------------
(***************************************************************************)
(* Proofs about AtomicFile, for any set of writers and any number of files.*)
(* The inductive invariant says where the file of a call is between its    *)
(* creation and its rename (nobody else's, not yet on the path, whole and  *)
(* synced once Close has succeeded), what the path has been given so far,  *)
(* and how far the promises made to callers reach.                         *)
(***************************************************************************)
EXTENDS AtomicFile, FiniteSetTheorems, SequenceTheorems, TLAPS

Contents == {"empty", "part", "whole"}
Calls == [pc: PCs, file: Files \cup {None}, at: Nat, err: BOOLEAN]

\* The types, with the bound on the number of renames left out: that a file is
\* renamed once is what gives it.
FileTypes ==
    /\ kind \in {"state", "plain"}
    /\ call \in [Writers -> Calls]
    /\ mutex \in Writers \cup {None}
    /\ data \in Seq(Contents) /\ Len(data) <= MaxFiles
    /\ synced \subseteq 1..Len(data) /\ temps \subseteq 1..Len(data)
    /\ order \in Seq(1..Len(data))
    /\ durable \in 0..Len(order) /\ promised \in 0..MaxFiles
    /\ ended \subseteq {"exit", "power"}

\* A call has no file before CreateTemp, and a file of its own from then on.
OwnFiles ==
    /\ \A w \in Writers :
         /\ call[w].pc \in {"idle", "create"} =>
              call[w].file = None /\ call[w].at = 0 /\ ~call[w].err
         /\ call[w].pc \in {"write", "sync", "close", "rename", "syncDir"} =>
              call[w].file # None
         /\ call[w].file # None => call[w].file \in 1..Len(data)
    /\ \A v, w \in Writers :
         v # w /\ call[v].file # None => call[v].file # call[w].file

\* Until its rename the file of a call is not on the path; it is written and
\* synced before it can be renamed.
BeforeRename ==
    \A w \in Writers :
      /\ call[w].pc \in {"write", "sync", "close", "rename"} =>
           \A i \in 1..Len(order) : order[i] # call[w].file
      /\ call[w].pc = "sync" => data[call[w].file] = "whole" /\ ~call[w].err
      /\ call[w].pc \in {"write", "rename"} => ~call[w].err
      /\ call[w].pc \in {"close", "rename"} /\ ~call[w].err =>
           data[call[w].file] = "whole" /\ call[w].file \in synced

\* Every file that was renamed onto the path is whole, on the disk and was
\* renamed once.
RenamedWhole ==
    /\ \A i \in 1..Len(order) : data[order[i]] = "whole" /\ order[i] \in synced
    /\ \A i, j \in 1..Len(order) : i # j => order[i] # order[j]

\* What callers were told, and what the one that is about to return will be.
Promises ==
    /\ \A w \in Writers : call[w].at <= Len(order)
    /\ kind = "state" =>
         /\ promised <= durable
         /\ \A w \in Writers : At(w, "return") /\ ~call[w].err => call[w].at <= durable
    /\ "power" \notin ended => promised <= Len(order)

IndInv == FileTypes /\ OwnFiles /\ BeforeRename /\ RenamedWhole /\ Promises /\ TempsRemoved
----------------------------------------------------------------------------

\* What Go does to the record of a call.
LEMMA GoEdits ==
    ASSUME call \in [Writers -> Calls], NEW w \in Writers, NEW pc \in PCs, Go(w, pc)
    PROVE  /\ call' \in [Writers -> Calls]
           /\ \A v \in Writers : v # w => call'[v] = call[v]
           /\ call'[w].pc = pc
           /\ call'[w].file = call[w].file
           /\ call'[w].at = call[w].at
           /\ call'[w].err <=> call[w].err
<1>1. call'[w].err <=> call[w].err
  BY DEF Calls, Go
<1> QED
  BY <1>1 DEF Calls, Go

\* What Fails does to the record of a call.
LEMMA FailsEdits ==
    ASSUME call \in [Writers -> Calls], NEW w \in Writers, NEW pc \in PCs, Fails(w, pc)
    PROVE  /\ call' \in [Writers -> Calls]
           /\ \A v \in Writers : v # w => call'[v] = call[v]
           /\ call'[w].pc = pc
           /\ call'[w].file = call[w].file
           /\ call'[w].at = call[w].at
           /\ call'[w].err
<1>1. call'[w].err
  BY DEF Calls, Fails
<1> QED
  BY <1>1 DEF Calls, Fails

\* The pcs that the actions move a call to.
LEMMA Moves ==
    /\ "create" \in PCs /\ "write" \in PCs /\ "sync" \in PCs /\ "close" \in PCs
    /\ "rename" \in PCs /\ "syncDir" \in PCs /\ "return" \in PCs
  BY DEF PCs

\* A file is renamed at most once: there are no more renames than files.
LEMMA RenamesBounded ==
    ASSUME FileTypes, RenamedWhole
    PROVE  Len(order) <= Len(data) /\ Len(order) \in Nat /\ Len(data) \in Nat
<1>1. Len(order) \in Nat /\ Len(data) \in Nat /\ order \in [1..Len(order) -> 1..Len(data)]
  BY LenProperties DEF FileTypes
<1>2. order \in Injection(1..Len(order), 1..Len(data))
  BY <1>1 DEF RenamedWhole, Injection, IsInjective
<1>3. /\ IsFiniteSet(1..Len(data)) /\ Cardinality(1..Len(data)) = Len(data)
      /\ Cardinality(1..Len(order)) = Len(order)
  <2>1. \A n \in Nat : IsFiniteSet(1..n) /\ Cardinality(1..n) = n
    <3> TAKE n \in Nat
    <3>1. IsFiniteSet(1..n) /\ Cardinality(1..n) = IF 1 > n THEN 0 ELSE n - 1 + 1
      BY FS_Interval, 1 \in Int, n \in Int
    <3> QED
      BY <3>1
  <2> QED
    BY <1>1, <2>1
<1>4. Cardinality(1..Len(order)) <= Cardinality(1..Len(data))
  BY <1>2, <1>3, FS_Injection
<1> QED
  BY <1>1, <1>3, <1>4

\* No file and no call at the start.
LEMMA InitInv == Init => IndInv
<1> SUFFICES ASSUME Init PROVE IndInv
  OBVIOUS
<1> USE AtomicFileAssumption
<1>1. data \in Seq(Contents) /\ Len(data) = 0 /\ order \in Seq(1..0) /\ Len(order) = 0
  BY EmptySeq DEF Init
<1>2. \A w \in Writers : call[w] = NoCall
  BY DEF Init
<1>3. FileTypes
  BY <1>1 DEF Init, FileTypes, NoCall, PCs, Calls
<1>4. OwnFiles /\ BeforeRename /\ RenamedWhole /\ Promises /\ TempsRemoved
  BY <1>1, <1>2 DEF Init, OwnFiles, BeforeRename, RenamedWhole, Promises, TempsRemoved, NoCall, At
<1> QED
  BY <1>3, <1>4 DEF IndInv

\* Save and the others begin: the mutex, then os.CreateTemp.
LEMMA BeginInv == ASSUME IndInv, NEW w \in Writers, Begin(w) PROVE IndInv'
<1> USE DEF IndInv
<1>1. /\ call[w].pc = "idle" /\ Go(w, "create")
      /\ UNCHANGED <<kind, data, synced, temps, order, durable, promised, ended>>
  BY DEF Begin, At, file, path
<1>2. /\ call' \in [Writers -> Calls]
      /\ \A v \in Writers : v # w => call'[v] = call[v]
      /\ call'[w].pc = "create"
      /\ call'[w].file = call[w].file
      /\ call'[w].at = call[w].at
      /\ call'[w].err <=> call[w].err
  BY <1>1, GoEdits, Moves DEF FileTypes
<1>3. FileTypes'
  BY <1>1, <1>2 DEF Begin, FileTypes
<1>4. OwnFiles'
  BY <1>1, <1>2 DEF OwnFiles
<1>5. BeforeRename' /\ RenamedWhole'
  BY <1>1, <1>2 DEF BeforeRename, RenamedWhole
<1>6. Promises' /\ TempsRemoved'
  BY <1>1, <1>2 DEF Promises, TempsRemoved, At
<1> QED
  BY <1>3, <1>4, <1>5, <1>6

\* os.CreateTemp makes a file that no other call has and that is not on the path.
LEMMA CreateInv == ASSUME IndInv, NEW w \in Writers, Create(w) PROVE IndInv'
<1> USE AtomicFileAssumption DEF IndInv
<1>0. /\ call[w].pc = "create" /\ Len(data) < MaxFiles
      /\ UNCHANGED <<kind, mutex, synced, order, durable, promised, ended>>
  BY DEF Create, At, path
<1>1. CASE Fails(w, "return") /\ UNCHANGED <<data, temps>>
  <2>1. /\ call' \in [Writers -> Calls]
        /\ \A v \in Writers : v # w => call'[v] = call[v]
        /\ call'[w].pc = "return"
        /\ call'[w].file = call[w].file
        /\ call'[w].at = call[w].at
        /\ call'[w].err
    BY <1>1, FailsEdits, Moves DEF FileTypes
  <2>2. FileTypes'
    BY <1>0, <1>1, <2>1 DEF FileTypes
  <2>3. OwnFiles'
    BY <1>0, <1>1, <2>1 DEF OwnFiles
  <2>4. BeforeRename' /\ RenamedWhole'
    BY <1>0, <1>1, <2>1 DEF BeforeRename, RenamedWhole
  <2>5. Promises' /\ TempsRemoved'
    BY <1>0, <1>1, <2>1 DEF Promises, TempsRemoved, At
  <2> QED
    BY <2>2, <2>3, <2>4, <2>5
<1>2. CASE /\ data' = Append(data, "empty")
           /\ temps' = temps \cup {Len(data')}
           /\ call' = [call EXCEPT ![w].pc = "write", ![w].file = Len(data')]
  <2>1. /\ data \in Seq(Contents) /\ "empty" \in Contents
        /\ data' \in Seq(Contents) /\ Len(data') = Len(data) + 1 /\ Len(data) \in Nat
        /\ \A i \in 1..Len(data) : data'[i] = data[i]
    BY <1>2, AppendProperties, LenProperties DEF FileTypes, Contents
  <2>2. order' \in Seq(1..Len(data')) /\ order' = order /\ Len(order) \in Nat
        /\ \A i \in 1..Len(order) : order[i] \in 1..Len(data)
    BY <1>0, <2>1, SeqMonotonic, ElementOfSeq, LenProperties DEF FileTypes
  <2>3. /\ call' \in [Writers -> Calls]
        /\ \A v \in Writers : v # w => call'[v] = call[v]
        /\ call'[w].pc = "write" /\ call'[w].file = Len(data) + 1
        /\ call'[w].at = call[w].at
    <3>1. Len(data') \in Files /\ Len(data') = Len(data) + 1
      BY <1>0, <2>1 DEF Files
    <3> QED
      BY <1>2, <3>1, Moves, ZenonT(30) DEF FileTypes, Calls
  <2>9. call'[w].err <=> call[w].err
    BY <1>2 DEF FileTypes, Calls
  <2>4. FileTypes'
    BY <1>0, <1>2, <2>1, <2>2, <2>3 DEF FileTypes
  <2>5. OwnFiles'
    <3>1. \A v \in Writers : call[v].file # Len(data) + 1
      BY <2>1 DEF OwnFiles
    <3> QED
      BY <1>0, <2>1, <2>3, <3>1 DEF OwnFiles
  <2>6. BeforeRename'
    <3>1. ~call'[w].err
      BY <1>0, <2>9 DEF OwnFiles
    <3>2. \A v \in Writers : v # w => call'[v] = call[v] /\
            (call[v].file # None => data'[call[v].file] = data[call[v].file])
      BY <2>1, <2>3 DEF OwnFiles
    <3>3. \A i \in 1..Len(order) : order[i] # call'[w].file
      <4>1. \A i \in 1..Len(data) : i # Len(data) + 1
        BY <2>1
      <4> QED
        BY <2>2, <2>3, <4>1
    <3>4. ASSUME NEW v \in Writers, v # w
          PROVE  /\ call[v].pc \in {"write", "sync", "close", "rename"} =>
                      \A i \in 1..Len(order') : order'[i] # call[v].file
                 /\ call[v].pc = "sync" => data'[call[v].file] = "whole" /\ ~call[v].err
                 /\ call[v].pc \in {"write", "rename"} => ~call[v].err
                 /\ call[v].pc \in {"close", "rename"} /\ ~call[v].err =>
                      data'[call[v].file] = "whole" /\ call[v].file \in synced'
      BY <1>0, <3>2, <3>4 DEF BeforeRename, OwnFiles
    <3> QED
      BY <1>0, <2>3, <3>1, <3>2, <3>3, <3>4 DEF BeforeRename
  <2>7. RenamedWhole' /\ Promises'
    BY <1>0, <2>1, <2>2, <2>3 DEF RenamedWhole, Promises, OwnFiles, At
  <2>8. TempsRemoved'
    BY <1>0, <1>2, <2>1, <2>3 DEF TempsRemoved, OwnFiles, FileTypes
  <2> QED
    BY <2>4, <2>5, <2>6, <2>7, <2>8
<1> QED
  BY <1>1, <1>2 DEF Create

\* tmp.Write: only the call's own file changes, and it is not on the path.
LEMMA WriteInv == ASSUME IndInv, NEW w \in Writers, Write(w) PROVE IndInv'
<1> USE AtomicFileAssumption DEF IndInv
<1>0. /\ call[w].pc = "write"
      /\ UNCHANGED <<kind, mutex, synced, temps, order, durable, promised, ended>>
  BY DEF Write, At, path
<1>1. PICK d \in Contents :
        /\ data' = [data EXCEPT ![call[w].file] = d]
        /\ IF d = "whole" THEN Go(w, "sync") ELSE Fails(w, "close")
  BY DEF Write, Contents
<1>2. call[w].file \in 1..Len(data) /\ data \in Seq(Contents) /\ ~call[w].err
  BY <1>0 DEF OwnFiles, FileTypes, BeforeRename
<1>3. /\ data' \in Seq(Contents) /\ Len(data') = Len(data)
      /\ \A f \in 1..Len(data) : f # call[w].file => data'[f] = data[f]
      /\ data'[call[w].file] = d
  BY <1>1, <1>2, ExceptSeq
<1>4. /\ call' \in [Writers -> Calls]
      /\ \A v \in Writers : v # w => call'[v] = call[v]
      /\ call'[w].file = call[w].file
      /\ call'[w].at = call[w].at
      /\ \/ call'[w].pc = "sync" /\ d = "whole" /\ ~call'[w].err
         \/ call'[w].pc = "close" /\ call'[w].err
  <2>1. CASE d = "whole"
    <3>1. Go(w, "sync")
      BY <1>1, <2>1
    <3> QED
      BY <1>2, <2>1, <3>1, GoEdits, Moves DEF FileTypes
  <2>2. CASE d # "whole"
    <3>1. Fails(w, "close")
      BY <1>1, <2>2
    <3> QED
      BY <3>1, FailsEdits, Moves DEF FileTypes
  <2> QED
    BY <2>1, <2>2
<1>5. FileTypes'
  BY <1>0, <1>3, <1>4 DEF FileTypes
<1>6. OwnFiles'
  BY <1>0, <1>3, <1>4 DEF OwnFiles
<1>7. BeforeRename'
  <2>1. \A v \in Writers : v # w /\ call[v].file # None => data'[call[v].file] = data[call[v].file]
    BY <1>2, <1>3 DEF OwnFiles
  <2> QED
    BY <1>0, <1>3, <1>4, <2>1 DEF BeforeRename, OwnFiles
<1>8. RenamedWhole'
  <2>1. \A i \in 1..Len(order) : order[i] \in 1..Len(data) /\ order[i] # call[w].file
    BY <1>0, ElementOfSeq DEF FileTypes, BeforeRename
  <2> QED
    BY <1>0, <1>3, <2>1 DEF RenamedWhole
<1>9. Promises' /\ TempsRemoved'
  BY <1>0, <1>4 DEF Promises, TempsRemoved, At
<1> QED
  BY <1>5, <1>6, <1>7, <1>8, <1>9

\* tmp.Sync.
LEMMA SyncInv == ASSUME IndInv, NEW w \in Writers, Sync(w) PROVE IndInv'
<1> USE DEF IndInv
<1>0. /\ call[w].pc = "sync"
      /\ UNCHANGED <<kind, mutex, data, temps, order, durable, promised, ended>>
  BY DEF Sync, At, path
<1>1. /\ call' \in [Writers -> Calls]
      /\ \A v \in Writers : v # w => call'[v] = call[v]
      /\ call'[w].pc = "close"
      /\ call'[w].file = call[w].file
      /\ call'[w].at = call[w].at
      /\ \/ synced' = synced \cup {call[w].file}
         \/ synced' = synced /\ call'[w].err
  <2>1. CASE Synced(w) /\ Go(w, "close")
    BY <2>1, GoEdits, Moves DEF FileTypes, Synced
  <2>2. CASE Fails(w, "close") /\ UNCHANGED synced
    BY <2>2, FailsEdits, Moves DEF FileTypes
  <2> QED
    BY <2>1, <2>2 DEF Sync
<1>2. call[w].file \in 1..Len(data) /\ data[call[w].file] = "whole"
  BY <1>0 DEF OwnFiles, BeforeRename
<1>3. FileTypes'
  BY <1>0, <1>1, <1>2 DEF FileTypes
<1>4. OwnFiles'
  BY <1>0, <1>1 DEF OwnFiles
<1>5. BeforeRename' /\ RenamedWhole'
  BY <1>0, <1>1, <1>2 DEF BeforeRename, RenamedWhole
<1>6. Promises' /\ TempsRemoved'
  BY <1>0, <1>1 DEF Promises, TempsRemoved, At
<1> QED
  BY <1>3, <1>4, <1>5, <1>6

\* tmp.Close: after an error it is the last thing that is done.
LEMMA CloseInv == ASSUME IndInv, NEW w \in Writers, Close(w) PROVE IndInv'
<1> USE DEF IndInv
<1>0. /\ call[w].pc = "close"
      /\ UNCHANGED <<kind, mutex, data, synced, temps, order, durable, promised, ended>>
  BY DEF Close, At, file, path
<1>1. /\ call' \in [Writers -> Calls]
      /\ \A v \in Writers : v # w => call'[v] = call[v]
      /\ call'[w].file = call[w].file
      /\ call'[w].at = call[w].at
      /\ \/ call'[w].pc = "return" /\ call'[w].err
         \/ call'[w].pc = "rename" /\ ~call[w].err /\ ~call'[w].err
  <2>1. CASE call[w].err /\ Go(w, "return")
    BY <2>1, GoEdits, Moves DEF FileTypes
  <2>2. CASE ~call[w].err /\ Go(w, "rename")
    BY <2>2, GoEdits, Moves DEF FileTypes
  <2>3. CASE Fails(w, "return")
    BY <2>3, FailsEdits, Moves DEF FileTypes
  <2> QED
    BY <2>1, <2>2, <2>3 DEF Close
<1>2. FileTypes'
  BY <1>0, <1>1 DEF FileTypes
<1>3. OwnFiles'
  BY <1>0, <1>1 DEF OwnFiles
<1>4. BeforeRename' /\ RenamedWhole'
  BY <1>0, <1>1 DEF BeforeRename, RenamedWhole
<1>5. Promises' /\ TempsRemoved'
  BY <1>0, <1>1 DEF Promises, TempsRemoved, At
<1> QED
  BY <1>2, <1>3, <1>4, <1>5

\* os.Rename puts a file on the path that is whole, synced and was never there.
LEMMA RenameInv == ASSUME IndInv, NEW w \in Writers, Rename(w) PROVE IndInv'
<1> USE AtomicFileAssumption DEF IndInv
<1>0. /\ call[w].pc = "rename" /\ ~call[w].err
      /\ UNCHANGED <<kind, mutex, data, synced, durable, promised, ended>>
  BY DEF Rename, At, BeforeRename
<1>1. CASE Fails(w, "return") /\ UNCHANGED <<order, temps>>
  <2>1. /\ call' \in [Writers -> Calls]
        /\ \A v \in Writers : v # w => call'[v] = call[v]
        /\ call'[w].pc = "return"
        /\ call'[w].file = call[w].file
        /\ call'[w].at = call[w].at
        /\ call'[w].err
    BY <1>1, FailsEdits, Moves DEF FileTypes
  <2>2. FileTypes'
    BY <1>0, <1>1, <2>1 DEF FileTypes
  <2>3. OwnFiles'
    BY <1>0, <1>1, <2>1 DEF OwnFiles
  <2>4. BeforeRename' /\ RenamedWhole'
    BY <1>0, <1>1, <2>1 DEF BeforeRename, RenamedWhole
  <2>5. Promises' /\ TempsRemoved'
    BY <1>0, <1>1, <2>1 DEF Promises, TempsRemoved, At
  <2> QED
    BY <2>2, <2>3, <2>4, <2>5
<1>2. CASE /\ order' = Append(order, call[w].file)
           /\ temps' = temps \ {call[w].file}
           /\ call' = [call EXCEPT ![w].pc = AfterRename, ![w].at = Len(order')]
  <2>1. /\ call[w].file \in 1..Len(data) /\ data[call[w].file] = "whole"
        /\ call[w].file \in synced
        /\ \A i \in 1..Len(order) : order[i] # call[w].file
    BY <1>0 DEF OwnFiles, BeforeRename
  <2>2. /\ order' \in Seq(1..Len(data)) /\ Len(order') = Len(order) + 1 /\ Len(order) \in Nat
        /\ \A i \in 1..Len(order) : order'[i] = order[i]
        /\ order'[Len(order) + 1] = call[w].file
        /\ \A i \in 1..Len(order') : i \in 1..Len(order) \/ (order'[i] = call[w].file /\ i = Len(order'))
    <3>1. order \in Seq(1..Len(data)) /\ Len(order) \in Nat
      BY LenProperties DEF FileTypes
    <3>2. /\ order' \in Seq(1..Len(data)) /\ Len(order') = Len(order) + 1
          /\ \A i \in 1..Len(order) : order'[i] = order[i]
          /\ order'[Len(order) + 1] = call[w].file
      BY <1>2, <2>1, <3>1, AppendProperties
    <3> QED
      BY <3>1, <3>2
  <2>3. /\ AfterRename \in PCs /\ AfterRename \in {"syncDir", "return"}
        /\ kind = "state" => AfterRename = "syncDir"
    BY Moves DEF AfterRename
  <2>4. /\ call' \in [Writers -> Calls]
        /\ \A v \in Writers : v # w => call'[v] = call[v]
        /\ call'[w].pc = AfterRename
        /\ call'[w].file = call[w].file
        /\ call'[w].at = Len(order) + 1
    <3>1. Len(order') \in Nat /\ Len(order') = Len(order) + 1
      BY <2>2
    <3> QED
      BY <1>2, <2>3, <3>1, ZenonT(30) DEF FileTypes, Calls
  <2>5. FileTypes'
    BY <1>0, <1>2, <2>2, <2>4 DEF FileTypes
  <2>6. OwnFiles'
    BY <1>0, <2>1, <2>3, <2>4 DEF OwnFiles
  <2>7. BeforeRename'
    <3>1. \A v \in Writers : v # w => call[v].file # call[w].file
      BY <2>1 DEF OwnFiles
    <3> QED
      BY <1>0, <2>2, <2>3, <2>4, <3>1 DEF BeforeRename
  <2>8. RenamedWhole'
    <3>1. \A i \in 1..Len(order') : data'[order'[i]] = "whole" /\ order'[i] \in synced'
      BY <1>0, <2>1, <2>2 DEF RenamedWhole
    <3>2. ASSUME NEW i \in 1..Len(order'), NEW j \in 1..Len(order'), i # j
          PROVE  order'[i] # order'[j]
      BY <2>1, <2>2, <3>2 DEF RenamedWhole
    <3> QED
      BY <3>1, <3>2 DEF RenamedWhole
  <2>9. Promises'
    <3>1. \A v \in Writers : call[v].at \in Nat /\ call[v].at <= Len(order)
      BY DEF Promises, FileTypes, Calls
    <3>2. \A v \in Writers : call'[v].at <= Len(order')
      BY <2>2, <2>4, <3>1
    <3>3. promised \in Nat /\ (promised <= Len(order) => promised <= Len(order'))
      BY <2>2 DEF FileTypes
    <3> QED
      BY <1>0, <2>3, <2>4, <3>2, <3>3 DEF Promises, At
  <2>10. TempsRemoved'
    BY <1>0, <1>2, <2>4 DEF TempsRemoved
  <2> QED
    BY <2>5, <2>6, <2>7, <2>8, <2>9, <2>10
<1> QED
  BY <1>1, <1>2 DEF Rename

\* dir.Sync, in StateFile.Save.
LEMMA SyncDirInv == ASSUME IndInv, NEW w \in Writers, SyncDir(w) PROVE IndInv'
<1> USE DEF IndInv
<1>0. /\ call[w].pc = "syncDir"
      /\ UNCHANGED <<kind, mutex, data, synced, temps, order, promised, ended>>
  BY DEF SyncDir, At, file
<1>1. /\ call' \in [Writers -> Calls]
      /\ \A v \in Writers : v # w => call'[v] = call[v]
      /\ call'[w].pc = "return"
      /\ call'[w].file = call[w].file
      /\ call'[w].at = call[w].at
      /\ \/ durable' = Len(order)
         \/ durable' = durable /\ call'[w].err
  <2>1. CASE durable' = Len(order) /\ Go(w, "return")
    BY <2>1, GoEdits, Moves DEF FileTypes
  <2>2. CASE Fails(w, "return") /\ UNCHANGED durable
    BY <2>2, FailsEdits, Moves DEF FileTypes
  <2> QED
    BY <2>1, <2>2 DEF SyncDir
<1>2. Len(order) \in Nat /\ durable \in 0..Len(order) /\ promised \in Nat
      /\ \A v \in Writers : call[v].at \in Nat
  BY LenProperties DEF FileTypes, Calls
<1>3. FileTypes'
  BY <1>0, <1>1, <1>2 DEF FileTypes
<1>4. OwnFiles'
  BY <1>0, <1>1 DEF OwnFiles
<1>5. BeforeRename' /\ RenamedWhole' /\ TempsRemoved'
  BY <1>0, <1>1 DEF BeforeRename, RenamedWhole, TempsRemoved
<1>6. Promises'
  <2>1. CASE durable' = Len(order)
    BY <1>0, <1>1, <1>2, <2>1 DEF Promises, At
  <2>2. CASE durable' = durable /\ call'[w].err
    BY <1>0, <1>1, <1>2, <2>2 DEF Promises, At
  <2> QED
    BY <1>1, <2>1, <2>2
<1> QED
  BY <1>3, <1>4, <1>5, <1>6

\* The call returns; its deferred os.Remove takes the temporary file away.
LEMMA ReturnInv == ASSUME IndInv, NEW w \in Writers, Return(w) PROVE IndInv'
<1> USE AtomicFileAssumption DEF IndInv
<1>0. /\ call[w].pc = "return"
      /\ UNCHANGED <<kind, data, synced, order, durable, ended>>
      /\ temps' = temps \ {call[w].file}
      /\ mutex' \in {mutex, None}
  BY DEF Return, At, Removed, path
<1>1. /\ call' \in [Writers -> Calls]
      /\ \A v \in Writers : v # w => call'[v] = call[v]
      /\ call'[w] = NoCall
  BY DEF Return, FileTypes, Calls, NoCall, PCs
<1>2. /\ NoCall.pc = "idle" /\ NoCall.file = None /\ NoCall.at = 0
      /\ ~NoCall.err
  BY DEF NoCall
<1>3. promised' = promised \/ (promised' = call[w].at /\ ~call[w].err)
  BY DEF Return
<1>4. /\ Len(order) \in Nat /\ promised \in Nat /\ promised' \in 0..MaxFiles
      /\ \A v \in Writers : call[v].at \in Nat
  <2>1. Len(order) <= MaxFiles /\ Len(order) \in Nat
    BY RenamesBounded DEF FileTypes
  <2> QED
    BY <1>3, <2>1 DEF FileTypes, Promises, Calls
<1>5. FileTypes'
  BY <1>0, <1>1, <1>4 DEF FileTypes
<1>6. OwnFiles'
  BY <1>0, <1>1, <1>2 DEF OwnFiles
<1>7. BeforeRename' /\ RenamedWhole'
  BY <1>0, <1>1, <1>2 DEF BeforeRename, RenamedWhole
<1>8. Promises'
  BY <1>0, <1>1, <1>2, <1>3, <1>4 DEF Promises, At
<1>9. TempsRemoved'
  BY <1>0, <1>1 DEF TempsRemoved
<1> QED
  BY <1>5, <1>6, <1>7, <1>8, <1>9

\* The process ends: no call is left.
LEMMA ExitInv == ASSUME IndInv, Exit PROVE IndInv'
<1> USE AtomicFileAssumption DEF IndInv
<1>0. /\ UNCHANGED <<kind, data, synced, temps, order, durable, promised>>
      /\ mutex' = None /\ ended' = ended \cup {"exit"}
      /\ \A w \in Writers : call'[w] = NoCall
  BY DEF Exit, file, path
<1>1. /\ NoCall.pc = "idle" /\ NoCall.file = None /\ NoCall.at = 0
      /\ ~NoCall.err
  BY DEF NoCall
<1>2. call' \in [Writers -> Calls] /\ Len(order) \in Nat
  BY LenProperties DEF Exit, FileTypes, Calls, NoCall, PCs
<1>3. FileTypes'
  BY <1>0, <1>2 DEF FileTypes
<1>4. OwnFiles' /\ BeforeRename' /\ RenamedWhole'
  BY <1>0, <1>1 DEF OwnFiles, BeforeRename, RenamedWhole
<1>5. Promises' /\ TempsRemoved'
  BY <1>0, <1>1, <1>2 DEF Promises, TempsRemoved, At
<1> QED
  BY <1>3, <1>4, <1>5

\* The power fails: renames that were not synced may be undone, the last first,
\* and what was not synced may be lost; what was on the path was synced.
LEMMA PowerLossInv == ASSUME IndInv, PowerLoss PROVE IndInv'
<1> USE AtomicFileAssumption DEF IndInv
<1>0. /\ UNCHANGED <<kind, temps, promised>>
      /\ mutex' = None /\ ended' = ended \cup {"power"}
      /\ synced' = 1..Len(data)
      /\ \A w \in Writers : call'[w] = NoCall
  BY LenProperties DEF PowerLoss, FileTypes
<1>1. /\ NoCall.pc = "idle" /\ NoCall.file = None /\ NoCall.at = 0
      /\ ~NoCall.err
  BY DEF NoCall
<1>2. call' \in [Writers -> Calls] /\ Len(order) \in Nat /\ Len(data) \in Nat
      /\ DOMAIN data = 1..Len(data)
  BY LenProperties DEF PowerLoss, FileTypes, Calls, NoCall, PCs
<1>3. PICK n \in durable..Len(order) : order' = SubSeq(order, 1, n) /\ durable' = n
  BY DEF PowerLoss
<1>4. /\ order' \in Seq(1..Len(data)) /\ Len(order') = n /\ n \in Nat /\ n <= Len(order)
      /\ \A i \in 1..n : order'[i] = order[i]
  <2>1. n \in Nat /\ n <= Len(order) /\ \A i \in 1..n : order[i] \in 1..Len(data)
    BY <1>2, ElementOfSeq DEF FileTypes
  <2> QED
    BY <1>3, <2>1, SubSeqProperties
<1>5. /\ data' \in Seq(Contents) /\ Len(data') = Len(data)
      /\ \A f \in 1..Len(data) : f \in synced => data'[f] = data[f]
  <2>1. /\ data' \in [1..Len(data) -> Contents]
        /\ \A f \in 1..Len(data) : data'[f] = data[f] \/ f \notin synced
    BY <1>2 DEF PowerLoss, Contents
  <2> QED
    BY <1>2, <2>1
<1>6. FileTypes'
  BY <1>0, <1>2, <1>3, <1>4, <1>5 DEF FileTypes
<1>7. OwnFiles' /\ BeforeRename'
  BY <1>0, <1>1 DEF OwnFiles, BeforeRename
<1>8. RenamedWhole'
  <2>1. \A i \in 1..Len(order) : order[i] \in 1..Len(data) /\ order[i] \in synced
    BY ElementOfSeq DEF FileTypes, RenamedWhole
  <2> QED
    <3>1. \A i \in 1..Len(order') : i \in 1..Len(order) /\ order'[i] = order[i]
      BY <1>2, <1>4
    <3> QED
      BY <1>0, <1>5, <2>1, <3>1 DEF RenamedWhole
<1>9. Promises' /\ TempsRemoved'
  BY <1>0, <1>1, <1>2, <1>3, <1>4 DEF Promises, TempsRemoved, At, FileTypes
<1> QED
  BY <1>6, <1>7, <1>8, <1>9

\* Every step keeps the invariant.
LEMMA NextInv == IndInv /\ [Next]_vars => IndInv'
<1> SUFFICES ASSUME IndInv, [Next]_vars PROVE IndInv'
  OBVIOUS
<1>1. CASE UNCHANGED vars
  BY <1>1 DEF vars, file, path, IndInv, FileTypes, OwnFiles, BeforeRename, RenamedWhole,
              Promises, TempsRemoved, At
<1>2. ASSUME NEW w \in Writers, Call(w) PROVE IndInv'
  BY <1>2, BeginInv, CreateInv, WriteInv, SyncInv, CloseInv, RenameInv, SyncDirInv, ReturnInv
     DEF Call
<1> QED
  BY <1>1, <1>2, ExitInv, PowerLossInv DEF Next

----------------------------------------------------------------------------

\* The invariant holds in every reachable state, for any number of writers.
THEOREM Invariance == Spec => []IndInv
BY InitInv, NextInv, PTL DEF Spec

\* The types of the variables, with the bounds: a file is renamed at most once, so
\* there are never more renames than files.
THEOREM TypeCorrect == Spec => []AtomicFileTypeOK
<1>1. IndInv => AtomicFileTypeOK
  <2> SUFFICES ASSUME IndInv PROVE AtomicFileTypeOK
    OBVIOUS
  <2> USE AtomicFileAssumption DEF IndInv
  <2>1. Len(order) <= Len(data) /\ Len(data) \in 0..MaxFiles /\ Len(order) \in Nat
        /\ DOMAIN data = 1..Len(data) /\ data \in [1..Len(data) -> Contents]
    BY RenamesBounded, LenProperties DEF FileTypes
  <2>2. call \in [Writers -> [pc: PCs, file: Files \cup {None}, at: 0..MaxFiles, err: BOOLEAN]]
    <3>1. \A w \in Writers :
            call[w] \in [pc: PCs, file: Files \cup {None}, at: 0..MaxFiles, err: BOOLEAN]
      BY <2>1 DEF FileTypes, Promises, Calls
    <3> QED
      BY <3>1 DEF FileTypes
  <2> QED
    BY <2>1, <2>2 DEF AtomicFileTypeOK, FileTypes, Contents
<1> QED
  BY <1>1, Invariance, PTL

\* What Load finds is whole (NeverTorn), whatever fails and whenever the process or
\* the power goes: every file that was ever renamed onto the path was written
\* to its end and synced, and nobody writes to it any more.
THEOREM LoadNeverTorn == Spec => []NeverTorn
<1>1. IndInv => NeverTorn
  <2> SUFFICES ASSUME IndInv, order # <<>> PROVE data[order[Len(order)]] = "whole"
    BY DEF NeverTorn, Load
  <2>1. Len(order) \in 1..Len(order)
    BY EmptySeq DEF IndInv, FileTypes
  <2> QED
    BY <2>1 DEF IndInv, RenamedWhole
<1> QED
  BY <1>1, Invariance, PTL

\* A state that Save has reported as saved survives the end of the process and a
\* loss of power, the other files the end of the process (NeverBack).
THEOREM SavedStays == Spec => []NeverBack
<1>1. IndInv => NeverBack
  BY LenProperties DEF IndInv, NeverBack, Promises, FileTypes
<1> QED
  BY <1>1, Invariance, PTL

\* Only a process that ends in the middle leaves a temporary file (TempsRemoved).
THEOREM NoTempsLeft == Spec => []TempsRemoved
<1>1. IndInv => TempsRemoved
  BY DEF IndInv
<1> QED
  BY <1>1, Invariance, PTL
=============================================================================
