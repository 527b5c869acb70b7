-------------------------- MODULE LogBufferProofs --------------------------
(***************************************************************************)
(* Proofs about module LogBuffer: what the files hold, for any limits, any *)
(* lengths of lines and any number of restarts and faults.                 *)
(***************************************************************************)
EXTENDS LogBuffer, Counting, SequenceTheorems

----------------------------------------------------------------------------
\* How many bytes a file holds

\* The lengths of the pieces of a file.
Sizes(f) == [i \in 1 .. Len(f) |-> f[i].len]

\* The bytes of a file are the last running sum of the lengths of its pieces.
LEMMA BytesAreSums ==
    ASSUME NEW f \in Seq(Pieces), NEW h, RunningSums(h, Len(f), Sizes(f))
    PROVE  Bytes(f) = h[Len(f)]
<1> DEFINE n == Len(f)
           S == DOMAIN f
           g == Sizes(f)
           choice == [s \in SUBSET S |-> Max(s)]
           Step(F) == [s \in SUBSET S |-> IF s = {} THEN 0 ELSE F[s \ {Max(s)}] + f[Max(s)].len]
           F == CHOOSE F : F = Step(F)
<1>1. Bytes(f) = F[S]
  BY DEF Bytes, FoldLeft, MapThenFoldSet
<1>2. n \in Nat /\ S = 1 .. n /\ IsFiniteSet(S)
  BY FS_Interval
<1>3. g \in [1 .. n -> Nat] /\ \A i \in 1 .. n : g[i] = f[i].len
  <2>1. MaxBytes \in Nat
    BY LogAssumption
  <2>2. \A i \in 1 .. n : f[i] \in Pieces
    BY <1>2
  <2>3. \A p \in Pieces : p.len \in Nat
    BY <2>1 DEF Pieces
  <2> QED
    BY <2>2, <2>3 DEF Sizes
<1> HIDE DEF n, S, g
<1>4. Masked(g, S, n, 0) = g
  BY <1>2, <1>3 DEF Masked
<1>5. PICK T : Totals(T, g, S) /\ T[S] = h[n]
  <2>1. RunningSums(h, n, Masked(g, S, n, 0))
    BY <1>4 DEF n, g
  <2>2. PICK o \in Int : o = 0
    OBVIOUS
  <2>3. S = 1 + o .. n + o
    BY <1>2, <2>2
  <2>4. g \in [1 + o .. n + o -> Nat] /\ RunningSums(h, n, Masked(g, 1 + o .. n + o, n, o))
    BY <1>2, <1>3, <2>1, <2>2, <2>3
  <2>5. \E T : Totals(T, g, 1 + o .. n + o) /\ T[1 + o .. n + o] = h[n]
    BY <1>2, <2>4, TotalsExist
  <2> QED
    BY <2>3, <2>5
<1>6. \A s \in SUBSET S : s # {} => Max(s) \in s
  BY <1>2, MaxIs
<1>7. T = Step(T)
  <2>1. \A s \in SUBSET S : T[s] = IF s = {} THEN 0 ELSE T[s \ {Max(s)}] + f[Max(s)].len
    <3> TAKE s \in SUBSET S
    <3>1. CASE s = {}
      BY <1>5, <3>1 DEF Totals
    <3>2. CASE s # {}
      <4>1. PICK x : x = Max(s)
        OBVIOUS
      <4>2. x \in s /\ x \in 1 .. n /\ s \ {x} \in SUBSET S
        BY <1>2, <1>6, <3>2, <4>1
      <4>3. T[s] = g[x] + T[s \ {x}] /\ T[s \ {x}] \in Nat
        BY <1>5, <4>2 DEF Totals
      <4>4. g[x] = f[x].len /\ g[x] \in Nat
        BY <1>3, <4>2
      <4> QED
        BY <3>2, <4>1, <4>3, <4>4
    <3> QED
      BY <3>1, <3>2
  <2> QED
    BY <1>5, <2>1 DEF Totals
<1>8. F = Step(F)
  <2> HIDE DEF Step
  <2> QED
    BY <1>7
<1> HIDE DEF F
<1>9. Folds(F, g, S, choice) /\ \A s \in SUBSET S : s # {} => choice[s] \in s
  <2>1. ASSUME NEW s \in SUBSET S, s # {}
        PROVE  choice[s] \in s /\ F[s] = F[s \ {choice[s]}] + g[choice[s]]
    <3>1. PICK x : x = Max(s)
      OBVIOUS
    <3>2. x \in s /\ g[x] = f[x].len /\ choice[s] = x
      BY <1>2, <1>3, <1>6, <2>1, <3>1
    <3>3. F[s] = F[s \ {x}] + f[x].len
      BY <1>8, <2>1, <3>1
    <3> QED
      BY <3>2, <3>3
  <2>2. F[{}] = 0
    BY <1>8
  <2> QED
    BY <2>1, <2>2 DEF Folds
<1> HIDE DEF choice
<1>10. F[S] = T[S]
  <2>1. g \in [S -> Nat]
    BY <1>2, <1>3
  <2>2. IsFiniteSet(S) /\ Totals(T, g, S)
    BY <1>2, <1>5
  <2> QED
    BY <1>9, <2>1, <2>2, FoldsAgree
<1> QED
  BY <1>1, <1>5, <1>10 DEF n

\* An empty file holds nothing, and a piece more adds its length.
LEMMA BytesGrow ==
    /\ Bytes(<<>>) = 0
    /\ \A f \in Seq(Pieces) : Bytes(f) \in Nat /\ \A p \in Pieces : Bytes(Append(f, p)) = Bytes(f) + p.len
<1>0. \A p \in Pieces : p.len \in Nat
  BY LogAssumption DEF Pieces
<1>1. Bytes(<<>>) = 0
  <2>1. PICK e : e = <<>>
    OBVIOUS
  <2>2. e \in Seq(Pieces) /\ Len(e) = 0
    BY <2>1
  <2> DEFINE h == [i \in 0 .. 0 |-> 0]
  <2>3. RunningSums(h, Len(e), Sizes(e)) /\ h[0] = 0
    BY <2>2 DEF RunningSums
  <2> HIDE DEF h
  <2>4. Bytes(e) = h[Len(e)]
    BY <2>2, <2>3, BytesAreSums
  <2> QED
    BY <2>1, <2>2, <2>3, <2>4
<1>2. ASSUME NEW f \in Seq(Pieces)
      PROVE  Bytes(f) \in Nat /\ \A p \in Pieces : Bytes(Append(f, p)) = Bytes(f) + p.len
  <2>1. Len(f) \in Nat /\ \A i \in 1 .. Len(f) : f[i] \in Pieces
    OBVIOUS
  <2>2. Sizes(f) \in [1 .. Len(f) -> Nat] /\ \A i \in 1 .. Len(f) : Sizes(f)[i] = f[i].len
    BY <1>0, <2>1 DEF Sizes
  <2>3. PICK h \in [0 .. Len(f) -> Nat] : RunningSums(h, Len(f), Sizes(f))
    BY <2>1, <2>2, SumsExist
  <2>4. Bytes(f) = h[Len(f)] /\ h[Len(f)] \in Nat
    BY <2>1, <2>3, BytesAreSums
  <2>5. ASSUME NEW p \in Pieces PROVE Bytes(Append(f, p)) = Bytes(f) + p.len
    <3>1. PICK e, n : e = Append(f, p) /\ n = Len(f)
      OBVIOUS
    <3>2. /\ e \in Seq(Pieces) /\ Len(e) = n + 1 /\ n \in Nat /\ e[n + 1] = p
          /\ \A i \in 1 .. n : e[i] = f[i]
      BY <3>1, AppendProperties
    <3>3. /\ \A i \in 1 .. n : Sizes(e)[i] = Sizes(f)[i]
          /\ Sizes(e)[n + 1] = p.len
      BY <2>2, <3>1, <3>2 DEF Sizes
    <3> DEFINE k == [i \in 0 .. n + 1 |-> IF i <= n THEN h[i] ELSE h[n] + p.len]
    <3>4. (\A i \in 0 .. n : k[i] = h[i]) /\ k[n + 1] = h[n] + p.len
      BY <3>2
    <3> HIDE DEF k
    <3>5. RunningSums(k, n + 1, Sizes(e))
      <4> SUFFICES ASSUME NEW i \in 0 .. n + 1
                   PROVE  k[i] = IF i = 0 THEN 0 ELSE k[i - 1] + Sizes(e)[i]
        BY DEF RunningSums
      <4>1. CASE i <= n
        <5>1. h[i] = IF i = 0 THEN 0 ELSE h[i - 1] + Sizes(f)[i]
          BY <2>3, <3>1, <3>2, <4>1 DEF RunningSums
        <5>2. i # 0 => i - 1 \in 0 .. n /\ i \in 1 .. n
          BY <3>2, <4>1
        <5> QED
          BY <3>2, <3>3, <3>4, <4>1, <5>1, <5>2
      <4>2. CASE i = n + 1
        <5>1. i # 0 /\ i - 1 = n /\ n \in 0 .. n
          BY <3>2, <4>2
        <5> QED
          BY <3>3, <3>4, <4>2, <5>1
      <4>3. i <= n \/ i = n + 1
        BY <3>2
      <4> QED
        BY <4>1, <4>2, <4>3
    <3>6. Bytes(e) = k[n + 1]
      BY <3>2, <3>5, BytesAreSums
    <3> QED
      BY <2>4, <3>1, <3>4, <3>6
  <2> QED
    BY <2>4, <2>5
<1> QED
  BY <1>1, <1>2

----------------------------------------------------------------------------
\* The files

Handles == {"open", "closed", "nil", "off"}

PCs == {"idle", "close", "remove", "rename", "create", "write"}

FilesTyped ==
    /\ {prev, cur, accepted} \subseteq Seq(Pieces) /\ Len(accepted) <= MaxWrites
    /\ size \in Nat /\ handle \in Handles /\ pc \in PCs /\ arg \in Lens \cup {0}
    /\ handle = "off" => pc = "idle"
    /\ pc # "idle" => arg \in Lens /\ Len(accepted) < MaxWrites

\* While the file is open its size is known. A rotation that goes on has found it
\* full up to a line, and has the bytes in the current file or in the rotated one;
\* a write that goes on has room.
FilesCounted ==
    /\ handle = "open" => size = Bytes(cur)
    /\ pc = "close" /\ handle = "open" => size + arg > MaxBytes
    /\ pc \in {"remove", "rename"} => handle = "closed" /\ Bytes(cur) + arg > MaxBytes
    /\ pc = "create" => handle = "closed" /\ cur = <<>> /\ Bytes(prev) + arg > MaxBytes
    /\ pc = "write" /\ handle = "open" => size + arg <= MaxBytes

FilesInv == FilesTyped /\ FilesCounted /\ FileCap /\ RetainsEnough

\* Lengths of lines are numbers.
LEMMA LensAre == MaxBytes \in Nat /\ MaxWrites \in Nat /\ \A len \in Lens : len \in 1 .. MaxBytes
BY LogAssumption

\* Bytes are counted by numbers.
LEMMA Counts ==
    ASSUME FilesTyped
    PROVE  /\ Bytes(prev) \in Nat /\ Bytes(cur) \in Nat /\ Bytes(accepted) \in Nat
           /\ size \in Nat /\ arg \in 0 .. MaxBytes
BY BytesGrow, LensAre DEF FilesTyped

\* A piece that the file takes, no longer than there is room, is in all counts.
LEMMA TookKeeps ==
    ASSUME FilesInv, pc = "write", handle = "open", NEW n \in 1 .. arg, Took(n), Return,
           prev' = prev, handle' = handle
    PROVE  FilesInv'
<1> DEFINE piece == [n |-> Len(accepted) + 1, len |-> n, ended |-> n = arg]
<1>1. /\ FilesTyped /\ FilesCounted /\ FileCap /\ RetainsEnough
      /\ MaxBytes \in Nat /\ MaxWrites \in Nat /\ arg \in Lens /\ arg \in 1 .. MaxBytes
  BY LensAre DEF FilesInv, FilesTyped
<1>2. Len(accepted) \in Nat /\ Len(accepted) + 1 \in 1 .. MaxWrites /\ n \in 1 .. MaxBytes
  BY <1>1 DEF FilesTyped
<1>3. piece \in Pieces /\ piece.len = n
  BY <1>2 DEF Pieces
<1>4. cur' = Append(cur, piece) /\ accepted' = Append(accepted, piece) /\ size' = size + n
  BY DEF Took
<1> HIDE DEF piece
<1>5. /\ prev' \in Seq(Pieces) /\ cur' \in Seq(Pieces) /\ accepted' \in Seq(Pieces)
      /\ Len(accepted') = Len(accepted) + 1
  BY <1>1, <1>3, <1>4, AppendProperties DEF FilesTyped
<1>6. Bytes(cur') = Bytes(cur) + n /\ Bytes(accepted') = Bytes(accepted) + n
  BY <1>1, <1>3, <1>4, BytesGrow DEF FilesTyped
<1>7. Bytes(prev) \in Nat /\ Bytes(cur) \in Nat /\ Bytes(accepted) \in Nat /\ size \in Nat
  BY <1>1, Counts
<1>8. pc' = "idle" /\ arg' = 0
  BY DEF Return
<1>9. FilesTyped'
  BY <1>1, <1>2, <1>4, <1>5, <1>7, <1>8 DEF FilesTyped, PCs
<1>10. size = Bytes(cur) /\ size + arg <= MaxBytes
  BY <1>1 DEF FilesCounted
<1>11. FilesCounted'
  BY <1>4, <1>6, <1>8, <1>10 DEF FilesCounted
<1>12. FileCap'
  BY <1>1, <1>6, <1>7, <1>10 DEF FileCap
<1>13. RetainsEnough'
  <2>1. CASE Bytes(prev) + Bytes(cur) = Bytes(accepted)
    BY <1>6, <1>7, <2>1 DEF RetainsEnough
  <2>2. ASSUME NEW len \in Lens, Bytes(prev) + Bytes(cur) > MaxBytes - len PROVE RetainsEnough'
    <3>1. Bytes(prev') + Bytes(cur') > MaxBytes - len
      BY <1>1, <1>2, <1>6, <1>7, <2>2, LensAre
    <3> QED
      BY <3>1 DEF RetainsEnough
  <2> QED
    BY <1>1, <2>1, <2>2 DEF RetainsEnough
<1> QED
  BY <1>9, <1>11, <1>12, <1>13 DEF FilesInv

\* A step that leaves the files alone.
LEMMA SameFiles ==
    ASSUME FilesInv, prev' = prev, cur' = cur, accepted' = accepted
    PROVE  FileCap' /\ RetainsEnough'
BY DEF FilesInv, FileCap, RetainsEnough

\* Every step keeps the invariant of the files.
LEMMA LogNextKeeps ==
    ASSUME FilesInv, [Next]_vars
    PROVE  FilesInv'
<1>1. /\ FilesTyped /\ FilesCounted /\ FileCap /\ RetainsEnough
  BY DEF FilesInv
<1>2. /\ Bytes(prev) \in Nat /\ Bytes(cur) \in Nat /\ Bytes(accepted) \in Nat
      /\ size \in Nat /\ arg \in 0 .. MaxBytes /\ MaxBytes \in Nat /\ Bytes(<<>>) = 0
      /\ <<>> \in Seq(Pieces)
  BY <1>1, Counts, LensAre, BytesGrow
<1>3. CASE UNCHANGED vars
  BY <1>1, <1>3 DEF FilesInv, FilesTyped, FilesCounted, FileCap, RetainsEnough, vars, files
<1>4. CASE NewLogBuffer
  <2>1. /\ prev' = prev /\ cur' = cur /\ accepted' = accepted /\ pc' = pc /\ arg' = arg
        /\ pc = "idle" /\ handle' = "open" /\ size' = Bytes(cur)
    BY <1>1, <1>4 DEF NewLogBuffer, files, StatSize, FilesTyped
  <2>2. FilesTyped' /\ FilesCounted'
    BY <1>1, <1>2, <2>1 DEF FilesTyped, FilesCounted, Handles
  <2> QED
    BY <2>1, <2>2, SameFiles DEF FilesInv
<1>5. ASSUME NEW len \in Lens, Write(len) PROVE FilesInv'
  <2>1. /\ prev' = prev /\ cur' = cur /\ accepted' = accepted /\ size' = size /\ handle' = handle
        /\ handle # "off" /\ arg' = len /\ Len(accepted) < MaxWrites
        /\ pc' = IF size + len > MaxBytes THEN "close" ELSE "write"
    BY <1>5 DEF Write, files
  <2>2. FilesTyped'
    BY <1>1, <2>1 DEF FilesTyped, PCs
  <2>3. FilesCounted'
    BY <1>1, <1>2, <2>1, LensAre DEF FilesCounted
  <2> QED
    BY <2>1, <2>2, <2>3, SameFiles DEF FilesInv
<1>6. CASE CloseFile
  <2>1. /\ prev' = prev /\ cur' = cur /\ accepted' = accepted /\ size' = size /\ pc = "close"
        /\ \/ handle = "open" /\ handle' = "closed" /\ pc' = "remove" /\ arg' = arg
           \/ handle' \in Handles \ {"open"} /\ pc' = "idle" /\ arg' = 0
    BY <1>1, <1>6 DEF CloseFile, files, Return, FilesTyped, Handles
  <2>2. FilesTyped'
    BY <1>1, <2>1 DEF FilesTyped, PCs, Handles
  <2>3. FilesCounted'
    BY <1>1, <2>1 DEF FilesCounted
  <2> QED
    BY <2>1, <2>2, <2>3, SameFiles DEF FilesInv
<1>7. CASE RemoveOld
  <2>1. /\ cur' = cur /\ accepted' = accepted /\ size' = size /\ handle' = handle /\ pc = "remove"
        /\ \/ prev' = <<>> /\ pc' = "rename" /\ arg' = arg
           \/ prev' = prev /\ pc' = "idle" /\ arg' = 0
    BY <1>7 DEF RemoveOld, Return
  <2>2. handle = "closed" /\ Bytes(cur) + arg > MaxBytes /\ arg \in Lens
    BY <1>1, <2>1 DEF FilesCounted, FilesTyped
  <2>3. FilesTyped'
    BY <1>1, <1>2, <2>1, <2>2 DEF FilesTyped, PCs
  <2>4. FilesCounted'
    BY <1>1, <2>1, <2>2 DEF FilesCounted
  <2>5. CASE prev' = <<>>
    <3>1. Bytes(prev') = 0 /\ Bytes(cur') = Bytes(cur)
      BY <1>2, <2>1, <2>5
    <3>2. FileCap'
      BY <1>1, <1>2, <3>1 DEF FileCap
    <3>3. Bytes(prev') + Bytes(cur') > MaxBytes - arg
      BY <1>2, <2>2, <3>1
    <3>4. RetainsEnough'
      BY <2>2, <3>3 DEF RetainsEnough
    <3> QED
      BY <2>3, <2>4, <3>2, <3>4 DEF FilesInv
  <2>6. CASE prev' = prev
    BY <2>1, <2>3, <2>4, <2>6, SameFiles DEF FilesInv
  <2> QED
    BY <2>1, <2>5, <2>6
<1>8. CASE RenameCurrent
  <2>1. /\ accepted' = accepted /\ size' = size /\ handle' = handle /\ pc = "rename"
        /\ \/ prev' = cur /\ cur' = <<>> /\ pc' = "create" /\ arg' = arg
           \/ prev' = prev /\ cur' = cur /\ pc' = "idle" /\ arg' = 0
    BY <1>8 DEF RenameCurrent, Return, files
  <2>2. handle = "closed" /\ Bytes(cur) + arg > MaxBytes /\ arg \in Lens
    BY <1>1, <2>1 DEF FilesCounted, FilesTyped
  <2>3. FilesTyped'
    BY <1>1, <1>2, <2>1, <2>2 DEF FilesTyped, PCs
  <2>4. CASE prev' = cur /\ cur' = <<>> /\ pc' = "create" /\ arg' = arg
    <3>1. Bytes(prev') = Bytes(cur) /\ Bytes(cur') = 0
      BY <1>2, <2>4
    <3>2. FilesCounted'
      BY <2>1, <2>2, <2>4, <3>1 DEF FilesCounted
    <3>3. FileCap'
      BY <1>1, <1>2, <3>1 DEF FileCap
    <3>4. Bytes(prev') + Bytes(cur') > MaxBytes - arg
      BY <1>2, <2>2, <3>1
    <3>5. RetainsEnough'
      BY <2>2, <3>4 DEF RetainsEnough
    <3> QED
      BY <2>3, <3>2, <3>3, <3>5 DEF FilesInv
  <2>5. CASE prev' = prev /\ cur' = cur /\ pc' = "idle" /\ arg' = 0
    <3>1. FilesCounted'
      BY <2>1, <2>2, <2>5 DEF FilesCounted
    <3> QED
      BY <2>1, <2>3, <2>5, <3>1, SameFiles DEF FilesInv
  <2> QED
    BY <2>1, <2>4, <2>5
<1>9. CASE Create
  <2>1. /\ prev' = prev /\ accepted' = accepted /\ pc = "create"
        /\ \/ cur' = <<>> /\ handle' = "open" /\ size' = 0 /\ pc' = "write" /\ arg' = arg
           \/ cur' = cur /\ handle' = handle /\ size' = size /\ pc' = "idle" /\ arg' = 0
    BY <1>9 DEF Create, Return
  <2>2. handle = "closed" /\ cur = <<>> /\ cur' = cur /\ arg \in Lens
    BY <1>1, <2>1 DEF FilesCounted, FilesTyped
  <2>3. FilesTyped'
    BY <1>1, <1>2, <2>1, <2>2 DEF FilesTyped, PCs, Handles
  <2>4. FilesCounted'
    BY <1>2, <2>1, <2>2 DEF FilesCounted
  <2> QED
    BY <2>1, <2>2, <2>3, <2>4, SameFiles DEF FilesInv
<1>10. CASE WriteFile
  <2>1. pc = "write" /\ prev' = prev /\ handle' = handle /\ Return /\ pc' = "idle" /\ arg' = 0
    BY <1>10 DEF WriteFile, Return
  <2>2. arg \in 1 .. MaxBytes
    BY <1>1, <2>1, LensAre DEF FilesTyped
  <2>3. ASSUME NEW n \in 1 .. arg, handle = "open", Took(n) PROVE FilesInv'
    BY <2>1, <2>3, TookKeeps
  <2>4. CASE cur' = cur /\ size' = size /\ accepted' = accepted
    <3>1. FilesTyped' /\ FilesCounted'
      BY <1>1, <2>1, <2>4 DEF FilesTyped, FilesCounted, PCs
    <3> QED
      BY <2>1, <2>4, <3>1, SameFiles DEF FilesInv
  <2>5. \/ \E n \in 1 .. arg : handle = "open" /\ Took(n)
        \/ cur' = cur /\ size' = size /\ accepted' = accepted
    <3>1. arg \in 1 .. arg /\ \A n \in 1 .. arg - 1 : n \in 1 .. arg
      BY <2>2, <1>2
    <3> QED
      BY <1>10, <3>1 DEF WriteFile
  <2> QED
    BY <2>3, <2>4, <2>5
<1>11. CASE Close \/ Exit
  <2>1. /\ prev' = prev /\ cur' = cur /\ accepted' = accepted /\ size' \in Nat
        /\ handle' \in {"nil", "off"} /\ pc' = "idle" /\ arg' \in Lens \cup {0}
    BY <1>1, <1>2, <1>11 DEF Close, Exit, Return, files, FilesTyped
  <2>2. FilesTyped' /\ FilesCounted'
    BY <1>1, <2>1 DEF FilesTyped, FilesCounted, PCs, Handles
  <2> QED
    BY <2>1, <2>2, SameFiles DEF FilesInv
<1> QED
  BY <1>3, <1>4, <1>5, <1>6, <1>7, <1>8, <1>9, <1>10, <1>11 DEF Next, Rotate

\* The invariant holds of the log buffer: Write knows how long its file is.
THEOREM FilesInvariance == Spec => []FilesInv
<1>1. Init => FilesInv
  <2> SUFFICES ASSUME Init PROVE FilesInv
    OBVIOUS
  <2>1. <<>> \in Seq(Pieces) /\ Len(<<>>) = 0 /\ Bytes(<<>>) = 0 /\ MaxBytes \in Nat /\ MaxWrites \in Nat
    BY BytesGrow, LensAre
  <2>2. FilesTyped /\ FilesCounted
    BY <2>1 DEF Init, FilesTyped, FilesCounted, Handles, PCs
  <2>3. FileCap /\ RetainsEnough
    BY <2>1 DEF Init, FileCap, RetainsEnough
  <2> QED
    BY <2>2, <2>3 DEF FilesInv
<1>2. FilesInv /\ [Next]_vars => FilesInv'
  BY LogNextKeeps
<1> QED
  BY <1>1, <1>2, PTL DEF Spec

\* Write and rotate: neither file outgrows its limit, whatever fails.
THEOREM CapKept == Spec => []FileCap
<1>1. FilesInv => FileCap
  BY DEF FilesInv
<1> QED
  BY <1>1, FilesInvariance, PTL

\* rotate: the files keep everything, or nearly a full file, whichever step fails.
THEOREM EnoughRetained == Spec => []RetainsEnough
<1>1. FilesInv => RetainsEnough
  BY DEF FilesInv
<1> QED
  BY <1>1, FilesInvariance, PTL

----------------------------------------------------------------------------
\* What a scanner finds

\* A line has a piece at least.
Line == Seq(Pieces) \ {<<>>}

\* A sequence that is not empty is its front and its last element.
LEMMA FrontAndLast ==
    ASSUME NEW S, NEW s \in Seq(S), s # <<>>
    PROVE  /\ Front(s) \in Seq(S) /\ Last(s) \in S /\ Len(Front(s)) = Len(s) - 1
           /\ s = Append(Front(s), Last(s))
<1>1. Len(s) \in Nat \ {0} /\ \A i \in 1 .. Len(s) : s[i] \in S
  BY EmptySeq
<1>2. PICK n \in Nat : Len(s) = n + 1
  BY <1>1
<1>3. PICK t : t = Front(s)
  OBVIOUS
<1>4. t = SubSeq(s, 1, n)
  BY <1>2, <1>3 DEF Front
<1>5. t \in Seq(S) /\ Len(t) = n /\ \A i \in 1 .. n : t[i] = s[i]
  BY <1>1, <1>2, <1>4, SubSeqProperties
<1>6. Last(s) = s[n + 1] /\ s[n + 1] \in S
  BY <1>1, <1>2 DEF Last
<1>7. Append(t, Last(s)) = s
  <2>1. PICK u : u = Append(t, Last(s))
    OBVIOUS
  <2>2. u \in Seq(S) /\ Len(u) = n + 1 /\ u[n + 1] = s[n + 1] /\ \A i \in 1 .. n : u[i] = t[i]
    BY <1>5, <1>6, <2>1, AppendProperties
  <2>3. \A i \in 1 .. n + 1 : u[i] = s[i]
    BY <1>5, <2>2
  <2>4. u = s
    BY <1>2, <2>2, <2>3, SeqEqual
  <2> QED
    BY <2>1, <2>4
<1> QED
  BY <1>2, <1>3, <1>5, <1>6, <1>7

\* What the scanner makes of one more piece.
Scanned(ls, p) ==
    IF ls = <<>> \/ Last(Last(ls)).ended THEN Append(ls, <<p>>)
    ELSE Append(Front(ls), Append(Last(ls), p))

LEMMA ScannedIs ==
    ASSUME NEW ls \in Seq(Line), NEW p \in Pieces
    PROVE  Scanned(ls, p) \in Seq(Line)
<1>1. <<p>> \in Line
  BY DEF Line
<1>2. CASE ls = <<>> \/ Last(Last(ls)).ended
  <2>1. Append(ls, <<p>>) \in Seq(Line)
    BY <1>1, AppendProperties
  <2> QED
    BY <1>2, <2>1 DEF Scanned
<1>3. CASE ls # <<>> /\ ~ (ls = <<>> \/ Last(Last(ls)).ended)
  <2>1. Front(ls) \in Seq(Line) /\ Last(ls) \in Line
    BY <1>3, FrontAndLast
  <2>2. Append(Last(ls), p) \in Line
    BY <2>1, AppendProperties DEF Line
  <2>3. Append(Front(ls), Append(Last(ls), p)) \in Seq(Line)
    BY <2>1, <2>2, AppendProperties
  <2> QED
    BY <1>3, <2>3 DEF Scanned
<1> QED
  BY <1>2, <1>3

\* The scanner's step as a function.
ScanStep == [x \in Seq(Line) \X Pieces |-> Scanned(x[1], x[2])]

LEMMA ScanStepIs ==
    /\ ScanStep \in [Seq(Line) \X Pieces -> Seq(Line)]
    /\ \A ls \in Seq(Line), p \in Pieces : ScanStep[<<ls, p>>] = Scanned(ls, p)
BY ScannedIs DEF ScanStep

\* Lines is the end of the history of scanning.
LEMMA LinesEnd ==
    ASSUME NEW f \in Seq(Pieces), NEW h \in [0 .. Len(f) -> Seq(Line)],
           History(h, ScanStep, <<>>, f, Len(f))
    PROVE  Lines(f) = h[Len(f)]
<1> DEFINE n == Len(f)
           S == DOMAIN f
           Step(F) == [s \in SUBSET S |-> IF s = {} THEN <<>> ELSE Scanned(F[s \ {Max(s)}], f[Max(s)])]
           F == CHOOSE F : F = Step(F)
<1>1. Lines(f) = F[S]
  BY DEF Lines, FoldLeft, MapThenFoldSet, Scanned
<1>2. n \in Nat /\ S = 1 .. n /\ f \in [1 .. n -> Pieces] /\ <<>> \in Seq(Line)
  BY LenProperties, EmptySeq
<1> HIDE DEF n, S
<1>3. PICK T \in [SUBSET S -> Seq(Line)] : InOrder(T, ScanStep, <<>>, f, n)
  BY <1>2, ScanStepIs, InOrderExists
<1>4. \A s \in SUBSET S : s # {} => Max(s) \in s /\ f[Max(s)] \in Pieces
  BY <1>2, MaxIs
<1>5. T = Step(T)
  <2>1. ASSUME NEW s \in SUBSET S
        PROVE  T[s] = IF s = {} THEN <<>> ELSE Scanned(T[s \ {Max(s)}], f[Max(s)])
    <3>1. T[s] = IF s = {} THEN <<>> ELSE ScanStep[<<T[s \ {Max(s)}], f[Max(s)]>>]
      BY <1>2, <1>3 DEF InOrder
    <3>2. s \ {Max(s)} \in SUBSET S
      OBVIOUS
    <3>3. T[s \ {Max(s)}] \in Seq(Line)
      BY <1>3, <3>2
    <3> QED
      BY <1>4, <3>1, <3>3, ScanStepIs
  <2> QED
    BY <1>3, <2>1
<1>6. F = Step(F)
  <2> HIDE DEF Step
  <2> QED
    BY <1>5
<1> HIDE DEF F
<1>7. F[{}] = <<>> /\ \A s \in SUBSET S : s # {} => F[s] = Scanned(F[s \ {Max(s)}], f[Max(s)])
  BY <1>6
<1>8. \A s \in SUBSET (1 .. n) :
         s # {} /\ F[s \ {Max(s)}] \in Seq(Line) => F[s] = ScanStep[<<F[s \ {Max(s)}], f[Max(s)]>>]
  BY <1>2, <1>4, <1>7, ScanStepIs
<1>9. \A i \in 0 .. n : F[1 .. i] = h[i]
  <2>1. h \in [0 .. n -> Seq(Line)] /\ History(h, ScanStep, <<>>, f, n)
    BY DEF n
  <2>2. InOrderOn(Seq(Line), F, ScanStep, <<>>, f, n)
    BY <1>7, <1>8 DEF InOrderOn
  <2>3. PICK X, op, base : X = Seq(Line) /\ op = ScanStep /\ base = <<>>
    OBVIOUS
  <2>4. n \in Nat /\ h \in [0 .. n -> X] /\ History(h, op, base, f, n) /\ InOrderOn(X, F, op, base, f, n)
    BY <1>2, <2>1, <2>2, <2>3
  <2> QED
    BY <2>4, InOrderEnds
<1> QED
  BY <1>1, <1>2, <1>9 DEF n

\* One piece after the other.
LEMMA LinesGrow ==
    /\ Lines(<<>>) = <<>>
    /\ \A f \in Seq(Pieces) :
          Lines(f) \in Seq(Line) /\ \A p \in Pieces : Lines(Append(f, p)) = Scanned(Lines(f), p)
<1>1. ASSUME NEW f \in Seq(Pieces)
      PROVE  \E h \in [0 .. Len(f) -> Seq(Line)] : History(h, ScanStep, <<>>, f, Len(f))
  <2>1. Len(f) \in Nat /\ f \in [1 .. Len(f) -> Pieces] /\ <<>> \in Seq(Line)
    BY LenProperties, EmptySeq
  <2> QED
    BY <2>1, ScanStepIs, HistoryExists
<1>2. Lines(<<>>) = <<>>
  <2>1. PICK e : e = <<>>
    OBVIOUS
  <2>2. e \in Seq(Pieces) /\ Len(e) = 0
    BY <2>1
  <2>3. PICK h \in [0 .. Len(e) -> Seq(Line)] : History(h, ScanStep, <<>>, e, Len(e))
    BY <1>1, <2>2
  <2>4. Lines(e) = h[0] /\ h[0] = <<>>
    BY <2>2, <2>3, LinesEnd DEF History
  <2> QED
    BY <2>1, <2>4
<1>3. ASSUME NEW f \in Seq(Pieces)
      PROVE  Lines(f) \in Seq(Line) /\ \A p \in Pieces : Lines(Append(f, p)) = Scanned(Lines(f), p)
  <2>1. PICK h \in [0 .. Len(f) -> Seq(Line)] : History(h, ScanStep, <<>>, f, Len(f))
    BY <1>1
  <2>2. Lines(f) = h[Len(f)] /\ Len(f) \in 0 .. Len(f)
    BY <2>1, LinesEnd
  <2>3. ASSUME NEW p \in Pieces PROVE Lines(Append(f, p)) = Scanned(Lines(f), p)
    <3>1. PICK e, n : e = Append(f, p) /\ n = Len(f)
      OBVIOUS
    <3>2. e \in Seq(Pieces) /\ Len(e) = n + 1 /\ n \in Nat /\ e[n + 1] = p /\ \A i \in 1 .. n : e[i] = f[i]
      BY <3>1, AppendProperties
    <3>3. PICK k \in [0 .. n + 1 -> Seq(Line)] : History(k, ScanStep, <<>>, e, n + 1)
      BY <1>1, <3>2
    <3> DEFINE m == [i \in 0 .. n |-> k[i]]
    <3>4. m \in [0 .. n -> Seq(Line)] /\ m[n] = k[n] /\ k[n] \in Seq(Line) /\ n + 1 \in 1 .. n + 1 /\ n + 1 - 1 = n
      BY <3>2
    <3>5. History(m, ScanStep, <<>>, f, n)
      <4>1. m[0] = <<>>
        BY <3>2, <3>3 DEF History
      <4>2. ASSUME NEW i \in 1 .. n PROVE m[i] = ScanStep[<<m[i - 1], f[i]>>]
        <5>1. i \in 1 .. n + 1 /\ i - 1 \in 0 .. n /\ i \in 0 .. n /\ e[i] = f[i]
          BY <3>2
        <5>2. k[i] = ScanStep[<<k[i - 1], e[i]>>]
          BY <3>3, <5>1 DEF History
        <5> QED
          BY <5>1, <5>2
      <4> HIDE DEF m
      <4> QED
        BY <4>1, <4>2 DEF History
    <3> HIDE DEF m
    <3>6. Lines(f) = k[n]
      BY <3>1, <3>4, <3>5, LinesEnd
    <3>7. Lines(e) = k[n + 1]
      BY <3>2, <3>3, LinesEnd
    <3>8. k[n + 1] = ScanStep[<<k[n], p>>]
      BY <3>2, <3>3, <3>4 DEF History
    <3> QED
      BY <3>1, <3>4, <3>6, <3>7, <3>8, ScanStepIs
  <2> QED
    BY <2>2, <2>3
<1> QED
  BY <1>2, <1>3

----------------------------------------------------------------------------
\* The ends of sequences

\* s is the end of t, place by place.
Ends(s, t) ==
    /\ Len(s) <= Len(t)
    /\ \A i \in 1 .. Len(s) : s[i] = t[Len(t) - Len(s) + i]

\* That is what IsSuffix says.
LEMMA EndsIsSuffix ==
    ASSUME NEW S, NEW s \in Seq(S), NEW t \in Seq(S), Ends(s, t)
    PROVE  IsSuffix(s, t)
<1> DEFINE r == Reverse(s)
           q == Reverse(t)
<1>1. PICK n, m : n = Len(s) /\ m = Len(t)
  OBVIOUS
<1>2. n \in Nat /\ m \in Nat /\ n <= m
  BY <1>1 DEF Ends
<1>3. r = [i \in 1 .. n |-> s[n - i + 1]] /\ q = [i \in 1 .. m |-> t[m - i + 1]]
  BY <1>1 DEF Reverse
<1>4. \A i \in 1 .. n : n - i + 1 \in 1 .. n /\ i \in 1 .. m /\ m - i + 1 \in 1 .. m /\ m - n + (n - i + 1) = m - i + 1
  BY <1>2
<1>5. /\ \A i \in 1 .. n : r[i] \in S
      /\ \A i \in 1 .. m : q[i] \in S
  <2>1. \A i \in 1 .. m : m - i + 1 \in 1 .. m
    BY <1>2
  <2> QED
    BY <1>1, <1>3, <1>4, <2>1
<1>6. \A i \in 1 .. n : r[i] = q[i]
  BY <1>1, <1>3, <1>4 DEF Ends
<1>7. Len(r) = n /\ Len(q) = m
  BY <1>2, <1>3
<1> HIDE DEF r, q
<1>8. SubSeq(r, 1, n) = SubSeq(q, 1, n)
  <2>1. \A i \in 1 .. n : q[i] \in S
    BY <1>4, <1>5
  <2>2. PICK u, v : u = SubSeq(r, 1, n) /\ v = SubSeq(q, 1, n)
    OBVIOUS
  <2>3. /\ u \in Seq(S) /\ Len(u) = n /\ \A i \in 1 .. n : u[i] = r[i]
        /\ v \in Seq(S) /\ Len(v) = n /\ \A i \in 1 .. n : v[i] = q[i]
    BY <1>2, <1>5, <2>1, <2>2, SubSeqProperties
  <2>4. u = v
    BY <1>6, <2>3, SeqEqual
  <2> QED
    BY <2>2, <2>4
<1> QED
  BY <1>2, <1>7, <1>8 DEF IsSuffix, IsPrefix, r, q

\* The end of an end is an end.
LEMMA EndsTransitive ==
    ASSUME NEW S, NEW s \in Seq(S), NEW t \in Seq(S), NEW u \in Seq(S), Ends(s, t), Ends(t, u)
    PROVE  Ends(s, u)
<1>1. PICK n, m, k : n = Len(s) /\ m = Len(t) /\ k = Len(u)
  OBVIOUS
<1>2. n \in Nat /\ m \in Nat /\ k \in Nat /\ n <= m /\ m <= k
  BY <1>1 DEF Ends
<1>3. ASSUME NEW i \in 1 .. n PROVE s[i] = u[k - n + i]
  <2>1. m - n + i \in 1 .. m /\ k - m + (m - n + i) = k - n + i
    BY <1>2
  <2>2. s[i] = t[m - n + i]
    BY <1>1 DEF Ends
  <2>3. t[m - n + i] = u[k - m + (m - n + i)]
    BY <1>1, <2>1 DEF Ends
  <2> QED
    BY <2>1, <2>2, <2>3
<1> QED
  BY <1>1, <1>2, <1>3 DEF Ends

\* A sequence ends itself, and nothing ends every sequence.
LEMMA EndsTrivially == ASSUME NEW S, NEW s \in Seq(S) PROVE Ends(s, s) /\ Ends(<<>>, s)
BY DEF Ends

\* Of two ends of a sequence the shorter one ends the other.
LEMMA EndsCompare ==
    ASSUME NEW S, NEW s \in Seq(S), NEW t \in Seq(S), NEW u \in Seq(S), Ends(s, u), Ends(t, u), Len(s) <= Len(t)
    PROVE  Ends(s, t)
<1>1. PICK n, m, k : n = Len(s) /\ m = Len(t) /\ k = Len(u)
  OBVIOUS
<1>2. n \in Nat /\ m \in Nat /\ k \in Nat /\ n <= m /\ m <= k
  BY <1>1 DEF Ends
<1>3. ASSUME NEW i \in 1 .. n PROVE s[i] = t[m - n + i]
  <2>1. m - n + i \in 1 .. m /\ k - m + (m - n + i) = k - n + i
    BY <1>2
  <2>2. s[i] = u[k - n + i]
    BY <1>1 DEF Ends
  <2>3. t[m - n + i] = u[k - m + (m - n + i)]
    BY <1>1, <2>1 DEF Ends
  <2> QED
    BY <2>1, <2>2, <2>3
<1> QED
  BY <1>1, <1>2, <1>3 DEF Ends

\* Both may go on with the same sequence.
LEMMA EndsConcat ==
    ASSUME NEW S, NEW s \in Seq(S), NEW t \in Seq(S), NEW l \in Seq(S), Ends(s, t)
    PROVE  Ends(s \o l, t \o l)
<1>1. PICK n, m, k, x, y : n = Len(s) /\ m = Len(t) /\ k = Len(l) /\ x = s \o l /\ y = t \o l
  OBVIOUS
<1>2. n \in Nat /\ m \in Nat /\ k \in Nat /\ n <= m
  BY <1>1 DEF Ends
<1>3. /\ Len(x) = n + k /\ \A i \in 1 .. n + k : x[i] = IF i <= n THEN s[i] ELSE l[i - n]
      /\ Len(y) = m + k /\ \A i \in 1 .. m + k : y[i] = IF i <= m THEN t[i] ELSE l[i - m]
  BY <1>1, ConcatProperties
<1>4. ASSUME NEW i \in 1 .. n + k PROVE x[i] = y[m + k - (n + k) + i]
  <2>1. PICK j : j = m + k - (n + k) + i
    OBVIOUS
  <2>2. j \in 1 .. m + k /\ (i <= n <=> j <= m) /\ j - m = i - n /\ j = m - n + i
    BY <1>2, <2>1
  <2>3. i <= n => s[i] = t[j]
    BY <1>1, <1>2, <2>2 DEF Ends
  <2>4. x[i] = (IF i <= n THEN s[i] ELSE l[i - n]) /\ y[j] = IF j <= m THEN t[j] ELSE l[j - m]
    BY <1>3, <2>2
  <2> QED
    BY <2>1, <2>2, <2>3, <2>4
<1>5. Ends(x, y)
  BY <1>2, <1>3, <1>4 DEF Ends
<1> QED
  BY <1>1, <1>5

\* Of two sequences that end alike, the fronts do.
LEMMA EndsFront ==
    ASSUME NEW S, NEW s \in Seq(S), NEW t \in Seq(S), NEW p \in S, NEW q \in S,
           Ends(Append(s, p), Append(t, q))
    PROVE  p = q /\ Ends(s, t)
<1>1. PICK n, m, x, y : n = Len(s) /\ m = Len(t) /\ x = Append(s, p) /\ y = Append(t, q)
  OBVIOUS
<1>2. /\ Len(x) = n + 1 /\ x[n + 1] = p /\ \A i \in 1 .. n : x[i] = s[i]
      /\ Len(y) = m + 1 /\ y[m + 1] = q /\ \A i \in 1 .. m : y[i] = t[i]
  BY <1>1, AppendProperties
<1>3. n \in Nat /\ m \in Nat /\ Len(x) <= Len(y) /\ \A i \in 1 .. Len(x) : x[i] = y[Len(y) - Len(x) + i]
  <2>1. Ends(x, y)
    BY <1>1
  <2>2. n \in Nat /\ m \in Nat
    BY <1>1
  <2>3. Len(x) <= Len(y) /\ \A i \in 1 .. Len(x) : x[i] = y[Len(y) - Len(x) + i]
    BY <2>1, Zenon DEF Ends
  <2> QED
    BY <2>2, <2>3
<1>4. n <= m /\ \A i \in 1 .. n + 1 : x[i] = y[m + 1 - (n + 1) + i]
  BY <1>2, <1>3
<1>5. p = q
  <2>1. n + 1 \in 1 .. n + 1 /\ m + 1 - (n + 1) + (n + 1) = m + 1
    BY <1>3
  <2> QED
    BY <1>2, <1>4, <2>1
<1>6. ASSUME NEW i \in 1 .. n PROVE s[i] = t[m - n + i]
  <2>1. i \in 1 .. n + 1 /\ m - n + i \in 1 .. m /\ m + 1 - (n + 1) + i = m - n + i
    BY <1>3, <1>4
  <2> QED
    BY <1>2, <1>4, <2>1
<1> QED
  BY <1>1, <1>3, <1>4, <1>5, <1>6 DEF Ends

\* Its last elements are the end of a sequence.
LEMMA EndsSubSeq ==
    ASSUME NEW S, NEW s \in Seq(S), NEW i \in 1 .. Len(s) + 1
    PROVE  /\ SubSeq(s, i, Len(s)) \in Seq(S) /\ Ends(SubSeq(s, i, Len(s)), s)
           /\ Len(SubSeq(s, i, Len(s))) = Len(s) - i + 1
<1>1. PICK n, u : n = Len(s) /\ u = SubSeq(s, i, n)
  OBVIOUS
<1>2. n \in Nat /\ i \in 1 .. n + 1 /\ \A j \in i .. n : s[j] \in S
  BY <1>1
<1>3. u \in Seq(S) /\ Len(u) = n - i + 1 /\ \A j \in 1 .. n - i + 1 : u[j] = s[i + j - 1]
  <2>1. Len(u) = (IF i <= n THEN n - i + 1 ELSE 0) /\ u \in Seq(S) /\ \A j \in 1 .. n - i + 1 : u[j] = s[i + j - 1]
    BY <1>1, <1>2, SubSeqProperties
  <2> QED
    BY <1>2, <2>1
<1>4. ASSUME NEW j \in 1 .. n - i + 1 PROVE u[j] = s[n - (n - i + 1) + j]
  <2>1. n - (n - i + 1) + j = i + j - 1
    BY <1>2
  <2> QED
    BY <1>3, <2>1
<1>5. Ends(u, s)
  BY <1>1, <1>2, <1>3, <1>4 DEF Ends
<1> QED
  BY <1>1, <1>3, <1>5

\* The end of a file holds no more than the file.
LEMMA EndsBytes ==
    \A s, t \in Seq(Pieces) : Ends(s, t) => Bytes(s) <= Bytes(t)
<1> DEFINE P(n) == \A s, t \in Seq(Pieces) : Len(s) = n /\ Ends(s, t) => Bytes(s) <= Bytes(t)
           T == {n \in Nat : P(n)}
<1>b. \A f \in Seq(Pieces) : Bytes(f) \in Nat
  BY BytesGrow
<1>1. P(0)
  <2> SUFFICES ASSUME NEW s \in Seq(Pieces), NEW t \in Seq(Pieces), Len(s) = 0 PROVE Bytes(s) <= Bytes(t)
    OBVIOUS
  <2>1. s = <<>>
    BY EmptySeq
  <2>2. Bytes(s) = 0 /\ Bytes(t) \in Nat
    BY <2>1, BytesGrow
  <2> QED
    BY <2>2
<1>2. ASSUME NEW n \in Nat, P(n) PROVE P(n + 1)
  <2> SUFFICES ASSUME NEW s \in Seq(Pieces), NEW t \in Seq(Pieces), Len(s) = n + 1, Ends(s, t)
               PROVE  Bytes(s) <= Bytes(t)
    OBVIOUS
  <2>1. s # <<>> /\ t # <<>>
    <3>1. Len(t) \in Nat /\ n + 1 <= Len(t)
      BY DEF Ends
    <3> QED
      BY <3>1
  <2>2. PICK u, v, p, q : u = Front(s) /\ v = Front(t) /\ p = Last(s) /\ q = Last(t)
    OBVIOUS
  <2>3. /\ u \in Seq(Pieces) /\ p \in Pieces /\ Len(u) = Len(s) - 1 /\ s = Append(u, p)
        /\ v \in Seq(Pieces) /\ q \in Pieces /\ t = Append(v, q)
    BY <2>1, <2>2, FrontAndLast
  <2>4. p = q /\ Ends(u, v)
    BY <2>3, EndsFront
  <2>5. Bytes(u) <= Bytes(v)
    BY <1>2, <2>3, <2>4
  <2>6. Bytes(s) = Bytes(u) + p.len /\ Bytes(t) = Bytes(v) + p.len
    BY <2>3, <2>4, BytesGrow
  <2>7. p.len \in Nat
    BY <2>3, LogAssumption DEF Pieces
  <2> QED
    BY <1>b, <2>3, <2>5, <2>6, <2>7
<1>3. \A n \in Nat : P(n)
  <2> HIDE DEF P
  <2>1. T \subseteq Nat /\ 0 \in T /\ \A n \in T : n + 1 \in T
    BY <1>1, <1>2
  <2>2. T = Nat
    <3> HIDE DEF T
    <3> QED
      BY <2>1, Induction
  <2> QED
    BY <2>2
<1> SUFFICES ASSUME NEW s \in Seq(Pieces), NEW t \in Seq(Pieces), Ends(s, t) PROVE Bytes(s) <= Bytes(t)
  OBVIOUS
<1>4. Len(s) \in Nat
  OBVIOUS
<1> QED
  BY <1>3, <1>4

\* Appending to the second of two sequences.
LEMMA AppendLast ==
    ASSUME NEW S, NEW s \in Seq(S), NEW t \in Seq(S), NEW p \in S
    PROVE  s \o Append(t, p) = Append(s \o t, p)
<1>1. <<p>> \in Seq(S) /\ s \o t \in Seq(S)
  BY ConcatProperties
<1>2. Append(t, p) = t \o <<p>> /\ Append(s \o t, p) = (s \o t) \o <<p>>
  BY <1>1, AppendIsConcat
<1>3. (s \o t) \o <<p>> = s \o (t \o <<p>>)
  BY <1>1, ConcatAssociative
<1> QED
  BY <1>2, <1>3

\* Two files hold what they hold together.
LEMMA BytesAdd ==
    \A s, t \in Seq(Pieces) : Bytes(s \o t) = Bytes(s) + Bytes(t)
<1> DEFINE P(n) == \A s, t \in Seq(Pieces) : Len(t) = n => Bytes(s \o t) = Bytes(s) + Bytes(t)
           T == {n \in Nat : P(n)}
<1>b. \A f \in Seq(Pieces) : Bytes(f) \in Nat
  BY BytesGrow
<1>1. P(0)
  <2> SUFFICES ASSUME NEW s \in Seq(Pieces), NEW t \in Seq(Pieces), Len(t) = 0
               PROVE  Bytes(s \o t) = Bytes(s) + Bytes(t)
    OBVIOUS
  <2>1. t = <<>>
    BY EmptySeq
  <2>2. Bytes(t) = 0 /\ Bytes(s) \in Nat /\ s \o t = s
    BY <2>1, BytesGrow, ConcatEmptySeq
  <2> QED
    BY <2>2
<1>2. ASSUME NEW n \in Nat, P(n) PROVE P(n + 1)
  <2> SUFFICES ASSUME NEW s \in Seq(Pieces), NEW t \in Seq(Pieces), Len(t) = n + 1
               PROVE  Bytes(s \o t) = Bytes(s) + Bytes(t)
    OBVIOUS
  <2>1. PICK u, p : u = Front(t) /\ p = Last(t)
    OBVIOUS
  <2>2. u \in Seq(Pieces) /\ p \in Pieces /\ Len(u) = n /\ t = Append(u, p)
    <3>1. t # <<>>
      OBVIOUS
    <3>2. u \in Seq(Pieces) /\ p \in Pieces /\ Len(u) = Len(t) - 1 /\ t = Append(u, p)
      BY <2>1, <3>1, FrontAndLast
    <3> QED
      BY <3>2
  <2>3. s \o t = Append(s \o u, p) /\ s \o u \in Seq(Pieces)
    BY <2>2, AppendLast, ConcatProperties
  <2>4. Bytes(s \o t) = Bytes(s \o u) + p.len /\ Bytes(t) = Bytes(u) + p.len
    BY <2>2, <2>3, BytesGrow
  <2>5. Bytes(s \o u) = Bytes(s) + Bytes(u)
    BY <1>2, <2>2
  <2>6. p.len \in Nat
    BY <2>2, LogAssumption DEF Pieces
  <2> QED
    BY <1>b, <2>2, <2>4, <2>5, <2>6
<1>3. \A n \in Nat : P(n)
  <2> HIDE DEF P
  <2>1. T \subseteq Nat /\ 0 \in T /\ \A n \in T : n + 1 \in T
    BY <1>1, <1>2
  <2>2. T = Nat
    <3> HIDE DEF T
    <3> QED
      BY <2>1, Induction
  <2> QED
    BY <2>2
<1> SUFFICES ASSUME NEW s \in Seq(Pieces), NEW t \in Seq(Pieces) PROVE Bytes(s \o t) = Bytes(s) + Bytes(t)
  OBVIOUS
<1>4. Len(t) \in Nat
  OBVIOUS
<1> QED
  BY <1>3, <1>4

----------------------------------------------------------------------------
\* The pieces of lines

\* The step of FlattenSeq as a function.
JoinStep == [x \in Seq(Pieces) \X Line |-> x[1] \o x[2]]

LEMMA JoinStepIs ==
    /\ JoinStep \in [Seq(Pieces) \X Line -> Seq(Pieces)]
    /\ \A s \in Seq(Pieces), l \in Line : JoinStep[<<s, l>>] = s \o l
<1>1. \A s \in Seq(Pieces), l \in Line : s \o l \in Seq(Pieces)
  BY ConcatProperties DEF Line
<1> QED
  BY <1>1 DEF JoinStep

\* FlattenSeq is the end of the history of joining lines.
LEMMA FlattenEnd ==
    ASSUME NEW ls \in Seq(Line), NEW h \in [0 .. Len(ls) -> Seq(Pieces)],
           History(h, JoinStep, <<>>, ls, Len(ls))
    PROVE  FlattenSeq(ls) = h[Len(ls)]
<1>1. PICK n : n = Len(ls)
  OBVIOUS
<1>2. n \in Nat /\ h \in [0 .. n -> Seq(Pieces)] /\ h[0] = <<>> /\ \A i \in 1 .. n : ls[i] \in Line
  BY <1>1 DEF History
<1>3. ASSUME NEW i \in 1 .. n PROVE h[i] = h[i - 1] \o ls[i] /\ h[i] \in Seq(Pieces)
  <2>1. i - 1 \in 0 .. n /\ i \in 0 .. n
    BY <1>2
  <2>2. h[i] = JoinStep[<<h[i - 1], ls[i]>>] /\ h[i - 1] \in Seq(Pieces) /\ h[i] \in Seq(Pieces) /\ ls[i] \in Line
    BY <1>1, <1>2, <2>1 DEF History
  <2> QED
    BY <2>2, JoinStepIs
<1>4. CASE n = 0
  <2>1. ls = <<>> /\ FlattenSeq(ls) = ls
    BY <1>1, <1>4, EmptySeq DEF FlattenSeq
  <2> QED
    BY <1>1, <1>2, <1>4, <2>1
<1>5. CASE n # 0
  <2> DEFINE Step(F) == [i \in 1 .. n |-> IF i = 1 THEN ls[i] ELSE F[i - 1] \o ls[i]]
             F == CHOOSE F : F = Step(F)
  <2>1. FlattenSeq(ls) = F[n]
    BY <1>1, <1>5 DEF FlattenSeq
  <2> DEFINE H == [i \in 1 .. n |-> h[i]]
  <2>2. H = Step(H)
    <3>1. ASSUME NEW i \in 1 .. n PROVE H[i] = IF i = 1 THEN ls[i] ELSE H[i - 1] \o ls[i]
      <4>1. CASE i = 1
        <5>0. 1 \in 1 .. n /\ 1 - 1 = 0
          BY <4>1
        <5>1. h[1] = <<>> \o ls[1] /\ ls[1] \in Seq(Pieces)
          <6>1. h[1] = h[1 - 1] \o ls[1]
            BY <1>3, <5>0
          <6>2. ls[1] \in Seq(Pieces)
            BY <1>2, <5>0 DEF Line
          <6> QED
            BY <1>2, <5>0, <6>1, <6>2
        <5>2. h[1] = ls[1]
          BY <5>1, ConcatEmptySeq
        <5> QED
          BY <4>1, <5>2
      <4>2. CASE i # 1
        <5>1. i - 1 \in 1 .. n
          BY <1>2, <4>2
        <5>2. H[i - 1] = h[i - 1] /\ H[i] = h[i]
          BY <5>1
        <5> QED
          BY <1>3, <4>2, <5>2
      <4> QED
        BY <4>1, <4>2
    <3> QED
      BY <3>1
  <2>3. F = Step(F)
    <3> HIDE DEF Step, H
    <3> QED
      BY <2>2
  <2> HIDE DEF F
  <2>4. \A i \in 1 .. n : F[i] = IF i = 1 THEN ls[i] ELSE F[i - 1] \o ls[i]
    BY <2>3
  <2>5. \A i \in 1 .. n : H[i] = IF i = 1 THEN ls[i] ELSE H[i - 1] \o ls[i]
    BY <2>2
  <2> HIDE DEF Step, H
  <2> DEFINE P(k) == k \in 1 .. n => F[k] = H[k]
             T == {k \in Nat : P(k)}
  <2>6. P(0)
    BY <1>2
  <2>7. ASSUME NEW k \in Nat, P(k) PROVE P(k + 1)
    <3> SUFFICES ASSUME k + 1 \in 1 .. n PROVE F[k + 1] = H[k + 1]
      OBVIOUS
    <3>1. CASE k = 0
      <4>1. k + 1 = 1
        BY <3>1
      <4>2. F[1] = ls[1] /\ H[1] = ls[1]
        BY <2>4, <2>5, <4>1
      <4> QED
        BY <4>1, <4>2
    <3>2. CASE k # 0
      <4>1. k \in 1 .. n /\ k + 1 # 1 /\ k + 1 - 1 = k
        BY <1>2, <3>2
      <4>2. F[k + 1] = F[k] \o ls[k + 1] /\ H[k + 1] = H[k] \o ls[k + 1]
        <5>1. PICK j \in 1 .. n : j = k + 1
          OBVIOUS
        <5>2. j # 1 /\ j - 1 = k
          BY <4>1, <5>1
        <5>3. F[j] = F[j - 1] \o ls[j] /\ H[j] = H[j - 1] \o ls[j]
          BY <2>4, <2>5, <5>2
        <5> QED
          BY <5>1, <5>2, <5>3
      <4> QED
        BY <2>7, <4>1, <4>2
    <3> QED
      BY <3>1, <3>2
  <2>8. \A k \in Nat : P(k)
    <3> HIDE DEF P
    <3>1. T \subseteq Nat /\ 0 \in T /\ \A k \in T : k + 1 \in T
      BY <2>6, <2>7
    <3>2. T = Nat
      <4> HIDE DEF T
      <4> QED
        BY <3>1, Induction
    <3> QED
      BY <3>2
  <2>9. F[n] = H[n] /\ H[n] = h[n]
    BY <1>2, <1>5, <2>8 DEF H
  <2> QED
    BY <1>1, <2>1, <2>9
<1> QED
  BY <1>4, <1>5

\* One line after the other.
LEMMA FlattenGrows ==
    /\ FlattenSeq(<<>>) = <<>>
    /\ \A ls \in Seq(Line) :
          /\ FlattenSeq(ls) \in Seq(Pieces)
          /\ \A l \in Line : FlattenSeq(Append(ls, l)) = FlattenSeq(ls) \o l
<1>1. ASSUME NEW ls \in Seq(Line)
      PROVE  \E h \in [0 .. Len(ls) -> Seq(Pieces)] : History(h, JoinStep, <<>>, ls, Len(ls))
  <2>1. Len(ls) \in Nat /\ ls \in [1 .. Len(ls) -> Line] /\ <<>> \in Seq(Pieces)
    BY LenProperties, EmptySeq
  <2> QED
    BY <2>1, JoinStepIs, HistoryExists
<1>2. FlattenSeq(<<>>) = <<>>
  BY DEF FlattenSeq
<1>3. ASSUME NEW ls \in Seq(Line)
      PROVE  /\ FlattenSeq(ls) \in Seq(Pieces)
             /\ \A l \in Line : FlattenSeq(Append(ls, l)) = FlattenSeq(ls) \o l
  <2>1. PICK h \in [0 .. Len(ls) -> Seq(Pieces)] : History(h, JoinStep, <<>>, ls, Len(ls))
    BY <1>1
  <2>2. FlattenSeq(ls) = h[Len(ls)] /\ Len(ls) \in 0 .. Len(ls)
    BY <2>1, FlattenEnd
  <2>3. ASSUME NEW l \in Line PROVE FlattenSeq(Append(ls, l)) = FlattenSeq(ls) \o l
    <3>1. PICK e, n : e = Append(ls, l) /\ n = Len(ls)
      OBVIOUS
    <3>2. e \in Seq(Line) /\ Len(e) = n + 1 /\ n \in Nat /\ e[n + 1] = l /\ \A i \in 1 .. n : e[i] = ls[i]
      BY <3>1, AppendProperties
    <3>3. PICK k \in [0 .. n + 1 -> Seq(Pieces)] : History(k, JoinStep, <<>>, e, n + 1)
      BY <1>1, <3>2
    <3> DEFINE m == [i \in 0 .. n |-> k[i]]
    <3>4. m \in [0 .. n -> Seq(Pieces)] /\ m[n] = k[n] /\ k[n] \in Seq(Pieces) /\ n + 1 \in 1 .. n + 1
          /\ n + 1 - 1 = n
      BY <3>2
    <3>5. History(m, JoinStep, <<>>, ls, n)
      <4>1. m[0] = <<>>
        BY <3>2, <3>3 DEF History
      <4>2. ASSUME NEW i \in 1 .. n PROVE m[i] = JoinStep[<<m[i - 1], ls[i]>>]
        <5>1. i \in 1 .. n + 1 /\ i - 1 \in 0 .. n /\ i \in 0 .. n /\ e[i] = ls[i]
          BY <3>2
        <5>2. k[i] = JoinStep[<<k[i - 1], e[i]>>]
          BY <3>3, <5>1 DEF History
        <5> QED
          BY <5>1, <5>2
      <4> HIDE DEF m
      <4> QED
        BY <4>1, <4>2 DEF History
    <3> HIDE DEF m
    <3>6. FlattenSeq(ls) = k[n]
      BY <3>1, <3>4, <3>5, FlattenEnd
    <3>7. FlattenSeq(e) = k[n + 1]
      BY <3>2, <3>3, FlattenEnd
    <3>8. k[n + 1] = JoinStep[<<k[n], l>>]
      BY <3>2, <3>3, <3>4 DEF History
    <3> QED
      BY <3>1, <3>4, <3>6, <3>7, <3>8, JoinStepIs
  <2> QED
    BY <2>2, <2>3
<1> QED
  BY <1>2, <1>3

\* The scanner loses nothing and keeps the order.
LEMMA LinesJoin ==
    \A f \in Seq(Pieces) : FlattenSeq(Lines(f)) = f
<1> DEFINE P(n) == \A f \in Seq(Pieces) : Len(f) = n => FlattenSeq(Lines(f)) = f
           T == {n \in Nat : P(n)}
<1>1. P(0)
  <2> SUFFICES ASSUME NEW f \in Seq(Pieces), Len(f) = 0 PROVE FlattenSeq(Lines(f)) = f
    OBVIOUS
  <2>1. f = <<>>
    BY EmptySeq
  <2> QED
    BY <2>1, LinesGrow, FlattenGrows
<1>2. ASSUME NEW n \in Nat, P(n) PROVE P(n + 1)
  <2> SUFFICES ASSUME NEW g \in Seq(Pieces), Len(g) = n + 1 PROVE FlattenSeq(Lines(g)) = g
    OBVIOUS
  <2>1. PICK f, p, ls : f = Front(g) /\ p = Last(g) /\ ls = Lines(f)
    OBVIOUS
  <2>2. f \in Seq(Pieces) /\ p \in Pieces /\ Len(f) = n /\ g = Append(f, p)
    <3>1. g # <<>>
      OBVIOUS
    <3>2. f \in Seq(Pieces) /\ p \in Pieces /\ Len(f) = Len(g) - 1 /\ g = Append(f, p)
      BY <2>1, <3>1, FrontAndLast
    <3> QED
      BY <3>2
  <2>3. FlattenSeq(ls) = f
    BY <1>2, <2>1, <2>2
  <2>4. ls \in Seq(Line) /\ Lines(g) = Scanned(ls, p)
    BY <2>1, <2>2, LinesGrow
  <2>5. <<p>> \in Line /\ <<p>> \in Seq(Pieces)
    BY <2>2 DEF Line
  <2>6. CASE Scanned(ls, p) = Append(ls, <<p>>)
    <3>1. FlattenSeq(Append(ls, <<p>>)) = f \o <<p>>
      BY <2>3, <2>4, <2>5, FlattenGrows
    <3>2. f \o <<p>> = Append(f, p)
      BY <2>2, AppendIsConcat
    <3> QED
      BY <2>2, <2>4, <2>6, <3>1, <3>2
  <2>7. CASE ls # <<>> /\ Scanned(ls, p) = Append(Front(ls), Append(Last(ls), p))
    <3>1. PICK u, l : u = Front(ls) /\ l = Last(ls)
      OBVIOUS
    <3>2. u \in Seq(Line) /\ l \in Line /\ ls = Append(u, l)
      BY <2>4, <2>7, <3>1, FrontAndLast
    <3>3. l \in Seq(Pieces) /\ Append(l, p) \in Line
      <4>1. l \in Seq(Pieces)
        BY <3>2 DEF Line
      <4>2. Append(l, p) \in Seq(Pieces) /\ Append(l, p) # <<>>
        BY <2>2, <4>1, AppendProperties
      <4> QED
        BY <4>1, <4>2 DEF Line
    <3>4. FlattenSeq(u) \in Seq(Pieces) /\ FlattenSeq(ls) = FlattenSeq(u) \o l
          /\ FlattenSeq(Append(u, Append(l, p))) = FlattenSeq(u) \o Append(l, p)
      BY <3>2, <3>3, FlattenGrows
    <3>5. FlattenSeq(u) \o Append(l, p) = Append(FlattenSeq(u) \o l, p)
      BY <2>2, <3>3, <3>4, AppendLast
    <3> QED
      BY <2>2, <2>3, <2>4, <2>7, <3>1, <3>4, <3>5
  <2>8. \/ Scanned(ls, p) = Append(ls, <<p>>)
        \/ ls # <<>> /\ Scanned(ls, p) = Append(Front(ls), Append(Last(ls), p))
    BY DEF Scanned
  <2> QED
    BY <2>6, <2>7, <2>8
<1>3. \A n \in Nat : P(n)
  <2> HIDE DEF P
  <2>1. T \subseteq Nat /\ 0 \in T /\ \A n \in T : n + 1 \in T
    BY <1>1, <1>2
  <2>2. T = Nat
    <3> HIDE DEF T
    <3> QED
      BY <2>1, Induction
  <2> QED
    BY <2>2
<1> SUFFICES ASSUME NEW f \in Seq(Pieces) PROVE FlattenSeq(Lines(f)) = f
  OBVIOUS
<1>4. Len(f) \in Nat
  OBVIOUS
<1> QED
  BY <1>3, <1>4

\* The pieces of the last lines are the last pieces.
LEMMA EndsFlatten ==
    \A s, t \in Seq(Line) : Ends(s, t) => Ends(FlattenSeq(s), FlattenSeq(t))
<1> DEFINE P(n) == \A s, t \in Seq(Line) : Len(s) = n /\ Ends(s, t) => Ends(FlattenSeq(s), FlattenSeq(t))
           T == {n \in Nat : P(n)}
<1>1. P(0)
  <2> SUFFICES ASSUME NEW s \in Seq(Line), NEW t \in Seq(Line), Len(s) = 0
               PROVE  Ends(FlattenSeq(s), FlattenSeq(t))
    OBVIOUS
  <2>1. s = <<>>
    BY EmptySeq
  <2>2. FlattenSeq(s) = <<>> /\ FlattenSeq(t) \in Seq(Pieces)
    BY <2>1, FlattenGrows
  <2> QED
    BY <2>2, EndsTrivially
<1>2. ASSUME NEW n \in Nat, P(n) PROVE P(n + 1)
  <2> SUFFICES ASSUME NEW s \in Seq(Line), NEW t \in Seq(Line), Len(s) = n + 1, Ends(s, t)
               PROVE  Ends(FlattenSeq(s), FlattenSeq(t))
    OBVIOUS
  <2>1. s # <<>> /\ t # <<>>
    <3>1. Len(t) \in Nat /\ n + 1 <= Len(t)
      BY DEF Ends
    <3> QED
      BY <3>1
  <2>2. PICK u, v, p, q : u = Front(s) /\ v = Front(t) /\ p = Last(s) /\ q = Last(t)
    OBVIOUS
  <2>3. /\ u \in Seq(Line) /\ p \in Line /\ Len(u) = Len(s) - 1 /\ s = Append(u, p)
        /\ v \in Seq(Line) /\ q \in Line /\ t = Append(v, q)
    BY <2>1, <2>2, FrontAndLast
  <2>4. p = q /\ Ends(u, v) /\ Len(u) = n
    BY <2>3, EndsFront
  <2>5. Ends(FlattenSeq(u), FlattenSeq(v))
    BY <1>2, <2>3, <2>4
  <2>6. /\ FlattenSeq(s) = FlattenSeq(u) \o p /\ FlattenSeq(t) = FlattenSeq(v) \o p
        /\ FlattenSeq(u) \in Seq(Pieces) /\ FlattenSeq(v) \in Seq(Pieces) /\ p \in Seq(Pieces)
    BY <2>3, <2>4, FlattenGrows DEF Line
  <2> QED
    BY <2>5, <2>6, EndsConcat
<1>3. \A n \in Nat : P(n)
  <2> HIDE DEF P
  <2>1. T \subseteq Nat /\ 0 \in T /\ \A n \in T : n + 1 \in T
    BY <1>1, <1>2
  <2>2. T = Nat
    <3> HIDE DEF T
    <3> QED
      BY <2>1, Induction
  <2> QED
    BY <2>2
<1> SUFFICES ASSUME NEW s \in Seq(Line), NEW t \in Seq(Line), Ends(s, t)
             PROVE  Ends(FlattenSeq(s), FlattenSeq(t))
  OBVIOUS
<1>4. Len(s) \in Nat
  OBVIOUS
<1> QED
  BY <1>3, <1>4

----------------------------------------------------------------------------
\* appendEntry and load

\* An entry is added at the end, and only a full buffer loses its oldest.
LEMMA AppendEntryIs ==
    ASSUME NEW es \in Seq(Line), NEW l \in Line
    PROVE  /\ AppendEntry(es, l) \in Seq(Line) /\ Ends(AppendEntry(es, l), Append(es, l))
           /\ Len(es) < MaxEntries => AppendEntry(es, l) = Append(es, l)
           /\ Len(es) >= MaxEntries => Len(AppendEntry(es, l)) = MaxEntries
           /\ Len(AppendEntry(es, l)) <= MaxEntries
<1>1. PICK more, n : more = Append(es, l) /\ n = Len(es)
  OBVIOUS
<1>2. more \in Seq(Line) /\ Len(more) = n + 1 /\ n \in Nat /\ MaxEntries \in Nat \ {0}
  BY <1>1, AppendProperties, LogAssumption
<1>3. PICK i : i = IF n + 1 > MaxEntries THEN n + 1 - MaxEntries + 1 ELSE 1
  OBVIOUS
<1>4. i \in 1 .. Len(more) + 1
  BY <1>2, <1>3
<1>5. AppendEntry(es, l) = SubSeq(more, i, Len(more))
  BY <1>1, <1>2, <1>3 DEF AppendEntry
<1>6. /\ AppendEntry(es, l) \in Seq(Line) /\ Ends(AppendEntry(es, l), more)
      /\ Len(AppendEntry(es, l)) = n + 1 - i + 1
  BY <1>2, <1>4, <1>5, EndsSubSeq
<1>7. n < MaxEntries => AppendEntry(es, l) = more
  <2> SUFFICES ASSUME n < MaxEntries PROVE AppendEntry(es, l) = more
    OBVIOUS
  <2>1. i = 1
    BY <1>2, <1>3
  <2> QED
    BY <1>2, <1>5, <2>1, SubSeqFull
<1>8. (n >= MaxEntries => n + 1 - i + 1 = MaxEntries) /\ n + 1 - i + 1 <= MaxEntries
  BY <1>2, <1>3
<1> QED
  BY <1>1, <1>6, <1>7, <1>8

\* load adds line after line.
Entered(es, ls) == FoldLeft(AppendEntry, es, ls)

EntryStep == [x \in Seq(Line) \X Line |-> AppendEntry(x[1], x[2])]

LEMMA EntryStepIs ==
    /\ EntryStep \in [Seq(Line) \X Line -> Seq(Line)]
    /\ \A es \in Seq(Line), l \in Line : EntryStep[<<es, l>>] = AppendEntry(es, l)
<1>1. \A es \in Seq(Line), l \in Line : AppendEntry(es, l) \in Seq(Line)
  BY AppendEntryIs
<1> QED
  BY <1>1 DEF EntryStep

\* What is entered is the end of the history of entering.
LEMMA EnteredEnd ==
    ASSUME NEW es \in Seq(Line), NEW ls \in Seq(Line), NEW h \in [0 .. Len(ls) -> Seq(Line)],
           History(h, EntryStep, es, ls, Len(ls))
    PROVE  Entered(es, ls) = h[Len(ls)]
<1> DEFINE n == Len(ls)
           S == DOMAIN ls
           Step(F) == [s \in SUBSET S |-> IF s = {} THEN es ELSE AppendEntry(F[s \ {Max(s)}], ls[Max(s)])]
           F == CHOOSE F : F = Step(F)
<1>1. Entered(es, ls) = F[S]
  BY DEF Entered, FoldLeft, MapThenFoldSet
<1>2. n \in Nat /\ S = 1 .. n /\ ls \in [1 .. n -> Line]
  BY LenProperties
<1> HIDE DEF n, S
<1>3. PICK T \in [SUBSET S -> Seq(Line)] : InOrder(T, EntryStep, es, ls, n)
  BY <1>2, EntryStepIs, InOrderExists
<1>4. \A s \in SUBSET S : s # {} => Max(s) \in s /\ ls[Max(s)] \in Line
  BY <1>2, MaxIs
<1>5. T = Step(T)
  <2>1. ASSUME NEW s \in SUBSET S
        PROVE  T[s] = IF s = {} THEN es ELSE AppendEntry(T[s \ {Max(s)}], ls[Max(s)])
    <3>1. T[s] = IF s = {} THEN es ELSE EntryStep[<<T[s \ {Max(s)}], ls[Max(s)]>>]
      BY <1>2, <1>3 DEF InOrder
    <3>2. s \ {Max(s)} \in SUBSET S
      OBVIOUS
    <3>3. T[s \ {Max(s)}] \in Seq(Line)
      BY <1>3, <3>2
    <3> QED
      BY <1>4, <3>1, <3>3, EntryStepIs
  <2> QED
    BY <1>3, <2>1
<1>6. F = Step(F)
  <2> HIDE DEF Step
  <2> QED
    BY <1>5
<1> HIDE DEF F
<1>7. F[{}] = es /\ \A s \in SUBSET S : s # {} => F[s] = AppendEntry(F[s \ {Max(s)}], ls[Max(s)])
  BY <1>6
<1>8. \A s \in SUBSET (1 .. n) :
         s # {} /\ F[s \ {Max(s)}] \in Seq(Line) => F[s] = EntryStep[<<F[s \ {Max(s)}], ls[Max(s)]>>]
  BY <1>2, <1>4, <1>7, EntryStepIs
<1>9. \A i \in 0 .. n : F[1 .. i] = h[i]
  <2>1. h \in [0 .. n -> Seq(Line)] /\ History(h, EntryStep, es, ls, n)
    BY DEF n
  <2>2. InOrderOn(Seq(Line), F, EntryStep, es, ls, n)
    BY <1>7, <1>8 DEF InOrderOn
  <2>3. PICK X, op : X = Seq(Line) /\ op = EntryStep
    OBVIOUS
  <2>4. n \in Nat /\ h \in [0 .. n -> X] /\ History(h, op, es, ls, n) /\ InOrderOn(X, F, op, es, ls, n)
    BY <1>2, <2>1, <2>2, <2>3
  <2> QED
    BY <2>4, InOrderEnds
<1> QED
  BY <1>1, <1>2, <1>9 DEF n

\* One line after the other.
LEMMA EnteredGrows ==
    ASSUME NEW es \in Seq(Line)
    PROVE  /\ Entered(es, <<>>) = es
           /\ \A ls \in Seq(Line) :
                 /\ Entered(es, ls) \in Seq(Line)
                 /\ \A l \in Line : Entered(es, Append(ls, l)) = AppendEntry(Entered(es, ls), l)
<1>1. ASSUME NEW ls \in Seq(Line)
      PROVE  \E h \in [0 .. Len(ls) -> Seq(Line)] : History(h, EntryStep, es, ls, Len(ls))
  <2>1. Len(ls) \in Nat /\ ls \in [1 .. Len(ls) -> Line]
    BY LenProperties
  <2> QED
    BY <2>1, EntryStepIs, HistoryExists
<1>2. Entered(es, <<>>) = es
  <2>1. PICK e : e = <<>>
    OBVIOUS
  <2>2. e \in Seq(Line) /\ Len(e) = 0
    BY <2>1
  <2>3. PICK h \in [0 .. Len(e) -> Seq(Line)] : History(h, EntryStep, es, e, Len(e))
    BY <1>1, <2>2
  <2>4. Entered(es, e) = h[0] /\ h[0] = es
    BY <2>2, <2>3, EnteredEnd DEF History
  <2> QED
    BY <2>1, <2>4
<1>3. ASSUME NEW ls \in Seq(Line)
      PROVE  /\ Entered(es, ls) \in Seq(Line)
             /\ \A l \in Line : Entered(es, Append(ls, l)) = AppendEntry(Entered(es, ls), l)
  <2>1. PICK h \in [0 .. Len(ls) -> Seq(Line)] : History(h, EntryStep, es, ls, Len(ls))
    BY <1>1
  <2>2. Entered(es, ls) = h[Len(ls)] /\ Len(ls) \in 0 .. Len(ls)
    BY <2>1, EnteredEnd
  <2>3. ASSUME NEW l \in Line PROVE Entered(es, Append(ls, l)) = AppendEntry(Entered(es, ls), l)
    <3>1. PICK e, n : e = Append(ls, l) /\ n = Len(ls)
      OBVIOUS
    <3>2. e \in Seq(Line) /\ Len(e) = n + 1 /\ n \in Nat /\ e[n + 1] = l /\ \A i \in 1 .. n : e[i] = ls[i]
      BY <3>1, AppendProperties
    <3>3. PICK k \in [0 .. n + 1 -> Seq(Line)] : History(k, EntryStep, es, e, n + 1)
      BY <1>1, <3>2
    <3> DEFINE m == [i \in 0 .. n |-> k[i]]
    <3>4. m \in [0 .. n -> Seq(Line)] /\ m[n] = k[n] /\ k[n] \in Seq(Line) /\ n + 1 \in 1 .. n + 1
          /\ n + 1 - 1 = n
      BY <3>2
    <3>5. History(m, EntryStep, es, ls, n)
      <4>1. m[0] = es
        BY <3>2, <3>3 DEF History
      <4>2. ASSUME NEW i \in 1 .. n PROVE m[i] = EntryStep[<<m[i - 1], ls[i]>>]
        <5>1. i \in 1 .. n + 1 /\ i - 1 \in 0 .. n /\ i \in 0 .. n /\ e[i] = ls[i]
          BY <3>2
        <5>2. k[i] = EntryStep[<<k[i - 1], e[i]>>]
          BY <3>3, <5>1 DEF History
        <5> QED
          BY <5>1, <5>2
      <4> HIDE DEF m
      <4> QED
        BY <4>1, <4>2 DEF History
    <3> HIDE DEF m
    <3>6. Entered(es, ls) = k[n]
      BY <3>1, <3>4, <3>5, EnteredEnd
    <3>7. Entered(es, e) = k[n + 1]
      <4>1. k \in [0 .. Len(e) -> Seq(Line)] /\ History(k, EntryStep, es, e, Len(e))
        BY <3>2, <3>3
      <4>2. Entered(es, e) = k[Len(e)]
        BY <3>2, <4>1, EnteredEnd
      <4> QED
        BY <3>2, <4>2
    <3>8. k[n + 1] = EntryStep[<<k[n], l>>]
      BY <3>2, <3>3, <3>4 DEF History
    <3> QED
      BY <3>1, <3>4, <3>6, <3>7, <3>8, EntryStepIs
  <2> QED
    BY <2>2, <2>3
<1> QED
  BY <1>2, <1>3

\* Loading keeps the order of the pieces and the bound, and what it does not show
\* had to make room.
LEMMA EnteredKeeps ==
    ASSUME NEW es \in Seq(Line), Len(es) <= MaxEntries
    PROVE  \A ls \in Seq(Line) :
              /\ Entered(es, ls) \in Seq(Line) /\ Len(Entered(es, ls)) <= MaxEntries
              /\ Len(es) <= Len(Entered(es, ls))
              /\ Ends(FlattenSeq(Entered(es, ls)), FlattenSeq(es) \o FlattenSeq(ls))
              /\ \/ Len(Entered(es, ls)) = MaxEntries
                 \/ FlattenSeq(Entered(es, ls)) = FlattenSeq(es) \o FlattenSeq(ls)
<1> DEFINE Kept(ls) ==
              /\ Entered(es, ls) \in Seq(Line) /\ Len(Entered(es, ls)) <= MaxEntries
              /\ Len(es) <= Len(Entered(es, ls))
              /\ Ends(FlattenSeq(Entered(es, ls)), FlattenSeq(es) \o FlattenSeq(ls))
              /\ \/ Len(Entered(es, ls)) = MaxEntries
                 \/ FlattenSeq(Entered(es, ls)) = FlattenSeq(es) \o FlattenSeq(ls)
           P(n) == \A ls \in Seq(Line) : Len(ls) = n => Kept(ls)
           T == {n \in Nat : P(n)}
<1>0. FlattenSeq(es) \in Seq(Pieces) /\ Len(es) \in Nat /\ MaxEntries \in Nat \ {0}
  BY FlattenGrows, LogAssumption
<1>1. P(0)
  <2> SUFFICES ASSUME NEW ls \in Seq(Line), Len(ls) = 0 PROVE Kept(ls)
    OBVIOUS
  <2>1. ls = <<>>
    BY EmptySeq
  <2>2. Entered(es, ls) = es /\ FlattenSeq(ls) = <<>>
    BY <2>1, EnteredGrows, FlattenGrows
  <2>3. FlattenSeq(es) \o FlattenSeq(ls) = FlattenSeq(es)
    BY <1>0, <2>2, ConcatEmptySeq
  <2>4. Ends(FlattenSeq(es), FlattenSeq(es))
    BY <1>0, EndsTrivially
  <2> QED
    BY <1>0, <2>2, <2>3, <2>4
<1>2. ASSUME NEW n \in Nat, P(n) PROVE P(n + 1)
  <2> SUFFICES ASSUME NEW ks \in Seq(Line), Len(ks) = n + 1 PROVE Kept(ks)
    OBVIOUS
  <2>1. PICK ls, l, e, f, g, b :
           /\ ls = Front(ks) /\ l = Last(ks) /\ e = Entered(es, ls) /\ f = FlattenSeq(ls)
           /\ g = Entered(es, ks) /\ b = FlattenSeq(es)
    OBVIOUS
  <2>2. ls \in Seq(Line) /\ l \in Line /\ Len(ls) = n /\ ks = Append(ls, l)
    <3>1. ks # <<>>
      OBVIOUS
    <3>2. ls \in Seq(Line) /\ l \in Line /\ Len(ls) = Len(ks) - 1 /\ ks = Append(ls, l)
      BY <2>1, <3>1, FrontAndLast
    <3> QED
      BY <3>2
  <2>3. /\ e \in Seq(Line) /\ Len(e) <= MaxEntries /\ Len(es) <= Len(e) /\ Ends(FlattenSeq(e), b \o f)
        /\ Len(e) = MaxEntries \/ FlattenSeq(e) = b \o f
    <3>1. Kept(ls)
      BY <1>2, <2>2
    <3> QED
      BY <2>1, <3>1
  <2>4. g = AppendEntry(e, l)
    <3>1. \A l2 \in Line : Entered(es, Append(ls, l2)) = AppendEntry(Entered(es, ls), l2)
      BY <2>2, EnteredGrows
    <3>2. Entered(es, Append(ls, l)) = AppendEntry(Entered(es, ls), l)
      BY <2>2, <3>1
    <3> QED
      BY <2>1, <2>2, <3>2
  <2>5. /\ g \in Seq(Line) /\ Ends(g, Append(e, l)) /\ Len(g) <= MaxEntries
        /\ Len(e) < MaxEntries => g = Append(e, l)
        /\ Len(e) >= MaxEntries => Len(g) = MaxEntries
    BY <2>2, <2>3, <2>4, AppendEntryIs
  <2>6. /\ f \in Seq(Pieces) /\ b \in Seq(Pieces) /\ l \in Seq(Pieces) /\ FlattenSeq(e) \in Seq(Pieces)
        /\ FlattenSeq(ks) = f \o l /\ FlattenSeq(Append(e, l)) = FlattenSeq(e) \o l
        /\ FlattenSeq(g) \in Seq(Pieces)
    BY <2>1, <2>2, <2>3, <2>5, FlattenGrows DEF Line
  <2>7. b \o f \in Seq(Pieces) /\ b \o (f \o l) = (b \o f) \o l
    <3>1. b \o f \in Seq(Pieces)
      BY <2>6, ConcatProperties
    <3>2. (b \o f) \o l = b \o (f \o l)
      <4>1. b \in Seq(Pieces) /\ f \in Seq(Pieces) /\ l \in Seq(Pieces)
        BY <2>6
      <4> QED
        BY <4>1, ConcatAssociative
    <3> QED
      BY <3>1, <3>2
  <2>8. Ends(FlattenSeq(g), FlattenSeq(e) \o l)
    <3>1. Append(e, l) \in Seq(Line)
      BY <2>2, <2>3, AppendProperties
    <3>2. Ends(FlattenSeq(g), FlattenSeq(Append(e, l)))
      BY <2>5, <3>1, EndsFlatten
    <3> QED
      BY <2>6, <3>2
  <2>9. Ends(FlattenSeq(e) \o l, (b \o f) \o l)
    BY <2>3, <2>6, <2>7, EndsConcat
  <2>10. Ends(FlattenSeq(g), (b \o f) \o l)
    <3>1. PICK x, y : x = FlattenSeq(e) \o l /\ y = (b \o f) \o l
      OBVIOUS
    <3>2. x \in Seq(Pieces) /\ y \in Seq(Pieces)
      BY <2>6, <2>7, <3>1, ConcatProperties
    <3>3. Ends(FlattenSeq(g), x) /\ Ends(x, y)
      BY <2>8, <2>9, <3>1
    <3>4. Ends(FlattenSeq(g), y)
      BY <2>6, <3>2, <3>3, EndsTransitive
    <3> QED
      BY <3>1, <3>4
  <2>11. Len(es) <= Len(g)
    <3>1. Len(e) \in Nat /\ Len(Append(e, l)) = Len(e) + 1
      BY <2>2, <2>3, AppendProperties
    <3>2. CASE Len(e) < MaxEntries
      BY <1>0, <2>3, <2>5, <3>1, <3>2
    <3>3. CASE Len(e) >= MaxEntries
      BY <1>0, <2>5, <3>3
    <3> QED
      BY <1>0, <3>1, <3>2, <3>3
  <2>12. Len(g) = MaxEntries \/ FlattenSeq(g) = (b \o f) \o l
    <3>1. CASE Len(e) >= MaxEntries
      BY <2>5, <3>1
    <3>2. CASE Len(e) < MaxEntries
      <4>1. Len(e) # MaxEntries /\ g = Append(e, l)
        BY <1>0, <2>5, <3>2
      <4> QED
        BY <2>3, <2>6, <4>1
    <3>3. Len(e) \in Nat
      BY <2>3
    <3> QED
      BY <1>0, <3>1, <3>2, <3>3
  <2> QED
    BY <2>1, <2>5, <2>6, <2>7, <2>10, <2>11, <2>12
<1>3. \A n \in Nat : P(n)
  <2> HIDE DEF P
  <2>1. T \subseteq Nat /\ 0 \in T /\ \A n \in T : n + 1 \in T
    BY <1>1, <1>2
  <2>2. T = Nat
    <3> HIDE DEF T
    <3> QED
      BY <2>1, Induction
  <2> QED
    BY <2>2
<1>4. ASSUME NEW ls \in Seq(Line) PROVE Kept(ls)
  <2>1. Len(ls) \in Nat
    OBVIOUS
  <2> HIDE DEF Kept
  <2> QED
    BY <1>3, <2>1
<1> QED
  BY <1>4

\* NewLogBuffer shows the end of what the two files hold, and all of it unless
\* memory is full.
LEMMA LoadedKeeps ==
    ASSUME FilesTyped
    PROVE  /\ Loaded \in Seq(Line) /\ Len(Loaded) <= MaxEntries
           /\ Ends(FlattenSeq(Loaded), prev \o cur)
           /\ Len(Loaded) = MaxEntries \/ FlattenSeq(Loaded) = prev \o cur
<1>1. prev \in Seq(Pieces) /\ cur \in Seq(Pieces) /\ MaxEntries \in Nat \ {0}
  BY LogAssumption DEF FilesTyped
<1>2. PICK none, a, b, e, g :
         /\ none = <<>> /\ a = Lines(prev) /\ b = Lines(cur)
         /\ e = Entered(none, a) /\ g = Entered(e, b)
  OBVIOUS
<1>3. g = Loaded
  BY <1>2 DEF Loaded, Load, Entered
<1>4. a \in Seq(Line) /\ b \in Seq(Line) /\ FlattenSeq(a) = prev /\ FlattenSeq(b) = cur
  BY <1>1, <1>2, LinesGrow, LinesJoin
<1>5. none \in Seq(Line) /\ Len(none) = 0 /\ FlattenSeq(none) = none
  BY <1>2, FlattenGrows
<1>6. none \o prev = prev
  BY <1>1, <1>2, ConcatEmptySeq
<1>7. /\ e \in Seq(Line) /\ Len(e) <= MaxEntries /\ Ends(FlattenSeq(e), prev)
      /\ Len(e) = MaxEntries \/ FlattenSeq(e) = prev
  <2>1. Len(none) <= MaxEntries
    BY <1>1, <1>5
  <2>2. /\ e \in Seq(Line) /\ Len(e) <= MaxEntries
        /\ Ends(FlattenSeq(e), FlattenSeq(none) \o FlattenSeq(a))
        /\ Len(e) = MaxEntries \/ FlattenSeq(e) = FlattenSeq(none) \o FlattenSeq(a)
    BY <1>2, <1>4, <1>5, <2>1, EnteredKeeps
  <2> QED
    BY <1>4, <1>5, <1>6, <2>2
<1>8. /\ g \in Seq(Line) /\ Len(g) <= MaxEntries /\ Len(e) <= Len(g)
      /\ Ends(FlattenSeq(g), FlattenSeq(e) \o cur)
      /\ Len(g) = MaxEntries \/ FlattenSeq(g) = FlattenSeq(e) \o cur
  <2>1. /\ Entered(e, b) \in Seq(Line) /\ Len(Entered(e, b)) <= MaxEntries /\ Len(e) <= Len(Entered(e, b))
        /\ Ends(FlattenSeq(Entered(e, b)), FlattenSeq(e) \o FlattenSeq(b))
        /\ \/ Len(Entered(e, b)) = MaxEntries
           \/ FlattenSeq(Entered(e, b)) = FlattenSeq(e) \o FlattenSeq(b)
    BY <1>4, <1>7, EnteredKeeps
  <2> QED
    BY <1>2, <1>4, <2>1
<1>9. FlattenSeq(e) \in Seq(Pieces) /\ FlattenSeq(g) \in Seq(Pieces)
  BY <1>7, <1>8, FlattenGrows
<1>10. Ends(FlattenSeq(g), prev \o cur)
  <2>1. PICK x, y : x = FlattenSeq(e) \o cur /\ y = prev \o cur
    OBVIOUS
  <2>2. x \in Seq(Pieces) /\ y \in Seq(Pieces)
    BY <1>1, <1>9, <2>1, ConcatProperties
  <2>3. Ends(x, y)
    BY <1>1, <1>7, <1>9, <2>1, EndsConcat
  <2>4. Ends(FlattenSeq(g), y)
    BY <1>8, <1>9, <2>1, <2>2, <2>3, EndsTransitive
  <2> QED
    BY <2>1, <2>4
<1>11. Len(g) = MaxEntries \/ FlattenSeq(g) = prev \o cur
  <2>1. CASE Len(e) = MaxEntries
    <3>1. Len(g) \in Nat
      BY <1>8
    <3> QED
      BY <1>1, <1>8, <2>1, <3>1
  <2>2. CASE FlattenSeq(e) = prev
    BY <1>8, <2>2
  <2> QED
    BY <1>7, <2>1, <2>2
<1> QED
  BY <1>3, <1>8, <1>10, <1>11

----------------------------------------------------------------------------
\* What the dashboard shows

\* The files and the entries both end what was accepted, each in order; and while
\* the daemon runs the entries reach back as far as the files, or memory is full.
EntriesInv ==
    /\ entries \in Seq(Line) /\ Len(entries) <= MaxEntries
    /\ faults \in 0 .. MaxLogFaults
    /\ Ends(prev \o cur, accepted)
    /\ Ends(FlattenSeq(entries), accepted)
    /\ handle # "off" => Len(entries) = MaxEntries \/ Len(prev) + Len(cur) <= Len(FlattenSeq(entries))

\* A fault is counted.
LEMMA FaultCounts ==
    ASSUME EntriesInv, faults' = faults \/ \E kind \in LogFaults : Fault(kind)
    PROVE  faults' \in 0 .. MaxLogFaults
BY LogAssumption DEF EntriesInv, Fault

\* A step that adds no entry, and takes from the files at most what is oldest.
LEMMA SameEntries ==
    ASSUME FilesTyped, FilesTyped', EntriesInv, entries' = entries, accepted' = accepted,
           Ends(prev' \o cur', prev \o cur), handle' # "off" => handle # "off",
           faults' \in 0 .. MaxLogFaults
    PROVE  EntriesInv'
<1>1. /\ prev \in Seq(Pieces) /\ cur \in Seq(Pieces) /\ accepted \in Seq(Pieces)
      /\ prev' \in Seq(Pieces) /\ cur' \in Seq(Pieces)
  BY DEF FilesTyped
<1>2. PICK x, y, z : x = prev' \o cur' /\ y = prev \o cur /\ z = FlattenSeq(entries)
  OBVIOUS
<1>3. /\ x \in Seq(Pieces) /\ y \in Seq(Pieces)
      /\ Len(x) = Len(prev') + Len(cur') /\ Len(y) = Len(prev) + Len(cur)
  BY <1>1, <1>2, ConcatProperties
<1>4. /\ Ends(y, accepted) /\ Ends(z, accepted) /\ Ends(x, y)
      /\ handle # "off" => Len(entries) = MaxEntries \/ Len(prev) + Len(cur) <= Len(z)
  BY <1>2 DEF EntriesInv
<1>5. Ends(x, accepted)
  BY <1>1, <1>3, <1>4, EndsTransitive
<1>6. z \in Seq(Pieces)
  BY <1>2, FlattenGrows DEF EntriesInv
<1>7. Len(x) <= Len(y) /\ Len(x) \in Nat /\ Len(y) \in Nat /\ Len(z) \in Nat
  BY <1>3, <1>4, <1>6 DEF Ends
<1>8. handle' # "off" => Len(entries) = MaxEntries \/ Len(prev') + Len(cur') <= Len(z)
  BY <1>3, <1>4, <1>7
<1>9. entries \in Seq(Line) /\ Len(entries) <= MaxEntries
  BY DEF EntriesInv
<1> QED
  BY <1>2, <1>4, <1>5, <1>8, <1>9 DEF EntriesInv

\* A piece that the file takes is the newest entry.
LEMMA TookShows ==
    ASSUME FilesInv, EntriesInv, pc = "write", NEW n \in 1 .. arg, Took(n),
           prev' = prev, handle' = handle, faults' \in 0 .. MaxLogFaults
    PROVE  EntriesInv'
<1> DEFINE piece == [n |-> Len(accepted) + 1, len |-> n, ended |-> n = arg]
<1>1. /\ FilesTyped /\ MaxBytes \in Nat /\ MaxWrites \in Nat /\ arg \in Lens /\ arg \in 1 .. MaxBytes
  BY LensAre DEF FilesInv, FilesTyped
<1>2. Len(accepted) \in Nat /\ Len(accepted) + 1 \in 1 .. MaxWrites /\ n \in 1 .. MaxBytes
  BY <1>1 DEF FilesTyped
<1>3. piece \in Pieces
  BY <1>2 DEF Pieces
<1>4. /\ cur' = Append(cur, piece) /\ accepted' = Append(accepted, piece)
      /\ entries' = AppendEntry(entries, <<piece>>)
  BY DEF Took
<1> HIDE DEF piece
<1>5. PICK p, l, e, z, y :
         p = piece /\ l = <<piece>> /\ e = entries /\ z = FlattenSeq(entries) /\ y = prev \o cur
  OBVIOUS
<1>6. /\ prev \in Seq(Pieces) /\ cur \in Seq(Pieces) /\ accepted \in Seq(Pieces) /\ p \in Pieces
      /\ e \in Seq(Line) /\ Len(e) <= MaxEntries
  BY <1>1, <1>3, <1>5 DEF FilesTyped, EntriesInv
<1>7. l \in Line /\ l \in Seq(Pieces) /\ Len(l) = 1
  BY <1>3, <1>5 DEF Line
<1>8. z \in Seq(Pieces) /\ FlattenSeq(Append(e, l)) = z \o l
  BY <1>5, <1>6, <1>7, FlattenGrows
<1>9. y \in Seq(Pieces) /\ Len(y) = Len(prev) + Len(cur)
  BY <1>5, <1>6, ConcatProperties
<1>10. accepted' = accepted \o l
  BY <1>3, <1>4, <1>5, <1>6, AppendIsConcat
<1>11. prev' \o cur' = y \o l
  <2>1. prev \o Append(cur, p) = Append(prev \o cur, p)
    BY <1>6, AppendLast
  <2>2. Append(y, p) = y \o <<p>>
    BY <1>6, <1>9, AppendIsConcat
  <2> QED
    BY <1>4, <1>5, <2>1, <2>2
<1>12. /\ Ends(y, accepted) /\ Ends(z, accepted)
       /\ handle # "off" => Len(e) = MaxEntries \/ Len(prev) + Len(cur) <= Len(z)
  BY <1>5 DEF EntriesInv
<1>13. Ends(y \o l, accepted \o l) /\ Ends(z \o l, accepted \o l)
  <2>1. Ends(y \o l, accepted \o l)
    BY <1>6, <1>7, <1>9, <1>12, EndsConcat
  <2>2. Ends(z \o l, accepted \o l)
    BY <1>6, <1>7, <1>8, <1>12, EndsConcat
  <2> QED
    BY <2>1, <2>2
<1>14. PICK g : g = AppendEntry(e, l)
  OBVIOUS
<1>15. /\ g \in Seq(Line) /\ Ends(g, Append(e, l)) /\ Len(g) <= MaxEntries
       /\ Len(e) < MaxEntries => g = Append(e, l)
       /\ Len(e) >= MaxEntries => Len(g) = MaxEntries
  BY <1>6, <1>7, <1>14, AppendEntryIs
<1>16. Ends(FlattenSeq(g), accepted \o l)
  <2>1. Append(e, l) \in Seq(Line) /\ FlattenSeq(g) \in Seq(Pieces)
    BY <1>6, <1>7, <1>15, AppendProperties, FlattenGrows
  <2>2. Ends(FlattenSeq(g), FlattenSeq(Append(e, l)))
    BY <1>15, <2>1, EndsFlatten
  <2>3. PICK u, v, w : u = FlattenSeq(g) /\ v = z \o l /\ w = accepted \o l
    OBVIOUS
  <2>4. u \in Seq(Pieces) /\ v \in Seq(Pieces) /\ w \in Seq(Pieces)
    BY <1>6, <1>7, <1>8, <2>1, <2>3, ConcatProperties
  <2>5. Ends(u, v) /\ Ends(v, w)
    BY <1>8, <1>13, <2>2, <2>3
  <2>6. Ends(u, w)
    BY <2>4, <2>5, EndsTransitive
  <2> QED
    BY <2>3, <2>6
<1>17. Len(cur') = Len(cur) + 1 /\ Len(cur) \in Nat /\ Len(prev) \in Nat /\ Len(z) \in Nat /\ Len(e) \in Nat
  BY <1>3, <1>4, <1>6, <1>8, AppendProperties
<1>18. handle # "off" => Len(g) = MaxEntries \/ Len(prev) + Len(cur') <= Len(FlattenSeq(g))
  <2> SUFFICES ASSUME handle # "off", Len(g) # MaxEntries
               PROVE  Len(prev) + Len(cur') <= Len(FlattenSeq(g))
    OBVIOUS
  <2>1. MaxEntries \in Nat
    BY LogAssumption
  <2>2. Len(e) < MaxEntries
    BY <1>6, <1>15, <1>17, <2>1
  <2>3. Len(prev) + Len(cur) <= Len(z)
    BY <1>12, <1>17, <2>1, <2>2
  <2>4. FlattenSeq(g) = z \o l
    BY <1>8, <1>15, <2>2
  <2>5. Len(z \o l) = Len(z) + 1
    <3>1. z \in Seq(Pieces) /\ l \in Seq(Pieces)
      BY <1>7, <1>8
    <3>2. Len(z \o l) = Len(z) + Len(l)
      BY <3>1, ConcatProperties
    <3> QED
      BY <1>7, <3>2
  <2> QED
    BY <1>17, <2>3, <2>4, <2>5
<1>19. entries' = g
  BY <1>4, <1>5, <1>14
<1> QED
  BY <1>10, <1>11, <1>13, <1>15, <1>16, <1>18, <1>19 DEF EntriesInv

\* Every step keeps what the dashboard shows.
LEMMA EntriesNext ==
    ASSUME FilesInv, FilesInv', EntriesInv, [Next]_vars
    PROVE  EntriesInv'
<1>1. FilesTyped /\ FilesTyped' /\ FilesCounted
  BY DEF FilesInv
<1>2. /\ prev \in Seq(Pieces) /\ cur \in Seq(Pieces) /\ accepted \in Seq(Pieces)
      /\ prev' \in Seq(Pieces) /\ cur' \in Seq(Pieces)
  BY <1>1 DEF FilesTyped
<1>3. prev \o cur \in Seq(Pieces)
  BY <1>2, ConcatProperties
<1>4. Ends(prev \o cur, prev \o cur)
  BY <1>3, EndsTrivially
<1>5. <<>> \o cur = cur /\ cur \o <<>> = cur /\ Ends(cur, prev \o cur)
  <2>1. <<>> \o cur = cur /\ cur \o <<>> = cur
    BY <1>2, ConcatEmptySeq
  <2>2. PICK none : none = <<>>
    OBVIOUS
  <2>3. none \in Seq(Pieces) /\ Ends(none, prev)
    BY <1>2, <2>2, EndsTrivially
  <2>4. Ends(none \o cur, prev \o cur)
    BY <1>2, <2>3, EndsConcat
  <2> QED
    BY <2>1, <2>2, <2>4
<1>6. ASSUME prev' = prev, cur' = cur, accepted' = accepted, entries' = entries,
             handle' # "off" => handle # "off", faults' \in 0 .. MaxLogFaults
      PROVE  EntriesInv'
  BY <1>1, <1>4, <1>6, SameEntries
<1>7. CASE UNCHANGED vars
  <2>1. faults' \in 0 .. MaxLogFaults
    BY <1>7, FaultCounts DEF vars
  <2> QED
    BY <1>6, <1>7, <2>1 DEF vars, files
<1>8. CASE NewLogBuffer
  <2>1. /\ prev' = prev /\ cur' = cur /\ accepted' = accepted /\ entries' = Loaded /\ faults' = faults
    BY <1>8 DEF NewLogBuffer, files
  <2>2. faults' \in 0 .. MaxLogFaults
    BY <2>1, FaultCounts
  <2>3. PICK g, y : g = Loaded /\ y = prev \o cur
    OBVIOUS
  <2>4. /\ g \in Seq(Line) /\ Len(g) <= MaxEntries /\ Ends(FlattenSeq(g), y)
        /\ Len(g) = MaxEntries \/ FlattenSeq(g) = y
    BY <1>1, <2>3, LoadedKeeps
  <2>5. FlattenSeq(g) \in Seq(Pieces) /\ Ends(y, accepted) /\ Len(y) = Len(prev) + Len(cur)
    <3>1. FlattenSeq(g) \in Seq(Pieces)
      BY <2>4, FlattenGrows
    <3>2. Len(prev \o cur) = Len(prev) + Len(cur)
      BY <1>2, ConcatProperties
    <3> QED
      BY <2>3, <3>1, <3>2 DEF EntriesInv
  <2>6. Ends(FlattenSeq(g), accepted)
    BY <1>2, <1>3, <2>3, <2>4, <2>5, EndsTransitive
  <2>7. Len(g) = MaxEntries \/ Len(prev) + Len(cur) <= Len(FlattenSeq(g))
    <3>1. Len(prev) \in Nat /\ Len(cur) \in Nat
      BY <1>2
    <3> QED
      BY <2>4, <2>5, <3>1
  <2> QED
    BY <2>1, <2>2, <2>3, <2>4, <2>5, <2>6, <2>7 DEF EntriesInv
<1>9. ASSUME NEW len \in Lens, Write(len) PROVE EntriesInv'
  <2>1. faults' \in 0 .. MaxLogFaults
    BY <1>9, FaultCounts DEF Write
  <2> QED
    BY <1>6, <1>9, <2>1 DEF Write, files
<1>10. CASE CloseFile
  <2>1. faults' \in 0 .. MaxLogFaults
    BY <1>10, FaultCounts DEF CloseFile, Fault
  <2>2. handle # "off"
    BY <1>1, <1>10 DEF CloseFile, FilesTyped
  <2> QED
    BY <1>6, <1>10, <2>1, <2>2 DEF CloseFile, files
<1>11. CASE RemoveOld
  <2>1. faults' \in 0 .. MaxLogFaults
    BY <1>11, FaultCounts DEF RemoveOld, Fault
  <2>2. /\ cur' = cur /\ entries' = entries /\ accepted' = accepted /\ handle' = handle
        /\ prev' = <<>> \/ prev' = prev
    BY <1>11 DEF RemoveOld
  <2>3. Ends(prev' \o cur', prev \o cur)
    BY <1>4, <1>5, <2>2
  <2> QED
    BY <1>1, <2>1, <2>2, <2>3, SameEntries
<1>12. CASE RenameCurrent
  <2>1. faults' \in 0 .. MaxLogFaults
    BY <1>12, FaultCounts DEF RenameCurrent, Fault
  <2>2. /\ entries' = entries /\ accepted' = accepted /\ handle' = handle
        /\ \/ prev' = cur /\ cur' = <<>>
           \/ prev' = prev /\ cur' = cur
    BY <1>12 DEF RenameCurrent, files
  <2>3. Ends(prev' \o cur', prev \o cur)
    BY <1>4, <1>5, <2>2
  <2> QED
    BY <1>1, <2>1, <2>2, <2>3, SameEntries
<1>13. CASE Create
  <2>1. faults' \in 0 .. MaxLogFaults
    BY <1>13, FaultCounts DEF Create, Fault
  <2>2. handle = "closed" /\ cur = <<>>
    BY <1>1, <1>13 DEF Create, FilesCounted
  <2> QED
    BY <1>6, <1>13, <2>1, <2>2 DEF Create
<1>14. CASE WriteFile
  <2>1. faults' \in 0 .. MaxLogFaults
    BY <1>14, FaultCounts DEF WriteFile, Fault
  <2>2. pc = "write" /\ prev' = prev /\ handle' = handle
    BY <1>14 DEF WriteFile
  <2>3. arg \in 1 .. MaxBytes /\ MaxBytes \in Nat
    BY <1>1, <2>2, LensAre DEF FilesTyped
  <2>4. \/ \E n \in 1 .. arg : Took(n)
        \/ cur' = cur /\ entries' = entries /\ accepted' = accepted
    <3>1. arg \in 1 .. arg /\ \A n \in 1 .. arg - 1 : n \in 1 .. arg
      BY <2>3
    <3> QED
      BY <1>14, <3>1 DEF WriteFile
  <2>5. ASSUME NEW n \in 1 .. arg, Took(n) PROVE EntriesInv'
    BY <2>1, <2>2, <2>5, TookShows
  <2>6. CASE cur' = cur /\ entries' = entries /\ accepted' = accepted
    BY <1>6, <2>1, <2>2, <2>6
  <2> QED
    BY <2>4, <2>5, <2>6
<1>15. CASE Close
  <2>1. faults' \in 0 .. MaxLogFaults
    BY <1>15, FaultCounts DEF Close
  <2> QED
    BY <1>6, <1>15, <2>1 DEF Close, files
<1>16. CASE Exit
  <2>1. faults' \in 0 .. MaxLogFaults
    BY <1>16, FaultCounts DEF Exit, Fault
  <2>2. /\ prev' = prev /\ cur' = cur /\ accepted' = accepted /\ entries' = <<>> /\ handle' = "off"
    BY <1>16 DEF Exit, files
  <2>3. PICK none : none = <<>>
    OBVIOUS
  <2>4. none \in Seq(Line) /\ Len(none) = 0 /\ FlattenSeq(none) = none
    BY <2>3, FlattenGrows
  <2>5. Ends(none, accepted) /\ Ends(prev \o cur, accepted) /\ MaxEntries \in Nat
    BY <1>2, <2>3, EndsTrivially, LogAssumption DEF EntriesInv
  <2> QED
    BY <2>1, <2>2, <2>3, <2>4, <2>5 DEF EntriesInv
<1> QED
  BY <1>7, <1>8, <1>9, <1>10, <1>11, <1>12, <1>13, <1>14, <1>15, <1>16 DEF Next, Rotate

\* The invariant holds of the log buffer: what it shows is the end of what it took.
THEOREM EntriesInvariance == Spec => []EntriesInv
<1>1. Init => EntriesInv
  <2> SUFFICES ASSUME Init PROVE EntriesInv
    OBVIOUS
  <2>1. PICK none : none = <<>>
    OBVIOUS
  <2>2. /\ none \in Seq(Line) /\ none \in Seq(Pieces) /\ Len(none) = 0 /\ FlattenSeq(none) = none
        /\ none \o none = none
    BY <2>1, FlattenGrows, ConcatEmptySeq
  <2>3. Ends(none, none)
    BY <2>2, EndsTrivially
  <2>4. prev = none /\ cur = none /\ accepted = none /\ entries = none /\ faults = 0 /\ handle = "off"
    BY <2>1 DEF Init
  <2>5. MaxEntries \in Nat /\ 0 \in 0 .. MaxLogFaults
    BY LogAssumption
  <2> QED
    BY <2>2, <2>3, <2>4, <2>5 DEF EntriesInv
<1>2. FilesInv /\ FilesInv' /\ EntriesInv /\ [Next]_vars => EntriesInv'
  BY EntriesNext
<1> QED
  BY <1>1, <1>2, FilesInvariance, PTL DEF Spec

\* The members of the end of a sequence are members of it.
LEMMA EndsToSet ==
    ASSUME NEW S, NEW s \in Seq(S), NEW t \in Seq(S), Ends(s, t)
    PROVE  ToSet(s) \subseteq ToSet(t)
<1>1. PICK n, m : n = Len(s) /\ m = Len(t)
  OBVIOUS
<1>2. n \in Nat /\ m \in Nat /\ n <= m /\ DOMAIN s = 1 .. n /\ DOMAIN t = 1 .. m
  BY <1>1 DEF Ends
<1>3. \A i \in 1 .. n : m - n + i \in 1 .. m
  BY <1>2
<1>4. \A i \in 1 .. n : s[i] = t[m - n + i]
  BY <1>1 DEF Ends
<1> QED
  BY <1>2, <1>3, <1>4 DEF ToSet

\* NewLogBuffer, Write and rotate: nothing is shown or kept that was not written,
\* and memory keeps its bound over every restart.
THEOREM LogTyped == Spec => []LogTypeOK
<1>1. FilesInv /\ EntriesInv => LogTypeOK
  <2> SUFFICES ASSUME FilesInv, EntriesInv PROVE LogTypeOK
    OBVIOUS
  <2>1. FilesTyped
    BY DEF FilesInv
  <2>2. prev \in Seq(Pieces) /\ cur \in Seq(Pieces) /\ accepted \in Seq(Pieces) /\ FlattenSeq(entries) \in Seq(Pieces)
    BY <2>1, FlattenGrows DEF FilesTyped, EntriesInv
  <2>3. PICK y : y = prev \o cur
    OBVIOUS
  <2>4. y \in Seq(Pieces) /\ Ends(y, accepted)
    BY <2>2, <2>3, ConcatProperties DEF EntriesInv
  <2>5. ToSet(y) \subseteq ToSet(accepted)
    BY <2>2, <2>4, EndsToSet
  <2>6. ToSet(prev) \subseteq ToSet(y) /\ ToSet(cur) \subseteq ToSet(y)
    <3>1. PICK n, m : n = Len(prev) /\ m = Len(cur)
      OBVIOUS
    <3>2. n \in Nat /\ m \in Nat /\ DOMAIN prev = 1 .. n /\ DOMAIN cur = 1 .. m
      BY <2>2, <3>1
    <3>3. DOMAIN y = 1 .. n + m /\ \A i \in 1 .. n + m : y[i] = IF i <= n THEN prev[i] ELSE cur[i - n]
      <4>1. Len(y) = n + m /\ \A i \in 1 .. n + m : y[i] = IF i <= n THEN prev[i] ELSE cur[i - n]
        BY <2>2, <2>3, <3>1, ConcatProperties
      <4> QED
        BY <2>4, <4>1
    <3>4. \A i \in 1 .. n : i \in 1 .. n + m /\ y[i] = prev[i]
      BY <3>2, <3>3
    <3>5. \A i \in 1 .. m : n + i \in 1 .. n + m /\ y[n + i] = cur[i]
      <4> TAKE i \in 1 .. m
      <4>1. PICK j : j = n + i
        OBVIOUS
      <4>2. j \in 1 .. n + m /\ ~(j <= n) /\ j - n = i
        BY <3>2, <4>1
      <4> QED
        BY <3>3, <4>1, <4>2
    <3>6. \A j \in 1 .. n + m : y[j] \in ToSet(y)
      BY <3>3 DEF ToSet
    <3>7. (\A i \in 1 .. n : prev[i] \in ToSet(y)) /\ \A i \in 1 .. m : cur[i] \in ToSet(y)
      <4>1. ASSUME NEW i \in 1 .. m PROVE cur[i] \in ToSet(y)
        <5>1. PICK j : j = n + i
          OBVIOUS
        <5>2. j \in 1 .. n + m /\ y[j] = cur[i]
          BY <3>5, <5>1
        <5> QED
          BY <3>6, <5>2
      <4> QED
        BY <3>4, <3>6, <4>1
    <3>8. ToSet(prev) = {prev[i] : i \in 1 .. n} /\ ToSet(cur) = {cur[i] : i \in 1 .. m}
      BY <3>2 DEF ToSet
    <3> QED
      BY <3>7, <3>8
  <2>7. ToSet(FlattenSeq(entries)) \subseteq ToSet(accepted)
    BY <2>2, EndsToSet DEF EntriesInv
  <2>8. \A f \in {prev, cur, FlattenSeq(entries)} : ToSet(f) \subseteq ToSet(accepted)
    BY <2>5, <2>6, <2>7
  <2>9. Len(entries) <= MaxEntries /\ faults \in 0 .. MaxLogFaults
    BY DEF EntriesInv
  <2> QED
    BY <2>1, <2>2, <2>8, <2>9 DEF LogTypeOK, FilesTyped, Handles, PCs
<1> QED
  BY <1>1, FilesInvariance, EntriesInvariance, PTL

\* Recent after any restarts and faults: the newest lines in the order of the
\* writes, as far back as the files go unless memory is full.
THEOREM RecentShown == Spec => []ShowsRecent
<1>1. FilesInv /\ EntriesInv => ShowsRecent
  <2> SUFFICES ASSUME FilesInv, EntriesInv, NEW limit \in 0 .. MaxEntries + 1
               PROVE  /\ IsSuffix(FlattenSeq(Recent(limit)), accepted)
                      /\ handle # "off" /\ limit = 0 =>
                           \/ Len(Recent(limit)) = MaxEntries
                           \/ Bytes(prev) + Bytes(cur) <= Bytes(FlattenSeq(Recent(limit)))
    BY DEF ShowsRecent
  <2>1. PICK e, n, i, r :
           /\ e = entries /\ n = Len(entries) /\ r = Recent(limit)
           /\ i = IF limit <= 0 \/ limit > Len(entries) THEN 1 ELSE Len(entries) - limit + 1
    OBVIOUS
  <2>2. e \in Seq(Line) /\ n = Len(e) /\ n \in Nat /\ MaxEntries \in Nat /\ r = SubSeq(e, i, Len(e))
    <3>1. entries \in Seq(Line)
      BY DEF EntriesInv
    <3> QED
      BY <2>1, <3>1, LogAssumption DEF Recent
  <2>3. i \in 1 .. Len(e) + 1
    BY <2>1, <2>2
  <2>4. r \in Seq(Line) /\ Ends(r, e)
    BY <2>2, <2>3, EndsSubSeq
  <2>5. /\ FlattenSeq(r) \in Seq(Pieces) /\ FlattenSeq(e) \in Seq(Pieces)
        /\ Ends(FlattenSeq(r), FlattenSeq(e))
    BY <2>2, <2>4, FlattenGrows, EndsFlatten
  <2>6. accepted \in Seq(Pieces) /\ prev \in Seq(Pieces) /\ cur \in Seq(Pieces)
    BY DEF FilesInv, FilesTyped
  <2>7. Ends(FlattenSeq(e), accepted) /\ Ends(prev \o cur, accepted)
    BY <2>1 DEF EntriesInv
  <2>8. Ends(FlattenSeq(r), accepted)
    BY <2>5, <2>6, <2>7, EndsTransitive
  <2>9. IsSuffix(FlattenSeq(r), accepted)
    BY <2>5, <2>6, <2>8, EndsIsSuffix
  <2>10. ASSUME handle # "off", limit = 0, Len(r) # MaxEntries
         PROVE  Bytes(prev) + Bytes(cur) <= Bytes(FlattenSeq(r))
    <3>1. r = e
      <4>1. i = 1
        BY <2>1, <2>10
      <4> QED
        BY <2>2, <4>1, SubSeqFull
    <3>2. Len(prev) + Len(cur) <= Len(FlattenSeq(e))
      BY <2>1, <2>10, <3>1 DEF EntriesInv
    <3>3. PICK y, z : y = prev \o cur /\ z = FlattenSeq(e)
      OBVIOUS
    <3>4. y \in Seq(Pieces) /\ z \in Seq(Pieces) /\ Len(y) <= Len(z)
      <4>1. prev \o cur \in Seq(Pieces) /\ Len(prev \o cur) = Len(prev) + Len(cur)
        BY <2>6, ConcatProperties
      <4> QED
        BY <2>5, <3>2, <3>3, <4>1
    <3>5. Ends(y, z)
      BY <2>6, <2>7, <3>3, <3>4, EndsCompare
    <3>6. Bytes(y) <= Bytes(z)
      BY <3>4, <3>5, EndsBytes
    <3>7. Bytes(y) = Bytes(prev) + Bytes(cur)
      BY <2>6, <3>3, BytesAdd
    <3> QED
      BY <3>1, <3>3, <3>6, <3>7
  <2> QED
    BY <2>1, <2>9, <2>10
<1> QED
  BY <1>1, FilesInvariance, EntriesInvariance, PTL
=============================================================================
