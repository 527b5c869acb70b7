------------------------- MODULE ArchiveStoreProofs -------------------------
(***************************************************************************)
(* Proofs about ArchiveStore, for any clients, setups and bounds. What     *)
(* Restore puts at the destination is proved for every setup. What the     *)
(* store promises about its generations is proved for the setups its       *)
(* properties name: commits that overlap over a backend that puts objects  *)
(* at once, and one committer at a time over one that streams.             *)
(***************************************************************************)
EXTENDS ArchiveStore, SequenceTheorems, FiniteSetTheorems, TLAPS

Writing == {"putArchive", "upload", "putManifest", "uploadManifest"}

Restoring == {"unpack", "stat", "rename"}

\* What the call k of client c carries from one step to the next.
CallOK(c, k) ==
    /\ k.pc \in {"archive"} \cup Restoring => k.keys # {}
    /\ k.pc \in Restoring => k.op = "restore"
    /\ k.pc \in Writing => k.op = "commit"
    /\ k.op \in {"commit", "verify"} =>
         c \in Committers /\ (k.pc = "record" \/ k.base < MaxGeneration)
    /\ k.pc \in {"upload", "stat", "rename"} => k.content # Partial
    /\ k.pc \in {"putManifest", "uploadManifest"} => k.content \in Contents
    /\ k.pc = "record" => c \in Committers /\ k.base > 0 /\ k.op \in {"head", "verify"}

StoreInv ==
    /\ StoreTypeOK
    /\ \A c \in Clients : CallOK(c, calls[c])
    /\ RestoredWhole

\* The manifests that a call has yet to read are there, and the one it has read is
\* what it was.
ReadOK(k) ==
    /\ k.pc \in {"manifest", "archive"} => \A g \in k.keys : manifests[g] # Absent
    /\ k.pc = "archive" => k.seen \in Contents /\ k.seen = manifests[Max(k.keys)]

\* A generation that another call made of the same directory.
Beside(g) == AtomicPut /\ archives[g] = dest

\* While Commit looks for the head, every complete generation is one that it has
\* yet to look at or one that was made beside it; so that, when it writes, all
\* those after the expected one were, and writing them again changes nothing.
CommitOK(k) ==
    /\ k.op = "commit" /\ k.pc \in {"manifest", "archive"} =>
         \A g \in Generations : Complete(g) => g \in k.keys \/ Beside(g)
    /\ k.pc \in Writing =>
         /\ k.base > 0 => Complete(k.base)
         /\ \A g \in Generations : Complete(g) /\ g > k.base => Beside(g)
    /\ k.pc \in {"upload", "putManifest", "uploadManifest"} => k.content \in {Absent, dest}
    /\ k.pc \in {"putManifest", "uploadManifest"} => archives[k.base + 1] = k.content

\* Restore does not pass over the generation that was the newest when it began.
RestoreOK(k) ==
    /\ k.op = "restore" /\ k.base > 0 =>
         Complete(k.base) /\ (k.pc \in {"manifest", "archive"} => k.base \in k.keys)
    /\ k.pc \in Restoring => Max(k.keys) >= k.base

\* What is to be recorded is complete.
RecordOK(k) == k.pc = "record" => Complete(k.base)

CallLog(k) == ReadOK(k) /\ CommitOK(k) /\ RestoreOK(k) /\ RecordOK(k)

\* A whole manifest comes with its archive.
Whole == \A g \in Generations : manifests[g] \in Contents => Complete(g)

\* The generation that Head or Commit reported is complete.
KnownComplete == known > 0 => Complete(known)

\* No generation is missing below a complete one.
NoGaps == \A g \in Generations : Complete(g) => \A h \in 1..g : Complete(h)

LogInv ==
    /\ StoreInv
    /\ Whole
    /\ \A c \in Clients : CallLog(calls[c])
    /\ KnownComplete
    /\ NoGaps

----------------------------------------------------------------------------
\* Facts about the operators

\* A set of natural numbers has a least element.
LEMMA LeastOf ==
    ASSUME NEW T, T \subseteq Nat, T # {}
    PROVE  \E m \in T : \A k \in T : m <= k
<1> DEFINE R == OpToRel(<, Nat)
<1>1. IsWellFoundedOn(R, Nat)
  BY NatLessThanWellFounded
<1>2. PICK m \in T : \A k \in T : ~(<<k, m>> \in R)
  <2> HIDE DEF R
  <2> QED
    BY <1>1, WFMin
<1>3. \A k \in T : ~(k < m)
  BY <1>2 DEF OpToRel
<1> QED
  BY <1>3

\* Max returns the greatest element of a bounded set: the last key of a listing.
LEMMA MaxOf ==
    ASSUME NEW N \in Nat, NEW S, S \subseteq 0..N, S # {}
    PROVE  Max(S) \in S /\ \A y \in S : y <= Max(S)
<1> DEFINE T == {N - x : x \in S}
<1>1. PICK m \in T : \A k \in T : m <= k
  <2>1. T \subseteq Nat
    OBVIOUS
  <2>2. T # {}
    OBVIOUS
  <2> HIDE DEF T
  <2> QED
    BY <2>1, <2>2, LeastOf
<1>2. PICK x \in S : m = N - x
  OBVIOUS
<1>3. \A y \in S : x >= y
  BY <1>1, <1>2
<1> QED
  BY <1>3 DEF Max

\* The newest of the keys that Head has yet to read.
LEMMA LastKey ==
    ASSUME StoreTypeOK, NEW c \in Clients, calls[c].keys # {}
    PROVE  /\ Key(c) = Max(calls[c].keys) /\ Key(c) \in calls[c].keys /\ Key(c) \in Generations
           /\ \A g \in calls[c].keys : g <= Key(c)
<1>1. MaxGeneration \in Nat /\ calls[c].keys \subseteq Generations
  BY StoreAssumption DEF StoreTypeOK, CallType
<1>2. calls[c].keys \subseteq 0..MaxGeneration
  BY <1>1 DEF Generations
<1> QED
  BY <1>1, <1>2, MaxOf DEF Key

\* Newest is the greatest complete generation, 0 when there is none.
LEMMA NewestIs ==
    /\ Newest \in 0..MaxGeneration
    /\ \A g \in Generations : Complete(g) => g <= Newest
    /\ Newest > 0 => Newest \in Generations /\ Complete(Newest)
<1> DEFINE S == {0} \cup {g \in Generations : Complete(g)}
<1>1. S \subseteq 0..MaxGeneration /\ S # {} /\ MaxGeneration \in Nat
  BY StoreAssumption DEF Generations
<1>2. Max(S) \in S /\ \A g \in S : g <= Max(S)
  <2> HIDE DEF S
  <2> QED
    BY <1>1, MaxOf
<1>3. Newest = Max(S)
  BY DEF Newest
<1> QED
  BY <1>1, <1>2, <1>3

\* What the assignments to a call make of it.
LEMMA Edits ==
    ASSUME StoreTypeOK, NEW c \in Clients
    PROVE  /\ \A pc : Goto(c, pc) => calls' = [calls EXCEPT ![c] = [calls[c] EXCEPT !.pc = pc]]
           /\ \A g : Keep(c, g) =>
                calls' = [calls EXCEPT ![c] = [calls[c] EXCEPT !.pc = "record", !.base = g]]
           /\ Return(c) => calls' = [calls EXCEPT ![c] = NoCall]
           /\ Skip(c) => calls' = [calls EXCEPT ![c] = [calls[c] EXCEPT
                             !.pc = "manifest", !.keys = calls[c].keys \ {Key(c)}]]
  BY DEF StoreTypeOK, CallType, Goto, Keep, Return, Skip

\* The setup stays what it is.
LEMMA SetupKept == [Next]_vars => UNCHANGED setup
  BY DEF Next, vars

\* A new value of a call that is well formed keeps the others so.
LEMMA CallStep ==
    ASSUME StoreInv, UNCHANGED setup, NEW c \in Clients, NEW k \in CallType, CallOK(c, k),
           calls' = [calls EXCEPT ![c] = k]
    PROVE  /\ calls' \in [Clients -> CallType]
           /\ calls'[c] = k
           /\ \A d \in Clients : d # c => calls'[d] = calls[d]
           /\ \A d \in Clients : CallOK(d, calls[d])'
<1>1. /\ calls' \in [Clients -> CallType]
      /\ calls'[c] = k
      /\ \A d \in Clients : d # c => calls'[d] = calls[d]
  BY DEF StoreInv, StoreTypeOK
<1> QED
  BY <1>1 DEF StoreInv, CallOK, Committers

\* No call is well formed.
LEMMA NoCallOK == NoCall \in CallType /\ NoCall.pc = "idle" /\ \A c \in Clients : CallOK(c, NoCall)
<1>1. NoCall \in CallType
  BY StoreAssumption DEF NoCall, CallType, Objects
<1> QED
  BY <1>1 DEF NoCall, CallOK, Writing, Restoring

----------------------------------------------------------------------------
\* The steps: how a call goes on, and what else changes

\* The call of c goes on as k.
GoesOn(c, k) ==
    /\ k \in CallType /\ CallOK(c, k)
    /\ calls' = [calls EXCEPT ![c] = k]

\* A fault counts against the bound.
LEMMA MishapOK ==
    ASSUME StoreTypeOK, UNCHANGED mishaps \/ \E kind : Mishap(kind)
    PROVE  mishaps' \in 0..MaxStoreFaults
  BY StoreAssumption DEF StoreTypeOK, Mishap

\* A call that returns.
LEMMA Returns == ASSUME StoreInv, NEW c \in Clients, Return(c) PROVE GoesOn(c, NoCall)
  BY NoCallOK, Edits DEF StoreInv, GoesOn

\* A new call: nothing but its arguments.
LEMMA CallStarts ==
    ASSUME StoreInv, NEW c \in Clients, CallHead(c) \/ CallCommit(c) \/ CallRestore(c)
    PROVE  /\ \E k : /\ GoesOn(c, k) /\ k.pc = "list"
                     /\ k.op = "commit" => c \in Committers /\ k.base = known
                     /\ k.op = "restore" => k.base = Newest
                     /\ k.op \in {"head", "commit", "restore"}
           /\ UNCHANGED <<archives, manifests, dest, mishaps>>
           /\ known' \in {0, known} /\ (c \notin Committers => known' = known)
           /\ calls[c].pc = "idle"
<1>n. NoCall \in CallType
  BY NoCallOK
<1>1. CASE CallHead(c)
  <2> DEFINE k == [NoCall EXCEPT !.op = "head", !.pc = "list"]
  <2>1. k \in CallType /\ k.pc = "list" /\ k.op = "head"
    BY <1>n DEF CallType
  <2> HIDE DEF k
  <2>2. CallOK(c, k)
    BY <2>1 DEF CallOK, Writing, Restoring
  <2>3. GoesOn(c, k)
    BY <1>1, <2>1, <2>2 DEF CallHead, GoesOn, k
  <2> QED
    BY <1>1, <2>1, <2>3 DEF CallHead
<1>2. CASE CallRestore(c)
  <2> DEFINE k == [NoCall EXCEPT !.op = "restore", !.pc = "list", !.base = Newest]
  <2>1. k \in CallType /\ k.pc = "list" /\ k.op = "restore" /\ k.base = Newest
    BY <1>n, NewestIs DEF CallType
  <2> HIDE DEF k
  <2>2. CallOK(c, k)
    BY <2>1 DEF CallOK, Writing, Restoring
  <2>3. GoesOn(c, k)
    BY <1>2, <2>1, <2>2 DEF CallRestore, GoesOn, k
  <2> QED
    BY <1>2, <2>1, <2>3 DEF CallRestore
<1>3. CASE CallCommit(c)
  <2> DEFINE k == [NoCall EXCEPT !.op = "commit", !.pc = "list", !.base = known]
  <2>1. k \in CallType /\ k.pc = "list" /\ k.op = "commit" /\ k.base = known
    BY <1>n DEF CallType, StoreInv, StoreTypeOK
  <2> HIDE DEF k
  <2>2. CallOK(c, k)
    BY <1>3, <2>1 DEF CallCommit, CallOK, Writing, Restoring
  <2>3. GoesOn(c, k)
    BY <1>3, <2>1, <2>2 DEF CallCommit, GoesOn, k
  <2> QED
    BY <1>3, <2>1, <2>3 DEF CallCommit
<1> QED
  BY <1>1, <1>2, <1>3

\* What the caller makes of the head.
LEMMA AnswerStep ==
    ASSUME StoreInv, NEW c \in Clients, NEW g \in 0..MaxGeneration, Answer(c, g),
           calls[c].pc \in {"manifest", "archive"}, g > 0 => calls[c].keys # {}
    PROVE  \E k : /\ GoesOn(c, k)
                 /\ \/ k = NoCall
                    \/ k = [calls[c] EXCEPT !.pc = "unpack"] /\ g > 0 /\ calls[c].op = "restore"
                    \/ /\ k = [calls[c] EXCEPT !.pc = "putArchive"]
                       /\ g = calls[c].base /\ calls[c].op = "commit"
                    \/ k = [calls[c] EXCEPT !.pc = "record", !.base = g] /\ g > 0
<1> USE StoreAssumption
<1>1. calls[c] \in CallType /\ CallOK(c, calls[c]) /\ StoreTypeOK
  BY DEF StoreInv, StoreTypeOK
<1>2. Return(c) => GoesOn(c, NoCall)
  BY Returns
<1>3. ASSUME calls[c].op \in {"head", "verify"}, c \in Committers, g > 0, Keep(c, g)
      PROVE  GoesOn(c, [calls[c] EXCEPT !.pc = "record", !.base = g])
  <2> DEFINE k == [calls[c] EXCEPT !.pc = "record", !.base = g]
  <2>1. k \in CallType /\ k.pc = "record" /\ k.base = g /\ k.op = calls[c].op
    BY <1>1 DEF CallType
  <2>2. calls' = [calls EXCEPT ![c] = k]
    BY <1>1, <1>3, Edits
  <2> HIDE DEF k
  <2>3. CallOK(c, k)
    BY <1>3, <2>1 DEF CallOK, Writing, Restoring
  <2> QED
    BY <2>1, <2>2, <2>3 DEF GoesOn, k
<1>4. CASE calls[c].op = "head"
  BY <1>2, <1>3, <1>4 DEF Answer
<1>5. CASE calls[c].op = "verify"
  <2>1. c \in Committers /\ calls[c].base \in Nat
    BY <1>1, <1>5 DEF CallOK, CallType
  <2>2. Verified(c, g) => g > 0
    BY <2>1 DEF Verified
  <2> QED
    BY <1>2, <1>3, <1>5, <2>1, <2>2 DEF Answer
<1>6. CASE calls[c].op = "restore"
  <2> DEFINE k == [calls[c] EXCEPT !.pc = "unpack"]
  <2>1. IF g > 0 THEN Goto(c, "unpack") ELSE Return(c)
    BY <1>6 DEF Answer
  <2>2. CASE g > 0
    <3>1. k \in CallType /\ k.pc = "unpack" /\ k.op = "restore" /\ k.keys # {}
      BY <1>1, <1>6, <2>2 DEF CallType
    <3>2. CallOK(c, k)
      BY <3>1 DEF CallOK, Writing, Restoring
    <3>3. calls' = [calls EXCEPT ![c] = k]
      BY <1>1, <2>1, <2>2, Edits
    <3> QED
      BY <1>6, <2>2, <3>1, <3>2, <3>3 DEF GoesOn
  <2> QED
    BY <1>2, <2>1, <2>2
<1>7. CASE calls[c].op = "commit"
  <2> DEFINE k == [calls[c] EXCEPT !.pc = "putArchive"]
  <2>1. IF g = calls[c].base THEN Goto(c, "putArchive") ELSE Return(c)
    BY <1>7 DEF Answer, Expected
  <2>2. CASE g = calls[c].base
    <3>1. /\ k \in CallType /\ k.pc = "putArchive" /\ k.op = "commit" /\ k.base = calls[c].base
          /\ c \in Committers /\ calls[c].base < MaxGeneration
      BY <1>1, <1>7 DEF CallType, CallOK
    <3>2. CallOK(c, k)
      BY <3>1 DEF CallOK, Writing, Restoring
    <3>3. calls' = [calls EXCEPT ![c] = k]
      BY <1>1, <2>1, <2>2, Edits
    <3> QED
      BY <1>7, <2>2, <3>1, <3>2, <3>3 DEF GoesOn
  <2> QED
    BY <1>2, <2>1, <2>2
<1> QED
  BY <1>4, <1>5, <1>6, <1>7 DEF Answer

\* Head lists the manifests.
LEMMA ListStep ==
    ASSUME StoreInv, NEW c \in Clients, HeadList(c)
    PROVE  /\ \E k : /\ GoesOn(c, k)
                     /\ \/ k = NoCall
                        \/ /\ k.pc = "manifest" /\ k.op = calls[c].op /\ k.base = calls[c].base
                           /\ k.keys = {g \in Generations : manifests[g] # Absent}
           /\ UNCHANGED <<archives, manifests, known, dest>>
           /\ mishaps' \in 0..MaxStoreFaults
<1>1. UNCHANGED <<archives, manifests, known, dest>> /\ mishaps' \in 0..MaxStoreFaults
  BY MishapOK DEF HeadList, StoreInv
<1>2. CASE Return(c)
  BY <1>1, <1>2, Returns
<1>3. CASE calls' = [calls EXCEPT ![c].pc = "manifest",
                                  ![c].keys = {g \in Generations : manifests[g] # Absent}]
  <2> DEFINE K == {g \in Generations : manifests[g] # Absent}
             k == [calls[c] EXCEPT !.pc = "manifest", !.keys = K]
  <2>0. calls[c] \in CallType /\ CallOK(c, calls[c]) /\ calls[c].pc = "list"
    BY DEF StoreInv, StoreTypeOK, HeadList
  <2>1. /\ calls' = [calls EXCEPT ![c] = k] /\ k \in CallType /\ k.pc = "manifest" /\ k.keys = K
        /\ k.op = calls[c].op /\ k.base = calls[c].base
    <3>1. K \in SUBSET Generations
      OBVIOUS
    <3> HIDE DEF K
    <3> QED
      BY <1>3, <2>0, <3>1 DEF StoreInv, StoreTypeOK, CallType, K
  <2> HIDE DEF k
  <2>2. CallOK(c, k)
    BY <2>0, <2>1 DEF CallOK, Writing, Restoring
  <2> QED
    BY <1>1, <2>1, <2>2 DEF GoesOn
<1> QED
  BY <1>2, <1>3 DEF HeadList

\* Head goes on without the manifest at work.
LEMMA SkipStep ==
    ASSUME StoreInv, NEW c \in Clients, Skip(c), calls[c].pc \in {"manifest", "archive"}
    PROVE  GoesOn(c, [calls[c] EXCEPT !.pc = "manifest", !.keys = calls[c].keys \ {Key(c)}])
<1> DEFINE K == calls[c].keys \ {Key(c)}
           k == [calls[c] EXCEPT !.pc = "manifest", !.keys = K]
<1>1. calls[c] \in CallType /\ CallOK(c, calls[c]) /\ StoreTypeOK
  BY DEF StoreInv, StoreTypeOK
<1>2. K \in SUBSET Generations
  BY <1>1 DEF CallType
<1>3. calls' = [calls EXCEPT ![c] = k]
  BY <1>1, Edits
<1> HIDE DEF K
<1>4. k \in CallType /\ k.pc = "manifest" /\ k.op = calls[c].op /\ k.base = calls[c].base
  BY <1>1, <1>2 DEF CallType
<1> HIDE DEF k
<1>5. CallOK(c, k)
  BY <1>1, <1>4 DEF CallOK, Writing, Restoring
<1>6. GoesOn(c, k)
  BY <1>3, <1>4, <1>5 DEF GoesOn
<1> QED
  BY <1>6 DEF k, K

\* Head reads a manifest, or finds that there is none left.
LEMMA ManifestStep ==
    ASSUME StoreInv, NEW c \in Clients, HeadManifest(c)
    PROVE  /\ UNCHANGED <<archives, manifests, known, dest>>
           /\ mishaps' \in 0..MaxStoreFaults
           /\ \E k : /\ GoesOn(c, k)
                     /\ \/ k = NoCall
                        \/ /\ calls[c].keys = {} /\ calls[c].base = 0 /\ calls[c].op = "commit"
                           /\ k = [calls[c] EXCEPT !.pc = "putArchive"]
                        \/ /\ calls[c].keys # {} /\ Decodable(c)
                           /\ k = [calls[c] EXCEPT !.pc = "archive", !.seen = manifests[Key(c)]]
                        \/ /\ calls[c].keys # {} /\ (~Decodable(c) \/ "openErr" \in StoreFaults)
                           /\ k = [calls[c] EXCEPT !.pc = "manifest",
                                                   !.keys = calls[c].keys \ {Key(c)}]
<1>1. UNCHANGED <<archives, manifests, known, dest>> /\ mishaps' \in 0..MaxStoreFaults
  BY MishapOK DEF HeadManifest, StoreInv
<1>2. calls[c] \in CallType /\ CallOK(c, calls[c]) /\ calls[c].pc = "manifest" /\ StoreTypeOK
  BY DEF StoreInv, StoreTypeOK, HeadManifest
<1>3. CASE calls[c].keys = {} /\ Answer(c, 0)
  <2>1. 0 \in 0..MaxGeneration /\ ~(0 > 0)
    BY StoreAssumption
  <2> QED
    BY <1>1, <1>2, <1>3, <2>1, AnswerStep
<1>4. CASE /\ calls[c].keys # {} /\ Decodable(c)
           /\ calls' = [calls EXCEPT ![c].pc = "archive", ![c].seen = manifests[Key(c)]]
  <2> DEFINE s == manifests[Key(c)]
             k == [calls[c] EXCEPT !.pc = "archive", !.seen = s]
  <2>1. s \in Contents \cup {Absent}
    BY <1>2, <1>4, LastKey DEF Decodable, StoreTypeOK, Objects
  <2> HIDE DEF s
  <2>2. calls' = [calls EXCEPT ![c] = k]
    BY <1>2, <1>4 DEF StoreTypeOK, CallType, s
  <2>3. /\ k \in CallType /\ k.pc = "archive" /\ k.op = calls[c].op /\ k.base = calls[c].base
        /\ k.keys = calls[c].keys
    BY <1>2, <2>1 DEF CallType
  <2> HIDE DEF k
  <2>4. CallOK(c, k)
    BY <1>2, <1>4, <2>3 DEF CallOK, Writing, Restoring
  <2>5. GoesOn(c, k)
    BY <2>2, <2>3, <2>4 DEF GoesOn
  <2> QED
    BY <1>1, <1>4, <2>5 DEF k, s
<1>5. CASE /\ calls[c].keys # {}
           /\ (~Decodable(c) /\ UNCHANGED mishaps) \/ Mishap("openErr")
           /\ Skip(c)
  <2>1. ~Decodable(c) \/ "openErr" \in StoreFaults
    BY <1>5 DEF Mishap
  <2> QED
    BY <1>1, <1>2, <1>5, <2>1, SkipStep
<1> QED
  BY <1>3, <1>4, <1>5 DEF HeadManifest

\* Head reads an archive and answers, or goes on to an older generation.
LEMMA ArchiveStep ==
    ASSUME StoreInv, NEW c \in Clients, HeadArchive(c)
    PROVE  /\ UNCHANGED <<archives, manifests, known, dest>>
           /\ mishaps' \in 0..MaxStoreFaults
           /\ calls[c].keys # {}
           /\ \E k : /\ GoesOn(c, k)
                     /\ \/ k = NoCall
                        \/ /\ Intact(c) /\ calls[c].op = "restore"
                           /\ k = [calls[c] EXCEPT !.pc = "unpack"]
                        \/ /\ Intact(c) /\ calls[c].op = "commit" /\ calls[c].base = Key(c)
                           /\ k = [calls[c] EXCEPT !.pc = "putArchive"]
                        \/ /\ Intact(c)
                           /\ k = [calls[c] EXCEPT !.pc = "record", !.base = Key(c)]
                        \/ /\ ~Intact(c) \/ "openErr" \in StoreFaults
                           /\ k = [calls[c] EXCEPT !.pc = "manifest",
                                                   !.keys = calls[c].keys \ {Key(c)}]
<1>1. UNCHANGED <<archives, manifests, known, dest>> /\ mishaps' \in 0..MaxStoreFaults
  BY MishapOK DEF HeadArchive, StoreInv
<1>2. calls[c] \in CallType /\ CallOK(c, calls[c]) /\ calls[c].pc = "archive" /\ StoreTypeOK
  BY DEF StoreInv, StoreTypeOK, HeadArchive
<1>3. calls[c].keys # {} /\ Key(c) \in Generations
  BY <1>2, LastKey DEF CallOK
<1>4. CASE Intact(c) /\ Answer(c, Key(c))
  <2>1. PICK m : m = Key(c)
    OBVIOUS
  <2>2. m \in 0..MaxGeneration /\ Answer(c, m) /\ m > 0
    BY <1>3, <1>4, <2>1, StoreAssumption DEF Generations
  <2>3. PICK k : /\ GoesOn(c, k)
                 /\ \/ k = NoCall
                    \/ k = [calls[c] EXCEPT !.pc = "unpack"] /\ calls[c].op = "restore"
                    \/ /\ k = [calls[c] EXCEPT !.pc = "putArchive"]
                       /\ m = calls[c].base /\ calls[c].op = "commit"
                    \/ k = [calls[c] EXCEPT !.pc = "record", !.base = m]
    BY <1>2, <1>3, <2>2, AnswerStep
  <2> QED
    BY <1>1, <1>3, <1>4, <2>1, <2>3
<1>5. CASE /\ (~Intact(c) /\ UNCHANGED mishaps) \/ Mishap("openErr")
           /\ Skip(c)
  <2>1. ~Intact(c) \/ "openErr" \in StoreFaults
    BY <1>5 DEF Mishap
  <2> QED
    BY <1>1, <1>2, <1>3, <1>5, <2>1, SkipStep
<1> QED
  BY <1>4, <1>5 DEF HeadArchive

\* What was found is recorded.
LEMMA RecordStep ==
    ASSUME StoreInv, NEW c \in Clients, Record(c)
    PROVE  /\ GoesOn(c, NoCall) /\ c \in Committers
           /\ known' = calls[c].base /\ known' \in 0..MaxGeneration
           /\ UNCHANGED <<archives, manifests, dest, mishaps>>
<1>1. calls[c] \in CallType /\ CallOK(c, calls[c]) /\ calls[c].pc = "record"
  BY DEF StoreInv, StoreTypeOK, Record
<1>2. c \in Committers /\ calls[c].base \in 0..MaxGeneration
  BY <1>1 DEF CallOK, CallType
<1> QED
  BY <1>2, Returns DEF Record

\* While it writes, a call is Commit's and its target is a generation.
LEMMA WritesTarget ==
    ASSUME StoreInv, NEW c \in Clients, calls[c].pc \in Writing
    PROVE  /\ calls[c] \in CallType /\ CallOK(c, calls[c]) /\ c \in Committers /\ calls[c].op = "commit"
           /\ calls[c].base \in 0..MaxGeneration /\ calls[c].base < MaxGeneration
           /\ Target(c) = calls[c].base + 1 /\ Target(c) \in Generations
<1>1. calls[c] \in CallType /\ CallOK(c, calls[c])
  BY DEF StoreInv, StoreTypeOK
<1>2. /\ calls[c].op = "commit" /\ c \in Committers
      /\ calls[c].base < MaxGeneration /\ calls[c].base \in 0..MaxGeneration
  BY <1>1 DEF CallOK, CallType, Writing
<1> QED
  BY <1>1, <1>2, StoreAssumption DEF Target, Generations

\* A call that writes goes on to the next step of Commit.
LEMMA WriteGoesOn ==
    ASSUME StoreInv, NEW c \in Clients, calls[c].pc \in Writing, NEW pc \in Writing, NEW v \in Objects,
           calls' = [calls EXCEPT ![c] = [calls[c] EXCEPT !.pc = pc, !.content = v]],
           v # Partial, pc \in {"putManifest", "uploadManifest"} => v # Absent
    PROVE  GoesOn(c, [calls[c] EXCEPT !.pc = pc, !.content = v])
<1> DEFINE k == [calls[c] EXCEPT !.pc = pc, !.content = v]
<1>1. calls' = [calls EXCEPT ![c] = k]
  OBVIOUS
<1>2. /\ k \in CallType /\ k.pc = pc /\ k.content = v
      /\ k.op = calls[c].op /\ k.base = calls[c].base
  BY WritesTarget DEF CallType, Writing
<1> HIDE DEF k
<1>3. CallOK(c, k)
  BY <1>2, WritesTarget DEF CallOK, Writing, Restoring, Objects
<1>4. GoesOn(c, k)
  BY <1>1, <1>2, <1>3 DEF GoesOn
<1> QED
  BY <1>4 DEF k

\* The archive is begun.
LEMMA PutArchiveStep ==
    ASSUME StoreInv, NEW c \in Clients, PutArchive(c)
    PROVE  /\ GoesOn(c, [calls[c] EXCEPT !.pc = "upload", !.content = dest])
           /\ UNCHANGED <<manifests, known, dest, mishaps>>
           /\ archives' = [archives EXCEPT ![Target(c)] = IF AtomicPut THEN archives[Target(c)] ELSE Partial]
           /\ archives' \in [Generations -> Objects]
<1>1. calls[c].pc \in Writing /\ "upload" \in Writing
  BY DEF PutArchive, Writing
<1>2. calls' = [calls EXCEPT ![c] = [calls[c] EXCEPT !.pc = "upload", !.content = dest]]
  BY DEF PutArchive, StoreInv, StoreTypeOK, CallType
<1>3. dest \in Objects /\ dest # Partial
  BY DEF StoreInv, StoreTypeOK, RestoredWhole
<1>4. GoesOn(c, [calls[c] EXCEPT !.pc = "upload", !.content = dest])
  BY <1>1, <1>2, <1>3, WriteGoesOn
<1>5. archives \in [Generations -> Objects] /\ Partial \in Objects
  BY DEF StoreInv, StoreTypeOK, Objects
<1>6. (IF AtomicPut THEN archives[Target(c)] ELSE Partial) \in Objects
  BY <1>1, <1>5, WritesTarget
<1> QED
  BY <1>4, <1>5, <1>6 DEF PutArchive

\* The archive is sent, or it fails.
LEMMA UploadStep ==
    ASSUME StoreInv, NEW c \in Clients, Upload(c)
    PROVE  /\ UNCHANGED <<manifests, known, dest>> /\ mishaps' \in 0..MaxStoreFaults
           /\ \/ UNCHANGED archives /\ GoesOn(c, NoCall)
              \/ /\ archives' = [archives EXCEPT ![Target(c)] = calls[c].content]
                 /\ calls[c].content \in Contents
                 /\ \/ GoesOn(c, NoCall)
                    \/ GoesOn(c, [calls[c] EXCEPT !.pc = "putManifest"])
<1>1. calls[c].pc \in Writing /\ "putManifest" \in Writing /\ calls[c].pc = "upload"
  BY DEF Upload, Writing
<1>2. UNCHANGED <<manifests, known, dest>> /\ mishaps' \in 0..MaxStoreFaults
  BY MishapOK DEF Upload, StoreInv
<1>3. \/ UNCHANGED archives /\ Return(c)
      \/ /\ archives' = [archives EXCEPT ![Target(c)] = calls[c].content]
         /\ calls[c].content # Absent
         /\ Return(c) \/ Goto(c, "putManifest")
  BY DEF Upload, AfterUpload
<1>4. Return(c) => GoesOn(c, NoCall)
  BY Returns
<1>5. /\ calls[c] \in CallType /\ calls[c].content \in Objects /\ calls[c].content # Partial
      /\ calls[c].content # Absent => calls[c].content \in Contents
  BY <1>1, WritesTarget DEF CallOK, CallType, Objects
<1>6. ASSUME Goto(c, "putManifest"), calls[c].content # Absent
      PROVE  GoesOn(c, [calls[c] EXCEPT !.pc = "putManifest"])
  <2>1. [calls[c] EXCEPT !.pc = "putManifest"]
        = [calls[c] EXCEPT !.pc = "putManifest", !.content = calls[c].content]
    BY <1>5 DEF CallType
  <2>2. calls' = [calls EXCEPT ![c] = [calls[c] EXCEPT !.pc = "putManifest", !.content = calls[c].content]]
    BY <1>5, <1>6 DEF Goto, StoreInv, StoreTypeOK, CallType
  <2> QED
    BY <1>1, <1>5, <1>6, <2>1, <2>2, WriteGoesOn
<1> QED
  BY <1>2, <1>3, <1>4, <1>5, <1>6

\* The manifest is begun.
LEMMA PutManifestStep ==
    ASSUME StoreInv, NEW c \in Clients, PutManifest(c)
    PROVE  /\ GoesOn(c, [calls[c] EXCEPT !.pc = "uploadManifest"])
           /\ UNCHANGED <<archives, known, dest, mishaps>>
           /\ manifests' = [manifests EXCEPT ![Target(c)] =
                               IF AtomicPut THEN manifests[Target(c)] ELSE Partial]
           /\ manifests' \in [Generations -> Objects]
<1>1. calls[c].pc \in Writing /\ "uploadManifest" \in Writing /\ calls[c].pc = "putManifest"
  BY DEF PutManifest, Writing
<1>2. calls[c] \in CallType /\ calls[c].content \in Contents
  BY <1>1, WritesTarget DEF CallOK
<1>3. [calls[c] EXCEPT !.pc = "uploadManifest"]
      = [calls[c] EXCEPT !.pc = "uploadManifest", !.content = calls[c].content]
  BY <1>2 DEF CallType
<1>4. calls' = [calls EXCEPT ![c] = [calls[c] EXCEPT !.pc = "uploadManifest", !.content = calls[c].content]]
  BY <1>2 DEF PutManifest, Goto, StoreInv, StoreTypeOK, CallType
<1>5. calls[c].content \in Objects /\ calls[c].content # Partial /\ calls[c].content # Absent
  BY <1>2, StoreAssumption DEF Objects
<1>6. GoesOn(c, [calls[c] EXCEPT !.pc = "uploadManifest"])
  BY <1>1, <1>3, <1>4, <1>5, WriteGoesOn
<1>7. manifests \in [Generations -> Objects] /\ Partial \in Objects
  BY DEF StoreInv, StoreTypeOK, Objects
<1>8. (IF AtomicPut THEN manifests[Target(c)] ELSE Partial) \in Objects
  BY <1>1, <1>7, WritesTarget
<1> QED
  BY <1>6, <1>7, <1>8 DEF PutManifest

\* The manifest is sent, or it fails.
LEMMA UploadManifestStep ==
    ASSUME StoreInv, NEW c \in Clients, UploadManifest(c)
    PROVE  /\ UNCHANGED <<archives, known, dest>> /\ mishaps' \in 0..MaxStoreFaults
           /\ UNCHANGED manifests \/ ManifestSent(c)
           /\ calls[c].content \in Contents
           /\ \E k : GoesOn(c, k) /\ k.pc \in {"idle", "list"} /\ k.op \in {"none", "verify"}
<1>1. calls[c].pc \in Writing /\ calls[c].pc = "uploadManifest"
  BY DEF UploadManifest, Writing
<1>2. UNCHANGED <<archives, known, dest>> /\ mishaps' \in 0..MaxStoreFaults
  BY MishapOK DEF UploadManifest, StoreInv
<1>3. Return(c) => GoesOn(c, NoCall) /\ NoCall.pc = "idle" /\ NoCall.op = "none"
  BY Returns DEF NoCall
<1>4. ASSUME calls' = [calls EXCEPT ![c].op = "verify", ![c].pc = "list"]
      PROVE  \E k : GoesOn(c, k) /\ k.pc = "list" /\ k.op = "verify"
  <2> DEFINE k == [calls[c] EXCEPT !.op = "verify", !.pc = "list"]
  <2>1. calls' = [calls EXCEPT ![c] = k]
    BY <1>4 DEF StoreInv, StoreTypeOK, CallType
  <2>2. k \in CallType /\ k.pc = "list" /\ k.op = "verify" /\ k.base = calls[c].base
    BY <1>1, WritesTarget DEF CallType
  <2> HIDE DEF k
  <2>3. CallOK(c, k)
    BY <1>1, <2>2, WritesTarget DEF CallOK, Writing, Restoring
  <2> QED
    BY <2>1, <2>2, <2>3 DEF GoesOn
<1>5. calls[c].content \in Contents
  BY <1>1, WritesTarget DEF CallOK
<1> QED
  BY <1>2, <1>3, <1>4, <1>5 DEF UploadManifest

\* Restore unpacks, compares the digest, looks at the destination and renames.
LEMMA RestoreStep ==
    ASSUME StoreInv, NEW c \in Clients, Restore(c)
    PROVE  /\ UNCHANGED <<archives, manifests, known>> /\ mishaps' \in 0..MaxStoreFaults
           /\ dest' = dest \/ (dest = Absent /\ dest' \in Objects \ {Partial})
           /\ \E k : /\ GoesOn(c, k)
                     /\ \/ k = NoCall
                        \/ /\ k.pc \in Restoring /\ k.op = calls[c].op /\ k.keys = calls[c].keys
                           /\ k.base = calls[c].base /\ calls[c].pc \in Restoring
<1>1. calls[c] \in CallType /\ CallOK(c, calls[c]) /\ StoreTypeOK
  BY DEF StoreInv, StoreTypeOK
<1>2. Return(c) => GoesOn(c, NoCall)
  BY Returns
<1>3. CASE Unpack(c)
  <2>0. calls[c].pc = "unpack" /\ calls[c].keys # {} /\ calls[c].op = "restore"
    BY <1>1, <1>3 DEF Unpack, CallOK, Restoring
  <2>1. /\ UNCHANGED <<archives, manifests, known, dest>> /\ mishaps' \in 0..MaxStoreFaults
    BY <1>1, <1>3, MishapOK DEF Unpack
  <2>2. ASSUME ChecksumOK(c),
               calls' = [calls EXCEPT ![c].pc = "stat", ![c].content = archives[Key(c)]]
        PROVE  \E k : /\ GoesOn(c, k)
                      /\ k.pc \in Restoring /\ k.op = calls[c].op /\ k.keys = calls[c].keys
                      /\ k.base = calls[c].base
    <3> DEFINE a == archives[Key(c)]
               k == [calls[c] EXCEPT !.pc = "stat", !.content = a]
    <3>1. a \in Objects /\ a # Partial
      BY <1>1, <2>2, StoreAssumption DEF ChecksumOK, CallType, Objects
    <3> HIDE DEF a
    <3>2. calls' = [calls EXCEPT ![c] = k]
      BY <1>1, <2>2 DEF StoreTypeOK, CallType, a
    <3>3. /\ k \in CallType /\ k.pc = "stat" /\ k.content = a /\ k.op = calls[c].op
          /\ k.keys = calls[c].keys /\ k.base = calls[c].base
      BY <1>1, <3>1 DEF CallType
    <3> HIDE DEF k
    <3>4. CallOK(c, k)
      BY <2>0, <3>1, <3>3 DEF CallOK, Writing, Restoring
    <3> QED
      BY <3>2, <3>3, <3>4 DEF GoesOn, Restoring
  <2>3. calls[c].pc \in Restoring
    BY <2>0 DEF Restoring
  <2> QED
    BY <1>2, <1>3, <2>1, <2>2, <2>3 DEF Unpack
<1>4. CASE Stat(c)
  <2>0. /\ calls[c].pc = "stat" /\ calls[c].keys # {} /\ calls[c].op = "restore"
        /\ calls[c].content # Partial
    BY <1>1, <1>4 DEF Stat, CallOK, Restoring
  <2>1. UNCHANGED <<archives, manifests, known, dest, mishaps>> /\ mishaps' \in 0..MaxStoreFaults
    BY <1>1, <1>4, MishapOK DEF Stat
  <2>2. ASSUME Goto(c, "rename")
        PROVE  \E k : /\ GoesOn(c, k)
                      /\ k.pc \in Restoring /\ k.op = calls[c].op /\ k.keys = calls[c].keys
                      /\ k.base = calls[c].base
    <3> DEFINE k == [calls[c] EXCEPT !.pc = "rename"]
    <3>1. calls' = [calls EXCEPT ![c] = k]
      BY <1>1, <2>2, Edits
    <3>2. /\ k \in CallType /\ k.pc = "rename" /\ k.content = calls[c].content /\ k.op = calls[c].op
          /\ k.keys = calls[c].keys /\ k.base = calls[c].base
      BY <1>1 DEF CallType
    <3> HIDE DEF k
    <3>3. CallOK(c, k)
      BY <2>0, <3>2 DEF CallOK, Writing, Restoring
    <3> QED
      BY <3>1, <3>2, <3>3 DEF GoesOn, Restoring
  <2>3. calls[c].pc \in Restoring
    BY <2>0 DEF Restoring
  <2> QED
    BY <1>2, <1>4, <2>1, <2>2, <2>3 DEF Stat
<1>5. CASE Rename(c)
  <2>1. UNCHANGED <<archives, manifests, known, mishaps>> /\ Return(c)
        /\ dest' \in {dest, calls[c].content} /\ (dest' = dest \/ dest = Absent)
    BY <1>5 DEF Rename
  <2>2. calls[c].content \in Objects /\ calls[c].content # Partial
    BY <1>1, <1>5 DEF Rename, CallOK, CallType
  <2> QED
    BY <1>1, <1>2, <2>1, <2>2 DEF StoreTypeOK
<1> QED
  BY <1>3, <1>4, <1>5 DEF Restore

----------------------------------------------------------------------------
\* Types and Restore, in every setup

\* A step of one call keeps the invariant when what it writes is of its type.
LEMMA StoreStep ==
    ASSUME StoreInv, UNCHANGED setup, NEW c \in Clients, \E k : GoesOn(c, k),
           archives' \in [Generations -> Objects], manifests' \in [Generations -> Objects],
           known' \in 0..MaxGeneration, dest' \in Objects, dest' # Partial,
           mishaps' \in 0..MaxStoreFaults
    PROVE  StoreInv'
<1>1. PICK k : GoesOn(c, k)
  OBVIOUS
<1>2. calls' \in [Clients -> CallType] /\ \A d \in Clients : CallOK(d, calls[d])'
  BY <1>1, CallStep DEF GoesOn
<1> QED
  BY <1>2 DEF StoreInv, StoreTypeOK, RestoredWhole

\* Nothing is stored and no call made at the start.
LEMMA StoreInit == Init => StoreInv
<1> SUFFICES ASSUME Init PROVE StoreInv
  OBVIOUS
<1>1. calls \in [Clients -> CallType] /\ \A c \in Clients : CallOK(c, calls[c])
  BY NoCallOK DEF Init
<1> QED
  BY <1>1, StoreAssumption DEF Init, StoreInv, StoreTypeOK, RestoredWhole, Objects

\* Every step keeps the types and what a call carries.
LEMMA StoreNext == StoreInv /\ [Next]_vars => StoreInv'
<1> SUFFICES ASSUME StoreInv, [Next]_vars PROVE StoreInv'
  OBVIOUS
<1>0. /\ archives \in [Generations -> Objects] /\ manifests \in [Generations -> Objects]
      /\ known \in 0..MaxGeneration /\ dest \in Objects /\ dest # Partial
      /\ mishaps \in 0..MaxStoreFaults /\ MaxGeneration \in Nat
  BY StoreAssumption DEF StoreInv, StoreTypeOK, RestoredWhole
<1>s. UNCHANGED setup
  BY SetupKept
<1>1. CASE UNCHANGED vars
  BY <1>1 DEF vars, StoreInv, StoreTypeOK, RestoredWhole, CallOK, Committers
<1>2. ASSUME NEW c \in Clients, CallHead(c) \/ CallCommit(c) \/ CallRestore(c) PROVE StoreInv'
  BY <1>0, <1>s, <1>2, CallStarts, StoreStep
<1>3. ASSUME NEW c \in Clients, HeadList(c) PROVE StoreInv'
  BY <1>0, <1>s, <1>3, ListStep, StoreStep
<1>4. ASSUME NEW c \in Clients, HeadManifest(c) PROVE StoreInv'
  BY <1>0, <1>s, <1>4, ManifestStep, StoreStep
<1>5. ASSUME NEW c \in Clients, HeadArchive(c) PROVE StoreInv'
  BY <1>0, <1>s, <1>5, ArchiveStep, StoreStep
<1>6. ASSUME NEW c \in Clients, Record(c) PROVE StoreInv'
  BY <1>0, <1>s, <1>6, RecordStep, StoreStep
<1>7. ASSUME NEW c \in Clients, Commit(c) PROVE StoreInv'
  <2>1. Contents \subseteq Objects
    BY DEF Objects
  <2>2. CASE PutArchive(c)
    BY <1>0, <1>s, <2>2, PutArchiveStep, StoreStep
  <2>3. CASE Upload(c)
    BY <1>0, <1>s, <2>1, <2>3, UploadStep, StoreStep
  <2>4. CASE PutManifest(c)
    BY <1>0, <1>s, <2>4, PutManifestStep, StoreStep
  <2>5. CASE UploadManifest(c)
    BY <1>0, <1>s, <2>1, <2>5, UploadManifestStep, StoreStep DEF ManifestSent
  <2> QED
    BY <1>7, <2>2, <2>3, <2>4, <2>5 DEF Commit
<1>8. ASSUME NEW c \in Clients, Restore(c) PROVE StoreInv'
  BY <1>0, <1>s, <1>8, RestoreStep, StoreStep
<1>9. CASE Play \/ Remove
  <2>1. dest' \in Objects \ {Partial} /\ UNCHANGED <<archives, manifests, calls, known, mishaps>>
    BY <1>9, StoreAssumption DEF Play, Remove, Objects
  <2> QED
    BY <1>s, <2>1 DEF StoreInv, StoreTypeOK, RestoredWhole, CallOK, Committers
<1>10. CASE Crash
  <2>1. calls' \in [Clients -> CallType] /\ \A c \in Clients : CallOK(c, calls[c])'
    <3>1. \A c \in Clients : CallOK(c, NoCall)'
      BY <1>s, NoCallOK DEF CallOK, Committers
    <3> QED
      BY <1>10, <3>1, NoCallOK DEF Crash
  <2>2. mishaps' \in 0..MaxStoreFaults
    BY <1>10, MishapOK DEF Crash, StoreInv
  <2> QED
    BY <1>10, <1>s, <2>1, <2>2 DEF Crash, StoreInv, StoreTypeOK, RestoredWhole
<1> QED
  BY <1>1, <1>2, <1>3, <1>4, <1>5, <1>6, <1>7, <1>8, <1>9, <1>10 DEF Next, ReadHead

\* The invariant of the calls holds in every reachable state.
THEOREM StoreInvariance == Spec => []StoreInv
BY StoreInit, StoreNext, PTL DEF Spec

\* The types of the variables: among others, Commit never goes beyond the bound
\* and Head never reads a generation that there is not.
THEOREM StoreTypeCorrect == Spec => []StoreTypeOK
<1>1. StoreInv => StoreTypeOK
  BY DEF StoreInv
<1> QED
  BY <1>1, StoreInvariance, PTL

\* What appears at the destination of Restore is a whole world (RestoredWhole),
\* for any number of clients, with any faults and also over a backend that shows
\* objects before they are whole.
THEOREM RestoreIsWhole == Spec => []RestoredWhole
<1>1. StoreInv => RestoredWhole
  BY DEF StoreInv
<1> QED
  BY <1>1, StoreInvariance, PTL

----------------------------------------------------------------------------
\* The generations, in the setups that are Sound

\* What is complete stays as it is, and no manifest disappears.
Stable ==
    /\ \A g \in Generations : Complete(g) => Complete(g)' /\ archives'[g] = archives[g]
    /\ \A g \in Generations : manifests[g] # Absent => manifests'[g] # Absent

\* Over a backend that streams only the one committer writes.
LEMMA OnlyCommitter ==
    ASSUME Sound, StoreInv, NEW c \in Clients, c \in Committers, NEW d \in Clients, d # c, ~AtomicPut
    PROVE  /\ d \notin Committers /\ calls[d].op \notin {"commit", "verify"}
           /\ calls[d].pc \notin Writing /\ calls[d].pc # "record"
<1>1. d \notin Committers
  BY DEF Sound, Exclusive
<1> QED
  BY <1>1 DEF StoreInv, CallOK

\* The generation that a call reads or expects.
LEMMA CallTypes ==
    ASSUME StoreInv, NEW c \in Clients
    PROVE  /\ calls[c] \in CallType /\ CallOK(c, calls[c])
           /\ calls[c].base \in 0..MaxGeneration /\ calls[c].keys \subseteq Generations
           /\ calls[c].base > 0 => calls[c].base \in Generations
<1>1. calls[c] \in CallType /\ CallOK(c, calls[c])
  BY DEF StoreInv, StoreTypeOK
<1> QED
  BY <1>1, StoreAssumption DEF CallType, Generations

\* A call that takes no part in a step goes on reading and writing what it may.
LEMMA OthersKept ==
    ASSUME LogInv, UNCHANGED <<setup, dest>>, Stable,
           NEW d \in Clients, calls'[d] = calls[d],
           \/ /\ calls[d].op # "commit" /\ calls[d].pc \notin Writing
           \/ /\ \A g \in Generations : Complete(g)' /\ ~Complete(g) => Beside(g)'
              /\ \A g \in Generations : archives'[g] \in {archives[g], dest}
    PROVE  CallLog(calls[d])'
<1> PICK k : k = calls[d]
  OBVIOUS
<1>0. StoreInv /\ CallLog(k)
  BY DEF LogInv
<1>1. /\ k \in CallType /\ CallOK(d, k) /\ k.base \in 0..MaxGeneration
      /\ k.keys \subseteq Generations /\ (k.base > 0 => k.base \in Generations)
  BY <1>0, CallTypes
<1>2. k.pc = "archive" => k.keys # {} /\ Max(k.keys) \in k.keys
  BY <1>0, <1>1, LastKey DEF CallOK, StoreInv
<1>3. ReadOK(k)'
  <2>1. ASSUME k.pc = "archive" PROVE k.seen = manifests'[Max(k.keys)]
    <3>1. PICK m \in Generations : m = Max(k.keys)
      BY <1>1, <1>2, <2>1
    <3>2. k.seen \in Contents /\ k.seen = manifests[m]
      BY <1>0, <2>1, <3>1 DEF CallLog, ReadOK
    <3>3. Complete(m)
      BY <3>2 DEF LogInv, Whole
    <3> QED
      BY <3>1, <3>2, <3>3 DEF Stable, Complete
  <2>2. k.pc \in {"manifest", "archive"} => \A g \in k.keys : manifests'[g] # Absent
    BY <1>0, <1>1 DEF CallLog, ReadOK, Stable
  <2> QED
    BY <1>0, <2>1, <2>2 DEF CallLog, ReadOK
<1>4. \A g \in Generations : Complete(g) /\ Beside(g) => Beside(g)'
  BY DEF Stable, Beside, AtomicPut
<1>5. CommitOK(k)'
  <2>1. CASE k.op # "commit" /\ k.pc \notin Writing
    BY <2>1 DEF CommitOK, Writing
  <2>2. CASE /\ \A g \in Generations : Complete(g)' /\ ~Complete(g) => Beside(g)'
             /\ \A g \in Generations : archives'[g] \in {archives[g], dest}
    <3>1. k.op = "commit" /\ k.pc \in {"manifest", "archive"} =>
            \A g \in Generations : Complete(g)' => g \in k.keys \/ Beside(g)'
      BY <1>0, <1>4, <2>2 DEF CallLog, CommitOK
    <3>2. ASSUME k.pc \in Writing
          PROVE  /\ k.base > 0 => Complete(k.base)'
                 /\ \A g \in Generations : Complete(g)' /\ g > k.base => Beside(g)'
      BY <1>0, <1>1, <1>4, <2>2, <3>2 DEF CallLog, CommitOK, Stable
    <3>3. k.pc \in {"upload", "putManifest", "uploadManifest"} => k.content \in {Absent, dest}
      BY <1>0 DEF CallLog, CommitOK
    <3>4. ASSUME k.pc \in {"putManifest", "uploadManifest"} PROVE archives'[k.base + 1] = k.content
      <4>1. k.content \in Contents /\ k.base + 1 \in Generations
        <5>1. calls[d].pc \in Writing
          BY <3>4 DEF Writing
        <5> QED
          BY <1>0, <1>1, <3>4, <5>1, WritesTarget DEF CallOK, Target
      <4>2. archives[k.base + 1] = k.content /\ k.content = dest
        BY <1>0, <3>3, <3>4, <4>1, StoreAssumption DEF CallLog, CommitOK
      <4> QED
        BY <2>2, <4>1, <4>2
    <3> QED
      BY <3>1, <3>2, <3>3, <3>4 DEF CommitOK
  <2> QED
    BY <2>1, <2>2
<1>6. RestoreOK(k)'
  BY <1>0, <1>1 DEF CallLog, RestoreOK, Stable
<1>7. RecordOK(k)'
  <2>1. k.pc = "record" => k.base \in Generations
    BY <1>1 DEF CallOK
  <2> QED
    BY <1>0, <2>1 DEF CallLog, RecordOK, Stable
<1> QED
  BY <1>3, <1>5, <1>6, <1>7 DEF CallLog

\* A step of c that changes no object.
LEMMA FrameStep ==
    ASSUME LogInv, StoreInv', UNCHANGED <<setup, dest, archives, manifests>>,
           NEW c \in Clients, NEW k, GoesOn(c, k), CallLog(k)',
           known' \in {0, known} \/ Complete(known')
    PROVE  LogInv'
<1>0. StoreInv
  BY DEF LogInv
<1>1. calls'[c] = k /\ \A d \in Clients : d # c => calls'[d] = calls[d]
  BY <1>0, CallStep DEF GoesOn
<1>2. \A g : Complete(g)' <=> Complete(g)
  BY DEF Complete
<1>3. Stable
  BY <1>2 DEF Stable
<1>4. \A d \in Clients : CallLog(calls[d])'
  <2>1. ASSUME NEW d \in Clients, d # c PROVE CallLog(calls[d])'
    BY <1>1, <1>2, <1>3, <2>1, OthersKept
  <2> QED
    BY <1>1, <2>1
<1>5. Whole' /\ NoGaps'
  BY <1>2 DEF LogInv, Whole, NoGaps
<1>6. KnownComplete'
  BY <1>2 DEF LogInv, KnownComplete
<1> QED
  BY <1>4, <1>5, <1>6 DEF LogInv

\* A call that does neither read, write nor restore.
LEMMA Elsewhere ==
    ASSUME NEW k, k.pc \in {"idle", "list"}, k.op # "restore"
    PROVE  CallLog(k)'
  BY DEF CallLog, ReadOK, CommitOK, RestoreOK, RecordOK, Writing, Restoring

\* No call at all.
LEMMA NowhereLog == CallLog(NoCall)'
<1>1. NoCall.pc = "idle" /\ NoCall.op = "none"
  BY DEF NoCall
<1> QED
  BY <1>1, Elsewhere

\* Nothing is stored at the start.
LEMMA LogInit == Init => LogInv
<1> SUFFICES ASSUME Init PROVE LogInv
  OBVIOUS
<1>1. NoCall.pc = "idle" /\ NoCall.op = "none"
  BY DEF NoCall
<1>2. \A c \in Clients : CallLog(calls[c])
  BY <1>1 DEF Init, CallLog, ReadOK, CommitOK, RestoreOK, RecordOK, Writing, Restoring
<1>3. Whole /\ KnownComplete /\ NoGaps
  BY StoreAssumption DEF Init, Whole, KnownComplete, NoGaps, Complete
<1> QED
  BY <1>2, <1>3, StoreInit DEF LogInv

\* A call begins: the newest generation at that moment is complete.
LEMMA CallLogs ==
    ASSUME LogInv, StoreInv', UNCHANGED setup, NEW c \in Clients,
           CallHead(c) \/ CallCommit(c) \/ CallRestore(c)
    PROVE  LogInv'
<1>0. StoreInv
  BY DEF LogInv
<1>1. UNCHANGED <<archives, manifests, dest>> /\ known' \in {0, known}
  BY <1>0, CallStarts
<1> PICK n : n = Newest
  OBVIOUS
<1>2. PICK k : GoesOn(c, k) /\ k.pc = "list" /\ (k.op = "restore" => k.base = n)
  BY <1>0, CallStarts
<1>3. n > 0 => Complete(n)'
  BY <1>1, NewestIs DEF Complete
<1>4. CallLog(k)'
  BY <1>2, <1>3 DEF CallLog, ReadOK, CommitOK, RestoreOK, RecordOK, Writing, Restoring
<1> QED
  BY <1>1, <1>2, <1>4, FrameStep

\* Head: what is skipped is not complete, so the answer is the newest, but for
\* what was committed beside.
LEMMA HeadLog ==
    ASSUME Sound, LogInv, StoreInv', UNCHANGED setup, NEW c \in Clients, ReadHead(c)
    PROVE  LogInv'
<1> PICK s, m : s = calls[c] /\ m = Key(c)
  OBVIOUS
<1>0. StoreInv /\ StoreTypeOK /\ CallLog(s) /\ Whole /\ "openErr" \notin StoreFaults
  BY DEF LogInv, StoreInv, Sound
<1>1. /\ s \in CallType /\ CallOK(c, s) /\ s.base \in 0..MaxGeneration
      /\ s.keys \subseteq Generations /\ (s.base > 0 => s.base \in Generations)
  BY <1>0, CallTypes
<1>2. s.keys # {} => /\ m = Max(s.keys) /\ m \in s.keys /\ m \in Generations
                     /\ \A g \in s.keys : g <= m
  BY <1>0, LastKey
<1>3. CASE HeadList(c)
  <2>1. UNCHANGED <<archives, manifests, known, dest>> /\ s.pc = "list"
    BY <1>3 DEF HeadList
  <2>2. PICK k : /\ GoesOn(c, k)
                 /\ \/ k = NoCall
                    \/ /\ k.pc = "manifest" /\ k.op = s.op /\ k.base = s.base
                       /\ k.keys = {g \in Generations : manifests[g] # Absent}
    BY <1>0, <1>3, ListStep
  <2>3. ASSUME k.pc = "manifest", k.op = s.op, k.base = s.base,
               k.keys = {g \in Generations : manifests[g] # Absent}
        PROVE  CallLog(k)'
    <3>1. \A g \in Generations : Complete(g)' => Complete(g) /\ g \in k.keys
      BY <2>1, <2>3, StoreAssumption DEF Complete
    <3>2. s.base > 0 /\ s.op = "restore" => Complete(s.base) /\ Complete(s.base)'
      BY <1>0, <2>1 DEF CallLog, RestoreOK, Complete
    <3>3. RestoreOK(k)'
      BY <1>1, <2>3, <3>1, <3>2 DEF RestoreOK, Restoring
    <3>4. ReadOK(k)'
      BY <2>1, <2>3 DEF ReadOK
    <3>5. CommitOK(k)' /\ RecordOK(k)'
      BY <2>3, <3>1 DEF CommitOK, RecordOK, Writing
    <3> QED
      BY <3>3, <3>4, <3>5 DEF CallLog
  <2> QED
    BY <2>1, <2>2, <2>3, NowhereLog, FrameStep
<1>4. CASE HeadManifest(c)
  <2>1. UNCHANGED <<archives, manifests, known, dest>> /\ s.pc = "manifest"
    BY <1>4 DEF HeadManifest
  <2>2. PICK k : /\ GoesOn(c, k)
                 /\ \/ k = NoCall
                    \/ /\ s.keys = {} /\ s.base = 0 /\ s.op = "commit"
                       /\ k = [s EXCEPT !.pc = "putArchive"]
                    \/ /\ s.keys # {} /\ Decodable(c)
                       /\ k = [s EXCEPT !.pc = "archive", !.seen = manifests[m]]
                    \/ /\ s.keys # {} /\ ~Decodable(c)
                       /\ k = [s EXCEPT !.pc = "manifest", !.keys = s.keys \ {m}]
    BY <1>0, <1>4, ManifestStep
  <2>3. \A g : /\ Complete(g)' <=> Complete(g)
               /\ Beside(g)' <=> Beside(g)
    BY <2>1 DEF Complete, Beside, AtomicPut
  <2>4. /\ \A g \in s.keys : manifests[g] # Absent
        /\ s.op = "commit" => \A g \in Generations : Complete(g) => g \in s.keys \/ Beside(g)
        /\ s.op = "restore" /\ s.base > 0 => Complete(s.base) /\ s.base \in s.keys
    BY <1>0, <2>1 DEF CallLog, ReadOK, CommitOK, RestoreOK
  <2>5. CASE s.keys = {} /\ s.base = 0 /\ s.op = "commit" /\ k = [s EXCEPT !.pc = "putArchive"]
    <3>1. k.pc = "putArchive" /\ k.base = 0 /\ k.op = "commit"
      BY <1>1, <2>5 DEF CallType
    <3>2. \A g \in Generations : Complete(g) => Beside(g)
      BY <2>4, <2>5
    <3>3. CallLog(k)'
      BY <2>3, <3>1, <3>2 DEF CallLog, ReadOK, CommitOK, RestoreOK, RecordOK, Restoring
    <3> QED
      BY <2>1, <2>2, <3>3, FrameStep
  <2>6. CASE s.keys # {} /\ Decodable(c) /\ k = [s EXCEPT !.pc = "archive", !.seen = manifests[m]]
    <3>1. /\ k.pc = "archive" /\ k.seen = manifests[m] /\ k.keys = s.keys
          /\ k.op = s.op /\ k.base = s.base
      BY <1>1, <2>6 DEF CallType
    <3>2. manifests[m] \in Contents
      BY <1>0, <1>2, <2>4, <2>6 DEF Decodable, StoreTypeOK, Objects
    <3>3. ReadOK(k)'
      BY <1>2, <2>1, <2>4, <2>6, <3>1, <3>2 DEF ReadOK
    <3>4. CommitOK(k)'
      BY <2>3, <2>4, <3>1 DEF CommitOK, Writing
    <3>5. RestoreOK(k)' /\ RecordOK(k)'
      BY <2>3, <2>4, <3>1 DEF RestoreOK, RecordOK, Restoring
    <3> QED
      BY <2>1, <2>2, <3>3, <3>4, <3>5, FrameStep DEF CallLog
  <2>7. CASE s.keys # {} /\ ~Decodable(c) /\ k = [s EXCEPT !.pc = "manifest", !.keys = s.keys \ {m}]
    <3>1. k.pc = "manifest" /\ k.keys = s.keys \ {m} /\ k.op = s.op /\ k.base = s.base
      BY <1>1, <2>7 DEF CallType
    <3>2. ~Complete(m)
      BY <2>7, StoreAssumption DEF Decodable, Complete
    <3>3. ReadOK(k)'
      BY <2>1, <2>4, <3>1 DEF ReadOK
    <3>4. CommitOK(k)'
      BY <2>3, <2>4, <3>1, <3>2 DEF CommitOK, Writing
    <3>5. RestoreOK(k)' /\ RecordOK(k)'
      BY <2>3, <2>4, <3>1, <3>2 DEF RestoreOK, RecordOK, Restoring
    <3> QED
      BY <2>1, <2>2, <3>3, <3>4, <3>5, FrameStep DEF CallLog
  <2>8. CASE k = NoCall
    BY <2>1, <2>2, <2>8, NowhereLog, FrameStep
  <2> QED
    BY <2>2, <2>5, <2>6, <2>7, <2>8
<1>5. CASE HeadArchive(c)
  <2>1. UNCHANGED <<archives, manifests, known, dest>> /\ s.pc = "archive" /\ s.keys # {}
    BY <1>0, <1>5, ArchiveStep DEF HeadArchive
  <2>2. Complete(m) /\ Intact(c)
    BY <1>0, <1>2, <2>1 DEF CallLog, ReadOK, Whole, Complete, Intact
  <2>3. PICK k : /\ GoesOn(c, k)
                 /\ \/ k = NoCall
                    \/ s.op = "restore" /\ k = [s EXCEPT !.pc = "unpack"]
                    \/ s.op = "commit" /\ s.base = m /\ k = [s EXCEPT !.pc = "putArchive"]
                    \/ k = [s EXCEPT !.pc = "record", !.base = m]
    BY <1>0, <1>5, <2>2, ArchiveStep
  <2>4. \A g : /\ Complete(g)' <=> Complete(g)
               /\ Beside(g)' <=> Beside(g)
    BY <2>1 DEF Complete, Beside, AtomicPut
  <2>5. /\ s.op = "commit" => \A g \in Generations : Complete(g) => g \in s.keys \/ Beside(g)
        /\ s.op = "restore" /\ s.base > 0 => Complete(s.base) /\ s.base \in s.keys
    BY <1>0, <2>1 DEF CallLog, CommitOK, RestoreOK
  <2>6. CASE s.op = "restore" /\ k = [s EXCEPT !.pc = "unpack"]
    <3>1. k.pc = "unpack" /\ k.keys = s.keys /\ k.op = s.op /\ k.base = s.base
      BY <1>1, <2>6 DEF CallType
    <3>2. Max(k.keys) >= k.base
      <4>1. s.base <= m /\ Max(k.keys) = m
        BY <1>1, <1>2, <2>1, <2>5, <2>6, <3>1 DEF Generations
      <4> QED
        BY <1>1, <1>2, <2>1, <3>1, <4>1 DEF Generations
    <3>3. CallLog(k)'
      BY <2>4, <2>5, <2>6, <3>1, <3>2 DEF CallLog, ReadOK, CommitOK, RestoreOK, RecordOK, Writing, Restoring
    <3> QED
      BY <2>1, <2>3, <3>3, FrameStep
  <2>7. CASE s.op = "commit" /\ s.base = m /\ k = [s EXCEPT !.pc = "putArchive"]
    <3>1. k.pc = "putArchive" /\ k.op = "commit" /\ k.base = m
      BY <1>1, <2>7 DEF CallType
    <3>2. \A g \in Generations : Complete(g) /\ g > m => Beside(g)
      BY <1>1, <1>2, <2>1, <2>5, <2>7 DEF Generations
    <3>3. CallLog(k)'
      BY <2>2, <2>4, <3>1, <3>2 DEF CallLog, ReadOK, CommitOK, RestoreOK, RecordOK, Writing, Restoring
    <3> QED
      BY <2>1, <2>3, <3>3, FrameStep
  <2>8. CASE k = [s EXCEPT !.pc = "record", !.base = m]
    <3>1. k.pc = "record" /\ k.base = m /\ k \in CallType /\ CallOK(c, k)
      BY <1>1, <2>3, <2>8 DEF CallType, GoesOn
    <3>2. k.op # "restore"
      BY <3>1 DEF CallOK
    <3>3. CallLog(k)'
      BY <2>2, <2>4, <3>1, <3>2 DEF CallLog, ReadOK, CommitOK, RestoreOK, RecordOK, Writing, Restoring
    <3> QED
      BY <2>1, <2>3, <3>3, FrameStep
  <2>9. CASE k = NoCall
    BY <2>1, <2>3, <2>9, NowhereLog, FrameStep
  <2> QED
    BY <2>3, <2>6, <2>7, <2>8, <2>9
<1>6. CASE Record(c)
  <2>1. UNCHANGED <<archives, manifests, dest>> /\ known' = s.base /\ s.pc = "record" /\ GoesOn(c, NoCall)
    BY <1>0, <1>6, RecordStep DEF Record
  <2>2. Complete(known')
    BY <1>0, <2>1 DEF CallLog, RecordOK
  <2> QED
    BY <2>1, <2>2, NowhereLog, FrameStep
<1> QED
  BY <1>3, <1>4, <1>5, <1>6 DEF ReadHead

\* A generation becomes complete only after the one before it.
Grows == \A g \in Generations : Complete(g)' /\ ~Complete(g) => g = 1 \/ Complete(g - 1)

\* A step of Commit that keeps what is complete, and completes nothing but its target.
LEMMA ObjectStep ==
    ASSUME Sound, LogInv, StoreInv', UNCHANGED <<setup, dest, known>>, NEW c \in Clients,
           calls[c].pc \in Writing, NEW k, GoesOn(c, k), CallLog(k)', Stable, Whole',
           AtomicPut => \A g \in Generations : archives'[g] \in {archives[g], dest},
           \A g \in Generations :
               Complete(g)' /\ ~Complete(g) => g = calls[c].base + 1 /\ archives'[g] = dest
    PROVE  LogInv' /\ Stable /\ Grows
<1> PICK s : s = calls[c]
  OBVIOUS
<1>0. StoreInv /\ CallLog(s)
  BY DEF LogInv
<1>1. calls'[c] = k /\ \A d \in Clients : d # c => calls'[d] = calls[d]
  BY <1>0, CallStep DEF GoesOn
<1>2. c \in Committers /\ s.base \in 0..MaxGeneration /\ MaxGeneration \in Nat
  BY <1>0, WritesTarget, StoreAssumption
<1>3. \A d \in Clients : CallLog(calls[d])'
  <2>1. ASSUME NEW d \in Clients, d # c, AtomicPut PROVE CallLog(calls[d])'
    <3>1. \A g \in Generations : Complete(g)' /\ ~Complete(g) => Beside(g)'
      BY <2>1 DEF Beside, AtomicPut
    <3> QED
      BY <1>1, <2>1, <3>1, OthersKept
  <2>2. ASSUME NEW d \in Clients, d # c, ~AtomicPut PROVE CallLog(calls[d])'
    <3>1. calls[d].op # "commit" /\ calls[d].pc \notin Writing
      BY <1>0, <1>2, <2>2, OnlyCommitter
    <3> QED
      BY <1>1, <2>2, <3>1, OthersKept
  <2> QED
    BY <1>1, <2>1, <2>2
<1>4. s.base > 0 => Complete(s.base)
  BY <1>0 DEF CallLog, CommitOK
<1>5. Grows
  BY <1>2, <1>4 DEF Grows, Generations
<1>6. NoGaps'
  <2> SUFFICES ASSUME NEW g \in Generations, Complete(g)', NEW h \in 1..g PROVE Complete(h)'
    BY DEF NoGaps
  <2>1. h \in Generations /\ g \in Nat /\ h \in Nat
    BY <1>2 DEF Generations
  <2>2. CASE Complete(g)
    BY <2>1, <2>2 DEF LogInv, NoGaps, Stable
  <2>3. CASE ~Complete(g) /\ h = g
    BY <2>3
  <2>4. CASE ~Complete(g) /\ h # g
    <3>1. g = s.base + 1 /\ s.base > 0 /\ h \in 1..s.base /\ s.base \in Generations
      BY <1>2, <2>1, <2>4 DEF Generations
    <3>2. Complete(h)
      BY <1>4, <3>1 DEF LogInv, NoGaps
    <3> QED
      BY <2>1, <3>2 DEF Stable
  <2> QED
    BY <2>2, <2>3, <2>4
<1>7. KnownComplete'
  <2>1. known > 0 => known \in Generations
    BY <1>0, <1>2 DEF StoreInv, StoreTypeOK, Generations
  <2> QED
    BY <2>1 DEF LogInv, KnownComplete, Stable
<1> QED
  BY <1>3, <1>5, <1>6, <1>7 DEF LogInv

\* While Commit writes, its target is complete only when it holds the same world.
LEMMA TargetBeside ==
    ASSUME LogInv, NEW c \in Clients, calls[c].pc \in Writing
    PROVE  /\ Target(c) \in Generations /\ Target(c) = calls[c].base + 1
           /\ Complete(Target(c)) => AtomicPut /\ archives[Target(c)] = dest
           /\ calls[c].base > 0 => calls[c].base \in Generations /\ Complete(calls[c].base)
           /\ \A g \in Generations : Complete(g) /\ g > calls[c].base => Beside(g)
           /\ calls[c].op = "commit" /\ calls[c].base \in Nat /\ calls[c] \in CallType
<1>0. StoreInv /\ CallLog(calls[c])
  BY DEF LogInv
<1>1. /\ Target(c) \in Generations /\ Target(c) = calls[c].base + 1 /\ calls[c].op = "commit"
      /\ calls[c].base \in 0..MaxGeneration /\ calls[c] \in CallType
  BY <1>0, WritesTarget
<1>2. /\ calls[c].base > 0 => Complete(calls[c].base)
      /\ \A g \in Generations : Complete(g) /\ g > calls[c].base => Beside(g)
  BY <1>0 DEF CallLog, CommitOK
<1>3. calls[c].base \in Nat /\ Target(c) > calls[c].base
  BY <1>1, StoreAssumption
<1>4. Complete(Target(c)) => Beside(Target(c))
  BY <1>1, <1>2, <1>3
<1>5. calls[c].base > 0 => calls[c].base \in Generations
  BY <1>0, CallTypes
<1> QED
  BY <1>1, <1>2, <1>3, <1>4, <1>5 DEF Beside

\* The next step of Commit still finds, after its base, only what was made beside it.
LEMMA WriteOn ==
    ASSUME LogInv, UNCHANGED <<setup, dest>>, NEW c \in Clients, calls[c].pc \in Writing, Stable,
           \A g \in Generations : Complete(g)' => Complete(g),
           NEW k, k.pc \in Writing, k.base = calls[c].base, k.op = "commit", k.content \in {Absent, dest},
           k.pc \in {"putManifest", "uploadManifest"} => archives'[k.base + 1] = k.content
    PROVE  CallLog(k)'
<1> PICK b : b = calls[c].base
  OBVIOUS
<1>1. /\ b > 0 => b \in Generations /\ Complete(b)
      /\ \A g \in Generations : Complete(g) /\ g > b => Beside(g)
  BY TargetBeside
<1>2. b > 0 => Complete(b)'
  BY <1>1 DEF Stable
<1>3. \A g \in Generations : Complete(g) /\ Beside(g) => Beside(g)'
  BY DEF Stable, Beside, AtomicPut
<1>4. CommitOK(k)'
  BY <1>1, <1>2, <1>3 DEF CommitOK, Writing
<1> QED
  BY <1>4 DEF CallLog, ReadOK, RestoreOK, RecordOK, Writing, Restoring

\* Commit: over a backend that puts objects at once it writes what is there or what
\* another call wrote; over one that streams, its target is not complete yet.
LEMMA CommitLog ==
    ASSUME Sound, LogInv, StoreInv', UNCHANGED setup, NEW c \in Clients, Commit(c)
    PROVE  LogInv' /\ Stable /\ Grows
<1> PICK s, t : s = calls[c] /\ t = Target(c)
  OBVIOUS
<1>0. StoreInv /\ StoreTypeOK /\ CallLog(s) /\ Whole
  BY DEF LogInv, StoreInv
<1>1. s.pc \in Writing
  BY DEF Commit, PutArchive, Upload, PutManifest, UploadManifest, Writing
<1>2. /\ t \in Generations /\ t = s.base + 1
      /\ Complete(t) => AtomicPut /\ archives[t] = dest
      /\ s.base \in Nat /\ s.op = "commit" /\ s \in CallType
  BY <1>1, TargetBeside
<1>3. archives \in [Generations -> Objects] /\ manifests \in [Generations -> Objects]
  BY <1>0 DEF StoreTypeOK
<1>4. Partial \notin Contents /\ Absent \notin Contents /\ Partial # Absent
  BY StoreAssumption
<1>5. ASSUME UNCHANGED <<dest, known, archives, manifests>>, NEW k, GoesOn(c, k), CallLog(k)'
      PROVE  LogInv' /\ Stable /\ Grows
  <2>1. \A g : Complete(g)' <=> Complete(g)
    BY <1>5 DEF Complete
  <2>2. LogInv'
    BY <1>5, FrameStep
  <2> QED
    BY <1>5, <2>1, <2>2 DEF Stable, Grows
<1>6. CASE PutArchive(c)
  <2>1. /\ GoesOn(c, [s EXCEPT !.pc = "upload", !.content = dest])
        /\ UNCHANGED <<manifests, known, dest>>
        /\ archives' = [archives EXCEPT ![t] = IF AtomicPut THEN archives[t] ELSE Partial]
    BY <1>0, <1>6, PutArchiveStep
  <2>2. PICK k : k = [s EXCEPT !.pc = "upload", !.content = dest]
    OBVIOUS
  <2>3. /\ k.pc = "upload" /\ k.pc \in Writing /\ k.content = dest /\ k.base = s.base /\ k.op = "commit"
    BY <1>2, <2>2 DEF CallType, Writing
  <2>4. /\ \A g \in Generations : g # t => archives'[g] = archives[g]
        /\ AtomicPut => archives'[t] = archives[t]
        /\ ~AtomicPut => archives'[t] = Partial
    BY <1>2, <1>3, <2>1
  <2>5. Stable
    BY <1>2, <2>1, <2>4 DEF Stable, Complete
  <2>6. \A g \in Generations : Complete(g)' => Complete(g)
    BY <1>4, <2>1, <2>4 DEF Complete
  <2>7. CallLog(k)'
    BY <1>1, <2>1, <2>3, <2>5, <2>6, WriteOn
  <2>8. Whole'
    BY <1>0, <2>1, <2>5 DEF Whole, Stable
  <2> QED
    BY <1>1, <2>1, <2>2, <2>4, <2>5, <2>6, <2>7, <2>8, ObjectStep
<1>7. CASE Upload(c)
  <2>1. UNCHANGED <<manifests, known, dest>> /\ s.pc = "upload"
    BY <1>0, <1>7, UploadStep DEF Upload
  <2>2. CASE UNCHANGED archives /\ GoesOn(c, NoCall)
    BY <1>5, <2>1, <2>2, NowhereLog
  <2>3. CASE /\ archives' = [archives EXCEPT ![t] = s.content] /\ s.content \in Contents
             /\ GoesOn(c, NoCall) \/ GoesOn(c, [s EXCEPT !.pc = "putManifest"])
    <3>1. s.content = dest
      BY <1>0, <1>4, <2>1, <2>3 DEF CallLog, CommitOK
    <3>2. archives'[t] = dest /\ \A g \in Generations : g # t => archives'[g] = archives[g]
      BY <1>2, <1>3, <2>3, <3>1
    <3>3. Stable
      BY <1>2, <2>1, <3>2 DEF Stable, Complete
    <3>4. \A g \in Generations : Complete(g)' => Complete(g)
      BY <1>0, <2>1 DEF Complete, Whole
    <3>5. Whole'
      BY <1>0, <2>1, <3>3 DEF Whole, Stable
    <3>6. \A g \in Generations : archives'[g] \in {archives[g], dest}
      BY <3>2
    <3>7. CASE GoesOn(c, NoCall)
      BY <1>1, <2>1, <3>3, <3>4, <3>5, <3>6, <3>7, NowhereLog, ObjectStep
    <3>8. CASE GoesOn(c, [s EXCEPT !.pc = "putManifest"])
      <4>1. PICK k : k = [s EXCEPT !.pc = "putManifest"]
        OBVIOUS
      <4>2. k.pc = "putManifest" /\ k.pc \in Writing /\ k.content = dest /\ k.base = s.base /\ k.op = "commit"
        BY <1>2, <3>1, <4>1 DEF CallType, Writing
      <4>3. CallLog(k)'
        BY <1>1, <1>2, <2>1, <3>2, <3>3, <3>4, <4>2, WriteOn
      <4> QED
        BY <1>1, <2>1, <3>3, <3>4, <3>5, <3>6, <3>8, <4>1, <4>3, ObjectStep
    <3> QED
      BY <2>3, <3>7, <3>8
  <2> QED
    BY <1>0, <1>7, <2>2, <2>3, UploadStep
<1>8. CASE PutManifest(c)
  <2>1. /\ GoesOn(c, [s EXCEPT !.pc = "uploadManifest"]) /\ s.pc = "putManifest"
        /\ UNCHANGED <<archives, known, dest>>
        /\ manifests' = [manifests EXCEPT ![t] = IF AtomicPut THEN manifests[t] ELSE Partial]
    BY <1>0, <1>8, PutManifestStep DEF PutManifest
  <2>2. PICK k : k = [s EXCEPT !.pc = "uploadManifest"]
    OBVIOUS
  <2>3. /\ k.pc = "uploadManifest" /\ k.pc \in Writing /\ k.content = s.content
        /\ k.base = s.base /\ k.op = "commit"
    BY <1>2, <2>2 DEF CallType, Writing
  <2>4. s.content \in {Absent, dest} /\ archives[t] = s.content
    BY <1>0, <1>2, <2>1 DEF CallLog, CommitOK
  <2>5. /\ \A g \in Generations : g # t => manifests'[g] = manifests[g]
        /\ AtomicPut => manifests'[t] = manifests[t]
        /\ ~AtomicPut => manifests'[t] = Partial
    BY <1>2, <1>3, <2>1
  <2>6. Stable
    BY <1>2, <1>4, <2>1, <2>5 DEF Stable, Complete
  <2>7. \A g \in Generations : Complete(g)' => Complete(g)
    BY <1>4, <2>1, <2>5 DEF Complete
  <2>8. CallLog(k)'
    BY <1>1, <1>2, <2>1, <2>3, <2>4, <2>6, <2>7, WriteOn
  <2>9. Whole'
    BY <1>0, <1>4, <2>1, <2>5 DEF Whole, Complete
  <2> QED
    BY <1>1, <2>1, <2>2, <2>6, <2>7, <2>8, <2>9, ObjectStep
<1>9. CASE UploadManifest(c)
  <2>1. UNCHANGED <<archives, known, dest>> /\ s.pc = "uploadManifest" /\ s.content \in Contents
    BY <1>0, <1>9, UploadManifestStep DEF UploadManifest
  <2>2. PICK k : GoesOn(c, k) /\ k.pc \in {"idle", "list"} /\ k.op \in {"none", "verify"}
    BY <1>0, <1>9, UploadManifestStep
  <2>3. CallLog(k)'
    BY <2>2, Elsewhere
  <2>4. s.content = dest /\ archives[t] = dest
    BY <1>0, <1>2, <1>4, <2>1 DEF CallLog, CommitOK
  <2>5. CASE UNCHANGED manifests
    BY <1>5, <2>1, <2>2, <2>3, <2>5
  <2>6. CASE ManifestSent(c)
    <3>1. manifests'[t] = dest /\ \A g \in Generations : g # t => manifests'[g] = manifests[g]
      BY <1>2, <1>3, <2>4, <2>6 DEF ManifestSent
    <3>2. Complete(t)'
      BY <2>1, <2>4, <3>1 DEF Complete
    <3>3. \A g \in Generations : g # t => (Complete(g)' <=> Complete(g))
      BY <2>1, <3>1 DEF Complete
    <3>4. Stable
      BY <1>4, <2>1, <2>4, <3>1, <3>2, <3>3 DEF Stable
    <3>5. Whole'
      BY <1>0, <3>1, <3>2, <3>3 DEF Whole
    <3> QED
      BY <1>1, <1>2, <2>1, <2>2, <2>3, <2>4, <3>3, <3>4, <3>5, ObjectStep
  <2> QED
    BY <1>0, <1>9, <2>5, <2>6, UploadManifestStep
<1> QED
  BY <1>6, <1>7, <1>8, <1>9 DEF Commit

\* The destination changes, but not under a world that is being archived.
LEMMA DestLog ==
    ASSUME LogInv, StoreInv', UNCHANGED <<setup, archives, manifests, known>>,
           NEW d \in Clients, calls'[d] = calls[d],
           dest = Absent \/ (calls[d].op # "commit" /\ calls[d].pc \notin Writing)
    PROVE  CallLog(calls[d])'
<1> PICK k : k = calls[d]
  OBVIOUS
<1>0. CallLog(k)
  BY DEF LogInv
<1>1. \A g : Complete(g)' <=> Complete(g)
  BY DEF Complete
<1>2. ReadOK(k)' /\ RestoreOK(k)' /\ RecordOK(k)'
  BY <1>0, <1>1 DEF CallLog, ReadOK, RestoreOK, RecordOK
<1>3. CommitOK(k)'
  <2>1. CASE k.op # "commit" /\ k.pc \notin Writing
    BY <2>1 DEF CommitOK, Writing
  <2>2. CASE dest = Absent
    <3>1. \A g \in Generations : Complete(g) => ~Beside(g)
      BY <2>2, StoreAssumption DEF Complete, Beside
    <3>2. /\ k.op = "commit" /\ k.pc \in {"manifest", "archive"} =>
               \A g \in Generations : Complete(g)' => g \in k.keys
          /\ k.pc \in Writing => /\ k.base > 0 => Complete(k.base)'
                                 /\ \A g \in Generations : ~(Complete(g)' /\ g > k.base)
          /\ k.pc \in {"upload", "putManifest", "uploadManifest"} => k.content \in {Absent, dest'}
          /\ k.pc \in {"putManifest", "uploadManifest"} => archives'[k.base + 1] = k.content
      BY <1>0, <1>1, <2>2, <3>1 DEF CallLog, CommitOK
    <3> QED
      BY <3>2 DEF CommitOK
  <2> QED
    BY <2>1, <2>2
<1> QED
  BY <1>2, <1>3 DEF CallLog

\* The objects stay as they are, the calls are in order.
LEMMA ObjectsKept ==
    ASSUME LogInv, StoreInv', UNCHANGED <<archives, manifests, known>>,
           \A d \in Clients : CallLog(calls[d])'
    PROVE  LogInv'
<1>1. \A g : Complete(g)' <=> Complete(g)
  BY DEF Complete
<1>2. Whole' /\ NoGaps' /\ KnownComplete'
  BY <1>1 DEF LogInv, Whole, NoGaps, KnownComplete
<1> QED
  BY <1>2 DEF LogInv

\* Restore: it changes no object, and creates a directory only where there is none.
LEMMA RestoreLog ==
    ASSUME LogInv, StoreInv', UNCHANGED setup, NEW c \in Clients, Restore(c)
    PROVE  LogInv'
<1> PICK s : s = calls[c]
  OBVIOUS
<1>0. StoreInv /\ CallLog(s)
  BY DEF LogInv
<1>1. UNCHANGED <<archives, manifests, known>> /\ (dest' = dest \/ dest = Absent)
  BY <1>0, RestoreStep
<1>2. PICK k : /\ GoesOn(c, k)
               /\ \/ k = NoCall
                  \/ /\ k.pc \in Restoring /\ k.op = s.op /\ k.keys = s.keys
                     /\ k.base = s.base /\ s.pc \in Restoring
  BY <1>0, RestoreStep
<1>3. calls'[c] = k /\ \A d \in Clients : d # c => calls'[d] = calls[d]
  BY <1>0, <1>2, CallStep DEF GoesOn
<1>4. CallLog(k)'
  <2>1. \A g : Complete(g)' <=> Complete(g)
    BY <1>1 DEF Complete
  <2>2. ASSUME k.pc \in Restoring, k.op = s.op, k.keys = s.keys, k.base = s.base, s.pc \in Restoring
        PROVE  CallLog(k)'
    <3>1. k.op = "restore"
      BY <1>2, <2>2 DEF GoesOn, CallOK
    <3>2. RestoreOK(k)'
      BY <1>0, <2>1, <2>2 DEF CallLog, RestoreOK, Restoring
    <3> QED
      BY <2>2, <3>1, <3>2 DEF CallLog, ReadOK, CommitOK, RecordOK, Writing, Restoring
  <2> QED
    BY <1>2, <2>2, NowhereLog
<1>5. CASE dest' = dest
  BY <1>1, <1>2, <1>4, <1>5, FrameStep
<1>6. CASE dest = Absent
  <2>1. ASSUME NEW d \in Clients, d # c PROVE CallLog(calls[d])'
    BY <1>1, <1>3, <1>6, <2>1, DestLog
  <2>2. \A d \in Clients : CallLog(calls[d])'
    BY <1>3, <1>4, <2>1
  <2> QED
    BY <1>1, <2>2, ObjectsKept
<1> QED
  BY <1>1, <1>5, <1>6

\* Every step keeps the invariant of the generations.
LEMMA LogNext == Sound /\ LogInv /\ [Next]_vars => LogInv' /\ Stable /\ Grows
<1> SUFFICES ASSUME Sound, LogInv, [Next]_vars PROVE LogInv' /\ Stable /\ Grows
  OBVIOUS
<1>0. StoreInv /\ StoreInv' /\ UNCHANGED setup
  BY StoreNext, SetupKept DEF LogInv
<1>k. ASSUME UNCHANGED <<archives, manifests>> PROVE Stable /\ Grows
  <2>1. \A g : Complete(g)' <=> Complete(g)
    BY <1>k DEF Complete
  <2> QED
    BY <1>k, <2>1 DEF Stable, Grows
<1>1. CASE UNCHANGED vars
  <2>1. UNCHANGED <<archives, manifests, calls, known, dest>>
    BY <1>1 DEF vars
  <2>2. \A d \in Clients : CallLog(calls[d])'
    BY <1>0, <2>1 DEF LogInv, CallLog, ReadOK, CommitOK, RestoreOK, RecordOK, Complete, Beside, AtomicPut
  <2> QED
    BY <1>0, <1>k, <2>1, <2>2, ObjectsKept
<1>2. ASSUME NEW c \in Clients, CallHead(c) \/ CallCommit(c) \/ CallRestore(c)
      PROVE  LogInv' /\ Stable /\ Grows
  BY <1>0, <1>k, <1>2, CallLogs, CallStarts
<1>3. ASSUME NEW c \in Clients, ReadHead(c) PROVE LogInv' /\ Stable /\ Grows
  <2>1. UNCHANGED <<archives, manifests>>
    BY <1>3 DEF ReadHead, HeadList, HeadManifest, HeadArchive, Record
  <2> QED
    BY <1>0, <1>k, <1>3, <2>1, HeadLog
<1>4. ASSUME NEW c \in Clients, Commit(c) PROVE LogInv' /\ Stable /\ Grows
  BY <1>0, <1>4, CommitLog
<1>5. ASSUME NEW c \in Clients, Restore(c) PROVE LogInv' /\ Stable /\ Grows
  <2>1. UNCHANGED <<archives, manifests>>
    BY <1>0, <1>5, RestoreStep
  <2> QED
    BY <1>0, <1>k, <1>5, <2>1, RestoreLog
<1>6. CASE Play \/ Remove
  <2>1. UNCHANGED <<archives, manifests, calls, known>> /\ Still
    BY <1>6 DEF Play, Remove
  <2>2. ASSUME NEW d \in Clients PROVE CallLog(calls[d])'
    <3>1. calls[d].op # "commit" /\ calls[d].pc \notin Writing
      BY <1>0, <2>1 DEF Still, StoreInv, CallOK
    <3> QED
      BY <1>0, <2>1, <3>1, DestLog
  <2> QED
    BY <1>0, <1>k, <2>1, <2>2, ObjectsKept
<1>7. CASE Crash
  <2>1. UNCHANGED <<archives, manifests, known>> /\ calls' = [c \in Clients |-> NoCall]
    BY <1>7 DEF Crash
  <2>2. \A d \in Clients : CallLog(calls[d])'
    <3>1. ASSUME NEW d \in Clients PROVE CallLog(calls[d])'
      <4>1. calls'[d] = NoCall
        BY <2>1
      <4> QED
        BY <4>1, NowhereLog DEF CallLog
    <3> QED
      BY <3>1
  <2> QED
    BY <1>0, <1>k, <2>1, <2>2, ObjectsKept
<1> QED
  BY <1>1, <1>2, <1>3, <1>4, <1>5, <1>6, <1>7 DEF Next

\* A setup is sound, or exclusive, from beginning to end.
LEMMA SoundKept == [Next]_vars => (Sound' <=> Sound) /\ (Exclusive' <=> Exclusive)
  BY SetupKept DEF Sound, Exclusive, AtomicPut, Committers, StoreFaults

\* The invariant of the generations, in every sound setup.
THEOREM LogInvariance == Spec => [](Sound => LogInv)
<1>1. Sound /\ LogInv /\ [Next]_vars => LogInv'
  BY LogNext
<1> QED
  BY <1>1, LogInit, SoundKept, PTL DEF Spec

\* The manifest comes last (ManifestLast): a whole manifest is only ever there with
\* its archive, for any number of clients, with crashes and failed uploads, and
\* with any number of commits at once over a backend that puts objects at once.
THEOREM ManifestIsLast == Spec => []ManifestLast
<1>1. (Sound => LogInv) => ManifestLast
  BY DEF LogInv, Whole, ManifestLast
<1> QED
  BY <1>1, LogInvariance, PTL

\* Restore unpacks no generation older than the newest at the time of its call
\* (RestoresNewest), whatever is committed while Head reads.
THEOREM RestoreIsNewest == Spec => []RestoresNewest
<1>1. (Sound => LogInv) => RestoresNewest
  <2> SUFFICES ASSUME LogInv, NEW c \in Clients, calls[c].pc \in Restoring
               PROVE  Key(c) >= calls[c].base
    BY DEF RestoresNewest, Restoring
  <2>1. calls[c].keys # {}
    BY DEF LogInv, StoreInv, CallOK
  <2>2. Key(c) = Max(calls[c].keys)
    BY <2>1, LastKey DEF LogInv, StoreInv
  <2> QED
    BY <2>2 DEF LogInv, CallLog, RestoreOK
<1> QED
  BY <1>1, LogInvariance, PTL

\* The newest generation stays the newest, or one world is appended to it.
LEMMA NewestStep ==
    ASSUME Sound, LogInv, [Next]_vars
    PROVE  \/ Newest' = Newest /\ \A g \in 1..Newest : archives'[g] = archives[g]
           \/ /\ Newest' = Newest + 1 /\ archives'[Newest + 1] \in Contents
              /\ \A g \in 1..Newest : archives'[g] = archives[g]
<1>0. Stable /\ Grows /\ NoGaps /\ MaxGeneration \in Nat
  BY LogNext, StoreAssumption DEF LogInv
<1>1. PICK n : n = Newest
  OBVIOUS
<1>2. PICK m : m = Newest'
  OBVIOUS
<1>3. /\ n \in 0..MaxGeneration
      /\ \A g \in Generations : Complete(g) => g <= n
      /\ n > 0 => n \in Generations /\ Complete(n)
  BY <1>1, NewestIs
<1>4. /\ m \in 0..MaxGeneration
      /\ \A g \in Generations : Complete(g)' => g <= m
      /\ m > 0 => m \in Generations /\ Complete(m)'
  <2>1. (/\ Newest \in 0..MaxGeneration
         /\ \A g \in Generations : Complete(g) => g <= Newest
         /\ Newest > 0 => Newest \in Generations /\ Complete(Newest))'
    BY NewestIs, PTL
  <2> QED
    BY <1>2, <2>1 DEF Complete
<1>5. \A g \in 1..n : g \in Generations /\ Complete(g) /\ archives'[g] = archives[g]
  <2>1. \A g \in 1..n : g \in Generations /\ Complete(g)
    BY <1>0, <1>3 DEF NoGaps, Generations
  <2> QED
    BY <1>0, <2>1 DEF Stable
<1>6. n <= m
  <2>1. n > 0 => Complete(n)'
    BY <1>0, <1>3 DEF Stable
  <2> QED
    BY <1>3, <1>4, <2>1
<1>7. CASE m # n
  <2>1. m > n /\ m \in Generations /\ Complete(m)' /\ ~Complete(m)
    BY <1>0, <1>3, <1>4, <1>6, <1>7
  <2>2. m = 1 \/ Complete(m - 1)
    BY <1>0, <2>1 DEF Grows
  <2>3. m = n + 1
    BY <1>0, <1>3, <2>1, <2>2 DEF Generations
  <2>4. archives'[m] \in Contents
    BY <2>1 DEF Complete
  <2> QED
    BY <1>1, <1>2, <1>5, <2>3, <2>4
<1> QED
  BY <1>1, <1>2, <1>5, <1>7

\* The complete generations are a log that grows at its end by one world at a time
\* (GenerationLog): none is ever replaced, lost or skipped, also when goroutines
\* commit at once over a backend that puts objects at once.
THEOREM StoreIsLog == Spec => LogSpec
<1> DEFINE entries == [g \in 1..Newest |-> archives[g]]
           mapped == IF Sound THEN entries ELSE <<>>
<1>1. Init => Log!Init
  <2> SUFFICES ASSUME Init PROVE mapped = <<>>
    BY DEF Log!Init
  <2>1. \A g \in Generations : ~Complete(g)
    BY StoreAssumption DEF Init, Complete
  <2>2. Newest = 0
    BY <2>1, NewestIs, StoreAssumption DEF Generations
  <2>3. entries = <<>>
    BY <2>2
  <2> QED
    BY <2>3
<1>2. ASSUME Sound => LogInv, [Next]_vars PROVE [Log!Next]_mapped
  <2>1. Sound' <=> Sound
    BY <1>2, SoundKept
  <2>2. CASE ~Sound
    BY <2>1, <2>2
  <2>3. CASE Sound
    <3>0. /\ StoreInv /\ Newest \in 0..MaxGeneration /\ MaxGeneration \in Nat
          /\ archives \in [Generations -> Objects] /\ archives' \in [Generations -> Objects]
      BY <1>2, <2>3, NewestIs, StoreNext, StoreAssumption DEF LogInv, StoreInv, StoreTypeOK
    <3>1. CASE Newest' = Newest /\ \A g \in 1..Newest : archives'[g] = archives[g]
      <4>1. entries' = entries
        BY <3>1
      <4> QED
        BY <2>1, <4>1
    <3>2. CASE /\ Newest' = Newest + 1 /\ archives'[Newest + 1] \in Contents
               /\ \A g \in 1..Newest : archives'[g] = archives[g]
      <4> DEFINE n == Newest
                 v == archives'[n + 1]
      <4>1. entries \in Seq(Objects) /\ Len(entries) = n
        BY <3>0 DEF Generations
      <4>2. v \in Contents /\ v \in Objects
        BY <3>2 DEF Objects
      <4>3. entries' = [g \in 1..n + 1 |-> archives'[g]]
        BY <3>2
      <4>4. entries' = Append(entries, v)
        BY <3>0, <3>2, <4>1, <4>2, <4>3
      <4>5. mapped' = Append(mapped, v)
        <5> HIDE DEF entries, v
        <5> QED
          BY <2>1, <2>3, <4>4
      <4> QED
        BY <4>2, <4>5 DEF Log!Next, Log!Commit
    <3> QED
      BY <1>2, <2>3, <3>1, <3>2, NewestStep
  <2> QED
    BY <2>2, <2>3
<1> QED
  BY <1>1, <1>2, LogInvariance, PTL DEF Spec, LogSpec, Log!Spec

----------------------------------------------------------------------------
\* The generation that the daemon goes by, with one committer and failed opens

\* What the only goroutine that commits has read is what is there, and it writes
\* after the generation it knows.
CommitterOK(k) == ReadOK(k) /\ RecordOK(k) /\ (k.op = "commit" => k.base = known)

KnownInv ==
    /\ StoreInv
    /\ KnownComplete
    /\ \A c \in Clients : c \in Committers => CommitterOK(calls[c])

\* A step of c that changes no object.
LEMMA KnownStep ==
    ASSUME KnownInv, StoreInv', UNCHANGED <<setup, archives, manifests>>,
           NEW c \in Clients, NEW k, GoesOn(c, k),
           c \notin Committers => known' = known,
           c \in Committers => Exclusive /\ CommitterOK(k)' /\ (known' \in {0, known} \/ Complete(known'))
    PROVE  KnownInv'
<1>0. StoreInv /\ (Committers' = Committers)
  BY DEF KnownInv, Committers
<1>1. calls'[c] = k /\ \A d \in Clients : d # c => calls'[d] = calls[d]
  BY <1>0, CallStep DEF GoesOn
<1>2. \A g : Complete(g)' <=> Complete(g)
  BY DEF Complete
<1>3. KnownComplete'
  BY <1>2 DEF KnownInv, KnownComplete
<1>4. ASSUME NEW d \in Clients, d \in Committers PROVE CommitterOK(calls[d])'
  <2>1. CASE d = c
    BY <1>1, <1>4, <2>1
  <2>2. CASE d # c
    <3>1. c \notin Committers
      BY <1>4, <2>2 DEF Exclusive
    <3> PICK s : s = calls[d]
      OBVIOUS
    <3>2. CommitterOK(s)
      BY <1>4 DEF KnownInv
    <3>3. CommitterOK(s)'
      BY <1>2, <3>1, <3>2 DEF CommitterOK, ReadOK, RecordOK
    <3> QED
      BY <1>1, <2>2, <3>3
  <2> QED
    BY <2>1, <2>2
<1> QED
  BY <1>0, <1>3, <1>4 DEF KnownInv

\* No call: nothing read.
LEMMA NowhereKnown == CommitterOK(NoCall)'
<1>1. NoCall.pc = "idle" /\ NoCall.op = "none"
  BY DEF NoCall
<1> QED
  BY <1>1 DEF CommitterOK, ReadOK, RecordOK

\* Head of the only committer.
LEMMA KnownHead ==
    ASSUME Exclusive, KnownInv, StoreInv', UNCHANGED setup, NEW c \in Clients, ReadHead(c)
    PROVE  KnownInv'
<1> PICK s, m : s = calls[c] /\ m = Key(c)
  OBVIOUS
<1>0. StoreInv /\ StoreTypeOK /\ (c \in Committers => CommitterOK(s))
  BY DEF KnownInv, StoreInv
<1>1. s \in CallType /\ CallOK(c, s) /\ s.keys \subseteq Generations
  BY <1>0, CallTypes
<1>2. s.keys # {} => m = Max(s.keys) /\ m \in s.keys /\ m \in Generations
  BY <1>0, LastKey
<1>3. CASE HeadList(c)
  <2>1. PICK k : /\ GoesOn(c, k)
                 /\ \/ k = NoCall
                    \/ /\ k.pc = "manifest" /\ k.op = s.op /\ k.base = s.base
                       /\ k.keys = {g \in Generations : manifests[g] # Absent}
    BY <1>0, <1>3, ListStep
  <2>2. UNCHANGED <<archives, manifests, known>>
    BY <1>3 DEF HeadList
  <2>3. c \in Committers => CommitterOK(k)'
    BY <1>0, <2>1, <2>2, NowhereKnown DEF CommitterOK, ReadOK, RecordOK
  <2> QED
    BY <2>1, <2>2, <2>3, KnownStep
<1>4. CASE HeadManifest(c)
  <2>1. UNCHANGED <<archives, manifests, known>> /\ s.pc = "manifest"
    BY <1>4 DEF HeadManifest
  <2>2. PICK k : /\ GoesOn(c, k)
                 /\ \/ k = NoCall
                    \/ s.op = "commit" /\ k = [s EXCEPT !.pc = "putArchive"]
                    \/ /\ s.keys # {} /\ Decodable(c)
                       /\ k = [s EXCEPT !.pc = "archive", !.seen = manifests[m]]
                    \/ k = [s EXCEPT !.pc = "manifest", !.keys = s.keys \ {m}]
    BY <1>0, <1>4, ManifestStep
  <2>3. ASSUME c \in Committers PROVE CommitterOK(k)'
    <3>0. /\ \A g \in s.keys : manifests[g] # Absent
          /\ s.op = "commit" => s.base = known
      BY <1>0, <2>1, <2>3 DEF CommitterOK, ReadOK
    <3>1. CASE k = NoCall
      BY <3>1, NowhereKnown
    <3>2. CASE s.op = "commit" /\ k = [s EXCEPT !.pc = "putArchive"]
      <4>1. k.pc = "putArchive" /\ k.base = s.base
        BY <1>1, <3>2 DEF CallType
      <4> QED
        BY <2>1, <3>0, <3>2, <4>1 DEF CommitterOK, ReadOK, RecordOK
    <3>3. CASE s.keys # {} /\ Decodable(c) /\ k = [s EXCEPT !.pc = "archive", !.seen = manifests[m]]
      <4>1. /\ k.pc = "archive" /\ k.seen = manifests[m] /\ k.keys = s.keys /\ k.base = s.base
            /\ k.op = s.op
        BY <1>1, <3>3 DEF CallType
      <4>2. manifests[m] \in Contents
        BY <1>0, <1>2, <3>0, <3>3 DEF Decodable, StoreTypeOK, Objects
      <4> QED
        BY <1>2, <2>1, <3>0, <3>3, <4>1, <4>2 DEF CommitterOK, ReadOK, RecordOK
    <3>4. CASE k = [s EXCEPT !.pc = "manifest", !.keys = s.keys \ {m}]
      <4>1. k.pc = "manifest" /\ k.keys = s.keys \ {m} /\ k.base = s.base /\ k.op = s.op
        BY <1>1, <3>4 DEF CallType
      <4> QED
        BY <2>1, <3>0, <4>1 DEF CommitterOK, ReadOK, RecordOK
    <3> QED
      BY <2>2, <3>1, <3>2, <3>3, <3>4
  <2> QED
    BY <2>1, <2>2, <2>3, KnownStep
<1>5. CASE HeadArchive(c)
  <2>1. UNCHANGED <<archives, manifests, known>> /\ s.pc = "archive" /\ s.keys # {}
    BY <1>0, <1>5, ArchiveStep DEF HeadArchive
  <2>2. PICK k : /\ GoesOn(c, k)
                 /\ \/ k = NoCall
                    \/ s.op = "restore" /\ k = [s EXCEPT !.pc = "unpack"]
                    \/ s.op = "commit" /\ k = [s EXCEPT !.pc = "putArchive"]
                    \/ Intact(c) /\ k = [s EXCEPT !.pc = "record", !.base = m]
                    \/ k = [s EXCEPT !.pc = "manifest", !.keys = s.keys \ {m}]
    BY <1>0, <1>5, ArchiveStep
  <2>3. ASSUME c \in Committers PROVE CommitterOK(k)'
    <3>0. /\ \A g \in s.keys : manifests[g] # Absent
          /\ s.op = "commit" => s.base = known
          /\ s.seen \in Contents /\ s.seen = manifests[m]
      BY <1>0, <1>2, <2>1, <2>3 DEF CommitterOK, ReadOK
    <3>1. CASE k = NoCall
      BY <3>1, NowhereKnown
    <3>2. CASE s.op = "commit" /\ k = [s EXCEPT !.pc = "putArchive"]
      <4>1. k.pc = "putArchive" /\ k.base = s.base
        BY <1>1, <3>2 DEF CallType
      <4> QED
        BY <2>1, <3>0, <3>2, <4>1 DEF CommitterOK, ReadOK, RecordOK
    <3>3. CASE s.op = "restore" /\ k = [s EXCEPT !.pc = "unpack"]
      <4>1. k.pc = "unpack" /\ k.op = "restore"
        BY <1>1, <3>3 DEF CallType
      <4> QED
        BY <4>1 DEF CommitterOK, ReadOK, RecordOK
    <3>4. CASE Intact(c) /\ k = [s EXCEPT !.pc = "record", !.base = m]
      <4>1. k.pc = "record" /\ k.base = m /\ k.op = s.op
        BY <1>1, <3>4 DEF CallType
      <4>2. k.op # "commit"
        BY <2>2, <4>1 DEF GoesOn, CallOK
      <4>3. Complete(m)'
        BY <2>1, <3>0, <3>4 DEF Complete, Intact
      <4> QED
        BY <4>1, <4>2, <4>3 DEF CommitterOK, ReadOK, RecordOK
    <3>5. CASE k = [s EXCEPT !.pc = "manifest", !.keys = s.keys \ {m}]
      <4>1. k.pc = "manifest" /\ k.keys = s.keys \ {m} /\ k.base = s.base /\ k.op = s.op
        BY <1>1, <3>5 DEF CallType
      <4> QED
        BY <2>1, <3>0, <4>1 DEF CommitterOK, ReadOK, RecordOK
    <3> QED
      BY <2>2, <3>1, <3>2, <3>3, <3>4, <3>5
  <2> QED
    BY <2>1, <2>2, <2>3, KnownStep
<1>6. CASE Record(c)
  <2>1. /\ UNCHANGED <<archives, manifests>> /\ known' = s.base /\ s.pc = "record" /\ GoesOn(c, NoCall)
        /\ c \in Committers
    BY <1>0, <1>6, RecordStep DEF Record
  <2>2. Complete(known')
    BY <1>0, <2>1 DEF CommitterOK, RecordOK
  <2> QED
    BY <2>1, <2>2, NowhereKnown, KnownStep
<1> QED
  BY <1>3, <1>4, <1>5, <1>6 DEF ReadHead

\* The only committer writes nothing but the generation after the one it knows.
LEMMA KnownCommit ==
    ASSUME Exclusive, KnownInv, StoreInv', UNCHANGED setup, NEW c \in Clients, Commit(c)
    PROVE  KnownInv'
<1> PICK s, t : s = calls[c] /\ t = Target(c)
  OBVIOUS
<1>0. /\ StoreInv /\ archives \in [Generations -> Objects] /\ manifests \in [Generations -> Objects]
      /\ Committers' = Committers
  BY DEF KnownInv, StoreInv, StoreTypeOK, Committers
<1>1. s.pc \in Writing
  BY DEF Commit, PutArchive, Upload, PutManifest, UploadManifest, Writing
<1>2. /\ c \in Committers /\ t \in Generations /\ t = s.base + 1 /\ s.op = "commit"
      /\ s \in CallType /\ s.base \in 0..MaxGeneration
  BY <1>0, <1>1, WritesTarget
<1>3. s.base = known
  BY <1>2 DEF KnownInv, CommitterOK
<1>4. /\ known' = known
      /\ \A g \in Generations : g # t => archives'[g] = archives[g] /\ manifests'[g] = manifests[g]
  <2>1. CASE PutArchive(c)
    BY <1>0, <2>1 DEF PutArchive
  <2>2. CASE Upload(c)
    BY <1>0, <2>2 DEF Upload
  <2>3. CASE PutManifest(c)
    BY <1>0, <2>3 DEF PutManifest
  <2>4. CASE UploadManifest(c)
    BY <1>0, <2>4 DEF UploadManifest, ManifestSent
  <2> QED
    BY <2>1, <2>2, <2>3, <2>4 DEF Commit
<1>5. PICK k : /\ GoesOn(c, k)
               /\ k.pc \in Writing \cup {"idle", "list"}
               /\ k.op = "commit" => k.base = s.base
  <2>1. CASE PutArchive(c)
    <3> DEFINE k == [s EXCEPT !.pc = "upload", !.content = dest]
    <3>1. k.pc \in Writing /\ k.base = s.base
      BY <1>2 DEF CallType, Writing
    <3> QED
      BY <1>0, <2>1, <3>1, PutArchiveStep
  <2>2. CASE Upload(c)
    <3> DEFINE k == [s EXCEPT !.pc = "putManifest"]
    <3>1. k.pc \in Writing /\ k.base = s.base /\ NoCall.pc = "idle" /\ NoCall.op = "none"
      BY <1>2 DEF CallType, Writing, NoCall
    <3> HIDE DEF k
    <3>2. GoesOn(c, NoCall) \/ GoesOn(c, k)
      BY <1>0, <2>2, UploadStep DEF k
    <3> QED
      BY <3>1, <3>2
  <2>3. CASE PutManifest(c)
    <3> DEFINE k == [s EXCEPT !.pc = "uploadManifest"]
    <3>1. k.pc \in Writing /\ k.base = s.base
      BY <1>2 DEF CallType, Writing
    <3> QED
      BY <1>0, <2>3, <3>1, PutManifestStep
  <2>4. CASE UploadManifest(c)
    BY <1>0, <2>4, UploadManifestStep
  <2> QED
    BY <2>1, <2>2, <2>3, <2>4 DEF Commit
<1>6. calls'[c] = k /\ \A d \in Clients : d # c => calls'[d] = calls[d]
  BY <1>0, <1>5, CallStep DEF GoesOn
<1>7. CommitterOK(k)'
  BY <1>3, <1>4, <1>5 DEF CommitterOK, ReadOK, RecordOK, Writing
<1>8. KnownComplete'
  <2>1. known > 0 => known \in Generations /\ known # t
    BY <1>2, <1>3, StoreAssumption DEF Generations
  <2> QED
    BY <1>4, <2>1 DEF KnownInv, KnownComplete, Complete
<1>9. \A d \in Clients : d \in Committers => d = c
  BY <1>2 DEF Exclusive
<1> QED
  BY <1>0, <1>6, <1>7, <1>8, <1>9 DEF KnownInv

\* The objects and the generation stay as they are, the calls too or all are gone.
LEMMA KnownKept ==
    ASSUME KnownInv, StoreInv', UNCHANGED <<setup, archives, manifests, known>>,
           \A d \in Clients : calls'[d] \in {calls[d], NoCall}
    PROVE  KnownInv'
<1>1. \A g : Complete(g)' <=> Complete(g)
  BY DEF Complete
<1>2. ASSUME NEW d \in Clients, d \in Committers PROVE CommitterOK(calls[d])'
  <2> PICK s : s = calls[d]
    OBVIOUS
  <2>1. CommitterOK(s)'
    BY <1>1, <1>2 DEF KnownInv, CommitterOK, ReadOK, RecordOK
  <2>2. calls'[d] = s \/ calls'[d] = NoCall
    OBVIOUS
  <2> QED
    BY <2>1, <2>2, NowhereKnown
<1>3. KnownComplete'
  BY <1>1 DEF KnownInv, KnownComplete
<1> QED
  BY <1>2, <1>3 DEF KnownInv, Committers

\* Every step of an exclusive setup keeps the known generation complete.
LEMMA KnownNext == Exclusive /\ KnownInv /\ [Next]_vars => KnownInv'
<1> SUFFICES ASSUME Exclusive, KnownInv, [Next]_vars PROVE KnownInv'
  OBVIOUS
<1>0. StoreInv /\ StoreInv' /\ UNCHANGED setup
  BY StoreNext, SetupKept DEF KnownInv
<1>1. CASE UNCHANGED vars
  BY <1>0, <1>1, KnownKept DEF vars
<1>2. ASSUME NEW c \in Clients, CallHead(c) \/ CallCommit(c) \/ CallRestore(c) PROVE KnownInv'
  <2>1. PICK k : GoesOn(c, k) /\ k.pc = "list" /\ (k.op = "commit" => k.base = known)
    BY <1>0, <1>2, CallStarts
  <2>2. /\ UNCHANGED <<archives, manifests>>
        /\ known' \in {0, known} /\ (c \notin Committers => known' = known)
    BY <1>0, <1>2, CallStarts
  <2>3. k.op = "commit" => known' = known
    <3>1. CASE CallHead(c)
      <4>1. calls'[c].op = "head"
        BY <1>0, <3>1 DEF CallHead, StoreInv, StoreTypeOK, CallType, NoCall
      <4>2. calls'[c] = k
        BY <1>0, <2>1, CallStep DEF GoesOn
      <4> QED
        BY <4>1, <4>2
    <3>2. CASE CallCommit(c) \/ CallRestore(c)
      BY <3>2 DEF CallCommit, CallRestore
    <3> QED
      BY <1>2, <3>1, <3>2
  <2>4. CommitterOK(k)'
    BY <2>1, <2>3 DEF CommitterOK, ReadOK, RecordOK
  <2> QED
    BY <1>0, <2>1, <2>2, <2>4, KnownStep
<1>3. ASSUME NEW c \in Clients, ReadHead(c) PROVE KnownInv'
  BY <1>0, <1>3, KnownHead
<1>4. ASSUME NEW c \in Clients, Commit(c) PROVE KnownInv'
  BY <1>0, <1>4, KnownCommit
<1>5. ASSUME NEW c \in Clients, Restore(c) PROVE KnownInv'
  <2>1. UNCHANGED <<archives, manifests, known>>
    BY <1>0, <1>5, RestoreStep
  <2>2. PICK k : GoesOn(c, k) /\ (k = NoCall \/ k.pc \in Restoring)
    BY <1>0, <1>5, RestoreStep
  <2>3. CommitterOK(k)'
    <3>1. k.pc \in Restoring => k.op = "restore"
      BY <2>2 DEF GoesOn, CallOK
    <3> QED
      BY <2>2, <3>1, NowhereKnown DEF CommitterOK, ReadOK, RecordOK, Restoring
  <2> QED
    BY <1>0, <2>1, <2>2, <2>3, KnownStep
<1>6. CASE Play \/ Remove
  BY <1>0, <1>6, KnownKept DEF Play, Remove
<1>7. CASE Crash
  BY <1>0, <1>7, KnownKept DEF Crash
<1> QED
  BY <1>1, <1>2, <1>3, <1>4, <1>5, <1>6, <1>7 DEF Next

\* The generation that the daemon goes by is complete.
LEMMA KnownInit == Init => KnownInv
<1> SUFFICES ASSUME Init PROVE KnownInv
  OBVIOUS
<1>1. LogInv
  BY LogInit
<1>2. \A c \in Clients : calls[c] = NoCall
  BY DEF Init
<1>3. NoCall.op = "none"
  BY DEF NoCall
<1> QED
  BY <1>1, <1>2, <1>3 DEF KnownInv, LogInv, CallLog, CommitterOK

\* The generation the daemon goes by can be restored (KnownExists): with commits
\* that overlap over a backend that puts objects at once, and with one at a time
\* over any backend and with any faults, objects that cannot be opened among them.
THEOREM KnownCanBeRestored == Spec => []KnownExists
<1>1. Spec => [](Exclusive => KnownInv)
  BY KnownInit, KnownNext, SoundKept, PTL DEF Spec
<1>2. StoreInv /\ (Sound => LogInv) /\ (Exclusive => KnownInv) => KnownExists
  BY StoreAssumption DEF LogInv, KnownInv, KnownComplete, KnownExists, StoreInv, StoreTypeOK
<1> QED
  BY <1>1, <1>2, LogInvariance, StoreInvariance, PTL
=============================================================================
