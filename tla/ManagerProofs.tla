--------------------------- MODULE ManagerProofs ---------------------------
(***************************************************************************)
(* Proofs about the lifecycle manager, for every set of packs and every    *)
(* value of the other constants. Where a theorem excludes some of the      *)
(* faults it says so (Calm, Separate, Durable), and why.                   *)
(***************************************************************************)
EXTENDS Manager, TLAPS

----------------------------------------------------------------------------
\* The inductive invariant

\* Beyond its type: a running start() or a Java process belongs to a pack, and
\* from launcher.Start until m.process is set the process is there.
Attempt ==
    {r \in AttemptType :
        /\ r.pc # "idle" \/ r.java # "none" => r.id \in Packs
        /\ r.pc = "publish" => r.java # "none"}

AttOK == att \in [Attempts -> Attempt]

\* A drain that passed the comparison with the head works for a pack, and a
\* switch was asked for by a login to a pack.
ForPack == {"archive", "record", "evict", "evicting"}

DrainOK ==
    /\ drain \in [Drains -> DrainType]
    /\ \A d \in Drains : drain[d].pc \in ForPack => drain[d].id \in Packs
    /\ drain["switch"].pc # "idle" => drain["switch"].caller \in Packs

\* The generation that a drain committed is in the store.
Committed == {"record", "evict", "evicting"}

Backed == \A d \in Drains : drain[d].pc \in Committed => hgen[drain[d].id] > drain[d].gen

TickOK == tick \in TickType

IndInv ==
    /\ PersistedOK /\ MemOK /\ AttOK /\ DrainOK /\ TickOK /\ ConnOK /\ WorldOK /\ FlyOK
    /\ Backed /\ ProcessTracked

USE ManagerAssumption

----------------------------------------------------------------------------
\* Records

\* The literals the code starts from have their types.
LEMMA Constructors ==
    /\ IdleState \in States
    /\ \A id \in Packs : LoadingState(id) \in States
    /\ NoAttempt \in Attempt
    /\ NoDrain \in DrainType
    /\ NoTick \in TickType
<1>1. IdleState \in States
  BY DEF IdleState, States, Phases, Ages
<1>2. \A id \in Packs : LoadingState(id) \in States
  BY <1>1 DEF LoadingState, States, Phases
<1>3. NoAttempt \in Attempt
  BY DEF NoAttempt, Attempt, AttemptType, StartPCs, JavaStates
<1>4. NoDrain \in DrainType
  BY DEF NoDrain, DrainType, DrainPCs
<1>5. NoTick \in TickType
  BY DEF NoTick, TickType
<1> QED BY <1>1, <1>2, <1>3, <1>4, <1>5

\* Every field the code assigns in m.state keeps its type.
LEMMA StateEdits ==
    ASSUME NEW s \in States
    PROVE  /\ \A ph \in Phases : [s EXCEPT !.phase = ph] \in States
           /\ \A id \in Packs \cup {None} :
                 [s EXCEPT !.phase = "Failed", !.active = id] \in States
           /\ \A e \in Ages : [s EXCEPT !.empty = e] \in States
           /\ \A g \in Nat, b \in BOOLEAN : [s EXCEPT !.gen = g, !.pending = b] \in States
           /\ [s EXCEPT !.pending = TRUE] \in States
BY DEF States, Phases

\* Every change of a start() record keeps it a record of a pack.
LEMMA AttemptEdits ==
    ASSUME NEW r \in Attempt
    PROVE  /\ \A pc \in StartPCs \ {"idle", "publish"} :
                 r.pc # "idle" => [r EXCEPT !.pc = pc] \in Attempt
           /\ \A j \in JavaStates \ {"none"} : r.java # "none" => [r EXCEPT !.java = j] \in Attempt
           /\ Returned(r) \in Attempt
           /\ Killed(r) \in Attempt
<1>1. ASSUME NEW pc \in StartPCs \ {"idle", "publish"}, r.pc # "idle"
      PROVE  [r EXCEPT !.pc = pc] \in Attempt
  BY <1>1 DEF Attempt, AttemptType
<1>2. ASSUME NEW j \in JavaStates \ {"none"}, r.java # "none"
      PROVE  [r EXCEPT !.java = j] \in Attempt
  BY <1>2 DEF Attempt, AttemptType
<1>3. Returned(r) \in Attempt
  <2>1. CASE r.java = "none"
    BY <2>1, Constructors DEF Returned
  <2>2. CASE r.java # "none"
    <3> DEFINE q == [r EXCEPT !.pc = "idle", !.recovery = FALSE, !.head = 0]
    <3>1. q \in AttemptType
      BY DEF Attempt, AttemptType, StartPCs
    <3>2. q.pc = "idle" /\ q.id = r.id /\ r.id \in Packs
      BY <2>2 DEF Attempt, AttemptType
    <3>3. Returned(r) = q
      BY <2>2 DEF Returned
    <3> HIDE DEF q
    <3> QED
      BY <3>1, <3>2, <3>3 DEF Attempt
  <2> QED BY <2>1, <2>2
<1>4. Killed(r) \in Attempt
  <2>1. CASE r.java \in LiveJava
    <3>1. r.java # "none" /\ "killed" \in JavaStates \ {"none"}
      BY <2>1 DEF LiveJava, JavaStates
    <3> QED BY <2>1, <3>1, <1>2 DEF Killed
  <2>2. CASE r.java \notin LiveJava
    BY <2>2 DEF Killed
  <2> QED BY <2>1, <2>2
<1> QED BY <1>1, <1>2, <1>3, <1>4

\* stateFile.Save, failed or not, leaves a State in memory and on disk.
LEMMA SaveOK ==
    ASSUME PersistedOK, NEW s \in States, Save(s)
    PROVE  PersistedOK'
BY DEF PersistedOK, Save, Fault

\* Counting a fault stays within the bound.
LEMMA FaultOK ==
    ASSUME NEW kind, faults \in 0 .. MaxFaults, Fault(kind)
    PROVE  faults' \in 0 .. MaxFaults
BY DEF Fault

----------------------------------------------------------------------------
\* Initially

\* The first boot satisfies the invariant.
LEMMA InitInv == Init => IndInv
<1> SUFFICES ASSUME Init PROVE IndInv
  OBVIOUS
<1>1. PersistedOK
  BY Constructors DEF Init, PersistedOK
<1>2. MemOK /\ ConnOK /\ FlyOK
  BY DEF Init, MemOK, ConnOK, FlyOK, Sizes
<1>3. WorldOK
  BY DEF Init, WorldOK, LocalCopy, HeadCopy
<1>4. AttOK
  BY Constructors DEF Init, AttOK
<1>5. DrainOK /\ Backed
  BY Constructors DEF Init, DrainOK, Backed, Drains, NoDrain, ForPack, Committed
<1>6. TickOK
  BY Constructors DEF Init, TickOK
<1>7. ProcessTracked
  BY DEF Init, ProcessTracked
<1> QED BY <1>1, <1>2, <1>3, <1>4, <1>5, <1>6, <1>7 DEF IndInv

----------------------------------------------------------------------------
\* The daemon

\* The end of the process, however it comes about, resets all but the state
\* file, the volume and the store.
LEMMA HaltOK ==
    ASSUME IndInv, Halt
    PROVE  /\ MemOK' /\ AttOK' /\ DrainOK' /\ TickOK' /\ ConnOK' /\ WorldOK' /\ FlyOK'
           /\ Backed' /\ ProcessTracked'
<1>1. MemOK' /\ ConnOK' /\ FlyOK' /\ WorldOK'
  BY DEF IndInv, Halt, MemOK, ConnOK, FlyOK, WorldOK, world
<1>2. AttOK' /\ TickOK' /\ ProcessTracked'
  BY Constructors DEF Halt, AttOK, TickOK, ProcessTracked
<1>3. DrainOK' /\ Backed'
  BY Constructors DEF Halt, DrainOK, Backed, Drains, NoDrain, ForPack, Committed
<1> QED BY <1>1, <1>2, <1>3

\* go m.start(id, recovery) takes an attempt that no process belongs to.
LEMMA GoStartOK ==
    ASSUME IndInv, NEW id \in Packs, NEW recovery \in BOOLEAN, GoStart(id, recovery),
           UNCHANGED process
    PROVE  AttOK' /\ ProcessTracked'
<1> DEFINE new == [NoAttempt EXCEPT !.pc = "resize", !.id = id, !.recovery = recovery]
<1>1. PICK a \in FreeAttempts : att' = [att EXCEPT ![a] = new]
  BY DEF GoStart
<1>2. new \in Attempt
  BY DEF NoAttempt, Attempt, AttemptType, StartPCs, JavaStates
<1>3. a \in Attempts /\ att[a].java = "none"
  BY <1>1 DEF FreeAttempts, NoAttempt
<1>4. AttOK'
  BY <1>1, <1>2, <1>3 DEF IndInv, AttOK
<1>5. ProcessTracked'
  BY <1>1, <1>3 DEF IndInv, ProcessTracked, AttOK, MemOK
<1> QED BY <1>4, <1>5

\* What an action leaves alone keeps its part of the invariant.
LEMMA Frames ==
    ASSUME IndInv
    PROVE  /\ UNCHANGED persisted => PersistedOK'
           /\ UNCHANGED mem => MemOK'
           /\ UNCHANGED att => AttOK'
           /\ UNCHANGED drain => DrainOK'
           /\ UNCHANGED tick => TickOK'
           /\ UNCHANGED conn => ConnOK'
           /\ UNCHANGED world => WorldOK'
           /\ UNCHANGED fly => FlyOK'
           /\ UNCHANGED <<drain, hgen>> => Backed'
           /\ UNCHANGED <<process, att>> => ProcessTracked'
BY DEF IndInv, persisted, mem, conn, world, fly, PersistedOK, MemOK, AttOK, DrainOK, TickOK,
       ConnOK, WorldOK, FlyOK, Backed, ProcessTracked

\* NewManager.
LEMMA BootInv == IndInv /\ Boot => IndInv'
<1> SUFFICES ASSUME IndInv, Boot PROVE IndInv'
  OBVIOUS
<1> USE DEF Boot, Interrupted
<1>1. PersistedOK' /\ AttOK' /\ ProcessTracked'
  <2>1. CASE disk.phase # "Idle" /\ disk.active # None
    <3>1. disk.active \in Packs /\ [disk EXCEPT !.phase = "Recovering"] \in States
      <4>1. disk \in States
        BY DEF IndInv, PersistedOK
      <4>2. disk.active \in Packs
        BY <2>1, <4>1 DEF States
      <4>3. "Recovering" \in Phases
        BY DEF Phases
      <4> QED BY <4>1, <4>2, <4>3, StateEdits
    <3>2. /\ Save([disk EXCEPT !.phase = "Recovering"])
          /\ GoStart(disk.active, TRUE) /\ UNCHANGED process
      BY <2>1
    <3>3. PersistedOK'
      BY <3>1, <3>2, SaveOK DEF IndInv
    <3>4. AttOK' /\ ProcessTracked'
      BY <3>1, <3>2, GoStartOK
    <3> QED BY <3>3, <3>4
  <2>2. CASE ~ (disk.phase # "Idle" /\ disk.active # None)
    BY <2>2 DEF IndInv, PersistedOK, AttOK, ProcessTracked
  <2> QED BY <2>1, <2>2
<1>2. MemOK'
  BY DEF IndInv, MemOK
<1>3. DrainOK' /\ TickOK' /\ ConnOK' /\ WorldOK' /\ FlyOK' /\ Backed'
  BY Frames DEF world
<1> QED BY <1>1, <1>2, <1>3 DEF IndInv

\* serve() and Shutdown(), crashes and reboots.
LEMMA MainInv == IndInv /\ (Main \/ Crash \/ Reboot) => IndInv'
<1> SUFFICES ASSUME IndInv, Main \/ Crash \/ Reboot PROVE IndInv'
  OBVIOUS
<1>1. CASE StopServing
  <2>1. PersistedOK'
    BY <1>1, FaultOK DEF IndInv, StopServing, PersistedOK
  <2>2. MemOK'
    BY <1>1 DEF IndInv, StopServing, MemOK
  <2>3. AttOK' /\ DrainOK' /\ TickOK' /\ ConnOK' /\ WorldOK' /\ FlyOK' /\ Backed'
        /\ ProcessTracked'
    BY <1>1, Frames DEF StopServing, world
  <2> QED BY <2>1, <2>2, <2>3 DEF IndInv
<1>2. CASE ShutdownNothing
  <2>1. PersistedOK'
    BY <1>2 DEF IndInv, ShutdownNothing, PersistedOK
  <2> QED BY <1>2, <2>1, HaltOK DEF IndInv, ShutdownNothing
<1>3. CASE ShutdownBegin
  <2>1. PersistedOK'
    BY <1>3, SaveOK, StateEdits DEF IndInv, ShutdownBegin, PersistedOK, Phases
  <2>2. DrainOK' /\ Backed'
    BY <1>3 DEF IndInv, ShutdownBegin, DrainOK, Backed, Drains, DrainType, DrainPCs, ForPack,
                Committed, world
  <2>3. MemOK'
    BY <1>3 DEF IndInv, ShutdownBegin, MemOK
  <2>4. AttOK' /\ TickOK' /\ ConnOK' /\ WorldOK' /\ FlyOK' /\ ProcessTracked'
    BY <1>3, Frames DEF ShutdownBegin
  <2> QED BY <2>1, <2>2, <2>3, <2>4 DEF IndInv
<1>4. CASE Crash
  <2>1. PersistedOK'
    BY <1>4, FaultOK DEF IndInv, Crash, PersistedOK
  <2> QED BY <1>4, <2>1, HaltOK DEF IndInv, Crash
<1>5. CASE Reboot
  <2>1. PersistedOK'
    BY <1>5 DEF IndInv, Reboot, PersistedOK
  <2> QED BY <1>5, <2>1, HaltOK DEF IndInv, Reboot
<1> QED BY <1>1, <1>2, <1>3, <1>4, <1>5 DEF Main
----------------------------------------------------------------------------
\* Logins, players and the passage of time

\* Ensure(), by its cases.
LEMMA LoginInv == IndInv /\ (\E id \in Packs : Ensure(id)) => IndInv'
<1> SUFFICES ASSUME IndInv, NEW id \in Packs, Ensure(id) PROVE IndInv'
  OBVIOUS
<1>1. CASE EnsureIdle(id)
  <2>1. PersistedOK'
    BY <1>1, SaveOK, Constructors DEF IndInv, EnsureIdle
  <2>2. AttOK' /\ ProcessTracked'
    BY <1>1, GoStartOK DEF EnsureIdle, mem
  <2>3. ConnOK'
    BY <1>1 DEF IndInv, EnsureIdle, Login, ConnOK
  <2>4. MemOK' /\ DrainOK' /\ TickOK' /\ WorldOK' /\ FlyOK' /\ Backed'
    BY <1>1, Frames DEF EnsureIdle, world
  <2> QED BY <2>1, <2>2, <2>3, <2>4 DEF IndInv
<1>2. CASE EnsureRetry(id)
  <2>1. PersistedOK'
    BY <1>2, SaveOK, StateEdits DEF IndInv, EnsureRetry, PersistedOK, Phases
  <2>2. AttOK' /\ ProcessTracked'
    BY <1>2, GoStartOK DEF EnsureRetry, mem
  <2>3. ConnOK'
    BY <1>2 DEF IndInv, EnsureRetry, Login, ConnOK
  <2>4. MemOK' /\ DrainOK' /\ TickOK' /\ WorldOK' /\ FlyOK' /\ Backed'
    BY <1>2, Frames DEF EnsureRetry, world
  <2> QED BY <2>1, <2>2, <2>3, <2>4 DEF IndInv
<1>3. CASE EnsureReady(id) \/ EnsureRefused(id)
  <2>1. ConnOK'
    BY <1>3 DEF IndInv, EnsureReady, EnsureRefused, Login, ConnOK
  <2>2. UNCHANGED <<persisted, mem, att, drain, tick, world, fly>>
    BY <1>3 DEF EnsureReady, EnsureRefused
  <2> QED BY <2>1, <2>2, Frames DEF IndInv, mem, world
<1>4. CASE EnsureSwitch(id)
  <2>1. DrainOK' /\ Backed'
    BY <1>4 DEF IndInv, EnsureSwitch, DrainOK, Backed, Drains, DrainType, DrainPCs, NoDrain,
                ForPack, Committed, world
  <2>2. ConnOK'
    BY <1>4 DEF IndInv, EnsureSwitch, Login, ConnOK
  <2>3. UNCHANGED <<persisted, mem, att, tick, world, fly>>
    BY <1>4 DEF EnsureSwitch
  <2> QED BY <2>1, <2>2, <2>3, Frames DEF IndInv, mem
<1> QED BY <1>1, <1>2, <1>3, <1>4 DEF Ensure

\* Handlers and the dashboard touch only the connection variables.
LEMMA PlayersInv == IndInv /\ (Connect \/ Leave \/ Touch \/ Quiesce) => IndInv'
<1> SUFFICES ASSUME IndInv, Connect \/ Leave \/ Touch \/ Quiesce PROVE IndInv'
  OBVIOUS
<1>1. ConnOK'
  BY DEF IndInv, Connect, Leave, Touch, Quiesce, ConnOK
<1>2. UNCHANGED <<persisted, mem, att, drain, tick, world, fly>>
  BY DEF Connect, Leave, Touch, Quiesce
<1> QED BY <1>1, <1>2, Frames DEF IndInv, mem, world

\* An age that grows stays within the largest threshold.
LEMMA ElapseInv == IndInv /\ Elapse => IndInv'
<1> SUFFICES ASSUME IndInv, Elapse PROVE IndInv'
  OBVIOUS
<1>1. ASSUME NEW s \in States PROVE Older(s) \in States
  BY <1>1 DEF Older, States, Ages
<1>2. PersistedOK'
  BY <1>1 DEF IndInv, Elapse, PersistedOK
<1>3. UNCHANGED <<mem, att, drain, tick, conn, world, fly>>
  BY DEF Elapse
<1> QED BY <1>2, <1>3, Frames DEF IndInv, mem, world

----------------------------------------------------------------------------
\* start()

\* A step of start(a) that moves its program counter or returns.
LEMMA StartMoves ==
    ASSUME IndInv, NEW a \in Attempts, UNCHANGED process,
           \/ \E pc \in StartPCs \ {"idle", "publish"} : att[a].pc # "idle" /\ Goto(a, pc)
           \/ Return(a)
    PROVE  AttOK' /\ ProcessTracked'
<1>1. AttOK'
  BY AttemptEdits DEF IndInv, AttOK, Goto, Return
<1>2. Returned(att[a]).java = att[a].java
  BY DEF Returned, NoAttempt, IndInv, AttOK, Attempt, AttemptType
<1>3. ProcessTracked'
  BY <1>2 DEF IndInv, AttOK, MemOK, ProcessTracked, Goto, Return, Attempt, AttemptType
<1> QED BY <1>1, <1>3

\* start(), one case per step.
LEMMA StartInv == IndInv /\ (\E a \in Attempts : Start(a)) => IndInv'
<1> SUFFICES ASSUME IndInv, NEW a \in Attempts, Start(a) PROVE IndInv'
  OBVIOUS
<1>r. att[a] \in Attempt /\ att[a] \in AttemptType /\ (att[a].pc # "idle" => att[a].id \in Packs)
  BY DEF IndInv, AttOK, Attempt
<1>s. state \in States /\ disk \in States /\ faults \in 0 .. MaxFaults
  BY DEF IndInv, PersistedOK
<1>1. CASE StartResize(a)
  <2>1. PersistedOK'
    BY <1>1, <1>s, SaveOK, StateEdits, Frames DEF IndInv, StartResize, IfActive, Phases
  <2>2. AttOK' /\ ProcessTracked'
    BY <1>1, StartMoves DEF StartResize, IfActive, StartPCs, mem
  <2>3. UNCHANGED <<mem, drain, tick, conn, world, fly>>
    BY <1>1 DEF StartResize
  <2> QED BY <2>1, <2>2, <2>3, Frames DEF IndInv, world
<1>2. CASE SizerEnsure(a)
  <2>1. PersistedOK'
    BY <1>2, <1>s, FaultOK DEF SizerEnsure, PersistedOK
  <2>2. AttOK' /\ ProcessTracked'
    BY <1>2, StartMoves DEF SizerEnsure, StartPCs, mem
  <2>3. FlyOK'
    BY <1>2, <1>r DEF IndInv, SizerEnsure, FlyOK, Sizes
  <2>4. UNCHANGED <<mem, drain, tick, conn, world>>
    BY <1>2 DEF SizerEnsure
  <2> QED BY <2>1, <2>2, <2>3, <2>4, Frames DEF IndInv, world
<1>3. CASE SizerPanic(a)
  <2>1. PersistedOK'
    BY <1>3, <1>s DEF SizerPanic, PersistedOK
  <2> QED BY <1>3, <2>1, HaltOK DEF IndInv, SizerPanic
<1>4. CASE StartSized(a)
  <2>1. PersistedOK'
    BY <1>4, <1>s, SaveOK, StateEdits, Frames DEF IndInv, StartSized, IfActive, Phases
  <2>2. AttOK' /\ ProcessTracked'
    BY <1>4, StartMoves DEF StartSized, IfActive, StartPCs, mem
  <2>3. UNCHANGED <<mem, drain, tick, conn, world, fly>>
    BY <1>4 DEF StartSized
  <2> QED BY <2>1, <2>2, <2>3, Frames DEF IndInv, world
<1>5. CASE Prepare(a)
  <2>1. PICK h \in -1 .. hgen[att[a].id] :
           /\ \/ h = hgen[att[a].id] /\ UNCHANGED faults
              \/ h = -1 /\ Fault("headErr")
              \/ h \in 0 .. hgen[att[a].id] - 1 /\ Fault("openErr")
           /\ att' = [att EXCEPT ![a].head = h, ![a].pc = AfterHead(att[a].id, h)]
    BY <1>5 DEF Prepare
  <2>2. att[a].pc = "prepare" /\ UNCHANGED <<state, disk, mem, drain, tick, conn, world, fly>>
    BY <1>5 DEF Prepare
  <2>3. PersistedOK'
    BY <2>1, <2>2, <1>s, FaultOK DEF PersistedOK
  <2>4. h \in Nat \cup {-1}
    BY <2>1, <2>2, <1>r DEF IndInv, WorldOK
  <2>5. AfterHead(att[a].id, h) \in {"identity", "fail", "restore"}
    BY DEF AfterHead
  <2>6. [att[a] EXCEPT !.head = h, !.pc = AfterHead(att[a].id, h)] \in Attempt
    BY <2>2, <2>4, <2>5, <1>r DEF Attempt, AttemptType, StartPCs
  <2>7. AttOK'
    BY <2>1, <2>6 DEF IndInv, AttOK
  <2>8. ProcessTracked'
    BY <2>1, <2>2 DEF IndInv, AttOK, MemOK, ProcessTracked, Attempt, AttemptType, mem
  <2> QED BY <2>2, <2>3, <2>7, <2>8, Frames DEF IndInv, world
<1>6. CASE Restore(a)
  <2>1. PersistedOK'
    BY <1>6, <1>s, FaultOK DEF Restore, PersistedOK
  <2>2. AttOK' /\ ProcessTracked'
    BY <1>6, StartMoves DEF Restore, StartPCs, mem
  <2>3. WorldOK'
    BY <1>6, <1>r DEF IndInv, Restore, WorldOK, LocalCopy
  <2>4. UNCHANGED <<mem, drain, tick, conn, hgen, fly>>
    BY <1>6 DEF Restore
  <2> QED BY <2>1, <2>2, <2>3, <2>4, Frames DEF IndInv
<1>7. CASE Identify(a)
  <2> DEFINE g == IF att[a].head > 0 THEN att[a].head ELSE state.gen
             b == state.pending \/ att[a].head = -1
  <2>1. g \in Nat /\ b \in BOOLEAN
    BY <1>r, <1>s DEF AttemptType, States
  <2>2. Save([state EXCEPT !.gen = g, !.pending = b])
    BY <1>7 DEF Identify
  <2>3. PersistedOK'
    <3> HIDE DEF g, b
    <3> QED BY <2>1, <2>2, <1>s, SaveOK, StateEdits DEF IndInv
  <2>4. AttOK' /\ ProcessTracked'
    BY <1>7, StartMoves DEF Identify, StartPCs, mem
  <2>5. UNCHANGED <<mem, drain, tick, conn, world, fly>>
    BY <1>7 DEF Identify
  <2> QED BY <2>3, <2>4, <2>5, Frames DEF IndInv, world
<1>8. CASE Launch(a)
  <2>1. att' = [att EXCEPT ![a].pc = "publish", ![a].java = "loading"] /\ att[a].pc = "launch"
        /\ UNCHANGED <<persisted, mem, drain, tick, conn, hgen, fly>>
    BY <1>8 DEF Launch
  <2>2. [att[a] EXCEPT !.pc = "publish", !.java = "loading"] \in Attempt
    BY <2>1, <1>r DEF Attempt, AttemptType, StartPCs, JavaStates
  <2>3. AttOK'
    BY <2>1, <2>2 DEF IndInv, AttOK
  <2>4. ProcessTracked'
    BY <2>1 DEF IndInv, AttOK, MemOK, ProcessTracked, Attempt, AttemptType, mem
  <2>5. WorldOK'
    BY <1>8, <1>r DEF IndInv, Launch, WorldOK, PlayedLocal, LocalCopy, HeadCopy
  <2> QED BY <2>1, <2>3, <2>4, <2>5, Frames DEF IndInv
<1>9. CASE LaunchFails(a)
  <2>1. PersistedOK'
    BY <1>9, <1>s, FaultOK DEF LaunchFails, PersistedOK
  <2>2. AttOK' /\ ProcessTracked'
    BY <1>9, StartMoves DEF LaunchFails, StartPCs, mem
  <2>3. WorldOK'
    BY <1>9, <1>r DEF IndInv, LaunchFails, WorldOK, PlayedLocal, LocalCopy
  <2>4. UNCHANGED <<mem, drain, tick, conn, hgen, fly>>
    BY <1>9 DEF LaunchFails
  <2> QED BY <2>1, <2>2, <2>3, <2>4, Frames DEF IndInv
<1>10. CASE Publish(a)
  <2>1. UNCHANGED <<persisted, done, main, drain, tick, conn, world, fly>> /\ att[a].pc = "publish"
        /\ att[a].java # "none"
    BY <1>10, <1>r DEF Publish, Attempt
  <2>2. CASE state.active = att[a].id
    <3>1. process' = a /\ expectedStop' = FALSE /\ att' = [att EXCEPT ![a].pc = "poll"]
      BY <1>10, <2>2 DEF Publish, Goto
    <3>2. AttOK'
      BY <3>1, <2>1, <1>r, AttemptEdits DEF IndInv, AttOK, StartPCs
    <3>3. ProcessTracked' /\ MemOK'
      BY <3>1, <2>1, <1>r DEF IndInv, AttOK, MemOK, ProcessTracked, AttemptType
    <3> QED BY <2>1, <3>2, <3>3, Frames DEF IndInv, world
  <2>3. CASE state.active # att[a].id
    <3>1. UNCHANGED <<process, expectedStop>> /\ att' = [att EXCEPT ![a] = Returned(Killed(att[a]))]
      BY <1>10, <2>3 DEF Publish
    <3>2. Returned(Killed(att[a])) \in Attempt
      BY <1>r, AttemptEdits
    <3>3. AttOK'
      BY <3>1, <3>2 DEF IndInv, AttOK
    <3>4. Returned(Killed(att[a])).java # "none"
      BY <2>1, <1>r DEF Returned, Killed, AttemptType
    <3>5. ProcessTracked' /\ MemOK'
      BY <3>1, <3>4, <2>1 DEF IndInv, AttOK, MemOK, ProcessTracked
    <3> QED BY <2>1, <3>3, <3>5, Frames DEF IndInv, world
  <2> QED BY <2>2, <2>3
<1>11. CASE PollAnswered(a)
  <2>1. AttOK' /\ ProcessTracked'
    BY <1>11, StartMoves DEF PollAnswered, StartPCs, mem
  <2>2. UNCHANGED <<persisted, mem, drain, tick, conn, world, fly>>
    BY <1>11 DEF PollAnswered
  <2> QED BY <2>1, <2>2, Frames DEF IndInv, world
<1>12. CASE PollReady(a)
  <2>1. PersistedOK'
    BY <1>12, <1>s, SaveOK, StateEdits, Frames DEF IndInv, PollReady, Phases
  <2>2. AttOK' /\ ProcessTracked'
    BY <1>12, StartMoves DEF PollReady, mem
  <2>3. UNCHANGED <<mem, drain, tick, conn, world, fly>>
    BY <1>12 DEF PollReady
  <2> QED BY <2>1, <2>2, <2>3, Frames DEF IndInv, world
<1>13. CASE PollTimeout(a)
  <2>1. PersistedOK'
    BY <1>13, <1>s, FaultOK DEF PollTimeout, PersistedOK
  <2>2. att' = [att EXCEPT ![a] = [Killed(att[a]) EXCEPT !.pc = "fail"]] /\ att[a].pc = "poll"
    BY <1>13 DEF PollTimeout
  <2>3. /\ Killed(att[a]) \in Attempt /\ Killed(att[a]).pc = "poll"
        /\ Killed(att[a]).java = "none" => att[a].java = "none"
    BY <2>2, <1>r, AttemptEdits DEF Killed, AttemptType
  <2>4. [Killed(att[a]) EXCEPT !.pc = "fail"] \in Attempt
    BY <2>3, AttemptEdits DEF StartPCs
  <2>5. AttOK'
    BY <2>2, <2>4 DEF IndInv, AttOK
  <2>6. UNCHANGED <<mem, drain, tick, conn, world, fly>>
    BY <1>13 DEF PollTimeout
  <2>7. ProcessTracked'
    BY <2>2, <2>3, <2>6 DEF IndInv, AttOK, MemOK, ProcessTracked, mem, Attempt, AttemptType
  <2> QED BY <2>1, <2>5, <2>6, <2>7, Frames DEF IndInv, world
<1>14. CASE StartFail(a)
  <2>1. PersistedOK'
    BY <1>14, <1>r, <1>s, SaveOK, StateEdits DEF IndInv, StartFail, FailedState, AttemptType
  <2>2. AttOK' /\ ProcessTracked'
    BY <1>14, StartMoves DEF StartFail, mem
  <2>3. UNCHANGED <<mem, drain, tick, conn, world, fly>>
    BY <1>14 DEF StartFail
  <2> QED BY <2>1, <2>2, <2>3, Frames DEF IndInv, world
<1> QED BY <1>1, <1>2, <1>3, <1>4, <1>5, <1>6, <1>7, <1>8, <1>9, <1>10, <1>11, <1>12, <1>13,
           <1>14 DEF Start

\* The processes and waitProcess().
LEMMA JavaInv == IndInv /\ (\E a \in Attempts : Java(a)) => IndInv'
<1> SUFFICES ASSUME IndInv, NEW a \in Attempts, Java(a) PROVE IndInv'
  OBVIOUS
<1>r. att[a] \in Attempt /\ att[a] \in AttemptType
  BY DEF IndInv, AttOK, Attempt
<1>s. state \in States /\ disk \in States /\ faults \in 0 .. MaxFaults
  BY DEF IndInv, PersistedOK
<1>1. CASE JavaUp(a)
  <2>1. AttOK' /\ ProcessTracked'
    BY <1>1, AttemptEdits DEF IndInv, JavaUp, AttOK, ProcessTracked, MemOK, mem, JavaStates
  <2>2. UNCHANGED <<persisted, mem, drain, tick, conn, world, fly>>
    BY <1>1 DEF JavaUp
  <2> QED BY <2>1, <2>2, Frames DEF IndInv, world
<1>2. CASE JavaExit(a)
  <2>1. PersistedOK'
    BY <1>2, <1>s, FaultOK DEF JavaExit, PersistedOK
  <2>2. AttOK' /\ ProcessTracked'
    BY <1>2, AttemptEdits DEF IndInv, JavaExit, AttOK, ProcessTracked, MemOK, mem, JavaStates
  <2>3. ConnOK'
    BY <1>2 DEF IndInv, JavaExit, ConnOK
  <2>4. UNCHANGED <<mem, drain, tick, world, fly>>
    BY <1>2 DEF JavaExit
  <2> QED BY <2>1, <2>2, <2>3, <2>4, Frames DEF IndInv, world
<1>3. CASE WaitProcess(a)
  <2>1. UNCHANGED <<done, main, drain, tick, conn, world, fly>>
    BY <1>3 DEF WaitProcess
  <2>2. PersistedOK'
    BY <1>3, <1>s, SaveOK, StateEdits, Frames DEF IndInv, WaitProcess, Phases
  <2>3. MemOK'
    BY <1>3 DEF IndInv, WaitProcess, MemOK
  <2> DEFINE r == IF att[a].pc = "idle" THEN NoAttempt ELSE [att[a] EXCEPT !.java = "none"]
  <2>4. att' = [att EXCEPT ![a] = r] /\ att[a].pc # "publish"
    BY <1>3 DEF WaitProcess
  <2>5. r \in Attempt
    BY <2>4, <1>r, Constructors DEF Attempt, AttemptType, JavaStates
  <2> HIDE DEF r
  <2>6. AttOK'
    BY <2>4, <2>5 DEF IndInv, AttOK
  <2>7. ProcessTracked'
    BY <1>3, <2>4 DEF IndInv, WaitProcess, AttOK, MemOK, ProcessTracked
  <2> QED BY <2>1, <2>2, <2>3, <2>6, <2>7, Frames DEF IndInv, world
<1> QED BY <1>1, <1>2, <1>3 DEF Java

----------------------------------------------------------------------------
\* stopAndBackup() and its callers

\* Moving the program counter of a drain asks for the facts about its pack only
\* when it enters a later stage; a drain that ends asks for nothing.
LEMMA DrainMoves ==
    ASSUME IndInv, NEW d \in Drains, UNCHANGED hgen,
           \/ \E pc \in DrainPCs :
                 /\ Step(d, pc)
                 /\ drain[d].pc # "idle"
                 /\ pc \in ForPack => drain[d].id \in Packs
                 /\ pc \in Committed => hgen[drain[d].id] > drain[d].gen
           \/ drain' = [drain EXCEPT ![d] = NoDrain]
    PROVE  DrainOK' /\ Backed'
<1>1. CASE drain' = [drain EXCEPT ![d] = NoDrain]
  BY <1>1, Constructors DEF IndInv, DrainOK, Backed, NoDrain, ForPack, Committed
<1>2. ASSUME NEW pc \in DrainPCs, Step(d, pc), drain[d].pc # "idle",
             pc \in ForPack => drain[d].id \in Packs,
             pc \in Committed => hgen[drain[d].id] > drain[d].gen
      PROVE  DrainOK' /\ Backed'
  <2>1. drain' \in [Drains -> DrainType]
    BY <1>2 DEF IndInv, DrainOK, Step, DrainType
  <2>2. /\ \A e \in Drains : /\ drain'[e].id = drain[e].id
                             /\ drain'[e].gen = drain[e].gen
                             /\ drain'[e].caller = drain[e].caller
                             /\ drain'[e].pc = IF e = d THEN pc ELSE drain[e].pc
    BY <1>2 DEF IndInv, DrainOK, Step, DrainType
  <2> QED BY <1>2, <2>1, <2>2 DEF IndInv, DrainOK, Backed, Drains
<1> QED BY <1>1, <1>2

\* The end of the wait in stopAndBackup, in time or not.
LEMMA DrainStopped ==
    ASSUME IndInv, NEW d \in Drains, NEW pc \in {"commit", "error"}, UNCHANGED hgen,
           drain' = [drain EXCEPT ![d].pc = pc, ![d].proc = None], drain[d].pc = "waitstop"
    PROVE  DrainOK' /\ Backed'
<1>0. drain \in [Drains -> DrainType] /\ pc \in DrainPCs
  BY DEF IndInv, DrainOK, DrainPCs
<1>1. drain' \in [Drains -> DrainType]
  <2>1. [drain[d] EXCEPT !.pc = pc, !.proc = None] \in DrainType
    BY <1>0 DEF DrainType
  <2> QED BY <1>0, <2>1
<1>2. \A e \in Drains : /\ drain'[e].id = drain[e].id
                        /\ drain'[e].gen = drain[e].gen
                        /\ drain'[e].caller = drain[e].caller
                        /\ drain'[e].pc = IF e = d THEN pc ELSE drain[e].pc
  BY DEF IndInv, DrainOK, DrainType
<1> QED BY <1>1, <1>2 DEF IndInv, DrainOK, Backed, Drains, ForPack, Committed

\* stopAndBackup(), one case per step.
LEMMA StopAndBackupInv == IndInv /\ (\E d \in Drains : StopAndBackup(d)) => IndInv'
<1> SUFFICES ASSUME IndInv, NEW d \in Drains, StopAndBackup(d) PROVE IndInv'
  OBVIOUS
<1>r. /\ drain[d] \in DrainType
      /\ drain[d].pc \in ForPack => drain[d].id \in Packs
      /\ drain[d].pc \in Committed => hgen[drain[d].id] > drain[d].gen
      /\ hgen \in [Packs -> Nat]
  BY DEF IndInv, DrainOK, Backed, WorldOK
<1>s. state \in States /\ disk \in States /\ faults \in 0 .. MaxFaults
  BY DEF IndInv, PersistedOK
<1>1. CASE Saving(d)
  <2>1. PersistedOK'
    BY <1>1, <1>s, SaveOK, StateEdits DEF IndInv, Saving, Phases
  <2>2. /\ drain' = [drain EXCEPT ![d].id = state.active, ![d].proc = process, ![d].pc = AfterSaving]
        /\ AfterSaving \in {"commit", "saveall"}
        /\ drain[d].pc = "saving"
        /\ UNCHANGED <<mem, att, tick, conn, world, fly>>
    BY <1>1 DEF Saving, AfterSaving
  <2>3. DrainOK' /\ Backed'
    BY <2>2, <1>s DEF IndInv, DrainOK, Backed, DrainType, DrainPCs, ForPack, Committed, States,
                      MemOK, world
  <2> QED BY <2>1, <2>2, <2>3, Frames DEF IndInv, mem
<1>2. CASE SaveAll(d)
  <2>1. PersistedOK'
    BY <1>2, <1>s, FaultOK DEF SaveAll, PersistedOK
  <2>2. DrainOK' /\ Backed'
    BY <1>2, DrainMoves DEF SaveAll, DrainPCs, ForPack, Committed, world
  <2>3. UNCHANGED <<mem, att, tick, conn, world, fly>>
    BY <1>2 DEF SaveAll
  <2> QED BY <2>1, <2>2, <2>3, Frames DEF IndInv, mem
<1>12. CASE ExpectStop(d) \/ UnexpectStop(d)
  <2>1. DrainOK' /\ Backed'
    BY <1>12, DrainMoves DEF ExpectStop, UnexpectStop, DrainPCs, ForPack, Committed, world
  <2>2. MemOK'
    BY <1>12 DEF IndInv, ExpectStop, UnexpectStop, MemOK
  <2>3. UNCHANGED <<persisted, process, att, tick, conn, world, fly>>
    BY <1>12 DEF ExpectStop, UnexpectStop
  <2> QED BY <2>1, <2>2, <2>3, Frames DEF IndInv
<1>3. CASE StopCommand(d)
  <2>1. PersistedOK'
    BY <1>3, <1>s, FaultOK DEF StopCommand, PersistedOK
  <2>2. DrainOK' /\ Backed'
    BY <1>3, DrainMoves DEF StopCommand, AfterStopError, DrainPCs, ForPack, Committed, world
  <2>4. UNCHANGED <<mem, process, tick, conn, world, fly>>
    BY <1>3 DEF StopCommand, mem
  <2>5. AttOK' /\ ProcessTracked'
    <3>1. CASE UNCHANGED att
      BY <3>1, <2>4, Frames
    <3>2. ASSUME NEW b \in Up, att' = [att EXCEPT ![b].java = "stopping"]
          PROVE  AttOK' /\ ProcessTracked'
      BY <3>2, <2>4, AttemptEdits
         DEF IndInv, Up, AttOK, MemOK, ProcessTracked, JavaStates
    <3> QED BY <1>3, <3>1, <3>2 DEF StopCommand
  <2> QED BY <2>1, <2>2, <2>4, <2>5, Frames DEF IndInv
<1>4. CASE WaitStopped(d)
  <2>1. /\ drain' = [drain EXCEPT ![d].pc = "commit", ![d].proc = None]
        /\ drain[d].pc = "waitstop"
        /\ UNCHANGED <<persisted, mem, att, tick, conn, world, fly>>
    BY <1>4 DEF WaitStopped
  <2>2. DrainOK' /\ Backed'
    BY <2>1, DrainStopped DEF world
  <2> QED BY <2>1, <2>2, Frames DEF IndInv, mem
<1>5. CASE StopTimeout(d)
  <2>1. PersistedOK'
    BY <1>5, <1>s, FaultOK DEF StopTimeout, PersistedOK
  <2>2. /\ drain' = [drain EXCEPT ![d].pc = "error", ![d].proc = None]
        /\ drain[d].pc = "waitstop"
        /\ att' = [att EXCEPT ![drain[d].proc] = Killed(att[drain[d].proc])]
        /\ UNCHANGED <<mem, tick, conn, world, fly>>
    BY <1>5 DEF StopTimeout
  <2>3. DrainOK' /\ Backed'
    BY <2>2, DrainStopped DEF world
  <2>4. \A b \in Attempts : Killed(att[b]).java = "none" => att[b].java = "none"
    BY DEF IndInv, AttOK, Killed, Attempt, AttemptType
  <2>5. AttOK' /\ ProcessTracked'
    BY <2>2, <2>4, AttemptEdits DEF IndInv, AttOK, MemOK, ProcessTracked, mem
  <2> QED BY <2>1, <2>2, <2>3, <2>5, Frames DEF IndInv, mem
<1>6. CASE CommitHead(d)
  <2>1. PersistedOK'
    BY <1>6, <1>s, FaultOK DEF CommitHead, PersistedOK
  <2>2. PICK ok \in BOOLEAN :
          /\ ok => drain[d].id # None
          /\ drain' = [drain EXCEPT ![d].gen = state.gen, ![d].pc = AfterCompare(ok)]
    BY <1>6 DEF CommitHead
  <2>3. /\ AfterCompare(ok) \in {"archive", "commitErr"}
        /\ AfterCompare(ok) = "archive" => drain[d].id \in Packs
    BY <2>2, <1>r DEF AfterCompare, DrainType
  <2>4. drain[d].pc = "commit" /\ UNCHANGED <<mem, att, tick, conn, world, fly>>
    BY <1>6 DEF CommitHead
  <2>5. state.gen \in Nat
    BY <1>s DEF States
  <2>6. DrainOK' /\ Backed'
    BY <2>2, <2>3, <2>4, <2>5
       DEF IndInv, DrainOK, Backed, DrainType, DrainPCs, ForPack, Committed, world
  <2> QED BY <2>1, <2>4, <2>6, Frames DEF IndInv, mem
<1>7. CASE CommitArchive(d)
  <2>1. PersistedOK'
    BY <1>7, <1>s, FaultOK DEF CommitArchive, PersistedOK
  <2>2. drain[d].pc = "archive" /\ UNCHANGED <<mem, att, tick, conn, local, fly>>
    BY <1>7 DEF CommitArchive
  <2>3. drain[d].id \in Packs /\ drain[d].gen \in Nat
    BY <2>2, <1>r DEF ForPack, DrainType
  <2>4. CASE UNCHANGED <<head, hgen>> /\ Step(d, "commitErr")
    <3>1. DrainOK' /\ Backed'
      BY <2>2, <2>4, DrainMoves DEF DrainPCs, ForPack, Committed
    <3> QED BY <2>1, <2>2, <2>4, <3>1, Frames DEF IndInv, mem, world
  <2>5. CASE /\ local[drain[d].id] # "absent"
             /\ hgen[drain[d].id] \in {drain[d].gen, drain[d].gen + 1}
             /\ head' = [head EXCEPT ![drain[d].id] = Archived(drain[d].id)]
             /\ hgen' = [hgen EXCEPT ![drain[d].id] = drain[d].gen + 1]
             /\ Step(d, "record") \/ Step(d, "commitErr")
    <3>1. Archived(drain[d].id) \in HeadCopy
      BY <2>3, <2>5 DEF IndInv, WorldOK, Archived, LocalCopy, HeadCopy
    <3>2. WorldOK'
      BY <2>2, <2>3, <2>5, <3>1 DEF IndInv, WorldOK
    <3>3. PICK pc \in {"record", "commitErr"} : drain' = [drain EXCEPT ![d].pc = pc]
      BY <2>5 DEF Step
    <3>4. DrainOK'
      BY <2>2, <2>3, <3>3 DEF IndInv, DrainOK, DrainType, DrainPCs, ForPack
    <3>5. \A e \in Drains : drain'[e].id = drain[e].id /\ drain'[e].gen = drain[e].gen
                         /\ (e # d => drain'[e].pc = drain[e].pc)
      BY <3>3 DEF IndInv, DrainOK, DrainType
    <3>6. /\ \A p \in Packs : hgen[p] \in Nat /\ hgen'[p] \in Nat /\ hgen'[p] >= hgen[p]
          /\ hgen'[drain[d].id] > drain[d].gen
      BY <2>3, <2>5, <1>r
    <3>7. Backed'
      <4> SUFFICES ASSUME NEW e \in Drains, drain'[e].pc \in Committed
                   PROVE  hgen'[drain'[e].id] > drain'[e].gen
        BY DEF Backed
      <4>1. CASE e = d
        BY <4>1, <2>3, <3>5, <3>6
      <4>2. CASE e # d
        <5>1. drain[e].id \in Packs /\ hgen[drain[e].id] > drain[e].gen /\ drain[e].gen \in Nat
          BY <4>2, <3>5 DEF IndInv, Backed, DrainOK, DrainType, Committed, ForPack
        <5> QED BY <5>1, <3>5, <3>6
      <4> QED BY <4>1, <4>2
    <3> QED BY <2>1, <2>2, <3>2, <3>4, <3>7, Frames DEF IndInv, mem
  <2> QED BY <1>7, <2>4, <2>5 DEF CommitArchive
<1>8. CASE CommitFailed(d)
  <2>1. PersistedOK'
    BY <1>8, <1>s, SaveOK, StateEdits DEF IndInv, CommitFailed
  <2>2. DrainOK' /\ Backed'
    BY <1>8, DrainMoves DEF CommitFailed, DrainPCs, ForPack, Committed, world
  <2>3. UNCHANGED <<mem, att, tick, conn, world, fly>>
    BY <1>8 DEF CommitFailed
  <2> QED BY <2>1, <2>2, <2>3, Frames DEF IndInv, mem
<1>9. CASE CommitRecorded(d)
  <2>1. drain[d].gen + 1 \in Nat
    BY <1>r DEF DrainType
  <2>2. PersistedOK'
    BY <1>9, <1>s, <2>1, SaveOK, StateEdits DEF IndInv, CommitRecorded
  <2>3. DrainOK' /\ Backed'
    BY <1>9, <1>r, DrainMoves DEF CommitRecorded, AfterBackup, DrainPCs, ForPack, Committed, world
  <2>4. UNCHANGED <<mem, att, tick, conn, world, fly>>
    BY <1>9 DEF CommitRecorded
  <2> QED BY <2>2, <2>3, <2>4, Frames DEF IndInv, mem
<1>10. CASE Evict(d)
  <2>1. DrainOK' /\ Backed'
    BY <1>10, <1>r, DrainMoves DEF Evict, DrainPCs, ForPack, Committed
  <2>2. WorldOK'
    BY <1>10, <1>r DEF IndInv, Evict, WorldOK, LocalCopy
  <2>3. UNCHANGED <<persisted, mem, att, tick, conn, fly>>
    BY <1>10 DEF Evict
  <2> QED BY <2>1, <2>2, <2>3, Frames DEF IndInv, mem
<1>11. CASE Evicted(d)
  <2>1. PersistedOK'
    BY <1>11, <1>s, FaultOK DEF Evicted, PersistedOK
  <2>2. DrainOK' /\ Backed'
    BY <1>11, DrainMoves DEF Evicted, DrainPCs, ForPack, Committed
  <2>3. WorldOK'
    BY <1>11, <1>r DEF IndInv, Evicted, WorldOK, LocalCopy
  <2>4. UNCHANGED <<mem, att, tick, conn, fly>>
    BY <1>11 DEF Evicted
  <2> QED BY <2>1, <2>2, <2>3, <2>4, Frames DEF IndInv, mem
<1> QED BY <1>1, <1>2, <1>3, <1>4, <1>5, <1>6, <1>7, <1>8, <1>9, <1>10, <1>11, <1>12
       DEF StopAndBackup

\* The goroutines that call stopAndBackup().
LEMMA DrainInv == IndInv /\ (\E d \in Drains : Drain(d)) => IndInv'
<1> SUFFICES ASSUME IndInv, NEW d \in Drains, Drain(d) PROVE IndInv'
  OBVIOUS
<1>r. drain \in [Drains -> DrainType] /\ state \in States /\ disk \in States
      /\ faults \in 0 .. MaxFaults /\ Drains = {"idle", "switch", "shutdown"}
  BY DEF IndInv, DrainOK, PersistedOK, Drains
<1>1. CASE DrainBegin(d)
  <2>1. PersistedOK'
    BY <1>1, <1>r, SaveOK, StateEdits, Frames DEF IndInv, DrainBegin, Phases
  <2>2. DrainOK' /\ Backed'
    BY <1>1, DrainMoves DEF DrainBegin, DrainPCs, ForPack, Committed, world
  <2>3. UNCHANGED <<mem, att, tick, conn, world, fly>>
    BY <1>1 DEF DrainBegin
  <2> QED BY <2>1, <2>2, <2>3, Frames DEF IndInv, mem
<1>2. CASE StopAndBackup(d)
  BY <1>2, StopAndBackupInv
<1>3. CASE IdleStopped
  <2>1. PersistedOK'
    BY <1>3, SaveOK, Constructors DEF IndInv, IdleStopped
  <2>2. DrainOK' /\ Backed'
    BY <1>3, <1>r, DrainMoves DEF IdleStopped, world
  <2>3. MemOK'
    BY <1>3 DEF IndInv, IdleStopped, SignalDone, MemOK
  <2>4. UNCHANGED <<process, att, tick, conn, world, fly>>
    BY <1>3 DEF IdleStopped
  <2> QED BY <2>1, <2>2, <2>3, <2>4, Frames DEF IndInv
<1>4. CASE Switched
  <2>1. drain["switch"].caller \in Packs
    BY <1>4 DEF IndInv, DrainOK, Switched
  <2>2. PersistedOK'
    BY <1>4, <2>1, SaveOK, Constructors DEF IndInv, Switched
  <2>3. DrainOK' /\ Backed'
    BY <1>4, <1>r, DrainMoves DEF Switched, world
  <2>4. AttOK' /\ ProcessTracked'
    BY <1>4, <2>1, GoStartOK DEF Switched, mem
  <2>5. UNCHANGED <<mem, tick, conn, world, fly>>
    BY <1>4 DEF Switched
  <2> QED BY <2>2, <2>3, <2>4, <2>5, Frames DEF IndInv
<1>5. CASE ShutdownDone
  <2>1. PersistedOK'
    BY <1>5, <1>r, Constructors, FaultOK DEF ShutdownDone, PersistedOK
  <2> QED BY <1>5, <2>1, HaltOK DEF IndInv, ShutdownDone
<1>6. CASE DrainFailed(d)
  <2>1. (IF d = "idle" THEN drain[d].caller ELSE state.active) \in Packs \cup {None}
    BY <1>r DEF DrainType, States
  <2>2. PersistedOK'
    BY <1>6, <1>r, <2>1, SaveOK, StateEdits DEF IndInv, DrainFailed, FailedState
  <2>3. DrainOK' /\ Backed'
    BY <1>6, DrainMoves DEF DrainFailed, world
  <2>4. MemOK'
    BY <1>6 DEF IndInv, DrainFailed, SignalDone, MemOK
  <2>5. UNCHANGED <<process, att, tick, conn, world, fly>>
    BY <1>6 DEF DrainFailed
  <2> QED BY <2>2, <2>3, <2>4, <2>5, Frames DEF IndInv
<1> QED BY <1>1, <1>2, <1>3, <1>4, <1>5, <1>6 DEF Drain

----------------------------------------------------------------------------
\* tick()

\* tick(), one case per step.
LEMMA TickInv == IndInv /\ Tick => IndInv'
<1> SUFFICES ASSUME IndInv, Tick PROVE IndInv'
  OBVIOUS
<1>r. state \in States /\ disk \in States /\ faults \in 0 .. MaxFaults /\ tick \in TickType
  BY DEF IndInv, PersistedOK, TickOK
<1>1. CASE TickExit
  <2>1. MemOK'
    BY <1>1 DEF IndInv, TickExit, SignalDone, MemOK
  <2>2. UNCHANGED <<persisted, process, att, drain, tick, conn, world, fly>>
    BY <1>1 DEF TickExit
  <2> QED BY <2>1, <2>2, Frames DEF IndInv, world
<1>2. CASE TickRead
  <2>1. TickOK'
    BY <1>2, <1>r DEF TickRead, TickOK, TickType, NoTick, States
  <2>2. UNCHANGED <<persisted, mem, att, drain, conn, world, fly>>
    BY <1>2 DEF TickRead
  <2> QED BY <2>1, <2>2, Frames DEF IndInv, mem, world
<1>3. CASE TickQuery
  <2>1. PersistedOK'
    BY <1>3, <1>r, FaultOK DEF TickQuery, PersistedOK
  <2>2. TickOK'
    BY <1>3, <1>r DEF TickQuery, TickOK, TickType
  <2>3. UNCHANGED <<mem, att, drain, conn, world, fly>>
    BY <1>3 DEF TickQuery
  <2> QED BY <2>1, <2>2, <2>3, Frames DEF IndInv, mem, world
<1>4. CASE TickApply
  <2> DEFINE empty == IF tick.players # "none" THEN -1
                      ELSE IF state.empty = -1 THEN 0 ELSE state.empty
  <2>1. empty \in Ages
    BY <1>r DEF States, Ages
  <2>2. PersistedOK'
    <3>1. Save([state EXCEPT !.empty = empty])
      BY <1>4 DEF TickApply
    <3> HIDE DEF empty
    <3> QED BY <1>r, <2>1, <3>1, SaveOK, StateEdits DEF IndInv
  <2>3. UNCHANGED <<mem, att, conn, world, fly>> /\ tick' = NoTick
    BY <1>4 DEF TickApply
  <2>4. TickOK'
    BY <2>3, Constructors DEF TickOK
  <2>5. DrainOK' /\ Backed'
    <3>1. CASE UNCHANGED drain
      BY <3>1, <2>3, Frames DEF world
    <3>2. CASE drain' = [drain EXCEPT !["idle"] = [NoDrain EXCEPT !.pc = "begin", !.caller = tick.id]]
      BY <3>2, <2>3, <1>r DEF IndInv, DrainOK, Backed, Drains, DrainType, DrainPCs, NoDrain,
                              TickType, ForPack, Committed, world
    <3> QED BY <1>4, <3>1, <3>2 DEF TickApply
  <2> QED BY <2>2, <2>3, <2>4, <2>5, Frames DEF IndInv, mem
<1> QED BY <1>1, <1>2, <1>3, <1>4 DEF Tick

----------------------------------------------------------------------------
\* The theorems

\* Every step of the specification preserves the invariant.
LEMMA NextInv == IndInv /\ [Next]_vars => IndInv'
<1> SUFFICES ASSUME IndInv, [Next]_vars PROVE IndInv'
  OBVIOUS
<1>1. CASE UNCHANGED vars
  BY <1>1, Frames DEF IndInv, vars, mem, world
<1>2. CASE Next
  BY <1>2, BootInv, MainInv, LoginInv, PlayersInv, ElapseInv, StartInv, JavaInv, DrainInv, TickInv
     DEF Next
<1> QED BY <1>1, <1>2

\* The inductive invariant holds whatever the environment does.
THEOREM Invariance == Spec => []IndInv
BY InitInv, NextInv, PTL DEF Spec

\* Every variable of the manager keeps its type: no fault, however many of them
\* and in whatever order, makes start(), stopAndBackup() or tick() store a value
\* of the wrong kind (a generation below zero, an attempt for no pack).
THEOREM TypeCorrect == Spec => []TypeOK
<1>1. IndInv => TypeOK
  <2>1. IndInv => OwnedAttempts
    BY DEF IndInv, AttOK, Attempt, OwnedAttempts
  <2> QED BY <2>1 DEF IndInv, TypeOK, AttOK, Attempt, DrainOK, TickOK
<1> QED BY <1>1, Invariance, PTL

\* m.process, as waitProcess, Publish and stopAndBackup see it: while it is set,
\* a process exists whose Wait has yet to return, so the loop in stopAndBackup
\* never waits for something that has already happened.
THEOREM ProcessIsTracked == Spec => []ProcessTracked
<1>1. IndInv => ProcessTracked
  BY DEF IndInv
<1> QED BY <1>1, Invariance, PTL

\* A step that takes a whole world off the volume is a step of Evict or Evicted.
LEMMA OnlyEviction ==
    ASSUME IndInv, [Next]_vars, NEW p \in Packs,
           local[p] \in {"stale", "current"}, local'[p] \in {"absent", "partial"}
    PROVE  \E d \in Drains : /\ drain[d].pc \in {"evict", "evicting"} /\ drain[d].id = p
                             /\ hgen'[p] > drain[d].gen
<1>1. local' # local
  OBVIOUS
<1>2. CASE \E a \in Attempts : Start(a)
  <2>1. PICK a \in Attempts : Start(a)
    BY <1>2
  <2>2. att[a].pc # "idle" => att[a].id \in Packs
    BY DEF IndInv, AttOK, Attempt
  <2>3. CASE Restore(a)
    BY <2>2, <2>3, <1>1 DEF Restore, IndInv, WorldOK
  <2>4. CASE Launch(a)
    BY <2>2, <2>4, <1>1 DEF Launch, PlayedLocal, IndInv, WorldOK
  <2>5. CASE LaunchFails(a)
    BY <2>2, <2>5, <1>1 DEF LaunchFails, PlayedLocal, IndInv, WorldOK
  <2> QED BY <1>1, <2>1, <2>3, <2>4, <2>5
          DEF Start, StartResize, SizerEnsure, SizerPanic, StartSized, Prepare, Identify,
              Publish, PollAnswered, PollReady, PollTimeout, StartFail, Halt, world
<1>3. CASE \E d \in Drains : StopAndBackup(d)
  <2>1. PICK d \in Drains : StopAndBackup(d)
    BY <1>3
  <2>2. CASE Evict(d) \/ Evicted(d)
    <3>1. /\ drain[d].pc \in {"evict", "evicting"}
          /\ drain[d].id \in Packs /\ hgen[drain[d].id] > drain[d].gen
      BY <2>2 DEF IndInv, DrainOK, Backed, ForPack, Committed, Evict, Evicted
    <3>2. hgen' = hgen /\ (p # drain[d].id => local'[p] = local[p])
      BY <2>2, <3>1 DEF Evict, Evicted, IndInv, WorldOK
    <3> QED BY <3>1, <3>2
  <2> QED BY <1>1, <2>1, <2>2
          DEF StopAndBackup, Saving, SaveAll, ExpectStop, StopCommand, UnexpectStop, WaitStopped,
              StopTimeout, CommitHead, CommitArchive, CommitFailed, CommitRecorded, world
<1>4. CASE ~ (\E a \in Attempts : Start(a)) /\ ~ (\E d \in Drains : StopAndBackup(d))
  <2>1. UNCHANGED local
    <3>1. CASE Boot \/ Main \/ Crash \/ Reboot
      BY <3>1 DEF Boot, Interrupted, Main, StopServing, ShutdownNothing, ShutdownBegin, Crash, Reboot,
                  Halt, world
    <3>2. CASE \E id \in Packs : Ensure(id)
      BY <3>2 DEF Ensure, EnsureIdle, EnsureRetry, EnsureReady, EnsureSwitch, EnsureRefused, world
    <3>3. CASE Connect \/ Leave \/ Touch \/ Quiesce \/ Elapse \/ Tick
      BY <3>3 DEF Connect, Leave, Touch, Quiesce, Elapse, Tick, TickExit, TickRead, TickQuery,
                  TickApply, world
    <3>4. CASE \E a \in Attempts : Java(a)
      BY <3>4 DEF Java, JavaUp, JavaExit, WaitProcess, world
    <3>5. CASE \E d \in Drains : Drain(d)
      BY <3>5, <1>4 DEF Drain, DrainBegin, IdleStopped, Switched, ShutdownDone, DrainFailed, Halt,
                        world
    <3>6. CASE UNCHANGED vars
      BY <3>6 DEF vars, world
    <3> QED BY <3>1, <3>2, <3>3, <3>4, <3>5, <3>6, <1>4 DEF Next
  <2> QED BY <2>1, <1>1
<1> QED BY <1>2, <1>3, <1>4

\* evict_after_backup: stopAndBackup takes a world off the volume only when the
\* generation that the same call committed is in the store, whichever drains
\* overlap and whatever fails.
THEOREM EvictionIsVerified == Spec => EvictionVerified
<1>1. IndInv /\ [Next]_vars
      => [\A p \in Packs :
             local[p] \in {"stale", "current"} /\ local'[p] \in {"absent", "partial"}
             => \E d \in Drains : /\ drain[d].pc \in {"evict", "evicting"} /\ drain[d].id = p
                                   /\ hgen'[p] > drain[d].gen]_vars
  BY OnlyEviction
<1> QED BY <1>1, Invariance, PTL DEF Spec, EvictionVerified

----------------------------------------------------------------------------
\* One server at a time

\* The faults that the claim excludes: a server that dies by itself or does not
\* come up in time, an RCON command without an answer, and a login that is
\* handled while Shutdown drains. Each of them can leave two calls of start()
\* at work (module Manager, run TwoServers for the first).
Calm == Faults \cap {"javaExit", "startTimeout", "rconErr", "lateLogin"} = {}

\* Calls of start() in progress, and drains by tick() and switchTo() that have
\* found the pack Ready.
Running == {a \in Attempts : att[a].pc # "idle"}

Begun(d) == drain[d].pc \notin {"idle", "begin"}

Leaving == {"idle", "switch"}

\* start() until m.process is set, stopAndBackup() once the process is gone, and
\* a server that was told to go.
Early == {"resize", "sizing", "sized", "prepare", "restore", "identity", "launch", "publish"}

AfterStop == {"commit", "archive", "commitErr", "record", "evict", "evicting", "finish"}

Going == {"stopping", "killed", "exited"}

\* Who may be at work: one start() or one drain of the pack that is Ready.
Exclusive ==
    /\ \A a, b \in Running : a = b
    /\ \A d \in Leaving : Begun(d) => Running = {} /\ state.phase # "Ready"
    /\ ~ (Begun("idle") /\ Begun("switch"))

\* What a start() may rely on.
Entitled ==
    \A a \in Running : /\ state.active = att[a].id
                       /\ state.phase \notin {"Idle", "Ready"}
                       /\ att[a].pc \in Early => process = None

\* Every server is m.process or about to become it.
Owned ==
    /\ \A a \in Attempts : Live(a) => process = a \/ att[a].pc = "publish"
    /\ \A d \in Leaving : drain[d].pc \in AfterStop => process = None
    /\ state.phase = "Idle" => process = None

\* Until Shutdown begins: the phase tells what is at work, and a server that
\* goes is m.process and expected to.
Orderly ==
    main # "draining" =>
       /\ drain["shutdown"].pc = "idle"
       /\ \A d \in Leaving : Begun(d) => state.phase \in {"Draining", "Saving"}
       /\ Running # {} => state.phase # "Failed"
       /\ \A a \in Attempts : att[a].java \in Going =>
             /\ process = a /\ expectedStop
             /\ Running = {} /\ state.phase # "Ready"
             /\ \A d \in Drains : drain[d].pc \notin {"saving", "saveall", "expect", "stop", "unexpect"}
       /\ \A d \in Drains : drain[d].pc = "stop" => expectedStop
       /\ \A d \in Drains : drain[d].pc = "waitstop" => expectedStop \/ process = None

\* Nothing runs while the Machine is off.
Quenched ==
    main = "off" =>
       /\ process = None /\ tick = NoTick
       /\ \A a \in Attempts : att[a] = NoAttempt
       /\ \A d \in Drains : drain[d] = NoDrain

OneInv == Exclusive /\ Entitled /\ Owned /\ Orderly /\ Quenched

\* Only an awake daemon takes these steps.
LEMMA Awake ==
    ASSUME Quenched,
           \/ \E id \in Packs : Ensure(id)
           \/ \E a \in Attempts : Start(a) \/ Java(a)
           \/ \E d \in Drains : Drain(d)
           \/ Tick
    PROVE  main # "off"
<1> SUFFICES ASSUME main = "off" PROVE FALSE
  OBVIOUS
<1>1. /\ tick.pc = "idle"
      /\ \A a \in Attempts : att[a].pc = "idle" /\ att[a].java = "none"
      /\ \A d \in Drains : drain[d].pc = "idle"
  BY DEF Quenched, NoTick, NoAttempt, NoDrain
<1>2. ~ (\E id \in Packs : Ensure(id))
  BY DEF Ensure, EnsureIdle, EnsureRetry, EnsureReady, EnsureSwitch, EnsureRefused, Login
<1>3. ~ (\E a \in Attempts : Start(a) \/ Java(a))
  <2> SUFFICES ASSUME NEW a \in Attempts PROVE ~Start(a) /\ ~Java(a)
    OBVIOUS
  <2>1. ~Start(a)
    BY <1>1 DEF Start, StartResize, SizerEnsure, SizerPanic, StartSized, Prepare, Restore, Identify,
                Launch, LaunchFails, Publish, PollAnswered, PollReady, PollTimeout, StartFail
  <2>2. ~Java(a)
    BY <1>1 DEF Java, JavaUp, JavaExit, WaitProcess
  <2> QED BY <2>1, <2>2
<1>4. ~ (\E d \in Drains : Drain(d))
  <2> SUFFICES ASSUME NEW d \in Drains PROVE ~Drain(d)
    OBVIOUS
  <2>1. ~DrainBegin(d) /\ ~DrainFailed(d) /\ ~IdleStopped /\ ~Switched /\ ~ShutdownDone
    BY <1>1 DEF DrainBegin, DrainFailed, IdleStopped, Switched, ShutdownDone, Drains
  <2>2. ~StopAndBackup(d)
    BY <1>1 DEF StopAndBackup, Saving, SaveAll, ExpectStop, StopCommand, UnexpectStop, WaitStopped,
                StopTimeout, CommitHead, CommitArchive, CommitFailed, CommitRecorded, Evict, Evicted
  <2> QED BY <2>1, <2>2 DEF Drain
<1>5. ~Tick
  BY <1>1 DEF Tick, TickExit, TickRead, TickQuery, TickApply
<1> QED BY <1>2, <1>3, <1>4, <1>5

\* A step that changes nothing that the argument is about.
LEMMA OneFrame ==
    ASSUME OneInv, main # "off" \/ UNCHANGED <<drain, tick>>,
           state'.phase = state.phase, state'.active = state.active,
           main' = main \/ (main = "serving" /\ main' = "closing"),
           UNCHANGED <<process, expectedStop, att>>,
           \A d \in Drains : drain'[d].pc = drain[d].pc
    PROVE  OneInv'
<1>1. Running' = Running /\ \A d \in Drains : Begun(d)' <=> Begun(d)
  BY DEF Running, Begun
<1>2. "idle" \in Drains /\ "switch" \in Drains /\ "shutdown" \in Drains /\ Leaving \subseteq Drains
  BY DEF Drains, Leaving
<1>3. Exclusive' /\ Entitled'
  BY <1>1, <1>2 DEF OneInv, Exclusive, Entitled
<1>4. Owned' /\ Orderly'
  BY <1>1, <1>2 DEF OneInv, Owned, Orderly, Live
<1>5. Quenched'
  BY DEF OneInv, Quenched
<1> QED BY <1>3, <1>4, <1>5 DEF OneInv

\* start(a) goes on: whatever the phase becomes, it tells of a start.
LEMMA OneStartMoves ==
    ASSUME OneInv, IndInv, main # "off", NEW a \in Attempts, NEW pc,
           att[a].pc # "idle", pc # "idle", pc # "publish", pc \in Early => att[a].pc \in Early,
           att[a].pc # "publish",
           \A b \in Attempts : /\ att'[b].id = att[b].id /\ att'[b].java = att[b].java
                               /\ att'[b].pc = IF b = a THEN pc ELSE att[b].pc,
           state'.phase \in {state.phase, "Resizing", "Loading", "Recovering"},
           state'.active = state.active,
           UNCHANGED <<process, expectedStop, main, drain>>
    PROVE  OneInv'
<1>1. Running' = Running /\ a \in Running /\ \A d \in Drains : Begun(d)' <=> Begun(d)
  BY DEF Running, Begun
<1>2. \A d \in Leaving : ~Begun(d)
  BY <1>1 DEF OneInv, Exclusive
<1>3. Leaving \subseteq Drains
  BY DEF Drains, Leaving
<1>4. Exclusive' /\ Entitled'
  <2>1. Exclusive'
    BY <1>1, <1>2, <1>3 DEF OneInv, Exclusive, Leaving
  <2>2. state'.phase \notin {"Idle", "Ready"}
    BY <1>1 DEF OneInv, Entitled
  <2>3. Entitled'
    BY <1>1, <2>2 DEF OneInv, Entitled, Running
  <2> QED BY <2>1, <2>3
<1>5. Owned'
  BY <1>1, <1>2, <1>3 DEF OneInv, Owned, Live, Running, Entitled
<1>6. Orderly' /\ Quenched'
  BY <1>1, <1>2, <1>3 DEF OneInv, Orderly, Quenched, Running
<1> QED BY <1>4, <1>5, <1>6 DEF OneInv

\* start(a) returns, and leaves the pack as it was, Ready or Failed.
LEMMA OneStartReturns ==
    ASSUME OneInv, IndInv, main # "off", NEW a \in Attempts, att[a].pc \notin {"idle", "publish"},
           \A b \in Attempts : /\ att'[b].java = att[b].java
                               /\ b # a => att'[b] = att[b],
           att'[a].pc = "idle",
           state'.phase \in {state.phase, "Ready", "Failed"}, state'.active = state.active,
           UNCHANGED <<process, expectedStop, main, drain>>
    PROVE  OneInv'
<1>1. a \in Running /\ Running' = {} /\ \A d \in Drains : Begun(d)' <=> Begun(d)
  BY DEF Running, Begun, OneInv, Exclusive
<1>2. \A d \in Leaving : ~Begun(d)
  BY <1>1 DEF OneInv, Exclusive
<1>3. Leaving \subseteq Drains
  BY DEF Drains, Leaving
<1>4. Exclusive' /\ Entitled'
  BY <1>1, <1>2, <1>3 DEF OneInv, Exclusive, Entitled, Leaving
<1>5. state'.phase # "Idle"
  BY <1>1 DEF OneInv, Entitled
<1>6. Owned'
  BY <1>1, <1>2, <1>3, <1>5 DEF OneInv, Owned, Live, Entitled
<1>7. Orderly' /\ Quenched'
  BY <1>1, <1>2, <1>3 DEF OneInv, Orderly, Quenched
<1> QED BY <1>4, <1>6, <1>7 DEF OneInv

\* A new start() begins when nothing is at work.
LEMMA OneGoStart ==
    ASSUME OneInv, IndInv, NEW id \in Packs, NEW recovery \in BOOLEAN, GoStart(id, recovery),
           main' # "off", main = "draining" <=> main' = "draining", Running = {}, process = None,
           \A d \in Leaving : drain'[d].pc \in {"idle", "begin"},
           \A d \in Drains : drain'[d].pc \in {drain[d].pc, "idle"},
           state'.phase \in {"Loading", "Recovering"}, state'.active = id,
           UNCHANGED <<process, expectedStop>>
    PROVE  OneInv'
<1> DEFINE new == [NoAttempt EXCEPT !.pc = "resize", !.id = id, !.recovery = recovery]
<1>1. PICK a \in FreeAttempts : att' = [att EXCEPT ![a] = new]
  BY DEF GoStart
<1>2. new.pc = "resize" /\ new.id = id /\ new.java = "none"
  BY DEF NoAttempt
<1>3. a \in Attempts /\ att[a].java = "none"
  BY <1>1 DEF FreeAttempts, NoAttempt
<1> HIDE DEF new
<1>4. \A b \in Attempts : att'[b] = IF b = a THEN new ELSE att[b]
  BY <1>1, <1>3 DEF IndInv, AttOK
<1>5. Running' = {a}
  BY <1>2, <1>3, <1>4 DEF Running
<1>6. Leaving \subseteq Drains /\ \A d \in Leaving : ~Begun(d)'
  BY DEF Drains, Leaving, Begun
<1>7. Exclusive'
  BY <1>5, <1>6 DEF Exclusive, Leaving
<1>8. Entitled'
  BY <1>2, <1>3, <1>4, <1>5 DEF Entitled
<1>9. Owned'
  BY <1>2, <1>3, <1>4, <1>5, <1>6 DEF OneInv, Owned, Live, LiveJava, AfterStop
<1>10. Orderly'
  BY <1>2, <1>3, <1>4, <1>5, <1>6 DEF OneInv, Orderly, Going, Drains
<1>11. Quenched'
  BY DEF Quenched
<1> QED BY <1>7, <1>8, <1>9, <1>10, <1>11 DEF OneInv

\* stopAndBackup() goes on past the stop, or gives up.
LEMMA OneAdvance ==
    ASSUME OneInv, main # "off", NEW d \in Drains, NEW pc, Begun(d),
           pc \notin {"idle", "begin", "saving", "saveall", "stop", "waitstop"},
           pc \in {"expect", "unexpect"} => drain[d].pc \in {"saveall", "stop"},
           \A e \in Drains : drain'[e].pc = IF e = d THEN pc ELSE drain[e].pc,
           pc \in AfterStop => process = None \/ drain[d].pc \in AfterStop,
           state'.phase = state.phase, state'.active = state.active,
           UNCHANGED <<process, expectedStop, main, att>>
    PROVE  OneInv'
<1>1. Running' = Running /\ \A e \in Drains : Begun(e)' <=> Begun(e)
  BY DEF Running, Begun
<1>2. Leaving \subseteq Drains /\ "shutdown" \in Drains
  BY DEF Drains, Leaving
<1>3. Exclusive' /\ Entitled'
  BY <1>1, <1>2 DEF OneInv, Exclusive, Entitled, Leaving
<1>4. Owned'
  BY <1>1, <1>2 DEF OneInv, Owned, Live
<1>5. Orderly' /\ Quenched'
  BY <1>1, <1>2 DEF OneInv, Orderly, Quenched, Begun
<1> QED BY <1>3, <1>4, <1>5 DEF OneInv

\* A goroutine that is to drain is started.
LEMMA OneBegin ==
    ASSUME OneInv, main # "off", NEW d \in Leaving, drain[d].pc = "idle",
           \A e \in Drains : drain'[e].pc = IF e = d THEN "begin" ELSE drain[e].pc,
           state'.phase = state.phase, state'.active = state.active,
           UNCHANGED <<process, expectedStop, main, att>>
    PROVE  OneInv'
<1>1. Running' = Running /\ \A e \in Drains : Begun(e)' <=> Begun(e)
  BY DEF Running, Begun
<1>2. Leaving \subseteq Drains /\ "shutdown" \in Drains /\ d # "shutdown"
  BY DEF Drains, Leaving
<1>3. Exclusive' /\ Entitled'
  BY <1>1, <1>2 DEF OneInv, Exclusive, Entitled, Leaving
<1>4. Owned'
  BY <1>1, <1>2 DEF OneInv, Owned, Live, AfterStop
<1>5. Orderly' /\ Quenched'
  BY <1>1, <1>2 DEF OneInv, Orderly, Quenched
<1> QED BY <1>3, <1>4, <1>5 DEF OneInv

\* While Shutdown drains there is nothing to show for the orderly part.
LEMMA OneClosing == main' = "draining" => Orderly' /\ Quenched'
<1> SUFFICES ASSUME main' = "draining" PROVE Orderly' /\ Quenched'
  OBVIOUS
<1>1. Orderly'
  BY DEF Orderly
<1>2. Quenched'
  BY DEF Quenched
<1> QED BY <1>1, <1>2

\* A drain finds that there is nothing to do.
LEMMA OneGone ==
    ASSUME OneInv, main # "off", NEW d \in Drains, drain[d].pc = "begin",
           \A e \in Drains : drain'[e].pc = IF e = d THEN "idle" ELSE drain[e].pc,
           state'.phase = state.phase, state'.active = state.active,
           UNCHANGED <<process, expectedStop, main, att>>
    PROVE  OneInv'
<1>1. Running' = Running /\ \A e \in Drains : Begun(e)' <=> Begun(e)
  BY DEF Running, Begun
<1>2. Leaving \subseteq Drains /\ "shutdown" \in Drains
  BY DEF Drains, Leaving
<1>3. Exclusive' /\ Entitled'
  BY <1>1, <1>2 DEF OneInv, Exclusive, Entitled, Leaving
<1>4. Owned'
  BY <1>1, <1>2 DEF OneInv, Owned, Live, AfterStop
<1>5. Orderly' /\ Quenched'
  BY <1>1, <1>2 DEF OneInv, Orderly, Quenched
<1> QED BY <1>3, <1>4, <1>5 DEF OneInv

\* Before the first boot nothing is at work.
LEMMA OneInit == Init => OneInv
<1> SUFFICES ASSUME Init PROVE OneInv
  OBVIOUS
<1>1. /\ process = None /\ tick = NoTick
      /\ \A a \in Attempts : att[a] = NoAttempt
      /\ \A d \in Drains : drain[d] = NoDrain
  BY DEF Init
<1>2. /\ \A a \in Attempts : att[a].pc = "idle" /\ att[a].java = "none"
      /\ \A d \in Drains : drain[d].pc = "idle"
  BY <1>1 DEF NoAttempt, NoDrain
<1>3. Running = {} /\ Leaving \subseteq Drains /\ "shutdown" \in Drains /\ "idle" \in Drains
  BY <1>2 DEF Running, Leaving, Drains
<1>4. Exclusive /\ Entitled /\ Owned
  BY <1>1, <1>2, <1>3 DEF Exclusive, Entitled, Owned, Begun, AfterStop, Live, LiveJava
<1>5. Orderly /\ Quenched
  BY <1>1, <1>2, <1>3 DEF Orderly, Quenched, Begun, Going
<1> QED BY <1>4, <1>5 DEF OneInv

\* After every end of the process nothing is at work.
LEMMA OneHalt == Halt => OneInv'
<1> SUFFICES ASSUME Halt PROVE OneInv'
  OBVIOUS
<1>1. /\ process' = None /\ tick' = NoTick
      /\ \A a \in Attempts : att'[a] = NoAttempt
      /\ \A d \in Drains : drain'[d] = NoDrain
  BY DEF Halt
<1>2. /\ \A a \in Attempts : att'[a].pc = "idle" /\ att'[a].java = "none"
      /\ \A d \in Drains : drain'[d].pc = "idle"
  BY <1>1 DEF NoAttempt, NoDrain
<1>3. Running' = {} /\ Leaving \subseteq Drains /\ "shutdown" \in Drains /\ "idle" \in Drains
  BY <1>2 DEF Running, Leaving, Drains
<1>4. Exclusive' /\ Entitled' /\ Owned'
  BY <1>1, <1>2, <1>3 DEF Exclusive, Entitled, Owned, Begun, AfterStop, Live, LiveJava
<1>5. Orderly' /\ Quenched'
  BY <1>1, <1>2, <1>3 DEF Orderly, Quenched, Begun, Going
<1> QED BY <1>4, <1>5 DEF OneInv

\* Fields of a State after an assignment.
LEMMA StateFields ==
    ASSUME NEW s \in States
    PROVE  /\ \A ph : [s EXCEPT !.phase = ph].phase = ph
                   /\ [s EXCEPT !.phase = ph].active = s.active
           /\ \A g, b : /\ [s EXCEPT !.gen = g, !.pending = b].phase = s.phase
                        /\ [s EXCEPT !.gen = g, !.pending = b].active = s.active
           /\ [s EXCEPT !.pending = TRUE].phase = s.phase
           /\ [s EXCEPT !.pending = TRUE].active = s.active
           /\ \A e : /\ [s EXCEPT !.empty = e].phase = s.phase
                     /\ [s EXCEPT !.empty = e].active = s.active
           /\ Older(s).phase = s.phase /\ Older(s).active = s.active
           /\ \A id : LoadingState(id).phase = "Loading" /\ LoadingState(id).active = id
           /\ IdleState.phase = "Idle" /\ IdleState.active = None
BY DEF States, Older, LoadingState, IdleState

\* The daemon's main goroutine.
LEMMA OneMain == IndInv /\ OneInv /\ (Boot \/ Main \/ Crash \/ Reboot) => OneInv'
<1> SUFFICES ASSUME IndInv, OneInv, Boot \/ Main \/ Crash \/ Reboot PROVE OneInv'
  OBVIOUS
<1>s. state \in States /\ disk \in States /\ Leaving \subseteq Drains /\ "shutdown" \in Drains
  BY DEF IndInv, PersistedOK, Leaving, Drains
<1>1. CASE Boot
  <2>1. /\ process = None /\ Running = {} /\ \A d \in Drains : drain[d].pc = "idle"
        /\ \A a \in Attempts : att[a].pc = "idle" /\ att[a].java = "none"
    BY <1>1 DEF Boot, Interrupted, OneInv, Quenched, Running, NoAttempt, NoDrain
  <2>2. main = "off" /\ main' = "serving" /\ UNCHANGED <<process, expectedStop, drain>>
    BY <1>1 DEF Boot, Interrupted
  <2>3. CASE disk.phase # "Idle" /\ disk.active # None
    <3>1. /\ state' = [disk EXCEPT !.phase = "Recovering"] /\ GoStart(disk.active, TRUE)
      BY <1>1, <2>3 DEF Boot, Interrupted, Save
    <3>2. state'.phase = "Recovering" /\ state'.active = disk.active
      BY <3>1, <1>s, StateFields
    <3>3. disk.active \in Packs
      BY <2>3, <1>s DEF States
    <3> QED BY <2>1, <2>2, <3>1, <3>2, <3>3, <1>s, OneGoStart
  <2>4. CASE ~ (disk.phase # "Idle" /\ disk.active # None)
    <3>1. UNCHANGED att
      BY <1>1, <2>4 DEF Boot, Interrupted
    <3>2. Running' = {}
      BY <3>1, <2>1 DEF Running
    <3>3. Exclusive' /\ Entitled' /\ Owned'
      BY <1>s, <2>1, <2>2, <3>1, <3>2
         DEF Exclusive, Entitled, Owned, Begun, AfterStop, Live, LiveJava, Leaving
    <3>4. Orderly' /\ Quenched'
      BY <1>s, <2>1, <2>2, <3>1, <3>2 DEF Orderly, Quenched, Begun, Going
    <3> QED BY <3>3, <3>4 DEF OneInv
  <2> QED BY <2>3, <2>4
<1>2. CASE StopServing
  BY <1>2, OneFrame DEF StopServing
<1>3. CASE ShutdownBegin
  <2>1. /\ state' = [state EXCEPT !.phase = "Draining"] /\ process # None
        /\ main' = "draining" /\ UNCHANGED <<process, expectedStop, att>>
        /\ drain' = [drain EXCEPT !["shutdown"].pc = "saving"]
    BY <1>3 DEF ShutdownBegin, Save
  <2>2. state'.phase = "Draining" /\ state'.active = state.active
    BY <2>1, <1>s, StateFields
  <2>3. \A d \in Leaving : drain'[d].pc = drain[d].pc
    BY <2>1 DEF IndInv, DrainOK, Leaving, Drains
  <2>4. Running' = Running /\ \A d \in Leaving : Begun(d)' <=> Begun(d)
    BY <2>1, <2>3 DEF Running, Begun
  <2>5. Exclusive' /\ Entitled'
    BY <2>1, <2>2, <2>4 DEF OneInv, Exclusive, Entitled, Leaving
  <2>6. Owned' /\ Orderly' /\ Quenched'
    BY <2>1, <2>2, <2>3, <2>4 DEF OneInv, Owned, Orderly, Quenched, Live
  <2> QED BY <2>5, <2>6 DEF OneInv
<1>4. CASE ShutdownNothing \/ Crash \/ Reboot
  BY <1>4, OneHalt DEF ShutdownNothing, Crash, Reboot
<1> QED BY <1>1, <1>2, <1>3, <1>4 DEF Main

\* Ensure() starts a pack only when nothing is at work.
LEMMA OneLogin ==
    ASSUME Calm, IndInv, OneInv, NEW id \in Packs, Ensure(id)
    PROVE  OneInv'
<1>s. state \in States /\ Leaving \subseteq Drains /\ main # "off"
  BY Awake DEF IndInv, OneInv, PersistedOK, Leaving, Drains
<1>1. main # "draining"
  BY DEF Ensure, EnsureIdle, EnsureRetry, EnsureReady, EnsureSwitch, EnsureRefused, Login, Calm
<1>2. CASE EnsureIdle(id) \/ EnsureRetry(id)
  <2>1. /\ state' = LoadingState(id) \/ state' = [state EXCEPT !.phase = "Loading"]
        /\ state' # LoadingState(id) => state.active = id
        /\ GoStart(id, FALSE) /\ UNCHANGED <<mem, drain>>
    BY <1>2 DEF EnsureIdle, EnsureRetry, Save, Retryable
  <2>2. state'.phase = "Loading" /\ state'.active = id
    <3>1. CASE state' = LoadingState(id)
      BY <3>1, <1>s, StateFields
    <3>2. CASE state' = [state EXCEPT !.phase = "Loading"] /\ state.active = id
      BY <3>2, <1>s, StateFields
    <3> QED BY <2>1, <3>1, <3>2
  <2>3. state.phase \in {"Idle", "Failed"} /\ process = None
    BY <1>2 DEF EnsureIdle, EnsureRetry, Vacant, Retryable, OneInv, Owned
  <2>4. Running = {}
    BY <1>1, <2>3 DEF OneInv, Entitled, Orderly
  <2>5. \A d \in Leaving : ~Begun(d)
    BY <1>1, <2>3 DEF OneInv, Orderly
  <2>6. \A d \in Leaving : drain'[d].pc \in {"idle", "begin"}
    BY <2>1, <2>5 DEF Begun
  <2> QED BY <1>s, <2>1, <2>2, <2>3, <2>4, <2>6, OneGoStart DEF mem
<1>3. CASE EnsureReady(id) \/ EnsureRefused(id)
  BY <1>s, <1>3, OneFrame DEF EnsureReady, EnsureRefused, persisted, mem
<1>4. CASE EnsureSwitch(id)
  <2>1. /\ UNCHANGED <<persisted, mem, att, tick>> /\ drain["switch"].pc = "idle"
        /\ drain' = [drain EXCEPT !["switch"] = [NoDrain EXCEPT !.pc = "begin", !.caller = id]]
    BY <1>4 DEF EnsureSwitch
  <2>2. \A d \in Drains : drain'[d].pc = IF d = "switch" THEN "begin" ELSE drain[d].pc
    BY <2>1 DEF IndInv, DrainOK, NoDrain
  <2> QED BY <1>s, <1>1, <2>1, <2>2, OneBegin DEF persisted, mem, Leaving
<1> QED BY <1>2, <1>3, <1>4 DEF Ensure

\* start().
LEMMA OneStart ==
    ASSUME Calm, IndInv, OneInv, NEW a \in Attempts, Start(a)
    PROVE  OneInv'
<1>r. att[a] \in AttemptType /\ att \in [Attempts -> Attempt]
  BY DEF IndInv, AttOK, Attempt
<1>s. state \in States /\ Leaving \subseteq Drains /\ main # "off"
  BY Awake DEF IndInv, OneInv, PersistedOK, Leaving, Drains
<1>g. ASSUME NEW pc, Goto(a, pc)
      PROVE  \A b \in Attempts : /\ att'[b].id = att[b].id /\ att'[b].java = att[b].java
                                 /\ att'[b].pc = IF b = a THEN pc ELSE att[b].pc
  BY <1>g, <1>r DEF Goto, Attempt, AttemptType
<1>t. ASSUME Return(a)
      PROVE  /\ \A b \in Attempts : /\ att'[b].java = att[b].java
                                    /\ b # a => att'[b] = att[b]
             /\ att'[a].pc = "idle"
  <2>1. Returned(att[a]).java = att[a].java /\ Returned(att[a]).pc = "idle"
    BY <1>r DEF Returned, NoAttempt, AttemptType
  <2> QED BY <1>t, <1>r, <2>1 DEF Return
<1>a. att[a].pc # "idle" => state.active = att[a].id
  BY DEF OneInv, Entitled, Running
<1>1. CASE StartResize(a)
  <2>1. /\ state' = [state EXCEPT !.phase = "Resizing"] /\ Goto(a, "sizing")
        /\ att[a].pc = "resize" /\ UNCHANGED <<mem, drain>>
    BY <1>1, <1>a DEF StartResize, IfActive, Save
  <2>2. state'.phase = "Resizing" /\ state'.active = state.active
    BY <2>1, <1>s, StateFields
  <2> QED BY <1>s, <2>1, <2>2, <1>g, OneStartMoves DEF mem, Early
<1>2. CASE SizerEnsure(a)
  <2>1. att[a].pc = "sizing" /\ UNCHANGED <<state, mem, drain>>
    BY <1>2 DEF SizerEnsure
  <2>2. CASE \E pc \in {"sized", "fail"} : Goto(a, pc)
    <3>1. PICK pc \in {"sized", "fail"} : Goto(a, pc)
      BY <2>2
    <3> QED BY <1>s, <2>1, <3>1, <1>g, OneStartMoves DEF mem, Early
  <2>3. CASE Return(a)
    BY <1>s, <2>1, <2>3, <1>t, OneStartReturns DEF mem
  <2> QED BY <1>2, <2>2, <2>3 DEF SizerEnsure
<1>3. CASE SizerPanic(a)
  BY <1>3, OneHalt DEF SizerPanic
<1>4. CASE StartSized(a)
  <2> DEFINE ph == IF att[a].recovery THEN "Recovering" ELSE "Loading"
  <2>1. /\ state' = [state EXCEPT !.phase = ph] /\ Goto(a, "prepare")
        /\ att[a].pc = "sized" /\ UNCHANGED <<mem, drain>>
    BY <1>4, <1>a DEF StartSized, IfActive, Save
  <2>2. state'.phase = ph /\ state'.active = state.active
    BY <2>1, <1>s, StateFields
  <2> QED BY <1>s, <2>1, <2>2, <1>g, OneStartMoves DEF mem, Early
<1>5. CASE Prepare(a)
  <2>1. PICK h : att' = [att EXCEPT ![a].head = h, ![a].pc = AfterHead(att[a].id, h)]
    BY <1>5 DEF Prepare
  <2> DEFINE pc == AfterHead(att[a].id, h)
  <2>2. pc \in {"identity", "fail", "restore"}
    BY DEF AfterHead
  <2>3. att[a].pc = "prepare" /\ UNCHANGED <<state, mem, drain>>
    BY <1>5 DEF Prepare
  <2> HIDE DEF pc
  <2>4. att' = [att EXCEPT ![a].head = h, ![a].pc = pc]
    BY <2>1 DEF pc
  <2>5. \A b \in Attempts : /\ att'[b].id = att[b].id /\ att'[b].java = att[b].java
                            /\ att'[b].pc = IF b = a THEN pc ELSE att[b].pc
    BY <2>4, <1>r DEF Attempt, AttemptType
  <2> QED BY <1>s, <2>2, <2>3, <2>5, OneStartMoves DEF mem, Early
<1>6. CASE Restore(a)
  <2>1. PICK pc \in {"identity", "fail"} : Goto(a, pc)
    BY <1>6 DEF Restore
  <2>2. att[a].pc = "restore" /\ UNCHANGED <<state, mem, drain>>
    BY <1>6 DEF Restore
  <2> QED BY <1>s, <2>1, <2>2, <1>g, OneStartMoves DEF mem, Early
<1>7. CASE Identify(a)
  <2>1. /\ \E g, b : state' = [state EXCEPT !.gen = g, !.pending = b]
        /\ Goto(a, "launch") /\ att[a].pc = "identity" /\ UNCHANGED <<mem, drain>>
    BY <1>7 DEF Identify, Save
  <2>2. state'.phase = state.phase /\ state'.active = state.active
    BY <2>1, <1>s, StateFields
  <2> QED BY <1>s, <2>1, <2>2, <1>g, OneStartMoves DEF mem, Early
<1>8. CASE Launch(a)
  <2>1. /\ att' = [att EXCEPT ![a].pc = "publish", ![a].java = "loading"] /\ att[a].pc = "launch"
        /\ UNCHANGED <<persisted, mem, drain>>
    BY <1>8 DEF Launch
  <2>2. \A b \in Attempts : /\ att'[b].id = att[b].id
                            /\ att'[b].java = IF b = a THEN "loading" ELSE att[b].java
                            /\ att'[b].pc = IF b = a THEN "publish" ELSE att[b].pc
    BY <2>1, <1>r DEF Attempt, AttemptType
  <2>3. a \in Running /\ Running' = Running /\ process = None
    <3>0. att[a].pc = "launch"
      BY <2>1
    <3>1. \A b \in Attempts : (att'[b].pc # "idle") <=> (att[b].pc # "idle")
      BY <3>0, <2>2
    <3> QED BY <2>1, <3>1 DEF Running, OneInv, Entitled, Early
  <2>4. \A d \in Leaving : ~Begun(d) /\ (Begun(d)' <=> Begun(d))
    BY <2>1, <2>3 DEF OneInv, Exclusive, Begun
  <2>5. Exclusive' /\ Entitled'
    BY <2>1, <2>2, <2>3, <2>4 DEF OneInv, Exclusive, Entitled, Leaving, persisted, mem
  <2>6. Owned'
    BY <2>1, <2>2, <2>3, <2>4 DEF OneInv, Owned, Live, persisted, mem
  <2>7. UNCHANGED <<state, process, expectedStop, main, drain>>
    BY <2>1 DEF persisted, mem
  <2>8. main # "draining" => \A b \in Attempts : att'[b].java \notin Going
    BY <2>2, <2>3 DEF OneInv, Orderly, Going
  <2>9. Orderly' /\ Quenched'
    BY <1>s, <2>3, <2>4, <2>7, <2>8 DEF OneInv, Orderly, Quenched
  <2> QED BY <2>5, <2>6, <2>9 DEF OneInv
<1>9. CASE LaunchFails(a)
  <2>1. /\ att[a].pc \in {"prepare", "identity", "launch"} /\ Goto(a, "fail")
        /\ UNCHANGED <<state, mem, drain>>
    BY <1>9 DEF LaunchFails
  <2> QED BY <1>s, <2>1, <1>g, OneStartMoves DEF mem, Early
<1>10. CASE Publish(a)
  <2>1. /\ process' = a /\ expectedStop' = FALSE /\ Goto(a, "poll") /\ att[a].pc = "publish"
        /\ UNCHANGED <<persisted, main, drain>>
    BY <1>10, <1>a DEF Publish
  <2>2. \A b \in Attempts : /\ att'[b].id = att[b].id /\ att'[b].java = att[b].java
                            /\ att'[b].pc = IF b = a THEN "poll" ELSE att[b].pc
    BY <2>1, <1>g
  <2>3. a \in Running /\ Running' = Running /\ process = None
    BY <2>1, <2>2 DEF Running, OneInv, Entitled, Early
  <2>4. \A d \in Leaving : ~Begun(d) /\ (Begun(d)' <=> Begun(d))
    BY <2>1, <2>3 DEF OneInv, Exclusive, Begun
  <2>5. Exclusive' /\ Entitled'
    BY <2>1, <2>2, <2>3, <2>4 DEF OneInv, Exclusive, Entitled, Leaving, Running, Early, persisted
  <2>6. \A b \in Attempts : Live(b) => b = a
    BY <2>3, <1>r DEF OneInv, Owned, Exclusive, Running
  <2>7. \A d \in Leaving : drain[d].pc \in {"idle", "begin"}
    BY <2>4 DEF Begun
  <2>8. Owned'
    BY <2>1, <2>2, <2>3, <2>6, <2>7 DEF OneInv, Owned, Live, AfterStop, persisted, Entitled
  <2>9. Orderly' /\ Quenched'
    BY <1>s, <2>1, <2>2, <2>3, <2>4, <2>7
       DEF OneInv, Orderly, Quenched, Going, persisted, Drains, Leaving
  <2> QED BY <2>5, <2>8, <2>9 DEF OneInv
<1>11. CASE PollAnswered(a)
  <2>1. Goto(a, "ready") /\ att[a].pc = "poll" /\ UNCHANGED <<persisted, mem, drain>>
    BY <1>11 DEF PollAnswered
  <2> QED BY <1>s, <2>1, <1>g, OneStartMoves DEF mem, persisted, Early
<1>12. CASE PollReady(a)
  <2>1. /\ state' = [state EXCEPT !.phase = "Ready"] /\ Return(a) /\ att[a].pc = "ready"
        /\ UNCHANGED <<mem, drain>>
    BY <1>12, <1>a DEF PollReady, Save
  <2>2. state'.phase = "Ready" /\ state'.active = state.active
    BY <2>1, <1>s, StateFields
  <2> QED BY <1>s, <2>1, <2>2, <1>t, OneStartReturns DEF mem
<1>13. CASE PollTimeout(a)
  <2>1. /\ att' = [att EXCEPT ![a] = [Killed(att[a]) EXCEPT !.pc = "fail"]] /\ att[a].pc = "poll"
        /\ UNCHANGED <<state, mem, drain>>
    BY <1>13 DEF PollTimeout
  <2>2. ~Live(a)
    BY <1>13 DEF PollTimeout, Fault, Calm
  <2>3. Killed(att[a]) = att[a]
    BY <2>2 DEF Killed, Live
  <2>4. \A b \in Attempts : /\ att'[b].id = att[b].id /\ att'[b].java = att[b].java
                            /\ att'[b].pc = IF b = a THEN "fail" ELSE att[b].pc
    BY <2>1, <2>3, <1>r DEF Attempt, AttemptType
  <2> QED BY <1>s, <2>1, <2>4, OneStartMoves DEF mem, Early
<1>14. CASE StartFail(a)
  <2>1. /\ state' = [state EXCEPT !.phase = "Failed", !.active = att[a].id] /\ Return(a)
        /\ att[a].pc = "fail" /\ UNCHANGED <<mem, drain>>
    BY <1>14 DEF StartFail, Save, FailedState
  <2>2. state'.phase = "Failed" /\ state'.active = state.active
    BY <2>1, <1>a, <1>s DEF States
  <2> QED BY <1>s, <2>1, <2>2, <1>t, OneStartReturns DEF mem
<1> QED BY <1>1, <1>2, <1>3, <1>4, <1>5, <1>6, <1>7, <1>8, <1>9, <1>10, <1>11, <1>12, <1>13,
           <1>14 DEF Start

\* The servers and waitProcess().
LEMMA OneJava ==
    ASSUME Calm, IndInv, OneInv, NEW a \in Attempts, Java(a)
    PROVE  OneInv'
<1>r. att[a] \in AttemptType /\ att \in [Attempts -> Attempt]
  BY DEF IndInv, AttOK, Attempt
<1>s. state \in States /\ Leaving \subseteq Drains /\ main # "off"
  BY Awake DEF IndInv, OneInv, PersistedOK, Leaving, Drains
<1>1. CASE JavaUp(a) \/ JavaExit(a)
  <2>1. PICK j : att' = [att EXCEPT ![a].java = j]
    BY <1>1 DEF JavaUp, JavaExit
  <2>2. UNCHANGED <<state, mem, drain>>
    BY <1>1 DEF JavaUp, JavaExit, persisted
  <2>3. \A b \in Attempts : /\ att'[b].id = att[b].id /\ att'[b].pc = att[b].pc
                            /\ att'[b].java = IF b = a THEN j ELSE att[b].java
    BY <2>1, <1>r DEF Attempt, AttemptType
  <2>4. (att[a].java = "loading" /\ att'[a].java = "up")
        \/ (att[a].java \in {"stopping", "killed"} /\ att'[a].java = "exited")
    BY <1>1, <1>r DEF JavaUp, JavaExit, Fault, Calm, Attempt, AttemptType
  <2>5. Running' = Running /\ \A d \in Drains : Begun(d)' <=> Begun(d)
    BY <2>2, <2>3 DEF Running, Begun
  <2>6. Exclusive' /\ Entitled'
    BY <1>s, <2>2, <2>3, <2>5 DEF OneInv, Exclusive, Entitled, mem, Drains, Running
  <2>7. \A b \in Attempts : /\ Live(b)' => Live(b)
                            /\ att'[b].java \in Going => att[b].java \in Going
    BY <2>3, <2>4 DEF Live, LiveJava, Going
  <2>8. Owned'
    BY <2>2, <2>3, <2>7 DEF OneInv, Owned, mem
  <2>9. Orderly' /\ Quenched'
    BY <1>s, <2>2, <2>5, <2>7 DEF OneInv, Orderly, Quenched, mem
  <2> QED BY <2>6, <2>8, <2>9 DEF OneInv
<1>2. CASE WaitProcess(a)
  <2> DEFINE r == IF att[a].pc = "idle" THEN NoAttempt ELSE [att[a] EXCEPT !.java = "none"]
  <2>1. att' = [att EXCEPT ![a] = r] /\ att[a].java = "exited" /\ UNCHANGED <<main, drain>>
    BY <1>2 DEF WaitProcess
  <2>2. r.pc = att[a].pc /\ r.java = "none" /\ (att[a].pc # "idle" => r.id = att[a].id)
    BY <1>r DEF NoAttempt, AttemptType
  <2> HIDE DEF r
  <2>3. \A b \in Attempts : /\ b # a => att'[b] = att[b]
                            /\ att'[b].pc = att[b].pc
                            /\ att'[b].pc # "idle" => att'[b].id = att[b].id
                            /\ att'[b].java = IF b = a THEN "none" ELSE att[b].java
    BY <2>1, <2>2, <1>r
  <2>4. Running' = Running /\ \A d \in Drains : Begun(d)' <=> Begun(d)
    BY <2>1, <2>3 DEF Running, Begun
  <2>5. \/ /\ process = a /\ process' = None /\ expectedStop' = FALSE
           /\ \/ expectedStop /\ UNCHANGED state
              \/ ~expectedStop /\ state' = [state EXCEPT !.phase = "Failed"]
        \/ process # a /\ UNCHANGED <<process, expectedStop, state>>
    BY <1>2 DEF WaitProcess, Save, persisted
  <2>6. /\ state'.active = state.active /\ state'.phase \in {state.phase, "Failed"}
        /\ state'.phase # state.phase => process = a /\ ~expectedStop
    <3>1. CASE state' = [state EXCEPT !.phase = "Failed"]
      BY <3>1, <2>5, <1>s, StateFields
    <3> QED BY <2>5, <3>1
  <2>7. process' = process \/ process' = None
    BY <2>5
  <2>8. Exclusive' /\ Entitled'
    BY <1>s, <2>3, <2>4, <2>6, <2>7 DEF OneInv, Exclusive, Entitled, Leaving, Running
  <2>9. Owned'
    BY <2>1, <2>3, <2>5, <2>6, <2>7, <1>s DEF OneInv, Owned, Live, LiveJava
  <2>10. main # "draining" => process = a /\ expectedStop
    BY <2>1 DEF OneInv, Orderly, Going
  <2>11. main # "draining" => process' = None /\ state'.phase = state.phase
    BY <2>10, <2>5
  <2>12. main # "draining" => \A b \in Attempts : att'[b].java \notin Going
    BY <2>3, <2>10 DEF OneInv, Orderly, Going
  <2>13. main # "draining" => \A d \in Drains : drain[d].pc # "stop"
    BY <2>1 DEF OneInv, Orderly, Going
  <2>14. Orderly' /\ Quenched'
    BY <1>s, <2>1, <2>4, <2>11, <2>12, <2>13 DEF OneInv, Orderly, Quenched
  <2> QED BY <2>8, <2>9, <2>14 DEF OneInv
<1> QED BY <1>1, <1>2 DEF Java

\* stopAndBackup().
LEMMA OneStopAndBackup ==
    ASSUME Calm, IndInv, OneInv, NEW d \in Drains, StopAndBackup(d)
    PROVE  OneInv'
<1>r. att \in [Attempts -> Attempt] /\ drain \in [Drains -> DrainType]
  BY DEF IndInv, AttOK, DrainOK
<1>s. /\ state \in States /\ Leaving \subseteq Drains /\ main # "off"
      /\ "shutdown" \in Drains /\ Drains = Leaving \cup {"shutdown"}
  BY Awake DEF IndInv, OneInv, PersistedOK, Leaving, Drains, Drain
<1>g. ASSUME NEW pc, Step(d, pc)
      PROVE  \A e \in Drains : drain'[e].pc = IF e = d THEN pc ELSE drain[e].pc
  BY <1>g, <1>r DEF Step, DrainType
<1>l. d \notin Leaving /\ drain[d].pc # "idle" => main = "draining"
  BY <1>s DEF OneInv, Orderly
<1>1. CASE Saving(d)
  <2>1. /\ drain' = [drain EXCEPT ![d].id = state.active, ![d].proc = process, ![d].pc = AfterSaving]
        /\ state' = [state EXCEPT !.phase = "Saving"]
        /\ drain[d].pc = "saving" /\ UNCHANGED <<mem, att>>
    BY <1>1 DEF Saving, Save
  <2>2. state'.phase = "Saving" /\ state'.active = state.active
    BY <2>1, <1>s, StateFields
  <2>3. \A e \in Drains : drain'[e].pc = IF e = d THEN AfterSaving ELSE drain[e].pc
    BY <2>1, <1>r DEF DrainType
  <2>4. AfterSaving \in {"commit", "saveall"} /\ (AfterSaving = "commit" <=> process = None)
    BY DEF AfterSaving
  <2>5. Running' = Running /\ \A e \in Drains : Begun(e)' <=> Begun(e)
    BY <2>1, <2>3, <2>4 DEF Running, Begun
  <2>6. Exclusive' /\ Entitled'
    BY <1>s, <2>1, <2>2, <2>5 DEF OneInv, Exclusive, Entitled, mem, Drains
  <2>7. Owned'
    <3>1. process' = process /\ att' = att
      BY <2>1 DEF mem
    <3>2. \A a \in Attempts : Live(a)' => process' = a \/ att'[a].pc = "publish"
      BY <3>1 DEF OneInv, Owned, Live
    <3>3. ASSUME NEW e \in Leaving, drain'[e].pc \in AfterStop PROVE process' = None
      <4>1. CASE e = d
        BY <1>s, <2>3, <2>4, <3>1, <3>3, <4>1 DEF AfterStop
      <4>2. CASE e # d
        BY <1>s, <2>3, <3>1, <3>3, <4>2 DEF OneInv, Owned
      <4> QED BY <4>1, <4>2
    <3> QED BY <2>2, <3>2, <3>3 DEF Owned
  <2>8. main # "draining" => \A b \in Attempts : att[b].java \notin Going
    BY <2>1 DEF OneInv, Orderly
  <2>9. Quenched' /\ main' = main /\ att' = att
    BY <1>s, <2>1 DEF Quenched, mem
  <2>10. ASSUME main # "draining" PROVE drain'["shutdown"].pc = "idle"
    <3>1. drain["shutdown"].pc = "idle" /\ "shutdown" # d
      BY <1>s, <1>l, <2>1, <2>10 DEF OneInv, Orderly
    <3> QED BY <1>s, <2>3, <3>1
  <2>11. state'.phase # "Failed"
    BY <2>2
  <2>12. ASSUME main # "draining", NEW e \in Drains
         PROVE  /\ drain'[e].pc = "stop" => expectedStop'
                /\ drain'[e].pc = "waitstop" => expectedStop' \/ process' = None
    <3>1. expectedStop' = expectedStop /\ process' = process
      BY <2>1 DEF mem
    <3>2. /\ drain'[e].pc = "stop" => drain[e].pc = "stop"
          /\ drain'[e].pc = "waitstop" => drain[e].pc = "waitstop"
      BY <2>3, <2>4
    <3> QED BY <2>12, <3>1, <3>2 DEF OneInv, Orderly
  <2>13. Orderly'
    BY <2>2, <2>8, <2>9, <2>10, <2>11, <2>12 DEF Orderly
  <2> QED BY <2>6, <2>7, <2>9, <2>13 DEF OneInv
<1>2. CASE SaveAll(d)
  <2>1. /\ drain[d].pc = "saveall" /\ Begun(d)
        /\ UNCHANGED <<state, process, expectedStop, main, att>>
    BY <1>2 DEF SaveAll, Begun, mem
  <2>2. PICK pc \in {"expect", "error"} : Step(d, pc)
    BY <1>2 DEF SaveAll
  <2>3. \A e \in Drains : drain'[e].pc = IF e = d THEN pc ELSE drain[e].pc
    BY <2>2, <1>g
  <2> QED BY <1>s, <2>1, <2>2, <2>3, OneAdvance DEF AfterStop
<1>12. CASE ExpectStop(d)
  <2>1. /\ drain[d].pc = "expect" /\ UNCHANGED <<state, process, main, att>>
        /\ expectedStop' = TRUE /\ Step(d, "stop")
    BY <1>12 DEF ExpectStop, persisted
  <2>2. \A e \in Drains : drain'[e].pc = IF e = d THEN "stop" ELSE drain[e].pc
    BY <2>1, <1>g
  <2>3. Running' = Running /\ \A e \in Drains : Begun(e)' <=> Begun(e)
    BY <2>1, <2>2 DEF Running, Begun
  <2>4. Exclusive' /\ Entitled'
    BY <1>s, <2>1, <2>3 DEF OneInv, Exclusive, Entitled, Drains
  <2>5. Owned'
    BY <1>s, <2>1, <2>2 DEF OneInv, Owned, Live, AfterStop
  <2>6. main # "draining" => \A b \in Attempts : att[b].java \notin Going
    BY <2>1 DEF OneInv, Orderly
  <2>7. Orderly' /\ Quenched'
    BY <1>s, <1>l, <2>1, <2>2, <2>3, <2>6 DEF OneInv, Orderly, Quenched
  <2> QED BY <2>4, <2>5, <2>7 DEF OneInv
<1>3. CASE StopCommand(d)
  <2>1. drain[d].pc = "stop" /\ UNCHANGED <<state, process, expectedStop, main>> /\ Begun(d)
    BY <1>3 DEF StopCommand, Begun, mem
  <2>2. CASE /\ \E b \in Up : att' = [att EXCEPT ![b].java = "stopping"]
             /\ Step(d, "waitstop")
    <3>1. PICK b \in Up : att' = [att EXCEPT ![b].java = "stopping"]
      BY <2>2
    <3>2. b \in Attempts /\ att[b].java = "up"
      BY <3>1 DEF Up
    <3>3. \A c \in Attempts : /\ att'[c].id = att[c].id /\ att'[c].pc = att[c].pc
                              /\ att'[c].java = IF c = b THEN "stopping" ELSE att[c].java
      BY <3>1, <1>r DEF Attempt, AttemptType
    <3>4. \A e \in Drains : drain'[e].pc = IF e = d THEN "waitstop" ELSE drain[e].pc
      BY <2>2, <1>g
    <3>5. Running' = Running /\ \A e \in Drains : Begun(e)' <=> Begun(e)
      BY <2>1, <3>3, <3>4 DEF Running, Begun
    <3>6. Exclusive'
      BY <1>s, <2>1, <3>5 DEF OneInv, Exclusive, Drains
    <3>7. Entitled'
      BY <2>1, <3>3, <3>5 DEF OneInv, Entitled, Running
    <3>8. \A c \in Attempts : Live(c)' => Live(c)
      BY <3>2, <3>3 DEF Live, LiveJava
    <3>9. Owned'
      BY <1>s, <2>1, <3>3, <3>4, <3>8 DEF OneInv, Owned, AfterStop
    <3>10. ASSUME main # "draining" PROVE Orderly' /\ Quenched'
      <4>1. d \in Leaving /\ Running = {} /\ state.phase # "Ready"
        BY <1>s, <1>l, <2>1, <3>10 DEF OneInv, Exclusive
      <4>2. process = b /\ expectedStop
        BY <2>1, <3>2, <4>1, <3>10 DEF OneInv, Owned, Live, LiveJava, Running, Orderly
      <4>3. \A c \in Attempts : att[c].java \notin Going
        BY <2>1, <3>10 DEF OneInv, Orderly
      <4>4. \A e \in Drains \ {d} : drain[e].pc \in {"idle", "begin"}
        BY <1>s, <2>1, <4>1, <3>10 DEF OneInv, Exclusive, Orderly, Begun, Leaving
      <4> QED BY <1>s, <2>1, <2>2, <3>3, <3>4, <3>5, <3>10, <4>1, <4>2, <4>3, <4>4
              DEF OneInv, Orderly, Quenched
    <3>11. ASSUME main = "draining" PROVE Orderly' /\ Quenched'
      BY <2>1, <3>11, OneClosing
    <3> QED BY <3>6, <3>7, <3>9, <3>10, <3>11 DEF OneInv
  <2>3. CASE UNCHANGED att /\ Step(d, "unexpect")
    <3>1. \A e \in Drains : drain'[e].pc = IF e = d THEN "unexpect" ELSE drain[e].pc
      BY <2>3, <1>g
    <3> QED BY <1>s, <2>1, <2>3, <3>1, OneAdvance DEF AfterStop
  <2> QED BY <1>3, <2>2, <2>3 DEF StopCommand, AfterStopError, Fault, Calm
<1>13. CASE UnexpectStop(d)
  <2>1. /\ drain[d].pc = "unexpect" /\ UNCHANGED <<state, process, main, att>>
        /\ expectedStop' = FALSE /\ Step(d, "error")
    BY <1>13 DEF UnexpectStop, persisted
  <2>2. \A e \in Drains : drain'[e].pc = IF e = d THEN "error" ELSE drain[e].pc
    BY <2>1, <1>g
  <2>3. Running' = Running /\ Begun(d) /\ \A e \in Drains : Begun(e)' <=> Begun(e)
    BY <2>1, <2>2 DEF Running, Begun
  <2>4. Exclusive' /\ Entitled'
    BY <1>s, <2>1, <2>3 DEF OneInv, Exclusive, Entitled, Drains
  <2>5. Owned'
    BY <1>s, <2>1, <2>2 DEF OneInv, Owned, Live, AfterStop
  <2>6. ASSUME main # "draining" PROVE Orderly' /\ Quenched'
    <3>1. d \in Leaving
      BY <1>s, <1>l, <2>1, <2>3, <2>6
    <3>2. \A c \in Attempts : att[c].java \notin Going
      BY <2>1, <2>6 DEF OneInv, Orderly
    <3>3. \A e \in Drains \ {d} : drain[e].pc \in {"idle", "begin"}
      BY <1>s, <2>3, <2>6, <3>1 DEF OneInv, Exclusive, Orderly, Begun, Leaving
    <3> QED BY <1>s, <2>1, <2>2, <2>3, <2>6, <3>1, <3>2, <3>3 DEF OneInv, Orderly, Quenched
  <2>7. ASSUME main = "draining" PROVE Orderly' /\ Quenched'
    BY <2>1, <2>7, OneClosing
  <2> QED BY <2>4, <2>5, <2>6, <2>7 DEF OneInv
<1>4. CASE WaitStopped(d)
  <2>1. /\ drain' = [drain EXCEPT ![d].pc = "commit", ![d].proc = None] /\ process = None
        /\ Begun(d) /\ UNCHANGED <<persisted, mem, att>>
    BY <1>4 DEF WaitStopped, Stopped, Begun
  <2>2. \A e \in Drains : drain'[e].pc = IF e = d THEN "commit" ELSE drain[e].pc
    BY <2>1, <1>r DEF DrainType
  <2> QED BY <1>s, <2>1, <2>2, OneAdvance DEF persisted, mem
<1>5. CASE StopTimeout(d)
  <2>1. /\ att' = [att EXCEPT ![drain[d].proc] = Killed(att[drain[d].proc])]
        /\ drain' = [drain EXCEPT ![d].pc = "error", ![d].proc = None]
        /\ drain[d].pc = "waitstop" /\ process # None /\ UNCHANGED <<state, mem>>
    BY <1>5 DEF StopTimeout
  <2>2. \A e \in Drains : drain'[e].pc = IF e = d THEN "error" ELSE drain[e].pc
    BY <2>1, <1>r DEF DrainType
  <2>3. \A c \in Attempts :
           /\ Killed(att[c]).id = att[c].id /\ Killed(att[c]).pc = att[c].pc
           /\ Killed(att[c]).java = IF Live(c) THEN "killed" ELSE att[c].java
    BY <1>r DEF Killed, Live, Attempt, AttemptType
  <2>4. \A c \in Attempts : /\ att'[c].id = att[c].id /\ att'[c].pc = att[c].pc
                            /\ \/ att'[c].java = att[c].java
                               \/ att'[c].java = "killed" /\ Live(c)
    BY <2>1, <2>3, <1>r
  <2>0. /\ drain[d].pc = "waitstop" /\ process # None
        /\ UNCHANGED <<state, process, expectedStop, main>>
    BY <2>1 DEF mem
  <2>5. Running' = Running /\ \A e \in Drains : Begun(e)' <=> Begun(e)
    BY <2>0, <2>2, <2>4 DEF Running, Begun
  <2>6. Exclusive'
    BY <1>s, <2>0, <2>5 DEF OneInv, Exclusive, Drains
  <2>7. Entitled'
    BY <2>0, <2>4, <2>5 DEF OneInv, Entitled, Running
  <2>8. \A c \in Attempts : Live(c)' => Live(c)
    BY <2>4 DEF Live
  <2>9. Owned'
    BY <1>s, <2>0, <2>2, <2>4, <2>8 DEF OneInv, Owned, AfterStop
  <2>10. ASSUME main # "draining" PROVE Orderly' /\ Quenched'
    <3>1. d \in Leaving /\ Begun(d)
      BY <1>s, <1>l, <2>1, <2>10 DEF Begun
    <3>2. Running = {} /\ state.phase # "Ready" /\ expectedStop
      BY <2>1, <3>1, <2>10 DEF OneInv, Exclusive, Orderly
    <3>3. \A e \in Drains \ {d} : drain[e].pc \in {"idle", "begin"}
      BY <1>s, <3>1, <2>10 DEF OneInv, Exclusive, Orderly, Begun, Leaving
    <3>4. \A c \in Attempts : Live(c) => process = c
      BY <3>2 DEF OneInv, Owned, Running
    <3>5. \A c \in Attempts : att'[c].java \in Going => process = c
      BY <2>4, <3>4, <2>10 DEF OneInv, Orderly
    <3> QED BY <1>s, <2>0, <2>2, <2>5, <2>10, <3>1, <3>2, <3>3, <3>5
            DEF OneInv, Orderly, Quenched
  <2>11. ASSUME main = "draining" PROVE Orderly' /\ Quenched'
    BY <2>1, <2>11, OneClosing DEF mem
  <2> QED BY <2>6, <2>7, <2>9, <2>10, <2>11 DEF OneInv
<1>6. CASE CommitHead(d)
  <2>1. PICK pc \in {"archive", "commitErr"} :
           drain' = [drain EXCEPT ![d].gen = state.gen, ![d].pc = pc]
    BY <1>6 DEF CommitHead, AfterCompare
  <2>2. drain[d].pc = "commit" /\ UNCHANGED <<state, mem, att>>
    BY <1>6 DEF CommitHead
  <2>3. \A e \in Drains : drain'[e].pc = IF e = d THEN pc ELSE drain[e].pc
    BY <2>1, <1>r DEF DrainType
  <2> QED BY <1>s, <2>2, <2>3, OneAdvance DEF mem, AfterStop, Begun
<1>7. CASE CommitArchive(d)
  <2>1. PICK pc \in {"record", "commitErr"} : Step(d, pc)
    BY <1>7 DEF CommitArchive
  <2>2. drain[d].pc = "archive" /\ UNCHANGED <<state, mem, att>>
    BY <1>7 DEF CommitArchive
  <2> QED BY <1>s, <1>g, <2>1, <2>2, OneAdvance DEF mem, AfterStop, Begun
<1>8. CASE CommitFailed(d)
  <2>1. /\ state' = [state EXCEPT !.pending = TRUE] /\ Step(d, "error")
        /\ drain[d].pc = "commitErr" /\ UNCHANGED <<mem, att>>
    BY <1>8 DEF CommitFailed, Save
  <2>2. state'.phase = state.phase /\ state'.active = state.active
    BY <2>1, <1>s, StateFields
  <2> QED BY <1>s, <1>g, <2>1, <2>2, OneAdvance DEF mem, AfterStop, Begun
<1>9. CASE CommitRecorded(d)
  <2>1. /\ state' = [state EXCEPT !.gen = drain[d].gen + 1, !.pending = FALSE]
        /\ Step(d, AfterBackup) /\ AfterBackup \in {"evict", "finish"}
        /\ drain[d].pc = "record" /\ UNCHANGED <<mem, att>>
    BY <1>9 DEF CommitRecorded, Save, AfterBackup
  <2>2. state'.phase = state.phase /\ state'.active = state.active
    BY <2>1, <1>s, StateFields
  <2> QED BY <1>s, <1>g, <2>1, <2>2, OneAdvance DEF mem, AfterStop, Begun
<1>10. CASE Evict(d)
  <2>1. Step(d, "evicting") /\ drain[d].pc = "evict" /\ UNCHANGED <<persisted, mem, att>>
    BY <1>10 DEF Evict
  <2> QED BY <1>s, <1>g, <2>1, OneAdvance DEF persisted, mem, AfterStop, Begun
<1>11. CASE Evicted(d)
  <2>1. PICK pc \in {"finish", "error"} : Step(d, pc)
    BY <1>11 DEF Evicted
  <2>2. drain[d].pc = "evicting" /\ UNCHANGED <<state, mem, att>>
    BY <1>11 DEF Evicted
  <2> QED BY <1>s, <1>g, <2>1, <2>2, OneAdvance DEF mem, AfterStop, Begun
<1> QED BY <1>1, <1>2, <1>3, <1>4, <1>5, <1>6, <1>7, <1>8, <1>9, <1>10, <1>11, <1>12, <1>13
       DEF StopAndBackup

\* The goroutines around stopAndBackup().
LEMMA OneDrain ==
    ASSUME Calm, IndInv, OneInv, NEW d \in Drains, Drain(d)
    PROVE  OneInv'
<1>r. att \in [Attempts -> Attempt] /\ drain \in [Drains -> DrainType]
  BY DEF IndInv, AttOK, DrainOK
<1>s. /\ state \in States /\ Leaving \subseteq Drains /\ main # "off"
      /\ "shutdown" \in Drains /\ Drains = Leaving \cup {"shutdown"}
  BY Awake DEF IndInv, OneInv, PersistedOK, Leaving, Drains
<1>1. CASE DrainBegin(d)
  <2>1. drain[d].pc = "begin" /\ UNCHANGED <<mem, att>>
    BY <1>1 DEF DrainBegin
  <2>2. CASE /\ state.phase = "Ready" /\ state' = [state EXCEPT !.phase = "Draining"]
             /\ Step(d, "saving")
    <3>1. state'.phase = "Draining" /\ state'.active = state.active
      BY <2>2, <1>s, StateFields
    <3>2. \A e \in Drains : drain'[e].pc = IF e = d THEN "saving" ELSE drain[e].pc
      BY <2>2, <1>r DEF Step, DrainType
    <3>3. Running = {} /\ \A e \in Leaving : ~Begun(e)
      BY <2>2 DEF OneInv, Entitled, Exclusive
    <3>4. \A e \in Leaving : drain[e].pc \in {"idle", "begin"}
      BY <3>3 DEF Begun
    <3>5. Running' = {}
      BY <2>1, <3>3 DEF Running
    <3>6. UNCHANGED <<process, expectedStop, main, att>> /\ state.phase = "Ready"
      BY <2>1, <2>2 DEF mem
    <3>7. Exclusive' /\ Entitled'
      BY <1>s, <3>1, <3>2, <3>4, <3>5 DEF Exclusive, Entitled, Begun, Leaving, Drains
    <3>8. Owned'
      BY <1>s, <3>1, <3>2, <3>4, <3>6 DEF OneInv, Owned, Live, AfterStop
    <3>9. ASSUME main # "draining" PROVE Orderly' /\ Quenched'
      <4>1. d \in Leaving /\ drain["shutdown"].pc = "idle" /\ d # "shutdown"
        BY <1>s, <2>1, <3>9 DEF OneInv, Orderly, Leaving
      <4>2. \A b \in Attempts : att[b].java \notin Going
        BY <3>6, <3>9 DEF OneInv, Orderly
      <4>3. \A e \in Drains : drain'[e].pc \notin {"stop", "waitstop"}
        BY <1>s, <3>2, <3>4, <4>1
      <4> QED BY <1>s, <3>1, <3>2, <3>5, <3>6, <3>9, <4>1, <4>2, <4>3 DEF Orderly, Quenched
    <3>10. ASSUME main = "draining" PROVE Orderly' /\ Quenched'
      BY <3>6, <3>10, OneClosing
    <3> QED BY <3>7, <3>8, <3>9, <3>10 DEF OneInv
  <2>3. CASE drain' = [drain EXCEPT ![d] = NoDrain] /\ UNCHANGED persisted
    <3>1. \A e \in Drains : drain'[e].pc = IF e = d THEN "idle" ELSE drain[e].pc
      BY <2>3, <1>r DEF NoDrain
    <3> QED BY <1>s, <2>1, <2>3, <3>1, OneGone DEF persisted, mem
  <2> QED BY <1>1, <2>2, <2>3 DEF DrainBegin, Save
<1>2. CASE StopAndBackup(d)
  BY <1>2, OneStopAndBackup
<1>3. CASE IdleStopped \/ DrainFailed(d)
  <2> DEFINE e == IF IdleStopped THEN "idle" ELSE d
  <2>1. /\ e \in Leaving /\ Begun(e) /\ drain' = [drain EXCEPT ![e] = NoDrain]
        /\ UNCHANGED <<process, expectedStop, main, att>>
        /\ drain[e].pc = "finish" \/ drain[e].pc = "error"
    BY <1>3, <1>s DEF IdleStopped, DrainFailed, Leaving, Begun
  <2>2. state'.phase = "Failed" \/ (state'.phase = "Idle" /\ process = None)
    <3>1. CASE IdleStopped
      BY <3>1, <1>s, StateFields DEF IdleStopped, Save, OneInv, Owned, Leaving, AfterStop
    <3>2. CASE DrainFailed(d)
      BY <3>2, <1>s DEF DrainFailed, Save, FailedState, States
    <3> QED BY <1>3, <3>1, <3>2
  <2> HIDE DEF e
  <2>3. \A c \in Drains : drain'[c].pc = IF c = e THEN "idle" ELSE drain[c].pc
    BY <2>1, <1>r, <1>s DEF NoDrain
  <2>4. Running = {} /\ Running' = {}
    BY <2>1 DEF OneInv, Exclusive, Running
  <2>5. \A c \in Leaving : ~Begun(c)'
    BY <1>s, <2>1, <2>3 DEF OneInv, Exclusive, Begun, Leaving
  <2>6. Exclusive' /\ Entitled'
    BY <2>4, <2>5 DEF Exclusive, Entitled, Leaving
  <2>7. Owned'
    BY <1>s, <2>1, <2>2, <2>5 DEF OneInv, Owned, Live, AfterStop, Begun
  <2>8. ASSUME main # "draining" PROVE Orderly' /\ Quenched'
    <3>1. \A c \in Drains : drain'[c].pc \in {"idle", "begin"}
      BY <1>s, <2>1, <2>3, <2>5, <2>8 DEF OneInv, Orderly, Begun
    <3>2. \A a \in Attempts : att[a].java \in Going => process = a /\ expectedStop
      BY <2>8 DEF OneInv, Orderly
    <3>3. drain'["shutdown"].pc = "idle" /\ state'.phase # "Ready"
      BY <1>s, <2>1, <2>2, <2>3, <2>8 DEF OneInv, Orderly
    <3> QED BY <1>s, <2>1, <2>4, <2>5, <2>8, <3>1, <3>2, <3>3 DEF Orderly, Quenched
  <2>9. ASSUME main = "draining" PROVE Orderly' /\ Quenched'
    BY <2>1, <2>9, OneClosing
  <2> QED BY <2>6, <2>7, <2>8, <2>9 DEF OneInv
<1>4. CASE Switched
  <2>1. /\ state' = LoadingState(drain["switch"].caller) /\ GoStart(drain["switch"].caller, FALSE)
        /\ drain' = [drain EXCEPT !["switch"] = NoDrain] /\ drain["switch"].pc = "finish"
        /\ UNCHANGED mem
    BY <1>4 DEF Switched, Save
  <2>2. drain["switch"].caller \in Packs
    BY <2>1 DEF IndInv, DrainOK
  <2>3. state'.phase = "Loading" /\ state'.active = drain["switch"].caller
    BY <2>1, <1>s, StateFields
  <2>4. Begun("switch") /\ "switch" \in Leaving
    BY <2>1 DEF Begun, Leaving
  <2>5. Running = {} /\ process = None /\ ~Begun("idle")
    BY <2>1, <2>4 DEF OneInv, Exclusive, Owned, AfterStop
  <2>6. \A c \in Drains : drain'[c].pc = IF c = "switch" THEN "idle" ELSE drain[c].pc
    BY <2>1, <1>r DEF NoDrain
  <2>7. \A c \in Leaving : drain'[c].pc \in {"idle", "begin"}
    BY <1>s, <2>5, <2>6 DEF Leaving, Begun
  <2>8. UNCHANGED <<process, expectedStop, main>>
    BY <2>1 DEF mem
  <2>9. \A c \in Drains : drain'[c].pc \in {drain[c].pc, "idle"}
    BY <2>6
  <2>10. GoStart(drain["switch"].caller, FALSE) /\ main' # "off"
         /\ (main = "draining" <=> main' = "draining")
    BY <1>s, <2>1, <2>8
  <2> QED BY <2>2, <2>3, <2>5, <2>7, <2>8, <2>9, <2>10, OneGoStart
<1>5. CASE ShutdownDone
  BY <1>5, OneHalt DEF ShutdownDone
<1> QED BY <1>1, <1>2, <1>3, <1>4, <1>5 DEF Drain

\* tick().
LEMMA OneTick ==
    ASSUME IndInv, OneInv, Tick
    PROVE  OneInv'
<1>s. state \in States /\ main # "off" /\ drain \in [Drains -> DrainType]
  BY Awake DEF IndInv, OneInv, PersistedOK, DrainOK
<1>1. CASE TickExit \/ TickRead \/ TickQuery
  BY <1>s, <1>1, OneFrame DEF TickExit, TickRead, TickQuery, persisted, mem
<1>2. CASE TickApply
  <2>1. PICK e : state' = [state EXCEPT !.empty = e]
    BY <1>2 DEF TickApply, Save
  <2>2. state'.phase = state.phase /\ state'.active = state.active
    BY <2>1, <1>s, StateFields
  <2>3. UNCHANGED <<process, expectedStop, main, att>>
    BY <1>2 DEF TickApply, mem
  <2>4. CASE UNCHANGED drain
    BY <1>s, <2>2, <2>3, <2>4, OneFrame
  <2>5. CASE /\ drain["idle"].pc = "idle"
             /\ drain' = [drain EXCEPT !["idle"] = [NoDrain EXCEPT !.pc = "begin",
                                                                   !.caller = tick.id]]
    <3>1. \A d \in Drains : drain'[d].pc = IF d = "idle" THEN "begin" ELSE drain[d].pc
      BY <2>5, <1>s DEF NoDrain
    <3> QED BY <1>s, <2>2, <2>3, <2>5, <3>1, OneBegin DEF Leaving
  <2> QED BY <1>2, <2>4, <2>5 DEF TickApply
<1> QED BY <1>1, <1>2 DEF Tick

\* Every step keeps one start() or one drain at work.
LEMMA OneNext == ASSUME Calm PROVE IndInv /\ OneInv /\ [Next]_vars => OneInv'
<1> SUFFICES ASSUME IndInv, OneInv, [Next]_vars PROVE OneInv'
  OBVIOUS
<1>s. state \in States
  BY DEF IndInv, PersistedOK
<1>1. CASE UNCHANGED vars
  BY <1>1, OneFrame DEF vars, persisted, mem
<1>2. CASE Connect \/ Leave \/ Touch \/ Quiesce
  BY <1>2, OneFrame DEF Connect, Leave, Touch, Quiesce, persisted, mem
<1>3. CASE Elapse
  <2>1. state' = Older(state) /\ UNCHANGED <<mem, att, drain, tick>>
    BY <1>3 DEF Elapse
  <2>2. state'.phase = state.phase /\ state'.active = state.active
    BY <2>1, <1>s, StateFields
  <2> QED BY <2>1, <2>2, OneFrame DEF mem
<1> QED BY <1>1, <1>2, <1>3, OneMain, OneLogin, OneStart, OneJava, OneDrain, OneTick DEF Next

\* The goroutines keep out of each other's way, whatever else goes wrong.
THEOREM OneInvariance == ASSUME Calm PROVE Spec => []OneInv
<1>1. Init => OneInv
  BY OneInit
<1>2. IndInv /\ OneInv /\ [Next]_vars => OneInv'
  BY OneNext
<1> QED BY <1>1, <1>2, Invariance, PTL DEF Spec

\* "Only one pack and world can be active at a time": no two server processes
\* exist together (OneServer), however Ensure, switchTo, the idle stop of tick,
\* Shutdown, crashes and restarts interleave.
THEOREM OneServerRuns == ASSUME Calm PROVE Spec => []OneServer
<1>1. OneInv => OneServer
  <2> SUFFICES ASSUME OneInv, NEW a \in Attempts, NEW b \in Attempts, Live(a), Live(b)
               PROVE  a = b
    BY DEF OneServer
  <2>1. (process = a \/ att[a].pc = "publish") /\ (process = b \/ att[b].pc = "publish")
    BY DEF OneInv, Owned
  <2>2. \A c \in Attempts : att[c].pc = "publish" => c \in Running /\ process = None
    BY DEF OneInv, Entitled, Running, Early
  <2>3. None \notin Attempts
    OBVIOUS
  <2> QED BY <2>1, <2>2, <2>3 DEF OneInv, Exclusive
<1> QED BY <1>1, OneInvariance, PTL

----------------------------------------------------------------------------
\* Servers and the Machine's size

\* start() from the sizer's approval on.
Approved == {"sized", "prepare", "restore", "identity", "launch", "publish", "poll", "ready"}

\* Between an update of the Machine's config and the reboot that applies it no
\* start() and no drain is at work, and nothing lets one begin.
Resized ==
    /\ main # "off" /\ Running = {} /\ process = None
    /\ state.phase \notin {"Idle", "Ready"}
    /\ main # "draining" => state.phase # "Failed"
    /\ \A d \in Leaving : ~Begun(d)

SizeInv ==
    /\ ~updated => vmSize = cfgSize
    /\ updated => Resized
    /\ \A a \in Attempts : att[a].pc \in Approved \/ Live(a) => vmSize = MachineSize[att[a].id]

\* The end of the process brings the VM up to the config.
LEMMA SizeHalt == Halt => SizeInv'
<1> SUFFICES ASSUME Halt PROVE SizeInv'
  OBVIOUS
<1>1. /\ vmSize' = cfgSize /\ cfgSize' = cfgSize /\ updated' = FALSE
      /\ \A a \in Attempts : att'[a] = NoAttempt
  BY DEF Halt
<1>2. \A a \in Attempts : att'[a].pc = "idle" /\ att'[a].java = "none"
  BY <1>1 DEF NoAttempt
<1> QED BY <1>1, <1>2 DEF SizeInv, Approved, Live, LiveJava

\* Other steps: no server or approved start() comes out of nowhere.
LEMMA SizeFrame ==
    ASSUME SizeInv, UNCHANGED fly, updated => Resized',
           \A a \in Attempts : att'[a].pc \in Approved \/ Live(a)' =>
              att'[a].id = att[a].id /\ (att[a].pc \in Approved \/ Live(a))
    PROVE  SizeInv'
<1>1. UNCHANGED cfgSize /\ UNCHANGED vmSize /\ (updated' <=> updated)
  BY DEF fly
<1>2. (~updated => vmSize = cfgSize)' /\ (updated => Resized)'
  BY <1>1 DEF SizeInv
<1>3. \A a \in Attempts : (att[a].pc \in Approved \/ Live(a) => vmSize = MachineSize[att[a].id])'
  BY <1>1 DEF SizeInv
<1> QED BY <1>2, <1>3 DEF SizeInv

\* A reboot is all that the Machine waits for, except that Shutdown may finish
\* a drain of its own.
LEMMA StaysResized ==
    ASSUME Calm, IndInv, OneInv, Resized, [Next]_vars, ~Halt
    PROVE  Resized'
<1>s. /\ state \in States /\ drain \in [Drains -> DrainType] /\ Leaving \subseteq Drains
      /\ Drains = Leaving \cup {"shutdown"} /\ main # "off"
  BY DEF IndInv, PersistedOK, DrainOK, Leaving, Drains, Resized
<1>a. \A a \in Attempts : att[a].pc = "idle" /\ ~Live(a)
  BY DEF Resized, Running, OneInv, Owned
<1>d. \A d \in Drains : drain[d].pc \notin {"idle", "begin"} => d = "shutdown" /\ main = "draining"
  BY <1>s DEF Resized, Begun, OneInv, Orderly
<1>k. ASSUME UNCHANGED <<state, process, main, att, drain>> PROVE Resized'
  BY <1>k DEF Resized, Running, Begun
<1>p. ASSUME state'.phase \in {state.phase, "Saving"}, UNCHANGED <<process, main, att>>,
             \A d \in Leaving : drain'[d].pc \in {drain[d].pc, "idle", "begin"}
      PROVE  Resized'
  <2>1. \A d \in Leaving : ~Begun(d)'
    BY <1>p DEF Resized, Begun
  <2>2. Running' = {}
    BY <1>p DEF Resized, Running
  <2>3. state'.phase \notin {"Idle", "Ready"} /\ (main # "draining" => state'.phase # "Failed")
    BY <1>p DEF Resized
  <2> QED BY <1>p, <2>1, <2>2, <2>3 DEF Resized
<1>1. CASE UNCHANGED vars
  BY <1>1, <1>k DEF vars, persisted, mem
<1>2. CASE Boot \/ Main \/ Crash \/ Reboot
  <2>1. ~Boot /\ ~ShutdownNothing /\ ~Crash /\ ~Reboot
    BY <1>s DEF Boot, Interrupted, ShutdownNothing, Crash, Reboot
  <2>2. ~ShutdownBegin
    BY DEF Resized, ShutdownBegin
  <2>3. CASE StopServing
    BY <2>3 DEF StopServing, Resized, Running, Begun
  <2> QED BY <1>2, <2>1, <2>2, <2>3 DEF Main
<1>3. CASE \E id \in Packs : Ensure(id)
  <2>1. PICK id \in Packs : Ensure(id)
    BY <1>3
  <2>2. main # "draining"
    BY <2>1 DEF Ensure, EnsureIdle, EnsureRetry, EnsureReady, EnsureSwitch, EnsureRefused, Login, Calm
  <2>3. state.phase \notin {"Idle", "Ready", "Failed"}
    BY <2>2 DEF Resized
  <2>4. EnsureRefused(id)
    BY <2>1, <2>3 DEF Ensure, EnsureIdle, EnsureRetry, EnsureReady, EnsureSwitch, Vacant, Retryable,
                      ReadyFor
  <2> QED BY <2>4, <1>k DEF EnsureRefused, persisted, mem
<1>4. CASE Connect \/ Leave \/ Touch \/ Quiesce
  BY <1>4, <1>k DEF Connect, Leave, Touch, Quiesce, persisted, mem
<1>5. CASE Elapse
  <2>1. state' = Older(state) /\ UNCHANGED <<mem, att, drain>>
    BY <1>5 DEF Elapse
  <2>2. state'.phase = state.phase
    BY <2>1, <1>s, StateFields
  <2> QED BY <2>1, <2>2, <1>p DEF mem
<1>6. ASSUME NEW a \in Attempts, Start(a) \/ Java(a) PROVE Resized'
  <2>1. ~Start(a)
    BY <1>a DEF Start, StartResize, SizerEnsure, SizerPanic, StartSized, Prepare, Restore, Identify,
                Launch, LaunchFails, Publish, PollAnswered, PollReady, PollTimeout, StartFail
  <2>2. att[a].java \notin {"loading", "up", "stopping", "killed"}
    BY <1>a DEF Live, LiveJava
  <2>3. ~JavaUp(a) /\ ~JavaExit(a)
    BY <2>2 DEF JavaUp, JavaExit
  <2>4. WaitProcess(a)
    BY <1>6, <2>1, <2>3 DEF Java
  <2>5. /\ att' = [att EXCEPT ![a] = NoAttempt]
        /\ UNCHANGED <<process, state, main, drain>>
    BY <2>4, <1>a DEF WaitProcess, Resized, persisted
  <2>6. \A b \in Attempts : att'[b].pc = "idle"
    BY <2>5, <1>a DEF NoAttempt, IndInv, AttOK
  <2> QED BY <2>5, <2>6 DEF Resized, Running, Begun
<1>7. ASSUME NEW d \in Drains, Drain(d) PROVE Resized'
  <2>1. CASE DrainBegin(d)
    <3>1. drain' = [drain EXCEPT ![d] = NoDrain] /\ UNCHANGED <<persisted, mem, att>>
      BY <2>1 DEF DrainBegin, Resized
    <3>2. \A e \in Leaving : drain'[e].pc \in {drain[e].pc, "idle"}
      BY <1>s, <3>1 DEF NoDrain
    <3> QED BY <3>1, <3>2, <1>p DEF persisted, mem
  <2>2. CASE IdleStopped \/ Switched
    BY <2>2, <1>d, <1>s DEF IdleStopped, Switched, Drains, Leaving
  <2>3. CASE DrainFailed(d)
    BY <2>3, <1>d DEF DrainFailed
  <2>4. CASE ShutdownDone
    BY <2>4 DEF ShutdownDone
  <2>5. CASE StopAndBackup(d)
    <3>1. d = "shutdown" /\ drain[d].pc \notin {"idle", "begin"} /\ main = "draining"
      BY <2>5, <1>d
         DEF StopAndBackup, Saving, SaveAll, ExpectStop, StopCommand, UnexpectStop, WaitStopped,
             StopTimeout, CommitHead, CommitArchive, CommitFailed, CommitRecorded, Evict, Evicted
    <3>2. Up = {} /\ process = None
      BY <1>a DEF Up, Live, LiveJava, Resized
    <3>3. UNCHANGED <<process, main, att>>
      BY <2>5, <3>2
         DEF StopAndBackup, Saving, SaveAll, ExpectStop, StopCommand, UnexpectStop, WaitStopped,
             StopTimeout, CommitHead, CommitArchive, CommitFailed, CommitRecorded, Evict, Evicted, mem
    <3>4. \A e \in Leaving : drain'[e] = drain[e]
      <4>1. \A e \in Leaving : e # d
        BY <3>1 DEF Leaving
      <4> QED BY <2>5, <4>1, <1>s
         DEF StopAndBackup, Saving, SaveAll, ExpectStop, StopCommand, UnexpectStop, WaitStopped,
             StopTimeout, CommitHead, CommitArchive, CommitFailed, CommitRecorded, Evict, Evicted, Step
    <3>5. CASE Saving(d) \/ CommitFailed(d) \/ CommitRecorded(d)
      <4>1. state'.phase \in {state.phase, "Saving"}
        <5>1. CASE state' = [state EXCEPT !.phase = "Saving"]
          BY <5>1, <1>s, StateFields
        <5>2. CASE state' = [state EXCEPT !.pending = TRUE]
          BY <5>2, <1>s, StateFields
        <5>3. CASE state' = [state EXCEPT !.gen = drain[d].gen + 1, !.pending = FALSE]
          BY <5>3, <1>s, StateFields
        <5> QED BY <3>5, <5>1, <5>2, <5>3 DEF Saving, CommitFailed, CommitRecorded, Save
      <4> QED BY <3>3, <3>4, <4>1, <1>p
    <3>6. CASE UNCHANGED state
      BY <3>3, <3>4, <3>6, <1>p
    <3> QED BY <2>5, <3>5, <3>6
       DEF StopAndBackup, SaveAll, ExpectStop, StopCommand, UnexpectStop, WaitStopped, StopTimeout,
           CommitHead, CommitArchive, Evict, Evicted, persisted
  <2> QED BY <1>7, <2>1, <2>2, <2>3, <2>4, <2>5 DEF Drain
<1>8. CASE TickExit \/ TickRead \/ TickQuery
  BY <1>8, <1>k DEF TickExit, TickRead, TickQuery, persisted, mem
<1>9. CASE TickApply
  <2>1. PICK e : state' = [state EXCEPT !.empty = e]
    BY <1>9 DEF TickApply, Save
  <2>2. state'.phase = state.phase
    BY <2>1, <1>s, StateFields
  <2>3. \A d \in Leaving : drain'[d].pc \in {drain[d].pc, "begin"}
    BY <1>9, <1>s DEF TickApply, NoDrain
  <2> QED BY <1>9, <2>2, <2>3, <1>p DEF TickApply, mem
<1> QED BY <1>1, <1>2, <1>3, <1>4, <1>5, <1>6, <1>7, <1>8, <1>9 DEF Next, Tick

\* Every step: only flymachine.Client.Ensure touches the config, and it does so
\* when no server exists.
LEMMA SizeNext ==
    ASSUME Calm, "flyErr" \notin Faults
    PROVE  IndInv /\ OneInv /\ SizeInv /\ [Next]_vars => SizeInv'
<1> SUFFICES ASSUME IndInv, OneInv, SizeInv, [Next]_vars, ~Halt PROVE SizeInv'
  BY SizeHalt
<1>r. att \in [Attempts -> Attempt]
  BY DEF IndInv, AttOK
<1>u. updated => Resized'
  BY StaysResized DEF SizeInv
<1>k. ASSUME UNCHANGED <<att, fly>> PROVE SizeInv'
  BY <1>k, <1>u, SizeFrame DEF Live
<1>n. ASSUME NEW id, NEW recovery, GoStart(id, recovery), UNCHANGED fly PROVE SizeInv'
  <2> DEFINE new == [NoAttempt EXCEPT !.pc = "resize", !.id = id, !.recovery = recovery]
  <2>1. PICK a \in FreeAttempts : att' = [att EXCEPT ![a] = new]
    BY <1>n DEF GoStart
  <2>2. new.pc = "resize" /\ new.java = "none" /\ a \in Attempts
    BY <2>1 DEF NoAttempt, FreeAttempts
  <2> HIDE DEF new
  <2>3. \A b \in Attempts : att'[b] = IF b = a THEN new ELSE att[b]
    BY <2>1, <2>2, <1>r
  <2> QED BY <1>n, <1>u, <2>2, <2>3, SizeFrame DEF Approved, Live, LiveJava
<1>1. CASE UNCHANGED vars
  BY <1>1, <1>k DEF vars
<1>2. CASE Boot \/ Main \/ Crash \/ Reboot
  <2>1. CASE Boot
    BY <2>1, <1>k, <1>n DEF Boot, Interrupted
  <2>2. CASE Main
    BY <2>2, <1>k DEF Main, StopServing, ShutdownBegin, ShutdownNothing
  <2> QED BY <1>2, <2>1, <2>2 DEF Crash, Reboot
<1>3. CASE \E id \in Packs : Ensure(id)
  <2>1. PICK id \in Packs : Ensure(id)
    BY <1>3
  <2>2. CASE EnsureIdle(id) \/ EnsureRetry(id)
    BY <2>2, <1>n DEF EnsureIdle, EnsureRetry
  <2> QED BY <2>1, <2>2, <1>k DEF Ensure, EnsureReady, EnsureSwitch, EnsureRefused
<1>4. CASE Connect \/ Leave \/ Touch \/ Quiesce \/ Elapse \/ Tick
  BY <1>4, <1>k DEF Connect, Leave, Touch, Quiesce, Elapse, Tick, TickExit, TickRead, TickQuery,
                    TickApply
<1>5. ASSUME NEW a \in Attempts, Start(a) PROVE SizeInv'
  <2>1. att[a].pc # "idle" /\ a \in Running /\ ~updated
    <3>1. att[a].pc # "idle"
      BY <1>5 DEF Start, StartResize, SizerEnsure, SizerPanic, StartSized, Prepare, Restore, Identify,
                  Launch, LaunchFails, Publish, PollAnswered, PollReady, PollTimeout, StartFail
    <3> QED BY <3>1 DEF Running, SizeInv, Resized
  <2>2. att[a] \in Attempt /\ att[a] \in AttemptType
    BY <1>r DEF Attempt
  <2>g. ASSUME NEW pc, Goto(a, pc), pc \in Approved => att[a].pc \in Approved, UNCHANGED fly
        PROVE  SizeInv'
    <3>1. \A b \in Attempts : /\ att'[b].id = att[b].id /\ att'[b].java = att[b].java
                              /\ att'[b].pc = IF b = a THEN pc ELSE att[b].pc
      BY <2>g, <1>r DEF Goto, Attempt, AttemptType
    <3> QED BY <1>u, <2>g, <3>1, SizeFrame DEF Live
  <2>t. ASSUME Return(a)
        PROVE  \A b \in Attempts : att'[b].pc \in Approved \/ Live(b)' =>
                  att'[b].id = att[b].id /\ (att[b].pc \in Approved \/ Live(b))
    <3>1. /\ Returned(att[a]).java = att[a].java /\ Returned(att[a]).pc = "idle"
          /\ att[a].java # "none" => Returned(att[a]).id = att[a].id
      BY <2>2 DEF Returned, NoAttempt, AttemptType
    <3>2. \A b \in Attempts : att'[b] = IF b = a THEN Returned(att[a]) ELSE att[b]
      BY <2>t, <1>r DEF Return
    <3> QED BY <3>1, <3>2 DEF Approved, Live, LiveJava
  <2>3. CASE SizerEnsure(a)
    <3>1. att[a].pc = "sizing" /\ UNCHANGED <<state, mem, drain, vmSize>> /\ main # "off"
      BY <2>3, Awake DEF SizerEnsure, Start, OneInv
    <3>2. process = None /\ Running = {a}
      BY <2>1, <3>1 DEF OneInv, Entitled, Exclusive, Early
    <3>3. CASE Fits(att[a].id) /\ Goto(a, "sized") /\ UNCHANGED <<cfgSize, updated>>
      <4>1. vmSize = MachineSize[att[a].id]
        BY <2>1, <3>3 DEF SizeInv, Fits
      <4>2. \A b \in Attempts : /\ att'[b].id = att[b].id /\ att'[b].java = att[b].java
                                /\ att'[b].pc = IF b = a THEN "sized" ELSE att[b].pc
        BY <3>3, <1>r DEF Goto, Attempt, AttemptType
      <4>3. \A b \in Attempts : att'[b].pc \in Approved \/ Live(b)' => vmSize' = MachineSize[att'[b].id]
        BY <3>1, <4>1, <4>2 DEF SizeInv, Live
      <4> QED BY <2>1, <3>1, <3>3, <4>3 DEF SizeInv
    <3>4. CASE ~Fits(att[a].id) /\ updated' = TRUE /\ Return(a)
      <4>1. \A b \in Attempts : b # a => att'[b] = att[b]
        BY <3>4, <1>r DEF Return
      <4>2. att'[a].pc = "idle"
        BY <3>4, <1>r, <2>2 DEF Return, Returned, NoAttempt, AttemptType
      <4>3. Running' = {}
        BY <3>2, <4>1, <4>2 DEF Running
      <4>4. \A d \in Leaving : ~Begun(d)
        BY <3>2 DEF OneInv, Exclusive
      <4>5. Resized'
        BY <3>1, <3>2, <4>3, <4>4 DEF Resized, OneInv, Entitled, Orderly, mem, Begun
      <4>6. \A b \in Attempts : att'[b].pc \in Approved \/ Live(b)' => vmSize' = MachineSize[att'[b].id]
        BY <2>t, <3>1, <3>4 DEF SizeInv
      <4> QED BY <3>4, <4>5, <4>6 DEF SizeInv
    <3> QED BY <2>3, <3>3, <3>4 DEF SizerEnsure, Fault
  <2>4. CASE StartResize(a) \/ StartSized(a)
    <3>1. UNCHANGED fly /\ att[a].pc \in {"resize", "sized"}
          /\ (Return(a) \/ Goto(a, "sizing") \/ (Goto(a, "prepare") /\ att[a].pc = "sized"))
      BY <2>4 DEF StartResize, StartSized, IfActive
    <3>2. CASE Return(a)
      BY <1>u, <2>t, <3>1, <3>2, SizeFrame
    <3> QED BY <2>g, <3>1, <3>2 DEF Approved
  <2>5. CASE Prepare(a)
    <3>1. PICK h : att' = [att EXCEPT ![a].head = h, ![a].pc = AfterHead(att[a].id, h)]
      BY <2>5 DEF Prepare
    <3>2. att[a].pc \in Approved /\ UNCHANGED fly
      BY <2>5 DEF Prepare, Approved
    <3>3. \A b \in Attempts : /\ att'[b].id = att[b].id /\ att'[b].java = att[b].java
                              /\ b # a => att'[b].pc = att[b].pc
      BY <3>1, <1>r DEF Attempt, AttemptType
    <3> QED BY <1>u, <3>2, <3>3, SizeFrame DEF Live
  <2>6. CASE Restore(a) \/ Identify(a) \/ LaunchFails(a) \/ PollAnswered(a)
    <3>1. UNCHANGED fly /\ att[a].pc \in Approved /\ \E pc : Goto(a, pc)
      BY <2>6 DEF Restore, Identify, LaunchFails, PollAnswered, Approved
    <3> QED BY <2>g, <3>1
  <2>7. CASE Launch(a)
    <3>1. /\ att' = [att EXCEPT ![a].pc = "publish", ![a].java = "loading"]
          /\ att[a].pc \in Approved /\ UNCHANGED fly
      BY <2>7 DEF Launch, Approved
    <3>2. \A b \in Attempts : att'[b].id = att[b].id /\ (b # a => att'[b] = att[b])
      BY <3>1, <1>r DEF Attempt, AttemptType
    <3> QED BY <1>u, <3>1, <3>2, SizeFrame DEF Live
  <2>8. CASE Publish(a) \/ PollTimeout(a)
    <3>1. PICK r \in {[att[a] EXCEPT !.pc = "poll"], Returned(Killed(att[a])),
                      [Killed(att[a]) EXCEPT !.pc = "fail"]} : att' = [att EXCEPT ![a] = r]
      BY <2>8 DEF Publish, PollTimeout, Goto
    <3>2. UNCHANGED fly /\ att[a].pc \in Approved
      BY <2>8 DEF Publish, PollTimeout, Approved
    <3>3. r.pc \in Approved \/ r.java # "none" => r.id = att[a].id
      <4>1. Killed(att[a]) \in AttemptType /\ Killed(att[a]).id = att[a].id
        BY <2>2 DEF Killed, AttemptType, JavaStates
      <4>2. ASSUME NEW q \in AttemptType, q.id = att[a].id
            PROVE  /\ [q EXCEPT !.pc = "poll"].id = att[a].id
                   /\ [q EXCEPT !.pc = "fail"].id = att[a].id
                   /\ Returned(q).pc \in Approved \/ Returned(q).java # "none"
                      => Returned(q).id = att[a].id
        BY <4>2 DEF Returned, NoAttempt, Approved, AttemptType
      <4> QED BY <3>1, <2>2, <4>1, <4>2
    <3>4. \A b \in Attempts : att'[b] = IF b = a THEN r ELSE att[b]
      BY <3>1, <1>r
    <3> QED BY <1>u, <3>2, <3>3, <3>4, SizeFrame DEF Live, LiveJava
  <2>9. CASE PollReady(a) \/ StartFail(a)
    BY <1>u, <2>9, <2>t, SizeFrame DEF PollReady, StartFail
  <2> QED BY <1>5, <2>3, <2>4, <2>5, <2>6, <2>7, <2>8, <2>9 DEF Start, SizerPanic
<1>6. ASSUME NEW a \in Attempts, Java(a) PROVE SizeInv'
  <2>1. PICK r : att' = [att EXCEPT ![a] = r] /\ (r.java # "none" => r.id = att[a].id)
                 /\ (r.pc = att[a].pc) /\ (r.pc # "idle" => r.id = att[a].id)
                 /\ (r.java \in LiveJava => Live(a))
    <3>1. att[a] \in AttemptType
      BY <1>r DEF Attempt
    <3>2. CASE JavaUp(a) \/ JavaExit(a)
      <4>1. PICK j \in {"up", "exited"} : att' = [att EXCEPT ![a] = [att[a] EXCEPT !.java = j]]
        BY <3>2 DEF JavaUp, JavaExit
      <4>2. j = "up" => Live(a)
        BY <4>1, <3>2, <3>1, <1>r DEF JavaUp, JavaExit, Live, LiveJava
      <4>3. [att[a] EXCEPT !.java = j].id = att[a].id /\ [att[a] EXCEPT !.java = j].pc = att[a].pc
            /\ [att[a] EXCEPT !.java = j].java = j
        BY <3>1 DEF AttemptType
      <4> QED BY <4>1, <4>2, <4>3 DEF LiveJava
    <3>3. CASE WaitProcess(a)
      <4> DEFINE q == IF att[a].pc = "idle" THEN NoAttempt ELSE [att[a] EXCEPT !.java = "none"]
      <4>1. att' = [att EXCEPT ![a] = q]
        BY <3>3 DEF WaitProcess
      <4>2. q.java = "none" /\ q.pc = att[a].pc /\ (q.pc # "idle" => q.id = att[a].id)
        BY <3>1 DEF NoAttempt, AttemptType
      <4> HIDE DEF q
      <4> QED BY <4>1, <4>2 DEF LiveJava
    <3> QED BY <1>6, <3>2, <3>3 DEF Java
  <2>2. UNCHANGED fly
    BY <1>6 DEF Java, JavaUp, JavaExit, WaitProcess
  <2>3. \A b \in Attempts : att'[b] = IF b = a THEN r ELSE att[b]
    BY <2>1, <1>r
  <2> QED BY <1>u, <2>1, <2>2, <2>3, SizeFrame DEF Live, LiveJava, Approved
<1>7. ASSUME NEW d \in Drains, Drain(d) PROVE SizeInv'
  <2>1. CASE UNCHANGED <<att, fly>>
    BY <2>1, <1>k
  <2>2. CASE Switched
    BY <2>2, <1>n DEF Switched
  <2>3. CASE StopCommand(d) \/ StopTimeout(d)
    <3>1. UNCHANGED fly
      BY <2>3 DEF StopCommand, StopTimeout
    <3>2. \A b \in Attempts : /\ att'[b].id = att[b].id /\ att'[b].pc = att[b].pc
                              /\ Live(b)' => Live(b)
      <4>1. CASE UNCHANGED att
        BY <4>1 DEF Live
      <4>2. ASSUME NEW b \in Up, att' = [att EXCEPT ![b].java = "stopping"]
            PROVE  \A c \in Attempts : /\ att'[c].id = att[c].id /\ att'[c].pc = att[c].pc
                                       /\ Live(c)' => Live(c)
        BY <4>2, <1>r DEF Up, Live, LiveJava, Attempt, AttemptType
      <4>3. CASE StopTimeout(d)
        <5>1. att' = [att EXCEPT ![drain[d].proc] = Killed(att[drain[d].proc])]
          BY <4>3 DEF StopTimeout
        <5>2. \A c \in Attempts :
                 /\ Killed(att[c]).id = att[c].id /\ Killed(att[c]).pc = att[c].pc
                 /\ Killed(att[c]).java \in LiveJava => Live(c)
          BY <1>r DEF Killed, Live, Attempt, AttemptType
        <5> QED BY <5>1, <5>2, <1>r DEF Live
      <4> QED BY <2>3, <4>1, <4>2, <4>3 DEF StopCommand
    <3> QED BY <1>u, <3>1, <3>2, SizeFrame
  <2> QED BY <1>7, <2>1, <2>2, <2>3
          DEF Drain, DrainBegin, IdleStopped, ShutdownDone, DrainFailed, StopAndBackup, Saving,
              SaveAll, ExpectStop, UnexpectStop, WaitStopped, CommitHead, CommitArchive,
              CommitFailed, CommitRecorded, Evict, Evicted
<1> QED BY <1>1, <1>2, <1>3, <1>4, <1>5, <1>6, <1>7 DEF Next

\* The first boot has the VM of the config.
LEMMA SizeInit == Init => SizeInv
<1> SUFFICES ASSUME Init PROVE SizeInv
  OBVIOUS
<1>1. \A a \in Attempts : att[a].pc = "idle" /\ att[a].java = "none"
  BY DEF Init, NoAttempt
<1> QED BY <1>1 DEF Init, SizeInv, Approved, Live, LiveJava

\* flymachine: "starting a large pack in an undersized VM is unsafe". A server
\* only runs in a VM with the resources of its pack (SizedLaunch), also when
\* logins, switches and reboots cross, as long as no call of the Machines API
\* reports an error after its update was applied (flyErr): the retry of a login
\* would then find the config as it should be and start before the reboot.
THEOREM ServersFit == ASSUME Calm, "flyErr" \notin Faults PROVE Spec => []SizedLaunch
<1>1. Init => SizeInv
  BY SizeInit
<1>2. IndInv /\ OneInv /\ SizeInv /\ [Next]_vars => SizeInv'
  BY SizeNext
<1>3. SizeInv => SizedLaunch
  BY DEF SizeInv, SizedLaunch
<1> QED BY <1>1, <1>2, <1>3, Invariance, OneInvariance, PTL DEF Spec

\* Only the sizer changes the Machine's config.
LEMMA ConfigSteps ==
    ASSUME [Next]_vars, \A a \in Attempts : ~SizerEnsure(a)
    PROVE  UNCHANGED cfgSize
<1>1. CASE \E a \in Attempts : Start(a)
  BY <1>1 DEF Start, StartResize, SizerPanic, StartSized, Prepare, Restore, Identify, Launch,
              LaunchFails, Publish, PollAnswered, PollReady, PollTimeout, StartFail, Halt, fly
<1>2. CASE \E a \in Attempts : Java(a)
  BY <1>2 DEF Java, JavaUp, JavaExit, WaitProcess, fly
<1>3. CASE \E d \in Drains : StopAndBackup(d)
  BY <1>3 DEF StopAndBackup, Saving, SaveAll, ExpectStop, StopCommand, UnexpectStop, WaitStopped,
              StopTimeout, CommitHead, CommitArchive, CommitFailed, CommitRecorded, Evict, Evicted, fly
<1>4. CASE \E d \in Drains : Drain(d) /\ ~StopAndBackup(d)
  BY <1>4 DEF Drain, DrainBegin, IdleStopped, Switched, ShutdownDone, DrainFailed, Halt, fly
<1>5. CASE Boot \/ Main \/ Crash \/ Reboot
  BY <1>5 DEF Boot, Interrupted, Main, StopServing, ShutdownNothing, ShutdownBegin, Crash, Reboot, Halt, fly
<1>6. CASE \E id \in Packs : Ensure(id)
  BY <1>6 DEF Ensure, EnsureIdle, EnsureRetry, EnsureReady, EnsureSwitch, EnsureRefused, fly
<1>7. CASE Connect \/ Leave \/ Touch \/ Quiesce \/ Elapse \/ Tick
  BY <1>7 DEF Connect, Leave, Touch, Quiesce, Elapse, Tick, TickExit, TickRead, TickQuery,
              TickApply, fly
<1>8. CASE UNCHANGED vars
  BY <1>8 DEF vars, fly
<1> QED BY <1>1, <1>2, <1>3, <1>4, <1>5, <1>6, <1>7, <1>8 DEF Next

----------------------------------------------------------------------------
\* Worlds that stay on the volume

\* The steps that end the process.
Ending == ShutdownNothing \/ Crash \/ Reboot \/ ShutdownDone \/ \E a \in Attempts : SizerPanic(a)

\* They are what Halt describes.
LEMMA EndingHalts == Ending => Halt
BY DEF Ending, ShutdownNothing, Crash, Reboot, ShutdownDone, SizerPanic

\* What takes a server from its port: its exit, another in its place, the deadline
\* of start(), a start() that finds another pack active, and a drain.
Felled(a) ==
    \/ JavaExit(a) \/ Launch(a) \/ PollTimeout(a)
    \/ Publish(a) /\ state.active # att[a].id
    \/ \E d \in Drains : StopCommand(d) \/ StopTimeout(d)

\* How servers come and go: only launcher.Start makes one, only JavaUp opens
\* its port, and only its exit ends it.
LEMMA ServerSteps ==
    ASSUME IndInv, [Next]_vars, ~Ending
    PROVE  \A a \in Attempts :
              /\ Live(a)' => Launch(a) \/ (Live(a) /\ att'[a].id = att[a].id)
              /\ att'[a].java = "up" => JavaUp(a) \/ att[a].java = "up"
              /\ Live(a) => JavaExit(a) \/ Live(a)'
              /\ att'[a].java \in {"loading", "up"} => Launch(a) \/ att[a].java \in {"loading", "up"}
              /\ att[a].java = "up" => att'[a].java = "up" \/ Felled(a)
<1> DEFINE Q(a) == /\ Live(a)' => Launch(a) \/ (Live(a) /\ att'[a].id = att[a].id)
                   /\ att'[a].java = "up" => JavaUp(a) \/ att[a].java = "up"
                   /\ Live(a) => JavaExit(a) \/ Live(a)'
                   /\ att'[a].java \in {"loading", "up"} => Launch(a) \/ att[a].java \in {"loading", "up"}
                   /\ att[a].java = "up" => att'[a].java = "up" \/ Felled(a)
<1> SUFFICES \A a \in Attempts : Q(a)
  OBVIOUS
<1>r. att \in [Attempts -> Attempt] /\ \A a \in Attempts : att[a] \in AttemptType
  BY DEF IndInv, AttOK, Attempt
<1>l. \A j : j \in LiveJava <=> j \in {"loading", "up", "stopping", "killed"}
  BY DEF LiveJava
<1>k. ASSUME UNCHANGED att PROVE \A a \in Attempts : Q(a)
  BY <1>k DEF Live
<1>e. ASSUME NEW a \in Attempts, NEW r, att' = [att EXCEPT ![a] = r],
             r.java \in LiveJava => Live(a) /\ r.id = att[a].id,
             r.java = "up" => att[a].java = "up",
             r.java = "loading" => att[a].java = "loading",
             Live(a) => r.java \in LiveJava,
             r.java = att[a].java \/ att[a].java # "up" \/ Felled(a)
      PROVE  \A b \in Attempts : Q(b)
  <2>1. \A b \in Attempts : att'[b] = IF b = a THEN r ELSE att[b]
    BY <1>e, <1>r
  <2> QED BY <1>e, <2>1 DEF Live
<1>g. ASSUME NEW a \in Attempts, NEW pc, Goto(a, pc) PROVE \A b \in Attempts : Q(b)
  <2>1. [att[a] EXCEPT !.pc = pc].java = att[a].java /\ [att[a] EXCEPT !.pc = pc].id = att[a].id
    BY <1>r DEF AttemptType
  <2>2. att' = [att EXCEPT ![a] = [att[a] EXCEPT !.pc = pc]]
    BY <1>g DEF Goto
  <2> QED BY <1>e, <2>1, <2>2 DEF Live
<1>t. ASSUME NEW a \in Attempts, NEW q \in AttemptType, att' = [att EXCEPT ![a] = Returned(q)],
             q.id = att[a].id, q.java = att[a].java \/ (q.java = "killed" /\ Live(a) /\ Felled(a))
      PROVE  \A b \in Attempts : Q(b)
  <2>1. Returned(q).java = q.java /\ (q.java # "none" => Returned(q).id = q.id)
    BY DEF Returned, NoAttempt, AttemptType
  <2>2. q.java \in LiveJava => Live(a) /\ Returned(q).id = att[a].id
    BY <1>t, <1>l, <2>1 DEF Live
  <2>3. /\ q.java = "up" => att[a].java = "up"
        /\ q.java = "loading" => att[a].java = "loading"
        /\ q.java = att[a].java \/ att[a].java # "up" \/ Felled(a)
    BY <1>t
  <2>4. Live(a) => q.java \in LiveJava
    BY <1>t, <1>l DEF Live
  <2> QED BY <1>e, <1>t, <2>1, <2>2, <2>3, <2>4
<1>n. ASSUME NEW id, NEW recovery, GoStart(id, recovery) PROVE \A a \in Attempts : Q(a)
  <2> DEFINE new == [NoAttempt EXCEPT !.pc = "resize", !.id = id, !.recovery = recovery]
  <2>1. PICK a \in FreeAttempts : att' = [att EXCEPT ![a] = new]
    BY <1>n DEF GoStart
  <2>2. new.java = "none" /\ a \in Attempts /\ att[a].java = "none"
    BY <2>1 DEF NoAttempt, FreeAttempts
  <2> HIDE DEF new
  <2> QED BY <1>e, <1>l, <2>1, <2>2 DEF Live
<1>q. \A a \in Attempts : /\ Killed(att[a]) \in AttemptType /\ Killed(att[a]).id = att[a].id
                          /\ Killed(att[a]).java = IF Live(a) THEN "killed" ELSE att[a].java
  BY <1>r DEF Killed, Live, AttemptType, JavaStates
<1>1. CASE UNCHANGED vars \/ StopServing \/ ShutdownBegin \/ Connect \/ Leave \/ Touch \/ Quiesce
           \/ Elapse \/ Tick
  BY <1>1, <1>k DEF vars, StopServing, ShutdownBegin, Connect, Leave, Touch, Quiesce, Elapse, Tick,
                    TickExit, TickRead, TickQuery, TickApply
<1>2. CASE Boot \/ \E id \in Packs : Ensure(id)
  BY <1>2, <1>k, <1>n DEF Boot, Interrupted, Ensure, EnsureIdle, EnsureRetry, EnsureReady, EnsureSwitch,
                          EnsureRefused
<1>3. ASSUME NEW a \in Attempts, Start(a) PROVE \A b \in Attempts : Q(b)
  <2>1. CASE Return(a)
    BY <1>r, <1>t, <2>1 DEF Return
  <2>2. CASE \E pc : Goto(a, pc)
    BY <1>g, <2>2
  <2>3. CASE Prepare(a)
    <3>1. PICK h : att' = [att EXCEPT ![a].head = h, ![a].pc = AfterHead(att[a].id, h)]
      BY <2>3 DEF Prepare
    <3> DEFINE r == [att[a] EXCEPT !.head = h, !.pc = AfterHead(att[a].id, h)]
    <3>2. att' = [att EXCEPT ![a] = r] /\ r.java = att[a].java /\ r.id = att[a].id
      BY <3>1, <1>r DEF AttemptType
    <3> HIDE DEF r
    <3> QED BY <1>e, <3>2 DEF Live
  <2>4. CASE Launch(a)
    <3>1. att' = [att EXCEPT ![a].pc = "publish", ![a].java = "loading"]
      BY <2>4 DEF Launch
    <3> DEFINE r == [att[a] EXCEPT !.pc = "publish", !.java = "loading"]
    <3>2. att' = [att EXCEPT ![a] = r] /\ r.java = "loading"
      BY <3>1, <1>r DEF AttemptType
    <3> HIDE DEF r
    <3>3. \A b \in Attempts : att'[b] = IF b = a THEN r ELSE att[b]
      BY <3>2, <1>r
    <3> QED BY <1>l, <2>4, <3>2, <3>3 DEF Live, Felled
  <2>5. CASE /\ Publish(a) /\ state.active # att[a].id
             /\ att' = [att EXCEPT ![a] = Returned(Killed(att[a]))]
    BY <1>q, <1>t, <2>5 DEF Felled
  <2>6. CASE PollTimeout(a)
    <3> DEFINE r == [Killed(att[a]) EXCEPT !.pc = "fail"]
    <3>1. att' = [att EXCEPT ![a] = r]
      BY <2>6 DEF PollTimeout
    <3>2. r.java = Killed(att[a]).java /\ r.id = Killed(att[a]).id
      BY <1>q DEF AttemptType
    <3> HIDE DEF r
    <3>3. r.java = IF Live(a) THEN "killed" ELSE att[a].java
      BY <1>q, <3>2
    <3>4. Felled(a)
      BY <2>6 DEF Felled
    <3> QED BY <1>e, <1>l, <1>q, <3>1, <3>2, <3>3, <3>4 DEF Live
  <2> QED BY <1>3, <2>1, <2>2, <2>3, <2>4, <2>5, <2>6
          DEF Start, StartResize, SizerEnsure, StartSized, IfActive, Restore, Identify, LaunchFails,
              Publish, PollAnswered, PollReady, StartFail, Ending
<1>4. ASSUME NEW a \in Attempts, Java(a) PROVE \A b \in Attempts : Q(b)
  <2>1. CASE JavaUp(a) \/ JavaExit(a)
    <3>1. PICK j : att' = [att EXCEPT ![a] = [att[a] EXCEPT !.java = j]]
      BY <2>1 DEF JavaUp, JavaExit
    <3>2. \A b \in Attempts : b # a => att'[b] = att[b]
      BY <3>1, <1>r
    <3>3. att'[a].id = att[a].id
      BY <3>1, <1>r DEF AttemptType
    <3>4. CASE JavaUp(a)
      <4>1. att'[a].java = "up" /\ att[a].java = "loading"
        BY <3>4, <1>r DEF JavaUp, AttemptType
      <4> QED BY <1>l, <3>2, <3>3, <3>4, <4>1 DEF Live
    <3>5. CASE JavaExit(a)
      <4>1. att'[a].java = "exited"
        BY <3>5, <1>r DEF JavaExit, AttemptType
      <4> QED BY <1>l, <3>2, <3>5, <4>1 DEF Live, Felled
    <3> QED BY <2>1, <3>4, <3>5
  <2>2. CASE WaitProcess(a)
    <3> DEFINE q == IF att[a].pc = "idle" THEN NoAttempt ELSE [att[a] EXCEPT !.java = "none"]
    <3>1. att' = [att EXCEPT ![a] = q] /\ att[a].java = "exited"
      BY <2>2 DEF WaitProcess
    <3>2. q.java = "none"
      BY <1>r DEF NoAttempt, AttemptType
    <3> HIDE DEF q
    <3> QED BY <1>e, <1>l, <3>1, <3>2 DEF Live
  <2> QED BY <1>4, <2>1, <2>2 DEF Java
<1>5. ASSUME NEW d \in Drains, Drain(d) PROVE \A b \in Attempts : Q(b)
  <2>1. CASE UNCHANGED att
    BY <1>k, <2>1
  <2>2. CASE Switched
    BY <1>n, <2>2 DEF Switched
  <2>3. CASE StopCommand(d) /\ \E b \in Up : att' = [att EXCEPT ![b].java = "stopping"]
    <3>1. PICK b \in Up : att' = [att EXCEPT ![b].java = "stopping"]
      BY <2>3
    <3>2. b \in Attempts /\ att[b].java = "up"
      BY <3>1 DEF Up
    <3> DEFINE r == [att[b] EXCEPT !.java = "stopping"]
    <3>3. att' = [att EXCEPT ![b] = r] /\ r.java = "stopping" /\ r.id = att[b].id
      BY <3>1, <3>2, <1>r DEF AttemptType
    <3> HIDE DEF r
    <3>4. Felled(b)
      BY <2>3 DEF Felled
    <3> QED BY <1>e, <1>l, <3>2, <3>3, <3>4 DEF Live
  <2>4. CASE StopTimeout(d)
    <3>1. att' = [att EXCEPT ![drain[d].proc] = Killed(att[drain[d].proc])]
      BY <2>4 DEF StopTimeout
    <3>2. \A b \in Attempts : att'[b] = IF b = drain[d].proc THEN Killed(att[b]) ELSE att[b]
      BY <3>1, <1>r
    <3>3. \A b : Felled(b)
      BY <2>4 DEF Felled
    <3> QED BY <1>l, <1>q, <3>2, <3>3 DEF Live
  <2>5. ~ShutdownDone
    BY DEF Ending
  <2> QED BY <1>5, <2>1, <2>2, <2>3, <2>4, <2>5
          DEF Drain, DrainBegin, IdleStopped, DrainFailed, StopAndBackup, Saving, SaveAll, ExpectStop,
              StopCommand, UnexpectStop, WaitStopped, CommitHead, CommitArchive, CommitFailed,
              CommitRecorded, Evict, Evicted
<1> QED BY <1>1, <1>2, <1>3, <1>4, <1>5 DEF Next, Main, Ending

\* No drain removes files.
Keeping == \A d \in Drains : drain[d].pc \notin {"evict", "evicting"}

\* The volume and the store as long as nothing is evicted: a directory is never
\* a part of a world or an old one, and a pack with a backup has its directory.
Resident ==
    /\ Keeping
    /\ \A p \in Packs : /\ local[p] \in {"absent", "current"}
                        /\ hgen[p] > 0 => local[p] = "current"
    /\ \A a \in Attempts : Live(a) => local[att[a].id] = "current"

\* Without evict_after_backup no drain gets to the removal.
LEMMA KeepingNext ==
    ASSUME EvictAfterBackup = FALSE, IndInv, Keeping, [Next]_vars
    PROVE  Keeping'
<1>r. drain \in [Drains -> DrainType]
  BY DEF IndInv, DrainOK
<1>d. NoDrain.pc = "idle"
  BY DEF NoDrain
<1>n. UNCHANGED drain => Keeping'
  BY DEF Keeping
<1>1. CASE Ending
  <2>1. \A d \in Drains : drain'[d] = NoDrain
    BY <1>1, EndingHalts DEF Halt
  <2> QED BY <2>1, <1>d DEF Keeping
<1>2. CASE UNCHANGED vars \/ Boot \/ StopServing \/ Connect \/ Leave \/ Touch \/ Quiesce \/ Elapse
           \/ TickExit \/ TickRead \/ TickQuery
  BY <1>2, <1>n
     DEF vars, Boot, Interrupted, StopServing, Connect, Leave, Touch, Quiesce, Elapse, TickExit,
         TickRead, TickQuery
<1>3. CASE ShutdownBegin \/ TickApply \/ \E id \in Packs : Ensure(id)
  <2>1. \A d \in Drains : drain'[d].pc \in {drain[d].pc, "saving", "begin"}
    <3>1. CASE UNCHANGED drain
      BY <3>1
    <3>2. CASE ShutdownBegin
      BY <3>2, <1>r DEF ShutdownBegin, DrainType
    <3>3. CASE TickApply
      BY <3>3, <1>r DEF TickApply, NoDrain
    <3>4. CASE \E id \in Packs : EnsureSwitch(id)
      BY <3>4, <1>r DEF EnsureSwitch, NoDrain
    <3> QED BY <1>3, <3>1, <3>2, <3>3, <3>4 DEF Ensure, EnsureIdle, EnsureRetry, EnsureReady,
                                                EnsureRefused
  <2> QED BY <2>1 DEF Keeping
<1>4. ASSUME NEW a \in Attempts, Start(a) \/ Java(a), ~SizerPanic(a) PROVE Keeping'
  BY <1>4, <1>n
     DEF Start, StartResize, SizerEnsure, StartSized, Prepare, Restore, Identify, Launch, LaunchFails,
         Publish, PollAnswered, PollReady, PollTimeout, StartFail, Java, JavaUp, JavaExit, WaitProcess
<1>5. ASSUME NEW d \in Drains, Drain(d), ~ShutdownDone PROVE Keeping'
  <2>e. AfterBackup = "finish" /\ ~Evict(d) /\ ~Evicted(d)
    BY DEF AfterBackup, Keeping, Evict, Evicted
  <2>1. ASSUME NEW r, drain' = [drain EXCEPT ![d] = r], r.pc \notin {"evict", "evicting"}
        PROVE  Keeping'
    <3>1. \A e \in Drains : drain'[e] = IF e = d THEN r ELSE drain[e]
      BY <2>1, <1>r
    <3> QED BY <2>1, <3>1 DEF Keeping
  <2>2. \A pc : [drain[d] EXCEPT !.pc = pc].pc = pc
    BY <1>r DEF DrainType
  <2>3. ASSUME NEW pc, Step(d, pc), pc \notin {"evict", "evicting"}
        PROVE  Keeping'
    <3>1. drain' = [drain EXCEPT ![d] = [drain[d] EXCEPT !.pc = pc]]
      BY <2>3 DEF Step
    <3> QED BY <2>1, <2>2, <2>3, <3>1
  <2>4. CASE \/ SaveAll(d) \/ ExpectStop(d) \/ StopCommand(d) \/ UnexpectStop(d)
             \/ CommitArchive(d) \/ CommitFailed(d) \/ CommitRecorded(d)
    <3>1. PICK pc \in {"expect", "stop", "unexpect", "waitstop", "error", "record", "commitErr",
                       "finish"} : Step(d, pc)
      BY <2>e, <2>4 DEF SaveAll, ExpectStop, StopCommand, AfterStopError, UnexpectStop, CommitArchive,
                        CommitFailed, CommitRecorded
    <3> QED BY <2>3, <3>1
  <2>5. CASE Saving(d)
    <3> DEFINE r == [drain[d] EXCEPT !.id = state.active, !.proc = process, !.pc = AfterSaving]
    <3>1. drain' = [drain EXCEPT ![d] = r]
      BY <2>5 DEF Saving
    <3>2. r.pc \in {"commit", "saveall"}
      BY <1>r DEF DrainType, AfterSaving
    <3> HIDE DEF r
    <3> QED BY <2>1, <3>1, <3>2
  <2>6. CASE WaitStopped(d) \/ StopTimeout(d)
    <3>1. PICK pc \in {"commit", "error"} : drain' = [drain EXCEPT ![d].pc = pc, ![d].proc = None]
      BY <2>6 DEF WaitStopped, StopTimeout
    <3> DEFINE r == [drain[d] EXCEPT !.pc = pc, !.proc = None]
    <3>2. drain' = [drain EXCEPT ![d] = r] /\ r.pc = pc
      BY <3>1, <1>r DEF DrainType
    <3> HIDE DEF r
    <3> QED BY <2>1, <3>1, <3>2
  <2>7. CASE CommitHead(d)
    <3>1. PICK pc \in {"archive", "commitErr"} :
             drain' = [drain EXCEPT ![d].gen = state.gen, ![d].pc = pc]
      BY <2>7 DEF CommitHead, AfterCompare
    <3> DEFINE r == [drain[d] EXCEPT !.gen = state.gen, !.pc = pc]
    <3>2. drain' = [drain EXCEPT ![d] = r] /\ r.pc = pc
      BY <3>1, <1>r DEF DrainType
    <3> HIDE DEF r
    <3> QED BY <2>1, <3>1, <3>2
  <2>8. CASE DrainBegin(d)
    BY <1>d, <2>1, <2>3, <2>8 DEF DrainBegin
  <2>9. CASE (d = "idle" /\ IdleStopped) \/ (d = "switch" /\ Switched) \/ DrainFailed(d)
    BY <1>d, <2>1, <2>9 DEF IdleStopped, Switched, DrainFailed
  <2>10. CASE StopAndBackup(d)
    BY <2>e, <2>4, <2>5, <2>6, <2>7, <2>10 DEF StopAndBackup
  <2> QED BY <1>5, <2>8, <2>9, <2>10, Zenon DEF Drain
<1> QED BY <1>1, <1>2, <1>3, <1>4, <1>5 DEF Next, Main, Tick, Ending

\* Who touches the volume and the store.
LEMMA WorldMoves ==
    ASSUME [Next]_vars
    PROVE  \/ UNCHANGED world
           \/ \E a \in Attempts : ~Ending /\ (Restore(a) \/ Launch(a) \/ LaunchFails(a))
           \/ \E d \in Drains : CommitArchive(d) \/ Evict(d) \/ Evicted(d)
<1>1. CASE Ending
  BY <1>1, EndingHalts DEF Halt
<1>2. CASE Next /\ ~Ending
  <2>1. CASE \E a \in Attempts : Start(a) \/ Java(a)
    BY <1>2, <2>1
       DEF Start, StartResize, SizerEnsure, StartSized, Prepare, Identify, Publish, PollAnswered,
           PollReady, PollTimeout, StartFail, Java, JavaUp, JavaExit, WaitProcess, Ending
  <2>2. CASE \E d \in Drains : Drain(d)
    BY <1>2, <2>2
       DEF Drain, DrainBegin, IdleStopped, Switched, DrainFailed, StopAndBackup, Saving, SaveAll,
           ExpectStop, StopCommand, UnexpectStop, WaitStopped, StopTimeout, CommitHead, CommitFailed,
           CommitRecorded, Ending
  <2>3. CASE Boot \/ Main \/ Connect \/ Leave \/ Touch \/ Quiesce \/ Elapse \/ Tick
    BY <1>2, <2>3
       DEF Boot, Interrupted, Main, StopServing, ShutdownBegin, Connect, Leave, Touch, Quiesce, Elapse,
           Tick, TickExit, TickRead, TickQuery, TickApply, Ending
  <2>4. CASE \E id \in Packs : Ensure(id)
    BY <2>4 DEF Ensure, EnsureIdle, EnsureRetry, EnsureReady, EnsureSwitch, EnsureRefused
  <2> QED BY <1>2, <2>1, <2>2, <2>3, <2>4 DEF Next, Ending
<1>3. CASE UNCHANGED vars
  BY <1>3 DEF vars
<1> QED BY <1>1, <1>2, <1>3

\* The same without an eviction.
LEMMA WorldSteps ==
    ASSUME Keeping, [Next]_vars
    PROVE  \/ UNCHANGED world
           \/ \E a \in Attempts : ~Ending /\ (Restore(a) \/ Launch(a) \/ LaunchFails(a))
           \/ \E d \in Drains : CommitArchive(d)
<1>1. \A d \in Drains : ~Evict(d) /\ ~Evicted(d)
  BY DEF Keeping, Evict, Evicted
<1> QED BY <1>1, WorldMoves

\* Every step leaves the directories whole and up to date.
LEMMA ResidentNext ==
    ASSUME EvictAfterBackup = FALSE, IndInv, Resident, [Next]_vars
    PROVE  Resident'
<1>r. local \in [Packs -> LocalCopy] /\ hgen \in [Packs -> Nat]
  BY DEF IndInv, WorldOK
<1>k. Keeping'
  BY KeepingNext DEF Resident
<1>a. \A b \in Attempts : Live(b) => att[b].id \in Packs
  BY DEF IndInv, AttOK, Attempt, Live, LiveJava
<1>1. /\ \A p \in Packs : /\ local'[p] \in {"absent", "current"}
                          /\ hgen'[p] > 0 => local'[p] = "current"
                          /\ local[p] = "current" => local'[p] = "current"
      /\ \A a \in Attempts : ~Ending /\ Launch(a) =>
            local'[att[a].id] = "current" /\ att'[a].id = att[a].id
  <2>1. CASE UNCHANGED world
    <3>1. \A a \in Attempts : Launch(a) => local[att[a].id] = "current" /\ att'[a].id = att[a].id
      <4> SUFFICES ASSUME NEW a \in Attempts, Launch(a)
                   PROVE  local[att[a].id] = "current" /\ att'[a].id = att[a].id
        OBVIOUS
      <4>1. att[a].id \in Packs /\ att[a] \in AttemptType /\ att \in [Attempts -> Attempt]
        BY DEF Launch, IndInv, AttOK, Attempt
      <4>2. local = [local EXCEPT ![att[a].id] = PlayedLocal(att[a].id)]
        BY <2>1 DEF Launch, world
      <4>3. PlayedLocal(att[a].id) # "absent"
        BY DEF PlayedLocal
      <4>4. att' = [att EXCEPT ![a].pc = "publish", ![a].java = "loading"]
        BY DEF Launch
      <4>5. att'[a].id = att[a].id
        BY <4>1, <4>4 DEF AttemptType
      <4>6. local[att[a].id] # "absent"
        BY <4>1, <4>2, <4>3, <1>r
      <4> QED BY <4>1, <4>5, <4>6 DEF Resident
    <3> QED BY <2>1, <3>1 DEF Resident, world
  <2>2. ASSUME NEW a \in Attempts, Restore(a) \/ Launch(a) \/ LaunchFails(a), ~Ending
        PROVE  /\ \A p \in Packs : /\ local'[p] \in {"absent", "current"}
                                   /\ hgen'[p] > 0 => local'[p] = "current"
                                   /\ local[p] = "current" => local'[p] = "current"
               /\ \A b \in Attempts : Launch(b) =>
                     local'[att[b].id] = "current" /\ att'[b].id = att[b].id
    <3> DEFINE id == att[a].id
    <3>1. id \in Packs /\ UNCHANGED hgen /\ att \in [Attempts -> Attempt]
      BY <2>2 DEF Restore, Launch, LaunchFails, IndInv, AttOK, Attempt
    <3>2. PlayedLocal(id) = "current"
      BY <3>1, <1>r DEF PlayedLocal, Resident
    <3>3. UNCHANGED local \/ local' = [local EXCEPT ![id] = "current"]
      BY <2>2, <3>1, <3>2 DEF Restore, Launch, LaunchFails, Resident
    <3>4. \A b \in Attempts : Launch(b) => local'[att[b].id] = "current" /\ att'[b].id = att[b].id
      <4> SUFFICES ASSUME NEW b \in Attempts, Launch(b)
                   PROVE  local'[att[b].id] = "current" /\ att'[b].id = att[b].id
        OBVIOUS
      <4>1. att[b].id \in Packs /\ att[b] \in AttemptType
        BY <3>1 DEF Launch, Attempt
      <4>2. local' = [local EXCEPT ![att[b].id] = PlayedLocal(att[b].id)]
        BY DEF Launch
      <4>3. PlayedLocal(att[b].id) = "current"
        BY <4>1, <1>r DEF PlayedLocal, Resident
      <4>4. att' = [att EXCEPT ![b].pc = "publish", ![b].java = "loading"]
        BY DEF Launch
      <4>5. att'[b].id = att[b].id
        BY <3>1, <4>1, <4>4 DEF AttemptType
      <4> QED BY <4>1, <4>2, <4>3, <4>5, <1>r
    <3> HIDE DEF id
    <3> QED BY <3>1, <3>3, <3>4, <1>r DEF Resident
  <2>3. ASSUME NEW d \in Drains, CommitArchive(d)
        PROVE  /\ \A p \in Packs : /\ local'[p] \in {"absent", "current"}
                                   /\ hgen'[p] > 0 => local'[p] = "current"
                                   /\ local[p] = "current" => local'[p] = "current"
               /\ \A b \in Attempts : ~Launch(b)
    <3>1. UNCHANGED <<local, att>>
      BY <2>3 DEF CommitArchive
    <3>2. UNCHANGED hgen \/ (local[drain[d].id] # "absent"
                             /\ \E g : hgen' = [hgen EXCEPT ![drain[d].id] = g])
      BY <2>3 DEF CommitArchive
    <3>3. \A p \in Packs : hgen'[p] > 0 => local[p] = "current"
      BY <3>2, <1>r DEF Resident
    <3>4. \A b \in Attempts : ~Launch(b)
      <4> SUFFICES ASSUME NEW b \in Attempts, Launch(b) PROVE FALSE
        OBVIOUS
      <4>1. att[b].pc = "launch" /\ att[b] \in AttemptType /\ att \in [Attempts -> Attempt]
        BY DEF Launch, IndInv, AttOK, Attempt
      <4>2. att' = [att EXCEPT ![b].pc = "publish", ![b].java = "loading"]
        BY DEF Launch
      <4>3. att'[b].pc = "publish"
        BY <4>1, <4>2 DEF AttemptType
      <4> QED BY <3>1, <4>1, <4>3
    <3> QED BY <3>1, <3>3, <3>4 DEF Resident
  <2> QED BY <2>1, <2>2, <2>3, WorldSteps DEF Resident
<1>2. \A a \in Attempts : Live(a)' => local'[att'[a].id] = "current"
  <2>1. CASE Ending
    <3>1. \A a \in Attempts : att'[a] = NoAttempt
      BY <2>1, EndingHalts DEF Halt
    <3> QED BY <3>1 DEF Live, LiveJava, NoAttempt
  <2>2. CASE ~Ending
    BY <1>1, <1>a, <2>2, ServerSteps DEF Resident
  <2> QED BY <2>1, <2>2
<1> QED BY <1>1, <1>2, <1>k DEF Resident

\* Without evict_after_backup a server only ever plays the world with all the
\* play so far (PlaysLatestWorld), whatever faults happen: a failed restore, a
\* commit that went wrong or a crash leaves the directory as it is, and Restore
\* is never asked to bring back an older one.
THEOREM LatestIsPlayed == ASSUME EvictAfterBackup = FALSE PROVE Spec => []PlaysLatestWorld
<1>1. Init => Resident
  <2> SUFFICES ASSUME Init PROVE Resident
    OBVIOUS
  <2>1. /\ \A a \in Attempts : att[a].java = "none"
        /\ \A d \in Drains : drain[d].pc = "idle"
    BY DEF Init, NoAttempt, NoDrain
  <2> QED BY <2>1 DEF Init, Resident, Keeping, Live, LiveJava
<1>2. IndInv /\ Resident /\ [Next]_vars => Resident'
  BY ResidentNext
<1>3. Resident => PlaysLatestWorld
  BY DEF Resident, PlaysLatestWorld
<1> QED BY <1>1, <1>2, <1>3, Invariance, PTL DEF Spec

----------------------------------------------------------------------------
\* Backups of worlds at rest

\* Packs differ in size. Packs of the same size switch without a reboot, and
\* then a Shutdown that is slow to take the lock archives, or removes, the world
\* of the pack that is just being started.
Distinct == \A p, q \in Packs : MachineSize[p] = MachineSize[q] => p = q

\* What the claim rests on besides Calm: nothing is evicted either (a crash
\* while the files are removed leaves a part of a world).
Separate == EvictAfterBackup = FALSE /\ Distinct

\* A backup is whole, and there is one for every generation.
Intact ==
    \A p \in Packs : /\ hgen[p] > 0 => head[p] \in {"stale", "current"}
                     /\ hgen[p] = 0 => head[p] = "none"

\* A pack that is Ready has the Machine it needs, so that the pack a switch
\* leads to does not.
Fitting ==
    /\ state.phase = "Ready" => /\ state.active # None
                                /\ main # "off" => cfgSize = MachineSize[state.active]
    /\ disk.phase = "Ready" => disk.active # None
    /\ Begun("switch") => cfgSize # MachineSize[drain["switch"].caller]

\* While Shutdown drains no start() gets past the sizer, and once Shutdown has
\* seen the server stop there is no other.
LastServer ==
    main = "draining" =>
       /\ \A a \in Running : att[a].pc \in Early =>
             att[a].pc \in {"resize", "sizing"} /\ cfgSize # MachineSize[att[a].id]
       /\ drain["shutdown"].pc \in AfterStop => process = None

\* From the sizer's approval on, start() works for a pack of the configured
\* size. Unlike SizeInv this says nothing of the VM, so that a config that was
\* updated without an answer does not disturb it.
Measured == \A a \in Attempts : att[a].pc \in Approved => Fits(att[a].id)

\* Only the sizer approves, and only what fits.
LEMMA ApprovedSteps ==
    ASSUME IndInv, [Next]_vars, NEW b \in Attempts, att'[b].pc \in Approved
    PROVE  /\ att'[b].id = att[b].id
           /\ att[b].pc \in Approved \/ (SizerEnsure(b) /\ Fits(att[b].id))
<1> DEFINE Goal == /\ att'[b].id = att[b].id
                   /\ att[b].pc \in Approved \/ (SizerEnsure(b) /\ Fits(att[b].id))
<1>r. att \in [Attempts -> Attempt] /\ \A a \in Attempts : att[a] \in AttemptType
  BY DEF IndInv, AttOK, Attempt
<1>k. ASSUME \A a \in Attempts : att'[a].pc = att[a].pc /\ (att[a].pc # "idle" => att'[a].id = att[a].id)
      PROVE  Goal
  BY <1>k DEF Approved
<1>n. ASSUME NEW id, NEW recovery, GoStart(id, recovery) PROVE Goal
  <2> DEFINE new == [NoAttempt EXCEPT !.pc = "resize", !.id = id, !.recovery = recovery]
  <2>1. PICK a \in FreeAttempts : att' = [att EXCEPT ![a] = new]
    BY <1>n DEF GoStart
  <2>2. new.pc = "resize" /\ a \in Attempts
    BY <2>1 DEF NoAttempt, FreeAttempts
  <2> HIDE DEF new
  <2> QED BY <2>1, <2>2, <1>r DEF Approved
<1>h. ASSUME Halt PROVE Goal
  BY <1>h DEF Halt, NoAttempt, Approved
<1>1. CASE UNCHANGED vars \/ Connect \/ Leave \/ Touch \/ Quiesce \/ Elapse \/ Tick
  BY <1>1, <1>k DEF vars, Connect, Leave, Touch, Quiesce, Elapse, Tick, TickExit, TickRead,
                    TickQuery, TickApply
<1>2. CASE Boot \/ Main \/ Crash \/ Reboot
  BY <1>2, <1>k, <1>n, <1>h DEF Boot, Interrupted, Main, StopServing, ShutdownBegin, ShutdownNothing,
                                Crash, Reboot
<1>3. ASSUME NEW id \in Packs, Ensure(id) PROVE Goal
  BY <1>3, <1>k, <1>n DEF Ensure, EnsureIdle, EnsureRetry, EnsureReady, EnsureSwitch, EnsureRefused
<1>4. ASSUME NEW a \in Attempts, Start(a), ~SizerPanic(a) PROVE Goal
  <2>1. /\ att'[a].pc \in Approved => /\ att'[a].id = att[a].id
                                      /\ att[a].pc \in Approved \/ (SizerEnsure(a) /\ Fits(att[a].id))
        /\ \A c \in Attempts : c # a => att'[c] = att[c]
    <3>r. Returned(att[a]).pc = "idle" /\ Returned(Killed(att[a])).pc = "idle"
      BY <1>r DEF Returned, Killed, NoAttempt, AttemptType, JavaStates
    <3>g. ASSUME NEW pc, Goto(a, pc)
          PROVE  /\ att'[a].id = att[a].id /\ att'[a].pc = pc
                 /\ \A c \in Attempts : c # a => att'[c] = att[c]
      BY <3>g, <1>r DEF Goto, AttemptType
    <3>t. ASSUME Return(a)
          PROVE  att'[a].pc = "idle" /\ \A c \in Attempts : c # a => att'[c] = att[c]
      BY <3>t, <3>r, <1>r DEF Return
    <3>1. CASE SizerEnsure(a)
      BY <3>1, <3>g, <3>t DEF SizerEnsure, Approved
    <3>2. CASE StartResize(a) \/ StartSized(a)
      BY <3>2, <3>g, <3>t DEF StartResize, StartSized, IfActive, Approved
    <3>3. CASE Prepare(a)
      BY <3>3, <1>r DEF Prepare, Approved, AttemptType
    <3>4. CASE Restore(a) \/ Identify(a) \/ LaunchFails(a) \/ PollAnswered(a)
      BY <3>4, <3>g DEF Restore, Identify, LaunchFails, PollAnswered, Approved
    <3>5. CASE Launch(a)
      BY <3>5, <1>r DEF Launch, Approved, AttemptType
    <3>6. CASE Publish(a)
      <4>1. Goto(a, "poll") \/ att' = [att EXCEPT ![a] = Returned(Killed(att[a]))]
        BY <3>6 DEF Publish
      <4> QED BY <3>6, <3>g, <3>r, <4>1, <1>r DEF Publish, Approved
    <3>7. CASE PollTimeout(a)
      <4>1. att' = [att EXCEPT ![a] = [Killed(att[a]) EXCEPT !.pc = "fail"]]
        BY <3>7 DEF PollTimeout
      <4>2. [Killed(att[a]) EXCEPT !.pc = "fail"].pc = "fail"
        BY <1>r DEF Killed, AttemptType
      <4> QED BY <4>1, <4>2, <1>r DEF Approved
    <3>8. CASE PollReady(a) \/ StartFail(a)
      BY <3>8, <3>t DEF PollReady, StartFail, Approved
    <3> QED BY <1>4, <3>1, <3>2, <3>3, <3>4, <3>5, <3>6, <3>7, <3>8 DEF Start
  <2> QED BY <2>1
<1>5. ASSUME NEW a \in Attempts, SizerPanic(a) PROVE Goal
  BY <1>5, <1>h DEF SizerPanic
<1>6. ASSUME NEW a \in Attempts, Java(a) PROVE Goal
  BY <1>6, <1>k, <1>r DEF Java, JavaUp, JavaExit, WaitProcess, NoAttempt, AttemptType
<1>7. ASSUME NEW d \in Drains, Drain(d) PROVE Goal
  <2>1. CASE StopCommand(d)
    BY <2>1, <1>k, <1>r DEF StopCommand, AttemptType
  <2>2. CASE StopTimeout(d)
    <3>1. \A c \in Attempts : Killed(att[c]).id = att[c].id /\ Killed(att[c]).pc = att[c].pc
      BY <1>r DEF Killed, AttemptType
    <3> QED BY <2>2, <3>1, <1>k, <1>r DEF StopTimeout
  <2>3. CASE Switched \/ ShutdownDone
    BY <2>3, <1>n, <1>h DEF Switched, ShutdownDone
  <2> QED BY <1>7, <1>k, <2>1, <2>2, <2>3
          DEF Drain, DrainBegin, IdleStopped, DrainFailed, StopAndBackup, Saving, SaveAll, ExpectStop,
              UnexpectStop, WaitStopped, CommitHead, CommitArchive, CommitFailed, CommitRecorded, Evict,
              Evicted
<1> QED BY <1>1, <1>2, <1>3, <1>4, <1>5, <1>6, <1>7 DEF Next

\* The config changes only when no other start() is at work.
LEMMA MeasuredNext ==
    ASSUME IndInv, OneInv, Measured, [Next]_vars
    PROVE  Measured'
<1> SUFFICES ASSUME NEW b \in Attempts, att'[b].pc \in Approved PROVE Fits(att[b].id)'
  BY DEF Measured
<1>1. /\ att'[b].id = att[b].id /\ Fits(att[b].id)
      /\ att[b].pc \in Approved \/ SizerEnsure(b)
  BY ApprovedSteps DEF Measured
<1>2. ASSUME NEW a \in Attempts, SizerEnsure(a) PROVE UNCHANGED cfgSize
  <2>1. att[a].pc = "sizing" /\ att[b].pc # "idle"
    BY <1>1, <1>2 DEF SizerEnsure, Approved
  <2>2. a \in Running /\ b \in Running
    BY <2>1 DEF Running
  <2>3. a = b
    BY <2>2 DEF OneInv, Exclusive
  <2> QED BY <1>1, <1>2, <2>3 DEF SizerEnsure
<1>3. UNCHANGED cfgSize
  BY <1>2, ConfigSteps
<1> QED BY <1>1, <1>3 DEF Fits

\* Steps that make no pack Ready and begin no switch.
LEMMA FitFrame ==
    ASSUME Fitting, UNCHANGED cfgSize,
           main' # "off" => main # "off",
           state'.phase = "Ready" => state.phase = "Ready" /\ state'.active = state.active,
           disk'.phase = "Ready" => disk'.active # None,
           Begun("switch")' => /\ Begun("switch")
                               /\ drain'["switch"].caller = drain["switch"].caller
    PROVE  Fitting'
BY DEF Fitting

\* Steps that begin no start() and give m.process no new value.
LEMMA LastFrame ==
    ASSUME LastServer, UNCHANGED cfgSize, main' = "draining" => main = "draining",
           \A a \in Attempts : att'[a].pc \in Early =>
              /\ att[a].pc \in Early /\ att'[a].id = att[a].id
              /\ att[a].pc \in {"resize", "sizing"} => att'[a].pc \in {"resize", "sizing"},
           process' \in {process, None},
           drain'["shutdown"].pc \in AfterStop => drain["shutdown"].pc \in AfterStop \/ process' = None
    PROVE  LastServer'
<1>1. ASSUME main' = "draining" PROVE LastServer'
  <2>1. drain'["shutdown"].pc \in AfterStop => process' = None
    BY <1>1 DEF LastServer
  <2>2. ASSUME NEW a \in Attempts, att'[a].pc \in Early
        PROVE  att'[a].pc \in {"resize", "sizing"} /\ cfgSize' # MachineSize[att'[a].id]
    <3>1. a \in Running
      BY <2>2 DEF Early, Running
    <3> QED BY <1>1, <2>2, <3>1 DEF LastServer
  <2> QED BY <2>1, <2>2 DEF LastServer, Running
<1>2. main' # "draining" => LastServer'
  BY DEF LastServer
<1> QED BY <1>1, <1>2

\* What Save leaves in the file.
LEMMA ReadySaved ==
    ASSUME Fitting, NEW s, Save(s),
           s.phase = "Ready" => state.phase = "Ready" /\ s.active = state.active
    PROVE  /\ state' = s
           /\ disk'.phase = "Ready" => disk'.active # None
BY DEF Fitting, Save

\* The end of the process.
LEMMA FitHalt ==
    ASSUME Fitting, Halt, state' = disk', disk' = disk \/ disk' = IdleState
    PROVE  Fitting' /\ LastServer'
<1>1. main' = "off" /\ drain'["switch"] = NoDrain
  BY DEF Halt, Drains
<1>2. ~Begun("switch")' /\ IdleState.phase = "Idle"
  BY <1>1 DEF Begun, NoDrain, IdleState
<1> QED BY <1>1, <1>2 DEF Fitting, LastServer

\* start() and the sizes.
LEMMA FitStart ==
    ASSUME IndInv, OneInv, Measured, Fitting, LastServer, NEW a \in Attempts, Start(a), ~Halt
    PROVE  Fitting' /\ LastServer'
<1>r. att[a] \in AttemptType /\ att \in [Attempts -> Attempt] /\ state \in States
  BY DEF IndInv, AttOK, Attempt, PersistedOK
<1>0. att[a].pc # "idle"
  BY DEF Start, StartResize, SizerEnsure, SizerPanic, StartSized, Prepare, Restore, Identify,
         Launch, LaunchFails, Publish, PollAnswered, PollReady, PollTimeout, StartFail
<1>1. Running = {a} /\ state.active = att[a].id /\ state.phase # "Ready" /\ ~Begun("switch")
      /\ att[a].id \in Packs /\ main # "off"
  <2>1. a \in Running
    BY <1>0 DEF Running
  <2>2. Running = {a}
    BY <2>1 DEF OneInv, Exclusive
  <2>3. main # "off"
    BY Awake DEF OneInv
  <2>4. att[a].id \in Packs
    BY <1>0, <1>r DEF Attempt
  <2> QED BY <2>1, <2>2, <2>3, <2>4 DEF OneInv, Exclusive, Entitled, Leaving
<1>2. UNCHANGED <<drain, main>>
  BY DEF Start, StartResize, SizerEnsure, SizerPanic, StartSized, Prepare, Restore, Identify,
         Launch, LaunchFails, Publish, PollAnswered, PollReady, PollTimeout, StartFail, mem
<1>3. ~Begun("switch")'
  BY <1>1, <1>2 DEF Begun
<1>4. CASE SizerEnsure(a)
  <2>1. att[a].pc = "sizing" /\ UNCHANGED <<state, disk, process>>
    BY <1>4 DEF SizerEnsure, mem
  <2>2. Fitting'
    BY <1>1, <1>3, <2>1 DEF Fitting
  <2>3. CASE main = "draining" /\ Fits(att[a].id)
    BY <1>1, <2>1, <2>3 DEF LastServer, Early, Fits
  <2>4. CASE ~Fits(att[a].id)
    <3>1. (Return(a) \/ Goto(a, "fail")) /\ process = None
      BY <1>1, <1>4, <2>1, <2>4 DEF SizerEnsure, OneInv, Entitled, Early
    <3>2. \A b \in Attempts : b # a => att'[b] = att[b]
      BY <3>1, <1>r DEF Return, Goto
    <3>3. att'[a].pc \in {"idle", "fail"}
      <4>1. Returned(att[a]).pc = "idle"
        BY <1>r DEF Returned, NoAttempt, AttemptType
      <4> QED BY <3>1, <4>1, <1>r DEF Return, Goto, AttemptType
    <3>4. \A b \in Attempts : att'[b].pc \notin Early
      BY <1>1, <3>2, <3>3 DEF Running, Early
    <3>5. LastServer'
      BY <2>1, <3>1, <3>4 DEF LastServer, Running
    <3> QED BY <2>2, <3>5
  <2>5. CASE main # "draining"
    BY <1>2, <2>2, <2>5 DEF LastServer
  <2> QED BY <2>3, <2>4, <2>5
<1>5. CASE ~SizerEnsure(a)
  <2>1. UNCHANGED cfgSize
    BY <1>5 DEF Start, StartResize, SizerEnsure, SizerPanic, StartSized, Prepare, Restore, Identify,
                Launch, LaunchFails, Publish, PollAnswered, PollReady, PollTimeout, StartFail, fly
  <2>2. CASE PollReady(a)
    <3>1. /\ Save([state EXCEPT !.phase = "Ready"]) /\ Return(a) /\ att[a].pc = "ready"
          /\ UNCHANGED process
      BY <2>2, <1>1 DEF PollReady, mem
    <3>2. cfgSize = MachineSize[att[a].id]
      BY <3>1 DEF Measured, Approved, Fits
    <3>3. /\ state' = [state EXCEPT !.phase = "Ready"]
          /\ disk' = [state EXCEPT !.phase = "Ready"] \/ disk' = disk
      BY <3>1 DEF Save
    <3>4. [state EXCEPT !.phase = "Ready"].active = state.active /\ state.active # None
      BY <1>1, <1>r, StateFields
    <3>5. Fitting'
      BY <1>1, <1>3, <2>1, <3>2, <3>3, <3>4 DEF Fitting
    <3>6. \A b \in Attempts : att'[b] = IF b = a THEN Returned(att[a]) ELSE att[b]
      BY <3>1, <1>r DEF Return
    <3>7. Returned(att[a]).pc = "idle"
      BY <1>r DEF Returned, NoAttempt, AttemptType
    <3>8. \A b \in Attempts : att'[b].pc \in Early => att'[b] = att[b]
      BY <3>6, <3>7 DEF Early
    <3>9. LastServer'
      BY <1>2, <2>1, <3>1, <3>8, LastFrame
    <3> QED BY <3>5, <3>9
  <2>3. CASE ~PollReady(a)
    <3>1. PICK s : /\ state' = s /\ disk' \in {s, disk} /\ s.phase # "Ready"
      <4> DEFINE ph == IF att[a].recovery THEN "Recovering" ELSE "Loading"
      <4>1. [state EXCEPT !.phase = "Resizing"].phase = "Resizing"
            /\ [state EXCEPT !.phase = ph].phase = ph /\ ph # "Ready"
        BY <1>r, StateFields
      <4>2. \A g, b : [state EXCEPT !.gen = g, !.pending = b].phase = state.phase
        BY <1>r, StateFields
      <4>3. FailedState(att[a].id).phase = "Failed"
        BY <1>r DEF FailedState, States
      <4>4. CASE UNCHANGED <<state, disk>>
        BY <4>4, <1>1
      <4>5. CASE StartResize(a)
        BY <4>1, <4>5, <1>1 DEF StartResize, IfActive, Save
      <4>6. CASE StartSized(a)
        BY <4>1, <4>6, <1>1 DEF StartSized, IfActive, Save
      <4>7. CASE Identify(a)
        <5>1. PICK g, b : Save([state EXCEPT !.gen = g, !.pending = b])
          BY <4>7 DEF Identify
        <5> QED BY <4>2, <5>1, <1>1 DEF Save
      <4>8. CASE StartFail(a)
        BY <4>3, <4>8 DEF StartFail, Save
      <4> QED BY <1>5, <2>3, <4>4, <4>5, <4>6, <4>7, <4>8
              DEF Start, SizerPanic, Prepare, Restore, Launch, LaunchFails, Publish,
                  PollAnswered, PollTimeout, persisted
    <3>2. Fitting'
      BY <1>1, <1>2, <1>3, <2>1, <3>1, FitFrame DEF Fitting
    <3>3. CASE main # "draining"
      BY <1>2, <3>2, <3>3 DEF LastServer
    <3>4. CASE main = "draining"
      <4>1. att[a].pc \in Early => att[a].pc \in {"resize", "sizing"}
        BY <1>1, <3>4 DEF LastServer
      <4>2. \A b \in Attempts : b # a => att'[b] = att[b]
        BY <1>5, <1>r DEF Start, StartResize, SizerPanic, StartSized, Prepare, Restore, Identify,
           Launch, LaunchFails, Publish, PollAnswered, PollReady, PollTimeout, StartFail, Goto, Return,
           IfActive
      <4>3. CASE StartResize(a)
        <5>1. Goto(a, "sizing") /\ UNCHANGED process
          BY <4>3, <1>1 DEF StartResize, IfActive, mem
        <5>2. att'[a].pc = "sizing" /\ att'[a].id = att[a].id /\ att[a].pc = "resize"
          BY <4>3, <5>1, <1>r DEF Goto, AttemptType, StartResize
        <5>3. LastServer'
          BY <1>2, <2>1, <4>2, <5>1, <5>2, LastFrame DEF Early
        <5> QED BY <3>2, <5>3
      <4>4. CASE PollAnswered(a) \/ PollTimeout(a) \/ StartFail(a)
        <5>1. att'[a].pc \in {"ready", "fail", "idle"}
          <6>1. CASE PollAnswered(a)
            BY <6>1, <1>r DEF PollAnswered, Goto, AttemptType
          <6>2. CASE PollTimeout(a)
            <7>1. att'[a] = [Killed(att[a]) EXCEPT !.pc = "fail"]
              BY <6>2, <1>r DEF PollTimeout
            <7> QED BY <7>1, <1>r DEF Killed, AttemptType
          <6>3. CASE StartFail(a)
            <7>1. att'[a] = Returned(att[a])
              BY <6>3, <1>r DEF StartFail, Return
            <7> QED BY <7>1, <1>r DEF Returned, NoAttempt, AttemptType
          <6> QED BY <4>4, <6>1, <6>2, <6>3
        <5>2. UNCHANGED process
          BY <4>4 DEF PollAnswered, PollTimeout, StartFail, mem
        <5>3. LastServer'
          BY <1>2, <2>1, <4>2, <5>1, <5>2, LastFrame DEF Early
        <5> QED BY <3>2, <5>3
      <4>5. CASE Prepare(a) \/ Restore(a) \/ Identify(a) \/ Launch(a) \/ LaunchFails(a) \/ Publish(a)
                 \/ StartSized(a)
        BY <4>1, <4>5 DEF Prepare, Restore, Identify, Launch, LaunchFails, Publish, StartSized, Early
      <4> QED BY <1>5, <2>3, <4>3, <4>4, <4>5 DEF Start, SizerPanic
    <3> QED BY <3>3, <3>4
  <2> QED BY <2>2, <2>3
<1> QED BY <1>4, <1>5

\* Shutdown's drain after the stop, and the switch, as stopAndBackup() goes on.
LEMMA FitStopAndBackup ==
    ASSUME IndInv, OneInv, Fitting, LastServer, NEW d \in Drains, StopAndBackup(d)
    PROVE  Fitting' /\ LastServer'
<1>r. /\ att \in [Attempts -> Attempt] /\ drain \in [Drains -> DrainType] /\ state \in States
      /\ "switch" \in Drains /\ "shutdown" \in Drains
  BY DEF IndInv, AttOK, DrainOK, PersistedOK, Drains
<1>1. drain[d].pc \notin {"idle", "begin"}
  BY DEF StopAndBackup, Saving, SaveAll, ExpectStop, StopCommand, UnexpectStop, WaitStopped,
         StopTimeout, CommitHead, CommitArchive, CommitFailed, CommitRecorded, Evict, Evicted
<1>2. UNCHANGED <<process, main, cfgSize>>
  BY DEF StopAndBackup, Saving, SaveAll, ExpectStop, StopCommand, UnexpectStop, WaitStopped,
         StopTimeout, CommitHead, CommitArchive, CommitFailed, CommitRecorded, Evict, Evicted, mem, fly
<1>3. \A b \in Attempts : att'[b].id = att[b].id /\ att'[b].pc = att[b].pc
  <2>1. CASE UNCHANGED att
    BY <2>1
  <2>2. CASE StopTimeout(d)
    <3>1. att' = [att EXCEPT ![drain[d].proc] = Killed(att[drain[d].proc])]
      BY <2>2 DEF StopTimeout
    <3>2. \A c \in Attempts : Killed(att[c]).id = att[c].id /\ Killed(att[c]).pc = att[c].pc
      BY <1>r DEF Killed, Attempt, AttemptType
    <3> QED BY <3>1, <3>2, <1>r
  <2>3. ASSUME NEW b \in Up, att' = [att EXCEPT ![b].java = "stopping"]
        PROVE  \A c \in Attempts : att'[c].id = att[c].id /\ att'[c].pc = att[c].pc
    BY <2>3, <1>r DEF Up, Attempt, AttemptType
  <2> QED BY <2>1, <2>2, <2>3
          DEF StopAndBackup, Saving, SaveAll, ExpectStop, StopCommand, UnexpectStop, WaitStopped,
              CommitHead, CommitArchive, CommitFailed, CommitRecorded, Evict, Evicted
<1>4. PICK r \in DrainType : /\ drain' = [drain EXCEPT ![d] = r] /\ r.caller = drain[d].caller
                             /\ r.pc \in AfterStop => drain[d].pc \in AfterStop \/ process = None
  <2>1. ASSUME NEW pc \in DrainPCs, Step(d, pc),
               pc \in AfterStop => drain[d].pc \in AfterStop \/ process = None
        PROVE  \E r \in DrainType : /\ drain' = [drain EXCEPT ![d] = r] /\ r.caller = drain[d].caller
                                    /\ r.pc \in AfterStop => drain[d].pc \in AfterStop \/ process = None
    <3>1. [drain[d] EXCEPT !.pc = pc] \in DrainType /\ [drain[d] EXCEPT !.pc = pc].pc = pc
          /\ [drain[d] EXCEPT !.pc = pc].caller = drain[d].caller
      BY <1>r DEF DrainType
    <3>2. drain' = [drain EXCEPT ![d] = [drain[d] EXCEPT !.pc = pc]]
      BY <2>1 DEF Step
    <3> QED BY <2>1, <3>1, <3>2
  <2>2. CASE Saving(d)
    <3> DEFINE r == [drain[d] EXCEPT !.id = state.active, !.proc = process, !.pc = AfterSaving]
    <3>1. drain' = [drain EXCEPT ![d] = r]
      BY <2>2 DEF Saving
    <3>2. AfterSaving \in {"commit", "saveall"} /\ (AfterSaving = "commit" => process = None)
      BY DEF AfterSaving
    <3>3. r.pc = AfterSaving /\ r.caller = drain[d].caller
      BY <1>r DEF DrainType
    <3>4. r \in DrainType
      <4>1. state.active \in Packs \cup {None}
        BY DEF IndInv, PersistedOK, States
      <4>2. process \in Attempts \cup {None}
        BY DEF IndInv, MemOK
      <4>3. AfterSaving \in DrainPCs
        BY <3>2 DEF DrainPCs
      <4>4. drain[d] \in DrainType
        BY <1>r
      <4> QED BY <4>1, <4>2, <4>3, <4>4 DEF DrainType
    <3> HIDE DEF r
    <3> QED BY <3>1, <3>2, <3>3, <3>4 DEF AfterStop
  <2>3. CASE WaitStopped(d) \/ StopTimeout(d)
    <3>1. PICK pc \in {"commit", "error"} : drain' = [drain EXCEPT ![d].pc = pc, ![d].proc = None]
                                            /\ (pc = "commit" => process = None)
      BY <2>3 DEF WaitStopped, StopTimeout, Stopped
    <3> DEFINE r == [drain[d] EXCEPT !.pc = pc, !.proc = None]
    <3>2. drain' = [drain EXCEPT ![d] = r]
      BY <3>1
    <3>3. r \in DrainType /\ r.pc = pc /\ r.caller = drain[d].caller
      BY <1>r DEF DrainType, DrainPCs
    <3> HIDE DEF r
    <3> QED BY <3>1, <3>2, <3>3 DEF AfterStop
  <2>4. CASE CommitHead(d)
    <3>1. PICK pc \in {"archive", "commitErr"} :
             drain' = [drain EXCEPT ![d].gen = state.gen, ![d].pc = pc]
      BY <2>4 DEF CommitHead, AfterCompare
    <3> DEFINE r == [drain[d] EXCEPT !.gen = state.gen, !.pc = pc]
    <3>2. drain' = [drain EXCEPT ![d] = r] /\ drain[d].pc = "commit"
      BY <2>4, <3>1 DEF CommitHead
    <3>3. r \in DrainType /\ r.caller = drain[d].caller
      <4>1. state.gen \in Nat
        BY DEF IndInv, PersistedOK, States
      <4>2. pc \in DrainPCs
        BY DEF DrainPCs
      <4>3. drain[d] \in DrainType
        BY <1>r
      <4> QED BY <4>1, <4>2, <4>3 DEF DrainType
    <3> HIDE DEF r
    <3> QED BY <3>2, <3>3 DEF AfterStop
  <2>5. CASE SaveAll(d) \/ ExpectStop(d) \/ StopCommand(d) \/ UnexpectStop(d)
    <3>1. PICK pc \in {"expect", "stop", "unexpect", "waitstop", "error"} : Step(d, pc)
      BY <2>5 DEF SaveAll, ExpectStop, StopCommand, AfterStopError, UnexpectStop
    <3> QED BY <2>1, <3>1 DEF AfterStop, DrainPCs
  <2>6. CASE CommitArchive(d) \/ CommitFailed(d) \/ CommitRecorded(d) \/ Evict(d) \/ Evicted(d)
    <3>1. drain[d].pc \in AfterStop
      BY <2>6 DEF CommitArchive, CommitFailed, CommitRecorded, Evict, Evicted, AfterStop
    <3>2. PICK pc \in {"record", "commitErr", "error", "evict", "finish", "evicting"} : Step(d, pc)
      BY <2>6 DEF CommitArchive, CommitFailed, CommitRecorded, Evict, Evicted, AfterBackup
    <3> QED BY <2>1, <3>1, <3>2 DEF DrainPCs
  <2> QED BY <2>2, <2>3, <2>4, <2>5, <2>6 DEF StopAndBackup
<1>5. \A e \in Drains : drain'[e] = IF e = d THEN r ELSE drain[e]
  BY <1>4, <1>r
<1>6. /\ state'.phase = "Ready" => state.phase = "Ready" /\ state'.active = state.active
      /\ disk'.phase = "Ready" => disk'.active # None
  <2>1. CASE UNCHANGED <<state, disk>>
    BY <2>1 DEF Fitting
  <2>2. ASSUME NEW s, Save(s), s.phase = "Saving" \/ (s.phase = state.phase /\ s.active = state.active)
        PROVE  /\ state'.phase = "Ready" => state.phase = "Ready" /\ state'.active = state.active
               /\ disk'.phase = "Ready" => disk'.active # None
    BY <2>2, ReadySaved
  <2>3. CASE Saving(d)
    <3>1. PICK s : s = [state EXCEPT !.phase = "Saving"] /\ Save(s)
      BY <2>3 DEF Saving
    <3>2. s.phase = "Saving"
      BY <3>1, <1>r, StateFields
    <3> QED BY <2>2, <3>1, <3>2
  <2>4. CASE CommitFailed(d)
    <3>1. PICK s : s = [state EXCEPT !.pending = TRUE] /\ Save(s)
      BY <2>4 DEF CommitFailed
    <3>2. s.phase = state.phase /\ s.active = state.active
      BY <3>1, <1>r, StateFields
    <3> QED BY <2>2, <3>1, <3>2
  <2>5. CASE CommitRecorded(d)
    <3> DEFINE s == [state EXCEPT !.gen = drain[d].gen + 1, !.pending = FALSE]
    <3>1. Save(s)
      BY <2>5 DEF CommitRecorded
    <3>2. s.phase = state.phase /\ s.active = state.active
      BY <1>r, StateFields
    <3> HIDE DEF s
    <3> QED BY <2>2, <3>1, <3>2
  <2> QED BY <2>1, <2>3, <2>4, <2>5
          DEF StopAndBackup, SaveAll, ExpectStop, StopCommand, UnexpectStop, WaitStopped, StopTimeout,
              CommitHead, CommitArchive, Evict, Evicted, persisted
<1>7. Fitting'
  <2>1. Begun("switch")' => Begun("switch") /\ drain'["switch"].caller = drain["switch"].caller
    BY <1>1, <1>4, <1>5, <1>r DEF Begun
  <2> QED BY <1>2, <1>6, <2>1, FitFrame
<1>8. LastServer'
  <2>1. drain'["shutdown"].pc \in AfterStop => drain["shutdown"].pc \in AfterStop \/ process' = None
    BY <1>2, <1>4, <1>5, <1>r
  <2> QED BY <1>2, <1>3, <2>1, LastFrame
<1> QED BY <1>7, <1>8

\* The daemon's main goroutine and the sizes.
LEMMA FitMain ==
    ASSUME IndInv, OneInv, Fitting, LastServer, Boot \/ Main \/ Crash \/ Reboot
    PROVE  Fitting' /\ LastServer'
<1>r. /\ state \in States /\ disk \in States /\ drain \in [Drains -> DrainType]
      /\ "switch" \in Drains /\ "shutdown" \in Drains
  BY DEF IndInv, PersistedOK, DrainOK, Drains
<1>1. CASE Boot
  <2>1. drain["switch"].pc = "idle" /\ UNCHANGED <<drain, cfgSize>> /\ main' = "serving"
    BY <1>1, <1>r DEF Boot, Interrupted, OneInv, Quenched, NoDrain, fly
  <2>2. ~Begun("switch")' /\ LastServer'
    BY <2>1 DEF Begun, LastServer
  <2>3. /\ state'.phase # "Ready"
        /\ disk'.phase = "Ready" => disk'.active # None
    <3> DEFINE s == [disk EXCEPT !.phase = "Recovering"]
    <3>1. s.phase = "Recovering"
      BY <1>r, StateFields
    <3>2. Save(s) \/ (state' = disk /\ disk' = disk /\ ~ (disk.phase # "Idle" /\ disk.active # None))
      BY <1>1 DEF Boot, Interrupted
    <3> HIDE DEF s
    <3> QED BY <3>1, <3>2, ReadySaved DEF Fitting
  <2> QED BY <2>2, <2>3 DEF Fitting
<1>2. CASE StopServing
  <2>1. UNCHANGED <<state, disk, cfgSize, att, process, drain>> /\ main = "serving" /\ main' = "closing"
    BY <1>2 DEF StopServing, fly
  <2>2. Fitting'
    BY <2>1, FitFrame DEF Fitting, Begun
  <2>3. LastServer'
    BY <2>1 DEF LastServer
  <2> QED BY <2>2, <2>3
<1>3. CASE ShutdownBegin
  <2> DEFINE s == [state EXCEPT !.phase = "Draining"]
  <2>1. /\ Save(s) /\ process # None /\ main = "closing" /\ main' = "draining"
        /\ UNCHANGED <<cfgSize, att, process>> /\ drain' = [drain EXCEPT !["shutdown"].pc = "saving"]
    BY <1>3 DEF ShutdownBegin, fly
  <2>2. s.phase = "Draining"
    BY <1>r, StateFields
  <2> HIDE DEF s
  <2>3. state' = s /\ (disk'.phase = "Ready" => disk'.active # None)
    BY <2>1, <2>2, ReadySaved
  <2>4. drain'["switch"] = drain["switch"] /\ drain'["shutdown"].pc = "saving"
    BY <2>1, <1>r DEF DrainType
  <2>5. Fitting'
    BY <2>1, <2>2, <2>3, <2>4, FitFrame DEF Begun
  <2>6. \A a \in Attempts : att[a].pc \notin Early
    BY <2>1 DEF OneInv, Entitled, Running, Early
  <2>7. LastServer'
    BY <2>1, <2>4, <2>6 DEF LastServer, Running, AfterStop
  <2> QED BY <2>5, <2>7
<1>4. CASE ShutdownNothing \/ Crash \/ Reboot
  BY <1>4, FitHalt DEF ShutdownNothing, Crash, Reboot
<1> QED BY <1>1, <1>2, <1>3, <1>4 DEF Main

\* Logins: none is handled while Shutdown drains.
LEMMA FitLogin ==
    ASSUME Calm, IndInv, Fitting, LastServer, NEW id \in Packs, Ensure(id)
    PROVE  Fitting' /\ LastServer'
<1>r. state \in States /\ drain \in [Drains -> DrainType] /\ "switch" \in Drains
  BY DEF IndInv, PersistedOK, DrainOK, Drains
<1>1. main # "draining" /\ UNCHANGED <<cfgSize, main>>
  BY DEF Ensure, EnsureIdle, EnsureRetry, EnsureReady, EnsureSwitch, EnsureRefused, Login, Calm, mem, fly
<1>2. LastServer'
  BY <1>1 DEF LastServer
<1>3. PICK s : /\ s.phase = "Loading" \/ s = state
               /\ Save(s) \/ (UNCHANGED <<state, disk>> /\ s = state)
  <2>1. LoadingState(id).phase = "Loading" /\ [state EXCEPT !.phase = "Loading"].phase = "Loading"
    BY <1>r, StateFields
  <2>2. CASE EnsureIdle(id)
    BY <2>1, <2>2 DEF EnsureIdle
  <2>3. CASE EnsureRetry(id)
    BY <2>1, <2>3 DEF EnsureRetry
  <2>4. CASE UNCHANGED <<state, disk>>
    BY <2>4
  <2> QED BY <2>2, <2>3, <2>4 DEF Ensure, EnsureReady, EnsureSwitch, EnsureRefused, persisted
<1>4. state' = s /\ (disk'.phase = "Ready" => disk'.active # None)
  BY <1>3, ReadySaved DEF Fitting
<1>5. UNCHANGED drain \/ drain'["switch"].pc = "begin"
  <2>1. CASE EnsureSwitch(id)
    BY <2>1, <1>r DEF EnsureSwitch, NoDrain
  <2> QED BY <2>1 DEF Ensure, EnsureIdle, EnsureRetry, EnsureReady, EnsureRefused
<1>6. Begun("switch")' => Begun("switch") /\ drain'["switch"].caller = drain["switch"].caller
  BY <1>5 DEF Begun
<1> QED BY <1>1, <1>2, <1>3, <1>4, <1>6, FitFrame

\* The servers.
LEMMA FitJava ==
    ASSUME IndInv, Fitting, LastServer, NEW a \in Attempts, Java(a)
    PROVE  Fitting' /\ LastServer'
<1>r. state \in States /\ att \in [Attempts -> Attempt] /\ att[a] \in AttemptType
  BY DEF IndInv, PersistedOK, AttOK, Attempt
<1>1. UNCHANGED <<main, drain, cfgSize>> /\ process' \in {process, None}
  BY DEF Java, JavaUp, JavaExit, WaitProcess, mem, fly
<1>2. PICK r : att' = [att EXCEPT ![a] = r] /\ r.pc = att[a].pc /\ (r.pc # "idle" => r.id = att[a].id)
  <2>1. CASE JavaUp(a) \/ JavaExit(a)
    <3>1. PICK j : att' = [att EXCEPT ![a] = [att[a] EXCEPT !.java = j]]
      BY <2>1 DEF JavaUp, JavaExit
    <3>2. [att[a] EXCEPT !.java = j].id = att[a].id /\ [att[a] EXCEPT !.java = j].pc = att[a].pc
      BY <1>r DEF AttemptType
    <3> QED BY <3>1, <3>2
  <2>2. CASE WaitProcess(a)
    <3> DEFINE q == IF att[a].pc = "idle" THEN NoAttempt ELSE [att[a] EXCEPT !.java = "none"]
    <3>1. att' = [att EXCEPT ![a] = q]
      BY <2>2 DEF WaitProcess
    <3>2. q.pc = att[a].pc /\ (q.pc # "idle" => q.id = att[a].id)
      BY <1>r DEF NoAttempt, AttemptType
    <3> HIDE DEF q
    <3> QED BY <3>1, <3>2
  <2> QED BY <2>1, <2>2 DEF Java
<1>3. \A b \in Attempts : att'[b] = IF b = a THEN r ELSE att[b]
  BY <1>2, <1>r
<1>4. LastServer'
  BY <1>1, <1>2, <1>3, LastFrame DEF Early
<1>5. PICK s : /\ s.phase = "Failed" \/ s = state
               /\ Save(s) \/ (UNCHANGED <<state, disk>> /\ s = state)
  <2>1. [state EXCEPT !.phase = "Failed"].phase = "Failed"
    BY <1>r, StateFields
  <2> QED BY <2>1 DEF Java, JavaUp, JavaExit, WaitProcess, persisted
<1>6. state' = s /\ (disk'.phase = "Ready" => disk'.active # None)
  BY <1>5, ReadySaved DEF Fitting
<1> QED BY <1>1, <1>4, <1>5, <1>6, FitFrame DEF Begun

\* The goroutines around stopAndBackup(): the pack a switch leads to does not
\* fit the Machine, so that its start() will reboot it.
LEMMA FitDrain ==
    ASSUME Distinct, IndInv, OneInv, Fitting, LastServer, NEW d \in Drains, Drain(d)
    PROVE  Fitting' /\ LastServer'
<1>r. /\ state \in States /\ drain \in [Drains -> DrainType] /\ att \in [Attempts -> Attempt]
      /\ "switch" \in Drains /\ "shutdown" \in Drains /\ main # "off"
  BY Awake DEF IndInv, OneInv, PersistedOK, DrainOK, AttOK, Drains
<1>1. CASE DrainBegin(d)
  <2>1. drain[d].pc = "begin" /\ UNCHANGED <<process, main, att, cfgSize>>
    BY <1>1 DEF DrainBegin, mem, fly
  <2>2. CASE UNCHANGED persisted /\ drain' = [drain EXCEPT ![d] = NoDrain]
    <3>1. \A e \in Drains : drain'[e] = IF e = d THEN NoDrain ELSE drain[e]
      BY <2>2, <1>r
    <3>2. NoDrain.pc = "idle" /\ UNCHANGED <<state, disk>>
      BY <2>2 DEF NoDrain, persisted
    <3>3. Fitting'
      BY <1>r, <2>1, <3>1, <3>2, FitFrame DEF Begun, Fitting
    <3>4. LastServer'
      BY <1>r, <2>1, <3>1, <3>2, LastFrame DEF AfterStop
    <3> QED BY <3>3, <3>4
  <2>3. CASE /\ state.phase = "Ready" /\ ~ (d = "switch" /\ state.active = drain[d].caller)
             /\ Save([state EXCEPT !.phase = "Draining"]) /\ Step(d, "saving")
    <3> DEFINE s == [state EXCEPT !.phase = "Draining"]
    <3>1. s.phase = "Draining" /\ Save(s)
      BY <2>3, <1>r, StateFields
    <3> HIDE DEF s
    <3>2. state' = s /\ (disk'.phase = "Ready" => disk'.active # None)
      BY <3>1, ReadySaved
    <3>3. \A e \in Drains : /\ drain'[e].caller = drain[e].caller
                            /\ drain'[e].pc = IF e = d THEN "saving" ELSE drain[e].pc
      BY <2>3, <1>r DEF Step, DrainType
    <3>4. cfgSize = MachineSize[state.active] /\ state.active \in Packs
      BY <2>3, <1>r DEF Fitting, States
    <3>5. ASSUME d = "switch" PROVE cfgSize # MachineSize[drain["switch"].caller]
      <4>1. drain["switch"].caller \in Packs /\ drain["switch"].caller # state.active
        BY <2>1, <2>3, <3>5 DEF IndInv, DrainOK
      <4> QED BY <3>4, <4>1 DEF Distinct
    <3>6. Begun("switch")' => cfgSize' # MachineSize[drain'["switch"].caller]
      BY <1>r, <2>1, <3>3, <3>5 DEF Begun, Fitting
    <3>7. Fitting'
      BY <3>1, <3>2, <3>6 DEF Fitting
    <3>8. LastServer'
      BY <1>r, <2>1, <3>3, LastFrame DEF AfterStop
    <3> QED BY <3>7, <3>8
  <2> QED BY <1>1, <2>2, <2>3 DEF DrainBegin
<1>2. CASE StopAndBackup(d)
  BY <1>2, FitStopAndBackup
<1>3. CASE IdleStopped \/ DrainFailed(d)
  <2>1. PICK s : Save(s) /\ s.phase \in {"Idle", "Failed"}
    <3>1. IdleState.phase = "Idle" /\ \A id : FailedState(id).phase = "Failed"
      BY <1>r DEF IdleState, FailedState, States
    <3> QED BY <1>3, <3>1 DEF IdleStopped, DrainFailed
  <2>2. state' = s /\ (disk'.phase = "Ready" => disk'.active # None)
    BY <2>1, ReadySaved
  <2>3. UNCHANGED <<process, main, att, cfgSize>>
    BY <1>3 DEF IdleStopped, DrainFailed, fly
  <2>4. \A e \in Drains : drain'[e] \in {drain[e], NoDrain} /\ drain'["shutdown"] = drain["shutdown"]
    BY <1>3, <1>r DEF IdleStopped, DrainFailed
  <2>5. NoDrain.pc = "idle"
    BY DEF NoDrain
  <2>6. Fitting'
    BY <1>r, <2>1, <2>2, <2>3, <2>4, <2>5, FitFrame DEF Begun
  <2>7. LastServer'
    BY <1>r, <2>3, <2>4, LastFrame
  <2> QED BY <2>6, <2>7
<1>4. CASE Switched
  <2> DEFINE id == drain["switch"].caller
             new == [NoAttempt EXCEPT !.pc = "resize", !.id = id, !.recovery = FALSE]
             s == LoadingState(id)
  <2>1. /\ Save(s) /\ drain["switch"].pc = "finish" /\ UNCHANGED <<process, main, cfgSize>>
        /\ drain' = [drain EXCEPT !["switch"] = NoDrain]
    BY <1>4 DEF Switched, mem, fly
  <2>2. s.phase = "Loading"
    BY <1>r, StateFields
  <2>3. PICK a \in FreeAttempts : att' = [att EXCEPT ![a] = new]
    BY <1>4 DEF Switched, GoStart
  <2>4. new.pc = "resize" /\ new.id = id /\ a \in Attempts
    BY <2>3 DEF NoAttempt, FreeAttempts
  <2> HIDE DEF new, s
  <2>5. \A b \in Attempts : att'[b] = IF b = a THEN new ELSE att[b]
    BY <2>3, <2>4, <1>r
  <2>6. Begun("switch") /\ "switch" \in Leaving
    BY <2>1 DEF Begun, Leaving
  <2>7. cfgSize # MachineSize[id] /\ Running = {}
    BY <2>6 DEF Fitting, OneInv, Exclusive
  <2>8. drain'["switch"].pc = "idle" /\ drain'["shutdown"] = drain["shutdown"]
    BY <2>1, <1>r DEF NoDrain
  <2>9. state' = s /\ (disk'.phase = "Ready" => disk'.active # None)
    BY <2>1, <2>2, ReadySaved
  <2>10. Fitting'
    BY <2>1, <2>2, <2>8, <2>9, FitFrame DEF Begun
  <2>11. Running' = {a}
    BY <2>4, <2>5, <2>7 DEF Running
  <2>12. att'[a].pc = "resize" /\ att'[a].id = id
    BY <2>4, <2>5
  <2> HIDE DEF id
  <2>13. LastServer'
    BY <2>1, <2>7, <2>8, <2>11, <2>12 DEF LastServer
  <2> QED BY <2>10, <2>13
<1>5. CASE ShutdownDone
  BY <1>5, FitHalt DEF ShutdownDone
<1> QED BY <1>1, <1>2, <1>3, <1>4, <1>5 DEF Drain

\* Every step keeps a Ready pack on the Machine it needs and every start()
\* before the sizer while Shutdown drains.
LEMMA FitNext ==
    ASSUME Calm, Distinct
    PROVE  IndInv /\ OneInv /\ Measured /\ Fitting /\ LastServer /\ [Next]_vars
           => Fitting' /\ LastServer'
<1> SUFFICES ASSUME IndInv, OneInv, Measured, Fitting, LastServer, [Next]_vars
             PROVE  Fitting' /\ LastServer'
  OBVIOUS
<1>r. state \in States /\ disk \in States /\ drain \in [Drains -> DrainType]
      /\ "switch" \in Drains /\ "shutdown" \in Drains
  BY DEF IndInv, PersistedOK, DrainOK, Drains
<1>k. ASSUME UNCHANGED <<process, main, att, cfgSize>>,
             drain'["switch"] = drain["switch"], drain'["shutdown"] = drain["shutdown"],
             state'.phase = state.phase, state'.active = state.active,
             disk'.phase = "Ready" => disk'.active # None
      PROVE  Fitting' /\ LastServer'
  <2>1. Fitting'
    BY <1>k, FitFrame DEF Begun
  <2>2. LastServer'
    BY <1>k, LastFrame
  <2> QED BY <2>1, <2>2
<1>1. CASE UNCHANGED vars \/ Connect \/ Leave \/ Touch \/ Quiesce \/ TickExit \/ TickRead \/ TickQuery
  <2>1. UNCHANGED <<state, disk, process, main, att, cfgSize, drain>>
    BY <1>1 DEF vars, Connect, Leave, Touch, Quiesce, TickExit, TickRead, TickQuery, persisted, mem, fly
  <2> QED BY <2>1, <1>k DEF Fitting
<1>2. CASE Elapse
  <2>1. state' = Older(state) /\ disk' = Older(disk) /\ UNCHANGED <<process, main, att, cfgSize, drain>>
    BY <1>2 DEF Elapse, mem, fly
  <2>2. /\ state'.phase = state.phase /\ state'.active = state.active
        /\ disk'.phase = disk.phase /\ disk'.active = disk.active
    BY <2>1, <1>r, StateFields
  <2> QED BY <2>1, <2>2, <1>k DEF Fitting
<1>3. CASE TickApply
  <2>1. PICK e : Save([state EXCEPT !.empty = e])
    BY <1>3 DEF TickApply
  <2> DEFINE s == [state EXCEPT !.empty = e]
  <2>2. s.phase = state.phase /\ s.active = state.active /\ Save(s)
    BY <2>1, <1>r, StateFields
  <2> HIDE DEF s
  <2>3. UNCHANGED <<process, main, att, cfgSize>>
    BY <1>3 DEF TickApply, mem, fly
  <2>4. drain'["switch"] = drain["switch"] /\ drain'["shutdown"] = drain["shutdown"]
    BY <1>3, <1>r DEF TickApply
  <2>5. state' = s /\ (disk'.phase = "Ready" => disk'.active # None)
    BY <2>2, ReadySaved
  <2> QED BY <2>2, <2>3, <2>4, <2>5, <1>k
<1>4. ASSUME NEW a \in Attempts, Start(a) PROVE Fitting' /\ LastServer'
  <2>1. CASE SizerPanic(a)
    BY <2>1, FitHalt DEF SizerPanic
  <2>2. CASE ~SizerPanic(a)
    <3>1. main # "off"
      BY <1>4, Awake DEF OneInv
    <3>2. UNCHANGED main
      BY <1>4, <2>2 DEF Start, StartResize, SizerEnsure, StartSized, Prepare, Restore, Identify,
         Launch, LaunchFails, Publish, PollAnswered, PollReady, PollTimeout, StartFail, mem
    <3>3. ~Halt
      BY <3>1, <3>2 DEF Halt
    <3> QED BY <1>4, <3>3, FitStart
  <2> QED BY <2>1, <2>2
<1> QED BY <1>1, <1>2, <1>3, <1>4, FitMain, FitLogin, FitJava, FitDrain DEF Next, Tick

\* The archive of a drain is taken when no server exists.
LEMMA ArchivedAtRest ==
    ASSUME OneInv, LastServer, NEW d \in Drains, drain[d].pc = "archive"
    PROVE  \A a \in Attempts : ~Live(a)
<1>1. Begun(d) /\ drain[d].pc \in AfterStop
  BY DEF Begun, AfterStop
<1>2. process = None /\ \A a \in Attempts : att[a].pc # "publish"
  <2>1. CASE d \in Leaving
    BY <1>1, <2>1 DEF OneInv, Owned, Exclusive, Running
  <2>2. CASE d = "shutdown"
    <3>1. main = "draining"
      BY <2>2 DEF OneInv, Orderly
    <3> QED BY <1>1, <2>2, <3>1 DEF LastServer, Running, Early
  <2> QED BY <2>1, <2>2 DEF Drains, Leaving
<1> QED BY <1>2 DEF OneInv, Owned

\* What the steps that touch the store do to it.
LEMMA ArchiveSteps ==
    ASSUME IndInv, OneInv, LastServer, Resident, NEW d \in Drains, CommitArchive(d)
    PROVE  \/ UNCHANGED world
           \/ /\ local[drain[d].id] = "current" /\ UNCHANGED local
              /\ head' = [head EXCEPT ![drain[d].id] = "current"]
              /\ hgen' = [hgen EXCEPT ![drain[d].id] = drain[d].gen + 1]
<1> DEFINE id == drain[d].id
<1>1. drain[d].pc = "archive" /\ id \in Packs /\ UNCHANGED local
  BY DEF CommitArchive, IndInv, DrainOK, ForPack
<1>2. local[id] # "absent" => local[id] = "current" /\ Archived(id) = "current"
  BY <1>1, ArchivedAtRest DEF Archived, Resident
<1> QED BY <1>1, <1>2 DEF CommitArchive, world

\* Every step leaves the backups whole.
LEMMA IntactNext ==
    ASSUME IndInv, OneInv, LastServer, Resident, Intact, [Next]_vars
    PROVE  Intact'
<1>r. head \in [Packs -> HeadCopy] /\ hgen \in [Packs -> Nat] /\ drain \in [Drains -> DrainType]
  BY DEF IndInv, WorldOK, DrainOK
<1>1. CASE UNCHANGED world
  BY <1>1 DEF Intact, world
<1>2. ASSUME NEW a \in Attempts, Restore(a) \/ Launch(a) \/ LaunchFails(a) PROVE Intact'
  <2>1. att[a].id \in Packs /\ UNCHANGED hgen
    BY <1>2 DEF Restore, Launch, LaunchFails, IndInv, AttOK, Attempt
  <2>2. \A p \in Packs : head'[p] = head[p] \/ (head[p] = "current" /\ head'[p] = "stale")
    BY <1>2, <2>1, <1>r DEF Restore, Launch, LaunchFails
  <2> QED BY <2>1, <2>2 DEF Intact
<1>3. ASSUME NEW d \in Drains, CommitArchive(d) PROVE Intact'
  <2>1. drain[d].gen + 1 > 0 /\ drain[d].id \in Packs
    BY <1>3, <1>r DEF DrainType, CommitArchive, IndInv, DrainOK, ForPack
  <2>2. CASE /\ head' = [head EXCEPT ![drain[d].id] = "current"]
             /\ hgen' = [hgen EXCEPT ![drain[d].id] = drain[d].gen + 1]
    <3>1. \A p \in Packs : p # drain[d].id => head'[p] = head[p] /\ hgen'[p] = hgen[p]
      BY <2>2, <1>r
    <3>2. head'[drain[d].id] = "current" /\ hgen'[drain[d].id] = drain[d].gen + 1
      BY <2>1, <2>2, <1>r
    <3>3. drain[d].gen + 1 # 0
      BY <1>r DEF DrainType
    <3> QED BY <3>1, <3>2, <3>3 DEF Intact
  <2> QED BY <1>1, <1>3, <2>2, ArchiveSteps
<1> QED BY <1>1, <1>2, <1>3, WorldSteps DEF Resident

\* Which packs fit the Machine and who may run while Shutdown drains.
FitInv == Measured /\ Fitting /\ LastServer

\* A drain and a start() that follows it are kept apart by the reboot between
\* packs of different sizes.
THEOREM FitInvariance == ASSUME Calm, Distinct PROVE Spec => []FitInv
<1>1. Init => FitInv
  <2> SUFFICES ASSUME Init PROVE FitInv
    OBVIOUS
  <2>1. Measured
    BY DEF Init, NoAttempt, Measured, Approved
  <2>2. \A d \in Drains : drain[d].pc = "idle"
    BY DEF Init, NoDrain
  <2>3. ~Begun("switch") /\ state.phase = "Idle" /\ disk.phase = "Idle"
    BY <2>2 DEF Init, Begun, IdleState, Drains
  <2> QED BY <2>1, <2>3 DEF Init, Fitting, LastServer, FitInv
<1>2. IndInv /\ OneInv /\ FitInv /\ [Next]_vars => FitInv'
  BY MeasuredNext, FitNext DEF FitInv
<1> QED BY <1>1, <1>2, Invariance, OneInvariance, PTL DEF Spec

\* What the backups rest on.
WorldInv == FitInv /\ Resident /\ Intact

\* Whatever interleaves, servers, drains and backups keep out of each other's way.
THEOREM WorldInvariance == ASSUME Calm, Separate PROVE Spec => []WorldInv
<1>0. Distinct
  BY DEF Separate
<1>1. Init => Resident /\ Intact
  <2> SUFFICES ASSUME Init PROVE Resident /\ Intact
    OBVIOUS
  <2>1. /\ \A d \in Drains : drain[d].pc = "idle"
        /\ \A a \in Attempts : att[a].java = "none"
    BY DEF Init, NoDrain, NoAttempt
  <2> QED BY <2>1 DEF Init, Resident, Keeping, Intact, Live, LiveJava
<1>2. IndInv /\ OneInv /\ FitInv /\ Resident /\ Intact /\ [Next]_vars => Resident' /\ Intact'
  BY ResidentNext, IntactNext DEF FitInv, Separate
<1> QED BY <1>0, <1>1, <1>2, Invariance, OneInvariance, FitInvariance, PTL DEF Spec, WorldInv

\* Backups are taken from worlds at rest: the head of the store is never an
\* archive of a world that a server was changing (NoTornBackup), however the
\* drains of tick, switchTo and Shutdown overlap with starts, crashes and
\* reboots.
THEOREM BackupsAreWhole == ASSUME Calm, Separate PROVE Spec => []NoTornBackup
<1>1. IndInv /\ WorldInv => NoTornBackup
  <2> SUFFICES ASSUME IndInv, Intact, NEW p \in Packs PROVE head[p] # "torn"
    BY DEF WorldInv, NoTornBackup
  <2>1. hgen[p] = 0 \/ hgen[p] > 0
    BY DEF IndInv, WorldOK
  <2> QED BY <2>1 DEF Intact
<1> QED BY <1>1, Invariance, WorldInvariance, PTL

----------------------------------------------------------------------------
\* The refinement of Lifecycle

\* Besides Calm and Separate: the state file can be written. When several saves
\* in a row fail a pack is played of which active.json knows nothing.
Durable == "saveErr" \notin Faults

\* A server exists.
Served == \E a \in Attempts : Live(a)

\* What tick() read belongs to the pack that is active: an answer of the status
\* query is applied, and the idle drain begins, before the server can be gone.
Timed ==
    /\ tick.pc = "query" /\ Up # {} => tick.id = state.active
    /\ tick.pc = "apply" /\ tick.players = "none" => tick.id = state.active /\ Served
    /\ drain["idle"].pc = "begin" => drain["idle"].caller = state.active /\ Served
    /\ Begun("idle") => drain["idle"].caller = state.active

\* A successful Save leaves the same in memory and in the file.
LEMMA DurableSave == ASSUME Durable, NEW s, Save(s) PROVE state' = s /\ disk' = s
BY DEF Durable, Save, Fault

\* Nothing is at work when the pack is about to change.
LEMMA Unserved ==
    ASSUME OneInv, state.phase = "Idle" \/ \E d \in Leaving : drain[d].pc = "finish"
    PROVE  Running = {} /\ ~Served
<1>1. process = None /\ Running = {}
  <2>1. CASE state.phase = "Idle"
    BY <2>1 DEF OneInv, Owned, Entitled
  <2>2. CASE \E d \in Leaving : drain[d].pc = "finish"
    <3>1. PICK d \in Leaving : drain[d].pc = "finish"
      BY <2>2
    <3>2. Begun(d) /\ drain[d].pc \in AfterStop
      BY <3>1 DEF Begun, AfterStop
    <3> QED BY <3>1, <3>2 DEF OneInv, Owned, Exclusive
  <2> QED BY <2>1, <2>2
<1>2. \A a \in Attempts : att[a].pc # "publish"
  BY <1>1 DEF Running
<1> QED BY <1>1, <1>2 DEF OneInv, Owned, Served

\* The steps that change the active pack: a login to an idle machine, the end of
\* an idle stop and of a switch.
LEMMA ActiveSteps ==
    ASSUME IndInv, OneInv, Timed, disk = state, [Next]_vars, ~Ending
    PROVE  \/ state'.active = state.active /\ (state'.phase = "Idle" => state.phase = "Idle")
           \/ \E id \in Packs : EnsureIdle(id)
           \/ IdleStopped
           \/ Switched
<1> DEFINE Same == state'.active = state.active /\ (state'.phase = "Idle" => state.phase = "Idle")
<1>r. state \in States
  BY DEF IndInv, PersistedOK
<1>s. ASSUME NEW s, Save(s), s.active = state.active, s.phase = "Idle" => state.phase = "Idle"
      PROVE  Same
  BY <1>s DEF Save
<1>p. \A ph : [state EXCEPT !.phase = ph].phase = ph /\ [state EXCEPT !.phase = ph].active = state.active
  BY <1>r, StateFields
<1>g. \A g, b : /\ [state EXCEPT !.gen = g, !.pending = b].phase = state.phase
                /\ [state EXCEPT !.gen = g, !.pending = b].active = state.active
  BY <1>r, StateFields
<1>1. CASE UNCHANGED state
  BY <1>1
<1>2. CASE Boot
  <2>1. Save([state EXCEPT !.phase = "Recovering"]) \/ state' = state
    BY <1>2 DEF Boot, Interrupted
  <2> QED BY <2>1, <1>1, <1>p, <1>s
<1>3. CASE ShutdownBegin
  BY <1>3, <1>p, <1>s DEF ShutdownBegin
<1>4. ASSUME NEW id \in Packs, EnsureRetry(id) PROVE Same
  BY <1>4, <1>p, <1>s DEF EnsureRetry
<1>5. CASE Elapse
  BY <1>5, <1>r, StateFields DEF Elapse
<1>6. ASSUME NEW a \in Attempts, Start(a) PROVE Same
  <2>1. CASE StartResize(a)
    BY <2>1, <1>1, <1>p, <1>s DEF StartResize, IfActive, persisted
  <2>2. CASE StartSized(a)
    <3>1. PICK ph \in {"Recovering", "Loading"} :
             Save([state EXCEPT !.phase = ph]) \/ UNCHANGED state
      BY <2>2 DEF StartSized, IfActive, persisted
    <3> QED BY <3>1, <1>1, <1>p, <1>s
  <2>3. CASE Identify(a)
    <3>1. PICK g, b : Save([state EXCEPT !.gen = g, !.pending = b])
      BY <2>3 DEF Identify
    <3> QED BY <3>1, <1>g, <1>s
  <2>4. CASE PollReady(a)
    BY <2>4, <1>1, <1>p, <1>s DEF PollReady, persisted
  <2>5. CASE StartFail(a)
    <3>1. state.active = att[a].id
      BY <2>5 DEF StartFail, OneInv, Entitled, Running
    <3>2. FailedState(att[a].id).phase = "Failed" /\ FailedState(att[a].id).active = att[a].id
      BY <1>r DEF FailedState, States
    <3> QED BY <2>5, <3>1, <3>2, <1>s DEF StartFail
  <2> QED BY <1>6, <1>1, <2>1, <2>2, <2>3, <2>4, <2>5
          DEF Start, SizerEnsure, Prepare, Restore, Launch, LaunchFails, Publish, PollAnswered,
              PollTimeout, persisted, Ending
<1>7. ASSUME NEW a \in Attempts, Java(a) PROVE Same
  BY <1>7, <1>1, <1>p, <1>s DEF Java, JavaUp, JavaExit, WaitProcess, persisted
<1>8. ASSUME NEW d \in Drains, Drain(d), ~IdleStopped, ~Switched PROVE Same
  <2>1. CASE DrainBegin(d)
    BY <2>1, <1>1, <1>p, <1>s DEF DrainBegin, persisted
  <2>2. CASE Saving(d)
    BY <2>2, <1>p, <1>s DEF Saving
  <2>3. CASE CommitFailed(d)
    <3>1. PICK s : s = [state EXCEPT !.pending = TRUE] /\ Save(s)
      BY <2>3 DEF CommitFailed
    <3>2. s.phase = state.phase /\ s.active = state.active
      BY <3>1, <1>r, StateFields
    <3> QED BY <3>1, <3>2, <1>s
  <2>4. CASE CommitRecorded(d)
    <3>1. PICK g, b : Save([state EXCEPT !.gen = g, !.pending = b])
      BY <2>4 DEF CommitRecorded
    <3> QED BY <3>1, <1>g, <1>s
  <2>5. CASE DrainFailed(d)
    <3>1. d = "idle" => drain[d].caller = state.active
      BY <2>5 DEF DrainFailed, Timed, Begun
    <3>2. Save(FailedState(state.active))
      BY <2>5, <3>1 DEF DrainFailed
    <3>3. FailedState(state.active).phase = "Failed" /\ FailedState(state.active).active = state.active
      BY <1>r DEF FailedState, States
    <3> QED BY <3>2, <3>3, <1>s
  <2>6. CASE StopAndBackup(d)
    BY <2>2, <2>3, <2>4, <2>6, <1>1
       DEF StopAndBackup, SaveAll, ExpectStop, StopCommand, UnexpectStop, WaitStopped, StopTimeout,
           CommitHead, CommitArchive, Evict, Evicted, persisted
  <2> QED BY <1>8, <2>1, <2>5, <2>6 DEF Drain, Ending
<1>9. CASE Tick
  <2>1. CASE TickApply
    <3>1. PICK e : Save([state EXCEPT !.empty = e])
      BY <2>1 DEF TickApply
    <3>2. [state EXCEPT !.empty = e].phase = state.phase /\ [state EXCEPT !.empty = e].active = state.active
      BY <1>r, StateFields
    <3> QED BY <3>1, <3>2, <1>s
  <2> QED BY <1>9, <2>1, <1>1 DEF Tick, TickExit, TickRead, TickQuery, persisted
<1>10. CASE \E id \in Packs : Ensure(id)
  BY <1>10, <1>1, <1>4 DEF Ensure, EnsureReady, EnsureSwitch, EnsureRefused, persisted
<1>11. CASE StopServing \/ Connect \/ Leave \/ Touch \/ Quiesce \/ UNCHANGED vars
  BY <1>11, <1>1 DEF StopServing, Connect, Leave, Touch, Quiesce, persisted, vars
<1> QED BY <1>2, <1>3, <1>5, <1>6, <1>7, <1>8, <1>9, <1>10, <1>11 DEF Next, Main, Ending

\* Memory and file agree when the file can be written.
LEMMA SyncedNext ==
    ASSUME Durable, disk = state, [Next]_vars
    PROVE  disk' = state'
<1>s. ASSUME NEW s, Save(s) PROVE disk' = state'
  BY <1>s, DurableSave
<1>k. ASSUME UNCHANGED <<state, disk>> PROVE disk' = state'
  BY <1>k
<1>1. CASE Ending
  BY <1>1 DEF Ending, ShutdownNothing, Crash, Reboot, ShutdownDone, SizerPanic
<1>2. CASE Boot \/ StopServing \/ ShutdownBegin \/ Connect \/ Leave \/ Touch \/ Quiesce \/ Elapse \/ Tick
           \/ UNCHANGED vars
  BY <1>2, <1>s, <1>k
     DEF Boot, Interrupted, StopServing, ShutdownBegin, Connect, Leave, Touch, Quiesce, Elapse, Tick,
         TickExit, TickRead, TickQuery, TickApply, persisted, vars
<1>3. CASE \E id \in Packs : Ensure(id)
  BY <1>3, <1>s, <1>k DEF Ensure, EnsureIdle, EnsureRetry, EnsureReady, EnsureSwitch, EnsureRefused,
                          persisted
<1>4. ASSUME NEW a \in Attempts, Start(a) \/ Java(a), ~SizerPanic(a) PROVE disk' = state'
  <2>1. (\E s : Save(s)) \/ UNCHANGED <<state, disk>>
    BY <1>4 DEF Start, StartResize, SizerEnsure, StartSized, IfActive, Prepare, Restore, Identify, Launch,
                LaunchFails, Publish, PollAnswered, PollReady, PollTimeout, StartFail, Java, JavaUp,
                JavaExit, WaitProcess, persisted
  <2> QED BY <2>1, <1>s, <1>k
<1>5. ASSUME NEW d \in Drains, Drain(d), ~ShutdownDone PROVE disk' = state'
  <2>1. (\E s : Save(s)) \/ UNCHANGED <<state, disk>>
    BY <1>5 DEF Drain, DrainBegin, IdleStopped, Switched, DrainFailed, StopAndBackup, Saving, SaveAll,
                ExpectStop, StopCommand, UnexpectStop, WaitStopped, StopTimeout, CommitHead,
                CommitArchive, CommitFailed, CommitRecorded, Evict, Evicted, persisted
  <2> QED BY <2>1, <1>s, <1>k
<1> QED BY <1>1, <1>2, <1>3, <1>4, <1>5 DEF Next, Main, Ending

\* What stopAndBackup() makes of the record of its drain.
LEMMA BackupSteps ==
    ASSUME IndInv, NEW d \in Drains, StopAndBackup(d)
    PROVE  /\ \A e \in Drains : e # d => drain'[e] = drain[e]
           /\ Begun(d) /\ drain'[d].pc \notin {"idle", "begin", "saving"}
           /\ drain'[d].caller = drain[d].caller
           /\ drain'[d].id = IF drain[d].pc = "saving" THEN state.active ELSE drain[d].id
           /\ drain'[d].pc = "record" => CommitArchive(d)
           /\ drain'[d].pc = "finish" => drain[d].pc \in {"record", "evicting"}
           /\ drain[d].pc = "saving" => UNCHANGED world
<1>r. drain \in [Drains -> DrainType] /\ drain[d] \in DrainType
  BY DEF IndInv, DrainOK
<1>1. ASSUME NEW r, drain' = [drain EXCEPT ![d] = r]
      PROVE  \A e \in Drains : drain'[e] = IF e = d THEN r ELSE drain[e]
  BY <1>1, <1>r
<1>2. ASSUME NEW pc, Step(d, pc)
      PROVE  /\ \A e \in Drains : e # d => drain'[e] = drain[e]
             /\ drain'[d].pc = pc /\ drain'[d].caller = drain[d].caller /\ drain'[d].id = drain[d].id
  BY <1>2, <1>r DEF Step, DrainType
<1>3. CASE Saving(d)
  <2> DEFINE r == [drain[d] EXCEPT !.id = state.active, !.proc = process, !.pc = AfterSaving]
  <2>1. drain' = [drain EXCEPT ![d] = r] /\ drain[d].pc = "saving" /\ UNCHANGED world
    BY <1>3 DEF Saving
  <2>2. r.pc \in {"commit", "saveall"} /\ r.caller = drain[d].caller /\ r.id = state.active
    BY <1>r DEF DrainType, AfterSaving
  <2> HIDE DEF r
  <2>3. drain'[d] = r /\ \A e \in Drains : e # d => drain'[e] = drain[e]
    BY <1>1, <2>1
  <2>4. drain'[d].pc \in {"commit", "saveall"} /\ drain'[d].caller = drain[d].caller
        /\ drain'[d].id = state.active
    BY <2>2, <2>3
  <2> QED BY <2>1, <2>3, <2>4 DEF Begun, world
<1>4. CASE WaitStopped(d) \/ StopTimeout(d)
  <2>1. PICK pc \in {"commit", "error"} : drain' = [drain EXCEPT ![d].pc = pc, ![d].proc = None]
    BY <1>4 DEF WaitStopped, StopTimeout
  <2> DEFINE r == [drain[d] EXCEPT !.pc = pc, !.proc = None]
  <2>2. /\ drain' = [drain EXCEPT ![d] = r] /\ drain[d].pc = "waitstop"
        /\ r.pc = pc /\ r.caller = drain[d].caller /\ r.id = drain[d].id
    BY <1>4, <2>1, <1>r DEF DrainType, WaitStopped, StopTimeout
  <2> HIDE DEF r
  <2> QED BY <1>1, <2>1, <2>2 DEF Begun
<1>5. CASE CommitHead(d)
  <2>1. PICK pc \in {"archive", "commitErr"} :
           drain' = [drain EXCEPT ![d].gen = state.gen, ![d].pc = pc]
    BY <1>5 DEF CommitHead, AfterCompare
  <2> DEFINE r == [drain[d] EXCEPT !.gen = state.gen, !.pc = pc]
  <2>2. /\ drain' = [drain EXCEPT ![d] = r] /\ drain[d].pc = "commit"
        /\ r.pc = pc /\ r.caller = drain[d].caller /\ r.id = drain[d].id
    BY <1>5, <2>1, <1>r DEF DrainType, CommitHead
  <2> HIDE DEF r
  <2> QED BY <1>1, <2>1, <2>2 DEF Begun
<1>6. CASE SaveAll(d) \/ ExpectStop(d) \/ StopCommand(d) \/ UnexpectStop(d) \/ CommitFailed(d)
  <2>1. PICK pc \in {"expect", "stop", "unexpect", "waitstop", "error"} :
           Step(d, pc) /\ drain[d].pc \in {"saveall", "expect", "stop", "unexpect", "commitErr"}
    BY <1>6 DEF SaveAll, ExpectStop, StopCommand, AfterStopError, UnexpectStop, CommitFailed
  <2> QED BY <1>2, <2>1 DEF Begun
<1>7. CASE CommitArchive(d)
  <2>1. PICK pc \in {"record", "commitErr"} : Step(d, pc) /\ drain[d].pc = "archive"
    BY <1>7 DEF CommitArchive
  <2> QED BY <1>2, <1>7, <2>1 DEF Begun
<1>8. CASE CommitRecorded(d) \/ Evict(d) \/ Evicted(d)
  <2>1. PICK pc \in {"evict", "evicting", "finish", "error"} :
           /\ Step(d, pc) /\ drain[d].pc \in {"record", "evict", "evicting"}
           /\ pc = "finish" => drain[d].pc \in {"record", "evicting"}
    BY <1>8 DEF CommitRecorded, AfterBackup, Evict, Evicted
  <2> QED BY <1>2, <2>1 DEF Begun
<1> QED BY <1>3, <1>4, <1>5, <1>6, <1>7, <1>8 DEF StopAndBackup

\* tick() starts the idle drain after an answer that nobody plays, if nobody has
\* for long enough.
TickStops ==
    /\ tick.pc = "apply" /\ tick.players = "none" /\ drain["idle"].pc = "idle" /\ UNCHANGED att
    /\ drain'["idle"].pc = "begin" /\ drain'["idle"].caller = tick.id
    /\ IdleBeforeStop > 0 => state.empty >= IdleBeforeStop

\* A goroutine finds the pack Ready and drains it.
BeginsReady(d) ==
    /\ drain[d].pc = "begin" /\ drain'[d].pc = "saving" /\ drain'[d].caller = drain[d].caller
    /\ state.phase = "Ready" /\ (d = "switch" => state.active # drain[d].caller)

\* Where the records of the drains come from.
LEMMA DrainSteps ==
    ASSUME IndInv, [Next]_vars, ~Ending
    PROVE  \A d \in Drains :
              \/ drain'[d] = drain[d]
              \/ drain'[d] = NoDrain /\ drain[d].pc \in {"begin", "finish", "error"}
              \/ d = "idle" /\ TickStops
              \/ d = "switch" /\ drain'[d].pc = "begin" /\ \E id \in Packs : EnsureSwitch(id)
              \/ d = "shutdown" /\ drain'[d].pc = "saving" /\ ShutdownBegin
              \/ BeginsReady(d)
              \/ StopAndBackup(d)
<1> SUFFICES ASSUME NEW d \in Drains
             PROVE  \/ drain'[d] = drain[d]
                    \/ drain'[d] = NoDrain /\ drain[d].pc \in {"begin", "finish", "error"}
                    \/ d = "idle" /\ TickStops
                    \/ d = "switch" /\ drain'[d].pc = "begin" /\ \E id \in Packs : EnsureSwitch(id)
                    \/ d = "shutdown" /\ drain'[d].pc = "saving" /\ ShutdownBegin
                    \/ BeginsReady(d)
                    \/ StopAndBackup(d)
  OBVIOUS
<1>r. drain \in [Drains -> DrainType] /\ "idle" \in Drains /\ "switch" \in Drains
  BY DEF IndInv, DrainOK, Drains
<1>1. CASE UNCHANGED drain
  BY <1>1
<1>2. CASE ShutdownBegin
  BY <1>2, <1>r DEF ShutdownBegin, DrainType
<1>3. CASE \E id \in Packs : EnsureSwitch(id)
  BY <1>3, <1>r DEF EnsureSwitch, NoDrain
<1>4. CASE TickApply
  <2>1. CASE /\ drain["idle"].pc = "idle" /\ tick.players = "none" /\ tick.pc = "apply"
             /\ IdleBeforeStop > 0 => state.empty >= IdleBeforeStop
             /\ drain' = [drain EXCEPT !["idle"] = [NoDrain EXCEPT !.pc = "begin", !.caller = tick.id]]
    <3>1. drain'["idle"].pc = "begin" /\ drain'["idle"].caller = tick.id
      BY <2>1, <1>r DEF NoDrain
    <3>2. d # "idle" => drain'[d] = drain[d]
      BY <2>1, <1>r
    <3> QED BY <1>4, <2>1, <3>1, <3>2 DEF TickStops, TickApply
  <2>2. ~ (-1 >= IdleBeforeStop)
    OBVIOUS
  <2>3. UNCHANGED drain
        \/ /\ drain["idle"].pc = "idle" /\ tick.players = "none" /\ tick.pc = "apply"
           /\ IdleBeforeStop > 0 => state.empty >= IdleBeforeStop
           /\ drain' = [drain EXCEPT !["idle"] = [NoDrain EXCEPT !.pc = "begin", !.caller = tick.id]]
    BY <1>4, <2>2 DEF TickApply
  <2> QED BY <1>1, <2>1, <2>3
<1>5. ASSUME NEW e \in Drains, Drain(e), ~ShutdownDone
      PROVE  \/ drain'[d] = drain[d]
             \/ drain'[d] = NoDrain /\ drain[d].pc \in {"begin", "finish", "error"}
             \/ BeginsReady(d) \/ StopAndBackup(d)
  <2>1. CASE DrainBegin(e)
    <3>1. CASE drain' = [drain EXCEPT ![e] = NoDrain]
      BY <2>1, <3>1, <1>r DEF DrainBegin
    <3>2. CASE Step(e, "saving")
      <4>1. \A c \in Drains : /\ c # e => drain'[c] = drain[c]
                              /\ drain'[e].pc = "saving" /\ drain'[e].caller = drain[e].caller
        BY <3>2, <1>r DEF Step, DrainType
      <4>2. \/ state.phase = "Ready" /\ ~ (e = "switch" /\ state.active = drain[e].caller)
            \/ drain' = [drain EXCEPT ![e] = NoDrain]
        BY <2>1 DEF DrainBegin
      <4>3. drain[e].pc = "begin"
        BY <2>1 DEF DrainBegin
      <4> QED BY <3>1, <4>1, <4>2, <4>3 DEF BeginsReady
    <3> QED BY <2>1, <3>1, <3>2 DEF DrainBegin
  <2>2. CASE StopAndBackup(e)
    BY <2>2, BackupSteps
  <2>3. CASE IdleStopped \/ Switched \/ DrainFailed(e)
    BY <2>3, <1>r DEF IdleStopped, Switched, DrainFailed
  <2> QED BY <1>5, <2>1, <2>2, <2>3 DEF Drain
<1>6. CASE \E id \in Packs : Ensure(id)
  BY <1>1, <1>3, <1>6 DEF Ensure, EnsureIdle, EnsureRetry, EnsureReady, EnsureRefused
<1>7. CASE \E a \in Attempts : Start(a) \/ Java(a)
  BY <1>1, <1>7
     DEF Start, StartResize, SizerEnsure, StartSized, Prepare, Restore, Identify, Launch, LaunchFails,
         Publish, PollAnswered, PollReady, PollTimeout, StartFail, Java, JavaUp, JavaExit, WaitProcess,
         Ending
<1>8. CASE Boot \/ StopServing \/ Connect \/ Leave \/ Touch \/ Quiesce \/ Elapse \/ UNCHANGED vars
           \/ TickExit \/ TickRead \/ TickQuery
  BY <1>1, <1>8 DEF Boot, Interrupted, StopServing, Connect, Leave, Touch, Quiesce, Elapse, vars,
                    TickExit, TickRead, TickQuery
<1>9. CASE \E e \in Drains : Drain(e)
  BY <1>5, <1>9 DEF Ending
<1> QED BY <1>2, <1>4, <1>6, <1>7, <1>8, <1>9 DEF Next, Main, Tick, Ending

\* What the monitor goroutine holds.
LEMMA MonitorSteps ==
    ASSUME IndInv, [Next]_vars, ~Ending
    PROVE  \/ tick' \in {tick, NoTick}
           \/ tick'.pc = "query" /\ tick'.id = state.active /\ UNCHANGED <<state, att>>
           \/ /\ tick.pc = "query" /\ tick'.pc = "apply" /\ tick'.id = tick.id /\ UNCHANGED <<state, att>>
              /\ tick'.players = "none" => Up # {}
<1>r. tick \in TickType
  BY DEF IndInv, TickOK
<1>1. CASE TickRead
  BY <1>1 DEF TickRead, NoTick, persisted
<1>2. CASE TickQuery
  BY <1>2, <1>r DEF TickQuery, TickType
<1>3. CASE UNCHANGED tick \/ TickApply
  BY <1>3 DEF TickApply
<1>4. CASE \E a \in Attempts : Start(a) \/ Java(a)
  BY <1>3, <1>4
     DEF Start, StartResize, SizerEnsure, StartSized, Prepare, Restore, Identify, Launch, LaunchFails,
         Publish, PollAnswered, PollReady, PollTimeout, StartFail, Java, JavaUp, JavaExit, WaitProcess,
         Ending
<1>5. CASE \E d \in Drains : Drain(d)
  BY <1>3, <1>5, ZenonT(30)
     DEF Drain, DrainBegin, IdleStopped, Switched, DrainFailed, StopAndBackup, Saving, SaveAll, ExpectStop,
         StopCommand, UnexpectStop, WaitStopped, StopTimeout, CommitHead, CommitArchive, CommitFailed,
         CommitRecorded, Evict, Evicted, Ending
<1>6. CASE Boot \/ StopServing \/ ShutdownBegin \/ Connect \/ Leave \/ Touch \/ Quiesce \/ Elapse
           \/ TickExit \/ UNCHANGED vars
  BY <1>3, <1>6 DEF Boot, Interrupted, StopServing, ShutdownBegin, Connect, Leave, Touch, Quiesce,
                    Elapse, TickExit, vars
<1>7. CASE \E id \in Packs : Ensure(id)
  BY <1>3, <1>7 DEF Ensure, EnsureIdle, EnsureRetry, EnsureReady, EnsureSwitch, EnsureRefused
<1> QED BY <1>1, <1>2, <1>3, <1>4, <1>5, <1>6, <1>7 DEF Next, Main, Tick, Ending

\* Every step keeps what tick() knows in step with the active pack.
LEMMA TimedNext ==
    ASSUME Calm, IndInv, OneInv, Timed, disk = state, [Next]_vars
    PROVE  Timed'
<1>1. CASE Ending
  <2>1. tick' = NoTick /\ \A d \in Drains : drain'[d] = NoDrain
    BY <1>1, EndingHalts DEF Halt
  <2>2. tick'.pc = "idle" /\ drain'["idle"].pc = "idle"
    BY <2>1 DEF NoTick, NoDrain, Drains
  <2> QED BY <2>2 DEF Timed, Begun
<1>2. ASSUME ~Ending, (\E id \in Packs : EnsureIdle(id)) \/ IdleStopped \/ Switched PROVE Timed'
  <2>1. ~Served /\ UNCHANGED tick /\ ~Begun("idle")'
    <3>1. CASE \E id \in Packs : EnsureIdle(id)
      <4>1. state.phase = "Idle" /\ UNCHANGED <<tick, drain>> /\ main # "draining"
        BY <3>1 DEF EnsureIdle, Vacant, Login, Calm
      <4>2. ~Begun("idle")
        BY <4>1 DEF OneInv, Orderly, Leaving
      <4> QED BY <4>1, <4>2, Unserved DEF Begun
    <3>2. CASE IdleStopped
      <4>1. drain'["idle"] = NoDrain /\ drain["idle"].pc = "finish" /\ UNCHANGED tick
        BY <3>2 DEF IdleStopped, IndInv, DrainOK, Drains
      <4>2. NoDrain.pc = "idle"
        BY DEF NoDrain
      <4> QED BY <4>1, <4>2, Unserved DEF Begun, Leaving
    <3>3. CASE Switched
      <4>1. drain'["idle"] = drain["idle"] /\ drain["switch"].pc = "finish" /\ UNCHANGED tick
        BY <3>3 DEF Switched, IndInv, DrainOK, Drains
      <4>2. ~Begun("idle")
        BY <4>1 DEF Begun, OneInv, Exclusive
      <4> QED BY <4>1, <4>2, Unserved DEF Begun, Leaving
    <3> QED BY <1>2, <3>1, <3>2, <3>3
  <2>2. \A a \in Attempts : ~Live(a)'
    <3>1. \A a \in Attempts : ~Launch(a)
      <4>1. Running = {}
        BY <1>2, Unserved DEF EnsureIdle, Vacant, IdleStopped, Switched, Leaving
      <4> QED BY <4>1 DEF Launch, Running
    <3> QED BY <1>2, <2>1, <3>1, ServerSteps DEF Served
  <2>3. Up' = {}
    BY <2>2 DEF Up, Live, LiveJava
  <2>4. drain["idle"].pc # "begin" /\ ~ (tick.pc = "apply" /\ tick.players = "none")
    BY <2>1 DEF Timed
  <2>5. drain'["idle"].pc # "begin"
    <3>1. drain'["idle"] = drain["idle"] \/ drain'["idle"] = NoDrain
      BY <1>2 DEF EnsureIdle, IdleStopped, Switched, IndInv, DrainOK, Drains
    <3> QED BY <2>4, <3>1 DEF NoDrain
  <2> QED BY <2>1, <2>3, <2>4, <2>5 DEF Timed
<1>3. ASSUME ~Ending, state'.active = state.active PROVE Timed'
  <2>1. tick.pc # "idle" => Up' \subseteq Up
    BY <1>3, ServerSteps DEF Up, JavaUp, Slow
  <2>2. ASSUME tick.pc = "apply" \/ drain["idle"].pc = "begin", Served PROVE Served'
    <3>1. ~Prompt
      BY <2>2 DEF Prompt, Drains
    <3>2. \A a \in Attempts : ~JavaExit(a)
      BY <3>1 DEF JavaExit, Fault, Calm
    <3> QED BY <1>3, <2>2, <3>2, ServerSteps DEF Served
  <2>3. tick'.pc = "query" /\ Up' # {} => tick'.id = state'.active
    <3>1. NoTick.pc = "idle"
      BY DEF NoTick
    <3> QED BY <1>3, <2>1, <3>1, MonitorSteps DEF Timed
  <2>4. tick'.pc = "apply" /\ tick'.players = "none" => tick'.id = state'.active /\ Served'
    <3>1. NoTick.pc = "idle"
      BY DEF NoTick
    <3>2. Up # {} => Served
      BY DEF Up, Served, Live, LiveJava
    <3>3. UNCHANGED att /\ Served => Served'
      BY DEF Served, Live
    <3>4. CASE tick' = tick
      BY <1>3, <2>2, <3>4 DEF Timed
    <3>5. CASE tick.pc = "query" /\ tick'.id = tick.id /\ UNCHANGED att /\ (tick'.players = "none" => Up # {})
      BY <1>3, <3>2, <3>3, <3>5 DEF Timed
    <3> QED BY <1>3, <3>1, <3>4, <3>5, MonitorSteps
  <2>5. /\ drain'["idle"].pc = "begin" => drain'["idle"].caller = state'.active /\ Served'
        /\ Begun("idle")' => drain'["idle"].caller = state'.active
    <3>1. CASE drain'["idle"] = drain["idle"]
      BY <1>3, <2>2, <3>1 DEF Timed, Begun
    <3>2. CASE drain'["idle"] = NoDrain
      BY <3>2 DEF NoDrain, Begun
    <3>3. CASE TickStops
      <4>1. Served => Served'
        BY <3>3 DEF TickStops, Served, Live
      <4> QED BY <1>3, <3>3, <4>1 DEF TickStops, Timed, Begun
    <3>4. CASE BeginsReady("idle")
      BY <1>3, <3>4 DEF BeginsReady, Timed
    <3>5. CASE StopAndBackup("idle")
      <4>1. Begun("idle") /\ drain'["idle"].caller = drain["idle"].caller /\ drain'["idle"].pc # "begin"
        BY <3>5, BackupSteps DEF Drains
      <4> QED BY <1>3, <4>1 DEF Timed
    <3>6. "idle" \in Drains
      BY DEF Drains
    <3> QED BY <1>3, <3>1, <3>2, <3>3, <3>4, <3>5, <3>6, DrainSteps
  <2> QED BY <2>3, <2>4, <2>5 DEF Timed
<1> QED BY <1>1, <1>2, <1>3, ActiveSteps

\* An idle machine has no pack, and all packs but the active one are saved.
Kept ==
    /\ state.phase = "Idle" => state.active = None
    /\ \A p \in Packs : p # state.active => p \in Saved

\* What a drain has found and done is about the active pack. Shutdown's may lag
\* behind an idle stop or a switch that ended meanwhile, and then all is saved.
Dutiful ==
    /\ \A d \in Leaving : Begun(d) =>
          /\ state.active # None
          /\ drain[d].pc # "saving" => drain[d].id = state.active
          /\ drain[d].pc \in {"record", "finish"} => state.active \in Saved
    /\ Begun("switch") => drain["switch"].caller # state.active
    /\ Begun("shutdown") /\ drain["shutdown"].pc # "saving" =>
          /\ drain["shutdown"].id # state.active => Saved = Packs
          /\ drain["shutdown"].pc \in {"record", "finish"} => state.active \in Saved \cup {None}

\* How the set of saved packs changes: the launch of the active pack takes it
\* out, a backup puts its pack in.
LEMMA SavedSteps ==
    ASSUME IndInv, OneInv, LastServer, Resident, Intact, [Next]_vars
    PROVE  \/ Saved' = Saved
           \/ /\ Saved' = Saved \ {state.active} /\ UNCHANGED <<state, disk, drain>>
              /\ Running # {} /\ main # "draining" /\ state.active \in Packs
           \/ \E d \in Drains : /\ CommitArchive(d) /\ drain[d].id \in Packs
                                /\ Saved' = Saved \cup {drain[d].id} /\ UNCHANGED <<state, disk>>
<1>r. /\ local \in [Packs -> LocalCopy] /\ head \in [Packs -> HeadCopy] /\ hgen \in [Packs -> Nat]
      /\ drain \in [Drains -> DrainType]
  BY DEF IndInv, WorldOK, DrainOK
<1>1. UNCHANGED world => Saved' = Saved
  BY DEF Saved, world
<1>2. ASSUME NEW a \in Attempts, Restore(a) \/ Launch(a) \/ LaunchFails(a)
      PROVE  \/ Saved' = Saved
             \/ /\ Saved' = Saved \ {state.active} /\ UNCHANGED <<state, disk, drain>>
                /\ Running # {} /\ main # "draining" /\ state.active \in Packs
  <2> DEFINE id == att[a].id
  <2>1. a \in Running /\ att[a].pc \in Early \ {"resize", "sizing"} /\ id \in Packs
    BY <1>2 DEF Restore, Launch, LaunchFails, Running, Early, IndInv, AttOK, Attempt
  <2>2. state.active = id /\ main # "draining"
    BY <2>1 DEF OneInv, Entitled, LastServer
  <2>3. UNCHANGED <<state, disk, drain, hgen>>
    BY <1>2 DEF Restore, Launch, LaunchFails, persisted
  <2>4. PlayedLocal(id) = "current"
    BY <2>1, <1>r DEF PlayedLocal, Resident
  <2> HIDE DEF id
  <2>5. CASE UNCHANGED local /\ UNCHANGED head
    BY <1>1, <2>3, <2>5 DEF world
  <2>6. CASE /\ local' = [local EXCEPT ![id] = "current"]
             /\ head' = head \/ head' = [head EXCEPT ![id] = IF head[id] = "current" THEN "stale" ELSE head[id]]
    <3>1. \A p \in Packs : p # id => local'[p] = local[p] /\ head'[p] = head[p] /\ hgen'[p] = hgen[p]
      BY <2>3, <2>6, <1>r
    <3>2. local'[id] = "current"
      BY <2>1, <2>6, <1>r
    <3>3. \A p \in Packs : p # id => (p \in Saved' <=> p \in Saved)
      BY <3>1 DEF Saved
    <3>4. id \in Saved' <=> head'[id] = "current"
      BY <2>1, <3>2 DEF Saved
    <3>5. head'[id] = "current" => head[id] = "current"
      BY <2>1, <2>6, <1>r
    <3>6. head[id] = "current" => id \in Saved
      BY <2>1 DEF Saved
    <3>7. Saved \subseteq Packs /\ Saved' \subseteq Packs
      BY DEF Saved
    <3>8. Saved' = Saved \/ Saved' = Saved \ {id}
      BY <2>1, <3>3, <3>4, <3>5, <3>6, <3>7
    <3> QED BY <2>1, <2>2, <2>3, <3>8
  <2>7. \/ UNCHANGED local /\ UNCHANGED head
        \/ /\ local' = [local EXCEPT ![id] = "current"]
           /\ head' = head \/ head' = [head EXCEPT ![id] = IF head[id] = "current" THEN "stale" ELSE head[id]]
    BY <1>2, <2>1, <2>4 DEF Restore, Launch, LaunchFails, Resident, id
  <2> QED BY <2>5, <2>6, <2>7
<1>3. ASSUME NEW d \in Drains, CommitArchive(d)
      PROVE  \/ Saved' = Saved
             \/ /\ drain[d].id \in Packs
                /\ Saved' = Saved \cup {drain[d].id} /\ UNCHANGED <<state, disk>>
  <2> DEFINE id == drain[d].id
  <2>1. id \in Packs /\ UNCHANGED <<state, disk>>
    BY <1>3 DEF CommitArchive, IndInv, DrainOK, ForPack
  <2>2. CASE /\ local[id] = "current" /\ UNCHANGED local
             /\ head' = [head EXCEPT ![id] = "current"]
             /\ hgen' = [hgen EXCEPT ![id] = drain[d].gen + 1]
    <3>1. \A p \in Packs : p # id => local'[p] = local[p] /\ head'[p] = head[p] /\ hgen'[p] = hgen[p]
      BY <2>2, <1>r
    <3>2. head'[id] = "current"
      BY <2>1, <2>2, <1>r
    <3>3. Saved' = Saved \cup {id}
      BY <2>1, <3>1, <3>2 DEF Saved
    <3> QED BY <2>1, <3>3
  <2> QED BY <1>1, <1>3, <2>2, ArchiveSteps
<1> QED BY <1>1, <1>2, <1>3, WorldSteps DEF Resident

\* A commit that is to be recorded has put its pack into the store.
LEMMA RecordedIsSaved ==
    ASSUME IndInv, OneInv, LastServer, Resident, NEW d \in Drains, CommitArchive(d),
           drain'[d].pc = "record"
    PROVE  drain[d].id \in Saved'
<1> DEFINE id == drain[d].id
<1>r. head \in [Packs -> HeadCopy] /\ drain \in [Drains -> DrainType]
  BY DEF IndInv, WorldOK, DrainOK
<1>1. drain[d].pc = "archive" /\ id \in Packs
  BY DEF CommitArchive, IndInv, DrainOK, ForPack
<1>2. ~Step(d, "commitErr")
  BY <1>r DEF Step, DrainType
<1>3. local[id] # "absent" /\ head' = [head EXCEPT ![id] = Archived(id)]
  BY <1>2 DEF CommitArchive
<1>4. Archived(id) = "current"
  BY <1>1, <1>3, ArchivedAtRest DEF Archived, Resident
<1>5. head'[id] = "current"
  BY <1>1, <1>3, <1>4, <1>r
<1> QED BY <1>1, <1>5 DEF Saved

\* When the active pack is saved, all are.
LEMMA AllSaved == ASSUME Kept, state.active \in Saved \cup {None} PROVE Saved = Packs
<1>1. Saved \subseteq Packs
  BY DEF Saved
<1>2. None \notin Packs
  OBVIOUS
<1> QED BY <1>1, <1>2 DEF Kept

\* A drain at work keeps the saved packs saved.
LEMMA SavedGrows ==
    ASSUME IndInv, OneInv, LastServer, Resident, Intact, [Next]_vars, NEW d \in Drains, Begun(d)
    PROVE  Saved \subseteq Saved'
<1>1. Running = {} \/ main = "draining"
  BY DEF Drains, Leaving, OneInv, Exclusive, Orderly, Begun
<1> QED BY <1>1, SavedSteps

\* The steps that change the active pack.
LEMMA Handing ==
    ASSUME Calm, IndInv, OneInv, WorldInv, Kept, Dutiful, Durable, [Next]_vars,
           (\E id \in Packs : EnsureIdle(id)) \/ IdleStopped \/ Switched
    PROVE  /\ Saved' = Saved /\ disk' = state' /\ Saved = Packs
           /\ \A d \in Leaving : ~Begun(d)'
           /\ state'.phase = "Idle" => state'.active = None
           /\ state'.active \in Packs \cup {None}
           /\ state'.active # None => state'.active # state.active
           /\ Begun("shutdown")' => Begun("shutdown")
<1>r. /\ drain \in [Drains -> DrainType] /\ "idle" \in Drains /\ "switch" \in Drains
      /\ "shutdown" \in Drains /\ NoDrain.pc = "idle" /\ state \in States
  BY DEF IndInv, DrainOK, Drains, NoDrain, PersistedOK
<1>w. UNCHANGED world => Saved' = Saved
  BY DEF Saved, world
<1>1. CASE \E id \in Packs : EnsureIdle(id)
  <2>1. PICK id \in Packs : EnsureIdle(id)
    BY <1>1
  <2>2. /\ state.phase = "Idle" /\ UNCHANGED drain /\ UNCHANGED world /\ Save(LoadingState(id))
        /\ main # "draining"
    BY <2>1 DEF EnsureIdle, Vacant, Login, Calm
  <2>3. LoadingState(id).phase = "Loading" /\ LoadingState(id).active = id
    BY <1>r, StateFields
  <2>4. state' = LoadingState(id) /\ disk' = LoadingState(id)
    BY <2>2, DurableSave
  <2>5. \A d \in Leaving : ~Begun(d)
    BY <2>2 DEF OneInv, Orderly
  <2>6. state.active = None /\ Saved = Packs
    BY <2>2, AllSaved DEF Kept
  <2> QED BY <1>w, <2>2, <2>3, <2>4, <2>5, <2>6 DEF Begun
<1>2. CASE IdleStopped
  <2>1. /\ drain["idle"].pc = "finish" /\ Save(IdleState) /\ UNCHANGED world
        /\ drain' = [drain EXCEPT !["idle"] = NoDrain]
    BY <1>2 DEF IdleStopped
  <2>2. Begun("idle") /\ "idle" \in Leaving
    BY <2>1 DEF Begun, Leaving
  <2>3. ~Begun("switch")
    BY <2>2 DEF OneInv, Exclusive
  <2>4. state' = IdleState /\ disk' = IdleState /\ IdleState.phase = "Idle" /\ IdleState.active = None
    BY <2>1, DurableSave DEF IdleState
  <2>5. Saved = Packs
    BY <2>1, <2>2, AllSaved DEF Dutiful
  <2>6. /\ drain'["idle"] = NoDrain /\ drain'["switch"] = drain["switch"]
        /\ drain'["shutdown"] = drain["shutdown"]
    BY <2>1, <1>r
  <2> QED BY <1>r, <1>w, <2>1, <2>3, <2>4, <2>5, <2>6 DEF Begun, Leaving
<1>3. CASE Switched
  <2> DEFINE id == drain["switch"].caller
  <2>1. /\ drain["switch"].pc = "finish" /\ Save(LoadingState(id)) /\ UNCHANGED world
        /\ drain' = [drain EXCEPT !["switch"] = NoDrain]
    BY <1>3 DEF Switched
  <2>2. Begun("switch") /\ "switch" \in Leaving
    BY <2>1 DEF Begun, Leaving
  <2>3. ~Begun("idle") /\ id # state.active /\ id \in Packs
    BY <2>1, <2>2 DEF OneInv, Exclusive, Dutiful, IndInv, DrainOK
  <2> HIDE DEF id
  <2>4. LoadingState(id).phase = "Loading" /\ LoadingState(id).active = id
    BY <1>r, StateFields
  <2>5. state' = LoadingState(id) /\ disk' = LoadingState(id)
    BY <2>1, DurableSave
  <2>6. Saved = Packs
    BY <2>1, <2>2, AllSaved DEF Dutiful
  <2>7. /\ drain'["switch"] = NoDrain /\ drain'["idle"] = drain["idle"]
        /\ drain'["shutdown"] = drain["shutdown"]
    BY <2>1, <1>r
  <2> QED BY <1>r, <1>w, <2>1, <2>3, <2>4, <2>5, <2>6, <2>7 DEF Begun, Leaving
<1> QED BY <1>1, <1>2, <1>3

\* The end of the process: only a clean drain of Shutdown forgets the pack.
LEMMA Ended ==
    ASSUME IndInv, Kept, Dutiful, disk = state, Ending
    PROVE  /\ Saved' = Saved /\ disk' = state' /\ \A d \in Drains : ~Begun(d)'
           /\ \/ state' = state
              \/ state' = IdleState /\ Saved = Packs
<1>1. UNCHANGED world /\ \A d \in Drains : drain'[d] = NoDrain
  BY EndingHalts DEF Halt
<1>2. Saved' = Saved /\ \A d \in Drains : ~Begun(d)'
  BY <1>1 DEF Saved, world, Begun, NoDrain
<1>3. CASE ShutdownDone /\ drain["shutdown"].pc = "finish"
  <2>1. Saved = Packs
    BY <1>3, AllSaved DEF Dutiful, Begun
  <2>2. state' = disk' /\ (disk' = IdleState \/ disk' = disk)
    BY <1>3 DEF ShutdownDone
  <2> QED BY <1>2, <2>1, <2>2
<1>4. CASE ~ (ShutdownDone /\ drain["shutdown"].pc = "finish")
  <2>1. state' = disk /\ disk' = disk
    BY <1>4 DEF Ending, ShutdownNothing, Crash, Reboot, ShutdownDone, SizerPanic
  <2> QED BY <1>2, <2>1
<1> QED BY <1>3, <1>4

\* Every step keeps the packs that are not active saved.
LEMMA KeptNext ==
    ASSUME Calm, Durable, IndInv, OneInv, WorldInv, Timed, Kept, Dutiful, disk = state, [Next]_vars
    PROVE  Kept'
<1>i. IdleState.phase = "Idle" /\ IdleState.active = None
  BY DEF IdleState
<1>1. CASE Ending
  BY <1>1, <1>i, Ended DEF Kept
<1>2. CASE (\E id \in Packs : EnsureIdle(id)) \/ IdleStopped \/ Switched
  BY <1>2, Handing DEF Kept
<1>3. CASE state'.active = state.active /\ (state'.phase = "Idle" => state.phase = "Idle")
  <2>1. \A p \in Packs : p # state.active /\ p \in Saved => p \in Saved'
    BY SavedSteps DEF WorldInv, FitInv
  <2> QED BY <1>3, <2>1 DEF Kept
<1> QED BY <1>1, <1>2, <1>3, ActiveSteps

\* Every step keeps the drains at work for the active pack.
LEMMA DutifulNext ==
    ASSUME Calm, Durable, IndInv, OneInv, WorldInv, Timed, Kept, Dutiful, disk = state, [Next]_vars
    PROVE  Dutiful'
<1>r. /\ Leaving \subseteq Drains /\ "switch" \in Leaving /\ "shutdown" \in Drains
      /\ "shutdown" \notin Leaving /\ NoDrain.pc = "idle"
      /\ state.active \in Packs \cup {None}
  BY DEF Leaving, Drains, NoDrain, IndInv, PersistedOK, States
<1>1. CASE Ending
  BY <1>1, <1>r, Ended DEF Dutiful
<1>2. CASE (\E id \in Packs : EnsureIdle(id)) \/ IdleStopped \/ Switched
  BY <1>2, <1>r, Handing DEF Dutiful
<1>3. ASSUME state'.active = state.active, ~Ending PROVE Dutiful'
  <2>g. \A d \in Drains : Begun(d) => Saved \subseteq Saved'
    BY SavedGrows DEF WorldInv, FitInv
  <2>u. Saved' \subseteq Packs
    BY DEF Saved
  <2>b. ASSUME NEW d \in Drains, StopAndBackup(d)
        PROVE  /\ Begun(d) /\ drain'[d].caller = drain[d].caller
               /\ drain'[d].id = IF drain[d].pc = "saving" THEN state.active ELSE drain[d].id
               /\ drain'[d].pc = "record" => drain[d].id \in Saved' /\ drain[d].pc # "saving"
               /\ drain'[d].pc = "finish" => drain[d].pc = "record"
    <3>1. /\ Begun(d) /\ drain'[d].caller = drain[d].caller
          /\ drain'[d].id = IF drain[d].pc = "saving" THEN state.active ELSE drain[d].id
          /\ drain'[d].pc = "record" => CommitArchive(d)
          /\ drain'[d].pc = "finish" => drain[d].pc \in {"record", "evicting"}
      BY <2>b, BackupSteps
    <3>2. drain[d].pc # "evicting"
      BY DEF WorldInv, Resident, Keeping
    <3>3. CommitArchive(d) => drain[d].pc = "archive"
      BY DEF CommitArchive
    <3>4. CommitArchive(d) /\ drain'[d].pc = "record" => drain[d].id \in Saved'
      BY RecordedIsSaved DEF WorldInv, FitInv
    <3> QED BY <3>1, <3>2, <3>3, <3>4
  <2>1. ASSUME NEW d \in Leaving, Begun(d)'
        PROVE  /\ state'.active # None
               /\ drain'[d].pc # "saving" => drain'[d].id = state'.active
               /\ drain'[d].pc \in {"record", "finish"} => state'.active \in Saved'
               /\ d = "switch" => drain'[d].caller # state'.active
    <3>0. d \in Drains
      BY <1>r
    <3>1. CASE drain'[d] = drain[d]
      <4>1. Begun(d)
        BY <2>1, <3>1 DEF Begun
      <4> QED BY <1>3, <2>g, <3>0, <3>1, <4>1 DEF Dutiful
    <3>2. CASE BeginsReady(d)
      <4>1. state.active # None
        BY <3>2 DEF BeginsReady, WorldInv, FitInv, Fitting
      <4> QED BY <1>3, <3>2, <4>1 DEF BeginsReady
    <3>3. CASE StopAndBackup(d)
      BY <1>3, <2>b, <2>g, <3>0, <3>3 DEF Dutiful
    <3>4. d # "shutdown" /\ ~ (drain'[d].pc = "begin") /\ drain'[d] # NoDrain
      BY <1>r, <2>1 DEF Begun
    <3> QED BY <1>3, <3>0, <3>1, <3>2, <3>3, <3>4, DrainSteps DEF TickStops
  <2>2. ASSUME Begun("shutdown")', drain'["shutdown"].pc # "saving"
        PROVE  /\ drain'["shutdown"].id # state'.active => Saved' = Packs
               /\ drain'["shutdown"].pc \in {"record", "finish"} => state'.active \in Saved' \cup {None}
    <3>1. CASE drain'["shutdown"] = drain["shutdown"]
      <4>1. Begun("shutdown")
        BY <2>2, <3>1 DEF Begun
      <4> QED BY <1>3, <1>r, <2>2, <2>g, <2>u, <3>1, <4>1 DEF Dutiful
    <3>2. CASE StopAndBackup("shutdown")
      <4>1. Begun("shutdown") /\ Saved \subseteq Saved'
        BY <1>r, <2>b, <2>g, <3>2
      <4>2. CASE drain["shutdown"].pc = "saving"
        BY <1>3, <1>r, <2>b, <3>2, <4>2
      <4>3. CASE drain["shutdown"].pc # "saving"
        BY <1>3, <1>r, <2>b, <2>u, <3>2, <4>1, <4>3 DEF Dutiful
      <4> QED BY <4>2, <4>3
    <3>3. drain'["shutdown"].pc # "begin" /\ drain'["shutdown"] # NoDrain /\ ~BeginsReady("shutdown")
      BY <1>r, <2>2 DEF Begun, BeginsReady
    <3> QED BY <1>3, <1>r, <2>2, <3>1, <3>2, <3>3, DrainSteps
  <2> QED BY <1>r, <2>1, <2>2 DEF Dutiful
<1> QED BY <1>1, <1>2, <1>3, ActiveSteps

\* What a step does to the owner in active.json and to the set of saved packs is
\* a step of Lifecycle, or nothing.
LEMMA WorldsStep ==
    ASSUME Calm, Durable, IndInv, OneInv, WorldInv, Timed, Kept, Dutiful, disk = state, [Next]_vars
    PROVE  [Worlds!Next]_<<disk.active, Saved>>
<1>r. state.active \in Packs \cup {None} /\ None \notin Packs /\ disk' = state'
  BY SyncedNext DEF IndInv, PersistedOK, States
<1>1. CASE Ending
  <2>1. Saved' = Saved /\ (state' = state \/ (state' = IdleState /\ Saved = Packs))
    BY <1>1, Ended
  <2>2. CASE state' = state
    BY <1>r, <2>1, <2>2
  <2>3. CASE state' = IdleState /\ Saved = Packs
    <3>1. disk'.active = None
      BY <1>r, <2>3 DEF IdleState
    <3>2. CASE state.active = None
      BY <2>1, <3>1, <3>2
    <3>3. CASE state.active \in Packs
      <4>1. Worlds!Handover(None)
        BY <2>1, <2>3, <3>1, <3>3 DEF Worlds!Handover
      <4> QED BY <4>1 DEF Worlds!Next
    <3> QED BY <1>r, <3>2, <3>3
  <2> QED BY <2>1, <2>2, <2>3
<1>2. CASE (\E id \in Packs : EnsureIdle(id)) \/ IdleStopped \/ Switched
  <2>1. /\ Saved' = Saved /\ Saved = Packs /\ state'.active \in Packs \cup {None}
        /\ disk'.active = state'.active
    BY <1>2, <1>r, Handing
  <2>2. CASE state.active = None /\ state'.active \in Packs
    <3>1. Worlds!Claim(state'.active)
      BY <2>1, <2>2 DEF Worlds!Claim
    <3> QED BY <2>2, <3>1 DEF Worlds!Next
  <2>3. CASE state.active = None /\ state'.active = None
    BY <2>1, <2>3
  <2>4. CASE state.active \in Packs
    <3>1. Worlds!Handover(state'.active)
      BY <2>1, <2>4 DEF Worlds!Handover
    <3> QED BY <2>1, <3>1 DEF Worlds!Next
  <2> QED BY <1>r, <2>1, <2>2, <2>3, <2>4
<1>3. CASE state'.active = state.active
  <2>0. disk'.active = disk.active /\ disk.active = state.active
    BY <1>r, <1>3
  <2>1. CASE Saved' = Saved
    BY <2>0, <2>1
  <2>2. CASE Saved' = Saved \ {state.active} /\ state.active \in Packs
    <3>1. Worlds!Play
      BY <1>r, <2>0, <2>2 DEF Worlds!Play
    <3> QED BY <3>1 DEF Worlds!Next
  <2>3. CASE \E p \in Packs : Saved' = Saved \cup {p}
    <3>1. PICK p \in Packs : Saved' = Saved \cup {p}
      BY <2>3
    <3>2. CASE p = state.active
      <4>1. Worlds!Backup
        BY <1>r, <2>0, <3>1, <3>2 DEF Worlds!Backup
      <4> QED BY <4>1 DEF Worlds!Next
    <3>3. CASE p # state.active
      <4>1. p \in Saved
        BY <3>3 DEF Kept
      <4> QED BY <2>0, <3>1, <4>1
    <3> QED BY <3>2, <3>3
  <2>4. \/ Saved' = Saved
        \/ Saved' = Saved \ {state.active} /\ state.active \in Packs
        \/ \E p \in Packs : Saved' = Saved \cup {p}
    BY SavedSteps DEF WorldInv, FitInv
  <2> QED BY <2>1, <2>2, <2>3, <2>4
<1> QED BY <1>1, <1>2, <1>3, ActiveSteps

\* The manager implements Lifecycle. One pack at a time is in active.json, and
\* the machine goes to another pack (the end of switchTo), or to nobody (the end
\* of an idle stop or of Shutdown), only when all that was played of the pack
\* is in the backup store: for any number of packs, logins, crashes, reboots and
\* failed or timed out backups.
THEOREM WorldsAreKept == ASSUME Calm, Separate, Durable PROVE Spec => WorldsSpec
<1> DEFINE J == Timed /\ Kept /\ Dutiful /\ disk = state
<1>1. Init => J /\ Worlds!Init
  <2> SUFFICES ASSUME Init PROVE J /\ Worlds!Init
    OBVIOUS
  <2>1. /\ \A d \in Drains : drain[d].pc = "idle"
        /\ tick.pc = "idle" /\ disk = state /\ state.active = None
        /\ \A p \in Packs : local[p] = "absent" /\ hgen[p] = 0
    BY DEF Init, NoDrain, NoTick, IdleState
  <2>2. Saved = Packs
    BY <2>1 DEF Saved
  <2>3. \A d \in Drains : ~Begun(d) /\ drain[d].pc # "begin"
    BY <2>1 DEF Begun
  <2>4. "idle" \in Drains /\ "switch" \in Drains /\ "shutdown" \in Drains /\ Leaving \subseteq Drains
    BY DEF Drains, Leaving
  <2>5. Timed
    BY <2>1, <2>3, <2>4 DEF Timed
  <2>6. Kept
    BY <2>1, <2>2 DEF Kept
  <2>7. Dutiful
    BY <2>3, <2>4 DEF Dutiful
  <2> QED BY <2>1, <2>2, <2>5, <2>6, <2>7 DEF Worlds!Init
<1>2. IndInv /\ OneInv /\ WorldInv /\ J /\ [Next]_vars => J'
  BY TimedNext, KeptNext, DutifulNext, SyncedNext
<1>3. IndInv /\ OneInv /\ WorldInv /\ J /\ [Next]_vars => [Worlds!Next]_<<disk.active, Saved>>
  BY WorldsStep
<1> HIDE DEF J
<1> QED BY <1>1, <1>2, <1>3, Invariance, OneInvariance, WorldInvariance, PTL
        DEF Spec, WorldsSpec, Worlds!Spec

----------------------------------------------------------------------------
\* One world on the volume

\* No pack has a directory.
Bare == \A p \in Packs : local[p] = "absent"

\* An idle machine has no pack, and only the active pack has a directory.
Lodged ==
    /\ state.phase = "Idle" => state.active = None
    /\ \A p \in Packs : p # state.active => local[p] = "absent"

\* A drain that is over has emptied the volume: what it removed is the directory
\* of the active pack. Shutdown's may lag behind an idle stop or a switch that
\* ended meanwhile, and then nothing is left.
Vacated ==
    /\ \A d \in Leaving : Begun(d) =>
          /\ drain[d].pc # "saving" => drain[d].id = state.active
          /\ drain[d].pc = "finish" => Bare
    /\ Begun("shutdown") /\ drain["shutdown"].pc # "saving" =>
          /\ drain["shutdown"].id # state.active => Bare
          /\ drain["shutdown"].pc = "finish" => Bare

\* Who makes a directory: a start() past the sizer, for the active pack, and
\* never while Shutdown drains. All other steps make none.
LEMMA VolumeSteps ==
    ASSUME IndInv, OneInv, LastServer, [Next]_vars
    PROVE  \/ \A p \in Packs : local[p] = "absent" => local'[p] = "absent"
           \/ /\ \A p \in Packs : p # state.active => local'[p] = local[p]
              /\ Running # {} /\ main # "draining" /\ UNCHANGED <<state, drain>>
<1>r. local \in [Packs -> LocalCopy]
  BY DEF IndInv, WorldOK
<1>1. CASE UNCHANGED local
  BY <1>1
<1>2. ASSUME NEW a \in Attempts, Restore(a) \/ Launch(a) \/ LaunchFails(a)
      PROVE  \/ UNCHANGED local
             \/ /\ \A p \in Packs : p # state.active => local'[p] = local[p]
                /\ Running # {} /\ main # "draining" /\ UNCHANGED <<state, drain>>
  <2>1. a \in Running /\ att[a].pc \in Early \ {"resize", "sizing"}
    BY <1>2 DEF Restore, Launch, LaunchFails, Running, Early
  <2>2. state.active = att[a].id /\ main # "draining"
    BY <2>1 DEF OneInv, Entitled, LastServer
  <2>3. UNCHANGED <<state, drain>>
    BY <1>2 DEF Restore, Launch, LaunchFails, persisted
  <2>4. UNCHANGED local \/ \E c : local' = [local EXCEPT ![att[a].id] = c]
    BY <1>2 DEF Restore, Launch, LaunchFails
  <2> QED BY <1>r, <2>1, <2>2, <2>3, <2>4
<1>3. ASSUME NEW d \in Drains, Evict(d) \/ Evicted(d)
      PROVE  \A p \in Packs : local[p] = "absent" => local'[p] = "absent"
  <2>1. UNCHANGED local \/ \E c : /\ local' = [local EXCEPT ![drain[d].id] = c]
                                  /\ c = "absent" \/ local[drain[d].id] # "absent"
    BY <1>3 DEF Evict, Evicted
  <2> QED BY <1>r, <2>1
<1>4. \/ UNCHANGED local
      \/ \E a \in Attempts : Restore(a) \/ Launch(a) \/ LaunchFails(a)
      \/ \E d \in Drains : Evict(d) \/ Evicted(d)
  BY WorldMoves DEF world, CommitArchive
<1> QED BY <1>1, <1>2, <1>3, <1>4

\* A drain at work makes no directory.
LEMMA StaysBare ==
    ASSUME IndInv, OneInv, LastServer, [Next]_vars, NEW d \in Drains, Begun(d)
    PROVE  \A p \in Packs : local[p] = "absent" => local'[p] = "absent"
<1>1. Running = {} \/ main = "draining"
  BY DEF Drains, Leaving, OneInv, Exclusive, Orderly, Begun
<1> QED BY <1>1, VolumeSteps

\* With evict_after_backup a drain is over when its directory is gone.
LEMMA FinishedIsGone ==
    ASSUME EvictAfterBackup, IndInv, NEW d \in Drains, StopAndBackup(d), drain'[d].pc = "finish"
    PROVE  /\ drain[d].id \in Packs /\ drain[d].pc # "saving" /\ drain'[d].id = drain[d].id
           /\ local'[drain[d].id] = "absent"
<1>r. local \in [Packs -> LocalCopy] /\ drain \in [Drains -> DrainType] /\ drain[d] \in DrainType
  BY DEF IndInv, WorldOK, DrainOK
<1>1. drain[d].pc \in {"record", "evicting"} /\ drain'[d].id = IF drain[d].pc = "saving" THEN state.active ELSE drain[d].id
  BY BackupSteps
<1>2. \A pc : Step(d, pc) => drain'[d].pc = pc
  BY <1>r DEF Step, DrainType
<1>3. CommitRecorded(d) \/ Evicted(d)
  BY <1>1 DEF StopAndBackup, Saving, SaveAll, ExpectStop, StopCommand, UnexpectStop, WaitStopped,
              StopTimeout, CommitHead, CommitArchive, CommitFailed, Evict
<1>4. ~CommitRecorded(d)
  BY <1>2 DEF CommitRecorded, AfterBackup
<1>5. drain[d].id \in Packs
  BY <1>3, <1>4 DEF Evicted, IndInv, DrainOK, ForPack
<1>6. local' = [local EXCEPT ![drain[d].id] = "absent"]
  BY <1>2, <1>3, <1>4 DEF Evicted
<1> QED BY <1>r, <1>1, <1>5, <1>6

\* The steps that change the active pack find the volume bare.
LEMMA Released ==
    ASSUME Calm, IndInv, OneInv, Lodged, Vacated,
           (\E id \in Packs : EnsureIdle(id)) \/ IdleStopped \/ Switched
    PROVE  /\ Bare' /\ \A d \in Leaving : ~Begun(d)'
           /\ state'.phase = "Idle" => state'.active = None
<1>r. /\ drain \in [Drains -> DrainType] /\ "idle" \in Drains /\ "switch" \in Drains
      /\ NoDrain.pc = "idle" /\ state \in States
  BY DEF IndInv, DrainOK, Drains, NoDrain, PersistedOK
<1>w. Bare /\ UNCHANGED world => Bare'
  BY DEF Bare, world
<1>s. \A s : Save(s) => state' = s
  BY DEF Save
<1>1. CASE \E id \in Packs : EnsureIdle(id)
  <2>1. PICK id \in Packs : EnsureIdle(id)
    BY <1>1
  <2>2. /\ state.phase = "Idle" /\ UNCHANGED drain /\ UNCHANGED world /\ Save(LoadingState(id))
        /\ main # "draining"
    BY <2>1 DEF EnsureIdle, Vacant, Login, Calm
  <2>3. state'.phase = "Loading"
    BY <1>r, <1>s, <2>2, StateFields
  <2>4. \A d \in Leaving : ~Begun(d)
    BY <2>2 DEF OneInv, Orderly
  <2>5. Bare
    BY <2>2 DEF Lodged, Bare
  <2> QED BY <1>w, <2>2, <2>3, <2>4, <2>5 DEF Begun
<1>2. CASE IdleStopped
  <2>1. /\ drain["idle"].pc = "finish" /\ Save(IdleState) /\ UNCHANGED world
        /\ drain' = [drain EXCEPT !["idle"] = NoDrain]
    BY <1>2 DEF IdleStopped
  <2>2. Begun("idle") /\ "idle" \in Leaving
    BY <2>1 DEF Begun, Leaving
  <2>3. ~Begun("switch") /\ Bare
    BY <2>1, <2>2 DEF OneInv, Exclusive, Vacated
  <2>4. state'.active = None
    BY <1>s, <2>1 DEF IdleState
  <2>5. drain'["idle"] = NoDrain /\ drain'["switch"] = drain["switch"]
    BY <2>1, <1>r
  <2> QED BY <1>r, <1>w, <2>1, <2>3, <2>4, <2>5 DEF Begun, Leaving
<1>3. CASE Switched
  <2>1. /\ drain["switch"].pc = "finish" /\ Save(LoadingState(drain["switch"].caller))
        /\ UNCHANGED world /\ drain' = [drain EXCEPT !["switch"] = NoDrain]
    BY <1>3 DEF Switched
  <2>2. Begun("switch") /\ "switch" \in Leaving
    BY <2>1 DEF Begun, Leaving
  <2>3. ~Begun("idle") /\ Bare
    BY <2>1, <2>2 DEF OneInv, Exclusive, Vacated
  <2>4. state'.phase = "Loading"
    BY <1>r, <1>s, <2>1, StateFields
  <2>5. drain'["switch"] = NoDrain /\ drain'["idle"] = drain["idle"]
    BY <2>1, <1>r
  <2> QED BY <1>r, <1>w, <2>1, <2>3, <2>4, <2>5 DEF Begun, Leaving
<1> QED BY <1>1, <1>2, <1>3

\* The end of the process leaves the volume alone, and only a drain of Shutdown
\* that emptied it forgets the pack.
LEMMA EndedBare ==
    ASSUME Vacated, disk = state, Ending
    PROVE  /\ UNCHANGED local /\ \A d \in Drains : ~Begun(d)'
           /\ state' = state \/ (state' = IdleState /\ Bare)
<1>1. UNCHANGED local /\ \A d \in Drains : drain'[d] = NoDrain
  BY EndingHalts DEF Halt, world
<1>2. \A d \in Drains : ~Begun(d)'
  BY <1>1 DEF Begun, NoDrain
<1>3. CASE ShutdownDone /\ drain["shutdown"].pc = "finish"
  <2>1. Bare
    BY <1>3 DEF Vacated, Begun
  <2>2. state' = disk' /\ (disk' = IdleState \/ disk' = disk)
    BY <1>3 DEF ShutdownDone
  <2> QED BY <1>1, <1>2, <2>1, <2>2
<1>4. CASE ~ (ShutdownDone /\ drain["shutdown"].pc = "finish")
  <2>1. state' = disk
    BY <1>4 DEF Ending, ShutdownNothing, Crash, Reboot, ShutdownDone, SizerPanic
  <2> QED BY <1>1, <1>2, <2>1
<1> QED BY <1>3, <1>4

\* Every step keeps directories to the active pack.
LEMMA LodgedNext ==
    ASSUME Calm, IndInv, OneInv, LastServer, Timed, Lodged, Vacated, disk = state, [Next]_vars
    PROVE  Lodged'
<1>1. CASE Ending
  <2>1. IdleState.phase = "Idle" /\ IdleState.active = None
    BY DEF IdleState
  <2> QED BY <1>1, <2>1, EndedBare DEF Lodged, Bare
<1>2. CASE (\E id \in Packs : EnsureIdle(id)) \/ IdleStopped \/ Switched
  BY <1>2, Released DEF Lodged, Bare
<1>3. CASE state'.active = state.active /\ (state'.phase = "Idle" => state.phase = "Idle")
  BY <1>3, VolumeSteps DEF Lodged
<1> QED BY <1>1, <1>2, <1>3, ActiveSteps

\* Every step keeps a finished drain on a bare volume.
LEMMA VacatedNext ==
    ASSUME EvictAfterBackup, Calm, IndInv, OneInv, LastServer, Timed, Lodged, Vacated, disk = state,
           [Next]_vars
    PROVE  Vacated'
<1>r. /\ Leaving \subseteq Drains /\ "shutdown" \in Drains /\ "shutdown" \notin Leaving
      /\ NoDrain.pc = "idle"
  BY DEF Leaving, Drains, NoDrain
<1>1. CASE Ending
  BY <1>1, <1>r, EndedBare DEF Vacated
<1>2. CASE (\E id \in Packs : EnsureIdle(id)) \/ IdleStopped \/ Switched
  BY <1>2, Released DEF Vacated
<1>3. ASSUME state'.active = state.active, ~Ending PROVE Vacated'
  <2>g. ASSUME NEW d \in Drains, Begun(d)
        PROVE  /\ \A p \in Packs : p # state.active => local'[p] = "absent"
               /\ Bare => Bare'
    BY <2>g, StaysBare DEF Lodged, Bare
  <2>b. ASSUME NEW d \in Drains, StopAndBackup(d)
        PROVE  /\ Begun(d) /\ drain'[d].id = IF drain[d].pc = "saving" THEN state.active ELSE drain[d].id
               /\ drain'[d].pc = "finish" =>
                     drain[d].pc # "saving" /\ (drain[d].id = state.active => Bare')
    <3>1. Begun(d) /\ drain'[d].id = IF drain[d].pc = "saving" THEN state.active ELSE drain[d].id
      BY <2>b, BackupSteps
    <3>2. drain'[d].pc = "finish" => drain[d].pc # "saving" /\ local'[drain[d].id] = "absent"
      BY <2>b, FinishedIsGone
    <3> QED BY <2>g, <3>1, <3>2 DEF Bare
  <2>1. ASSUME NEW d \in Leaving, Begun(d)'
        PROVE  /\ drain'[d].pc # "saving" => drain'[d].id = state'.active
               /\ drain'[d].pc = "finish" => Bare'
    <3>0. d \in Drains
      BY <1>r
    <3>1. CASE drain'[d] = drain[d]
      <4>1. Begun(d)
        BY <2>1, <3>1 DEF Begun
      <4> QED BY <1>3, <2>g, <3>0, <3>1, <4>1 DEF Vacated
    <3>2. CASE BeginsReady(d)
      BY <3>2 DEF BeginsReady
    <3>3. CASE StopAndBackup(d)
      BY <1>3, <2>b, <3>0, <3>3 DEF Vacated
    <3>4. d # "shutdown" /\ drain'[d].pc # "begin" /\ drain'[d] # NoDrain
      BY <1>r, <2>1 DEF Begun
    <3> QED BY <1>3, <3>0, <3>1, <3>2, <3>3, <3>4, DrainSteps DEF TickStops
  <2>2. ASSUME Begun("shutdown")', drain'["shutdown"].pc # "saving"
        PROVE  /\ drain'["shutdown"].id # state'.active => Bare'
               /\ drain'["shutdown"].pc = "finish" => Bare'
    <3>1. CASE drain'["shutdown"] = drain["shutdown"]
      <4>1. Begun("shutdown")
        BY <2>2, <3>1 DEF Begun
      <4> QED BY <1>3, <1>r, <2>2, <2>g, <3>1, <4>1 DEF Vacated
    <3>2. CASE StopAndBackup("shutdown")
      <4>1. Begun("shutdown") /\ (Bare => Bare')
        BY <1>r, <2>b, <2>g, <3>2
      <4> QED BY <1>3, <1>r, <2>b, <3>2, <4>1 DEF Vacated
    <3>3. drain'["shutdown"].pc # "begin" /\ drain'["shutdown"] # NoDrain /\ ~BeginsReady("shutdown")
      BY <1>r, <2>2 DEF Begun, BeginsReady
    <3> QED BY <1>3, <1>r, <2>2, <3>1, <3>2, <3>3, DrainSteps
  <2> QED BY <2>1, <2>2 DEF Vacated
<1> QED BY <1>1, <1>2, <1>3, ActiveSteps

\* With evict_after_backup the volume holds the directory of one pack at most
\* (OnePackOnVolume): whatever drain ends first, a pack comes onto the volume only
\* once the pack before it has been removed, and a crash, a failed backup or a
\* failed removal leaves the machine to the pack whose files are still there.
THEOREM OnePackFits == ASSUME Calm, Distinct, Durable PROVE Spec => []OnePackOnVolume
<1> DEFINE J == Timed /\ disk = state
           K == Lodged /\ Vacated
<1>1. Init => J /\ K
  <2> SUFFICES ASSUME Init PROVE J /\ K
    OBVIOUS
  <2>1. /\ \A d \in Drains : drain[d].pc = "idle"
        /\ tick.pc = "idle" /\ disk = state /\ state.active = None
        /\ \A p \in Packs : local[p] = "absent"
    BY DEF Init, NoDrain, NoTick, IdleState
  <2>2. \A d \in Drains : ~Begun(d) /\ drain[d].pc # "begin"
    BY <2>1 DEF Begun
  <2>3. "idle" \in Drains /\ "shutdown" \in Drains /\ Leaving \subseteq Drains
    BY DEF Drains, Leaving
  <2> QED BY <2>1, <2>2, <2>3 DEF Timed, Lodged, Vacated
<1>2. IndInv /\ OneInv /\ J /\ [Next]_vars => J'
  BY TimedNext, SyncedNext
<1>3. CASE EvictAfterBackup
  <2>1. IndInv /\ OneInv /\ FitInv /\ J /\ K /\ [Next]_vars => K'
    BY <1>3, LodgedNext, VacatedNext DEF FitInv
  <2>2. K => OnePackOnVolume
    BY DEF Lodged, OnePackOnVolume
  <2> HIDE DEF J, K
  <2> QED BY <1>1, <1>2, <2>1, <2>2, Invariance, OneInvariance, FitInvariance, PTL DEF Spec
<1>4. CASE ~EvictAfterBackup
  <2>1. OnePackOnVolume
    BY <1>4 DEF OnePackOnVolume
  <2> QED BY <2>1, PTL
<1> QED BY <1>3, <1>4

----------------------------------------------------------------------------
\* Evicted worlds come back

\* What the claim allows: failing status queries, launches and saves. Each other
\* kind of fault makes a server play a part of a world or an old one when worlds
\* are evicted. Config.Validate asks for an idle time above zero; without it a
\* pack that becomes Ready while Shutdown drains would be drained twice.
Tame == Faults \subseteq {"queryErr", "launchErr", "saveErr"} /\ IdleBeforeStop > 0

\* An answer that nobody plays is applied, and a drain takes the lock, before
\* the server can be gone.
Pressing ==
    /\ tick.pc = "apply" /\ tick.players = "none" => Served
    /\ \A d \in Leaving : drain[d].pc = "begin" => Served

\* Once the manager is done no other drain is under way and no server gets as
\* far as Ready until Shutdown has begun. A server that comes up later was
\* not empty for long enough, and nothing but Shutdown stops it.
Closed ==
    /\ main \in {"closing", "draining"} => done
    /\ main = "off" => ~done
    /\ done => \A d \in Leaving : drain[d].pc = "idle"
    /\ done /\ main # "draining" => /\ Up = {} /\ state.phase # "Ready"
                                    /\ state.phase = "Idle" \/ state.empty <= 0
    /\ main = "draining" => /\ state.empty <= 0
                            /\ \A a \in Attempts : att[a].pc \notin Early
                            /\ drain["shutdown"].pc \in AfterStop => process = None

\* Nothing happens between an update of the Machine's config and the reboot.
Rebooting ==
    updated => /\ main \in {"serving", "closing"}
               /\ state.phase \notin {"Idle", "Ready", "Failed"}
               /\ Running = {} /\ process = None /\ \A d \in Leaving : ~Begun(d)

\* A pack that is Ready has a server that listens until a drain has told it to
\* stop, so that the drains of tick() and switchTo() get past RCON.
Primed ==
    /\ state.phase = "Ready" => state.active # None
    /\ disk.phase = "Ready" => disk.active # None
    /\ main \in {"serving", "closing"} =>
          /\ state.phase = "Ready" => Up # {}
          /\ \A a \in Attempts : att[a].pc = "ready" => Up # {}
    /\ \A d \in Leaving :
          /\ drain[d].pc \in {"saving", "saveall", "expect", "stop"} => Up # {}
          /\ drain[d].pc = "waitstop" => \A a \in Attempts : att[a].java \notin {"loading", "up"}
          /\ drain[d].pc \notin {"unexpect", "commitErr", "error"}

\* Generation never runs ahead of the store, and has caught up with it when the
\* pack is launched, so that these drains get past the comparison in Commit.
Numbered ==
    /\ state.active # None => state.gen <= hgen[state.active]
    /\ disk.active # None => disk.gen <= hgen[disk.active]
    /\ \A a \in Attempts :
          /\ att[a].pc \in {"restore", "identity"} => att[a].head = hgen[att[a].id]
          /\ att[a].pc \in {"launch", "publish"} => state.gen = hgen[att[a].id]
    /\ main \in {"serving", "closing"} =>
          /\ \A a \in Attempts : att[a].pc \in {"poll", "ready"} => state.gen = hgen[att[a].id]
          /\ state.phase = "Ready" => state.gen = hgen[state.active]
    /\ \A d \in Drains : Begun(d) =>
          /\ drain[d].pc # "saving" => drain[d].id = state.active
          /\ drain[d].pc = "record" => hgen[drain[d].id] = drain[d].gen + 1
    /\ \A d \in Leaving : Begun(d) =>
          /\ state.active # None
          /\ drain[d].pc \notin {"record", "evict", "evicting", "finish"} => state.gen = hgen[state.active]
          /\ drain[d].pc = "archive" => drain[d].gen = state.gen

\* The pack that is played has a directory until its drain has removed it.
Housed ==
    /\ main \in {"serving", "closing"} =>
          /\ \A a \in Attempts : att[a].pc \in {"publish", "poll", "ready"} => local[att[a].id] # "absent"
          /\ state.phase = "Ready" => local[state.active] # "absent"
    /\ \A d \in Leaving : Begun(d) /\ drain[d].pc # "finish" => local[state.active] # "absent"

\* A directory is the world with all the play so far, or is being removed by a
\* drain; without a directory the newest backup is that world.
Held ==
    /\ \A p \in Packs :
          /\ local[p] # "stale" /\ head[p] # "torn"
          /\ local[p] = "absent" /\ hgen[p] > 0 => head[p] = "current"
          /\ local[p] = "partial" => \E d \in Drains : drain[d].pc = "evicting" /\ drain[d].id = p
    /\ \A d \in Drains : drain[d].pc \in Committed => head[drain[d].id] = "current"
    /\ \A a \in Attempts :
          /\ att[a].pc \in {"identity", "launch"} => local[att[a].id] # "absent" \/ hgen[att[a].id] = 0
          /\ Live(a) => local[att[a].id] = "current"

TameInv == Pressing /\ Closed /\ Rebooting /\ Primed /\ Numbered /\ Housed /\ Held

\* The faults that do not happen.
LEMMA TameFaults ==
    ASSUME Tame
    PROVE  /\ Calm
           /\ \A k : Fault(k) => k \in {"queryErr", "launchErr", "saveErr"}
<1>1. \A k \in Faults : k \in {"queryErr", "launchErr", "saveErr"}
  BY DEF Tame
<1> QED BY <1>1 DEF Calm, Fault

\* One drain at a time, and no start() on its way to a server beside it. Once it
\* has seen the server stop there is none.
LEMMA Alone ==
    ASSUME OneInv, Closed, NEW d \in Drains, Begun(d)
    PROVE  /\ \A a \in Attempts : att[a].pc \notin Early
           /\ \A e \in Drains : Begun(e) => e = d
           /\ d = "shutdown" <=> main = "draining"
           /\ main # "off"
           /\ drain[d].pc \in AfterStop => process = None /\ ~Served
<1>r. Drains = Leaving \cup {"shutdown"}
  BY DEF Drains, Leaving
<1>n. \A a \in Attempts : att[a].pc # "idle" <=> a \in Running
  BY DEF Running
<1>e. "idle" \notin Early /\ "publish" \in Early
  BY DEF Early
<1>o. main # "off"
  BY DEF Begun, OneInv, Quenched, NoDrain
<1>v. ASSUME process = None, \A a \in Attempts : att[a].pc \notin Early PROVE ~Served
  BY <1>v, <1>e DEF OneInv, Owned, Served
<1>1. CASE d \in Leaving
  <2>1. Running = {}
    BY <1>1 DEF OneInv, Exclusive
  <2>2. main # "draining"
    BY <1>1 DEF Closed, Begun
  <2>3. ~Begun("shutdown")
    BY <2>2 DEF OneInv, Orderly, Begun
  <2>4. \A e \in Leaving : Begun(e) => e = d
    BY <1>1 DEF OneInv, Exclusive, Leaving
  <2>5. drain[d].pc \in AfterStop => process = None
    BY <1>1 DEF OneInv, Owned
  <2>6. \A a \in Attempts : att[a].pc \notin Early
    BY <2>1, <1>n, <1>e
  <2> QED BY <1>1, <1>r, <1>o, <1>v, <2>2, <2>3, <2>4, <2>5, <2>6 DEF Leaving
<1>2. CASE d = "shutdown"
  <2>1. main = "draining"
    BY <1>2 DEF OneInv, Orderly, Begun
  <2>2. \A e \in Leaving : ~Begun(e)
    BY <2>1 DEF Closed, Begun
  <2>3. \A a \in Attempts : att[a].pc \notin Early
    BY <2>1 DEF Closed
  <2>4. drain[d].pc \in AfterStop => process = None
    BY <1>2, <2>1 DEF Closed
  <2> QED BY <1>2, <1>r, <1>v, <2>1, <2>2, <2>3, <2>4
<1> QED BY <1>1, <1>2, <1>r

\* The process does not end in the middle of an eviction.
LEMMA NotInEviction ==
    ASSUME Tame, OneInv, Closed, Rebooting, Ending
    PROVE  \A d \in Drains : drain[d].pc \notin Committed
<1> SUFFICES ASSUME NEW d \in Drains, drain[d].pc \in Committed PROVE FALSE
  OBVIOUS
<1>1. Begun(d) /\ drain[d].pc # "finish" /\ drain[d].pc # "error"
  BY DEF Begun, Committed
<1>2. ~Crash
  BY TameFaults DEF Crash
<1>3. ~ShutdownNothing
  BY <1>1, Alone DEF ShutdownNothing, Closed, Begun, Drains, Leaving
<1>4. ~Reboot
  <2>1. ASSUME updated PROVE FALSE
    <3>1. main # "draining" /\ \A e \in Leaving : ~Begun(e)
      BY <2>1 DEF Rebooting
    <3> QED BY <1>1, <3>1, Alone DEF Drains, Leaving
  <2> QED BY <2>1 DEF Reboot
<1>5. ~ShutdownDone
  <2>1. ASSUME drain["shutdown"].pc \in {"finish", "error"} PROVE FALSE
    <3>1. Begun("shutdown") /\ "shutdown" \in Drains
      BY <2>1 DEF Begun, Drains
    <3> QED BY <1>1, <2>1, <3>1, Alone
  <2> QED BY <2>1 DEF ShutdownDone
<1>6. \A a \in Attempts : ~SizerPanic(a)
  BY <1>1, Alone DEF SizerPanic, Early
<1> QED BY <1>2, <1>3, <1>4, <1>5, <1>6 DEF Ending

\* Generation and EmptySince after an assignment to another field, and in a new
\* State.
LEMMA Counters ==
    ASSUME NEW s \in States
    PROVE  /\ \A ph : /\ [s EXCEPT !.phase = ph].gen = s.gen
                      /\ [s EXCEPT !.phase = ph].empty = s.empty
           /\ \A ph, id : /\ [s EXCEPT !.phase = ph, !.active = id].phase = ph
                          /\ [s EXCEPT !.phase = ph, !.active = id].active = id
                          /\ [s EXCEPT !.phase = ph, !.active = id].gen = s.gen
                          /\ [s EXCEPT !.phase = ph, !.active = id].empty = s.empty
           /\ \A g, b : /\ [s EXCEPT !.gen = g, !.pending = b].gen = g
                        /\ [s EXCEPT !.gen = g, !.pending = b].empty = s.empty
           /\ [s EXCEPT !.pending = TRUE].gen = s.gen
           /\ [s EXCEPT !.pending = TRUE].empty = s.empty
           /\ \A e : [s EXCEPT !.empty = e].gen = s.gen /\ [s EXCEPT !.empty = e].empty = e
           /\ Older(s).gen = s.gen
           /\ \A id : LoadingState(id).gen = 0 /\ LoadingState(id).empty = -1
           /\ IdleState.gen = 0 /\ IdleState.empty = -1
BY DEF States, Older, LoadingState, IdleState

\* How m.state changes after the boot, and the file with it.
LEMMA StateSteps ==
    ASSUME IndInv, OneInv, Primed, [Next]_vars, ~Ending, ~Boot
    PROVE  /\ \/ state'.active = state.active
              \/ (\E id \in Packs : EnsureIdle(id)) \/ IdleStopped \/ Switched
           /\ \/ state'.gen = state.gen
              \/ (\E id \in Packs : EnsureIdle(id)) \/ IdleStopped \/ Switched
              \/ \E a \in Attempts : Identify(a)
              \/ \E d \in Drains : CommitRecorded(d)
           /\ \/ state'.phase = state.phase
              \/ \E id \in Packs : EnsureIdle(id)
              \/ state.phase \in {"Failed", "Ready"} \/ Running # {} \/ process # None
              \/ \E d \in Drains : Begun(d)
           /\ state'.phase = "Ready" => state.phase = "Ready" \/ \E a \in Attempts : PollReady(a)
           /\ state'.empty \in {state.empty, -1, 0} \/ Elapse
           /\ disk' \in {disk, state'} \/ Elapse
<1> DEFINE Owners == \/ state'.active = state.active
                     \/ (\E id \in Packs : EnsureIdle(id)) \/ IdleStopped \/ Switched
           Numbers == \/ state'.gen = state.gen
                      \/ (\E id \in Packs : EnsureIdle(id)) \/ IdleStopped \/ Switched
                      \/ \E a \in Attempts : Identify(a)
                      \/ \E d \in Drains : CommitRecorded(d)
           Busy == \/ state.phase \in {"Failed", "Ready"} \/ Running # {} \/ process # None
                   \/ \E d \in Drains : Begun(d)
           Moves == state'.phase = state.phase \/ (\E id \in Packs : EnsureIdle(id)) \/ Busy
           Readies == state'.phase = "Ready" => state.phase = "Ready" \/ \E a \in Attempts : PollReady(a)
           Ages2 == state'.empty \in {state.empty, -1, 0} \/ Elapse
           Files == disk' \in {disk, state'} \/ Elapse
           All == Owners /\ Numbers /\ Moves /\ Readies /\ Ages2 /\ Files
<1> SUFFICES All
  OBVIOUS
<1>r. state \in States
  BY DEF IndInv, PersistedOK
<1>f. ASSUME NEW s, Save(s) PROVE state' = s /\ Files
  BY <1>f DEF Save
<1>u. ASSUME UNCHANGED <<state, disk>> PROVE All
  BY <1>u
<1>p. ASSUME NEW ph, Save([state EXCEPT !.phase = ph]), Busy, ph # "Ready" PROVE All
  <2>1. state' = [state EXCEPT !.phase = ph] /\ Files
    BY <1>p, <1>f
  <2>2. /\ state'.phase = ph /\ state'.active = state.active /\ state'.gen = state.gen
        /\ state'.empty = state.empty
    BY <2>1, <1>r, StateFields, Counters
  <2> HIDE DEF Busy, Files
  <2> QED BY <1>p, <2>1, <2>2
<1>n. ASSUME NEW id, Save(LoadingState(id)), (\E i \in Packs : EnsureIdle(i)) \/ (Switched /\ Busy)
      PROVE  All
  <2>1. state' = LoadingState(id) /\ Files
    BY <1>n, <1>f
  <2>2. state'.phase = "Loading" /\ state'.empty = -1
    BY <2>1, <1>r, StateFields, Counters
  <2> HIDE DEF Busy, Files
  <2> QED BY <1>n, <2>1, <2>2
<1>c. ASSUME NEW g, NEW b, Save([state EXCEPT !.gen = g, !.pending = b]),
             (\E a \in Attempts : Identify(a)) \/ (\E d \in Drains : CommitRecorded(d))
      PROVE  All
  <2>1. state' = [state EXCEPT !.gen = g, !.pending = b] /\ Files
    BY <1>c, <1>f
  <2>2. state'.phase = state.phase /\ state'.active = state.active /\ state'.empty = state.empty
    BY <2>1, <1>r, StateFields, Counters
  <2> HIDE DEF Busy, Files
  <2> QED BY <1>c, <2>1, <2>2
<1>1. CASE ShutdownBegin
  BY <1>1, <1>p DEF ShutdownBegin
<1>2. CASE Elapse
  <2>1. /\ state'.phase = state.phase /\ state'.active = state.active /\ state'.gen = state.gen
    BY <1>2, <1>r, StateFields, Counters DEF Elapse
  <2> QED BY <1>2, <2>1
<1>3. ASSUME NEW id \in Packs, Ensure(id) PROVE All
  <2>1. CASE EnsureIdle(id)
    BY <2>1, <1>n DEF EnsureIdle
  <2>2. CASE EnsureRetry(id)
    BY <2>2, <1>p DEF EnsureRetry, Retryable
  <2>3. CASE EnsureReady(id) \/ EnsureSwitch(id) \/ EnsureRefused(id)
    BY <2>3, <1>u DEF EnsureReady, EnsureSwitch, EnsureRefused, persisted
  <2> HIDE DEF All
  <2> QED BY <1>3, <2>1, <2>2, <2>3 DEF Ensure
<1>4. ASSUME NEW a \in Attempts, Start(a) PROVE All
  <2>0. att[a].pc # "idle" => Busy /\ state.active = att[a].id
    BY DEF Running, OneInv, Entitled
  <2>1. CASE StartResize(a)
    BY <2>0, <2>1, <1>u, <1>p DEF StartResize, IfActive, persisted
  <2>2. CASE StartSized(a)
    <3>1. PICK ph \in {"Recovering", "Loading"} :
             Save([state EXCEPT !.phase = ph]) \/ UNCHANGED <<state, disk>>
      BY <2>2 DEF StartSized, IfActive, persisted
    <3>2. Busy
      BY <2>0, <2>2 DEF StartSized
    <3> HIDE DEF All, Busy
    <3> QED BY <3>1, <3>2, <1>u, <1>p
  <2>3. CASE Identify(a)
    <3>1. PICK g, b : Save([state EXCEPT !.gen = g, !.pending = b])
      BY <2>3 DEF Identify
    <3> HIDE DEF All
    <3> QED BY <2>3, <3>1, <1>c
  <2>4. CASE PollReady(a)
    <3>1. state' = [state EXCEPT !.phase = "Ready"] /\ Files
      BY <2>0, <2>4, <1>f DEF PollReady
    <3>2. state'.active = state.active /\ state'.gen = state.gen /\ state'.empty = state.empty
      BY <3>1, <1>r, StateFields, Counters
    <3>3. Busy
      BY <2>0, <2>4 DEF PollReady
    <3> HIDE DEF Busy, Files
    <3> QED BY <2>4, <3>1, <3>2, <3>3
  <2>5. CASE StartFail(a)
    <3>1. state' = [state EXCEPT !.phase = "Failed", !.active = state.active] /\ Files
      BY <2>0, <2>5, <1>f DEF StartFail, FailedState
    <3>2. /\ state'.active = state.active /\ state'.gen = state.gen /\ state'.empty = state.empty
          /\ state'.phase = "Failed"
      BY <3>1, <1>r, Counters
    <3>3. Busy
      BY <2>0, <2>5 DEF StartFail
    <3> HIDE DEF Busy, Files
    <3> QED BY <3>1, <3>2, <3>3
  <2> HIDE DEF All
  <2> QED BY <1>4, <1>u, <2>1, <2>2, <2>3, <2>4, <2>5
          DEF Start, SizerEnsure, Prepare, Restore, Launch, LaunchFails, Publish, PollAnswered,
              PollTimeout, persisted, Ending
<1>5. ASSUME NEW a \in Attempts, Java(a) PROVE All
  <2>1. UNCHANGED <<state, disk>> \/ (process # None /\ Save([state EXCEPT !.phase = "Failed"]))
    BY <1>5 DEF Java, JavaUp, JavaExit, WaitProcess, persisted
  <2> HIDE DEF All
  <2> QED BY <2>1, <1>u, <1>p
<1>6. ASSUME NEW d \in Drains, Drain(d) PROVE All
  <2>1. CASE DrainBegin(d)
    BY <2>1, <1>u, <1>p DEF DrainBegin, persisted
  <2>2. CASE Saving(d)
    <3>1. Busy
      BY <2>2 DEF Saving, Begun
    <3> HIDE DEF All, Busy
    <3> QED BY <2>2, <3>1, <1>p DEF Saving
  <2>3. CASE CommitFailed(d)
    <3>1. state' = [state EXCEPT !.pending = TRUE] /\ Files
      BY <2>3, <1>f DEF CommitFailed
    <3>2. /\ state'.active = state.active /\ state'.gen = state.gen /\ state'.empty = state.empty
          /\ state'.phase = state.phase
      BY <3>1, <1>r, StateFields, Counters
    <3> HIDE DEF Busy, Files
    <3> QED BY <3>1, <3>2
  <2>4. CASE CommitRecorded(d)
    <3>1. PICK g, b : Save([state EXCEPT !.gen = g, !.pending = b])
      BY <2>4 DEF CommitRecorded
    <3> HIDE DEF All
    <3> QED BY <2>4, <3>1, <1>c
  <2>5. ~DrainFailed(d)
    BY DEF DrainFailed, Primed, Drains, Leaving
  <2>6. CASE StopAndBackup(d)
    <3> HIDE DEF All
    <3> QED BY <2>2, <2>3, <2>4, <2>6, <1>u
       DEF StopAndBackup, SaveAll, ExpectStop, StopCommand, UnexpectStop, WaitStopped, StopTimeout,
           CommitHead, CommitArchive, Evict, Evicted, persisted
  <2>7. CASE IdleStopped
    <3>1. state' = IdleState /\ Files
      BY <2>7, <1>f DEF IdleStopped
    <3>2. state'.phase = "Idle" /\ state'.empty = -1
      BY <3>1, <1>r, StateFields, Counters
    <3>3. Busy
      BY <2>7 DEF IdleStopped, Begun, Drains
    <3> HIDE DEF Busy, Files
    <3> QED BY <2>7, <3>1, <3>2, <3>3
  <2>8. CASE Switched
    <3>1. Busy
      BY <2>8 DEF Switched, Begun, Drains
    <3> HIDE DEF All, Busy
    <3> QED BY <2>8, <3>1, <1>n DEF Switched
  <2> HIDE DEF All
  <2> QED BY <1>6, <2>1, <2>5, <2>6, <2>7, <2>8 DEF Drain, Ending
<1>7. CASE Tick
  <2>1. CASE TickApply
    <3>1. PICK e \in {-1, 0, state.empty} : Save([state EXCEPT !.empty = e])
      BY <2>1 DEF TickApply
    <3>2. state' = [state EXCEPT !.empty = e] /\ Files
      BY <3>1, <1>f
    <3>3. /\ state'.active = state.active /\ state'.gen = state.gen /\ state'.empty = e
          /\ state'.phase = state.phase
      BY <3>2, <1>r, StateFields, Counters
    <3> HIDE DEF Busy, Files
    <3> QED BY <3>1, <3>2, <3>3
  <2> HIDE DEF All
  <2> QED BY <1>7, <2>1, <1>u DEF Tick, TickExit, TickRead, TickQuery, persisted
<1>8. CASE StopServing \/ Connect \/ Leave \/ Touch \/ Quiesce \/ UNCHANGED vars
  BY <1>8, <1>u DEF StopServing, Connect, Leave, Touch, Quiesce, persisted, vars
<1> HIDE DEF All
<1> QED BY <1>1, <1>2, <1>3, <1>4, <1>5, <1>6, <1>7, <1>8 DEF Next, Main, Ending

\* From here to "prepare", and after an error, a start() has nothing to rely on.
Unsure == {"idle", "resize", "sizing", "sized", "prepare", "fail"}

\* How start(a) goes on once it has asked for the head of the store.
Proceeds(a) ==
    \/ Prepare(a) /\ att'[a].pc \in {"restore", "identity"}
    \/ Restore(a) /\ att'[a].pc = "identity" /\ att'[a].head = att[a].head
    \/ Identify(a) /\ att'[a].pc = "launch"
    \/ Launch(a) /\ att'[a].pc = "publish"
    \/ Publish(a) /\ att'[a].pc = "poll"
    \/ PollAnswered(a) /\ att'[a].pc = "ready"

\* The steps that call start().
Starts == Boot \/ Switched \/ \E id \in Packs : EnsureIdle(id) \/ EnsureRetry(id)

\* Where the records of the starts come from.
LEMMA AttemptSteps ==
    ASSUME IndInv, [Next]_vars, ~Ending
    PROVE  \A a \in Attempts :
              /\ \/ att'[a].pc \in Unsure
                 \/ att'[a].pc = att[a].pc /\ att'[a].id = att[a].id /\ att'[a].head = att[a].head
                 \/ att'[a].id = att[a].id /\ Proceeds(a)
              /\ att'[a].pc \in Early => att[a].pc \in Early \/ Starts
              /\ att'[a].pc # "idle" => att[a].pc # "idle" \/ Starts
<1> DEFINE Q(a) ==
              /\ \/ att'[a].pc \in Unsure
                 \/ att'[a].pc = att[a].pc /\ att'[a].id = att[a].id /\ att'[a].head = att[a].head
                 \/ att'[a].id = att[a].id /\ Proceeds(a)
              /\ att'[a].pc \in Early => att[a].pc \in Early \/ Starts
              /\ att'[a].pc # "idle" => att[a].pc # "idle" \/ Starts
<1> SUFFICES \A a \in Attempts : Q(a)
  OBVIOUS
<1>r. att \in [Attempts -> Attempt] /\ \A a \in Attempts : att[a] \in AttemptType
  BY DEF IndInv, AttOK, Attempt
<1>k. ASSUME UNCHANGED att PROVE \A a \in Attempts : Q(a)
  BY <1>k
<1>o. ASSUME NEW a \in Attempts, NEW r, att' = [att EXCEPT ![a] = r]
      PROVE  att'[a] = r /\ \A b \in Attempts : b # a => att'[b] = att[b]
  BY <1>o, <1>r
<1>w. ASSUME NEW a \in Attempts, \A b \in Attempts : b # a => att'[b] = att[b], Q(a)
      PROVE  \A b \in Attempts : Q(b)
  BY <1>w
<1>n. ASSUME NEW id, NEW recovery, GoStart(id, recovery), Starts
      PROVE  \A a \in Attempts : Q(a)
  <2> DEFINE new == [NoAttempt EXCEPT !.pc = "resize", !.id = id, !.recovery = recovery]
  <2>1. PICK a \in FreeAttempts : att' = [att EXCEPT ![a] = new]
    BY <1>n DEF GoStart
  <2>2. new.pc = "resize" /\ a \in Attempts
    BY <2>1 DEF NoAttempt, FreeAttempts
  <2> HIDE DEF new
  <2>3. att'[a] = new /\ \A b \in Attempts : b # a => att'[b] = att[b]
    BY <1>o, <2>1, <2>2
  <2>4. Q(a)
    BY <1>n, <2>2, <2>3 DEF Unsure
  <2> HIDE DEF Q
  <2> QED BY <1>w, <2>2, <2>3, <2>4
<1>1. CASE UNCHANGED vars \/ StopServing \/ ShutdownBegin \/ Connect \/ Leave \/ Touch \/ Quiesce
           \/ Elapse \/ Tick
  BY <1>1, <1>k DEF vars, StopServing, ShutdownBegin, Connect, Leave, Touch, Quiesce, Elapse, Tick,
                    TickExit, TickRead, TickQuery, TickApply
<1>2. CASE Boot \/ \E id \in Packs : Ensure(id)
  <2>1. UNCHANGED att \/ (Starts /\ \E id, rec : GoStart(id, rec))
    BY <1>2 DEF Boot, Interrupted, Ensure, EnsureIdle, EnsureRetry, EnsureReady, EnsureSwitch,
                EnsureRefused, Starts
  <2> HIDE DEF Q
  <2> QED BY <1>k, <1>n, <2>1
<1>3. ASSUME NEW a \in Attempts, Start(a) PROVE \A b \in Attempts : Q(b)
  <2>t. ASSUME NEW q \in AttemptType, att' = [att EXCEPT ![a] = Returned(q)]
        PROVE  \A b \in Attempts : Q(b)
    <3>1. Returned(q).pc = "idle"
      BY DEF Returned, NoAttempt, AttemptType
    <3>2. att'[a] = Returned(q) /\ \A b \in Attempts : b # a => att'[b] = att[b]
      BY <1>o, <2>t
    <3>3. Q(a)
      BY <3>1, <3>2 DEF Unsure, Early
    <3> HIDE DEF Q
    <3> QED BY <1>w, <3>2, <3>3
  <2>g. ASSUME NEW pc, Goto(a, pc)
        PROVE  /\ \A b \in Attempts : b # a => att'[b] = att[b]
               /\ att'[a].pc = pc /\ att'[a].id = att[a].id /\ att'[a].head = att[a].head
    BY <2>g, <1>r DEF Goto, AttemptType
  <2>1. CASE StartResize(a) \/ StartSized(a)
    <3>1. (\E pc \in {"sizing", "prepare"} : Goto(a, pc)) \/ Return(a)
      BY <2>1 DEF StartResize, StartSized, IfActive
    <3>2. CASE Return(a)
      BY <1>r, <2>t, <3>2 DEF Return
    <3>3. ASSUME NEW pc \in {"sizing", "prepare"}, Goto(a, pc) PROVE \A b \in Attempts : Q(b)
      <4>1. Q(a)
        BY <2>1, <2>g, <3>3 DEF Unsure, Early, StartResize, StartSized
      <4> HIDE DEF Q
      <4> QED BY <1>w, <2>g, <3>3, <4>1
    <3> HIDE DEF Q
    <3> QED BY <3>1, <3>2, <3>3
  <2>2. CASE SizerEnsure(a)
    <3>1. (\E pc \in {"sized", "fail"} : Goto(a, pc)) \/ Return(a)
      BY <2>2 DEF SizerEnsure
    <3>2. CASE Return(a)
      BY <1>r, <2>t, <3>2 DEF Return
    <3>3. ASSUME NEW pc \in {"sized", "fail"}, Goto(a, pc) PROVE \A b \in Attempts : Q(b)
      <4>1. Q(a)
        BY <2>2, <2>g, <3>3 DEF Unsure, Early, SizerEnsure
      <4> HIDE DEF Q
      <4> QED BY <1>w, <2>g, <3>3, <4>1
    <3> HIDE DEF Q
    <3> QED BY <3>1, <3>2, <3>3
  <2>3. CASE Prepare(a)
    <3>1. PICK h : att' = [att EXCEPT ![a].head = h, ![a].pc = AfterHead(att[a].id, h)]
      BY <2>3 DEF Prepare
    <3> DEFINE r == [att[a] EXCEPT !.head = h, !.pc = AfterHead(att[a].id, h)]
    <3>2. att' = [att EXCEPT ![a] = r] /\ r.pc = AfterHead(att[a].id, h) /\ r.id = att[a].id
      BY <3>1, <1>r DEF AttemptType
    <3> HIDE DEF r
    <3>3. r.pc \in {"restore", "identity", "fail"}
      BY <3>2 DEF AfterHead
    <3>4. att'[a] = r /\ \A b \in Attempts : b # a => att'[b] = att[b]
      BY <1>o, <3>2
    <3>5. Q(a)
      BY <2>3, <3>2, <3>3, <3>4 DEF Unsure, Proceeds, Prepare, Early
    <3> HIDE DEF Q
    <3> QED BY <1>w, <3>4, <3>5
  <2>4. CASE Launch(a)
    <3>1. att' = [att EXCEPT ![a].pc = "publish", ![a].java = "loading"]
      BY <2>4 DEF Launch
    <3>2. /\ att'[a].pc = "publish" /\ att'[a].id = att[a].id
          /\ \A b \in Attempts : b # a => att'[b] = att[b]
      BY <3>1, <1>r DEF AttemptType
    <3>3. Q(a)
      BY <2>4, <3>2 DEF Proceeds, Launch, Early
    <3> HIDE DEF Q
    <3> QED BY <1>w, <3>2, <3>3
  <2>5. CASE Publish(a)
    <3>1. CASE Goto(a, "poll")
      <4>1. Q(a)
        BY <2>5, <2>g, <3>1 DEF Proceeds, Publish, Early
      <4> HIDE DEF Q
      <4> QED BY <1>w, <2>g, <3>1, <4>1
    <3>2. CASE att' = [att EXCEPT ![a] = Returned(Killed(att[a]))]
      <4>1. Killed(att[a]) \in AttemptType
        BY <1>r DEF Killed, AttemptType, JavaStates
      <4> HIDE DEF Q
      <4> QED BY <2>t, <3>2, <4>1
    <3> QED BY <2>5, <3>1, <3>2 DEF Publish
  <2>6. CASE PollTimeout(a)
    <3> DEFINE r == [Killed(att[a]) EXCEPT !.pc = "fail"]
    <3>1. att' = [att EXCEPT ![a] = r]
      BY <2>6 DEF PollTimeout
    <3>2. r.pc = "fail"
      BY <1>r DEF AttemptType, Killed
    <3> HIDE DEF r
    <3>3. att'[a] = r /\ \A b \in Attempts : b # a => att'[b] = att[b]
      BY <1>o, <3>1
    <3>4. Q(a)
      BY <2>6, <3>2, <3>3 DEF Unsure, Early, PollTimeout
    <3> HIDE DEF Q
    <3> QED BY <1>w, <3>3, <3>4
  <2>7. CASE PollReady(a) \/ StartFail(a)
    <3>1. Return(a)
      BY <2>7 DEF PollReady, StartFail
    <3> QED BY <1>r, <2>t, <3>1 DEF Return
  <2>8. CASE Restore(a) \/ Identify(a) \/ LaunchFails(a) \/ PollAnswered(a)
    <3>1. PICK pc \in {"identity", "fail", "launch", "ready"} :
             /\ Goto(a, pc) /\ att[a].pc # "idle"
             /\ pc = "identity" => Restore(a)
             /\ pc = "launch" => Identify(a)
             /\ pc = "ready" => PollAnswered(a)
      BY <2>8 DEF Restore, Identify, LaunchFails, PollAnswered
    <3>2. Q(a)
      BY <2>g, <3>1 DEF Unsure, Proceeds, Early, Restore, Identify
    <3> HIDE DEF Q
    <3> QED BY <1>w, <2>g, <3>1, <3>2
  <2>9. ~SizerPanic(a)
    BY DEF Ending
  <2> HIDE DEF Q
  <2> QED BY <1>3, <2>1, <2>2, <2>3, <2>4, <2>5, <2>6, <2>7, <2>8, <2>9, Zenon DEF Start
<1>4. ASSUME NEW a \in Attempts, NEW r, att' = [att EXCEPT ![a] = r],
             \/ r.pc = att[a].pc /\ r.id = att[a].id /\ r.head = att[a].head
             \/ r.pc = "idle"
      PROVE  \A b \in Attempts : Q(b)
  <2>1. att'[a] = r /\ \A b \in Attempts : b # a => att'[b] = att[b]
    BY <1>o, <1>4
  <2>2. Q(a)
    BY <1>4, <2>1 DEF Unsure, Early
  <2> HIDE DEF Q
  <2> QED BY <1>w, <2>1, <2>2
<1>j. \A a \in Attempts : \A j : LET r == [att[a] EXCEPT !.java = j] IN
         r.pc = att[a].pc /\ r.id = att[a].id /\ r.head = att[a].head
  BY <1>r DEF AttemptType
<1>5. ASSUME NEW a \in Attempts, Java(a) PROVE \A b \in Attempts : Q(b)
  <2>1. PICK r : att' = [att EXCEPT ![a] = r] /\ (r = NoAttempt \/ \E j : r = [att[a] EXCEPT !.java = j])
    BY <1>5 DEF Java, JavaUp, JavaExit, WaitProcess
  <2>2. NoAttempt.pc = "idle"
    BY DEF NoAttempt
  <2> HIDE DEF Q
  <2> QED BY <1>4, <1>j, <2>1, <2>2
<1>6. ASSUME NEW d \in Drains, Drain(d) PROVE \A b \in Attempts : Q(b)
  <2>1. CASE UNCHANGED att
    BY <1>k, <2>1
  <2>2. CASE Switched
    <3> HIDE DEF Q
    <3> QED BY <1>n, <2>2 DEF Switched, Starts
  <2>3. CASE \E b \in Up : att' = [att EXCEPT ![b].java = "stopping"]
    <3>1. PICK b \in Attempts : att' = [att EXCEPT ![b] = [att[b] EXCEPT !.java = "stopping"]]
      BY <2>3 DEF Up
    <3> HIDE DEF Q
    <3> QED BY <1>4, <1>j, <3>1
  <2>4. CASE StopTimeout(d)
    <3>1. att' = [att EXCEPT ![drain[d].proc] = Killed(att[drain[d].proc])]
      BY <2>4 DEF StopTimeout
    <3>2. drain[d].proc \in Attempts \/ UNCHANGED att
      BY <3>1, <1>r
    <3>3. \A a \in Attempts : /\ Killed(att[a]).pc = att[a].pc /\ Killed(att[a]).id = att[a].id
                              /\ Killed(att[a]).head = att[a].head
      BY <1>r DEF Killed, AttemptType
    <3> HIDE DEF Q
    <3> QED BY <1>4, <2>1, <3>1, <3>2, <3>3
  <2>5. ~ShutdownDone
    BY DEF Ending
  <2> HIDE DEF Q
  <2> QED BY <1>6, <2>1, <2>2, <2>3, <2>4, <2>5
          DEF Drain, DrainBegin, IdleStopped, DrainFailed, StopAndBackup, Saving, SaveAll, ExpectStop,
              StopCommand, UnexpectStop, WaitStopped, CommitHead, CommitArchive, CommitFailed,
              CommitRecorded, Evict, Evicted
<1> HIDE DEF Q
<1> QED BY <1>1, <1>2, <1>3, <1>5, <1>6 DEF Next, Main, Ending

\* How the daemon, m.process and the Machine's config change.
LEMMA HostSteps ==
    ASSUME Tame, Primed, [Next]_vars, ~Ending
    PROVE  /\ \/ main' = main
              \/ main = "off" /\ main' = "serving" /\ Boot
              \/ main = "serving" /\ main' = "closing" /\ done /\ UNCHANGED <<state, att, drain, updated>>
              \/ main = "closing" /\ main' = "draining" /\ ShutdownBegin
           /\ done' = done \/ (done' = TRUE /\ (IdleStopped \/ TickExit))
           /\ process' \in {process, None} \/ \E a \in Attempts : Publish(a)
           /\ updated' = updated \/ \E a \in Attempts : SizerEnsure(a) /\ Return(a)
<1>t. Calm /\ \A k : Fault(k) => k \in {"queryErr", "launchErr", "saveErr"}
  BY TameFaults
<1>1. CASE UNCHANGED <<main, done, process, updated>>
  BY <1>1
<1>2. CASE Boot \/ ShutdownBegin
  BY <1>2 DEF Boot, Interrupted, ShutdownBegin, fly
<1>3. CASE StopServing
  BY <1>3, <1>t DEF StopServing, fly
<1>4. CASE \E id \in Packs : Ensure(id)
  BY <1>1, <1>4 DEF Ensure, EnsureIdle, EnsureRetry, EnsureReady, EnsureSwitch, EnsureRefused, mem, fly
<1>5. CASE Connect \/ Leave \/ Touch \/ Quiesce \/ Elapse \/ Tick \/ UNCHANGED vars
  BY <1>5 DEF Connect, Leave, Touch, Quiesce, Elapse, Tick, TickExit, TickRead, TickQuery, TickApply,
              SignalDone, vars, mem, fly
<1>6. ASSUME NEW a \in Attempts, Start(a)
      PROVE  \/ UNCHANGED <<main, done, process, updated>>
             \/ Publish(a) /\ UNCHANGED <<main, done, updated>>
             \/ SizerEnsure(a) /\ Return(a) /\ UNCHANGED <<main, done, process>>
  <2>1. CASE SizerEnsure(a)
    BY <2>1, <1>t DEF SizerEnsure, mem
  <2>2. ~SizerPanic(a)
    BY DEF Ending
  <2> QED BY <1>6, <2>1, <2>2
     DEF Start, StartResize, StartSized, Prepare, Restore, Identify, Launch, LaunchFails, Publish,
         PollAnswered, PollReady, PollTimeout, StartFail, mem, fly
<1>7. ASSUME NEW a \in Attempts, Java(a) PROVE UNCHANGED <<main, done, updated>> /\ process' \in {process, None}
  BY <1>7 DEF Java, JavaUp, JavaExit, WaitProcess, mem, fly
<1>8. ASSUME NEW d \in Drains, Drain(d), ~IdleStopped PROVE UNCHANGED <<main, done, process, updated>>
  <2>1. ~DrainFailed(d)
    BY DEF DrainFailed, Primed, Drains, Leaving
  <2>2. ~ShutdownDone
    BY DEF Ending
  <2> QED BY <1>8, <2>1, <2>2
     DEF Drain, DrainBegin, Switched, StopAndBackup, Saving, SaveAll, ExpectStop, StopCommand,
         UnexpectStop, WaitStopped, StopTimeout, CommitHead, CommitArchive, CommitFailed,
         CommitRecorded, Evict, Evicted, mem, fly
<1>9. CASE IdleStopped
  BY <1>9 DEF IdleStopped, SignalDone, fly
<1> QED BY <1>1, <1>2, <1>3, <1>4, <1>5, <1>6, <1>7, <1>8, <1>9 DEF Next, Main, Ending

\* What stopAndBackup() does next, step by step.
LEMMA BackupMoves ==
    ASSUME Tame, IndInv, NEW d \in Drains, StopAndBackup(d)
    PROVE  \/ Saving(d) /\ drain'[d].pc = (IF process = None THEN "commit" ELSE "saveall")
           \/ SaveAll(d) /\ drain'[d].pc = (IF Up # {} THEN "expect" ELSE "error")
           \/ ExpectStop(d) /\ drain'[d].pc = "stop"
           \/ StopCommand(d) /\ Up = {} /\ drain'[d].pc = "unexpect" /\ UNCHANGED att
           \/ UnexpectStop(d) /\ drain'[d].pc = "error"
           \/ /\ StopCommand(d) /\ drain'[d].pc = "waitstop"
              /\ \E b \in Up : att' = [att EXCEPT ![b].java = "stopping"]
           \/ WaitStopped(d) /\ drain'[d].pc = "commit" /\ process = None
           \/ /\ StopTimeout(d) /\ drain'[d].pc = "error"
              /\ process # None /\ att[process].java \in {"loading", "up"}
           \/ /\ CommitHead(d) /\ drain'[d].gen = state.gen
              /\ \/ /\ drain'[d].pc = "archive"
                    /\ drain[d].id # None /\ hgen[drain[d].id] = state.gen
                 \/ /\ drain'[d].pc = "commitErr"
                    /\ ~ (drain[d].id # None /\ hgen[drain[d].id] = state.gen)
           \/ /\ CommitArchive(d) /\ drain'[d].gen = drain[d].gen
              /\ \/ /\ drain'[d].pc = "record" /\ local[drain[d].id] # "absent"
                    /\ hgen[drain[d].id] \in {drain[d].gen, drain[d].gen + 1}
                    /\ head' = [head EXCEPT ![drain[d].id] = Archived(drain[d].id)]
                    /\ hgen' = [hgen EXCEPT ![drain[d].id] = drain[d].gen + 1]
                 \/ /\ drain'[d].pc = "commitErr" /\ UNCHANGED <<head, hgen>>
                    /\ ~ (/\ local[drain[d].id] # "absent"
                          /\ hgen[drain[d].id] \in {drain[d].gen, drain[d].gen + 1})
           \/ CommitFailed(d) /\ drain'[d].pc = "error"
           \/ CommitRecorded(d) /\ drain'[d].pc \in {"evict", "finish"}
           \/ Evict(d) /\ drain'[d].pc = "evicting"
           \/ /\ Evicted(d) /\ drain'[d].pc = "finish"
              /\ local' = [local EXCEPT ![drain[d].id] = "absent"]
<1>t. \A k : Fault(k) => k \in {"queryErr", "launchErr", "saveErr"}
  BY TameFaults
<1>r. drain \in [Drains -> DrainType] /\ drain[d] \in DrainType
  BY DEF IndInv, DrainOK
<1>p. ASSUME NEW pc, Step(d, pc) PROVE drain'[d].pc = pc /\ drain'[d].gen = drain[d].gen
  BY <1>p, <1>r DEF Step, DrainType
<1>1. CASE Saving(d)
  <2>1. drain' = [drain EXCEPT ![d].id = state.active, ![d].proc = process, ![d].pc = AfterSaving]
    BY <1>1 DEF Saving
  <2>2. drain'[d].pc = AfterSaving
    BY <2>1, <1>r DEF DrainType
  <2> QED BY <1>1, <2>2 DEF AfterSaving
<1>2. CASE SaveAll(d) \/ ExpectStop(d) \/ UnexpectStop(d)
  BY <1>2, <1>p, <1>t DEF SaveAll, ExpectStop, UnexpectStop
<1>3. CASE StopCommand(d)
  BY <1>3, <1>p, <1>t DEF StopCommand, AfterStopError
<1>4. CASE WaitStopped(d)
  <2>1. drain' = [drain EXCEPT ![d].pc = "commit", ![d].proc = None] /\ process = None
    BY <1>4 DEF WaitStopped, Stopped
  <2>2. drain'[d].pc = "commit"
    BY <2>1, <1>r DEF DrainType
  <2> QED BY <1>4, <2>1, <2>2
<1>5. CASE StopTimeout(d)
  <2>1. drain' = [drain EXCEPT ![d].pc = "error", ![d].proc = None]
    BY <1>5 DEF StopTimeout
  <2>2. drain'[d].pc = "error"
    BY <2>1, <1>r DEF DrainType
  <2> QED BY <1>5, <1>t, <2>2 DEF StopTimeout
<1>6. CASE CommitHead(d)
  <2> DEFINE Expected == drain[d].id # None /\ hgen[drain[d].id] = state.gen
  <2>1. PICK ok \in BOOLEAN :
           /\ ok = Expected
           /\ drain' = [drain EXCEPT ![d].gen = state.gen, ![d].pc = AfterCompare(ok)]
    <3>1. ~Fault("headErr") /\ ~Fault("openErr")
      BY <1>t
    <3> QED BY <1>6, <3>1, Zenon DEF CommitHead
  <2>2. drain'[d].gen = state.gen /\ drain'[d].pc = AfterCompare(ok)
    BY <2>1, <1>r DEF DrainType
  <2>3. AfterCompare(ok) = IF Expected THEN "archive" ELSE "commitErr"
    BY <2>1 DEF AfterCompare
  <2> HIDE DEF Expected
  <2>4. (Expected /\ drain'[d].pc = "archive") \/ (~Expected /\ drain'[d].pc = "commitErr")
    BY <2>2, <2>3
  <2> QED BY <1>6, <2>2, <2>4 DEF Expected
<1>7. CASE CommitArchive(d)
  <2> DEFINE Possible == /\ local[drain[d].id] # "absent"
                         /\ hgen[drain[d].id] \in {drain[d].gen, drain[d].gen + 1}
             Put == /\ head' = [head EXCEPT ![drain[d].id] = Archived(drain[d].id)]
                    /\ hgen' = [hgen EXCEPT ![drain[d].id] = drain[d].gen + 1]
  <2>1. ~Fault("storeErr")
    BY <1>t
  <2>2. \/ Possible /\ Put /\ Step(d, "record")
        \/ ~Possible /\ UNCHANGED <<head, hgen>> /\ Step(d, "commitErr")
    BY <1>7, <2>1 DEF CommitArchive
  <2>3. \/ Possible /\ Put /\ drain'[d].gen = drain[d].gen /\ drain'[d].pc = "record"
        \/ /\ ~Possible /\ UNCHANGED <<head, hgen>>
           /\ drain'[d].gen = drain[d].gen /\ drain'[d].pc = "commitErr"
    <3> HIDE DEF Possible, Put
    <3> QED BY <2>2, <1>p
  <2> QED BY <1>7, <2>3
<1>8. CASE CommitFailed(d)
  BY <1>8, <1>p DEF CommitFailed
<1>9. CASE CommitRecorded(d)
  BY <1>9, <1>p DEF CommitRecorded, AfterBackup
<1>10. CASE Evict(d)
  BY <1>10, <1>p DEF Evict
<1>11. CASE Evicted(d)
  BY <1>11, <1>p, <1>t DEF Evicted
<1> QED BY <1>1, <1>2, <1>3, <1>4, <1>5, <1>6, <1>7, <1>8, <1>9, <1>10, <1>11, Zenon DEF StopAndBackup

\* What is not at work beside a start() or a pack that is Ready.
LEMMA NoDrainBegun ==
    ASSUME OneInv, main \in {"serving", "closing"}, Running # {} \/ state.phase = "Ready"
    PROVE  \A d \in Drains : ~Begun(d)
<1>1. drain["shutdown"].pc = "idle"
  BY DEF OneInv, Orderly
<1>2. \A d \in Leaving : ~Begun(d)
  BY DEF OneInv, Exclusive
<1> QED BY <1>1, <1>2 DEF Drains, Leaving, Begun

\* A server that listens goes on unless a drain stops it.
LEMMA UpStays ==
    ASSUME Tame, IndInv, OneInv, [Next]_vars, ~Ending, Up # {},
           \A d \in Drains : ~StopCommand(d) /\ ~StopTimeout(d)
    PROVE  Up' # {}
<1>t. \A k : Fault(k) => k \in {"queryErr", "launchErr", "saveErr"}
  BY TameFaults
<1>1. PICK a \in Attempts : att[a].java = "up"
  BY DEF Up
<1>2. Live(a)
  BY <1>1 DEF Live, LiveJava
<1>3. ~JavaExit(a)
  BY <1>1, <1>t DEF JavaExit
<1>4. ~Launch(a)
  <2>1. ASSUME att[a].pc = "launch" PROVE FALSE
    <3>1. a \in Running /\ att[a].pc \in Early
      BY <2>1 DEF Running, Early
    <3>2. process = None
      BY <3>1 DEF OneInv, Entitled
    <3> QED BY <1>2, <2>1, <3>2 DEF OneInv, Owned
  <2> QED BY <2>1 DEF Launch
<1>5. ~PollTimeout(a)
  BY <1>2, <1>t DEF PollTimeout
<1>6. ~ (Publish(a) /\ state.active # att[a].id)
  BY DEF Publish, OneInv, Entitled, Running
<1>7. att'[a].java = "up"
  BY <1>1, <1>3, <1>4, <1>5, <1>6, ServerSteps DEF Felled
<1> QED BY <1>7 DEF Up

\* Every step keeps a server under an answer that is applied and a drain that
\* begins.
LEMMA PressingNext ==
    ASSUME Tame, IndInv, OneInv, Closed, Primed, Pressing, [Next]_vars
    PROVE  Pressing'
<1>t. Calm
  BY TameFaults
<1>r. Leaving \subseteq Drains
  BY DEF Leaving, Drains
<1>u. Up # {} => Served
  BY DEF Up, Served, Live, LiveJava
<1>1. CASE Ending
  <2>1. tick' = NoTick /\ \A d \in Drains : drain'[d] = NoDrain
    BY <1>1, EndingHalts DEF Halt
  <2> QED BY <2>1, <1>r DEF Pressing, NoTick, NoDrain
<1>2. CASE ~Ending
  <2>1. ASSUME tick.pc = "apply" \/ \E d \in Leaving : drain[d].pc = "begin", Served PROVE Served'
    <3>1. ~Prompt
      BY <2>1, <1>r DEF Prompt
    <3>2. \A a \in Attempts : ~JavaExit(a)
      BY <3>1, <1>t DEF JavaExit, Fault, Calm
    <3> QED BY <1>2, <2>1, <3>2, ServerSteps DEF Served
  <2>k. UNCHANGED att /\ Served => Served'
    BY DEF Served, Live
  <2>2. tick'.pc = "apply" /\ tick'.players = "none" => Served'
    <3>1. NoTick.pc = "idle"
      BY DEF NoTick
    <3>2. CASE tick' = tick
      BY <2>1, <3>2 DEF Pressing
    <3> QED BY <1>2, <1>u, <2>k, <3>1, <3>2, MonitorSteps
  <2>3. ASSUME NEW d \in Leaving, drain'[d].pc = "begin" PROVE Served'
    <3>1. NoDrain.pc = "idle" /\ d \in Drains
      BY <1>r DEF NoDrain
    <3>2. CASE drain'[d] = drain[d]
      BY <2>1, <2>3, <3>2 DEF Pressing
    <3>3. CASE TickStops
      BY <2>k, <3>3 DEF TickStops, Pressing
    <3>4. CASE \E id \in Packs : EnsureSwitch(id)
      <4>1. main \in {"serving", "closing"} /\ state.phase = "Ready" /\ UNCHANGED att
        BY <3>4, <1>t DEF EnsureSwitch, Login, Calm
      <4> QED BY <1>u, <2>k, <4>1 DEF Primed
    <3>5. ~BeginsReady(d)
      BY <2>3 DEF BeginsReady
    <3>6. ~StopAndBackup(d)
      BY <2>3, <3>1, BackupSteps
    <3>7. d # "shutdown"
      BY DEF Leaving
    <3> QED BY <1>2, <2>3, <3>1, <3>2, <3>3, <3>4, <3>5, <3>6, <3>7, DrainSteps
  <2> QED BY <2>2, <2>3 DEF Pressing
<1> QED BY <1>1, <1>2

\* Every step keeps everything quiet between the update of the Machine and the
\* reboot.
LEMMA RebootingNext ==
    ASSUME Tame, IndInv, OneInv, Closed, Primed, Rebooting, [Next]_vars
    PROVE  Rebooting'
<1>r. Leaving \subseteq Drains /\ Drains = Leaving \cup {"shutdown"}
  BY DEF Leaving, Drains
<1>1. CASE Ending
  BY <1>1, EndingHalts DEF Halt, Rebooting
<1>2. ASSUME NEW a \in Attempts, SizerEnsure(a), Return(a) PROVE Rebooting'
  <2>1. /\ att[a].pc = "sizing" /\ UNCHANGED <<state, process, main, drain>>
    BY <1>2 DEF SizerEnsure, mem
  <2>2. a \in Running /\ att[a].pc \in Early
    BY <2>1 DEF Running, Early
  <2>3. /\ main # "off" /\ main # "draining"
    BY <2>1, <2>2 DEF OneInv, Quenched, NoAttempt, Closed
  <2>4. /\ process = None /\ state.phase \notin {"Idle", "Ready", "Failed"}
        /\ \A d \in Leaving : ~Begun(d)
    BY <2>2, <2>3 DEF OneInv, Entitled, Orderly, Exclusive
  <2>5. att \in [Attempts -> Attempt] /\ att[a] \in AttemptType
    BY DEF IndInv, AttOK, Attempt
  <2>6. Returned(att[a]).pc = "idle"
    BY <2>5 DEF Returned, NoAttempt, AttemptType
  <2>7. \A b \in Attempts : att'[b] = IF b = a THEN Returned(att[a]) ELSE att[b]
    BY <1>2, <2>5 DEF Return
  <2>8. Running' = {}
    <3>1. \A b \in Running : b = a
      BY <2>2 DEF OneInv, Exclusive
    <3> QED BY <2>6, <2>7, <3>1 DEF Running
  <2>9. main \in {"serving", "closing"}
    BY <2>3 DEF IndInv, MemOK
  <2>10. \A d \in Leaving : ~Begun(d)'
    BY <2>1, <2>4 DEF Begun
  <2> QED BY <2>1, <2>4, <2>8, <2>9, <2>10 DEF Rebooting
<1>3. ASSUME ~Ending, updated' = updated, updated PROVE Rebooting'
  <2>1. /\ main \in {"serving", "closing"} /\ state.phase \notin {"Idle", "Ready", "Failed"}
        /\ Running = {} /\ process = None /\ \A d \in Leaving : ~Begun(d)
    BY <1>3 DEF Rebooting
  <2>2. ~Begun("shutdown")
    BY <2>1 DEF OneInv, Orderly, Begun
  <2>3. ~Boot /\ ~ShutdownBegin /\ ~Switched /\ \A id \in Packs : ~EnsureIdle(id) /\ ~EnsureRetry(id)
    BY <2>1 DEF Boot, Interrupted, ShutdownBegin, Switched, Begun, Leaving, EnsureIdle, Vacant,
                EnsureRetry, Retryable
  <2>4. main' \in {"serving", "closing"}
    BY <1>3, <2>1, <2>3, HostSteps
  <2>5. state'.phase = state.phase
    BY <1>3, <2>1, <2>2, <2>3, <1>r, StateSteps
  <2>6. Running' = {}
    BY <1>3, <2>1, <2>3, AttemptSteps DEF Running, Starts
  <2>7. process' = None
    <3>1. \A a \in Attempts : ~Publish(a)
      BY <2>1 DEF Publish, Running
    <3> QED BY <1>3, <2>1, <3>1, HostSteps
  <2>8. ASSUME NEW d \in Leaving PROVE ~Begun(d)'
    <3>1. NoDrain.pc = "idle" /\ d \in Drains /\ d # "shutdown"
      BY <1>r DEF NoDrain, Leaving
    <3>2. ~StopAndBackup(d)
      BY <2>1, <3>1, BackupSteps
    <3>3. ~BeginsReady(d)
      BY <2>1 DEF BeginsReady
    <3> QED BY <1>3, <2>1, <3>1, <3>2, <3>3, DrainSteps DEF Begun, TickStops
  <2> QED BY <2>1, <2>4, <2>5, <2>6, <2>7, <2>8 DEF Rebooting
<1>4. CASE ~updated'
  BY <1>4 DEF Rebooting
<1>b. updated \in BOOLEAN
  BY DEF IndInv, FlyOK
<1> QED BY <1>1, <1>2, <1>3, <1>4, <1>b, HostSteps

\* Nobody is served when the manager reports that it is done.
LEMMA DoneUnserved ==
    ASSUME Tame, IndInv, OneInv, Closed, Pressing, ~done, IdleStopped \/ TickExit
    PROVE  /\ main # "off" /\ main # "draining" /\ ~Served /\ UNCHANGED <<att, main>>
           /\ state'.phase = "Idle"
           /\ \A d \in Leaving : drain'[d].pc = "idle"
<1>r. /\ drain \in [Drains -> DrainType] /\ Leaving \subseteq Drains /\ NoDrain.pc = "idle"
      /\ "idle" \in Leaving /\ "switch" \in Leaving /\ \A d \in Leaving : d = "idle" \/ d = "switch"
  BY DEF IndInv, DrainOK, Leaving, Drains, NoDrain
<1>1. CASE IdleStopped
  <2>1. /\ drain["idle"].pc = "finish" /\ state' = IdleState /\ UNCHANGED <<att, main>>
        /\ drain' = [drain EXCEPT !["idle"] = NoDrain]
    BY <1>1 DEF IdleStopped, Save
  <2>2. Begun("idle") /\ "idle" \in Drains
    BY <2>1, <1>r DEF Begun
  <2>3. main # "off" /\ main # "draining"
    BY <2>2, Alone
  <2>4. ~Served
    BY <2>1, <1>r, Unserved
  <2>5. drain["switch"].pc = "idle"
    BY <2>2, <2>4, <1>r, Alone DEF Pressing, Begun
  <2>6. drain'["idle"] = NoDrain /\ drain'["switch"] = drain["switch"]
    BY <2>1, <1>r
  <2>7. state'.phase = "Idle"
    BY <2>1 DEF IdleState
  <2> QED BY <2>1, <2>3, <2>4, <2>5, <2>6, <2>7, <1>r
<1>2. CASE TickExit
  <2>1. /\ state.phase = "Idle" /\ main # "off" /\ UNCHANGED <<state, att, drain, main>>
    BY <1>2 DEF TickExit, persisted
  <2>2. main # "draining"
    BY DEF Closed
  <2>3. ~Served
    BY <2>1, Unserved
  <2>4. \A d \in Leaving : ~Begun(d)
    BY <2>1, <2>2 DEF OneInv, Orderly
  <2>5. \A d \in Leaving : drain[d].pc = "idle"
    BY <2>3, <2>4 DEF Pressing, Begun
  <2> QED BY <2>1, <2>2, <2>3, <2>5
<1> QED BY <1>1, <1>2

\* Every step keeps the manager quiet once it is done.
LEMMA ClosedNext ==
    ASSUME Tame, IndInv, OneInv, Closed, Primed, Pressing, [Next]_vars
    PROVE  Closed'
<1>t. Calm
  BY TameFaults
<1>r. /\ Leaving \subseteq Drains /\ "shutdown" \in Drains /\ NoDrain.pc = "idle"
      /\ \A d \in Leaving : d # "shutdown"
  BY DEF Leaving, Drains, NoDrain
<1>v. Up # {} => Served
  BY DEF Up, Served, Live, LiveJava
<1>b. done \in BOOLEAN /\ main \in {"off", "serving", "closing", "draining"} /\ state \in States
  BY DEF IndInv, MemOK, PersistedOK
<1>1. CASE Ending
  <2>1. main' = "off" /\ done' = FALSE
    BY <1>1, EndingHalts DEF Halt
  <2> QED BY <2>1 DEF Closed
<1>2. ASSUME ~Ending, IdleStopped \/ TickExit, ~done PROVE Closed'
  <2>1. /\ main # "off" /\ main # "draining" /\ ~Served /\ UNCHANGED <<att, main>>
        /\ state'.phase = "Idle"
        /\ \A d \in Leaving : drain'[d].pc = "idle"
    BY <1>2, DoneUnserved
  <2>2. Up' = {}
    BY <1>v, <2>1 DEF Up
  <2>3. main \notin {"closing", "draining"}
    BY <1>2 DEF Closed
  <2> QED BY <2>1, <2>2, <2>3 DEF Closed
<1>3. ASSUME ~Ending, ~done, done' = done PROVE Closed'
  <2>1. main \in {"off", "serving"}
    BY <1>3, <1>b DEF Closed
  <2>2. main' \in {"off", "serving"}
    BY <1>3, <2>1, HostSteps
  <2> QED BY <1>3, <2>2 DEF Closed
<1>4. ASSUME ~Ending, done PROVE Closed'
  <2>1. main # "off" /\ \A d \in Leaving : drain[d].pc = "idle"
    BY <1>4 DEF Closed
  <2>2. ~Boot /\ ~Switched /\ done'
    <3>1. ~Boot
      BY <2>1 DEF Boot, Interrupted
    <3>2. ~Switched
      BY <2>1 DEF Switched, Leaving
    <3> QED BY <1>4, <3>1, <3>2, HostSteps
  <2>3. main' \in {"serving", "closing", "draining"} /\ (main = "draining" => main' = "draining")
    BY <1>4, <1>b, <2>1, <2>2, HostSteps
  <2>4. state.empty \in Int
    BY <1>b DEF States, Ages
  <2>5. ASSUME NEW d \in Leaving PROVE drain'[d].pc = "idle"
    <3>1. ~TickStops
      <4>1. ASSUME TickStops PROVE FALSE
        <5>1. Served /\ state.empty >= IdleBeforeStop /\ IdleBeforeStop > 0
          BY <4>1 DEF TickStops, Pressing, Tame
        <5>2. state.phase # "Idle"
          BY <5>1, Unserved
        <5>3. state.empty <= 0
          BY <1>4, <5>2 DEF Closed
        <5> QED BY <5>1, <5>3, <2>4
      <4> QED BY <4>1
    <3>2. \A id \in Packs : ~EnsureSwitch(id)
      BY <1>4, <1>t DEF EnsureSwitch, Login, Calm, Closed
    <3>3. ~BeginsReady(d) /\ ~Begun(d)
      BY <2>1 DEF BeginsReady, Begun
    <3>4. ~StopAndBackup(d)
      BY <3>3, <1>r, BackupSteps
    <3> QED BY <1>4, <1>r, <2>1, <3>1, <3>2, <3>3, <3>4, DrainSteps
  <2>6. ASSUME main' # "draining"
        PROVE  Up' = {} /\ state'.phase # "Ready" /\ (state'.phase = "Idle" \/ state'.empty <= 0)
    <3>1. /\ main \in {"serving", "closing"} /\ Up = {} /\ state.phase # "Ready"
          /\ state.phase = "Idle" \/ state.empty <= 0
      BY <1>4, <1>b, <2>1, <2>3, <2>6 DEF Closed
    <3>2. ~Slow
      BY <1>4, <3>1 DEF Slow
    <3>3. Up' = {}
      BY <1>4, <3>1, <3>2, ServerSteps DEF JavaUp, Up
    <3>4. \A a \in Attempts : ~PollReady(a)
      BY <3>1 DEF Primed, PollReady
    <3>5. state'.phase # "Ready"
      BY <1>4, <2>2, <3>1, <3>4, StateSteps
    <3>6. CASE \E id \in Packs : EnsureIdle(id)
      <4>1. PICK id \in Packs : state' = LoadingState(id)
        BY <3>6 DEF EnsureIdle, Save
      <4>2. state'.empty = -1
        BY <4>1, <1>b, Counters
      <4> QED BY <3>3, <3>5, <4>2
    <3>7. CASE state.phase = "Idle" /\ ~ \E id \in Packs : EnsureIdle(id)
      <4>1. Running = {} /\ process = None /\ \A d \in Leaving : ~Begun(d)
        BY <3>1, <3>7 DEF OneInv, Entitled, Owned, Orderly
      <4>2. ~Begun("shutdown")
        BY <3>1 DEF OneInv, Orderly, Begun
      <4>3. \A d \in Drains : ~Begun(d)
        BY <4>1, <4>2 DEF Drains, Leaving
      <4>4. state'.phase = "Idle"
        BY <1>4, <2>2, <3>7, <4>1, <4>3, StateSteps
      <4> QED BY <3>3, <3>5, <4>4
    <3>8. CASE state.empty <= 0
      <4>1. ~Elapse
        BY <3>2 DEF Elapse
      <4>2. state'.empty \in {state.empty, -1, 0}
        BY <1>4, <2>2, <4>1, StateSteps
      <4> QED BY <3>3, <3>5, <3>8, <4>2
    <3> QED BY <3>1, <3>6, <3>7, <3>8
  <2>7. ASSUME main' = "draining", main = "draining"
        PROVE  /\ state'.empty <= 0
               /\ \A a \in Attempts : att'[a].pc \notin Early
               /\ drain'["shutdown"].pc \in AfterStop => process' = None
    <3>1. /\ state.empty <= 0 /\ \A a \in Attempts : att[a].pc \notin Early
          /\ drain["shutdown"].pc \in AfterStop => process = None
      BY <2>7 DEF Closed
    <3>2. ~Elapse /\ ~ShutdownBegin /\ \A id \in Packs : ~EnsureIdle(id) /\ ~EnsureRetry(id)
      BY <2>7, <1>t DEF Elapse, ShutdownBegin, EnsureIdle, EnsureRetry, Login, Calm
    <3>3. state'.empty <= 0
      <4>1. state'.empty \in {state.empty, -1, 0}
        BY <1>4, <2>2, <3>2, StateSteps
      <4> QED BY <3>1, <4>1
    <3>4. \A a \in Attempts : att'[a].pc \notin Early
      BY <1>4, <2>2, <3>1, <3>2, AttemptSteps DEF Starts
    <3>5. process' \in {process, None}
      <4>1. \A a \in Attempts : ~Publish(a)
        BY <3>1 DEF Publish, Early
      <4> QED BY <1>4, <4>1, HostSteps
    <3>6. drain'["shutdown"].pc \in AfterStop => process' = None
      <4>1. CASE drain'["shutdown"] \in {drain["shutdown"], NoDrain}
        BY <1>r, <3>1, <3>5, <4>1 DEF AfterStop
      <4>2. CASE BeginsReady("shutdown")
        BY <4>2 DEF BeginsReady, AfterStop
      <4>3. CASE StopAndBackup("shutdown")
        <5>1. drain'["shutdown"].pc \in AfterStop => process = None \/ drain["shutdown"].pc \in AfterStop
          <6>1. \/ CommitHead("shutdown") \/ CommitArchive("shutdown") \/ CommitRecorded("shutdown")
                \/ Evict("shutdown") \/ Evicted("shutdown")
                \/ drain'["shutdown"].pc \in {"saveall", "expect", "stop", "unexpect", "waitstop", "error"}
                \/ process = None
            BY <4>3, <1>r, BackupMoves
          <6> QED BY <6>1
             DEF AfterStop, CommitHead, CommitArchive, CommitRecorded, Evict, Evicted
        <5> QED BY <3>1, <3>5, <5>1
      <4> QED BY <1>4, <1>r, <3>2, <4>1, <4>2, <4>3, DrainSteps
    <3> QED BY <3>3, <3>4, <3>6
  <2>8. ASSUME main' = "draining", main # "draining"
        PROVE  /\ state'.empty <= 0
               /\ \A a \in Attempts : att'[a].pc \notin Early
               /\ drain'["shutdown"].pc \in AfterStop => process' = None
    <3>1. ShutdownBegin
      BY <1>4, <2>8, HostSteps
    <3>2. /\ state.phase # "Idle" /\ process # None /\ UNCHANGED att
          /\ state' = [state EXCEPT !.phase = "Draining"]
          /\ drain' = [drain EXCEPT !["shutdown"].pc = "saving"]
      BY <3>1 DEF ShutdownBegin, Save
    <3>3. state'.empty = state.empty
      BY <3>2, <1>b, Counters
    <3>4. state.empty <= 0
      BY <1>4, <2>8, <3>2 DEF Closed
    <3>5. "idle" \notin Early
      BY DEF Early
    <3>6. \A a \in Attempts : att[a].pc \notin Early
      BY <3>2, <3>5 DEF OneInv, Entitled, Running
    <3>7. drain'["shutdown"].pc = "saving"
      BY <3>2, <1>r DEF IndInv, DrainOK, DrainType
    <3> QED BY <3>2, <3>3, <3>4, <3>6, <3>7 DEF AfterStop
  <2> QED BY <2>2, <2>3, <2>5, <2>6, <2>7, <2>8 DEF Closed
<1> QED BY <1>1, <1>2, <1>3, <1>4, HostSteps

\* The file at the end of the process is what the next boot reads.
LEMMA EndingState == ASSUME Ending PROVE state' = disk' /\ disk' \in {disk, IdleState}
BY DEF Ending, ShutdownNothing, Crash, Reboot, ShutdownDone, SizerPanic

\* A boot finds nothing at work and starts at most one pack.
LEMMA Booting ==
    ASSUME IndInv, OneInv, Primed, Boot
    PROVE  /\ \A d \in Drains : drain'[d].pc = "idle"
           /\ \A a \in Attempts : att'[a].pc \in {"idle", "resize"} /\ ~Live(a)'
           /\ state'.phase # "Ready" /\ state'.active = disk.active /\ state'.gen = disk.gen
           /\ disk' \in {disk, state'} /\ UNCHANGED world
<1>r. disk \in States /\ att \in [Attempts -> Attempt]
  BY DEF IndInv, PersistedOK, AttOK
<1>1. /\ \A d \in Drains : drain[d].pc = "idle"
      /\ \A a \in Attempts : att[a] = NoAttempt
      /\ UNCHANGED <<drain, world>>
  BY DEF Boot, Interrupted, OneInv, Quenched, NoDrain
<1>n. NoAttempt.pc = "idle" /\ NoAttempt.java = "none"
  BY DEF NoAttempt
<1>2. CASE disk.phase # "Idle" /\ disk.active # None
  <2>1. Save([disk EXCEPT !.phase = "Recovering"]) /\ GoStart(disk.active, TRUE)
    BY <1>2 DEF Boot, Interrupted
  <2>2. state' = [disk EXCEPT !.phase = "Recovering"] /\ disk' \in {disk, state'}
    BY <2>1 DEF Save
  <2>3. state'.phase = "Recovering" /\ state'.active = disk.active /\ state'.gen = disk.gen
    BY <2>2, <1>r, StateFields, Counters
  <2> DEFINE new == [NoAttempt EXCEPT !.pc = "resize", !.id = disk.active, !.recovery = TRUE]
  <2>4. PICK a \in FreeAttempts : att' = [att EXCEPT ![a] = new]
    BY <2>1 DEF GoStart
  <2>5. new.pc = "resize" /\ new.java = "none"
    BY DEF NoAttempt
  <2> HIDE DEF new
  <2>6. \A b \in Attempts : att'[b] = new \/ att'[b] = att[b]
    BY <2>4, <1>r
  <2>7. \A b \in Attempts : att'[b].pc \in {"idle", "resize"} /\ att'[b].java = "none"
    BY <1>1, <1>n, <2>5, <2>6
  <2> QED BY <1>1, <2>2, <2>3, <2>7 DEF Live, LiveJava
<1>3. CASE ~ (disk.phase # "Idle" /\ disk.active # None)
  <2>1. state' = disk /\ UNCHANGED <<disk, att>>
    BY <1>3 DEF Boot, Interrupted
  <2>2. disk.phase # "Ready"
    BY <1>3 DEF Primed
  <2> QED BY <1>1, <1>n, <2>1, <2>2 DEF Live, LiveJava
<1> QED BY <1>2, <1>3

\* While a drain is at work the active pack is the same, and Generation and the
\* store are left to it.
LEMMA Undisturbed ==
    ASSUME Tame, IndInv, OneInv, Closed, Primed, [Next]_vars, ~Ending,
           NEW d \in Drains, Begun(d), Begun(d)'
    PROVE  /\ state'.active = state.active
           /\ state'.gen = state.gen \/ CommitRecorded(d)
           /\ UNCHANGED <<head, hgen>> \/ CommitArchive(d)
           /\ UNCHANGED local \/ Evict(d) \/ Evicted(d)
<1>t. Calm
  BY TameFaults
<1>a. /\ \A a \in Attempts : att[a].pc \notin Early
      /\ \A e \in Drains : Begun(e) => e = d
      /\ d = "shutdown" <=> main = "draining"
      /\ main # "off"
  BY Alone
<1>r. drain \in [Drains -> DrainType] /\ NoDrain.pc = "idle" /\ "idle" \in Drains /\ "switch" \in Drains
  BY DEF IndInv, DrainOK, NoDrain, Drains
<1>1. \A id \in Packs : ~EnsureIdle(id)
  <2>1. CASE main = "draining"
    BY <2>1, <1>t DEF EnsureIdle, Login, Calm
  <2>2. CASE main # "draining"
    <3>1. d \in Leaving
      BY <2>2, <1>a DEF Drains, Leaving
    <3>2. state.phase # "Idle"
      BY <2>2, <3>1 DEF OneInv, Orderly
    <3> QED BY <3>2 DEF EnsureIdle, Vacant
  <2> QED BY <2>1, <2>2
<1>2. ~IdleStopped
  <2>1. ASSUME IdleStopped PROVE FALSE
    <3>1. drain["idle"].pc = "finish" /\ drain' = [drain EXCEPT !["idle"] = NoDrain]
      BY <2>1 DEF IdleStopped
    <3>2. d = "idle"
      BY <3>1, <1>a, <1>r DEF Begun
    <3>3. drain'[d].pc = "idle"
      BY <3>1, <3>2, <1>r
    <3> QED BY <3>3 DEF Begun
  <2> QED BY <2>1
<1>3. ~Switched
  <2>1. ASSUME Switched PROVE FALSE
    <3>1. drain["switch"].pc = "finish" /\ drain' = [drain EXCEPT !["switch"] = NoDrain]
      BY <2>1 DEF Switched
    <3>2. d = "switch"
      BY <3>1, <1>a, <1>r DEF Begun
    <3>3. drain'[d].pc = "idle"
      BY <3>1, <3>2, <1>r
    <3> QED BY <3>3 DEF Begun
  <2> QED BY <2>1
<1>4. ~Boot /\ \A a \in Attempts : ~Identify(a) /\ ~Restore(a) /\ ~Launch(a)
  BY <1>a DEF Boot, Interrupted, Identify, Restore, Launch, Early
<1>5. \A e \in Drains : /\ CommitRecorded(e) => e = d
                        /\ CommitArchive(e) => e = d
                        /\ Evict(e) => e = d
                        /\ Evicted(e) => e = d
  BY <1>a DEF CommitRecorded, CommitArchive, Evict, Evicted, Begun
<1>6. state'.active = state.active /\ (state'.gen = state.gen \/ CommitRecorded(d))
  BY <1>1, <1>2, <1>3, <1>4, <1>5, StateSteps
<1>7. \A a \in Attempts : LaunchFails(a) => UNCHANGED world
  BY <1>a DEF LaunchFails, Early, world
<1>8. UNCHANGED world \/ CommitArchive(d) \/ Evict(d) \/ Evicted(d)
  BY <1>4, <1>5, <1>7, WorldMoves
<1>9. (CommitArchive(d) => UNCHANGED local) /\ (Evict(d) \/ Evicted(d) => UNCHANGED <<head, hgen>>)
  BY DEF CommitArchive, Evict, Evicted
<1> QED BY <1>6, <1>8, <1>9 DEF world

\* The drains of tick() and switchTo() run into no error.
LEMMA LeavingPrimed ==
    ASSUME Tame, IndInv, OneInv, Closed, Primed, Numbered, Housed, [Next]_vars, ~Ending,
           NEW d \in Leaving
    PROVE  /\ drain'[d].pc \in {"saving", "saveall", "expect", "stop"} => Up' # {}
           /\ drain'[d].pc = "waitstop" => \A a \in Attempts : att'[a].java \notin {"loading", "up"}
           /\ drain'[d].pc \notin {"unexpect", "commitErr", "error"}
<1> DEFINE Fine == /\ drain'[d].pc \in {"saving", "saveall", "expect", "stop"} => Up' # {}
                   /\ drain'[d].pc = "waitstop" => \A a \in Attempts : att'[a].java \notin {"loading", "up"}
                   /\ drain'[d].pc \notin {"unexpect", "commitErr", "error"}
<1> SUFFICES Fine
  OBVIOUS
<1>r. /\ drain \in [Drains -> DrainType] /\ NoDrain.pc = "idle" /\ d \in Drains /\ d # "shutdown"
      /\ att \in [Attempts -> Attempt] /\ process \in Attempts \cup {None}
  BY DEF IndInv, DrainOK, AttOK, MemOK, NoDrain, Drains, Leaving
<1>b. ASSUME StopAndBackup(d)
      PROVE  \/ Saving(d) /\ drain'[d].pc = (IF process = None THEN "commit" ELSE "saveall")
             \/ SaveAll(d) /\ drain'[d].pc = (IF Up # {} THEN "expect" ELSE "error")
             \/ ExpectStop(d) /\ drain'[d].pc = "stop"
             \/ StopCommand(d) /\ Up = {} /\ drain'[d].pc = "unexpect" /\ UNCHANGED att
             \/ UnexpectStop(d) /\ drain'[d].pc = "error"
             \/ /\ StopCommand(d) /\ drain'[d].pc = "waitstop"
                /\ \E b \in Up : att' = [att EXCEPT ![b].java = "stopping"]
             \/ drain'[d].pc \in {"commit", "archive", "record", "evict", "evicting", "finish"}
             \/ /\ StopTimeout(d) /\ drain'[d].pc = "error"
                /\ process # None /\ att[process].java \in {"loading", "up"}
             \/ /\ CommitHead(d) /\ drain'[d].pc = "commitErr"
                /\ ~ (drain[d].id # None /\ hgen[drain[d].id] = state.gen)
             \/ /\ CommitArchive(d) /\ drain'[d].pc = "commitErr"
                /\ ~ (/\ local[drain[d].id] # "absent"
                      /\ hgen[drain[d].id] \in {drain[d].gen, drain[d].gen + 1})
             \/ CommitFailed(d) /\ drain'[d].pc = "error"
  BY <1>b, <1>r, BackupMoves
<1>o. ASSUME Begun(d), NEW a \in Attempts, Live(a) PROVE process = a
  BY <1>o, <1>r, Alone DEF OneInv, Owned, Early
<1>v. \A a \in Attempts : att[a].java \in {"loading", "up"} => Live(a)
  BY DEF Live, LiveJava
<1>1. CASE drain'[d] = drain[d]
  <2>1. CASE drain[d].pc \in {"saving", "saveall", "expect", "stop"}
    <3>1. Begun(d) /\ Up # {}
      BY <2>1 DEF Begun, Primed
    <3>2. ASSUME NEW e \in Drains, StopCommand(e) \/ StopTimeout(e) PROVE FALSE
      <4>1. e = d
        <5>1. Begun(e)
          BY <3>2 DEF StopCommand, StopTimeout, Begun
        <5> QED BY <3>1, <5>1, <1>r, Alone
      <4>2. StopCommand(d)
        BY <2>1, <3>2, <4>1 DEF StopTimeout
      <4>3. drain'[d].pc # "stop" /\ drain[d].pc = "stop"
        <5>1. drain'[d].pc \in {"waitstop", "unexpect"}
          BY <4>2, <1>r DEF StopCommand, AfterStopError, Step, DrainType
        <5> QED BY <4>2, <5>1 DEF StopCommand
      <4> QED BY <1>1, <4>3
    <3>3. Up' # {}
      BY <3>1, <3>2, UpStays
    <3> QED BY <1>1, <2>1, <3>3
  <2>2. CASE drain[d].pc = "waitstop"
    <3>1. \A a \in Attempts : att[a].pc # "launch"
      BY <2>2, <1>r, Alone DEF Begun, Early
    <3>2. \A a \in Attempts : ~Launch(a)
      BY <3>1 DEF Launch
    <3>3. \A a \in Attempts : att[a].java \notin {"loading", "up"}
      BY <2>2 DEF Primed
    <3>4. \A a \in Attempts : att'[a].java \notin {"loading", "up"}
      BY <3>2, <3>3, ServerSteps
    <3> QED BY <1>1, <2>2, <3>4
  <2> QED BY <1>1, <2>1, <2>2 DEF Primed
<1>2. CASE drain'[d] = NoDrain \/ drain'[d].pc = "begin"
  BY <1>2, <1>r
<1>3. CASE BeginsReady(d)
  <2>1. drain[d].pc = "begin" /\ drain'[d].pc = "saving" /\ state.phase = "Ready"
    BY <1>3 DEF BeginsReady
  <2>2. main \in {"serving", "closing"}
    <3>1. main # "off"
      BY <2>1, <1>r DEF OneInv, Quenched
    <3>2. main # "draining"
      BY <2>1 DEF Closed
    <3> QED BY <3>1, <3>2 DEF IndInv, MemOK
  <2>3. \A e \in Drains : ~Begun(e)
    BY <2>1, <2>2, NoDrainBegun
  <2>4. Up # {}
    BY <2>1, <2>2 DEF Primed
  <2>5. \A e \in Drains : ~StopCommand(e) /\ ~StopTimeout(e)
    BY <2>3 DEF StopCommand, StopTimeout, Begun
  <2>6. Up' # {}
    BY <2>4, <2>5, UpStays
  <2> QED BY <2>1, <2>6
<1>4. CASE StopAndBackup(d)
  <2>0. Begun(d)
    BY <1>4, <1>r, BackupSteps
  <2>1. CASE Saving(d) /\ drain'[d].pc = (IF process = None THEN "commit" ELSE "saveall")
    BY <2>1 DEF Saving, Primed, Up
  <2>2. CASE \/ SaveAll(d) /\ drain'[d].pc = (IF Up # {} THEN "expect" ELSE "error")
             \/ ExpectStop(d) /\ drain'[d].pc = "stop"
    BY <2>2 DEF SaveAll, ExpectStop, Primed, Up
  <2>3. ~ (StopCommand(d) /\ Up = {}) /\ ~UnexpectStop(d)
    BY DEF StopCommand, UnexpectStop, Primed
  <2>4. CASE /\ StopCommand(d) /\ drain'[d].pc = "waitstop"
             /\ \E b \in Up : att' = [att EXCEPT ![b].java = "stopping"]
    <3>1. PICK b \in Up : att' = [att EXCEPT ![b].java = "stopping"]
      BY <2>4
    <3>2. b \in Attempts /\ process = b
      BY <2>0, <1>o, <1>v DEF Up
    <3>3. \A a \in Attempts : att[a].java \in {"loading", "up"} => a = b
      BY <2>0, <1>o, <1>v, <3>2
    <3>4. att'[b].java = "stopping" /\ \A a \in Attempts : a # b => att'[a] = att[a]
      BY <3>1, <3>2, <1>r DEF Attempt, AttemptType
    <3> QED BY <2>4, <3>3, <3>4
  <2>5. CASE drain'[d].pc \in {"commit", "archive", "record", "evict", "evicting", "finish"}
    BY <2>5
  <2>6. ~ (StopTimeout(d) /\ process # None /\ att[process].java \in {"loading", "up"})
    BY <1>r DEF StopTimeout, Primed
  <2>7. ~ (CommitHead(d) /\ ~ (drain[d].id # None /\ hgen[drain[d].id] = state.gen))
    BY <2>0 DEF CommitHead, Numbered, Drains, Leaving
  <2>8. ~ (CommitArchive(d) /\ ~ (/\ local[drain[d].id] # "absent"
                                  /\ hgen[drain[d].id] \in {drain[d].gen, drain[d].gen + 1}))
    <3>1. ASSUME drain[d].pc = "archive"
          PROVE  /\ drain[d].id = state.active /\ drain[d].gen = state.gen
                 /\ state.gen = hgen[state.active] /\ local[state.active] # "absent"
      BY <2>0, <3>1, <1>r DEF Numbered, Housed
    <3> QED BY <3>1 DEF CommitArchive
  <2>9. ~CommitFailed(d)
    BY DEF CommitFailed, Primed
  <2> HIDE DEF Fine
  <2> QED BY <1>4, <1>b, <2>1, <2>2, <2>3, <2>4, <2>5, <2>6, <2>7, <2>8, <2>9
<1>5. TickStops /\ d = "idle" => drain'[d].pc = "begin"
  BY DEF TickStops
<1> HIDE DEF Fine
<1> QED BY <1>1, <1>2, <1>3, <1>4, <1>5, <1>r, DrainSteps

\* Every step keeps a server under the pack that is Ready.
LEMMA PrimedNext ==
    ASSUME Tame, IndInv, OneInv, Closed, Primed, Numbered, Housed, [Next]_vars
    PROVE  Primed'
<1>r. /\ state \in States /\ disk \in States /\ att \in [Attempts -> Attempt]
      /\ Leaving \subseteq Drains
  BY DEF IndInv, PersistedOK, AttOK, Leaving, Drains
<1>1. CASE Ending
  <2>1. main' = "off" /\ \A d \in Drains : drain'[d] = NoDrain
    BY <1>1, EndingHalts DEF Halt
  <2>2. state' = disk' /\ disk' \in {disk, IdleState}
    BY <1>1, EndingState
  <2>3. IdleState.phase = "Idle"
    BY DEF IdleState
  <2> QED BY <1>r, <2>1, <2>2, <2>3 DEF Primed, NoDrain
<1>2. CASE Boot
  <2>1. /\ \A d \in Drains : drain'[d].pc = "idle"
        /\ \A a \in Attempts : att'[a].pc \in {"idle", "resize"}
        /\ state'.phase # "Ready" /\ disk' \in {disk, state'}
    BY <1>2, Booting
  <2> QED BY <1>r, <2>1 DEF Primed
<1>3. CASE ~Ending /\ ~Boot
  <2>1. \A a \in Attempts : att[a].pc = "ready" => /\ a \in Running /\ state.active = att[a].id
                                                   /\ att[a].id # None
    <3>1. \A a \in Attempts : att[a].pc # "idle" => att[a].id \in Packs
      BY <1>r DEF Attempt
    <3> QED BY <3>1 DEF Running, OneInv, Entitled
  <2>2. state'.phase = "Ready" =>
           /\ state'.active = state.active
           /\ state.phase = "Ready" \/ \E a \in Attempts : PollReady(a)
    <3>1. ASSUME NEW id \in Packs, EnsureIdle(id) PROVE state'.phase # "Ready"
      BY <3>1, <1>r, StateFields DEF EnsureIdle, Save
    <3>2. IdleStopped \/ Switched => state'.phase # "Ready"
      BY <1>r, StateFields DEF IdleStopped, Switched, Save
    <3> QED BY <1>3, <3>1, <3>2, StateSteps
  <2>3. state'.phase = "Ready" => state'.active # None
    BY <2>1, <2>2 DEF Primed, PollReady
  <2>4. disk'.phase = "Ready" => disk'.active # None
    <3>1. Elapse => disk'.phase = disk.phase /\ disk'.active = disk.active
      BY <1>r, StateFields DEF Elapse
    <3> QED BY <1>3, <2>3, <3>1, StateSteps DEF Primed
  <2>5. ASSUME main' \in {"serving", "closing"},
               state'.phase = "Ready" \/ \E a \in Attempts : att'[a].pc = "ready"
        PROVE  Up' # {}
    <3>1. main \in {"serving", "closing"}
      BY <1>3, <2>5, HostSteps
    <3>2. Up # {} /\ (Running # {} \/ state.phase = "Ready")
      <4>1. CASE state.phase = "Ready" \/ \E a \in Attempts : att[a].pc = "ready"
        BY <3>1, <4>1, <2>1 DEF Primed
      <4>2. CASE \E a \in Attempts : PollReady(a)
        BY <4>1, <4>2 DEF PollReady
      <4>3. CASE \E a \in Attempts : att'[a].pc = "ready" /\ att[a].pc # "ready"
        <5>1. PICK a \in Attempts : att'[a].pc = "ready" /\ att[a].pc # "ready"
          BY <4>3
        <5>2. Proceeds(a)
          BY <1>3, <5>1, AttemptSteps DEF Unsure
        <5>3. PollAnswered(a)
          BY <5>1, <5>2 DEF Proceeds
        <5> QED BY <5>3 DEF PollAnswered, Running
      <4> QED BY <2>2, <2>5, <4>1, <4>2, <4>3
    <3>3. \A d \in Drains : ~Begun(d)
      BY <3>1, <3>2, NoDrainBegun
    <3>4. \A d \in Drains : ~StopCommand(d) /\ ~StopTimeout(d)
      BY <3>3 DEF StopCommand, StopTimeout, Begun
    <3> QED BY <1>3, <3>2, <3>4, UpStays
  <2>6. \A d \in Leaving :
           /\ drain'[d].pc \in {"saving", "saveall", "expect", "stop"} => Up' # {}
           /\ drain'[d].pc = "waitstop" => \A a \in Attempts : att'[a].java \notin {"loading", "up"}
           /\ drain'[d].pc \notin {"unexpect", "commitErr", "error"}
    BY <1>3, LeavingPrimed
  <2> QED BY <2>3, <2>4, <2>5, <2>6 DEF Primed
<1> QED BY <1>1, <1>2, <1>3

\* Only Commit numbers a backup, one above the last.
LEMMA HeadGrows ==
    ASSUME Tame, IndInv, [Next]_vars
    PROVE  /\ UNCHANGED hgen \/ \E d \in Drains : CommitArchive(d)
           /\ \A p \in Packs : hgen'[p] >= hgen[p]
<1>r. hgen \in [Packs -> Nat] /\ \A d \in Drains : drain[d].gen \in Nat
  BY DEF IndInv, WorldOK, DrainOK, DrainType
<1>1. UNCHANGED hgen \/ \E d \in Drains : CommitArchive(d)
  BY WorldMoves DEF world, Restore, Launch, LaunchFails, Evict, Evicted
<1>2. ASSUME NEW d \in Drains, CommitArchive(d) PROVE \A p \in Packs : hgen'[p] >= hgen[p]
  <2>1. StopAndBackup(d) /\ drain[d].pc = "archive"
    BY <1>2 DEF StopAndBackup, CommitArchive
  <2>2. \/ UNCHANGED hgen
        \/ /\ hgen[drain[d].id] \in {drain[d].gen, drain[d].gen + 1}
           /\ hgen' = [hgen EXCEPT ![drain[d].id] = drain[d].gen + 1]
    BY <1>2 DEF CommitArchive
  <2> QED BY <1>r, <2>2
<1> QED BY <1>r, <1>1, <1>2

\* Without a drain and beside a start() that does not get to record it,
\* Generation and the head stay.
LEMMA Settled ==
    ASSUME Tame, IndInv, OneInv, Primed, [Next]_vars, ~Ending, ~Boot,
           \A d \in Drains : ~Begun(d), state.phase # "Idle",
           \A a \in Attempts : att[a].pc # "identity"
    PROVE  state'.gen = state.gen /\ state'.active = state.active /\ UNCHANGED hgen
<1>1. \A id \in Packs : ~EnsureIdle(id)
  BY DEF EnsureIdle, Vacant
<1>2. ~IdleStopped /\ ~Switched
  BY DEF IdleStopped, Switched, Begun, Drains
<1>3. \A d \in Drains : ~CommitRecorded(d) /\ ~CommitArchive(d)
  BY DEF CommitRecorded, CommitArchive, Begun
<1>4. \A a \in Attempts : ~Identify(a)
  BY DEF Identify
<1> QED BY <1>1, <1>2, <1>3, <1>4, StateSteps, HeadGrows

\* The same from the point of view of a start() past that point, or of a pack
\* that is Ready.
LEMMA SettledBeside ==
    ASSUME Tame, IndInv, OneInv, Closed, Primed, [Next]_vars, ~Ending, ~Boot,
           \/ /\ main \in {"serving", "closing"}
              /\ state.phase = "Ready" \/ \E a \in Attempts : att[a].pc \in {"poll", "ready"}
           \/ \E a \in Attempts : att[a].pc \in {"launch", "publish"}
    PROVE  /\ state'.gen = state.gen /\ state'.active = state.active /\ UNCHANGED hgen
           /\ \A d \in Drains : ~Begun(d)
<1>1. ASSUME NEW a \in Attempts, att[a].pc \in {"launch", "publish", "poll", "ready"}
      PROVE  /\ Running # {} /\ state.phase # "Idle"
             /\ \A b \in Attempts : att[b].pc # "identity"
  <2>1. a \in Running /\ \A b \in Attempts : att[b].pc # "idle" => b = a
    BY <1>1 DEF Running, OneInv, Exclusive
  <2> QED BY <1>1, <2>1 DEF OneInv, Entitled
<1>2. CASE \E a \in Attempts : att[a].pc \in {"launch", "publish"}
  <2>1. \A d \in Drains : ~Begun(d)
    BY <1>2, Alone DEF Early
  <2> QED BY <1>1, <1>2, <2>1, Settled
<1>3. CASE /\ main \in {"serving", "closing"}
           /\ state.phase = "Ready" \/ \E a \in Attempts : att[a].pc \in {"poll", "ready"}
  <2>1. \A d \in Drains : ~Begun(d)
    BY <1>1, <1>3, NoDrainBegun
  <2>2. state.phase = "Ready" => \A b \in Attempts : att[b].pc # "identity"
    BY DEF OneInv, Entitled, Running
  <2> QED BY <1>1, <1>3, <2>1, <2>2, Settled
<1> QED BY <1>2, <1>3

\* Every step keeps Generation at or behind the head.
LEMMA GenerationBehind ==
    ASSUME Tame, IndInv, OneInv, Primed, Numbered, [Next]_vars, ~Ending, ~Boot
    PROVE  /\ state'.active # None => state'.gen <= hgen'[state'.active]
           /\ disk'.active # None => disk'.gen <= hgen'[disk'.active]
<1>r. /\ state \in States /\ disk \in States /\ hgen \in [Packs -> Nat]
      /\ \A p \in Packs : hgen'[p] >= hgen[p] /\ hgen'[p] \in Nat
      /\ state'.active \in Packs \cup {None} /\ disk.active \in Packs \cup {None}
      /\ state.active \in Packs \cup {None} /\ state.gen \in Nat /\ disk.gen \in Nat
      /\ \A a \in Attempts : att[a].pc # "idle" => att[a].id \in Packs /\ att[a].head \in Nat \cup {-1}
      /\ \A d \in Drains : drain[d].gen \in Nat
  <2>1. IndInv'
    BY NextInv
  <2>2. state' \in States /\ hgen' \in [Packs -> Nat]
    BY <2>1 DEF IndInv, PersistedOK, WorldOK
  <2>3. /\ \A a \in Attempts : att[a] \in Attempt
        /\ \A d \in Drains : drain[d] \in DrainType
    BY DEF IndInv, AttOK, DrainOK
  <2> QED BY <2>2, <2>3, HeadGrows
      DEF IndInv, PersistedOK, WorldOK, States, Attempt, AttemptType, DrainType
<1>1. state'.active # None => state'.gen <= hgen'[state'.active]
  <2>1. CASE (\E id \in Packs : EnsureIdle(id)) \/ IdleStopped \/ Switched
    <3>0. state' = IdleState \/ \E id : state' = LoadingState(id)
      BY <2>1 DEF EnsureIdle, IdleStopped, Switched, Save
    <3>1. state'.gen = 0
      BY <3>0, <1>r, Counters
    <3> QED BY <1>r, <3>1
  <2>2. CASE state'.active = state.active /\ state'.gen = state.gen
    BY <1>r, <2>2 DEF Numbered
  <2>3. CASE state'.active = state.active /\ \E a \in Attempts : Identify(a)
    <3>1. PICK a \in Attempts : Identify(a)
      BY <2>3
    <3>2. PICK b : state' = [state EXCEPT !.gen = IF att[a].head > 0 THEN att[a].head ELSE state.gen,
                                          !.pending = b]
      BY <3>1 DEF Identify, Save
    <3>3. state'.gen = IF att[a].head > 0 THEN att[a].head ELSE state.gen
      BY <3>2, <1>r, Counters
    <3>4. att[a].pc = "identity" /\ state.active = att[a].id
      BY <3>1 DEF Identify, OneInv, Entitled, Running
    <3>5. att[a].head = hgen[state.active]
      BY <3>4 DEF Numbered
    <3> QED BY <1>r, <2>3, <3>3, <3>4, <3>5 DEF Numbered
  <2>4. CASE state'.active = state.active /\ \E d \in Drains : CommitRecorded(d)
    <3>1. PICK d \in Drains : CommitRecorded(d)
      BY <2>4
    <3>2. state' = [state EXCEPT !.gen = drain[d].gen + 1, !.pending = FALSE] /\ drain[d].pc = "record"
      BY <3>1 DEF CommitRecorded, Save
    <3>3. state'.gen = drain[d].gen + 1
      BY <3>2, <1>r, Counters
    <3>4. drain[d].id = state.active /\ hgen[drain[d].id] = drain[d].gen + 1
      BY <3>2 DEF Numbered, Begun
    <3> QED BY <1>r, <2>4, <3>3, <3>4
  <2> QED BY <2>1, <2>2, <2>3, <2>4, StateSteps
<1>2. disk'.active # None => disk'.gen <= hgen'[disk'.active]
  <2>1. CASE disk' = disk
    BY <1>r, <2>1 DEF Numbered
  <2>2. CASE Elapse
    <3>1. disk'.active = disk.active /\ disk'.gen = disk.gen
      BY <2>2, <1>r, StateFields, Counters DEF Elapse
    <3> QED BY <1>r, <3>1 DEF Numbered
  <2> QED BY <1>1, <2>1, <2>2, StateSteps
<1> QED BY <1>1, <1>2

\* Every step keeps what a start() knows of the head.
LEMMA StartNumbered ==
    ASSUME Tame, IndInv, OneInv, Closed, Primed, Numbered, [Next]_vars, ~Ending, ~Boot,
           NEW a \in Attempts
    PROVE  /\ att'[a].pc \in {"restore", "identity"} => att'[a].head = hgen'[att'[a].id]
           /\ att'[a].pc \in {"launch", "publish"} => state'.gen = hgen'[att'[a].id]
           /\ main' \in {"serving", "closing"} /\ att'[a].pc \in {"poll", "ready"}
              => state'.gen = hgen'[att'[a].id]
<1> DEFINE Knows == /\ att'[a].pc \in {"restore", "identity"} => att'[a].head = hgen'[att'[a].id]
                    /\ att'[a].pc \in {"launch", "publish"} => state'.gen = hgen'[att'[a].id]
                    /\ main' \in {"serving", "closing"} /\ att'[a].pc \in {"poll", "ready"}
                       => state'.gen = hgen'[att'[a].id]
<1> SUFFICES Knows
  OBVIOUS
<1>t. \A k : Fault(k) => k \in {"queryErr", "launchErr", "saveErr"}
  BY TameFaults
<1>r. /\ att \in [Attempts -> Attempt] /\ hgen \in [Packs -> Nat] /\ state \in States
      /\ state.gen \in Nat
  BY DEF IndInv, AttOK, WorldOK, PersistedOK, States
<1>m. main' \in {"serving", "closing"} => main \in {"serving", "closing"}
  BY HostSteps
<1>u. ASSUME UNCHANGED <<state, hgen>>, att'[a].id = att[a].id,
             \/ att'[a].pc \in {"restore", "identity"} /\ att'[a].head = hgen[att[a].id]
             \/ att'[a].pc \in {"launch", "publish", "poll"} /\ att[a].pc \in {"launch", "publish"}
             \/ att'[a].pc = "ready" /\ att[a].pc = "poll"
      PROVE  Knows
  BY <1>u, <1>m DEF Numbered
<1>1. CASE att'[a].pc \in Unsure
  BY <1>1 DEF Unsure
<1>2. CASE att'[a].pc = att[a].pc /\ att'[a].id = att[a].id /\ att'[a].head = att[a].head
  <2>1. CASE att[a].pc \in {"restore", "identity"}
    <3>1. \A d \in Drains : ~CommitArchive(d)
      BY <2>1, Alone DEF CommitArchive, Begun, Early
    <3>2. UNCHANGED hgen
      BY <3>1, HeadGrows
    <3> QED BY <1>2, <2>1, <3>2 DEF Numbered
  <2>2. CASE att[a].pc \in {"launch", "publish"}
    <3>1. state'.gen = state.gen /\ UNCHANGED hgen
      BY <2>2, SettledBeside
    <3> QED BY <1>2, <2>2, <3>1 DEF Numbered
  <2>3. CASE att[a].pc \in {"poll", "ready"} /\ main' \in {"serving", "closing"}
    <3>1. state'.gen = state.gen /\ UNCHANGED hgen
      BY <2>3, <1>m, SettledBeside
    <3> QED BY <1>2, <1>m, <2>3, <3>1 DEF Numbered
  <2> QED BY <1>2, <2>1, <2>2, <2>3
<1>3. CASE att'[a].id = att[a].id /\ Proceeds(a)
  <2>1. CASE Prepare(a) /\ att'[a].pc \in {"restore", "identity"}
    <3>1. att' = [att EXCEPT ![a].head = hgen[att[a].id],
                             ![a].pc = AfterHead(att[a].id, hgen[att[a].id])]
      <4>1. PICK h \in -1 .. hgen[att[a].id] :
               /\ \/ h = hgen[att[a].id]
                  \/ Fault("headErr")
                  \/ Fault("openErr")
               /\ att' = [att EXCEPT ![a].head = h, ![a].pc = AfterHead(att[a].id, h)]
        BY <2>1 DEF Prepare
      <4>2. ~Fault("headErr") /\ ~Fault("openErr")
        BY <1>t
      <4> QED BY <4>1, <4>2
    <3>2. att'[a].head = hgen[att[a].id]
      BY <3>1, <1>r DEF Attempt, AttemptType
    <3>3. UNCHANGED <<state, hgen>>
      BY <2>1 DEF Prepare, world
    <3> QED BY <1>3, <1>u, <2>1, <3>2, <3>3
  <2>2. CASE Restore(a) /\ att'[a].pc = "identity" /\ att'[a].head = att[a].head
    <3>1. UNCHANGED <<state, hgen>> /\ att[a].pc = "restore"
      BY <2>2 DEF Restore
    <3>2. att[a].head = hgen[att[a].id]
      BY <3>1 DEF Numbered
    <3> QED BY <1>3, <1>u, <2>2, <3>1, <3>2
  <2>3. CASE Identify(a) /\ att'[a].pc = "launch"
    <3>1. PICK b : state' = [state EXCEPT !.gen = IF att[a].head > 0 THEN att[a].head ELSE state.gen,
                                          !.pending = b]
      BY <2>3 DEF Identify, Save
    <3>2. state'.gen = IF att[a].head > 0 THEN att[a].head ELSE state.gen
      BY <3>1, <1>r, Counters
    <3>3. att[a].pc = "identity" /\ UNCHANGED hgen
      BY <2>3 DEF Identify, world
    <3>4. state.active = att[a].id /\ att[a].id \in Packs
      BY <3>3, <1>r DEF OneInv, Entitled, Running, Attempt
    <3>5. att[a].head = hgen[att[a].id] /\ state.gen <= hgen[att[a].id] /\ hgen[att[a].id] \in Nat
      BY <1>r, <3>3, <3>4 DEF Numbered
    <3>6. state'.gen = hgen'[att'[a].id]
      BY <1>r, <1>3, <3>2, <3>3, <3>5
    <3> QED BY <2>3, <3>6
  <2>4. CASE Launch(a) /\ att'[a].pc = "publish"
    BY <1>3, <1>u, <2>4 DEF Launch, persisted
  <2>5. CASE Publish(a) /\ att'[a].pc = "poll"
    BY <1>3, <1>u, <2>5 DEF Publish, persisted, world
  <2>6. CASE PollAnswered(a) /\ att'[a].pc = "ready"
    BY <1>3, <1>u, <2>6 DEF PollAnswered, persisted, world
  <2> HIDE DEF Knows
  <2> QED BY <1>3, <2>1, <2>2, <2>3, <2>4, <2>5, <2>6 DEF Proceeds
<1> HIDE DEF Knows
<1> QED BY <1>1, <1>2, <1>3, AttemptSteps

\* Every step keeps what a drain knows of the head.
LEMMA DrainNumbered ==
    ASSUME Tame, IndInv, OneInv, Closed, Primed, Numbered, [Next]_vars, ~Ending, ~Boot,
           NEW d \in Drains, Begun(d)'
    PROVE  /\ drain'[d].pc # "saving" => drain'[d].id = state'.active
           /\ drain'[d].pc = "record" => hgen'[drain'[d].id] = drain'[d].gen + 1
           /\ d \in Leaving =>
                /\ state'.active # None
                /\ drain'[d].pc \notin {"record", "evict", "evicting", "finish"}
                   => state'.gen = hgen'[state'.active]
                /\ drain'[d].pc = "archive" => drain'[d].gen = state'.gen
<1>r. /\ drain \in [Drains -> DrainType] /\ NoDrain.pc = "idle" /\ hgen \in [Packs -> Nat]
      /\ \A e \in Drains : drain[e].pc = "archive" => drain[e].id \in Packs
  BY DEF IndInv, DrainOK, NoDrain, WorldOK, ForPack
<1>k. Begun(d) =>
         /\ drain[d].pc # "saving" => drain[d].id = state.active
         /\ drain[d].pc = "record" => hgen[drain[d].id] = drain[d].gen + 1
         /\ d \in Leaving =>
              /\ state.active # None
              /\ drain[d].pc \notin {"record", "evict", "evicting", "finish"}
                 => state.gen = hgen[state.active]
              /\ drain[d].pc = "archive" => drain[d].gen = state.gen
  BY DEF Numbered
<1>u. ASSUME Begun(d)
      PROVE  /\ state'.active = state.active
             /\ state'.gen = state.gen \/ CommitRecorded(d)
             /\ UNCHANGED <<head, hgen>> \/ CommitArchive(d)
  BY <1>u, Undisturbed
<1>c. CommitArchive(d) => drain'[d].pc \in {"record", "commitErr"} /\ drain[d].pc = "archive"
  BY <1>r DEF CommitArchive, Step, DrainType
<1>1. CASE drain'[d] = drain[d]
  <2>1. Begun(d)
    BY <1>1 DEF Begun
  <2>2. ~CommitArchive(d)
    BY <1>1, <1>c
  <2>3. CommitRecorded(d) => drain[d].pc = "record"
    BY DEF CommitRecorded
  <2> QED BY <1>1, <1>k, <1>u, <2>1, <2>2, <2>3
<1>2. CASE d = "shutdown" /\ drain'[d].pc = "saving"
  BY <1>2 DEF Leaving
<1>3. CASE BeginsReady(d)
  <2>1. drain[d].pc = "begin" /\ drain'[d].pc = "saving" /\ state.phase = "Ready"
    BY <1>3 DEF BeginsReady
  <2>2. ASSUME d \in Leaving PROVE main \in {"serving", "closing"}
    <3>1. main # "off"
      BY <2>1, <1>r DEF OneInv, Quenched
    <3>2. main # "draining"
      BY <2>1, <2>2 DEF Closed
    <3> QED BY <3>1, <3>2 DEF IndInv, MemOK
  <2>3. ASSUME d \in Leaving PROVE state'.active # None /\ state'.gen = hgen'[state'.active]
    <3>1. state'.gen = state.gen /\ state'.active = state.active /\ UNCHANGED hgen
      BY <2>1, <2>2, <2>3, SettledBeside
    <3> QED BY <2>1, <2>2, <2>3, <3>1 DEF Numbered, Primed
  <2> QED BY <2>1, <2>3
<1>4. CASE StopAndBackup(d)
  <2>1. /\ Begun(d)
        /\ drain'[d].id = IF drain[d].pc = "saving" THEN state.active ELSE drain[d].id
        /\ drain'[d].pc = "record" => CommitArchive(d)
    BY <1>4, BackupSteps
  <2>2. state'.active = state.active /\ drain'[d].id = state'.active
    BY <1>k, <1>u, <2>1
  <2>3. ASSUME drain'[d].pc = "record" PROVE hgen'[drain'[d].id] = drain'[d].gen + 1
    <3>1. CommitArchive(d) /\ drain[d].pc = "archive" /\ drain'[d].id = drain[d].id
      BY <2>1, <2>3, <1>c
    <3>2. /\ drain'[d].gen = drain[d].gen
          /\ hgen' = [hgen EXCEPT ![drain[d].id] = drain[d].gen + 1]
      BY <1>r, <2>3, <3>1 DEF CommitArchive, Step, DrainType
    <3> QED BY <1>r, <3>1, <3>2
  <2>4. ASSUME d \in Leaving, drain'[d].pc \notin {"record", "evict", "evicting", "finish"}
        PROVE  state'.gen = hgen'[state'.active]
    <3>1. drain[d].pc \notin {"record", "evict", "evicting", "finish"}
      <4>1. \A p : AfterBackup = p => p \in {"evict", "finish"}
        BY DEF AfterBackup
      <4>2. CommitRecorded(d) => drain'[d].pc \in {"evict", "finish"}
        BY <1>r, <4>1 DEF CommitRecorded, Step, DrainType
      <4>3. Evict(d) \/ Evicted(d) => drain'[d].pc \in {"evicting", "finish"}
        BY <1>r, TameFaults DEF Evict, Evicted, Step, DrainType
      <4> QED BY <1>4, <2>4, <4>2, <4>3
         DEF StopAndBackup, Saving, SaveAll, ExpectStop, StopCommand, UnexpectStop, WaitStopped,
             StopTimeout, CommitHead, CommitArchive, CommitFailed
    <3>2. state'.gen = state.gen
      BY <1>u, <2>1, <3>1 DEF CommitRecorded
    <3>3. UNCHANGED hgen
      <4>1. ASSUME CommitArchive(d) PROVE UNCHANGED hgen
        <5>1. drain'[d].pc = "commitErr"
          BY <1>c, <2>4, <4>1
        <5>2. ~CommitHead(d)
          BY <1>c, <4>1 DEF CommitHead
        <5> QED BY <1>4, <5>1, <5>2, BackupMoves
      <4> QED BY <1>u, <2>1, <4>1
    <3> QED BY <1>k, <2>1, <2>2, <2>4, <3>1, <3>2, <3>3
  <2>5. ASSUME d \in Leaving, drain'[d].pc = "archive" PROVE drain'[d].gen = state'.gen
    <3>1. CommitHead(d) /\ drain'[d].gen = state.gen
      BY <1>4, <2>5, BackupMoves
    <3>2. state'.gen = state.gen
      BY <1>u, <2>1, <3>1 DEF CommitRecorded, CommitHead
    <3> QED BY <3>1, <3>2
  <2> QED BY <1>k, <2>1, <2>2, <2>3, <2>4, <2>5
<1>5. drain'[d].pc \notin {"idle", "begin"}
  BY DEF Begun
<1> QED BY <1>1, <1>2, <1>3, <1>4, <1>5, <1>r, DrainSteps DEF TickStops

\* Every step keeps Generation in step with the store.
LEMMA NumberedNext ==
    ASSUME Tame, IndInv, OneInv, Closed, Primed, Numbered, [Next]_vars
    PROVE  Numbered'
<1>r. Leaving \subseteq Drains /\ NoAttempt.pc = "idle" /\ NoDrain.pc = "idle"
  BY DEF Leaving, Drains, NoAttempt, NoDrain
<1>1. CASE Ending
  <2>1. /\ main' = "off" /\ \A a \in Attempts : att'[a].pc = "idle"
        /\ UNCHANGED hgen /\ \A d \in Drains : ~Begun(d)'
    BY <1>1, <1>r, EndingHalts DEF Halt, Begun, world
  <2>2. state' = disk' /\ disk' \in {disk, IdleState}
    BY <1>1, EndingState
  <2>3. IdleState.active = None
    BY DEF IdleState
  <2>4. disk'.active # None => disk' = disk
    BY <2>2, <2>3
  <2>5. disk'.active # None => disk'.gen <= hgen'[disk'.active]
    BY <2>1, <2>4 DEF Numbered
  <2>6. state'.active # None => state'.gen <= hgen'[state'.active]
    BY <2>2, <2>5
  <2> QED BY <1>r, <2>1, <2>5, <2>6 DEF Numbered
<1>2. CASE Boot
  <2>1. /\ \A d \in Drains : drain'[d].pc = "idle"
        /\ \A a \in Attempts : att'[a].pc \in {"idle", "resize"}
        /\ state'.phase # "Ready" /\ state'.active = disk.active /\ state'.gen = disk.gen
        /\ disk' \in {disk, state'} /\ UNCHANGED world
    BY <1>2, Booting
  <2>2. \A d \in Drains : ~Begun(d)'
    BY <2>1 DEF Begun
  <2> QED BY <1>r, <2>1, <2>2 DEF Numbered, world
<1>3. CASE ~Ending /\ ~Boot
  <2>1. /\ state'.active # None => state'.gen <= hgen'[state'.active]
        /\ disk'.active # None => disk'.gen <= hgen'[disk'.active]
    BY <1>3, GenerationBehind
  <2>2. ASSUME main' \in {"serving", "closing"}, state'.phase = "Ready"
        PROVE  state'.gen = hgen'[state'.active]
    <3>1. main \in {"serving", "closing"}
      BY <1>3, <2>2, HostSteps
    <3>2. CASE state.phase = "Ready"
      <4>1. state'.gen = state.gen /\ state'.active = state.active /\ UNCHANGED hgen
        BY <1>3, <3>1, <3>2, SettledBeside
      <4> QED BY <3>1, <3>2, <4>1 DEF Numbered
    <3>3. CASE \E a \in Attempts : PollReady(a)
      <4>1. PICK a \in Attempts : att[a].pc = "ready"
        BY <3>3 DEF PollReady
      <4>2. state.active = att[a].id
        BY <4>1 DEF OneInv, Entitled, Running
      <4>3. state'.gen = state.gen /\ state'.active = state.active /\ UNCHANGED hgen
        BY <1>3, <3>1, <4>1, SettledBeside
      <4> QED BY <3>1, <4>1, <4>2, <4>3 DEF Numbered
    <3> QED BY <1>3, <2>2, <3>2, <3>3, StateSteps
  <2>3. \A a \in Attempts :
           /\ att'[a].pc \in {"restore", "identity"} => att'[a].head = hgen'[att'[a].id]
           /\ att'[a].pc \in {"launch", "publish"} => state'.gen = hgen'[att'[a].id]
           /\ main' \in {"serving", "closing"} /\ att'[a].pc \in {"poll", "ready"}
              => state'.gen = hgen'[att'[a].id]
    BY <1>3, StartNumbered
  <2>4. \A d \in Drains : Begun(d)' =>
           /\ drain'[d].pc # "saving" => drain'[d].id = state'.active
           /\ drain'[d].pc = "record" => hgen'[drain'[d].id] = drain'[d].gen + 1
           /\ d \in Leaving =>
                /\ state'.active # None
                /\ drain'[d].pc \notin {"record", "evict", "evicting", "finish"}
                   => state'.gen = hgen'[state'.active]
                /\ drain'[d].pc = "archive" => drain'[d].gen = state'.gen
    BY <1>3, DrainNumbered
  <2> QED BY <1>r, <2>1, <2>2, <2>3, <2>4 DEF Numbered
<1> QED BY <1>1, <1>2, <1>3

\* Only the end of an eviction takes a directory away.
LEMMA Removed ==
    ASSUME IndInv, [Next]_vars, NEW p \in Packs, local[p] # "absent", local'[p] = "absent"
    PROVE  \E d \in Drains : Evicted(d)
<1>r. local \in [Packs -> LocalCopy] /\ \A a \in Attempts : att[a].pc # "idle" => att[a].id \in Packs
  BY DEF IndInv, WorldOK, AttOK, Attempt
<1>1. ASSUME NEW id \in Packs, NEW c, local' = [local EXCEPT ![id] = c], c # "absent" \/ local[id] = "absent"
      PROVE  FALSE
  BY <1>1, <1>r
<1>2. ~UNCHANGED local
  OBVIOUS
<1>3. ASSUME NEW a \in Attempts, Restore(a) \/ Launch(a) \/ LaunchFails(a) PROVE FALSE
  <2>1. att[a].id \in Packs
    BY <1>3, <1>r DEF Restore, Launch, LaunchFails
  <2>2. PlayedLocal(att[a].id) # "absent"
    BY DEF PlayedLocal
  <2>3. PICK c : /\ local' = [local EXCEPT ![att[a].id] = c]
                 /\ c # "absent" \/ local[att[a].id] = "absent"
    BY <1>3, <1>2, <2>2 DEF Restore, Launch, LaunchFails
  <2> QED BY <1>1, <2>1, <2>3
<1>4. ASSUME NEW d \in Drains, CommitArchive(d) \/ Evict(d) PROVE FALSE
  <2>1. CASE CommitArchive(d)
    BY <2>1 DEF CommitArchive
  <2>2. CASE Evict(d)
    <3>1. local' = [local EXCEPT ![drain[d].id] = IF local[drain[d].id] = "absent" THEN "absent"
                                                  ELSE "partial"]
      BY <2>2 DEF Evict
    <3> QED BY <3>1, <1>r
  <2> QED BY <1>4, <2>1, <2>2
<1> QED BY <1>2, <1>3, <1>4, WorldMoves DEF world

\* Every step keeps the directory of the pack that is played.
LEMMA HousedNext ==
    ASSUME Tame, IndInv, OneInv, Closed, Primed, Numbered, Housed, [Next]_vars
    PROVE  Housed'
<1>r. /\ Leaving \subseteq Drains /\ NoAttempt.pc = "idle" /\ NoDrain.pc = "idle"
      /\ state \in States /\ local \in [Packs -> LocalCopy]
      /\ \A a \in Attempts : att[a].pc # "idle" => att[a].id \in Packs
      /\ drain \in [Drains -> DrainType]
  BY DEF Leaving, Drains, NoAttempt, NoDrain, IndInv, PersistedOK, WorldOK, AttOK, Attempt, DrainOK
<1>1. CASE Ending
  <2>1. main' = "off" /\ \A d \in Drains : ~Begun(d)'
    BY <1>1, <1>r, EndingHalts DEF Halt, Begun
  <2> QED BY <1>r, <2>1 DEF Housed
<1>2. CASE Boot
  <2>1. /\ \A d \in Drains : drain'[d].pc = "idle"
        /\ \A a \in Attempts : att'[a].pc \in {"idle", "resize"}
        /\ state'.phase # "Ready"
    BY <1>2, Booting
  <2>2. \A d \in Drains : ~Begun(d)'
    BY <2>1 DEF Begun
  <2> QED BY <1>r, <2>1, <2>2 DEF Housed
<1>3. CASE ~Ending /\ ~Boot
  <2>m. main' \in {"serving", "closing"} => main \in {"serving", "closing"}
    BY <1>3, HostSteps
  <2>e. ASSUME NEW p \in Packs, local[p] # "absent", \A d \in Drains : ~Begun(d)
        PROVE  local'[p] # "absent"
    BY <2>e, Removed DEF Evicted, Begun
  <2>s. ASSUME main \in {"serving", "closing"},
               state.phase = "Ready" \/ \E a \in Attempts : att[a].pc \in {"publish", "poll", "ready"}
        PROVE  state'.active = state.active /\ \A d \in Drains : ~Begun(d)
    BY <1>3, <2>s, SettledBeside
  <2>1. ASSUME main' \in {"serving", "closing"}, NEW a \in Attempts,
               att'[a].pc \in {"publish", "poll", "ready"}
        PROVE  local'[att'[a].id] # "absent"
    <3>1. CASE att'[a].id = att[a].id /\ att[a].pc \in {"publish", "poll", "ready"}
      <4>1. local[att[a].id] # "absent" /\ att[a].id \in Packs
        BY <1>r, <2>1, <2>m, <3>1 DEF Housed
      <4> QED BY <2>1, <2>e, <2>m, <2>s, <3>1, <4>1
    <3>2. CASE att'[a].id = att[a].id /\ Launch(a)
      <4>1. local' = [local EXCEPT ![att[a].id] = PlayedLocal(att[a].id)] /\ att[a].id \in Packs
        BY <1>r, <3>2 DEF Launch
      <4>2. PlayedLocal(att[a].id) # "absent"
        BY DEF PlayedLocal
      <4> QED BY <1>r, <3>2, <4>1, <4>2
    <3>3. Publish(a) \/ PollAnswered(a) => att[a].pc \in {"publish", "poll"}
      BY DEF Publish, PollAnswered
    <3> QED BY <1>3, <2>1, <3>1, <3>2, <3>3, AttemptSteps DEF Proceeds, Unsure
  <2>2. ASSUME main' \in {"serving", "closing"}, state'.phase = "Ready"
        PROVE  local'[state'.active] # "absent"
    <3>1. CASE state.phase = "Ready"
      <4>1. state.active \in Packs /\ local[state.active] # "absent"
        BY <1>r, <2>2, <2>m, <3>1 DEF Housed, Primed, States
      <4> QED BY <2>2, <2>e, <2>m, <2>s, <3>1, <4>1
    <3>2. CASE \E a \in Attempts : PollReady(a)
      <4>1. PICK a \in Attempts : att[a].pc = "ready"
        BY <3>2 DEF PollReady
      <4>2. state.active = att[a].id /\ att[a].id \in Packs
        BY <1>r, <4>1 DEF OneInv, Entitled, Running
      <4>3. local[att[a].id] # "absent"
        BY <2>2, <2>m, <4>1 DEF Housed
      <4> QED BY <2>2, <2>e, <2>m, <2>s, <4>1, <4>2, <4>3
    <3> QED BY <1>3, <2>2, <3>1, <3>2, StateSteps
  <2>3. ASSUME NEW d \in Leaving, Begun(d)', drain'[d].pc # "finish"
        PROVE  local'[state'.active] # "absent"
    <3>0. d \in Drains /\ d # "shutdown"
      BY <1>r DEF Leaving
    <3>1. CASE Begun(d) /\ drain[d].pc # "finish"
      <4>1. state'.active = state.active
        BY <1>3, <2>3, <3>0, <3>1, Undisturbed
      <4>2. local[state.active] # "absent" /\ state.active \in Packs
        BY <1>r, <3>1 DEF Housed, Numbered, States
      <4>3. ASSUME NEW e \in Drains, Evicted(e) PROVE FALSE
        <5>1. e = d
          BY <3>0, <3>1, <4>3, Alone DEF Evicted, Begun
        <5>2. drain'[d].pc = "finish"
          BY <1>r, <3>0, <4>3, <5>1, TameFaults DEF Evicted, Step, DrainType
        <5> QED BY <2>3, <5>2
      <4> QED BY <4>1, <4>2, <4>3, Removed
    <3>2. CASE BeginsReady(d)
      <4>1. drain[d].pc = "begin" /\ state.phase = "Ready"
        BY <3>2 DEF BeginsReady
      <4>2. main \in {"serving", "closing"}
        <5>1. main # "off"
          BY <1>r, <3>0, <4>1 DEF OneInv, Quenched
        <5>2. main # "draining"
          BY <4>1 DEF Closed
        <5> QED BY <5>1, <5>2 DEF IndInv, MemOK
      <4>3. state.active \in Packs /\ local[state.active] # "absent"
        BY <1>r, <4>1, <4>2 DEF Housed, Primed, States
      <4> QED BY <2>e, <2>s, <4>1, <4>2, <4>3
    <3>3. CASE StopAndBackup(d)
      <4>1. Begun(d)
        BY <3>0, <3>3, BackupSteps
      <4>2. drain[d].pc # "finish"
        BY <3>3 DEF StopAndBackup, Saving, SaveAll, ExpectStop, StopCommand, UnexpectStop, WaitStopped,
                    StopTimeout, CommitHead, CommitArchive, CommitFailed, CommitRecorded, Evict, Evicted
      <4> QED BY <3>1, <4>1, <4>2
    <3>4. CASE drain'[d] = drain[d]
      BY <2>3, <3>1, <3>4 DEF Begun
    <3>5. drain'[d].pc \notin {"idle", "begin"}
      BY <2>3 DEF Begun
    <3> QED BY <1>3, <1>r, <3>0, <3>2, <3>3, <3>4, <3>5, DrainSteps DEF TickStops
  <2> QED BY <2>1, <2>2, <2>3 DEF Housed
<1> QED BY <1>1, <1>2, <1>3

\* The ways in which worlds change: a start() finds or restores the current one,
\* a drain archives it at rest and removes it once it is the newest backup.
LEMMA TameWorld ==
    ASSUME Tame, IndInv, OneInv, Closed, Housed, Held, [Next]_vars
    PROVE  \/ UNCHANGED world
           \/ \E a \in Attempts :
                 /\ att[a].id \in Packs /\ UNCHANGED hgen
                 /\ local' = [local EXCEPT ![att[a].id] = "current"]
                 /\ head' \in {head, [head EXCEPT ![att[a].id] = "stale"]}
           \/ \E d \in Drains :
                 /\ drain[d].id \in Packs
                 /\ \/ /\ CommitArchive(d) /\ UNCHANGED local
                       /\ head' = [head EXCEPT ![drain[d].id] = "current"]
                    \/ /\ Evict(d) /\ UNCHANGED <<head, hgen>> /\ head[drain[d].id] = "current"
                       /\ local' = [local EXCEPT ![drain[d].id] = IF @ = "absent" THEN @ ELSE "partial"]
                       /\ drain'[d].pc = "evicting" /\ drain'[d].id = drain[d].id
                    \/ /\ Evicted(d) /\ UNCHANGED <<head, hgen>> /\ head[drain[d].id] = "current"
                       /\ local' = [local EXCEPT ![drain[d].id] = "absent"]
<1>t. \A k : Fault(k) => k \in {"queryErr", "launchErr", "saveErr"}
  BY TameFaults
<1>r. /\ local \in [Packs -> LocalCopy] /\ head \in [Packs -> HeadCopy] /\ hgen \in [Packs -> Nat]
      /\ \A a \in Attempts : att[a].pc # "idle" => att[a].id \in Packs
      /\ drain \in [Drains -> DrainType]
      /\ \A d \in Drains : drain[d].pc \in ForPack => drain[d].id \in Packs
  BY DEF IndInv, WorldOK, AttOK, Attempt, DrainOK
<1>p. ASSUME NEW d \in Drains, Begun(d), drain[d].pc # "evicting", NEW p \in Packs
      PROVE  local[p] # "partial"
  BY <1>p, Alone DEF Held, Begun
<1>1. ASSUME NEW a \in Attempts, Restore(a) \/ Launch(a) \/ LaunchFails(a)
      PROVE  \/ UNCHANGED world
             \/ /\ att[a].id \in Packs /\ UNCHANGED hgen
                /\ local' = [local EXCEPT ![att[a].id] = "current"]
                /\ head' \in {head, [head EXCEPT ![att[a].id] = "stale"]}
  <2>1. att[a].pc \in Early /\ att[a].id \in Packs /\ UNCHANGED hgen
    BY <1>1, <1>r DEF Restore, Launch, LaunchFails, Early
  <2>2. \A p \in Packs : local[p] # "partial"
    BY <2>1, Alone DEF Held, Begun
  <2>3. att[a].pc = "launch" => PlayedLocal(att[a].id) = "current"
    <3>1. local[att[a].id] \in LocalCopy
      BY <1>r, <2>1
    <3> QED BY <2>1, <2>2, <3>1 DEF PlayedLocal, Held, LocalCopy
  <2>4. CASE Restore(a)
    <3>1. hgen[att[a].id] > 0 /\ local[att[a].id] = "absent" => head[att[a].id] = "current"
      BY <2>1 DEF Held
    <3>2. "current" \in LocalCopy
      BY DEF LocalCopy
    <3>3. UNCHANGED head
      BY <2>4 DEF Restore
    <3>4. UNCHANGED local \/ local' = [local EXCEPT ![att[a].id] = "current"]
      <4>1. ~Fault("openErr")
        BY TameFaults
      <4> QED BY <2>4, <3>1, <3>2, <4>1 DEF Restore
    <3> QED BY <2>1, <3>3, <3>4 DEF world
  <2>5. CASE Launch(a)
    <3>1. local' = [local EXCEPT ![att[a].id] = "current"]
      BY <2>3, <2>5 DEF Launch
    <3>2. head' = [head EXCEPT ![att[a].id] = IF @ = "current" THEN "stale" ELSE @]
      BY <2>3, <2>5 DEF Launch
    <3>3. head' = head \/ head' = [head EXCEPT ![att[a].id] = "stale"]
      BY <1>r, <3>2
    <3> QED BY <2>1, <3>1, <3>3
  <2>6. CASE LaunchFails(a)
    <3>1. UNCHANGED local \/ local' = [local EXCEPT ![att[a].id] = "current"]
      BY <2>3, <2>6 DEF LaunchFails
    <3>2. UNCHANGED head
      BY <2>6 DEF LaunchFails
    <3> QED BY <2>1, <3>1, <3>2 DEF world
  <2> QED BY <1>1, <2>4, <2>5, <2>6
<1>2. ASSUME NEW d \in Drains, CommitArchive(d)
      PROVE  \/ UNCHANGED world
             \/ /\ drain[d].id \in Packs /\ UNCHANGED local
                /\ head' = [head EXCEPT ![drain[d].id] = "current"]
  <2>1. drain[d].pc = "archive" /\ UNCHANGED local
    BY <1>2 DEF CommitArchive
  <2>2. Begun(d) /\ drain[d].id \in Packs /\ drain[d].pc \in AfterStop
    BY <2>1, <1>r DEF Begun, ForPack, AfterStop
  <2>3. ~Served
    BY <2>2, Alone
  <2>4. local[drain[d].id] \in LocalCopy /\ local[drain[d].id] \notin {"partial", "stale"}
    BY <1>p, <1>r, <2>1, <2>2 DEF Held
  <2>5. local[drain[d].id] # "absent" => Archived(drain[d].id) = "current"
    BY <2>3, <2>4 DEF Archived, Served, LocalCopy
  <2>6. \/ UNCHANGED <<head, hgen>>
        \/ /\ local[drain[d].id] # "absent"
           /\ head' = [head EXCEPT ![drain[d].id] = Archived(drain[d].id)]
    BY <1>2 DEF CommitArchive
  <2>7. UNCHANGED <<head, hgen>> \/ head' = [head EXCEPT ![drain[d].id] = "current"]
    BY <2>5, <2>6
  <2> QED BY <2>1, <2>2, <2>7 DEF world
<1>3. ASSUME NEW d \in Drains, Evict(d)
      PROVE  /\ drain[d].id \in Packs /\ UNCHANGED <<head, hgen>> /\ head[drain[d].id] = "current"
             /\ local' = [local EXCEPT ![drain[d].id] = IF @ = "absent" THEN @ ELSE "partial"]
             /\ drain'[d].pc = "evicting" /\ drain'[d].id = drain[d].id
  <2>1. drain'[d].pc = "evicting" /\ drain'[d].id = drain[d].id
    BY <1>3, <1>r DEF Evict, Step, DrainType
  <2> QED BY <1>3, <1>r, <2>1 DEF Evict, Held, Committed, ForPack
<1>4. ASSUME NEW d \in Drains, Evicted(d)
      PROVE  /\ drain[d].id \in Packs /\ UNCHANGED <<head, hgen>> /\ head[drain[d].id] = "current"
             /\ local' = [local EXCEPT ![drain[d].id] = "absent"]
  BY <1>4, <1>r, <1>t DEF Evicted, Held, Committed, ForPack
<1>5. CASE \E a \in Attempts : Restore(a) \/ Launch(a) \/ LaunchFails(a)
  <2>1. PICK a \in Attempts : Restore(a) \/ Launch(a) \/ LaunchFails(a)
    BY <1>5
  <2> QED BY <1>1, <2>1, Zenon
<1>6. CASE \E d \in Drains : CommitArchive(d) \/ Evict(d) \/ Evicted(d)
  <2>1. PICK d \in Drains : CommitArchive(d) \/ Evict(d) \/ Evicted(d)
    BY <1>6
  <2> QED BY <1>2, <1>3, <1>4, <2>1, Zenon
<1> QED BY <1>5, <1>6, WorldMoves, Zenon

\* A drain that has committed works on the current backup.
LEMMA CommittedIsCurrent ==
    ASSUME Tame, IndInv, OneInv, Closed, Primed, Housed, Held, [Next]_vars,
           NEW d \in Drains, drain'[d].pc \in Committed
    PROVE  head'[drain'[d].id] = "current"
<1>r. /\ drain \in [Drains -> DrainType] /\ NoDrain.pc = "idle" /\ head \in [Packs -> HeadCopy]
      /\ \A e \in Drains : drain[e].pc \in ForPack => drain[e].id \in Packs
  BY DEF IndInv, DrainOK, NoDrain, WorldOK
<1>1. ~Ending
  BY <1>r, EndingHalts DEF Halt, Committed
<1>2. Begun(d)'
  BY DEF Begun, Committed
<1>3. ASSUME Begun(d), ~CommitArchive(d) PROVE UNCHANGED head
  BY <1>1, <1>2, <1>3, Undisturbed
<1>4. CASE drain'[d] = drain[d]
  <2>1. Begun(d) /\ ~CommitArchive(d) /\ drain[d].pc \in Committed
    BY <1>4, <1>2 DEF Begun, CommitArchive, Committed
  <2> QED BY <1>3, <1>4, <2>1 DEF Held
<1>5. CASE CommitArchive(d)
  <2>1. /\ drain[d].pc = "archive" /\ StopAndBackup(d)
    BY <1>5 DEF CommitArchive, StopAndBackup
  <2>2. drain'[d].id = drain[d].id /\ drain[d].id \in Packs /\ Begun(d) /\ drain[d].pc \in AfterStop
    BY <1>r, <2>1, BackupSteps DEF ForPack, AfterStop
  <2>3. head' = [head EXCEPT ![drain[d].id] = Archived(drain[d].id)] /\ local[drain[d].id] # "absent"
    <3>1. drain'[d].pc # "commitErr"
      BY DEF Committed
    <3>2. Step(d, "commitErr") => drain'[d].pc = "commitErr"
      BY <1>r DEF Step, DrainType
    <3> QED BY <1>5, <3>1, <3>2 DEF CommitArchive
  <2>4. ~Served
    BY <2>2, Alone
  <2>5. local[drain[d].id] \in LocalCopy /\ local[drain[d].id] \notin {"partial", "stale"}
    <3>1. local[drain[d].id] # "partial"
      BY <2>1, <2>2, Alone DEF Held, Begun
    <3> QED BY <2>2, <3>1 DEF Held, IndInv, WorldOK
  <2>6. Archived(drain[d].id) = "current"
    BY <2>3, <2>4, <2>5 DEF Archived, Served, LocalCopy
  <2> QED BY <1>r, <2>2, <2>3, <2>6
<1>6. CASE StopAndBackup(d) /\ ~CommitArchive(d)
  <2>1. /\ Begun(d) /\ drain'[d].pc # "record"
        /\ drain'[d].id = IF drain[d].pc = "saving" THEN state.active ELSE drain[d].id
    BY <1>6, BackupSteps
  <2>2. CommitRecorded(d) \/ Evict(d)
    BY <1>6, <2>1, BackupMoves DEF Committed
  <2>3. drain[d].pc \in Committed /\ drain'[d].id = drain[d].id
    BY <2>1, <2>2 DEF CommitRecorded, Evict, Committed
  <2> QED BY <1>3, <1>6, <2>1, <2>3 DEF Held
<1>7. drain'[d].pc \notin {"idle", "begin", "saving"}
  BY DEF Committed
<1> QED BY <1>1, <1>4, <1>5, <1>6, <1>7, <1>r, DrainSteps DEF TickStops, BeginsReady

\* Every step keeps the worlds where a start() finds them.
LEMMA HeldNext ==
    ASSUME Tame, IndInv, OneInv, Closed, Rebooting, Primed, Numbered, Housed, Held, [Next]_vars
    PROVE  Held'
<1>r. /\ local \in [Packs -> LocalCopy] /\ head \in [Packs -> HeadCopy] /\ hgen \in [Packs -> Nat]
      /\ \A a \in Attempts : att[a].pc # "idle" \/ att[a].java # "none" => att[a].id \in Packs
      /\ drain \in [Drains -> DrainType]
  BY DEF IndInv, WorldOK, AttOK, Attempt, DrainOK
<1>p. ASSUME NEW p \in Packs, local[p] = "partial"
      PROVE  \E d \in Drains : /\ drain[d].pc = "evicting" /\ drain[d].id = p /\ Begun(d)
                               /\ \A a \in Attempts : att[a].pc \notin Early
                               /\ \A e \in Drains : Begun(e) => e = d
  <2>1. PICK d \in Drains : drain[d].pc = "evicting" /\ drain[d].id = p
    BY <1>p DEF Held
  <2>2. Begun(d)
    BY <2>1 DEF Begun
  <2> QED BY <2>1, <2>2, Alone
<1>d. \A d \in Drains : /\ CommitArchive(d) => drain[d].pc = "archive" /\ Begun(d)
                        /\ Evict(d) => drain[d].pc = "evict" /\ Begun(d)
                        /\ Evicted(d) => drain[d].pc = "evicting" /\ Begun(d)
  BY DEF CommitArchive, Evict, Evicted, Begun
<1>1. ASSUME NEW p \in Packs
      PROVE  /\ local'[p] # "stale" /\ head'[p] # "torn"
             /\ local'[p] = "absent" /\ hgen'[p] > 0 => head'[p] = "current"
  <2>0. /\ local[p] # "stale" /\ head[p] # "torn"
        /\ local[p] = "absent" /\ hgen[p] > 0 => head[p] = "current"
    BY DEF Held
  <2>1. CASE UNCHANGED world
    BY <2>0, <2>1 DEF world
  <2>2. ASSUME NEW a \in Attempts, UNCHANGED hgen,
               local' = [local EXCEPT ![att[a].id] = "current"],
               head' \in {head, [head EXCEPT ![att[a].id] = "stale"]}
        PROVE  /\ local'[p] # "stale" /\ head'[p] # "torn"
               /\ local'[p] = "absent" /\ hgen'[p] > 0 => head'[p] = "current"
    BY <1>r, <2>0, <2>2
  <2>3. ASSUME NEW d \in Drains, UNCHANGED local, head' = [head EXCEPT ![drain[d].id] = "current"],
               CommitArchive(d)
        PROVE  /\ local'[p] # "stale" /\ head'[p] # "torn"
               /\ local'[p] = "absent" /\ hgen'[p] > 0 => head'[p] = "current"
    <3>1. p # drain[d].id => hgen'[p] = hgen[p]
      BY <1>r, <2>3 DEF CommitArchive
    <3> QED BY <1>r, <2>0, <2>3, <3>1
  <2>4. ASSUME NEW d \in Drains, UNCHANGED <<head, hgen>>, head[drain[d].id] = "current",
               \/ local' = [local EXCEPT ![drain[d].id] = IF @ = "absent" THEN @ ELSE "partial"]
               \/ local' = [local EXCEPT ![drain[d].id] = "absent"]
        PROVE  /\ local'[p] # "stale" /\ head'[p] # "torn"
               /\ local'[p] = "absent" /\ hgen'[p] > 0 => head'[p] = "current"
    BY <1>r, <2>0, <2>4
  <2> QED BY <2>1, <2>2, <2>3, <2>4, TameWorld
<1>2. ASSUME NEW p \in Packs, local'[p] = "partial"
      PROVE  \E d \in Drains : drain'[d].pc = "evicting" /\ drain'[d].id = p
  <2>1. CASE \E d \in Drains : Evict(d)
    <3>1. PICK d \in Drains : Evict(d)
      BY <2>1
    <3>2. /\ drain'[d].pc = "evicting" /\ drain'[d].id = drain[d].id
      BY <1>r, <3>1 DEF Evict, Step, DrainType
    <3>3. p = drain[d].id
      <4>1. p # drain[d].id => local'[p] = local[p]
        BY <1>r, <3>1 DEF Evict
      <4>2. local[p] # "partial"
        BY <1>d, <1>p, <3>1
      <4> QED BY <1>2, <4>1, <4>2
    <3> QED BY <3>2, <3>3
  <2>2. CASE \E d \in Drains : Evicted(d)
    <3>1. PICK d \in Drains : Evicted(d)
      BY <2>2
    <3>2. local' = [local EXCEPT ![drain[d].id] = "absent"]
      BY <3>1, TameFaults DEF Evicted
    <3>3. p # drain[d].id /\ local[p] = "partial"
      BY <1>2, <1>r, <3>2
    <3> QED BY <1>d, <1>p, <3>1, <3>3
  <2>3. CASE ~ (\E d \in Drains : Evict(d) \/ Evicted(d))
    <3>1. local[p] = "partial"
      <4>1. \/ UNCHANGED local
            \/ \E a \in Attempts : att[a].id \in Packs /\ local' = [local EXCEPT ![att[a].id] = "current"]
        BY <2>3, TameWorld DEF world
      <4> QED BY <1>2, <1>r, <4>1
    <3>2. PICK d \in Drains : drain[d].pc = "evicting" /\ drain[d].id = p
      BY <1>p, <3>1
    <3>3. ~Ending
      BY <3>2, NotInEviction DEF Committed
    <3>4. ~StopAndBackup(d)
      BY <2>3, <3>2 DEF StopAndBackup, Saving, SaveAll, ExpectStop, StopCommand, UnexpectStop,
                        WaitStopped, StopTimeout, CommitHead, CommitArchive, CommitFailed,
                        CommitRecorded
    <3>5. ~ (d = "shutdown" /\ ShutdownBegin)
      BY <3>2 DEF ShutdownBegin, OneInv, Orderly
    <3>6. ~ (d = "switch" /\ \E id \in Packs : EnsureSwitch(id)) /\ ~ (d = "idle" /\ TickStops)
      BY <3>2 DEF EnsureSwitch, TickStops
    <3>7. drain'[d] = drain[d]
      BY <3>2, <3>3, <3>4, <3>5, <3>6, DrainSteps DEF BeginsReady
    <3> QED BY <3>2, <3>7
  <2> QED BY <2>1, <2>2, <2>3
<1>3. \A d \in Drains : drain'[d].pc \in Committed => head'[drain'[d].id] = "current"
  BY CommittedIsCurrent
<1>4. ASSUME NEW a \in Attempts, att'[a].pc \in {"identity", "launch"}
      PROVE  local'[att'[a].id] # "absent" \/ hgen'[att'[a].id] = 0
  <2>1. ~Ending
    BY <1>4, EndingHalts DEF Halt, NoAttempt
  <2>2. CASE att'[a].id = att[a].id /\ att[a].pc \in {"identity", "launch"}
    <3>1. att[a].id \in Packs /\ att[a].pc \in Early
      BY <1>r, <2>2 DEF Early
    <3>2. \A d \in Drains : ~Begun(d)
      BY <3>1, Alone
    <3>3. UNCHANGED hgen
      BY <1>d, <3>2, HeadGrows
    <3>4. local[att[a].id] # "absent" => local'[att[a].id] # "absent"
      BY <1>d, <3>1, <3>2, Removed
    <3> QED BY <2>2, <3>3, <3>4 DEF Held
  <2>3. CASE att'[a].id = att[a].id /\ Prepare(a)
    <3>1. PICK h \in -1 .. hgen[att[a].id] :
             /\ \/ h = hgen[att[a].id]
                \/ Fault("headErr")
                \/ Fault("openErr")
             /\ att' = [att EXCEPT ![a].head = h, ![a].pc = AfterHead(att[a].id, h)]
      BY <2>3 DEF Prepare
    <3>2. ~Fault("headErr") /\ ~Fault("openErr")
      BY TameFaults
    <3>3. att'[a].pc = AfterHead(att[a].id, hgen[att[a].id]) /\ UNCHANGED world
      BY <2>3, <3>1, <3>2 DEF Prepare, IndInv, AttOK, Attempt, AttemptType
    <3>4. local[att[a].id] # "absent" \/ hgen[att[a].id] = 0
      BY <1>4, <3>3 DEF AfterHead
    <3> QED BY <2>3, <3>3, <3>4 DEF world
  <2>4. CASE att'[a].id = att[a].id /\ Restore(a) /\ att'[a].pc = "identity"
    <3>1. att[a].id \in Packs /\ hgen[att[a].id] > 0 /\ local[att[a].id] = "absent"
      <4>1. Goto(a, "fail") => att'[a].pc = "fail"
        BY DEF Goto, IndInv, AttOK, Attempt, AttemptType
      <4> QED BY <1>r, <2>4, <4>1 DEF Restore
    <3>2. local' = [local EXCEPT ![att[a].id] = "current"]
      <4>1. head[att[a].id] = "current" /\ "current" \in LocalCopy
        BY <3>1 DEF Held, LocalCopy
      <4>2. Goto(a, "fail") => att'[a].pc = "fail"
        BY DEF Goto, IndInv, AttOK, Attempt, AttemptType
      <4>3. ~Fault("openErr")
        BY TameFaults
      <4> QED BY <2>4, <4>1, <4>2, <4>3 DEF Restore
    <3> QED BY <1>r, <2>4, <3>1, <3>2
  <2>5. Identify(a) => att[a].pc = "identity"
    BY DEF Identify
  <2> QED BY <1>4, <2>1, <2>2, <2>3, <2>4, <2>5, AttemptSteps DEF Proceeds, Unsure
<1>5. ASSUME NEW a \in Attempts, Live(a)' PROVE local'[att'[a].id] = "current"
  <2>1. ~Ending
    BY <1>5, EndingHalts DEF Halt, NoAttempt, Live, LiveJava
  <2>2. CASE Launch(a)
    <3>1. att'[a].id = att[a].id /\ att[a].id \in Packs
      BY <1>r, <2>2 DEF Launch, IndInv, AttOK, Attempt, AttemptType
    <3>2. \A d \in Drains : ~Begun(d)
      BY <2>2, Alone DEF Launch, Early
    <3>3. local[att[a].id] \in {"absent", "current"} /\ (local[att[a].id] = "absent" => hgen[att[a].id] = 0)
      <4>1. local[att[a].id] \in LocalCopy /\ local[att[a].id] # "partial"
        BY <1>p, <1>r, <3>1, <3>2
      <4> QED BY <2>2, <3>1, <4>1 DEF Held, Launch, LocalCopy
    <3>4. local' = [local EXCEPT ![att[a].id] = "current"]
      BY <2>2, <3>3 DEF Launch, PlayedLocal
    <3> QED BY <1>r, <3>1, <3>4
  <2>3. CASE Live(a) /\ att'[a].id = att[a].id
    <3>1. local[att[a].id] = "current" /\ att[a].id \in Packs
      BY <1>r, <2>3 DEF Held, Live, LiveJava
    <3>2. \A d \in Drains : ~Evict(d) /\ ~Evicted(d)
      BY <1>d, <2>3, Alone DEF Served, AfterStop
    <3>3. \/ UNCHANGED local
          \/ \E b \in Attempts : att[b].id \in Packs /\ local' = [local EXCEPT ![att[b].id] = "current"]
      BY <3>2, TameWorld DEF world
    <3> QED BY <1>r, <2>3, <3>1, <3>3
  <2> QED BY <1>5, <2>1, <2>2, <2>3, ServerSteps
<1> QED BY <1>1, <1>2, <1>3, <1>4, <1>5 DEF Held

\* It holds on a new Machine.
LEMMA TameInit == Init => TameInv
<1> SUFFICES ASSUME Init PROVE TameInv
  OBVIOUS
<1>1. /\ state = IdleState /\ disk = IdleState /\ main = "off" /\ done = FALSE /\ updated = FALSE
      /\ \A a \in Attempts : att[a].pc = "idle" /\ att[a].java = "none"
      /\ \A d \in Drains : drain[d].pc = "idle"
      /\ tick.pc = "idle"
      /\ \A p \in Packs : local[p] = "absent" /\ head[p] = "none" /\ hgen[p] = 0
  BY DEF Init, NoAttempt, NoDrain, NoTick
<1>2. IdleState.phase = "Idle" /\ IdleState.active = None
  BY DEF IdleState
<1>3. Leaving \subseteq Drains
  BY DEF Leaving, Drains
<1>4. Pressing /\ Closed /\ Rebooting /\ Primed
  BY <1>1, <1>2, <1>3 DEF Pressing, Closed, Rebooting, Primed
<1>5. \A d \in Drains : ~Begun(d)
  BY <1>1 DEF Begun
<1>6. Numbered /\ Housed
  BY <1>1, <1>2, <1>3, <1>5 DEF Numbered, Housed
<1>7. Held
  BY <1>1 DEF Held, Committed, Live, LiveJava
<1> QED BY <1>4, <1>6, <1>7 DEF TameInv

\* TameInv is preserved by every step.
THEOREM TameInvariance == ASSUME Tame PROVE Spec => []TameInv
<1>0. Calm
  BY TameFaults
<1>1. Init => TameInv
  BY TameInit
<1>2. IndInv /\ OneInv /\ TameInv /\ [Next]_vars => TameInv'
  BY PressingNext, ClosedNext, RebootingNext, PrimedNext, NumberedNext, HousedNext, HeldNext
     DEF TameInv
<1> QED BY <1>0, <1>1, <1>2, Invariance, OneInvariance, PTL DEF Spec

\* Also when worlds are evicted after their backup, a server runs on the world
\* with all the play so far: stopAndBackup removes the directory only once that
\* world is the newest backup, and start restores it before it launches.
THEOREM EvictedComesBack == ASSUME Tame PROVE Spec => []PlaysLatestWorld
<1>1. TameInv => PlaysLatestWorld
  BY DEF TameInv, Held, PlaysLatestWorld
<1> QED BY <1>1, TameInvariance, PTL

\* Also when worlds are evicted after their backup, Commit archives a world at
\* rest: no server runs on it and no eviction has begun to remove it.
THEOREM EvictedWhole == ASSUME Tame PROVE Spec => []NoTornBackup
<1>1. TameInv => NoTornBackup
  BY DEF TameInv, Held, NoTornBackup
<1> QED BY <1>1, TameInvariance, PTL
=============================================================================
