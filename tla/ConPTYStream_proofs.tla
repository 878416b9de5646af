-------------------------- MODULE ConPTYStream_proofs --------------------------
(***************************************************************************)
(* What is proved of a PTYProcess of its own holds of the one inside       *)
(* ConPTY, for all values of the constants: there the process handle is    *)
(* closed under the watcher before the struct is dropped, set_size comes   *)
(* between the callers' other calls, and a consumer answers the watcher.   *)
(*                                                                         *)
(* Every step of ConPTY is a step of PTYProcess or one of the two actions  *)
(* that reach into it (InnerStep); these two leave alone all that the      *)
(* promises are about (SideFrame).                                         *)
(***************************************************************************)
EXTENDS ConPTY_proofs

USE DEF vars, readerVars, watchVars, ownerVars, userVars, chanVars, flagVars, kernelVars,
        hostVars, histVars, readerFrame, watcherFrame, dropFrame, userFrame, hostFrame,
        NoProc, conVars, allVars

Side == ConDropHandles \/ \E u \in Users : SetSize(u)

(* Closing the process handle and resizing change nothing but the closed    *)
(* handles and what the caller is told.                                     *)
LEMMA SideFrame ==
  ASSUME Side
  PROVE  /\ UNCHANGED <<readerVars, watchVars, dpc, process, panicked, upc, uacc, chanVars,
                        flagVars, kernelVars, hostVars, histVars>>
         /\ ret' = ret \/ ret' \in {"ok", "err"}
  <1>1. CASE ConDropHandles
    BY <1>1 DEF ConDropHandles
  <1>2. ASSUME NEW u \in Users, SetSize(u)
        PROVE  /\ UNCHANGED <<readerVars, watchVars, dpc, process, panicked, upc, uacc, chanVars,
                              flagVars, kernelVars, hostVars, histVars>>
               /\ ret' \in {"ok", "err"}
    BY <1>2 DEF SetSize
  <1> QED
    BY <1>1, <1>2 DEF Side

-----------------------------------------------------------------------------
(* The output: the invariants of PTYOutput_proofs and PTYStream_proofs.     *)
OutputInv ==
    /\ HostInv /\ DrainInv /\ EofInv /\ HandInv /\ VerdictInv
    /\ EndMarkIsLast /\ NoUnitLost

LEMMA OutputInit == ConInit => OutputInv
  <1> SUFFICES ASSUME ConInit PROVE OutputInv
    OBVIOUS
  <1>1. Init
    BY DEF ConInit
  <1>2. {i \in 1..Len(out) : out[i] = "data"} = {}
    BY <1>1 DEF Init
  <1>3. NoUnitLost
    BY <1>1, <1>2, FS_EmptySet DEF Init, NoUnitLost, InFlight, DataQueued
  <1>4. HostInv /\ DrainInv /\ HandInv /\ VerdictInv
    BY <1>1 DEF Init, HostInv, DrainInv, HandInv, VerdictInv, PastLoop
  <1>5. EofInv /\ EndMarkIsLast
    BY <1>1 DEF Init, EofInv, EofAbout, EndMarkIsLast
  <1> QED
    BY <1>3, <1>4, <1>5 DEF OutputInv

LEMMA OutputStep == CoreInv /\ OutputInv /\ [ConNext]_allVars => OutputInv'
  <1> SUFFICES ASSUME CoreInv, OutputInv, [ConNext]_allVars PROVE OutputInv'
    OBVIOUS
  <1> USE DEF CoreInv, OutputInv
  <1>1. CASE [Next]_vars
    BY <1>1, HostStep, DrainStep, EofStep, HandStep, VerdictStep, EndMarkStep, UnitsStep
       DEF TypeInv
  <1>2. CASE Side
    <2>1. HostInv' /\ HandInv'
      BY <1>2, SideFrame DEF HostInv, HandInv
    <2>2. DrainInv'
      BY <1>2, SideFrame DEF DrainInv, Drained, PastLoop
    <2>3. EofInv'
      BY <1>2, SideFrame DEF EofInv, EofAbout
    <2>4. VerdictInv'
      BY <1>2, SideFrame DEF VerdictInv, Drained
    <2>5. EndMarkIsLast'
      BY <1>2, SideFrame DEF EndMarkIsLast, PastLoop
    <2>6. NoUnitLost'
      <3>1. DataQueued' = DataQueued /\ InFlight' = InFlight
        BY <1>2, SideFrame DEF DataQueued, InFlight
      <3> QED
        BY <1>2, <3>1, SideFrame DEF NoUnitLost
    <2> QED
      BY <2>1, <2>2, <2>3, <2>4, <2>5, <2>6
  <1> QED
    BY <1>1, <1>2, InnerStep DEF Side

LEMMA OutputCorrect == ConSpec => [](CoreInv /\ OutputInv)
  <1>1. ConInv => CoreInv
    BY DEF ConInv
  <1> QED
    BY <1>1, ConInvCorrect, OutputInit, OutputStep, PTL DEF ConSpec

(* ConPTY's output is the stream that OutputStream promises: neither the    *)
(* cleanup thread nor a drop that closes the handle of a running child      *)
(* under the watcher makes it lose, double or reorder a unit, or go on      *)
(* after its end (conpty/pty_impl.rs, the field process).                   *)
THEOREM ConPTYStreamImplemented == ConSpec => ImplementsStream
  <1>1. ConInit => Stream!Init
    BY DEF ConInit, Init, Stream!Init, InFlight, PastLoop
  <1>2. CoreInv /\ OutputInv /\ [ConNext]_allVars => [Stream!Next]_(Stream!streamVars)
    <2> SUFFICES ASSUME CoreInv, OutputInv, [ConNext]_allVars
                 PROVE  [Stream!Next]_(Stream!streamVars)
      OBVIOUS
    <2>1. CASE [Next]_vars
      BY <2>1, StreamStep DEF CoreInv, OutputInv, StreamInv
    <2>2. CASE Side
      <3>1. UNCHANGED Stream!streamVars
        BY <2>2, SideFrame DEF Stream!streamVars, InFlight, PastLoop
      <3> QED
        BY <3>1
    <2> QED
      BY <2>1, <2>2, InnerStep DEF Side
  <1> QED
    BY <1>1, <1>2, OutputCorrect, PTL DEF ConSpec, ImplementsStream, Stream!Spec

(* No unit is lost or doubled on its way through ConPTY.                    *)
THEOREM ConPTYUnitsAreConserved == ConSpec => []NoUnitLost
  BY OutputCorrect, PTL DEF OutputInv

(* The far end that ConPTY::new keeps open stays open.                      *)
LEMMA FarEndStays == ASSUME [ConNext]_allVars PROVE farEnd' = farEnd
  <1>1. CASE [Next]_vars
    <2>1. CASE ReaderStep \/ WatcherStep \/ EnvStep \/ UNCHANGED vars
      BY <2>1, Zenon DEF ReaderStep, ReaderRecv, ReaderReady, AsyncForward, SyncPoll, SyncPeek,
         SyncAlive, ReadFile, ReadWakes, AsyncSend, SyncSend, ReaderAtomic, ReaderSetEvent,
         ReaderExit, WatcherStep, WatcherRecv, WatcherCall, WatcherChildExited,
         WatcherSignalled, WatcherTimeout, WatcherCancel, WatcherSignal, WatcherGoes,
         EnvStep, HostFlush, HostClose, AgentFreed, ChildWrite, ChildExit
    <2>2. CASE DropStep \/ Owned
      BY <2>2, Zenon DEF DropStep, DropNudge, DropReady, DropStop, DropCancel, DropWait,
         DropJoin, DropClose, DropJoinAlive, DropCloseEvent, DropGoes, Owned, DropBegin,
         SetProcess
    <2>3. ASSUME NEW u \in Users, UserReturns(u) \/ UserCalls(u) PROVE farEnd' = farEnd
      BY <2>3, Zenon DEF UserReturns, UserCalls, ReadReturn, EofAlive, EofQueue, EofAtomic,
         ReadStart, TryRead, EofPeek, CancelIo
    <2> QED
      BY <1>1, <2>1, <2>2, <2>3 DEF Next, Called, Internal
  <1>2. CASE Side
    BY <1>2, SideFrame
  <1> QED
    BY <1>1, <1>2, InnerStep DEF Side

LEMMA FarEndHeld == ConSpec => []farEnd
  <1>1. ConInit => farEnd
    BY ConPTYAssumption DEF ConInit, Init
  <1>2. farEnd /\ [ConNext]_allVars => farEnd'
    BY FarEndStays
  <1> QED
    BY <1>1, <1>2, PTL DEF ConSpec

(* Nothing but a CancelIoEx takes the reader of a ConPTY out of its loop    *)
(* once it serves a child: no pipe breaks there, since ConPTY::new keeps    *)
(* its client handles, and the loop's own test for a broken pipe            *)
(* (base.rs:571-587) never ends it.                                         *)
OnlyCancelEnds == PastLoop /\ rproc # NoProc => struck

THEOREM ConPTYReaderNeedsCancel == ConSpec => []OnlyCancelEnds
  <1>1. CoreInv /\ OutputInv /\ farEnd => OnlyCancelEnds
    BY ConPTYAssumption DEF OutputInv, DrainInv, Drained, OnlyCancelEnds
  <1> QED
    BY <1>1, OutputCorrect, FarEndHeld, PTL

(* For the same reason is_eof of a ConPTY (base.rs:799-834) never answers   *)
(* true, whatever has exited and been read.                                 *)
NeverEof == ret # "true"

THEOREM ConPTYIsEofNeverTrue == ConSpec => []NeverEof
  <1>1. OutputInv /\ farEnd => NeverEof
    BY DEF OutputInv, VerdictInv, Drained, NeverEof
  <1> QED
    BY <1>1, OutputCorrect, FarEndHeld, PTL

-----------------------------------------------------------------------------
(* The shutdown of the field process: its pipe is closed after its reader   *)
(* has ended, the exit event after both its threads have, although the      *)
(* process handle they use was closed by ConPTY's drop before.              *)
THEOREM ConPTYTeardownIsOrdered == ConSpec => []TeardownOrder
  <1>1. ConInv => TeardownOrder
    BY DEF ConInv, CoreInv, ShutdownInv, JoinInv, ClosedInv, TeardownOrder
  <1> QED
    BY <1>1, ConInvCorrect, PTL

(* A reader of a ConPTY that has reported its end queues nothing more, also *)
(* when set_size comes between.                                             *)
THEOREM ConPTYReportedEndIsFinal == ConSpec => NothingAfterExit
  <1>1. CoreInv /\ [ConNext]_allVars => [~atomic \/ exitEvent => Len(out') <= Len(out)]_vars
    <2> SUFFICES ASSUME CoreInv, [ConNext]_allVars, ~atomic \/ exitEvent
                 PROVE  Len(out') <= Len(out)
      OBVIOUS
    <2>1. CASE [Next]_vars
      BY <2>1, ReportedStep DEF CoreInv, TypeInv
    <2>2. CASE Side
      <3>1. out' = out /\ Len(out) \in Nat
        BY <2>2, SideFrame DEF CoreInv, TypeInv, TypeOK
      <3> QED
        BY <3>1
    <2> QED
      BY <2>1, <2>2, InnerStep DEF Side
  <1> QED
    BY <1>1, OutputCorrect, PTL DEF ConSpec, NothingAfterExit

(* The cleanup thread is told to close the pseudoconsole only after the     *)
(* reader has set its exit event.                                           *)
THEOREM ConPTYCleanupFollowsReader == ConSpec => []CleanupAfterReader
  <1>1. ConInv => CleanupAfterReader
    BY DEF ConInv, CoreInv, ShutdownInv, ReportInv, WatchInv, CleanupAfterReader
  <1> QED
    BY <1>1, ConInvCorrect, PTL

-----------------------------------------------------------------------------
(* Until drop has closed the process handle, the PTYProcess is one of its   *)
(* own: what holds before its drop holds.                                   *)
Early == cdpc \in {"live", "send"}
EarlyInv ==
    /\ cdpc \in {"live", "send", "handles", "lock"} => dpc = "live"
    /\ Early => LiveInv /\ SpareInv

(* Drop goes through its places in order.                                   *)
LEMMA PlaceStep ==
  ASSUME [ConNext]_allVars
  PROVE  \/ cdpc' = cdpc
         \/ cdpc = "live" /\ cdpc' = "send" /\ ConDropBegin
         \/ cdpc = "send" /\ cdpc' = "handles" /\ ConDropSend
         \/ cdpc = "handles" /\ cdpc' = "lock" /\ ConDropHandles
         \/ cdpc = "lock" /\ cdpc' = "fields"
         \/ cdpc = "fields" /\ cdpc' = "freed"
  <1>1. CASE ConDropBegin
    BY <1>1 DEF ConDropBegin
  <1>2. CASE ConDropSend
    BY <1>2, Zenon DEF ConDropSend
  <1>3. CASE ConDropHandles
    BY <1>3, Zenon DEF ConDropHandles
  <1>4. CASE ConDropClose
    BY <1>4, Zenon DEF ConDropClose
  <1>5. CASE ConDropEnd
    BY <1>5 DEF ConDropEnd
  <1>6. CASE \/ (\E p \in Procs : Spawn(p)) \/ (\E u \in Users : SetSize(u)) \/ Call
             \/ ProcessStep \/ CleanupStep \/ ConDropFields \/ UNCHANGED allVars
    <2>1. cdpc' = cdpc
      BY <1>6, Zenon DEF Spawn, SetSize, Call, ProcessStep, Inside, CleanupStep, CleanupInfo,
         CleanupRecv, CleanupClose, ConDropFields
    <2> QED
      BY <2>1
  <1> QED
    BY <1>1, <1>2, <1>3, <1>4, <1>5, <1>6, Zenon DEF ConNext, ConDropStep

(* The embedded struct is dropped only as a field.                          *)
LEMMA DpcStep ==
  ASSUME [ConNext]_allVars, dpc = "live"
  PROVE  dpc' = "live" \/ cdpc = "fields"
  <1>1. CASE ConDropFields
    BY <1>1 DEF ConDropFields
  <1>2. CASE ProcessStep
    <2>1. Internal
      BY <1>2 DEF ProcessStep, Inside
    <2>2. ~DropStep
      BY DEF DropStep, DropNudge, DropReady, DropStop, DropCancel, DropWait, DropJoin,
         DropClose, DropJoinAlive, DropCloseEvent, DropGoes
    <2>3. CASE ReaderStep
      BY <2>3, Zenon DEF ReaderStep, ReaderRecv, ReaderReady, AsyncForward, SyncPoll, SyncPeek,
         SyncAlive, ReadFile, ReadWakes, AsyncSend, SyncSend, ReaderAtomic, ReaderSetEvent,
         ReaderExit
    <2>4. CASE WatcherStep
      BY <2>4, Zenon DEF WatcherStep, WatcherRecv, WatcherCall, WatcherChildExited,
         WatcherSignalled, WatcherTimeout, WatcherCancel, WatcherSignal, WatcherGoes
    <2>5. CASE EnvStep
      BY <2>5, Zenon DEF EnvStep, HostFlush, HostClose, AgentFreed, ChildWrite, ChildExit
    <2>6. CASE \E u \in Users : UserReturns(u)
      BY <2>6, Zenon DEF UserReturns, ReadReturn, EofAlive, EofQueue, EofAtomic
    <2> QED
      BY <2>1, <2>2, <2>3, <2>4, <2>5, <2>6, Zenon DEF Internal
  <1>3. CASE Call \/ \E p \in Procs : Spawn(p)
    BY <1>3, Zenon DEF Call, Called, UserCalls, ReadStart, TryRead, EofPeek, CancelIo,
       Spawn, SetProcess
  <1>4. CASE Side
    BY <1>4, SideFrame
  <1>5. CASE \/ CleanupStep \/ ConDropBegin \/ ConDropSend \/ ConDropClose \/ ConDropEnd
             \/ UNCHANGED allVars
    BY <1>5, Zenon DEF CleanupStep, CleanupInfo, CleanupRecv, CleanupClose, ConDropBegin,
       ConDropSend, ConDropClose, ConDropEnd
  <1> QED
    BY <1>1, <1>2, <1>3, <1>4, <1>5, Zenon DEF ConNext, ConDropStep, Side

LEMMA EarlyStep ==
  CoreInv /\ OutputInv /\ EarlyInv /\ [ConNext]_allVars => EarlyInv'
  <1> SUFFICES ASSUME CoreInv, OutputInv, EarlyInv, [ConNext]_allVars PROVE EarlyInv'
    OBVIOUS
  <1>1. cdpc' \in {"live", "send", "handles", "lock"} => dpc' = "live"
    BY PlaceStep, DpcStep DEF EarlyInv
  <1>2. ASSUME Early' PROVE LiveInv' /\ SpareInv'
    <2>1. Early /\ ~ConDropHandles
      <3>1. ~ConDropHandles
        BY <1>2 DEF Early, ConDropHandles
      <3> QED
        BY <1>2, <3>1, PlaceStep DEF Early
    <2>2. LiveInv /\ SpareInv
      BY <2>1 DEF EarlyInv
    <2>3. CASE [Next]_vars
      BY <2>2, <2>3, LiveStep, SpareStep DEF CoreInv, OutputInv, AllInv
    <2>4. ASSUME NEW u \in Users, SetSize(u) PROVE LiveInv' /\ SpareInv'
      BY <2>2, <2>4 DEF SetSize, LiveInv, SpareInv, Spared, PastLoop
    <2> QED
      BY <2>1, <2>3, <2>4, InnerStep
  <1> QED
    BY <1>1, <1>2 DEF EarlyInv

LEMMA EarlyCorrect == ConSpec => [](CoreInv /\ OutputInv /\ EarlyInv)
  <1>1. ConInit => EarlyInv
    BY DEF ConInit, Init, EarlyInv, Early, LiveInv, SpareInv, PastLoop
  <1> QED
    BY <1>1, OutputCorrect, EarlyStep, PTL DEF ConSpec

(* The reader of a ConPTY serves its child to the end until drop closes the *)
(* process handle (conpty/pty_impl.rs, drop), the watcher's timed cancel    *)
(* (base.rs, alive_thread) included.                                        *)
THEOREM ConPTYReaderOutlives == ConSpec => []ConReaderOutlivesChild
  <1>1. EarlyInv => ConReaderOutlivesChild
    BY DEF EarlyInv, Early, SpareInv, Spared, ConReaderOutlivesChild
  <1> QED
    BY <1>1, EarlyCorrect, PTL

(* The pseudoconsole is closed before the field process is dropped, whose   *)
(* drop waits for the child through its watcher; and it does not outlive    *)
(* the struct, unless a panic in spawn poisoned its mutex.                  *)
THEOREM ConsoleIsClosed == ConSpec => []NoConsoleLeak
  <1>1. ConInv /\ EarlyInv => NoConsoleLeak
    BY DEF ConInv, OwnTypes, DropPCs, FlagInv, EarlyInv, NoConsoleLeak
  <1> QED
    BY <1>1, ConInvCorrect, EarlyCorrect, PTL

-----------------------------------------------------------------------------
(* The threads of the field process, its drop and the cleanup thread do not *)
(* wait on one another either.                                              *)
LEMMA ConHeardStep == CoreInv /\ HeardInv /\ [ConNext]_allVars => HeardInv'
  <1> SUFFICES ASSUME CoreInv, HeardInv, [ConNext]_allVars PROVE HeardInv'
    OBVIOUS
  <1>1. CASE [Next]_vars
    BY <1>1, HeardStep DEF CoreInv, TypeInv
  <1>2. CASE Side
    BY <1>2, SideFrame DEF HeardInv, NobodyWaitsInVain, PastLoop
  <1> QED
    BY <1>1, <1>2, InnerStep DEF Side

THEOREM ConPTYNobodyWaits == ConSpec => []NobodyWaitsInVain
  <1>1. ConInit => HeardInv
    BY DEF ConInit, Init, HeardInv, NobodyWaitsInVain
  <1>2. HeardInv => NobodyWaitsInVain
    BY DEF HeardInv
  <1> QED
    BY <1>1, <1>2, ConHeardStep, OutputCorrect, PTL DEF ConSpec
=============================================================================
