----------------------------- MODULE ConPTY_proofs -----------------------------
(***************************************************************************)
(* Proofs about ConPTY for all values of its constants: the pseudoconsole  *)
(* is closed once, by whoever comes first, not before the served child has *)
(* gone unless the struct is dropped.                                      *)
(*                                                                         *)
(* The invariants of the embedded PTYProcess are used again: but for two   *)
(* actions every step of ConPTY is one of its steps or leaves it alone.    *)
(***************************************************************************)
EXTENDS ConPTY, PTYStream_proofs

USE DEF vars, readerVars, watchVars, ownerVars, userVars, chanVars, flagVars, kernelVars,
        hostVars, histVars, readerFrame, watcherFrame, dropFrame, userFrame, hostFrame,
        NoProc, conVars, allVars

(* What ConPTY needs of the PTYProcess inside it.                           *)
CoreInv == TypeInv /\ ShutdownInv /\ ServeInv /\ WaitsInv

(* The cleanup thread and the owner's place keep their types.               *)
OwnTypes ==
    /\ cdpc \in DropPCs /\ tpc \in CleanupPCs
    /\ flag \in BOOLEAN /\ poisoned \in BOOLEAN
    /\ infoSent \in BOOLEAN /\ cleanupQ \in Seq(BOOLEAN)
    /\ closes \in Nat /\ frees \in Nat

(* The flag tells whether the pseudoconsole was closed; a drop that is past *)
(* its critical section has seen to it; it closes the process handle only   *)
(* after it has spoken to the cleanup thread.                               *)
FlagInv ==
    /\ closes = (IF flag THEN 0 ELSE 1)
    /\ cdpc \in {"fields", "freed"} => ~flag \/ poisoned
    /\ "process" \in closed => cdpc \in {"lock", "fields", "freed"}

(* The watcher follows the reader's child.  It may take a closed handle for *)
(* an exited child, but only after drop has queued its false, which the     *)
(* cleanup thread then finds first.                                         *)
HearInv ==
    /\ watchQ # NoProc => watchQ = rproc
    /\ wpc \in {"waitExit", "cancel", "signal"} => Gone \/ cdpc \notin {"live", "send"}
    /\ cdpc \notin {"live", "send"} /\ tpc \in {"info", "clean"} => cleanupQ # <<>>
    /\ tpc \in {"info", "clean"} /\ cleanupQ # <<>> /\ Head(cleanupQ) => Gone /\ exitEvent
    /\ tpc = "close" => Gone /\ exitEvent
    /\ ~flag /\ cdpc \notin {"fields", "freed"} => Gone

ConInv == CoreInv /\ OwnTypes /\ FlagInv /\ HearInv

(* Sequences of any set, of which the cleanup channel's booleans are one.   *)
LEMMA SeqTypes ==
  ASSUME NEW S
  PROVE  /\ <<>> \in Seq(S)
         /\ \A q \in Seq(S), x \in S : Append(q, x) \in Seq(S)
         /\ \A q \in Seq(S) : q # <<>> => Tail(q) \in Seq(S) /\ Head(q) \in S
  OBVIOUS

(* ConPTY::new begins with an open pseudoconsole and no thread started.     *)
LEMMA InitCon == ConInit => ConInv
  <1> SUFFICES ASSUME ConInit PROVE ConInv
    OBVIOUS
  <1>1. Init => CoreInv
    BY InitTypeInv, InitShutdown DEF Init, CoreInv, ServeInv, WaitsInv
  <1>2. OwnTypes
    <2>1. cleanupQ \in Seq(BOOLEAN)
      BY SeqTypes, Zenon DEF ConInit
    <2>2. flag \in BOOLEAN /\ poisoned \in BOOLEAN /\ infoSent \in BOOLEAN
      BY Zenon DEF ConInit
    <2> QED
      BY <2>1, <2>2 DEF ConInit, OwnTypes, DropPCs, CleanupPCs
  <1> QED
    BY <1>1, <1>2 DEF ConInit, Init, ConInv, FlagInv, HearInv

(* A step of the embedded PTYProcess, or one of the two actions that reach  *)
(* into it.                                                                 *)
LEMMA InnerStep ==
  ASSUME [ConNext]_allVars
  PROVE  [Next]_vars \/ ConDropHandles \/ \E u \in Users : SetSize(u)
  BY DEF ConNext, Spawn, Call, ProcessStep, Inside, CleanupStep, CleanupInfo, CleanupRecv,
     CleanupClose, ConDropBegin, ConDropStep, ConDropSend, ConDropClose, ConDropFields,
     ConDropEnd, Next, Owned

(* Closing the process handle and resizing keep what PTYProcess keeps.      *)
LEMMA CoreStep == CoreInv /\ [ConNext]_allVars => CoreInv'
  <1> SUFFICES ASSUME CoreInv, [ConNext]_allVars PROVE CoreInv'
    OBVIOUS
  <1> USE DEF CoreInv
  <1>1. CASE [Next]_vars
    <2>1. TypeInv'
      <3>1. CASE UNCHANGED vars
        BY <3>1 DEF TypeInv, TypeOK
      <3> QED
        BY <1>1, <3>1, ReaderTypeInv, WatcherTypeInv, DropTypeInv, EnvTypeInv, UserTypeInv,
           OwnedTypeInv DEF Next, Internal, Called
    <2>2. ShutdownInv'
      BY <1>1, ReaderShutdown, WatcherShutdown, DropShutdown, OthersShutdown
         DEF Next, Internal, Called, TypeInv
    <2> QED
      BY <1>1, <2>1, <2>2, ServeStep, WaitsStep
  <1>2. CASE ConDropHandles
    <2>1. closed' \subseteq Handles /\ closed' \subseteq closed \cup {"process"}
      BY <1>2 DEF ConDropHandles, TypeInv, TypeOK, Handles
    <2>2. TypeInv'
      BY <1>2, <2>1 DEF ConDropHandles, TypeInv, TypeOK
    <2> QED
      BY <1>2, <2>1, <2>2 DEF ConDropHandles, ShutdownInv, ReportInv, JoinInv, ClosedInv,
         WatchInv, ServeInv, WaitsInv
  <1>3. ASSUME NEW u \in Users, SetSize(u) PROVE CoreInv'
    <2>1. ret' \in {"ok", "err"}
      BY <1>3 DEF SetSize
    <2>2. TypeInv'
      BY <1>3, <2>1 DEF SetSize, TypeInv, TypeOK, Items
    <2> QED
      BY <1>3, <2>2 DEF SetSize, ShutdownInv, ReportInv, JoinInv, ClosedInv, WatchInv,
         ServeInv, WaitsInv
  <1> QED
    BY <1>1, <1>2, <1>3, InnerStep

(* The cleanup thread's and the owner's variables keep their types.         *)
LEMMA OwnTypesStep == OwnTypes /\ [ConNext]_allVars => OwnTypes'
  <1> SUFFICES ASSUME OwnTypes, [ConNext]_allVars PROVE OwnTypes'
    OBVIOUS
  <1>1. flag' \in BOOLEAN /\ poisoned' \in BOOLEAN /\ infoSent' \in BOOLEAN
    BY Zenon DEF OwnTypes, ConNext, Spawn, Call, SetSize, ProcessStep, Inside, CleanupStep,
       CleanupInfo, CleanupRecv, CleanupClose, ConDropBegin, ConDropStep, ConDropSend,
       ConDropHandles, ConDropClose, ConDropFields, ConDropEnd
  <1>2. cleanupQ' \in Seq(BOOLEAN)
    <2>1. \/ cleanupQ' = cleanupQ
          \/ cleanupQ' = Append(cleanupQ, TRUE) \/ cleanupQ' = Append(cleanupQ, FALSE)
          \/ cleanupQ # <<>> /\ cleanupQ' = Tail(cleanupQ)
      BY Zenon DEF ConNext, Spawn, Call, SetSize, ProcessStep, Inside, CleanupStep,
         CleanupInfo, CleanupRecv, CleanupClose, ConDropBegin, ConDropStep, ConDropSend,
         ConDropHandles, ConDropClose, ConDropFields, ConDropEnd
    <2> QED
      BY <2>1, SeqTypes, Zenon DEF OwnTypes
  <1>3. cdpc' \in DropPCs
    <2>1. cdpc' = cdpc \/ cdpc' \in {"send", "handles", "lock", "fields", "freed"}
      BY Zenon DEF ConNext, Spawn, Call, SetSize, ProcessStep, Inside, CleanupStep,
         CleanupInfo, CleanupRecv, CleanupClose, ConDropBegin, ConDropStep, ConDropSend,
         ConDropHandles, ConDropClose, ConDropFields, ConDropEnd
    <2> QED
      BY <2>1 DEF OwnTypes, DropPCs
  <1>4. tpc' \in CleanupPCs
    <2>1. tpc' = tpc \/ tpc' = "clean" \/ tpc' = "close" \/ tpc' = "done"
      BY Zenon DEF ConNext, Spawn, Call, SetSize, ProcessStep, Inside, CleanupStep,
         CleanupInfo, CleanupRecv, CleanupClose, ConDropBegin, ConDropStep, ConDropSend,
         ConDropHandles, ConDropClose, ConDropFields, ConDropEnd
    <2> QED
      BY <2>1 DEF OwnTypes, CleanupPCs
  <1>5. closes' \in Nat /\ frees' \in Nat
    <2>1. /\ closes' = closes \/ closes' = closes + 1
          /\ frees' = frees \/ frees' = frees + ConsoleFrees
      BY Zenon DEF ConNext, Spawn, Call, SetSize, ProcessStep, Inside, CleanupStep,
         CleanupInfo, CleanupRecv, CleanupClose, ConDropBegin, ConDropStep, ConDropSend,
         ConDropHandles, ConDropClose, ConDropFields, ConDropEnd
    <2>2. ConsoleFrees \in Nat
      BY DEF ConsoleFrees
    <2> QED
      BY <2>1, <2>2 DEF OwnTypes
  <1> QED
    BY <1>1, <1>2, <1>3, <1>4, <1>5 DEF OwnTypes

(* Only drop closes the process handle, and only ConPTY's does: the one it  *)
(* drops as a field leaves it alone.                                        *)
LEMMA HandleStep ==
  ASSUME [ConNext]_allVars, "process" \notin closed, "process" \in closed'
  PROVE  ConDropHandles
  <1>1. CASE [Next]_vars
    <2>1. CASE DropClose
      BY <2>1, ConPTYAssumption DEF DropClose, ClosedByDrop
    <2>2. CASE DropCloseEvent
      BY <2>2 DEF DropCloseEvent
    <2>3. CASE closed' = closed
      BY <2>3
    <2>4. ReaderStep \/ WatcherStep \/ EnvStep => closed' = closed
      BY Zenon DEF ReaderStep, ReaderRecv, ReaderReady, AsyncForward,
         SyncPoll, SyncPeek, SyncAlive, ReadFile, ReadWakes, AsyncSend, SyncSend, ReaderAtomic,
         ReaderSetEvent, ReaderExit, WatcherStep, WatcherGoes, WatcherRecv, WatcherCall,
         WatcherChildExited, WatcherSignalled, WatcherTimeout, WatcherCancel, WatcherSignal,
         EnvStep, ChildWrite, ChildExit, HostFlush, HostClose, AgentFreed
    <2>5. DropStep \/ Owned => DropClose \/ DropCloseEvent \/ closed' = closed
      BY Zenon DEF DropStep, DropGoes, DropNudge, DropReady, DropStop, DropCancel, DropWait,
         DropJoin, DropJoinAlive, Owned, DropBegin, SetProcess
    <2>6. (\E u \in Users : UserReturns(u) \/ UserCalls(u)) => closed' = closed
      BY Zenon DEF UserReturns, UserCalls, ReadStart, ReadReturn, TryRead, EofPeek, EofAlive,
         EofQueue, EofAtomic, CancelIo
    <2> QED
      BY <1>1, <2>1, <2>2, <2>3, <2>4, <2>5, <2>6, Zenon DEF Next, Internal, Called
  <1>2. CASE \E u \in Users : SetSize(u)
    BY <1>2 DEF SetSize
  <1> QED
    BY <1>1, <1>2, InnerStep

(* The flag and the count of closings change together, in one critical      *)
(* section.                                                                 *)
LEMMA FlagStep == OwnTypes /\ FlagInv /\ [ConNext]_allVars => FlagInv'
  <1> SUFFICES ASSUME OwnTypes, FlagInv, [ConNext]_allVars PROVE FlagInv'
    OBVIOUS
  <1>1. "process" \in closed' => cdpc' \in {"lock", "fields", "freed"}
    <2>1. CASE ConDropHandles
      BY <2>1 DEF ConDropHandles
    <2>2. CASE "process" \in closed
      BY <2>2 DEF FlagInv, ConNext, Spawn, Call, SetSize, ProcessStep, Inside, CleanupStep,
         CleanupInfo, CleanupRecv, CleanupClose, ConDropBegin, ConDropStep, ConDropSend,
         ConDropHandles, ConDropClose, ConDropFields, ConDropEnd
    <2> QED
      BY <2>1, <2>2, HandleStep
  <1>2. CASE CleanupClose \/ ConDropClose
    <2>1. \/ UNCHANGED <<flag, closes>>
          \/ flag /\ ~flag' /\ closes' = closes + 1
          \/ ~flag /\ ~flag' /\ closes' = closes
      BY <1>2, Zenon DEF OwnTypes, CleanupClose, ConDropClose
    <2>2. poisoned' = poisoned /\ (cdpc' = cdpc \/ (cdpc' = "fields" /\ (poisoned \/ ~flag')))
      BY <1>2, Zenon DEF CleanupClose, ConDropClose
    <2> QED
      BY <1>1, <2>1, <2>2 DEF FlagInv
  <1>3. CASE ~(CleanupClose \/ ConDropClose)
    <2>1. UNCHANGED <<flag, closes>>
      BY <1>3, Zenon DEF ConNext, Spawn, Call, SetSize, ProcessStep, Inside, CleanupStep,
         CleanupInfo, CleanupRecv, ConDropBegin, ConDropStep, ConDropSend, ConDropHandles,
         ConDropFields, ConDropEnd
    <2>2. \/ poisoned' = poisoned /\ (cdpc' \in {"fields", "freed"} => cdpc = "fields" \/ cdpc' = cdpc)
          \/ cdpc' = "live"
      BY <1>3 DEF ConNext, Spawn, Call, SetSize, ProcessStep, Inside, CleanupStep,
         CleanupInfo, CleanupRecv, ConDropBegin, ConDropStep, ConDropSend, ConDropHandles,
         ConDropFields, ConDropEnd
    <2> QED
      BY <1>1, <2>1, <2>2 DEF FlagInv
  <1> QED
    BY <1>2, <1>3

(* What the cleanup thread hears of the PTYProcess: a child that has gone   *)
(* and an exit event that is set stay so, the watcher keeps to the child    *)
(* the reader serves, and it leaves its wait when that child has gone or    *)
(* the process handle is closed.                                            *)
LEMMA WatchStep ==
  ASSUME CoreInv, FlagInv, HearInv, [ConNext]_allVars
  PROVE  /\ Gone => Gone'
         /\ exitEvent => exitEvent'
         /\ watchQ' # NoProc => watchQ' = rproc'
         /\ wpc' \in {"waitExit", "cancel", "signal"} /\ wpc' # wpc
              => Gone \/ cdpc \notin {"live", "send"}
                 \/ wpc \in {"waitExit", "cancel", "signal"}
  <1> USE DEF CoreInv
  <1>1. CASE ConDropHandles \/ (\E u \in Users : SetSize(u)) \/ UNCHANGED vars
    BY <1>1 DEF ConDropHandles, SetSize, Gone, HearInv
  <1>2. CASE Next
    <2>1. Gone => Gone'
      BY <1>2, GoneStep
    <2>2. CASE ReaderStep
      <3>1. exitEvent => exitEvent'
        BY <2>2 DEF ShutdownInv, ReportInv, ReaderStep, ReaderRecv, ReaderReady, AsyncForward,
           SyncPoll, SyncPeek, SyncAlive, ReadFile, ReadWakes, AsyncSend, SyncSend,
           ReaderAtomic, ReaderSetEvent, ReaderExit
      <3>2. wpc' = wpc
        BY <2>2 DEF ReaderStep, ReaderRecv, ReaderReady, AsyncForward,
           SyncPoll, SyncPeek, SyncAlive, ReadFile, ReadWakes, AsyncSend, SyncSend,
           ReaderAtomic, ReaderSetEvent, ReaderExit
      <3>3. watchQ' # NoProc => watchQ' = rproc'
        BY <2>2 DEF HearInv, ShutdownInv, WatchInv, ReaderStep, ReaderRecv, ReaderReady,
           AsyncForward, SyncPoll, SyncPeek, SyncAlive, ReadFile, ReadWakes, AsyncSend,
           SyncSend, ReaderAtomic, ReaderSetEvent, ReaderExit
      <3> QED
        BY <2>1, <3>1, <3>2, <3>3
    <2>3. CASE WatcherStep
      <3>1. UNCHANGED <<readerVars, watchQ, flagVars>>
        BY <2>3 DEF WatcherStep, WatcherGoes, WatcherRecv, WatcherCall, WatcherChildExited,
           WatcherSignalled, WatcherTimeout, WatcherCancel, WatcherSignal
      <3>2. ASSUME wpc' \in {"waitExit", "cancel", "signal"},
                   wpc \notin {"waitExit", "cancel", "signal"}
            PROVE  Gone \/ cdpc \notin {"live", "send"}
        <4>1. (WatcherCall /\ "process" \in closed) \/ WatcherChildExited
          BY <2>3, <3>2 DEF WatcherStep, WatcherGoes, WatcherRecv, WatcherCall, HandleClosed,
             WatcherChildExited, WatcherSignalled, WatcherTimeout, WatcherCancel, WatcherSignal
        <4>2. watchQ # NoProc
          BY <4>1 DEF WatcherCall, WatcherChildExited, WatcherGoes, ShutdownInv, WatchInv
        <4> QED
          BY <4>1, <4>2 DEF WatcherChildExited, Gone, FlagInv, HearInv
      <3> QED
        BY <2>1, <3>1, <3>2 DEF HearInv
    <2>4. CASE DropStep \/ Owned \/ EnvStep
      BY <2>1, <2>4 DEF HearInv, DropStep, DropGoes, DropNudge, DropReady, DropStop, DropCancel,
         DropWait, DropJoin, DropClose, DropJoinAlive, DropCloseEvent, Owned, DropBegin,
         SetProcess, EnvStep, ChildWrite, ChildExit, HostFlush, HostClose, AgentFreed
    <2>5. CASE \E u \in Users : UserReturns(u) \/ UserCalls(u)
      <3>1. UNCHANGED <<readerVars, watchVars, flagVars>>
        BY <2>5, Zenon DEF UserReturns, UserCalls, ReadStart, ReadReturn, TryRead, EofPeek,
           EofAlive, EofQueue, EofAtomic, CancelIo
      <3> QED
        BY <2>1, <3>1 DEF HearInv
    <2> QED
      BY <1>2, <2>2, <2>3, <2>4, <2>5 DEF Next, Internal, Called
  <1> QED
    BY <1>1, <1>2, InnerStep

(* What reaches the cleanup thread is true to the child: a true only after  *)
(* it has gone, and after a drop has begun no true comes first.             *)
LEMMA HearStep ==
  CoreInv /\ OwnTypes /\ FlagInv /\ HearInv /\ [ConNext]_allVars => HearInv'
  <1> SUFFICES ASSUME CoreInv, OwnTypes, FlagInv, HearInv, [ConNext]_allVars PROVE HearInv'
    OBVIOUS
  <1> DEFINE Out == {"waitExit", "cancel", "signal"}
             Early == {"live", "send"}
             Listening == {"info", "clean"}
  <1>1. /\ Gone => Gone'
        /\ exitEvent => exitEvent'
        /\ watchQ' # NoProc => watchQ' = rproc'
    BY WatchStep
  <1>2. cdpc \notin Early => cdpc' \notin Early
    BY DEF ConNext, Spawn, Call, SetSize, ProcessStep, Inside, CleanupStep, CleanupInfo,
       CleanupRecv, CleanupClose, ConDropBegin, ConDropStep, ConDropSend, ConDropHandles,
       ConDropClose, ConDropFields, ConDropEnd
  <1>3. wpc' \in Out => Gone' \/ cdpc' \notin Early
    BY <1>1, <1>2, WatchStep DEF HearInv
  <1>4. \/ /\ cleanupQ' = cleanupQ /\ tpc' = tpc
           /\ cdpc \in Early => cdpc' \in Early \/ tpc = "done"
        \/ cleanupQ' = cleanupQ /\ tpc = "info" /\ tpc' \in {"clean", "done"} /\ cdpc' = cdpc
        \/ cleanupQ' = cleanupQ /\ tpc = "close" /\ tpc' = "done"
        \/ /\ tpc' = tpc /\ wpc = "signal" /\ cdpc' = cdpc
           /\ cleanupQ' = Append(cleanupQ, TRUE)
        \/ tpc' = tpc /\ cleanupQ' = Append(cleanupQ, FALSE)
        \/ /\ tpc = "clean" /\ cleanupQ # <<>>
           /\ tpc' = (IF Head(cleanupQ) THEN "close" ELSE "done")
    <2>1. CASE \/ (\E p \in Procs : Spawn(p)) \/ (\E u \in Users : SetSize(u)) \/ Call
               \/ ConDropBegin \/ UNCHANGED allVars
      <3>1. cleanupQ' = cleanupQ /\ tpc' = tpc /\ (cdpc' = cdpc \/ cdpc' = "send")
        BY <2>1, Zenon DEF Spawn, SetSize, Call, ConDropBegin
      <3> QED
        BY <3>1
    <2>2. CASE ProcessStep
      <3>1. cdpc' = cdpc /\ tpc' = tpc
        BY <2>2 DEF ProcessStep, Inside
      <3>2. cleanupQ' = cleanupQ \/ (wpc = "signal" /\ cleanupQ' = Append(cleanupQ, TRUE))
        BY <2>2, Zenon DEF ProcessStep, Inside
      <3> QED
        BY <3>1, <3>2
    <2>3. CASE CleanupInfo
      BY <2>3 DEF CleanupInfo
    <2>4. CASE CleanupRecv
      BY <2>4 DEF CleanupRecv
    <2>5. CASE CleanupClose
      BY <2>5 DEF CleanupClose
    <2>6. CASE ConDropSend
      <3>1. CASE tpc = "done"
        BY <2>6, <3>1 DEF ConDropSend
      <3>2. CASE tpc # "done"
        BY <2>6, <3>2 DEF ConDropSend
      <3> QED
        BY <3>1, <3>2
    <2>7. CASE ConDropHandles \/ ConDropClose \/ ConDropFields \/ ConDropEnd
      <3>1. cleanupQ' = cleanupQ /\ tpc' = tpc /\ cdpc \in {"handles", "lock", "fields"}
        BY <2>7, Zenon DEF ConDropHandles, ConDropClose, ConDropFields, ConDropEnd
      <3> QED
        BY <3>1
    <2> QED
      BY <2>1, <2>2, <2>3, <2>4, <2>5, <2>6, <2>7, Zenon DEF ConNext, CleanupStep, ConDropStep
  <1>5. cdpc' \notin Early /\ tpc' \in Listening => cleanupQ' # <<>>
    <2>1. \A b \in BOOLEAN : Append(cleanupQ, b) # <<>>
      BY SeqTypes DEF OwnTypes
    <2> QED
      BY <1>4, <2>1 DEF HearInv
  <1>6. tpc' \in Listening /\ cleanupQ' # <<>> /\ Head(cleanupQ') => (Gone /\ exitEvent)'
    <2>1. wpc = "signal" => exitEvent
      BY DEF CoreInv, ShutdownInv, WatchInv
    <2>2. \A b \in BOOLEAN : Head(Append(cleanupQ, b)) =
             (IF cleanupQ = <<>> THEN b ELSE Head(cleanupQ))
      BY SeqTypes DEF OwnTypes
    <2> QED
      BY <1>1, <1>4, <2>1, <2>2 DEF HearInv
  <1>7. tpc' = "close" => (Gone /\ exitEvent)'
    BY <1>1, <1>4 DEF HearInv
  <1>8. ~flag' /\ cdpc' \notin {"fields", "freed"} => Gone'
    BY <1>1 DEF HearInv, ConNext, Spawn, Call, SetSize, ProcessStep, Inside, CleanupStep,
       CleanupInfo, CleanupRecv, CleanupClose, ConDropBegin, ConDropStep, ConDropSend,
       ConDropHandles, ConDropClose, ConDropFields, ConDropEnd
  <1> QED
    BY <1>1, <1>3, <1>5, <1>6, <1>7, <1>8 DEF HearInv

(* All of the invariant, in every state of ConPTY.                          *)
LEMMA ConInvCorrect == ConSpec => []ConInv
  <1>1. ConInv /\ [ConNext]_allVars => ConInv'
    BY CoreStep, OwnTypesStep, FlagStep, HearStep DEF ConInv
  <1> QED
    BY InitCon, <1>1, PTL DEF ConSpec

(* The types of ConPTY's variables and of the embedded PTYProcess's.        *)
THEOREM ConTypeCorrect == ConSpec => []ConTypeOK
  <1>1. ConInv => ConTypeOK
    BY DEF ConInv, CoreInv, TypeInv, OwnTypes, ConTypeOK
  <1> QED
    BY <1>1, ConInvCorrect, PTL

(* cleanup_thread and drop never both close the pseudoconsole               *)
(* (conpty/pty_impl.rs, the flag beside the HPCON).                         *)
THEOREM ConsoleClosedOnce == ConSpec => []ClosedOnce
  <1>1. ConInv => ClosedOnce
    BY DEF ConInv, FlagInv, ClosedOnce
  <1> QED
    BY <1>1, ConInvCorrect, PTL

(* The cleanup thread decides to close it only for a child that has exited, *)
(* although the watcher takes every failure of its wait for an exit.        *)
THEOREM CleanupWaitsForExit == ConSpec => []CleanupOnlyAfterExit
  <1>1. ConInv => CleanupOnlyAfterExit
    BY DEF ConInv, HearInv, Gone, CleanupOnlyAfterExit
  <1> QED
    BY <1>1, ConInvCorrect, PTL

(* set_size, which does not look at the flag, resizes an open pseudoconsole *)
(* as long as the served child runs.                                        *)
THEOREM ConsoleStaysOpen == ConSpec => []ConsoleOpenWhileServed
  <1>1. ConInv => ConsoleOpenWhileServed
    BY DEF ConInv, OwnTypes, FlagInv, HearInv, Gone, ConsoleOpenWhileServed
  <1> QED
    BY <1>1, ConInvCorrect, PTL
=============================================================================
