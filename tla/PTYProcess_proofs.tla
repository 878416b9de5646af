--------------------------- MODULE PTYProcess_proofs ---------------------------
(***************************************************************************)
(* Proofs about PTYProcess for every number of callers, children, units of *)
(* output and messages, in both modes, whether the pipe can break or not   *)
(* and whether the exit event could be created or not.                     *)
(***************************************************************************)
EXTENDS PTYProcess, TLAPS

(* What the reader is about to queue is an item: with it, TypeOK is         *)
(* inductive.                                                               *)
TypeInv == TypeOK /\ (rpc = "send" => rres \in Items)

USE DEF vars, readerVars, watchVars, ownerVars, userVars, chanVars, flagVars, kernelVars,
        hostVars, histVars, readerFrame, watcherFrame, dropFrame, userFrame, hostFrame,
        NoProc

(* The initial state, PTYProcess::new, is well typed.                       *)
LEMMA InitTypeInv == Init => TypeInv
  <1> SUFFICES ASSUME Init PROVE TypeInv
    OBVIOUS
  <1> USE ConstantsAssumption DEF Init
  <1>1. procQ \in Seq(Procs \cup {NoProc}) /\ out \in Seq(Items)
    OBVIOUS
  <1>2. upc \in [Users -> UserPCs] /\ uacc \in [Users -> BOOLEAN]
    BY DEF UserPCs
  <1>3. child \in [Procs -> {"none", "alive", "dead"}] /\ farEnd \in BOOLEAN
    OBVIOUS
  <1> QED
    BY <1>1, <1>2, <1>3 DEF TypeInv, TypeOK, ReaderPCs, WatcherPCs, OwnerPCs, Items

(* Steps of the reader thread keep the types.                               *)
LEMMA ReaderTypeInv == TypeInv /\ ReaderStep => TypeInv'
  <1> SUFFICES ASSUME TypeInv, ReaderStep PROVE TypeInv'
    OBVIOUS
  <1> USE ConstantsAssumption DEF TypeInv, TypeOK, ReaderPCs, Items
  <1>1. CASE ReaderRecv
    <2>1. procQ \in Seq(Procs \cup {NoProc}) /\ procQ # <<>>
      BY <1>1 DEF ReaderRecv
    <2>2. Head(procQ) \in Procs \cup {NoProc} /\ Tail(procQ) \in Seq(Procs \cup {NoProc})
      BY <2>1
    <2> QED
      BY <1>1, <2>2 DEF ReaderRecv
  <1>2. CASE ReaderReady
    BY <1>2 DEF ReaderReady
  <1>3. CASE AsyncForward
    BY <1>3 DEF AsyncForward
  <1>4. CASE SyncPoll
    <2>1. ~Async
      BY <1>4 DEF SyncPoll
    <2>2. stopSent' \in BOOLEAN
      BY <1>4, Zenon DEF SyncPoll
    <2> QED
      BY <1>4, <2>1, <2>2 DEF SyncPoll
  <1>5. CASE SyncPeek
    BY <1>5 DEF SyncPeek, Broken
  <1>6. CASE SyncAlive
    BY <1>6 DEF SyncAlive
  <1>7. CASE ReadFile
    BY <1>7 DEF ReadFile, BrokenResults, Broken
  <1>8. CASE ReadWakes
    <2>1. io \in {"data", "broken", "cancelled"}
      BY <1>8 DEF ReadWakes
    <2>2. rres' \in {"data", "err", "empty"}
      BY <1>8, <2>1 DEF ReadWakes, BrokenResults
    <2> QED
      BY <1>8, <2>2 DEF ReadWakes
  <1>9. CASE AsyncSend
    BY <1>9 DEF AsyncSend
  <1>10. CASE SyncSend
    BY <1>10 DEF SyncSend
  <1>11. CASE ReaderAtomic
    <2>1. atomic' \in BOOLEAN
      BY <1>11, Zenon DEF ReaderAtomic
    <2> QED
      BY <1>11, <2>1 DEF ReaderAtomic
  <1>12. CASE ReaderSetEvent
    BY <1>12 DEF ReaderSetEvent
  <1>13. CASE ReaderExit
    BY <1>13 DEF ReaderExit
  <1> QED
    BY <1>1, <1>2, <1>3, <1>4, <1>5, <1>6, <1>7, <1>8, <1>9, <1>10, <1>11, <1>12,
       <1>13 DEF ReaderStep

(* Steps of the watcher keep the types.                                     *)
LEMMA WatcherTypeInv == TypeInv /\ WatcherStep => TypeInv'
  <1> SUFFICES ASSUME TypeInv, WatcherStep PROVE TypeInv'
    OBVIOUS
  <1> USE DEF TypeInv, TypeOK, WatcherPCs
  <1>1. ASSUME NEW from, NEW to \in WatcherPCs, WatcherGoes(from, to) PROVE TypeInv'
    BY <1>1 DEF WatcherGoes
  <1>2. CASE WatcherCancel
    <2>1. struck' \in BOOLEAN
      BY <1>2, Zenon DEF WatcherCancel, CancelIoEx
    <2> QED
      BY <1>2, <2>1 DEF WatcherCancel, CancelIoEx
  <1> QED
    BY <1>1, <1>2 DEF WatcherStep, WatcherRecv, WatcherCall, WatcherChildExited,
       WatcherSignalled, WatcherTimeout, WatcherSignal

(* Steps of the owner inside drop keep the types.                           *)
LEMMA DropTypeInv == TypeInv /\ DropStep => TypeInv'
  <1> SUFFICES ASSUME TypeInv, DropStep PROVE TypeInv'
    OBVIOUS
  <1> USE DEF TypeInv, TypeOK, OwnerPCs
  <1>1. ASSUME NEW from, NEW to \in OwnerPCs, DropGoes(from, to) PROVE TypeInv'
    BY <1>1 DEF DropGoes
  <1>2. CASE DropNudge
    <2>1. procQ' \in Seq(Procs \cup {NoProc})
      BY <1>2 DEF DropNudge
    <2> QED
      BY <1>2, <2>1 DEF DropNudge
  <1>3. CASE DropStop
    BY <1>3 DEF DropStop
  <1>4. CASE DropCancel
    <2>1. struck' \in BOOLEAN
      BY <1>4, Zenon DEF DropCancel, CancelIoEx
    <2> QED
      BY <1>4, <2>1 DEF DropCancel, CancelIoEx
  <1>5. CASE DropClose
    BY <1>5 DEF DropClose, ClosedByDrop, Handles
  <1>6. CASE DropCloseEvent
    BY <1>6 DEF DropCloseEvent, Handles
  <1> QED
    BY <1>1, <1>2, <1>3, <1>4, <1>5, <1>6 DEF DropStep, DropReady, DropWait, DropJoin,
       DropJoinAlive

(* So do the owner's other steps: handing over a child, beginning the drop. *)
LEMMA OwnedTypeInv == TypeInv /\ Owned => TypeInv'
  <1> SUFFICES ASSUME TypeInv, Owned PROVE TypeInv'
    OBVIOUS
  <1>0. /\ procQ \in Seq(Procs \cup {NoProc})
        /\ child \in [Procs -> {"none", "alive", "dead"}] /\ panicked \in BOOLEAN
    BY DEF TypeInv, TypeOK
  <1>1. CASE DropBegin
    <2>1. dpc' = "nudge" /\ UNCHANGED <<procQ, stopSent, closed, io, struck, dropFrame>>
      BY <1>1 DEF DropBegin, DropGoes
    <2> QED
      BY <2>1 DEF TypeInv, TypeOK, OwnerPCs
  <1>2. ASSUME NEW p \in Procs, SetProcess(p) PROVE TypeInv'
    <2>1. procQ' \in Seq(Procs \cup {NoProc}) /\ process' \in Procs
      BY <1>0, <1>2 DEF SetProcess
    <2>2. child' \in [Procs -> {"none", "alive", "dead"}]
      <3>1. child' = [child EXCEPT ![p] = "alive"]
        BY <1>2 DEF SetProcess
      <3> QED
        BY <1>0, <3>1
    <2>3. panicked' \in BOOLEAN
      BY <1>0, <1>2, Zenon DEF SetProcess
    <2>4. UNCHANGED <<readerVars, watchVars, dpc, closed, userVars, stopSent, out, flagVars,
                      kernelVars, hostBuf, hostOpen, farEnd, histVars>>
      BY <1>2 DEF SetProcess
    <2> QED
      BY <2>1, <2>2, <2>3, <2>4 DEF TypeInv, TypeOK
  <1> QED
    BY <1>1, <1>2 DEF Owned

(* Taking a message off the channel keeps the channel and the result typed. *)
LEMMA TakeType ==
  ASSUME TypeOK, NEW u \in Users, Take(u)
  PROVE  /\ out' \in Seq(Items)
         /\ ret' \in Items \cup {"nil", "true", "false", "ok"}
         /\ taken' \in Nat
  <1>1. out \in Seq(Items) /\ taken \in Nat
    BY DEF TypeOK
  <1>2. CASE out # <<>>
    <2>1. Head(out) \in Items /\ Tail(out) \in Seq(Items)
      BY <1>1, <1>2
    <2>2. /\ ret' = Head(out) /\ out' = Tail(out)
          /\ taken' = (IF Head(out) = "data" THEN taken + 1 ELSE taken)
      BY <1>2 DEF Take
    <2> QED
      BY <1>1, <2>1, <2>2
  <1>3. CASE out = <<>>
    BY <1>1, <1>3 DEF Take, Items
  <1> QED
    BY <1>2, <1>3

(* Steps of the callers keep the types.                                     *)
LEMMA UserTypeInv ==
  ASSUME TypeInv, NEW u \in Users, UserReturns(u) \/ UserCalls(u)
  PROVE  TypeInv'
  <1> USE DEF TypeInv, TypeOK, UserPCs
  <1>1. CASE ReadReturn(u)
    <2>1. /\ out' \in Seq(Items)
          /\ ret' \in Items \cup {"nil", "true", "false", "ok"}
          /\ taken' \in Nat
      BY <1>1, TakeType DEF ReadReturn
    <2> QED
      BY <1>1, <2>1 DEF ReadReturn
  <1>2. CASE EofAlive(u)
    <2>1. uacc' \in [Users -> BOOLEAN]
      <3>1. CASE process = NoProc
        BY <1>2, <3>1 DEF EofAlive
      <3>2. CASE process # NoProc
        <4>1. (uacc[u] \/ child[process] = "alive") \in BOOLEAN
          OBVIOUS
        <4>2. uacc' = [uacc EXCEPT ![u] = uacc[u] \/ child[process] = "alive"]
          BY <1>2, <3>2, Zenon DEF EofAlive
        <4> QED
          BY <4>1, <4>2
      <3> QED
        BY <3>1, <3>2
    <2>2. upc' \in [Users -> UserPCs]
      BY <1>2 DEF EofAlive
    <2> QED
      BY <1>2, <2>1, <2>2 DEF EofAlive, Items
  <1>3. CASE EofQueue(u)
    <2>1. uacc' \in [Users -> BOOLEAN]
      <3>1. (uacc[u] \/ out # <<>>) \in BOOLEAN
        OBVIOUS
      <3>2. uacc' = [uacc EXCEPT ![u] = uacc[u] \/ out # <<>>]
        BY <1>3, Zenon DEF EofQueue
      <3> QED
        BY <3>1, <3>2
    <2> QED
      BY <1>3, <2>1 DEF EofQueue
  <1>4. CASE EofAtomic(u)
    <2>1. ret' \in {"true", "false"} /\ uacc' \in [Users -> BOOLEAN]
      BY <1>4 DEF EofAtomic
    <2> QED
      BY <1>4, <2>1 DEF EofAtomic
  <1>5. CASE ReadStart(u)
    BY <1>5 DEF ReadStart
  <1>6. CASE TryRead(u)
    <2>1. /\ out' \in Seq(Items)
          /\ ret' \in Items \cup {"nil", "true", "false", "ok"}
          /\ taken' \in Nat
      BY <1>6, TakeType DEF TryRead, Items
    <2> QED
      BY <1>6, <2>1 DEF TryRead
  <1>7. CASE EofPeek(u)
    <2>1. uacc' \in [Users -> BOOLEAN]
      <3>1. (~Broken) \in BOOLEAN
        BY Zenon DEF Broken
      <3> QED
        BY <1>7, <3>1, Zenon DEF EofPeek
    <2> QED
      BY <1>7, <2>1 DEF EofPeek
  <1>8. CASE CancelIo(u)
    <2>1. struck' \in BOOLEAN /\ ret' \in {"ok", "err"}
      <3>1. struck' \in BOOLEAN
        BY <1>8, Zenon DEF CancelIo, CancelIoEx
      <3> QED
        BY <1>8, <3>1 DEF CancelIo
    <2> QED
      BY <1>8, <2>1 DEF CancelIo, CancelIoEx, Items
  <1> QED
    BY <1>1, <1>2, <1>3, <1>4, <1>5, <1>6, <1>7, <1>8 DEF UserReturns, UserCalls

(* Steps of children and host keep the types.                               *)
LEMMA EnvTypeInv == TypeInv /\ EnvStep => TypeInv'
  <1> SUFFICES ASSUME TypeInv, EnvStep PROVE TypeInv'
    OBVIOUS
  <1> USE DEF TypeInv, TypeOK
  <1>1. CASE HostFlush
    BY <1>1 DEF HostFlush
  <1>2. CASE HostClose \/ AgentFreed
    <2>1. hostOpen' \in BOOLEAN
      BY <1>2, Zenon DEF HostClose, AgentFreed
    <2> QED
      BY <1>2, <2>1 DEF HostClose, AgentFreed
  <1>3. ASSUME NEW p \in Procs, ChildWrite(p) PROVE TypeInv'
    BY <1>3 DEF ChildWrite
  <1>4. ASSUME NEW p \in Procs, ChildExit(p) PROVE TypeInv'
    BY <1>4 DEF ChildExit
  <1> QED
    BY <1>1, <1>2, <1>3, <1>4 DEF EnvStep

(* Every variable keeps its type in every behaviour of the two threads, the *)
(* owner, the callers and the children.                                     *)
THEOREM TypeCorrect == Spec => []TypeOK
  <1>1. TypeInv /\ [Next]_vars => TypeInv'
    <2> SUFFICES ASSUME TypeInv, [Next]_vars PROVE TypeInv'
      OBVIOUS
    <2>1. CASE Internal
      BY <2>1, ReaderTypeInv, WatcherTypeInv, DropTypeInv, EnvTypeInv, UserTypeInv
         DEF Internal
    <2>2. CASE Owned \/ Called
      BY <2>2, OwnedTypeInv, UserTypeInv DEF Called
    <2>3. CASE UNCHANGED vars
      BY <2>3 DEF TypeInv, TypeOK
    <2> QED
      BY <2>1, <2>2, <2>3 DEF Next
  <1>2. TypeInv => TypeOK
    BY DEF TypeInv
  <1> QED
    BY InitTypeInv, <1>1, <1>2, PTL DEF Spec

-----------------------------------------------------------------------------
(* The order of the shutdown, as an inductive invariant: what the exit      *)
(* event, the cleared flag, the owner's position and the closed handles     *)
(* each say about how far the reader and the watcher have come.             *)
ReportInv ==
    /\ exitEvent => rpc \in {"exit", "done"}
    /\ ~atomic => rpc \in {"event", "exit", "done"}
JoinInv ==
    /\ dpc \in {"close", "joinAlive", "closeEvent", "freed"} => rpc = "done"
    /\ dpc \in {"closeEvent", "freed"} => wpc = "done"
ClosedInv ==
    /\ "conout" \in closed => dpc \in {"joinAlive", "closeEvent", "freed"}
    /\ "exit_event" \in closed => dpc = "freed"
WatchInv ==
    /\ rpc \in {"recv", "ready", "forward"} => watchQ = NoProc
    /\ watchQ = NoProc => wpc \in {"recv", "done"}
    /\ Async /\ wpc = "done" /\ watchQ = NoProc => rpc = "done"
    /\ wpc \in {"signal", "done"} /\ watchQ # NoProc => exitEvent
ShutdownInv == ReportInv /\ JoinInv /\ ClosedInv /\ WatchInv

(* No thread has ended and nothing is closed after PTYProcess::new.         *)
LEMMA InitShutdown == Init => ShutdownInv
  BY DEF Init, ShutdownInv, ReportInv, JoinInv, ClosedInv, WatchInv

(* The reader reports its end in order; once it is done it stays so.        *)
LEMMA ReaderShutdown == TypeOK /\ ShutdownInv /\ ReaderStep => ShutdownInv'
  <1> SUFFICES ASSUME TypeOK, ShutdownInv, ReaderStep PROVE ShutdownInv'
    OBVIOUS
  <1> USE DEF ShutdownInv, ReportInv, JoinInv, ClosedInv, WatchInv
  <1>1. CASE AsyncForward
    <2>1. Async /\ rpc # "done"
      BY <1>1 DEF AsyncForward, TypeOK
    <2>2. wpc = "recv"
      BY <1>1, <2>1 DEF AsyncForward
    <2> QED
      BY <1>1, <2>1, <2>2 DEF AsyncForward
  <1>2. CASE ReaderRecv \/ ReaderReady \/ SyncPoll \/ SyncPeek \/ SyncAlive
    BY <1>2 DEF ReaderRecv, ReaderReady, SyncPoll, SyncPeek, SyncAlive
  <1>3. CASE ReadFile \/ ReadWakes \/ AsyncSend \/ SyncSend
    BY <1>3 DEF ReadFile, ReadWakes, AsyncSend, SyncSend
  <1>4. CASE ReaderAtomic
    BY <1>4 DEF ReaderAtomic
  <1>5. CASE ReaderSetEvent
    BY <1>5 DEF ReaderSetEvent
  <1>6. CASE ReaderExit
    BY <1>6 DEF ReaderExit
  <1> QED
    BY <1>1, <1>2, <1>3, <1>4, <1>5, <1>6 DEF ReaderStep

(* The watcher signals only after it has seen the reader's event.           *)
LEMMA WatcherShutdown == ShutdownInv /\ WatcherStep => ShutdownInv'
  <1> SUFFICES ASSUME ShutdownInv, WatcherStep PROVE ShutdownInv'
    OBVIOUS
  <1> USE DEF ShutdownInv, ReportInv, JoinInv, ClosedInv, WatchInv, WatcherGoes
  <1>1. CASE WatcherRecv
    BY <1>1 DEF WatcherRecv, ReaderGone
  <1>2. CASE WatcherCall \/ WatcherChildExited \/ WatcherTimeout
    BY <1>2 DEF WatcherCall, WatcherChildExited, WatcherTimeout
  <1>3. CASE WatcherSignalled
    BY <1>3 DEF WatcherSignalled
  <1>4. CASE WatcherCancel
    BY <1>4 DEF WatcherCancel
  <1>5. CASE WatcherSignal
    BY <1>5 DEF WatcherSignal
  <1> QED
    BY <1>1, <1>2, <1>3, <1>4, <1>5 DEF WatcherStep

(* Drop passes its joins only when the threads are done, and closes after.  *)
LEMMA DropShutdown == ShutdownInv /\ (DropStep \/ Owned) => ShutdownInv'
  <1> SUFFICES ASSUME ShutdownInv, DropStep \/ Owned PROVE ShutdownInv'
    OBVIOUS
  <1> USE DEF ShutdownInv, ReportInv, JoinInv, ClosedInv, WatchInv, DropGoes
  <1>1. CASE DropBegin \/ DropReady \/ DropWait
    BY <1>1 DEF DropBegin, DropReady, DropWait
  <1>2. CASE DropNudge \/ DropStop \/ DropCancel
    BY <1>2 DEF DropNudge, DropStop, DropCancel
  <1>3. CASE DropJoin
    BY <1>3 DEF DropJoin, ReaderGone
  <1>4. CASE DropClose
    BY <1>4 DEF DropClose, ClosedByDrop
  <1>5. CASE DropJoinAlive
    BY <1>5 DEF DropJoinAlive
  <1>6. CASE DropCloseEvent
    BY <1>6 DEF DropCloseEvent
  <1>7. ASSUME NEW p \in Procs, SetProcess(p) PROVE ShutdownInv'
    BY <1>7 DEF SetProcess
  <1> QED
    BY <1>1, <1>2, <1>3, <1>4, <1>5, <1>6, <1>7 DEF DropStep, Owned

(* Callers, children and host touch nothing the invariant speaks of.        *)
LEMMA OthersShutdown ==
  ASSUME ShutdownInv,
         \/ EnvStep
         \/ \E u \in Users : UserReturns(u) \/ UserCalls(u)
         \/ UNCHANGED vars
  PROVE  ShutdownInv'
  <1>1. UNCHANGED <<rpc, wpc, watchQ, dpc, closed, atomic, exitEvent>>
    <2>1. CASE EnvStep
      BY <2>1 DEF EnvStep, HostFlush, HostClose, AgentFreed, ChildWrite, ChildExit
    <2>2. ASSUME NEW u \in Users, UserReturns(u) \/ UserCalls(u)
          PROVE  UNCHANGED <<rpc, wpc, watchQ, dpc, closed, atomic, exitEvent>>
      BY <2>2 DEF UserReturns, UserCalls, ReadReturn, EofAlive, EofQueue, EofAtomic,
         ReadStart, TryRead, EofPeek, CancelIo
    <2> QED
      BY <2>1, <2>2
  <1> QED
    BY <1>1 DEF ShutdownInv, ReportInv, JoinInv, ClosedInv, WatchInv

(* The shutdown invariant holds in every behaviour.                         *)
LEMMA ShutdownCorrect == Spec => []ShutdownInv
  <1>1. TypeOK /\ ShutdownInv /\ [Next]_vars => ShutdownInv'
    BY ReaderShutdown, WatcherShutdown, DropShutdown, OthersShutdown
       DEF Next, Internal, Called
  <1> QED
    BY <1>1, InitShutdown, TypeCorrect, PTL DEF Spec

(* Drop (base.rs:910-962) closes the output pipe only after the reader has  *)
(* ended and the exit event only after both threads have, for every         *)
(* interleaving of the owner with the two threads.                          *)
THEOREM TeardownIsOrdered == Spec => []TeardownOrder
  <1>1. ShutdownInv => TeardownOrder
    BY DEF ShutdownInv, JoinInv, ClosedInv, TeardownOrder
  <1> QED
    BY <1>1, ShutdownCorrect, PTL

(* The watcher reports to its consumer (base.rs:620-625) only after the     *)
(* reader has set its exit event.                                           *)
THEOREM CleanupFollowsReader == Spec => []CleanupAfterReader
  <1>1. ShutdownInv => CleanupAfterReader
    BY DEF ShutdownInv, ReportInv, WatchInv, CleanupAfterReader
  <1> QED
    BY <1>1, ShutdownCorrect, PTL

(* A reader that has reported its end is past its last send.                *)
LEMMA ReportedStep ==
  TypeOK /\ ShutdownInv /\ [Next]_vars => (~atomic \/ exitEvent => Len(out') <= Len(out))
  <1> SUFFICES ASSUME TypeOK, ShutdownInv, [Next]_vars, ~atomic \/ exitEvent
               PROVE  Len(out') <= Len(out)
    OBVIOUS
  <1>1. rpc \in {"event", "exit", "done"} /\ out \in Seq(Items)
    BY DEF ShutdownInv, ReportInv, TypeOK
  <1>2. out' = out \/ (out # <<>> /\ out' = Tail(out))
    <2>1. CASE ReaderStep
      BY <2>1, <1>1 DEF ReaderStep, ReaderRecv, ReaderReady, AsyncForward, SyncPoll, SyncPeek,
         SyncAlive, ReadFile, ReadWakes, AsyncSend, SyncSend, ReaderAtomic, ReaderSetEvent,
         ReaderExit
    <2>2. CASE WatcherStep \/ DropStep \/ Owned \/ EnvStep \/ UNCHANGED vars
      BY <2>2 DEF WatcherStep, WatcherRecv, WatcherCall, WatcherChildExited,
         WatcherSignalled, WatcherTimeout, WatcherCancel, WatcherSignal, WatcherGoes,
         DropStep, DropNudge, DropReady, DropStop, DropCancel, DropWait, DropJoin, DropClose,
         DropJoinAlive, DropCloseEvent, DropGoes, Owned, DropBegin, SetProcess,
         EnvStep, HostFlush, HostClose, AgentFreed, ChildWrite, ChildExit
    <2>3. ASSUME NEW u \in Users, UserReturns(u) \/ UserCalls(u)
          PROVE  out' = out \/ (out # <<>> /\ out' = Tail(out))
      BY <2>3 DEF UserReturns, UserCalls, ReadReturn, EofAlive, EofQueue, EofAtomic,
         ReadStart, TryRead, EofPeek, CancelIo, Take
    <2> QED
      BY <2>1, <2>2, <2>3 DEF Next, Internal, Called
  <1> QED
    BY <1>1, <1>2

(* After reader_atomic is cleared or the exit event is set the channel only *)
(* shrinks: is_eof and drop may rely on either.                             *)
THEOREM ReportedEndIsFinal == Spec => NothingAfterExit
  BY ReportedStep, TypeCorrect, ShutdownCorrect, PTL DEF NothingAfterExit, Spec

-----------------------------------------------------------------------------
(* A reader that has reported itself ready has its message; drop leaves the *)
(* spin only then.                                                          *)
HeardInv ==
    /\ ready => rpc \notin {"recv", "ready"}
    /\ dpc \notin {"live", "nudge"} => ready
    /\ NobodyWaitsInVain

LEMMA HeardStep == TypeOK /\ HeardInv /\ [Next]_vars => HeardInv'
  <1> SUFFICES ASSUME TypeOK, HeardInv, [Next]_vars PROVE HeardInv'
    OBVIOUS
  <1> USE DEF HeardInv, NobodyWaitsInVain, PastLoop
  <1>1. CASE ReaderStep
    <2>1. dpc' = dpc
      BY <1>1 DEF ReaderStep, ReaderRecv, ReaderReady, AsyncForward, SyncPoll, SyncPeek,
         SyncAlive, ReadFile, ReadWakes, AsyncSend, SyncSend, ReaderAtomic, ReaderSetEvent,
         ReaderExit
    <2>2. CASE ReaderRecv \/ ReaderReady \/ AsyncForward
      BY <2>1, <2>2 DEF ReaderRecv, ReaderReady, AsyncForward, TypeOK
    <2>3. CASE SyncPoll
      BY <2>1, <2>3 DEF SyncPoll
    <2>4. CASE SyncPeek \/ SyncAlive \/ ReadFile \/ ReadWakes
      BY <2>1, <2>4 DEF SyncPeek, SyncAlive, ReadFile, ReadWakes
    <2>5. CASE AsyncSend \/ SyncSend
      BY <2>1, <2>5 DEF AsyncSend, SyncSend
    <2>6. CASE ReaderAtomic \/ ReaderSetEvent \/ ReaderExit
      BY <2>1, <2>6 DEF ReaderAtomic, ReaderSetEvent, ReaderExit
    <2> QED
      BY <1>1, <2>2, <2>3, <2>4, <2>5, <2>6 DEF ReaderStep
  <1>2. CASE DropStep \/ Owned
    <2>1. UNCHANGED <<rpc, ready, exitEvent>> /\ (io # "idle" => io' # "idle")
      BY <1>2 DEF DropStep, DropNudge, DropReady, DropStop, DropCancel, DropWait, DropJoin,
         DropClose, DropJoinAlive, DropCloseEvent, DropGoes, CancelIoEx, Owned, DropBegin,
         SetProcess
    <2>2. \/ dpc' \in {"live", "nudge"} \/ (dpc' = dpc /\ stopSent' = stopSent)
          \/ dpc = "nudge" /\ dpc' = "stop" /\ ready
          \/ dpc = "stop" /\ dpc' = "cancel" /\ stopSent'
          \/ dpc = "wait" /\ dpc' = "stop"
          \/ dpc = "cancel" /\ dpc' = (IF EventCreated THEN "wait" ELSE "join")
               /\ stopSent' = stopSent
          \/ dpc = "wait" /\ dpc' = "join" /\ exitEvent /\ stopSent' = stopSent
          \/ /\ dpc \in {"join", "close", "joinAlive", "closeEvent"}
             /\ dpc' \in {"close", "joinAlive", "closeEvent", "freed"}
             /\ stopSent' = stopSent
      BY <1>2, Zenon DEF DropStep, DropNudge, DropReady, DropStop, DropCancel, DropWait, DropJoin,
         DropClose, DropJoinAlive, DropCloseEvent, DropGoes, Owned, DropBegin, SetProcess
    <2> QED
      BY <2>1, <2>2
  <1>3. CASE WatcherStep \/ EnvStep \/ (\E u \in Users : UserReturns(u)) \/ Called
             \/ UNCHANGED vars
    <2>1. /\ UNCHANGED <<rpc, ready, exitEvent, dpc, stopSent>>
          /\ io # "idle" => io' # "idle"
      <3>1. CASE WatcherStep
        BY <3>1 DEF WatcherStep, WatcherRecv, WatcherCall, WatcherChildExited,
           WatcherSignalled, WatcherTimeout, WatcherCancel, WatcherSignal, WatcherGoes,
           CancelIoEx
      <3>2. CASE EnvStep \/ UNCHANGED vars
        BY <3>2 DEF EnvStep, HostFlush, HostClose, AgentFreed, ChildWrite, ChildExit
      <3>3. ASSUME NEW u \in Users, UserReturns(u) \/ UserCalls(u)
            PROVE  /\ UNCHANGED <<rpc, ready, exitEvent, dpc, stopSent>>
                   /\ io # "idle" => io' # "idle"
        BY <3>3 DEF UserReturns, UserCalls, ReadReturn, EofAlive, EofQueue, EofAtomic,
           ReadStart, TryRead, EofPeek, CancelIo, CancelIoEx
      <3> QED
        BY <1>3, <3>1, <3>2, <3>3 DEF Called
    <2> QED
      BY <2>1
  <1> QED
    BY <1>1, <1>2, <1>3 DEF Next, Internal

(* Reader, watcher and drop never wait on one another (base.rs, the spin,   *)
(* the stop and its repeated cancel, the exit event): what makes drop end   *)
(* when each of them goes on.                                               *)
THEOREM NobodyWaits == Spec => []NobodyWaitsInVain
  <1>1. Init => HeardInv
    BY DEF Init, HeardInv, NobodyWaitsInVain
  <1>2. HeardInv => NobodyWaitsInVain
    BY DEF HeardInv
  <1> QED
    BY <1>1, <1>2, HeardStep, TypeCorrect, PTL DEF Spec
=============================================================================
