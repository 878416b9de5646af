--------------------------- MODULE PTYOutput_proofs ---------------------------
(***************************************************************************)
(* Proofs about what PTYProcess says of the output and of the child's end, *)
(* for all values of its constants: the end mark is the last message, end  *)
(* of file is said only of a child that is gone, a true is_eof means an    *)
(* empty pipe, an asynchronous reader that was not cancelled drains, and   *)
(* no reader is stopped while its child runs.                              *)
(***************************************************************************)
EXTENDS PTYProcess_proofs

USE DEF vars, readerVars, watchVars, ownerVars, userVars, chanVars, flagVars, kernelVars,
        hostVars, histVars, readerFrame, watcherFrame, dropFrame, userFrame, hostFrame,
        NoProc

(* The types with the strengthening that makes them inductive.              *)
LEMMA TypeInvCorrect == Spec => []TypeInv
  <1>1. TypeInv /\ [Next]_vars => TypeInv'
    <2> SUFFICES ASSUME TypeInv, [Next]_vars PROVE TypeInv'
      OBVIOUS
    <2>1. CASE Internal
      BY <2>1, ReaderTypeInv, WatcherTypeInv, DropTypeInv, EnvTypeInv, UserTypeInv
         DEF Internal
    <2>2. CASE Owned \/ Called
      BY <2>2, OwnedTypeInv, UserTypeInv DEF Called
    <2>3. CASE UNCHANGED vars
      BY <2>3 DEF TypeInv, TypeOK
    <2> QED
      BY <2>1, <2>2, <2>3 DEF Next
  <1> QED
    BY InitTypeInv, <1>1, PTL DEF Spec

-----------------------------------------------------------------------------
(* The host closes its end when it holds nothing and no child is alive, and *)
(* from then on neither changes, unless winpty_free ended it in a drop; a   *)
(* read waits only on an empty pipe, and breaks only with the far end gone. *)
HostInv ==
    /\ ~hostOpen => \/ ~Async /\ dpc # "live"
                    \/ hostBuf = 0 /\ \A p \in Procs : child[p] # "alive"
    /\ io = "pending" => pipe = 0
    /\ io = "broken" => ~hostOpen /\ ~farEnd /\ pipe = 0

(* PTYProcess::new begins with an open host and no read.                    *)
LEMMA InitHost == Init => HostInv
  BY DEF Init, HostInv

(* No step of any thread breaks what host and pipe keep between them.       *)
LEMMA HostStep == TypeOK /\ HostInv /\ [Next]_vars => HostInv'
  <1> SUFFICES ASSUME TypeOK, HostInv, [Next]_vars PROVE HostInv'
    OBVIOUS
  <1> USE DEF HostInv, TypeOK
  <1>1. CASE ReaderStep
    <2>1. CASE ReadFile
      BY <2>1 DEF ReadFile
    <2>2. CASE ReadWakes
      BY <2>2 DEF ReadWakes
    <2> QED
      BY <1>1, <2>1, <2>2 DEF ReaderStep, ReaderRecv, ReaderReady, AsyncForward, SyncPoll,
         SyncPeek, SyncAlive, AsyncSend, SyncSend, ReaderAtomic, ReaderSetEvent, ReaderExit
  <1>2. CASE WatcherStep
    BY <1>2 DEF WatcherStep, WatcherRecv, WatcherCall, WatcherChildExited, WatcherSignalled,
       WatcherTimeout, WatcherCancel, WatcherSignal, WatcherGoes, CancelIoEx
  <1>3. CASE DropStep \/ DropBegin
    BY <1>3 DEF DropStep, DropNudge, DropReady, DropStop, DropCancel, DropWait, DropJoin,
       DropClose, DropJoinAlive, DropCloseEvent, DropGoes, DropBegin, CancelIoEx
  <1>4. ASSUME NEW p \in Procs, SetProcess(p) PROVE HostInv'
    BY <1>4 DEF SetProcess
  <1>5. ASSUME NEW u \in Users, UserReturns(u) \/ UserCalls(u) PROVE HostInv'
    BY <1>5 DEF UserReturns, UserCalls, ReadReturn, EofAlive, EofQueue, EofAtomic, ReadStart,
       TryRead, EofPeek, CancelIo, CancelIoEx
  <1>6. CASE HostFlush
    BY <1>6 DEF HostFlush
  <1>7. CASE HostClose \/ AgentFreed
    BY <1>7 DEF HostClose, AgentFreed
  <1>8. ASSUME NEW p \in Procs, ChildWrite(p) \/ ChildExit(p) PROVE HostInv'
    BY <1>8 DEF ChildWrite, ChildExit
  <1>9. CASE UNCHANGED vars
    BY <1>9
  <1> QED
    BY <1>1, <1>2, <1>3, <1>4, <1>5, <1>6, <1>7, <1>8, <1>9
       DEF Next, Owned, Called, Internal, EnvStep

(* The host closes only when its children are gone or the PTY is dropped,   *)
(* in every behaviour.                                                      *)
LEMMA HostCorrect == Spec => []HostInv
  BY InitHost, HostStep, TypeCorrect, PTL DEF Spec

(* All output has left the host and the pipe, whose far end nobody holds;   *)
(* nothing can follow.                                                      *)
Drained == ~hostOpen /\ ~farEnd /\ hostBuf = 0 /\ pipe = 0

(* The ERROR_BROKEN_PIPE that is_eof tests for means that nothing is left,  *)
(* except in a drop of WinPTY.                                              *)
LEMMA BrokenIsDrained == HostInv /\ Broken /\ (Async \/ dpc = "live") => Drained
  BY DEF HostInv, Broken, Drained

LEMMA DrainedStays == TypeOK /\ Drained /\ [Next]_vars => Drained'
  <1> SUFFICES ASSUME TypeOK, Drained, [Next]_vars PROVE Drained'
    OBVIOUS
  <1> USE DEF Drained, TypeOK
  <1>1. CASE ReaderStep
    BY <1>1 DEF ReaderStep, ReaderRecv, ReaderReady, AsyncForward, SyncPoll, SyncPeek,
       SyncAlive, ReadFile, ReadWakes, AsyncSend, SyncSend, ReaderAtomic, ReaderSetEvent,
       ReaderExit
  <1>2. CASE WatcherStep
    BY <1>2 DEF WatcherStep, WatcherRecv, WatcherCall, WatcherChildExited, WatcherSignalled,
       WatcherTimeout, WatcherCancel, WatcherSignal, WatcherGoes
  <1>3. CASE DropStep \/ DropBegin
    BY <1>3 DEF DropStep, DropNudge, DropReady, DropStop, DropCancel, DropWait, DropJoin,
       DropClose, DropJoinAlive, DropCloseEvent, DropGoes, DropBegin
  <1>4. ASSUME NEW p \in Procs, SetProcess(p) \/ ChildWrite(p) \/ ChildExit(p) PROVE Drained'
    BY <1>4 DEF SetProcess, ChildWrite, ChildExit
  <1>5. ASSUME NEW u \in Users, UserReturns(u) \/ UserCalls(u) PROVE Drained'
    BY <1>5 DEF UserReturns, UserCalls, ReadReturn, EofAlive, EofQueue, EofAtomic, ReadStart,
       TryRead, EofPeek, CancelIo
  <1>6. CASE HostFlush \/ HostClose \/ AgentFreed \/ UNCHANGED vars
    BY <1>6 DEF HostFlush, HostClose, AgentFreed
  <1> QED
    BY <1>1, <1>2, <1>3, <1>4, <1>5, <1>6 DEF Next, Owned, Called, Internal, EnvStep

-----------------------------------------------------------------------------
(* A positive is_eof in the making saw a broken pipe.                       *)
VerdictInv ==
    /\ \A u \in Users : upc[u] \in {"eofAlive", "eofQueue", "eofAtomic"} /\ ~uacc[u] => Drained
    /\ ret = "true" => Drained /\ ~atomic

(* No step of a caller, the reader or another caller spoils a verdict.      *)
LEMMA VerdictStep == TypeInv /\ HostInv /\ VerdictInv /\ [Next]_vars => VerdictInv'
  <1> SUFFICES ASSUME TypeInv, HostInv, VerdictInv, [Next]_vars PROVE VerdictInv'
    OBVIOUS
  <1> USE DEF VerdictInv
  <1>1. Drained => Drained'
    BY DrainedStays DEF TypeInv
  <1>2. ~atomic => ~atomic'
    BY DEF Next, Owned, Called, Internal, EnvStep, ReaderStep, ReaderRecv, ReaderReady,
       AsyncForward, SyncPoll, SyncPeek, SyncAlive, ReadFile, ReadWakes, AsyncSend, SyncSend,
       ReaderAtomic, ReaderSetEvent, ReaderExit, WatcherStep, WatcherRecv, WatcherCall,
       WatcherChildExited, WatcherSignalled, WatcherTimeout, WatcherCancel, WatcherSignal,
       WatcherGoes, DropStep, DropNudge, DropReady, DropStop, DropCancel, DropWait, DropJoin,
       DropClose, DropJoinAlive, DropCloseEvent, DropGoes, DropBegin, SetProcess, UserReturns,
       UserCalls, ReadReturn, EofAlive, EofQueue, EofAtomic, ReadStart, TryRead, EofPeek,
       CancelIo, HostFlush, HostClose, AgentFreed, ChildWrite, ChildExit
  <1>3. CASE UNCHANGED <<upc, uacc, ret>>
    BY <1>1, <1>2, <1>3
  <1>4. ASSUME NEW u \in Users, ReadReturn(u) \/ TryRead(u) PROVE VerdictInv'
    <2>1. Take(u) => ret' # "true"
      <3>1. out # <<>> => Head(out) \in Items
        BY DEF TypeInv, TypeOK
      <3> QED
        BY <3>1 DEF Take, Items
    <2>2. ret' # "true"
      BY <1>4, <2>1 DEF ReadReturn, TryRead
    <2>3. \A v \in Users : upc'[v] \in {upc[v], "idle"} /\ uacc'[v] = uacc[v]
      BY <1>4 DEF ReadReturn, TryRead, TypeInv, TypeOK
    <2> QED
      BY <1>1, <2>2, <2>3
  <1>5. ASSUME NEW u \in Users, ReadStart(u) \/ CancelIo(u) PROVE VerdictInv'
    <2>1. ret' # "true" \/ ret' = ret
      BY <1>5 DEF ReadStart, CancelIo
    <2>2. \A v \in Users : upc'[v] \in {upc[v], "read"} /\ uacc'[v] = uacc[v]
      BY <1>5 DEF ReadStart, CancelIo, TypeInv, TypeOK
    <2> QED
      BY <1>1, <1>2, <2>1, <2>2
  <1>6. ASSUME NEW u \in Users, EofPeek(u) PROVE VerdictInv'
    <2>1. uacc'[u] = ~Broken
      BY <1>6 DEF EofPeek, TypeInv, TypeOK
    <2>2. \A v \in Users : v # u => upc'[v] = upc[v] /\ uacc'[v] = uacc[v]
      BY <1>6 DEF EofPeek, TypeInv, TypeOK
    <2> QED
      BY <1>1, <1>2, <1>6, <2>1, <2>2, BrokenIsDrained DEF EofPeek
  <1>7. ASSUME NEW u \in Users, EofAlive(u) \/ EofQueue(u) PROVE VerdictInv'
    <2>1. ~uacc'[u] => ~uacc[u] \/ upc'[u] = "idle"
      BY <1>7 DEF EofAlive, EofQueue, TypeInv, TypeOK
    <2>2. upc[u] \in {"eofAlive", "eofQueue"} /\ (ret' = "err" \/ ret' = ret)
      BY <1>7 DEF EofAlive, EofQueue
    <2>3. \A v \in Users : v # u => upc'[v] = upc[v] /\ uacc'[v] = uacc[v]
      BY <1>7 DEF EofAlive, EofQueue, TypeInv, TypeOK
    <2> QED
      BY <1>1, <1>2, <2>1, <2>2, <2>3
  <1>8. ASSUME NEW u \in Users, EofAtomic(u) PROVE VerdictInv'
    <2>1. upc[u] = "eofAtomic" /\ upc'[u] = "idle"
      BY <1>8 DEF EofAtomic, TypeInv, TypeOK
    <2>2. ret' = "true" => ~uacc[u] /\ ~atomic
      BY <1>8 DEF EofAtomic
    <2>3. \A v \in Users : v # u => upc'[v] = upc[v] /\ uacc'[v] = uacc[v]
      BY <1>8 DEF EofAtomic, TypeInv, TypeOK
    <2> QED
      BY <1>1, <1>2, <2>1, <2>2, <2>3
  <1>9. CASE Owned \/ ReaderStep \/ WatcherStep \/ DropStep \/ EnvStep \/ UNCHANGED vars
    <2>1. UNCHANGED <<upc, uacc, ret>>
      BY <1>9 DEF Owned, EnvStep, ReaderStep, ReaderRecv, ReaderReady, AsyncForward, SyncPoll,
         SyncPeek, SyncAlive, ReadFile, ReadWakes, AsyncSend, SyncSend, ReaderAtomic,
         ReaderSetEvent, ReaderExit, WatcherStep, WatcherRecv, WatcherCall,
         WatcherChildExited, WatcherSignalled, WatcherTimeout, WatcherCancel, WatcherSignal,
         WatcherGoes, DropStep, DropNudge, DropReady, DropStop, DropCancel, DropWait, DropJoin,
         DropClose, DropJoinAlive, DropCloseEvent, DropGoes, DropBegin, SetProcess, HostFlush,
         HostClose, AgentFreed, ChildWrite, ChildExit
    <2> QED
      BY <2>1, <1>3
  <1> QED
    BY <1>4, <1>5, <1>6, <1>7, <1>8, <1>9 DEF Next, Called, Internal, UserReturns, UserCalls

(* is_eof (base.rs:799-834) answers true only when pipe and host are empty  *)
(* for good and the reader has reported its end, whatever it raced with.    *)
THEOREM TrueVerdictMeansEmptyPipe == Spec => []EofVerdictMeansPipeEmpty
  <1>1. Init => VerdictInv
    BY DEF Init, VerdictInv
  <1>2. VerdictInv => EofVerdictMeansPipeEmpty
    BY DEF VerdictInv, Drained, EofVerdictMeansPipeEmpty
  <1> QED
    BY <1>1, <1>2, VerdictStep, TypeInvCorrect, HostCorrect, PTL DEF Spec

-----------------------------------------------------------------------------
(* Whatever ends an asynchronous read without data is a cancel that hit it  *)
(* or a drained pipe.                                                       *)
DrainInv ==
    /\ io = "cancelled" => struck
    /\ Async => rres # "eof"
    /\ Async /\ ~struck /\ rres \in {"err", "empty"} => Drained
    /\ Async /\ ~struck /\ PastLoop /\ rproc # NoProc => Drained

(* No step gives an asynchronous reader another reason to end its loop.     *)
LEMMA DrainStep == TypeInv /\ HostInv /\ DrainInv /\ [Next]_vars => DrainInv'
  <1> SUFFICES ASSUME TypeInv, HostInv, DrainInv, [Next]_vars PROVE DrainInv'
    OBVIOUS
  <1> USE DEF DrainInv, PastLoop
  <1>1. Drained => Drained'
    BY DrainedStays DEF TypeInv
  <1>2. CASE ReaderRecv \/ ReaderReady \/ AsyncForward
    <2>1. rpc' \in {"ready", "forward", "poll", "issue"} \/ rproc = NoProc
      BY <1>2 DEF ReaderRecv, ReaderReady, AsyncForward
    <2> QED
      BY <1>1, <1>2, <2>1 DEF ReaderRecv, ReaderReady, AsyncForward
  <1>3. CASE SyncPoll \/ SyncPeek \/ SyncAlive \/ SyncSend
    <2>1. ~Async
      BY <1>3 DEF SyncPoll, SyncPeek, SyncAlive, SyncSend, TypeInv, TypeOK
    <2> QED
      BY <1>3, <2>1 DEF SyncPoll, SyncPeek, SyncAlive, SyncSend
  <1>4. CASE ReadFile
    BY <1>1, <1>4, BrokenIsDrained DEF ReadFile, BrokenResults
  <1>5. CASE ReadWakes
    <2>1. io \in {"data", "broken", "cancelled"} /\ rpc' = "send" /\ io' = "idle"
          /\ UNCHANGED <<struck, hostOpen, farEnd, hostBuf, pipe>>
      BY <1>5 DEF ReadWakes, TypeInv, TypeOK
    <2>2. io = "data" => rres' = "data"
      BY <1>5 DEF ReadWakes
    <2>3. io = "broken" => rres' \in {"err", "empty"} /\ (Async => Drained')
      BY <1>5, <2>1 DEF ReadWakes, HostInv, Drained, BrokenResults
    <2>4. io = "cancelled" => rres' = "err" /\ struck'
      BY <1>5, <2>1 DEF ReadWakes
    <2> QED
      BY <2>1, <2>2, <2>3, <2>4
  <1>6. CASE AsyncSend
    <2>1. rres \in Items /\ rres' = "none" /\ UNCHANGED <<io, struck, rproc>>
          /\ (rres # "data" \/ rpc' = "issue")
      BY <1>6 DEF AsyncSend, TypeInv
    <2> QED
      BY <1>1, <2>1 DEF Items
  <1>7. CASE ReaderAtomic \/ ReaderSetEvent \/ ReaderExit
    BY <1>1, <1>7 DEF ReaderAtomic, ReaderSetEvent, ReaderExit
  <1>8. CASE WatcherStep \/ DropStep
    <2>1. UNCHANGED <<rpc, rproc, rres>>
          /\ (UNCHANGED <<io, struck>> \/ CancelIoEx)
      BY <1>8 DEF WatcherStep, WatcherRecv, WatcherCall, WatcherChildExited,
         WatcherSignalled, WatcherTimeout, WatcherCancel, WatcherSignal, WatcherGoes,
         DropStep, DropNudge, DropReady, DropStop, DropCancel, DropWait, DropJoin, DropClose,
         DropJoinAlive, DropCloseEvent, DropGoes
    <2> QED
      BY <1>1, <2>1 DEF CancelIoEx
  <1>9. ASSUME NEW u \in Users, UserReturns(u) \/ UserCalls(u) PROVE DrainInv'
    <2>1. UNCHANGED <<rpc, rproc, rres>>
          /\ (UNCHANGED <<io, struck>> \/ CancelIoEx)
      BY <1>9 DEF UserReturns, UserCalls, ReadReturn, EofAlive, EofQueue, EofAtomic,
         ReadStart, TryRead, EofPeek, CancelIo
    <2> QED
      BY <1>1, <2>1 DEF CancelIoEx
  <1>10. CASE Owned \/ EnvStep \/ UNCHANGED vars
    <2>1. UNCHANGED <<rpc, rproc, rres, struck>> /\ (io' = io \/ io' \in {"data", "broken"})
      BY <1>10 DEF Owned, DropBegin, DropGoes, SetProcess, EnvStep, HostFlush, HostClose,
         AgentFreed, ChildWrite, ChildExit
    <2> QED
      BY <1>1, <2>1
  <1> QED
    BY <1>2, <1>3, <1>4, <1>5, <1>6, <1>7, <1>8, <1>9, <1>10
       DEF Next, Called, Internal, ReaderStep

(* An asynchronous reader that nothing cancelled has read all there was     *)
(* when its loop ends (base.rs:571-587).                                    *)
THEOREM UncancelledDrains == Spec => []UncancelledReaderDrains
  <1>1. Init => DrainInv
    BY DEF Init, DrainInv, PastLoop
  <1>2. DrainInv => UncancelledReaderDrains
    BY DEF DrainInv, Drained, UncancelledReaderDrains
  <1> QED
    BY <1>1, <1>2, DrainStep, TypeInvCorrect, HostCorrect, PTL DEF Spec

-----------------------------------------------------------------------------
(* Every handle the reader is given is that of a child, and it keeps the    *)
(* first one.                                                               *)
ServeInv ==
    /\ \A i \in 1..Len(procQ) : procQ[i] # NoProc => child[procQ[i]] # "none"
    /\ rproc # NoProc => child[rproc] # "none"
    /\ rpc \in {"forward", "poll", "peek", "alive", "issue", "wait", "send"}
         => rproc # NoProc

(* A child that exists does not become one that does not; a dead one stays  *)
(* dead.                                                                    *)
LEMMA ChildrenStay ==
  ASSUME TypeInv, [Next]_vars, NEW p \in Procs
  PROVE  /\ child[p] # "none" => child'[p] # "none"
         /\ child[p] = "dead" => child'[p] = "dead"
  <1> USE DEF TypeInv, TypeOK
  <1>1. CASE child' = child
    BY <1>1
  <1>2. ASSUME NEW q \in Procs, SetProcess(q) \/ ChildExit(q)
        PROVE  /\ child[p] # "none" => child'[p] # "none"
               /\ child[p] = "dead" => child'[p] = "dead"
    BY <1>2 DEF SetProcess, ChildExit, NextProc
  <1>3. ASSUME NEW u \in Users, UserReturns(u) \/ UserCalls(u) PROVE child' = child
    BY <1>3 DEF UserReturns, UserCalls, ReadReturn, EofAlive, EofQueue, EofAtomic, ReadStart,
       TryRead, EofPeek, CancelIo
  <1>4. CASE ReaderStep \/ WatcherStep \/ DropStep \/ DropBegin \/ HostFlush \/ HostClose \/ AgentFreed
             \/ (\E q \in Procs : ChildWrite(q)) \/ UNCHANGED vars
    <2>1. child' = child
      BY <1>4 DEF ReaderStep, ReaderRecv, ReaderReady, AsyncForward, SyncPoll, SyncPeek,
         SyncAlive, ReadFile, ReadWakes, AsyncSend, SyncSend, ReaderAtomic, ReaderSetEvent,
         ReaderExit, WatcherStep, WatcherRecv, WatcherCall, WatcherChildExited,
         WatcherSignalled, WatcherTimeout, WatcherCancel, WatcherSignal, WatcherGoes, DropStep,
         DropNudge, DropReady, DropStop, DropCancel, DropWait, DropJoin, DropClose,
         DropJoinAlive, DropCloseEvent, DropGoes, DropBegin, HostFlush, HostClose, AgentFreed, ChildWrite
    <2> QED
      BY <2>1
  <1> QED
    BY <1>1, <1>2, <1>3, <1>4 DEF Next, Owned, Called, Internal, EnvStep

(* Handles reach the reader only from set_process and from drop.            *)
LEMMA ServeStep == TypeInv /\ ServeInv /\ [Next]_vars => ServeInv'
  <1> SUFFICES ASSUME TypeInv, ServeInv, [Next]_vars PROVE ServeInv'
    OBVIOUS
  <1> USE DEF ServeInv
  <1>1. \A p \in Procs : child[p] # "none" => child'[p] # "none"
    BY ChildrenStay
  <1>2. rproc \in Procs \cup {NoProc} /\ procQ \in Seq(Procs \cup {NoProc})
        /\ \A i \in 1..Len(procQ) : procQ[i] \in Procs \cup {NoProc}
    BY DEF TypeInv, TypeOK
  <1>3. CASE ReaderRecv
    <2>1. procQ # <<>> /\ procQ' = Tail(procQ) /\ rproc' = Head(procQ) /\ rpc' = "ready"
      BY <1>3 DEF ReaderRecv
    <2>2. Head(procQ) = procQ[1] /\ 1 \in 1..Len(procQ)
          /\ \A i \in 1..Len(procQ') : procQ'[i] = procQ[i + 1] /\ i + 1 \in 1..Len(procQ)
      BY <1>2, <2>1
    <2> QED
      BY <1>1, <1>2, <2>1, <2>2
  <1>4. ASSUME NEW p \in Procs, SetProcess(p) PROVE ServeInv'
    <2>1. child'[p] = "alive" /\ UNCHANGED <<rpc, rproc>>
          /\ (procQ' = procQ \/ procQ' = Append(procQ, p))
      BY <1>4 DEF SetProcess, TypeInv, TypeOK
    <2>2. \A i \in 1..Len(procQ') : procQ'[i] = p \/ (i \in 1..Len(procQ) /\ procQ'[i] = procQ[i])
      BY <1>2, <2>1
    <2> QED
      BY <1>1, <1>2, <2>1, <2>2
  <1>5. CASE DropNudge
    <2>1. UNCHANGED <<rpc, rproc>> /\ (procQ' = procQ \/ procQ' = Append(procQ, NoProc))
      BY <1>5 DEF DropNudge
    <2>2. \A i \in 1..Len(procQ') :
             procQ'[i] = NoProc \/ (i \in 1..Len(procQ) /\ procQ'[i] = procQ[i])
      BY <1>2, <2>1
    <2> QED
      BY <1>1, <1>2, <2>1, <2>2
  <1>6. CASE ReaderReady
    BY <1>1, <1>2, <1>6 DEF ReaderReady
  <1>7. CASE \/ AsyncForward \/ SyncPoll \/ SyncPeek \/ SyncAlive \/ ReadFile \/ ReadWakes
             \/ AsyncSend \/ SyncSend \/ ReaderAtomic \/ ReaderSetEvent \/ ReaderExit
    <2>1. UNCHANGED <<rproc, procQ>>
          /\ (rpc' \in {"atomic", "event", "exit", "done"} \/ rproc # NoProc)
      BY <1>7 DEF AsyncForward, SyncPoll, SyncPeek, SyncAlive, ReadFile, ReadWakes, AsyncSend,
         SyncSend, ReaderAtomic, ReaderSetEvent, ReaderExit
    <2> QED
      BY <1>1, <1>2, <2>1
  <1>8. ASSUME NEW u \in Users, UserReturns(u) \/ UserCalls(u) PROVE ServeInv'
    <2>1. UNCHANGED <<rpc, rproc, procQ>>
      BY <1>8 DEF UserReturns, UserCalls, ReadReturn, EofAlive, EofQueue, EofAtomic,
         ReadStart, TryRead, EofPeek, CancelIo
    <2> QED
      BY <1>1, <1>2, <2>1
  <1>9. CASE \/ WatcherStep \/ DropReady \/ DropStop \/ DropCancel \/ DropWait \/ DropJoin
             \/ DropClose \/ DropJoinAlive \/ DropCloseEvent \/ DropBegin \/ EnvStep
             \/ UNCHANGED vars
    <2>1. UNCHANGED <<rpc, rproc, procQ>>
      BY <1>9 DEF WatcherStep, WatcherRecv, WatcherCall, WatcherChildExited,
         WatcherSignalled, WatcherTimeout, WatcherCancel, WatcherSignal, WatcherGoes,
         DropReady, DropStop, DropCancel, DropWait, DropJoin, DropClose, DropJoinAlive,
         DropCloseEvent, DropGoes, DropBegin, EnvStep, HostFlush, HostClose, AgentFreed, ChildWrite,
         ChildExit
    <2> QED
      BY <1>1, <1>2, <2>1
  <1> QED
    BY <1>3, <1>4, <1>5, <1>6, <1>7, <1>8, <1>9
       DEF Next, Owned, Called, Internal, ReaderStep, DropStep

(* The reader serves a child that was started, in every behaviour.          *)
LEMMA ServeCorrect == Spec => []ServeInv
  <1>1. Init => ServeInv
    BY DEF Init, ServeInv
  <1> QED
    BY <1>1, ServeStep, TypeInvCorrect, PTL DEF Spec

-----------------------------------------------------------------------------
(* The channel changes only by a send of the reader or by a caller that     *)
(* takes its head.                                                          *)
LEMMA ChannelStep ==
  ASSUME TypeInv, [Next]_vars
  PROVE  \/ out' = out /\ ret' \notin {"eof"} \ {ret}
         \/ out # <<>> /\ out' = Tail(out) /\ ret' = Head(out) /\ UNCHANGED <<rpc, rproc, rres>>
         \/ (AsyncSend \/ SyncSend) /\ ret' = ret
  <1>1. CASE ReaderStep
    BY <1>1 DEF ReaderStep, ReaderRecv, ReaderReady, AsyncForward, SyncPoll, SyncPeek,
       SyncAlive, ReadFile, ReadWakes, AsyncSend, SyncSend, ReaderAtomic, ReaderSetEvent,
       ReaderExit
  <1>2. CASE WatcherStep \/ DropStep \/ Owned \/ EnvStep \/ UNCHANGED vars
    <2>1. out' = out /\ ret' = ret
      BY <1>2 DEF WatcherStep, WatcherRecv, WatcherCall, WatcherChildExited, WatcherSignalled,
         WatcherTimeout, WatcherCancel, WatcherSignal, WatcherGoes, DropStep, DropNudge,
         DropReady, DropStop, DropCancel, DropWait, DropJoin, DropClose, DropJoinAlive,
         DropCloseEvent, DropGoes, Owned, DropBegin, SetProcess, EnvStep, HostFlush, HostClose, AgentFreed,
         ChildWrite, ChildExit
    <2> QED
      BY <2>1
  <1>3. ASSUME NEW u \in Users, UserReturns(u) \/ UserCalls(u)
        PROVE  \/ out' = out /\ (ret' = ret \/ ret' # "eof")
               \/ out # <<>> /\ out' = Tail(out) /\ ret' = Head(out)
                    /\ UNCHANGED <<rpc, rproc, rres>>
    BY <1>3 DEF UserReturns, UserCalls, ReadReturn, EofAlive, EofQueue, EofAtomic, ReadStart,
       TryRead, EofPeek, CancelIo, Take
  <1> QED
    BY <1>1, <1>2, <1>3 DEF Next, Called, Internal

(* The reader's loop, once left, is not entered again.                      *)
LEMMA PastLoopStays == PastLoop /\ [Next]_vars => PastLoop'
  <1> SUFFICES ASSUME PastLoop, [Next]_vars PROVE PastLoop'
    OBVIOUS
  <1> USE DEF PastLoop
  <1>1. CASE ReaderStep
    BY <1>1 DEF ReaderStep, ReaderRecv, ReaderReady, AsyncForward, SyncPoll, SyncPeek,
       SyncAlive, ReadFile, ReadWakes, AsyncSend, SyncSend, ReaderAtomic, ReaderSetEvent,
       ReaderExit
  <1>2. CASE WatcherStep \/ DropStep \/ Owned \/ EnvStep \/ UNCHANGED vars
    BY <1>2 DEF WatcherStep, WatcherRecv, WatcherCall, WatcherChildExited, WatcherSignalled,
       WatcherTimeout, WatcherCancel, WatcherSignal, WatcherGoes, DropStep, DropNudge,
       DropReady, DropStop, DropCancel, DropWait, DropJoin, DropClose, DropJoinAlive,
       DropCloseEvent, DropGoes, Owned, DropBegin, SetProcess, EnvStep, HostFlush, HostClose, AgentFreed,
       ChildWrite, ChildExit
  <1>3. ASSUME NEW u \in Users, UserReturns(u) \/ UserCalls(u) PROVE PastLoop'
    BY <1>3 DEF UserReturns, UserCalls, ReadReturn, EofAlive, EofQueue, EofAtomic, ReadStart,
       TryRead, EofPeek, CancelIo
  <1> QED
    BY <1>1, <1>2, <1>3 DEF Next, Called, Internal

(* Only the reader queues, and it queues nothing after an end of file.      *)
LEMMA EndMarkStep == TypeInv /\ EndMarkIsLast /\ [Next]_vars => EndMarkIsLast'
  <1> SUFFICES ASSUME TypeInv, EndMarkIsLast, [Next]_vars PROVE EndMarkIsLast'
    OBVIOUS
  <1> USE DEF EndMarkIsLast
  <1>1. out \in Seq(Items)
    BY DEF TypeInv, TypeOK
  <1>2. PastLoop => PastLoop'
    BY PastLoopStays
  <1>3. CASE out' = out
    BY <1>2, <1>3
  <1>4. CASE out # <<>> /\ out' = Tail(out)
    <2>1. Len(out') = Len(out) - 1
          /\ \A i \in 1..Len(out') : out'[i] = out[i + 1] /\ i + 1 \in 1..Len(out)
      BY <1>1, <1>4
    <2>2. Len(out) \in Nat
      BY <1>1
    <2> QED
      BY <1>2, <2>1, <2>2
  <1>5. CASE AsyncSend \/ SyncSend
    <2>1. rpc = "send" /\ out' = Append(out, rres)
      BY <1>5 DEF AsyncSend, SyncSend
    <2>2. Len(out) \in Nat /\ Len(out') = Len(out) + 1 /\ out'[Len(out')] = rres
          /\ \A i \in 1..Len(out) : out'[i] = out[i]
      BY <1>1, <2>1 DEF TypeInv
    <2>3. \A i \in 1..Len(out) : out[i] \notin EndMarks
      BY <2>1 DEF PastLoop
    <2>4. rres \in EndMarks => PastLoop'
      BY <1>5 DEF AsyncSend, SyncSend, EndMarks, PastLoop, TypeInv
    <2> QED
      BY <2>2, <2>3, <2>4
  <1> QED
    BY <1>3, <1>4, <1>5, ChannelStep

(* The message that ends the reader's loop is the last one (base.rs:484-500 *)
(* and 571-587): nobody reads output after the end of file.                 *)
THEOREM NothingFollowsTheEnd == Spec => []EndMarkIsLast
  <1>1. Init => EndMarkIsLast
    BY DEF Init, EndMarkIsLast
  <1> QED
    BY <1>1, EndMarkStep, TypeInvCorrect, PTL DEF Spec

-----------------------------------------------------------------------------
(* End of file in the reader's hand, in the channel or with a caller is     *)
(* that of the process the reader serves, which is dead, or comes from the  *)
(* pipe that a drop of WinPTY has ended.                                    *)
EofAbout ==
    \/ rres = "eof" \/ ret = "eof"
    \/ \E i \in 1..Len(out) : out[i] = "eof"
EofInv ==
    EofAbout => rproc # NoProc /\ rpc # "recv" /\ (child[rproc] = "dead" \/ dpc # "live")

(* A drop that has begun does not end in a live struct.                     *)
LEMMA OnceDropped == ASSUME [Next]_vars, dpc # "live" PROVE dpc' # "live"
  <1>1. CASE ReaderStep \/ WatcherStep \/ EnvStep \/ UNCHANGED vars
    BY <1>1 DEF ReaderStep, ReaderRecv, ReaderReady, AsyncForward, SyncPoll, SyncPeek,
       SyncAlive, ReadFile, ReadWakes, AsyncSend, SyncSend, ReaderAtomic, ReaderSetEvent,
       ReaderExit, WatcherStep, WatcherRecv, WatcherCall, WatcherChildExited,
       WatcherSignalled, WatcherTimeout, WatcherCancel, WatcherSignal, WatcherGoes,
       EnvStep, HostFlush, HostClose, AgentFreed, ChildWrite, ChildExit
  <1>2. CASE DropStep \/ Owned
    BY <1>2 DEF DropStep, DropNudge, DropReady, DropStop, DropCancel, DropWait, DropJoin,
       DropClose, DropJoinAlive, DropCloseEvent, DropGoes, Owned, DropBegin, SetProcess
  <1>3. ASSUME NEW u \in Users, UserReturns(u) \/ UserCalls(u) PROVE dpc' = dpc
    BY <1>3 DEF UserReturns, UserCalls, ReadReturn, EofAlive, EofQueue, EofAtomic, ReadStart,
       TryRead, EofPeek, CancelIo
  <1> QED
    BY <1>1, <1>2, <1>3 DEF Next, Called, Internal

(* An end of file comes from is_eof(process, stream), and then stays true.  *)
LEMMA EofStep == TypeInv /\ HostInv /\ ServeInv /\ EofInv /\ [Next]_vars => EofInv'
  <1> SUFFICES ASSUME TypeInv, HostInv, ServeInv, EofInv, [Next]_vars, EofAbout'
               PROVE  /\ rproc' # NoProc /\ rpc' # "recv"
                      /\ child'[rproc'] = "dead" \/ dpc' # "live"
    BY DEF EofInv
  <1>1. out \in Seq(Items) /\ rproc \in Procs \cup {NoProc}
        /\ \A p \in Procs : child[p] \in {"none", "alive", "dead"}
    BY DEF TypeInv, TypeOK
  <1>2. CASE EofAbout
    <2>1. /\ rproc \in Procs /\ rproc # NoProc /\ rpc # "recv"
          /\ child'[rproc] = "dead" \/ dpc' # "live"
      BY <1>1, <1>2, ChildrenStay, OnceDropped DEF EofInv
    <2>2. rproc' = rproc /\ rpc' # "recv"
      <3>1. CASE ReaderStep
        BY <3>1, <2>1 DEF ReaderStep, ReaderRecv, ReaderReady, AsyncForward, SyncPoll,
           SyncPeek, SyncAlive, ReadFile, ReadWakes, AsyncSend, SyncSend, ReaderAtomic,
           ReaderSetEvent, ReaderExit
      <3>2. CASE WatcherStep \/ DropStep \/ Owned \/ EnvStep \/ UNCHANGED vars
        BY <3>2, <2>1 DEF WatcherStep, WatcherRecv, WatcherCall, WatcherChildExited,
           WatcherSignalled, WatcherTimeout, WatcherCancel, WatcherSignal, WatcherGoes,
           DropStep, DropNudge, DropReady, DropStop, DropCancel, DropWait, DropJoin, DropClose,
           DropJoinAlive, DropCloseEvent, DropGoes, Owned, DropBegin, SetProcess, EnvStep,
           HostFlush, HostClose, AgentFreed, ChildWrite, ChildExit
      <3>3. ASSUME NEW u \in Users, UserReturns(u) \/ UserCalls(u)
            PROVE  rproc' = rproc /\ rpc' # "recv"
        BY <3>3, <2>1 DEF UserReturns, UserCalls, ReadReturn, EofAlive, EofQueue, EofAtomic,
           ReadStart, TryRead, EofPeek, CancelIo
      <3> QED
        BY <3>1, <3>2, <3>3 DEF Next, Called, Internal
    <2> QED
      BY <2>1, <2>2
  <1>3. CASE ~EofAbout
    <2>1. rres' = "eof" /\ rres # "eof"
      <3>1. CASE out' = out /\ ret' \notin {"eof"} \ {ret}
        BY <1>3, <3>1 DEF EofAbout
      <3>2. CASE out # <<>> /\ out' = Tail(out) /\ ret' = Head(out) /\ rres' = rres
        <4>1. Head(out) = out[1] /\ 1 \in 1..Len(out)
              /\ \A i \in 1..Len(out') : out'[i] = out[i + 1] /\ i + 1 \in 1..Len(out)
          BY <1>1, <3>2
        <4> QED
          BY <1>3, <3>2, <4>1 DEF EofAbout
      <3>3. CASE (AsyncSend \/ SyncSend) /\ ret' = ret
        <4>1. out' = Append(out, rres) /\ rpc = "send" /\ rres' = "none"
          BY <3>3 DEF AsyncSend, SyncSend
        <4>2. \A i \in 1..Len(out') : out'[i] = rres \/ (i \in 1..Len(out) /\ out'[i] = out[i])
          BY <1>1, <4>1 DEF TypeInv
        <4> QED
          BY <1>3, <3>3, <4>1, <4>2 DEF EofAbout
      <3> QED
        BY <3>1, <3>2, <3>3, ChannelStep
    <2>2. SyncPeek \/ SyncAlive
      <3>1. CASE ReaderStep
        <4>1. CASE ReadWakes
          <5>1. io \in {"data", "broken", "cancelled"}
            BY <4>1 DEF ReadWakes, TypeInv, TypeOK
          <5>2. rres' # "eof"
            BY <4>1, <5>1 DEF ReadWakes, BrokenResults
          <5> QED
            BY <2>1, <5>2
        <4> QED
          BY <3>1, <4>1, <2>1 DEF ReaderStep, ReaderRecv, ReaderReady, AsyncForward, SyncPoll,
             ReadFile, BrokenResults, AsyncSend, SyncSend, ReaderAtomic, ReaderSetEvent,
             ReaderExit
      <3>2. CASE WatcherStep \/ DropStep \/ Owned \/ EnvStep \/ UNCHANGED vars
        BY <3>2, <2>1 DEF WatcherStep, WatcherRecv, WatcherCall, WatcherChildExited,
           WatcherSignalled, WatcherTimeout, WatcherCancel, WatcherSignal, WatcherGoes,
           DropStep, DropNudge, DropReady, DropStop, DropCancel, DropWait, DropJoin, DropClose,
           DropJoinAlive, DropCloseEvent, DropGoes, Owned, DropBegin, SetProcess, EnvStep,
           HostFlush, HostClose, AgentFreed, ChildWrite, ChildExit
      <3>3. ASSUME NEW u \in Users, UserReturns(u) \/ UserCalls(u) PROVE rres' = rres
        BY <3>3 DEF UserReturns, UserCalls, ReadReturn, EofAlive, EofQueue, EofAtomic,
           ReadStart, TryRead, EofPeek, CancelIo
      <3> QED
        BY <2>1, <3>1, <3>2, <3>3 DEF Next, Called, Internal
    <2>3. rproc # NoProc /\ rproc' = rproc /\ rpc' # "recv" /\ UNCHANGED <<child, dpc>>
      BY <2>2 DEF SyncPeek, SyncAlive, ServeInv
    <2>4. child[rproc] = "dead" \/ dpc # "live"
      <3>1. CASE SyncAlive
        BY <3>1, <2>1 DEF SyncAlive
      <3>2. CASE SyncPeek
        <4>1. ~hostOpen
          BY <3>2, <2>1 DEF SyncPeek, Broken
        <4> QED
          BY <1>1, <2>3, <4>1 DEF HostInv, ServeInv
      <3> QED
        BY <2>2, <3>1, <3>2
    <2> QED
      BY <2>3, <2>4
  <1> QED
    BY <1>2, <1>3

(* Every end of file on its way is about a dead child or a dropped PTY.     *)
LEMMA EofCorrect == Spec => []EofInv
  <1>1. Init => EofInv
    BY DEF Init, EofInv, EofAbout
  <1> QED
    BY <1>1, EofStep, TypeInvCorrect, HostCorrect, ServeCorrect, PTL DEF Spec

(* Until a drop the synchronous reader says end of file (base.rs:373-395)   *)
(* only of a child that is gone, whatever happens between its peek and its  *)
(* test.                                                                    *)
THEOREM EofOnlyAfterExit == Spec => []EofMeansChildGone
  <1>1. EofInv => EofMeansChildGone
    BY DEF EofInv, EofAbout, EofMeansChildGone
  <1> QED
    BY <1>1, EofCorrect, PTL

-----------------------------------------------------------------------------
(* A read is out only while the reader waits for it, and a result in hand   *)
(* only while it is about to be queued.                                     *)
HandInv ==
    /\ io # "idle" => rpc = "wait"
    /\ rres # "none" => rpc = "send"

(* Read and result follow the steps of the reader.                          *)
LEMMA HandStep == TypeInv /\ HandInv /\ [Next]_vars => HandInv'
  <1> SUFFICES ASSUME TypeInv, HandInv, [Next]_vars PROVE HandInv'
    OBVIOUS
  <1> USE DEF HandInv
  <1>1. CASE ReaderStep
    BY <1>1 DEF ReaderStep, ReaderRecv, ReaderReady, AsyncForward, SyncPoll, SyncPeek,
       SyncAlive, ReadFile, ReadWakes, AsyncSend, SyncSend, ReaderAtomic, ReaderSetEvent,
       ReaderExit
  <1>2. CASE WatcherStep \/ DropStep \/ Owned \/ EnvStep \/ UNCHANGED vars
    <2>1. UNCHANGED <<rpc, rres>> /\ (io = "idle" => io' = "idle")
      BY <1>2 DEF WatcherStep, WatcherRecv, WatcherCall, WatcherChildExited,
         WatcherSignalled, WatcherTimeout, WatcherCancel, WatcherSignal, WatcherGoes,
         CancelIoEx, DropStep, DropNudge, DropReady, DropStop, DropCancel, DropWait, DropJoin,
         DropClose, DropJoinAlive, DropCloseEvent, DropGoes, Owned, DropBegin, SetProcess,
         EnvStep, HostFlush, HostClose, AgentFreed, ChildWrite, ChildExit
    <2> QED
      BY <2>1
  <1>3. ASSUME NEW u \in Users, UserReturns(u) \/ UserCalls(u) PROVE HandInv'
    BY <1>3 DEF UserReturns, UserCalls, ReadReturn, EofAlive, EofQueue, EofAtomic, ReadStart,
       TryRead, EofPeek, CancelIo, CancelIoEx
  <1> QED
    BY <1>1, <1>2, <1>3 DEF Next, Called, Internal

(* While the struct is not being dropped nothing is closed, no stop was     *)
(* sent and every handle on its way to the reader is a child's; the watcher *)
(* follows the reader's child and is past its wait only when that is dead.  *)
LiveInv ==
    /\ dpc = "live" => closed = {} /\ ~stopSent
    /\ dpc = "live" => \A i \in 1..Len(procQ) : procQ[i] # NoProc
    /\ dpc = "live" /\ rpc # "recv" => rproc # NoProc
    /\ watchQ # NoProc => watchQ = rproc
    /\ dpc = "live" /\ wpc \in {"waitExit", "cancel", "signal"} => child[watchQ] = "dead"

(* Until drop begins, the watcher follows the reader and nobody stops it.   *)
LEMMA LiveStep == TypeInv /\ ShutdownInv /\ LiveInv /\ [Next]_vars => LiveInv'
  <1> SUFFICES ASSUME TypeInv, ShutdownInv, LiveInv, [Next]_vars PROVE LiveInv'
    OBVIOUS
  <1> USE DEF LiveInv
  <1>1. procQ \in Seq(Procs \cup {NoProc}) /\ watchQ \in Procs \cup {NoProc}
    BY DEF TypeInv, TypeOK
  <1>2. watchQ # NoProc /\ child[watchQ] = "dead" => child'[watchQ] = "dead"
    BY <1>1, ChildrenStay
  <1>3. wpc \notin {"recv", "done"} => watchQ # NoProc
    BY DEF ShutdownInv, WatchInv
  <1>4. CASE ReaderRecv
    <2>1. watchQ = NoProc /\ wpc \in {"recv", "done"}
      BY <1>4 DEF ReaderRecv, ShutdownInv, WatchInv
    <2>2. Head(procQ) = procQ[1] /\ 1 \in 1..Len(procQ)
          /\ \A i \in 1..Len(procQ') : procQ'[i] = procQ[i + 1] /\ i + 1 \in 1..Len(procQ)
      BY <1>1, <1>4 DEF ReaderRecv
    <2> QED
      BY <1>4, <2>1, <2>2 DEF ReaderRecv
  <1>5. CASE AsyncForward
    <2>1. wpc \in {"recv", "done"}
      BY <1>5 DEF AsyncForward, ShutdownInv, WatchInv
    <2> QED
      BY <1>5, <2>1 DEF AsyncForward
  <1>6. CASE \/ ReaderReady \/ SyncPoll \/ SyncPeek \/ SyncAlive \/ ReadFile \/ ReadWakes
             \/ AsyncSend \/ SyncSend \/ ReaderAtomic \/ ReaderSetEvent \/ ReaderExit
    <2>1. UNCHANGED <<dpc, closed, procQ, rproc, watchQ, wpc, child>> /\ rpc # "recv"
          /\ (stopSent' = stopSent \/ ~stopSent')
      BY <1>6 DEF ReaderReady, SyncPoll, SyncPeek, SyncAlive, ReadFile, ReadWakes, AsyncSend,
         SyncSend, ReaderAtomic, ReaderSetEvent, ReaderExit
    <2> QED
      BY <2>1
  <1>7. CASE WatcherStep
    <2>1. UNCHANGED <<dpc, closed, stopSent, procQ, rproc, rpc, watchQ, child>>
      BY <1>7 DEF WatcherStep, WatcherRecv, WatcherCall, WatcherChildExited,
         WatcherSignalled, WatcherTimeout, WatcherCancel, WatcherSignal, WatcherGoes
    <2>2. dpc = "live" /\ wpc' \in {"waitExit", "cancel", "signal"} => child[watchQ] = "dead"
      BY <1>7 DEF WatcherStep, WatcherRecv, WatcherCall, HandleClosed, WatcherChildExited,
         WatcherSignalled, WatcherTimeout, WatcherCancel, WatcherSignal, WatcherGoes
    <2> QED
      BY <2>1, <2>2
  <1>8. CASE DropStep \/ DropBegin
    <2>1. dpc' # "live" /\ UNCHANGED <<watchQ, rproc>>
      BY <1>8 DEF DropStep, DropNudge, DropReady, DropStop, DropCancel, DropWait, DropJoin,
         DropClose, DropJoinAlive, DropCloseEvent, DropGoes, DropBegin
    <2> QED
      BY <2>1
  <1>9. ASSUME NEW p \in Procs, SetProcess(p) PROVE LiveInv'
    <2>1. UNCHANGED <<dpc, closed, stopSent, rproc, rpc, watchQ, wpc>>
          /\ (procQ' = procQ \/ procQ' = Append(procQ, p))
      BY <1>9 DEF SetProcess
    <2>2. p # NoProc
      BY ConstantsAssumption DEF Procs
    <2>3. \A i \in 1..Len(procQ') : procQ'[i] = p \/ (i \in 1..Len(procQ) /\ procQ'[i] = procQ[i])
      BY <1>1, <2>1
    <2> QED
      BY <1>2, <1>3, <2>1, <2>2, <2>3
  <1>10. CASE EnvStep \/ UNCHANGED vars
    <2>1. UNCHANGED <<dpc, closed, stopSent, procQ, rproc, rpc, watchQ, wpc>>
      BY <1>10 DEF EnvStep, HostFlush, HostClose, AgentFreed, ChildWrite, ChildExit
    <2> QED
      BY <1>2, <1>3, <2>1
  <1>11. ASSUME NEW u \in Users, UserReturns(u) \/ UserCalls(u) PROVE LiveInv'
    <2>1. UNCHANGED <<dpc, closed, stopSent, procQ, rproc, rpc, watchQ, wpc, child>>
      BY <1>11 DEF UserReturns, UserCalls, ReadReturn, EofAlive, EofQueue, EofAtomic,
         ReadStart, TryRead, EofPeek, CancelIo
    <2> QED
      BY <2>1
  <1> QED
    BY <1>4, <1>5, <1>6, <1>7, <1>8, <1>9, <1>10, <1>11
       DEF Next, Owned, Called, Internal, ReaderStep

(* As long as no caller has cancelled and nobody drops, everything that can *)
(* end the reader's loop follows the death of its child.                    *)
Spared == dpc = "live" /\ cancels = 0
SpareInv ==
    Spared =>
        /\ io = "cancelled" => child[rproc] = "dead"
        /\ Async /\ rres \in {"err", "empty"} => child[rproc] = "dead"
        /\ PastLoop => child[rproc] = "dead"

AllInv == /\ TypeInv /\ ShutdownInv /\ HostInv /\ DrainInv /\ ServeInv /\ EofInv
          /\ HandInv /\ LiveInv

(* No step but a cancel or a drop takes the reader from a running child.    *)
LEMMA SpareStep == AllInv /\ SpareInv /\ [Next]_vars => SpareInv'
  <1> SUFFICES ASSUME AllInv, SpareInv, [Next]_vars, Spared'
               PROVE  /\ io' = "cancelled" => child'[rproc'] = "dead"
                      /\ Async /\ rres' \in {"err", "empty"} => child'[rproc'] = "dead"
                      /\ PastLoop' => child'[rproc'] = "dead"
    BY DEF SpareInv
  <1> USE DEF AllInv, SpareInv, PastLoop
  <1>1. rproc # NoProc => rproc \in Procs /\ child[rproc] \in {"alive", "dead"}
    BY DEF TypeInv, TypeOK, ServeInv
  <1>2. rproc # NoProc /\ child[rproc] = "dead" => child'[rproc] = "dead"
    BY <1>1, ChildrenStay
  <1>3. rpc # "recv" /\ dpc = "live" => rproc # NoProc
    BY DEF LiveInv
  <1>4. (io # "idle" \/ rres # "none" \/ PastLoop) => rpc # "recv"
    BY DEF HandInv
  <1>5. ~hostOpen /\ rproc # NoProc /\ dpc = "live" => child[rproc] = "dead"
    BY <1>1 DEF HostInv
  <1>6. CASE ReaderStep
    <2>1. Spared /\ UNCHANGED <<child, hostOpen>>
      BY <1>6 DEF Spared, ReaderStep, ReaderRecv, ReaderReady, AsyncForward, SyncPoll,
         SyncPeek, SyncAlive, ReadFile, ReadWakes, AsyncSend, SyncSend, ReaderAtomic,
         ReaderSetEvent, ReaderExit
    <2>2. CASE ReaderRecv
      BY <2>2, <1>4 DEF ReaderRecv, HandInv
    <2>3. CASE ReaderReady \/ AsyncForward \/ SyncPoll
      BY <2>1, <2>3, <1>3, <1>4 DEF ReaderReady, AsyncForward, SyncPoll, Spared, LiveInv, HandInv
    <2>4. CASE SyncPeek \/ SyncAlive
      <3>1. ~Async /\ rpc' \notin {"atomic", "event", "exit", "done"} /\ io' = "idle"
        BY <2>4 DEF SyncPeek, SyncAlive, TypeInv, TypeOK, HandInv
      <3> QED
        BY <3>1
    <2>5. CASE ReadFile
      <3>1. rproc # NoProc /\ rproc' = rproc /\ rpc' \in {"send", "wait"}
            /\ io' # "cancelled" /\ (Broken \/ rres' \in {"data", "none"})
        BY <2>5 DEF ReadFile, ServeInv, HandInv
      <3>2. Broken => child[rproc] = "dead"
        BY <2>1, <3>1, <1>5 DEF Broken, Spared
      <3> QED
        BY <2>1, <3>1, <3>2
    <2>6. CASE ReadWakes
      <3>1. rproc # NoProc /\ rproc' = rproc /\ rpc' = "send" /\ io' = "idle"
            /\ io \in {"data", "broken", "cancelled"}
        BY <2>6 DEF ReadWakes, ServeInv, TypeInv, TypeOK
      <3>2. io = "data" => rres' = "data"
        BY <2>6 DEF ReadWakes
      <3>3. io = "broken" => child[rproc] = "dead"
        BY <2>1, <3>1, <1>5 DEF HostInv, Spared
      <3> QED
        BY <2>1, <3>1, <3>2, <3>3
    <2>7. CASE AsyncSend
      <3>1. rproc' = rproc /\ io' = io /\ rres' = "none" /\ rres \in {"data", "err", "empty"}
            /\ (rres = "data" => rpc' = "issue")
        BY <2>7 DEF AsyncSend, TypeInv, Items, DrainInv
      <3> QED
        BY <2>1, <2>7, <3>1 DEF AsyncSend
    <2>8. CASE SyncSend
      <3>1. rproc' = rproc /\ io' = io /\ rres' = "none" /\ (rres = "eof" \/ rpc' = "poll")
        BY <2>8 DEF SyncSend
      <3> QED
        BY <2>1, <3>1 DEF EofInv, EofAbout, Spared
    <2>9. CASE ReaderAtomic \/ ReaderSetEvent \/ ReaderExit
      BY <2>1, <2>9 DEF ReaderAtomic, ReaderSetEvent, ReaderExit
    <2> QED
      BY <1>6, <2>2, <2>3, <2>4, <2>5, <2>6, <2>7, <2>8, <2>9 DEF ReaderStep
  <1>7. CASE WatcherStep
    <2>1. Spared /\ UNCHANGED <<rpc, rproc, rres, child>>
      BY <1>7 DEF Spared, WatcherStep, WatcherRecv, WatcherCall, WatcherChildExited,
         WatcherSignalled, WatcherTimeout, WatcherCancel, WatcherSignal, WatcherGoes
    <2>2. io' = io \/ WatcherCancel
      BY <1>7 DEF WatcherStep, WatcherRecv, WatcherCall, WatcherChildExited,
         WatcherSignalled, WatcherTimeout, WatcherSignal, WatcherGoes
    <2>3. WatcherCancel => child[rproc] = "dead"
      BY <2>1 DEF WatcherCancel, LiveInv, Spared, ShutdownInv, WatchInv
    <2> QED
      BY <2>1, <2>2, <2>3
  <1>8. CASE DropStep \/ DropBegin
    BY <1>8 DEF Spared, DropStep, DropNudge, DropReady, DropStop, DropCancel, DropWait,
       DropJoin, DropClose, DropJoinAlive, DropCloseEvent, DropGoes, DropBegin
  <1>9. CASE EnvStep \/ (\E p \in Procs : SetProcess(p)) \/ UNCHANGED vars
    <2>1. Spared /\ UNCHANGED <<rpc, rproc, rres>> /\ (io' = io \/ io' # "cancelled")
      BY <1>9 DEF Spared, EnvStep, HostFlush, HostClose, AgentFreed, ChildWrite, ChildExit, SetProcess
    <2> QED
      BY <2>1, <1>2, <1>3, <1>4 DEF Spared
  <1>10. ASSUME NEW u \in Users, UserReturns(u) \/ UserCalls(u)
         PROVE  Spared /\ UNCHANGED <<rpc, rproc, rres, io, child>>
    <2>1. ~CancelIo(u)
      BY DEF Spared, CancelIo, TypeInv, TypeOK
    <2> QED
      BY <1>10, <2>1 DEF Spared, UserReturns, UserCalls, ReadReturn, EofAlive, EofQueue,
         EofAtomic, ReadStart, TryRead, EofPeek
  <1>11. CASE Called \/ \E u \in Users : UserReturns(u)
    BY <1>10, <1>11 DEF Called
  <1> QED
    BY <1>6, <1>7, <1>8, <1>9, <1>11 DEF Next, Owned, Internal

(* While nobody cancels or drops, the reader ends only after its child: the *)
(* watcher's timed cancel (base.rs:602-618) never hits a reader whose child *)
(* is running.                                                              *)
THEOREM ReaderOutlives == Spec => []ReaderOutlivesChild
  <1>1. Init => DrainInv /\ HandInv /\ LiveInv /\ SpareInv
    BY DEF Init, DrainInv, HandInv, LiveInv, SpareInv, PastLoop
  <1>2. Spec => []AllInv
    BY <1>1, DrainStep, HandStep, LiveStep, TypeInvCorrect, ShutdownCorrect, HostCorrect,
       ServeCorrect, EofCorrect, PTL DEF Spec, AllInv
  <1>3. SpareInv => ReaderOutlivesChild
    BY DEF SpareInv, Spared, ReaderOutlivesChild
  <1> QED
    BY <1>1, <1>2, <1>3, SpareStep, PTL DEF Spec
=============================================================================
