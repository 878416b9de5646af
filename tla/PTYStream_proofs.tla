--------------------------- MODULE PTYStream_proofs ---------------------------
(***************************************************************************)
(* PTYProcess implements OutputStream, and loses or doubles no unit of     *)
(* output, for all values of its constants.                                *)
(***************************************************************************)
EXTENDS PTYOutput_proofs, FiniteSetTheorems

-----------------------------------------------------------------------------
(* The places of a queue that hold data.                                    *)
DataAt(q) == {i \in 1..Len(q) : q[i] = "data"}

(* There are finitely many.                                                 *)
LEMMA DataFinite ==
  ASSUME NEW q \in Seq(Items)
  PROVE  IsFiniteSet(DataAt(q)) /\ Cardinality(DataAt(q)) \in Nat
  <1>1. Len(q) \in Nat
    OBVIOUS
  <1>2. IsFiniteSet(1..Len(q)) /\ DataAt(q) \in SUBSET (1..Len(q))
    BY <1>1, FS_Interval DEF DataAt
  <1>3. IsFiniteSet(DataAt(q))
    BY <1>2, FS_Subset
  <1> QED
    BY <1>3, FS_CardinalityType

(* A send adds one to the data queued when it sends data, else nothing.     *)
LEMMA DataAppend ==
  ASSUME NEW q \in Seq(Items), NEW m \in Items
  PROVE  Cardinality(DataAt(Append(q, m)))
           = Cardinality(DataAt(q)) + (IF m = "data" THEN 1 ELSE 0)
  <1>1. Len(Append(q, m)) = Len(q) + 1 /\ Len(q) \in Nat
        /\ \A i \in 1..Len(q) : Append(q, m)[i] = q[i]
    OBVIOUS
  <1>2. Append(q, m)[Len(q) + 1] = m
    OBVIOUS
  <1>3. Len(q) + 1 \notin DataAt(q)
    BY <1>1 DEF DataAt
  <1>4. CASE m = "data"
    <2>1. DataAt(Append(q, m)) = DataAt(q) \cup {Len(q) + 1}
      BY <1>1, <1>2, <1>4 DEF DataAt
    <2> QED
      BY <1>3, <1>4, <2>1, DataFinite, FS_AddElement
  <1>5. CASE m # "data"
    <2>1. DataAt(Append(q, m)) = DataAt(q)
      BY <1>1, <1>2, <1>5 DEF DataAt
    <2> QED
      BY <1>5, <2>1, DataFinite
  <1> QED
    BY <1>4, <1>5

(* A receive takes one away when the head is data, else nothing.            *)
LEMMA DataTail ==
  ASSUME NEW q \in Seq(Items), q # <<>>
  PROVE  Cardinality(DataAt(q))
           = Cardinality(DataAt(Tail(q))) + (IF Head(q) = "data" THEN 1 ELSE 0)
  <1>1. Tail(q) \in Seq(Items) /\ Len(q) \in Nat /\ Len(q) >= 1
        /\ Len(Tail(q)) = Len(q) - 1 /\ Head(q) = q[1]
        /\ \A i \in 1..Len(q) - 1 : Tail(q)[i] = q[i + 1]
    OBVIOUS
  <1> DEFINE rest == DataAt(q) \ {1}
             shift == [i \in DataAt(Tail(q)) |-> i + 1]
  <1>2. shift \in Bijection(DataAt(Tail(q)), rest)
    <2>1. shift \in [DataAt(Tail(q)) -> rest]
      BY <1>1 DEF DataAt
    <2>2. \A i, j \in DataAt(Tail(q)) : i # j => shift[i] # shift[j]
      BY DEF DataAt
    <2>3. \A k \in rest : \E i \in DataAt(Tail(q)) : shift[i] = k
      <3> SUFFICES ASSUME NEW k \in rest PROVE \E i \in DataAt(Tail(q)) : shift[i] = k
        OBVIOUS
      <3>1. k - 1 \in DataAt(Tail(q)) /\ (k - 1) + 1 = k
        BY <1>1 DEF DataAt
      <3>2. shift[k - 1] = k
        BY <3>1
      <3> QED
        BY <3>1, <3>2
    <2> QED
      BY <2>1, <2>2, <2>3 DEF Bijection, Injection, IsInjective, Surjection
  <1>3. Cardinality(rest) = Cardinality(DataAt(Tail(q)))
    BY <1>1, <1>2, DataFinite, FS_Bijection DEF ExistsBijection
  <1>4. Cardinality(rest) = IF 1 \in DataAt(q) THEN Cardinality(DataAt(q)) - 1
                                               ELSE Cardinality(DataAt(q))
    BY DataFinite, FS_RemoveElement
  <1>5. 1 \in DataAt(q) <=> Head(q) = "data"
    BY <1>1 DEF DataAt
  <1> QED
    BY <1>3, <1>4, <1>5, DataFinite

-----------------------------------------------------------------------------
USE DEF vars, readerVars, watchVars, ownerVars, userVars, chanVars, flagVars, kernelVars,
        hostVars, histVars, readerFrame, watcherFrame, dropFrame, userFrame, hostFrame,
        NoProc

(* How one step moves units: not at all, into the host, from the reader's   *)
(* hand to the channel, or from the channel to a caller.                    *)
Quiet == UNCHANGED <<produced, out, taken>> /\ InFlight' = InFlight
Written == /\ produced' = produced + 1 /\ InFlight' = InFlight + 1
           /\ UNCHANGED <<out, taken>>
Sent == /\ AsyncSend \/ SyncSend
        /\ rres \in Items /\ out' = Append(out, rres)
        /\ InFlight' = InFlight - (IF rres = "data" THEN 1 ELSE 0)
        /\ UNCHANGED <<produced, taken>>
Received == /\ out # <<>> /\ out' = Tail(out)
            /\ taken' = (IF Head(out) = "data" THEN taken + 1 ELSE taken)
            /\ produced' = produced /\ InFlight' = InFlight

LEMMA FlowStep ==
  ASSUME TypeInv, HandInv, [Next]_vars
  PROVE  Quiet \/ (Written /\ \E p \in Procs : ChildWrite(p)) \/ Sent
           \/ (Received /\ UNCHANGED <<rpc, rproc, child, dpc>>)
  <1> USE DEF InFlight
  <1>1. hostBuf \in Nat /\ pipe \in Nat /\ (rpc = "send" => rres \in Items)
    BY DEF TypeInv, TypeOK
  <1>2. CASE AsyncSend \/ SyncSend
    <2>1. rres \in Items /\ rres' = "none" /\ out' = Append(out, rres)
          /\ UNCHANGED <<produced, taken, hostBuf, pipe, io>>
      BY <1>1, <1>2 DEF AsyncSend, SyncSend
    <2>2. InFlight' = InFlight - (IF rres = "data" THEN 1 ELSE 0)
      BY <1>1, <2>1
    <2> QED
      BY <1>2, <2>1, <2>2 DEF Sent
  <1>3. CASE ReadFile
    BY <1>1, <1>3 DEF ReadFile, BrokenResults, HandInv, Quiet
  <1>4. CASE ReadWakes
    <2>1. io \in {"data", "broken", "cancelled"} /\ rres = "none" /\ io' = "idle"
      BY <1>4 DEF ReadWakes, HandInv, TypeInv, TypeOK
    <2>2. io = "data" <=> rres' = "data"
      BY <1>4, <2>1 DEF ReadWakes, BrokenResults
    <2> QED
      BY <1>1, <1>4, <2>1, <2>2 DEF ReadWakes, Quiet
  <1>5. CASE SyncPeek \/ SyncAlive
    <2>1. rres = "none" /\ rres' \in {"none", "eof"}
      BY <1>5 DEF SyncPeek, SyncAlive, HandInv
    <2> QED
      BY <1>5, <2>1 DEF SyncPeek, SyncAlive, Quiet
  <1>6. CASE \/ ReaderRecv \/ ReaderReady \/ AsyncForward \/ SyncPoll
             \/ ReaderAtomic \/ ReaderSetEvent \/ ReaderExit
    BY <1>6 DEF ReaderRecv, ReaderReady, AsyncForward, SyncPoll, ReaderAtomic,
       ReaderSetEvent, ReaderExit, Quiet
  <1>7. CASE WatcherStep \/ DropStep \/ Owned \/ UNCHANGED vars
    <2>1. UNCHANGED <<produced, out, taken, hostBuf, pipe, rres>>
          /\ (io' = io \/ (io # "data" /\ io' # "data"))
      BY <1>7 DEF WatcherStep, WatcherRecv, WatcherCall, WatcherChildExited,
         WatcherSignalled, WatcherTimeout, WatcherCancel, WatcherSignal, WatcherGoes,
         CancelIoEx, DropStep, DropNudge, DropReady, DropStop, DropCancel, DropWait, DropJoin,
         DropClose, DropJoinAlive, DropCloseEvent, DropGoes, Owned, DropBegin, SetProcess
    <2> QED
      BY <2>1 DEF Quiet
  <1>8. ASSUME NEW u \in Users, ReadReturn(u) \/ TryRead(u)
        PROVE  Quiet \/ (Received /\ UNCHANGED <<rpc, rproc, child, dpc>>)
    BY <1>8 DEF ReadReturn, TryRead, Take, Quiet, Received
  <1>9. ASSUME NEW u \in Users,
               EofAlive(u) \/ EofQueue(u) \/ EofAtomic(u) \/ ReadStart(u) \/ EofPeek(u)
                 \/ CancelIo(u)
        PROVE  Quiet
    BY <1>9 DEF EofAlive, EofQueue, EofAtomic, ReadStart, EofPeek, CancelIo, CancelIoEx, Quiet
  <1>10. CASE HostFlush
    BY <1>1, <1>10 DEF HostFlush, Quiet
  <1>11. CASE HostClose \/ AgentFreed
    BY <1>11 DEF HostClose, AgentFreed, Quiet
  <1>12. ASSUME NEW p \in Procs, ChildWrite(p)
         PROVE  Written /\ \E q \in Procs : ChildWrite(q)
    BY <1>1, <1>12 DEF ChildWrite, Written
  <1>13. ASSUME NEW p \in Procs, ChildExit(p) PROVE Quiet
    BY <1>13 DEF ChildExit, Quiet
  <1> QED
    BY <1>2, <1>3, <1>4, <1>5, <1>6, <1>7, <1>8, <1>9, <1>10, <1>11, <1>12, <1>13
       DEF Next, Called, Internal, ReaderStep, EnvStep, UserReturns, UserCalls

(* Each way to move a unit keeps the sum.                                   *)
LEMMA UnitsStep == TypeInv /\ HandInv /\ NoUnitLost /\ [Next]_vars => NoUnitLost'
  <1> SUFFICES ASSUME TypeInv, HandInv, NoUnitLost, [Next]_vars PROVE NoUnitLost'
    OBVIOUS
  <1>1. DataQueued = Cardinality(DataAt(out)) /\ DataQueued' = Cardinality(DataAt(out'))
    BY DEF DataQueued, DataAt
  <1>2. /\ out \in Seq(Items) /\ DataQueued \in Nat
        /\ produced \in Nat /\ taken \in Nat /\ InFlight \in Int
    BY <1>1, DataFinite DEF TypeInv, TypeOK, InFlight
  <1>3. CASE Quiet \/ Written
    <2>1. DataQueued' = DataQueued
      BY <1>1, <1>3 DEF Quiet, Written
    <2> QED
      BY <1>2, <1>3, <2>1 DEF Quiet, Written, NoUnitLost
  <1>4. CASE Sent
    <2>1. DataQueued' = DataQueued + (IF rres = "data" THEN 1 ELSE 0)
      BY <1>1, <1>2, <1>4, DataAppend DEF Sent
    <2> QED
      BY <1>2, <1>4, <2>1 DEF Sent, NoUnitLost
  <1>5. CASE Received
    <2>1. DataQueued = DataQueued' + (IF Head(out) = "data" THEN 1 ELSE 0)
      BY <1>1, <1>2, <1>5, DataTail DEF Received
    <2>2. DataQueued' \in Nat
      <3>1. out' \in Seq(Items)
        BY <1>2, <1>5 DEF Received
      <3> QED
        BY <1>1, <3>1, DataFinite
    <2> QED
      BY <1>2, <1>5, <2>1, <2>2 DEF Received, NoUnitLost
  <1> QED
    BY <1>3, <1>4, <1>5, FlowStep

(* base.rs: no unit of output is lost or doubled between the host and the   *)
(* caller, whatever reads, cancels and drops it meets on its way.           *)
THEOREM UnitsAreConserved == Spec => []NoUnitLost
  <1>1. Init => HandInv /\ NoUnitLost
    <2> SUFFICES ASSUME Init PROVE HandInv /\ NoUnitLost
      OBVIOUS
    <2>1. {i \in 1..Len(out) : out[i] = "data"} = {}
      BY DEF Init
    <2> QED
      BY <2>1, FS_EmptySet DEF Init, HandInv, NoUnitLost, InFlight, DataQueued
  <1> QED
    BY <1>1, UnitsStep, HandStep, TypeInvCorrect, PTL DEF Spec

-----------------------------------------------------------------------------
(* A reader that still waits for a handle has none.                         *)
WaitsInv == rpc = "recv" => rproc = NoProc

(* The reader does not come back to that wait.                              *)
LEMMA WaitsStep == WaitsInv /\ [Next]_vars => WaitsInv'
  <1> SUFFICES ASSUME WaitsInv, [Next]_vars PROVE WaitsInv'
    OBVIOUS
  <1> USE DEF WaitsInv
  <1>1. CASE ReaderStep
    BY <1>1 DEF ReaderStep, ReaderRecv, ReaderReady, AsyncForward, SyncPoll, SyncPeek,
       SyncAlive, ReadFile, ReadWakes, AsyncSend, SyncSend, ReaderAtomic, ReaderSetEvent,
       ReaderExit
  <1>2. CASE WatcherStep \/ DropStep \/ Owned \/ EnvStep \/ UNCHANGED vars
    BY <1>2 DEF WatcherStep, WatcherRecv, WatcherCall, WatcherChildExited, WatcherSignalled,
       WatcherTimeout, WatcherCancel, WatcherSignal, WatcherGoes, DropStep, DropNudge,
       DropReady, DropStop, DropCancel, DropWait, DropJoin, DropClose, DropJoinAlive,
       DropCloseEvent, DropGoes, Owned, DropBegin, SetProcess, EnvStep, HostFlush, HostClose, AgentFreed,
       ChildWrite, ChildExit
  <1>3. ASSUME NEW u \in Users, UserReturns(u) \/ UserCalls(u) PROVE WaitsInv'
    BY <1>3 DEF UserReturns, UserCalls, ReadReturn, EofAlive, EofQueue, EofAtomic, ReadStart,
       TryRead, EofPeek, CancelIo
  <1> QED
    BY <1>1, <1>2, <1>3 DEF Next, Called, Internal

(* What mayEnd of the stream is here: the served child has exited, or the   *)
(* owner drops the PTY.                                                     *)
Gone   == rproc # NoProc /\ child[rproc] = "dead"
Ending == Gone \/ dpc # "live"

(* A served child that has exited does not come back.                       *)
LEMMA GoneStep ==
  ASSUME TypeInv, ServeInv, WaitsInv, [Next]_vars
  PROVE  Gone => Gone'
  <1> USE DEF Gone
  <1>1. rproc # NoProc => rproc \in Procs /\ child[rproc] # "none"
    BY DEF TypeInv, TypeOK, ServeInv
  <1>2. CASE ReaderRecv
    BY <1>2 DEF ReaderRecv, WaitsInv
  <1>3. ASSUME NEW p \in Procs, ChildExit(p) PROVE Gone => Gone'
    BY <1>1, <1>3, ChildrenStay DEF ChildExit
  <1>4. ASSUME NEW p \in Procs, SetProcess(p) PROVE Gone' = Gone
    <2>1. rproc' = rproc /\ (rproc # NoProc => rproc # p)
      BY <1>1, <1>4 DEF SetProcess, NextProc
    <2>2. rproc # NoProc => child'[rproc] = child[rproc]
      BY <1>1, <1>4, <2>1 DEF SetProcess, TypeInv, TypeOK
    <2> QED
      BY <2>1, <2>2
  <1>5. CASE UNCHANGED <<rproc, child>>
    BY <1>5
  <1>6. ASSUME NEW u \in Users, UserReturns(u) \/ UserCalls(u) PROVE UNCHANGED <<rproc, child>>
    BY <1>6 DEF UserReturns, UserCalls, ReadReturn, EofAlive, EofQueue, EofAtomic, ReadStart,
       TryRead, EofPeek, CancelIo
  <1>7. ReaderStep => ReaderRecv \/ UNCHANGED <<rproc, child>>
    BY DEF ReaderStep, ReaderReady, AsyncForward, SyncPoll, SyncPeek, SyncAlive, ReadFile,
       ReadWakes, AsyncSend, SyncSend, ReaderAtomic, ReaderSetEvent, ReaderExit
  <1>8. CASE WatcherStep \/ DropStep \/ DropBegin \/ HostFlush \/ HostClose \/ AgentFreed
             \/ (\E p \in Procs : ChildWrite(p)) \/ UNCHANGED vars
    <2>1. UNCHANGED <<rproc, child>>
      BY <1>8 DEF WatcherStep, WatcherRecv, WatcherCall, WatcherChildExited,
         WatcherSignalled, WatcherTimeout, WatcherCancel, WatcherSignal, WatcherGoes, DropStep,
         DropNudge, DropReady, DropStop, DropCancel, DropWait, DropJoin, DropClose,
         DropJoinAlive, DropCloseEvent, DropGoes, DropBegin, HostFlush, HostClose,
         AgentFreed, ChildWrite
    <2> QED
      BY <1>5, <2>1
  <1> QED
    BY <1>2, <1>3, <1>4, <1>5, <1>6, <1>7, <1>8
       DEF Next, Owned, Called, Internal, EnvStep

(* The reader's loop ends at a stop message, or with the message it sends.  *)
LEMMA OverStep ==
  ASSUME [Next]_vars, PastLoop' # PastLoop
  PROVE  ~PastLoop /\ PastLoop' /\ (ReaderReady \/ SyncPoll \/ AsyncSend \/ SyncSend)
  <1>1. ~PastLoop /\ PastLoop'
    BY PastLoopStays DEF PastLoop
  <1>2. CASE ReaderStep
    BY <1>1, <1>2 DEF PastLoop, ReaderStep, ReaderRecv, AsyncForward, SyncPeek, SyncAlive,
       ReadFile, ReadWakes, ReaderAtomic, ReaderSetEvent, ReaderExit
  <1>3. CASE WatcherStep \/ DropStep \/ Owned \/ EnvStep \/ UNCHANGED vars
    <2>1. rpc' = rpc
      BY <1>3 DEF WatcherStep, WatcherRecv, WatcherCall, WatcherChildExited,
         WatcherSignalled, WatcherTimeout, WatcherCancel, WatcherSignal, WatcherGoes, DropStep,
         DropNudge, DropReady, DropStop, DropCancel, DropWait, DropJoin, DropClose,
         DropJoinAlive, DropCloseEvent, DropGoes, Owned, DropBegin, SetProcess, EnvStep,
         HostFlush, HostClose, AgentFreed, ChildWrite, ChildExit
    <2> QED
      BY <1>1, <2>1 DEF PastLoop
  <1>4. ASSUME NEW u \in Users, UserReturns(u) \/ UserCalls(u) PROVE rpc' = rpc
    BY <1>4 DEF UserReturns, UserCalls, ReadReturn, EofAlive, EofQueue, EofAtomic, ReadStart,
       TryRead, EofPeek, CancelIo
  <1> QED
    BY <1>1, <1>2, <1>3, <1>4 DEF PastLoop, Next, Called, Internal

(* Every step is a step of the stream or leaves it alone.                   *)
StreamInv == TypeInv /\ HandInv /\ ServeInv /\ EofInv /\ WaitsInv
LEMMA StreamStep == StreamInv /\ [Next]_vars => [Stream!Next]_(Stream!streamVars)
  <1> SUFFICES ASSUME StreamInv, [Next]_vars
               PROVE  Stream!Next \/ UNCHANGED Stream!streamVars
    OBVIOUS
  <1> USE DEF StreamInv, Stream!streamVars, Gone
  <1>1. Ending' = Ending \/ (Ending' /\ ~Ending)
    BY GoneStep, OnceDropped DEF Ending
  <1>2. CASE Quiet /\ PastLoop' = PastLoop
    <2>1. CASE Ending' = Ending
      BY <1>2, <2>1 DEF Quiet, Ending
    <2>2. CASE Ending' /\ ~Ending
      <3>1. Stream!LetEnd
        BY <1>2, <2>2 DEF Stream!LetEnd, Quiet, Ending
      <3> QED
        BY <3>1 DEF Stream!Next
    <2> QED
      BY <1>1, <2>1, <2>2
  <1>3. CASE Quiet /\ PastLoop' # PastLoop
    <2>1. ~PastLoop /\ PastLoop' /\ (ReaderReady \/ SyncPoll \/ AsyncSend \/ SyncSend)
      BY <1>3, OverStep
    <2>2. ~AsyncSend /\ ~SyncSend
      <3>1. Len(Append(out, rres)) # Len(out)
        BY DEF TypeInv, TypeOK
      <3> QED
        BY <1>3, <3>1 DEF Quiet, AsyncSend, SyncSend
    <2>3. Ending' = Ending
      BY <2>1, <2>2 DEF Ending, ReaderReady, SyncPoll
    <2>4. Stream!Stop
      BY <1>3, <2>1, <2>3 DEF Stream!Stop, Quiet, Ending
    <2> QED
      BY <2>4 DEF Stream!Next
  <1>4. CASE Written /\ \E p \in Procs : ChildWrite(p)
    <2>1. UNCHANGED <<rpc, rproc, child, dpc>>
      BY <1>4 DEF ChildWrite
    <2>2. Stream!Write
      BY <1>4, <2>1 DEF Stream!Write, Written, PastLoop
    <2> QED
      BY <2>2 DEF Stream!Next
  <1>5. CASE Sent
    <2>1. ~PastLoop /\ UNCHANGED <<rproc, child, dpc>> /\ PastLoop' = (rres \in EndMarks)
      <3>1. CASE AsyncSend
        BY <1>5, <3>1 DEF AsyncSend, EndMarks, PastLoop, Sent, Items
      <3>2. CASE SyncSend
        BY <1>5, <3>2 DEF SyncSend, EndMarks, PastLoop, Sent, Items
      <3> QED
        BY <1>5, <3>1, <3>2 DEF Sent
    <2>2. CASE rres = "data"
      <3>1. ~PastLoop'
        BY <2>1, <2>2 DEF EndMarks, Items
      <3>2. InFlight > 0
        BY <2>2 DEF InFlight, TypeInv, TypeOK
      <3>3. PastLoop' = PastLoop
        BY <2>1, <3>1 DEF PastLoop
      <3>4. InFlight' = InFlight - 1 /\ out' = Append(out, "data")
        BY <1>5, <2>2 DEF Sent
      <3>5. Stream!Put
        BY <1>5, <2>1, <3>2, <3>3, <3>4 DEF Stream!Put, Sent
      <3> QED
        BY <3>5 DEF Stream!Next
    <2>3. CASE rres # "data"
      <3>1. InFlight' = InFlight
        BY <1>5, <2>3 DEF Sent, InFlight, TypeInv, TypeOK
      <3>2. rres = "eof" => Ending
        BY DEF EofInv, EofAbout, Ending
      <3>3. rres \in Items \ {"data"}
        BY <1>5, <2>3 DEF Sent
      <3>4. Stream!Mark(rres)
        BY <1>5, <2>1, <3>1, <3>2 DEF Stream!Mark, Sent, Ending
      <3> QED
        BY <3>3, <3>4 DEF Stream!Next
    <2> QED
      BY <2>2, <2>3
  <1>6. CASE Received /\ UNCHANGED <<rpc, rproc, child, dpc>>
    <2>1. Stream!Get
      BY <1>6 DEF Stream!Get, Received, PastLoop
    <2> QED
      BY <2>1 DEF Stream!Next
  <1> QED
    BY <1>2, <1>3, <1>4, <1>5, <1>6, FlowStep

(* Reader, watcher, callers, host and drop together (base.rs) implement the *)
(* promise of OutputStream, in both modes.                                  *)
THEOREM StreamImplemented == Spec => ImplementsStream
  <1>1. Init => Stream!Init /\ HandInv /\ WaitsInv
    BY DEF Init, Stream!Init, HandInv, WaitsInv, InFlight, PastLoop
  <1>2. Spec => []StreamInv
    BY <1>1, HandStep, WaitsStep, TypeInvCorrect, ServeCorrect, EofCorrect, PTL
       DEF Spec, StreamInv
  <1> QED
    BY <1>1, <1>2, StreamStep, PTL DEF Spec, ImplementsStream, Stream!Spec
=============================================================================
