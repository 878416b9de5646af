---------------------------- MODULE PTYCalls_proofs ----------------------------
(***************************************************************************)
(* Proofs about PTYCalls for all values of its constants: any number of    *)
(* threads, messages of any length, a pipe of any capacity.                *)
(*                                                                         *)
(* WriterInv says where each writer is in its message and that no two have *)
(* the same one; QueueInv that the message of the holder of the mutex is   *)
(* the last one in the stream, as far as it was sent; AnswerInv that what  *)
(* was sent is there unless a cancel struck.                               *)
(***************************************************************************)
EXTENDS PTYCalls, TLAPS

USE DEF vars, writeVars, pipeVars, childVars, ownerVars, callVars, childFrame, hostFrame,
        NoUser, NoProc, Messages

Writing == {"lock", "chunk", "wait"}
Held    == {"chunk", "wait"}

WriterInv ==
    /\ \A u \in Users :
         /\ upc[u] \in Writing =>
              msg[u] \in 1..calls /\ sent[u] <= length[msg[u]] /\ result[msg[u]] = "none"
         /\ upc[u] \notin Held => sent[u] = 0 /\ total[u] = 0
         /\ total[u] <= sent[u]
         /\ upc[u] = "wait" => ~async_ /\ sent[u] >= 1
         /\ ~async_ => total[u] = (IF upc[u] = "wait" THEN sent[u] - 1 ELSE sent[u])
    /\ \A u, v \in Users :
         u # v /\ upc[u] \in Writing /\ upc[v] \in Writing => msg[u] # msg[v]
    /\ \A m \in Messages : m > calls => result[m] = "none"

CallsInv == WriteTypeOK /\ PipeTypeOK /\ MutexHeld /\ WriterInv

(* Nothing is written and nothing waits at the start.                       *)
LEMMA CallsInit == Init => CallsInv /\ ChildTypeOK
  <1> SUFFICES ASSUME Init PROVE CallsInv /\ ChildTypeOK
    OBVIOUS
  <1>1. stream \in Seq(Chunks) /\ Len(stream) = 0
    BY DEF Init
  <1>2. ChildTypeOK
    BY CallsAssumption DEF Init, ChildTypeOK
  <1>3. WriteTypeOK /\ PipeTypeOK
    <2>1. async_ \in BOOLEAN /\ write_pending \in BOOLEAN
      BY CallsAssumption, Zenon DEF Init
    <2>2. /\ upc \in [Users -> UserPCs] /\ msg \in [Users -> 0..MaxCalls]
          /\ sent \in [Users -> 0..MaxChunks] /\ total \in [Users -> 0..MaxChunks]
          /\ length \in [Messages -> 0..MaxChunks]
          /\ result \in [Messages -> {"none", "ok", "err"}]
          /\ count \in [Messages -> 0..MaxChunks]
      BY CallsAssumption DEF Init, UserPCs
    <2>3. holder \in Users \cup {NoUser} /\ calls \in 0..MaxCalls /\ cancels \in Nat
      BY CallsAssumption DEF Init
    <2>4. PipeTypeOK
      BY <1>1 DEF Init, PipeTypeOK
    <2> QED
      BY <2>1, <2>2, <2>3, <2>4 DEF WriteTypeOK
  <1>4. MutexHeld
    BY CallsAssumption DEF Init, MutexHeld
  <1>5. WriterInv
    BY CallsAssumption DEF Init, WriterInv, Writing, Held
  <1> QED
    BY <1>2, <1>3, <1>4, <1>5 DEF CallsInv

(* Taking the next chunk keeps the types.                                   *)
LEMMA TakeTypes ==
  ASSUME CallsInv, NEW u \in Users, TakeChunk(u)
  PROVE  /\ [msg |-> msg[u], part |-> sent[u] + 1] \in Chunks
         /\ stream' = Append(stream, [msg |-> msg[u], part |-> sent[u] + 1])
         /\ Len(stream') = Len(stream) + 1
         /\ sent' = [sent EXCEPT ![u] = sent[u] + 1] /\ sent' \in [Users -> 0..MaxChunks]
         /\ sent[u] + 1 <= length[msg[u]] /\ length[msg[u]] <= MaxChunks
         /\ stream' \in Seq(Chunks)
         /\ accepted' \in Nat /\ fetched <= accepted' /\ accepted' <= Len(stream')
  <1>1. /\ msg \in [Users -> 0..MaxCalls] /\ sent \in [Users -> 0..MaxChunks]
        /\ length \in [Messages -> 0..MaxChunks] /\ MaxChunks \in Nat
    BY CallsAssumption DEF CallsInv, WriteTypeOK
  <1>2. /\ stream \in Seq(Chunks) /\ fetched \in Nat /\ accepted \in Nat
        /\ fetched <= accepted /\ accepted <= Len(stream) /\ Len(stream) \in Nat
    BY DEF CallsInv, PipeTypeOK
  <1>3. upc[u] = "chunk" /\ sent[u] < length[msg[u]]
    BY DEF TakeChunk, HasChunk
  <1>4. msg[u] \in Messages
    <2>1. msg[u] \in 1..calls /\ calls \in 0..MaxCalls
      BY <1>3 DEF CallsInv, WriteTypeOK, WriterInv, Writing
    <2> QED
      BY <2>1, CallsAssumption
  <1>5. sent[u] \in Nat /\ length[msg[u]] \in 0..MaxChunks
    BY <1>1, <1>4
  <1>6. sent[u] + 1 \in 1..MaxChunks /\ sent[u] + 1 \in 0..MaxChunks
    BY <1>1, <1>3, <1>5
  <1>7. sent' = [sent EXCEPT ![u] = sent[u] + 1] /\ sent'[u] = sent[u] + 1
    BY <1>1 DEF TakeChunk
  <1>8. sent' \in [Users -> 0..MaxChunks]
    BY <1>1, <1>6, <1>7
  <1> DEFINE c == [msg |-> msg[u], part |-> sent[u] + 1]
  <1>9. c \in Chunks
    BY <1>4, <1>6 DEF Chunks
  <1>10. stream' = Append(stream, c)
    BY <1>7 DEF TakeChunk
  <1>11. stream' \in Seq(Chunks) /\ Len(stream') = Len(stream) + 1
    <2> HIDE DEF c
    <2> QED
      BY <1>2, <1>9, <1>10
  <1>12. accepted' \in Nat /\ fetched <= accepted' /\ accepted' <= Len(stream')
    <2>1. CASE Room
      <3>1. accepted = Len(stream) /\ accepted' = accepted + 1
        BY <2>1 DEF TakeChunk, Room
      <3> QED
        BY <1>2, <1>11, <3>1
    <2>2. CASE ~Room
      <3>1. accepted' = accepted
        BY <2>2 DEF TakeChunk
      <3> QED
        BY <1>2, <1>11, <3>1
    <2> QED
      BY <2>1, <2>2
  <1>13. length[msg[u]] <= MaxChunks /\ sent[u] + 1 <= length[msg[u]]
    BY <1>1, <1>3, <1>5
  <1> QED
    BY <1>7, <1>8, <1>9, <1>10, <1>11, <1>12, <1>13

(* Dropping what waits behind the pipe leaves the pipe.                     *)
LEMMA DropTypes ==
  ASSUME PipeTypeOK
  PROVE  /\ SubSeq(stream, 1, accepted) \in Seq(Chunks)
         /\ Len(SubSeq(stream, 1, accepted)) = accepted
         /\ \A i \in 1..accepted : SubSeq(stream, 1, accepted)[i] = stream[i]
         /\ accepted \in Nat /\ Len(stream) \in Nat /\ accepted <= Len(stream)
  BY DEF PipeTypeOK

(* The stream as a sequence of chunks.                                      *)
LEMMA CallsStream ==
  ASSUME CallsInv
  PROVE  /\ Len(stream) \in Nat
         /\ \A i \in 1..Len(stream) : stream[i] \in Chunks /\ stream[i].part \in Nat
                                     /\ stream[i].msg \in Nat
  <1>1. stream \in Seq(Chunks)
    BY DEF CallsInv, PipeTypeOK
  <1>2. \A c \in Chunks : c.part \in Nat /\ c.msg \in Nat
    BY CallsAssumption DEF Chunks
  <1> QED
    BY <1>1, <1>2

(* The steps that write nothing: the questions, the owner and the world.    *)
Aside ==
    \/ \E u \in Users : WaitStart(u) \/ WaitReturns(u)
    \/ \E p \in Procs : SetProcess(p) \/ ChildExit(p)
    \/ HostClose \/ UNCHANGED vars

LEMMA AsideFrame ==
  ASSUME WriteTypeOK, Aside
  PROVE  /\ UNCHANGED <<async_, writeVars, pipeVars, callVars, cancels>>
         /\ \A u \in Users : upc'[u] # upc[u] =>
               upc[u] \in {"idle", "waitExit"} /\ upc'[u] \in {"idle", "waitExit"}
         /\ upc' \in [Users -> UserPCs]
  <1> USE DEF WriteTypeOK, UserPCs
  <1>1. CASE \E u \in Users : WaitStart(u) \/ WaitReturns(u)
    BY <1>1 DEF WaitStart, WaitReturns
  <1>2. CASE \E p \in Procs : SetProcess(p) \/ ChildExit(p)
    BY <1>2 DEF SetProcess, ChildExit
  <1>3. CASE HostClose \/ UNCHANGED vars
    BY <1>3 DEF HostClose
  <1> QED
    BY <1>1, <1>2, <1>3 DEF Aside

(* The fields and the children keep their types.                            *)
LEMMA ChildTypes == ChildTypeOK /\ [Next]_vars => ChildTypeOK'
  <1> SUFFICES ASSUME ChildTypeOK, [Next]_vars PROVE ChildTypeOK'
    OBVIOUS
  <1> USE DEF ChildTypeOK
  <1>1. CASE \E p \in Procs : SetProcess(p)
    BY <1>1 DEF SetProcess
  <1>2. CASE \E p \in Procs : ChildExit(p)
    BY <1>2 DEF ChildExit
  <1>3. CASE HostRead \/ HostClose \/ UNCHANGED vars
    BY <1>3 DEF HostRead, HostClose
  <1>4. CASE \E u \in Users : WaitStart(u) \/ WaitReturns(u)
    BY <1>4, Zenon DEF WaitStart, WaitReturns
  <1>5. CASE \E u \in Users : WriteStart(u) \/ WriteStep(u) \/ CancelIo(u)
    BY <1>5, Zenon DEF WriteStart, WriteStep, WriteLock, SyncWriteFile, WriteWakes,
       AsyncWriteFile, WriteFails, AsyncWriteFails, WriteReturns, Answer, CancelIo
  <1> QED
    BY <1>1, <1>2, <1>3, <1>4, <1>5 DEF Next

(* The types and the writers' places: one step for each action.             *)
LEMMA CallsStep == CallsInv /\ [Next]_vars => CallsInv'
  <1> SUFFICES ASSUME CallsInv, [Next]_vars PROVE CallsInv'
    OBVIOUS
  <1>0. /\ upc \in [Users -> UserPCs] /\ msg \in [Users -> Nat] /\ calls \in Nat
        /\ sent \in [Users -> Nat] /\ total \in [Users -> Nat]
        /\ length \in [Messages -> Nat] /\ result \in [Messages -> {"none", "ok", "err"}]
    BY CallsAssumption DEF CallsInv, WriteTypeOK
  <1>a. WriteTypeOK /\ PipeTypeOK /\ MutexHeld /\ WriterInv
    BY DEF CallsInv
  <1> USE CallsAssumption DEF Writing, Held
  <1>1. ASSUME NEW u \in Users, WriteStart(u) PROVE CallsInv'
    <2>1. PICK n \in 0..MaxChunks : length' = [length EXCEPT ![calls'] = n]
      BY <1>1 DEF WriteStart
    <2>2. /\ calls' = calls + 1 /\ calls' \in 0..MaxCalls /\ calls' \in Messages
          /\ upc[u] = "idle" /\ upc' = [upc EXCEPT ![u] = "lock"]
          /\ msg' = [msg EXCEPT ![u] = calls']
          /\ UNCHANGED <<async_, sent, total, holder, write_pending, pipeVars, result, count,
                         cancels>>
      BY <1>1, <1>a DEF WriteStart, WriteTypeOK
    <2>3. WriteTypeOK'
      <3>1. /\ upc' \in [Users -> UserPCs] /\ msg' \in [Users -> 0..MaxCalls]
            /\ length' \in [Messages -> 0..MaxChunks]
        BY <1>a, <2>1, <2>2 DEF WriteTypeOK, UserPCs
      <3> QED
        BY <1>a, <2>2, <3>1 DEF WriteTypeOK
    <2>4. PipeTypeOK' /\ MutexHeld'
      BY <1>0, <1>a, <2>2 DEF PipeTypeOK, MutexHeld
    <2>5. WriterInv'
      <3>1. ASSUME NEW v \in Users
            PROVE  /\ upc'[v] \in Writing => msg'[v] \in 1..calls' /\ sent'[v] <= length'[msg'[v]]
                                               /\ result'[msg'[v]] = "none"
                   /\ upc'[v] \notin Held => sent'[v] = 0 /\ total'[v] = 0
                   /\ total'[v] <= sent'[v]
                   /\ upc'[v] = "wait" => ~async_' /\ sent'[v] >= 1
                   /\ ~async_' => total'[v] = (IF upc'[v] = "wait" THEN sent'[v] - 1 ELSE sent'[v])
        <4>1. CASE v = u
          <5>1. upc'[v] = "lock" /\ msg'[v] = calls' /\ upc[v] = "idle"
            BY <1>0, <2>2, <4>1
          <5>2. sent[v] = 0 /\ total[v] = 0
            BY <1>a, <5>1 DEF WriterInv
          <5>3. result[calls'] = "none" /\ length'[calls'] = n
            BY <1>0, <1>a, <2>1, <2>2 DEF WriterInv
          <5> QED
            BY <2>2, <5>1, <5>2, <5>3
        <4>2. CASE v # u
          <5>1. upc'[v] = upc[v] /\ msg'[v] = msg[v]
            BY <1>0, <2>2, <4>2
          <5>2. msg[v] \in 1..calls /\ calls' \notin 1..calls => length'[msg[v]] = length[msg[v]]
            BY <1>0, <2>1, <2>2
          <5> QED
            BY <1>0, <1>a, <2>2, <5>1, <5>2 DEF WriterInv
        <4> QED
          BY <4>1, <4>2
      <3>2. ASSUME NEW v \in Users, NEW w \in Users,
                   v # w, upc'[v] \in Writing, upc'[w] \in Writing
            PROVE  msg'[v] # msg'[w]
        <4>1. /\ v # u => upc'[v] = upc[v] /\ msg'[v] = msg[v]
              /\ w # u => upc'[w] = upc[w] /\ msg'[w] = msg[w]
              /\ msg'[u] = calls + 1
          BY <1>0, <2>2
        <4>2. /\ v # u => msg[v] \in 1..calls
              /\ w # u => msg[w] \in 1..calls
          BY <1>a, <3>2, <4>1 DEF WriterInv
        <4>3. v # u /\ w # u => msg[v] # msg[w]
          BY <1>a, <3>2, <4>1 DEF WriterInv
        <4> QED
          BY <1>0, <3>2, <4>1, <4>2, <4>3
      <3>3. \A m \in Messages : m > calls' => result'[m] = "none"
        BY <1>0, <1>a, <2>2 DEF WriterInv
      <3> QED
        BY <3>1, <3>2, <3>3 DEF WriterInv
    <2> QED
      BY <2>3, <2>4, <2>5 DEF CallsInv
  <1>2. ASSUME NEW u \in Users, WriteLock(u) PROVE CallsInv'
    <2>1. WriteTypeOK'
      BY <1>a, <1>2 DEF WriteLock, WriteTypeOK, UserPCs
    <2>2. PipeTypeOK' /\ MutexHeld'
      BY <1>0, <1>a, <1>2 DEF WriteLock, PipeTypeOK, MutexHeld
    <2>3. WriterInv'
      BY <1>0, <1>a, <1>2 DEF WriteLock, WriterInv
    <2> QED
      BY <2>1, <2>2, <2>3 DEF CallsInv
  <1>3. ASSUME NEW u \in Users, SyncWriteFile(u) PROVE CallsInv'
    <2>1. /\ ~async_ /\ async_' = async_ /\ TakeChunk(u)
          /\ UNCHANGED <<msg, holder, write_pending, fetched, cut, callVars, cancels>>
      BY <1>3 DEF SyncWriteFile
    <2>2. total[u] = sent[u] /\ upc[u] = "chunk" /\ sent[u] \in Nat
      BY <1>0, <1>a, <2>1 DEF TakeChunk, HasChunk, WriterInv
    <2>3. PICK to \in {"chunk", "wait"} :
             /\ upc' = [upc EXCEPT ![u] = to]
             /\ total' = [total EXCEPT ![u] = IF to = "wait" THEN sent[u] ELSE sent[u] + 1]
      <3>1. CASE Room
        BY <1>3, <2>2, <3>1 DEF SyncWriteFile
      <3>2. CASE ~Room
        BY <1>3, <2>2, <3>2 DEF SyncWriteFile
      <3> QED
        BY <3>1, <3>2
    <2>4. /\ sent' = [sent EXCEPT ![u] = sent[u] + 1] /\ sent' \in [Users -> 0..MaxChunks]
          /\ sent[u] + 1 <= length[msg[u]] /\ length[msg[u]] <= MaxChunks
          /\ PipeTypeOK'
      BY <1>a, <2>1, TakeTypes DEF PipeTypeOK
    <2>5. WriteTypeOK'
      <3>1. upc' \in [Users -> UserPCs] /\ total' \in [Users -> 0..MaxChunks]
        <4>1. sent[u] \in 0..MaxChunks /\ sent[u] + 1 \in 0..MaxChunks
          BY <1>0, <1>a, <2>2, <2>4 DEF WriteTypeOK
        <4> QED
          BY <1>a, <2>3, <4>1 DEF WriteTypeOK, UserPCs
      <3> QED
        BY <1>a, <2>1, <2>4, <3>1 DEF WriteTypeOK
    <2>6. MutexHeld'
      BY <1>0, <1>a, <2>1, <2>2, <2>3 DEF MutexHeld
    <2>7. WriterInv'
      BY <1>0, <1>a, <2>1, <2>2, <2>3, <2>4 DEF WriterInv
    <2> QED
      BY <2>4, <2>5, <2>6, <2>7 DEF CallsInv
  <1>4. ASSUME NEW u \in Users, WriteWakes(u) PROVE CallsInv'
    <2>1. total[u] + 1 = sent[u] /\ total[u] + 1 \in 0..MaxChunks
      BY <1>a, <1>4 DEF WriteWakes, WriterInv, WriteTypeOK
    <2>2. WriteTypeOK'
      BY <1>a, <1>4, <2>1 DEF WriteWakes, WriteTypeOK, UserPCs
    <2>3. PipeTypeOK' /\ MutexHeld'
      BY <1>0, <1>a, <1>4 DEF WriteWakes, PipeTypeOK, MutexHeld
    <2>4. WriterInv'
      BY <1>0, <1>a, <1>4, <2>1 DEF WriteWakes, WriterInv
    <2> QED
      BY <2>2, <2>3, <2>4 DEF CallsInv
  <1>5. ASSUME NEW u \in Users, AsyncWriteFile(u) PROVE CallsInv'
    <2>1. /\ async_ /\ async_' = async_ /\ TakeChunk(u)
          /\ UNCHANGED <<upc, msg, holder, fetched, cut, callVars, cancels>>
      BY <1>5 DEF AsyncWriteFile
    <2>2. total' = total
      BY <1>0, <1>5 DEF AsyncWriteFile, OverlappedCount
    <2>3. write_pending' \in BOOLEAN
      BY <1>5, Zenon DEF AsyncWriteFile
    <2>4. upc[u] = "chunk"
      BY <2>1 DEF TakeChunk, HasChunk
    <2>5. /\ sent' = [sent EXCEPT ![u] = sent[u] + 1] /\ sent' \in [Users -> 0..MaxChunks]
          /\ sent[u] + 1 <= length[msg[u]] /\ PipeTypeOK'
      BY <1>a, <2>1, TakeTypes DEF PipeTypeOK
    <2>6. WriteTypeOK'
      BY <1>a, <2>1, <2>2, <2>3, <2>5 DEF WriteTypeOK
    <2>7. MutexHeld'
      BY <1>a, <2>1 DEF MutexHeld
    <2>8. WriterInv'
      BY <1>0, <1>a, <2>1, <2>2, <2>4, <2>5 DEF WriterInv
    <2> QED
      BY <2>5, <2>6, <2>7, <2>8 DEF CallsInv
  <1>6. ASSUME NEW u \in Users, WriteFails(u) \/ AsyncWriteFails(u) \/ WriteReturns(u)
        PROVE  CallsInv'
    <2>1. PICK r \in {"ok", "err"} : Answer(u, r)
      BY <1>6 DEF WriteFails, AsyncWriteFails, WriteReturns
    <2>2. upc[u] \in Held /\ holder = u /\ msg[u] \in Messages
      BY <1>a, <1>6 DEF WriteFails, AsyncWriteFails, WriteReturns, HasChunk,
         WriteTypeOK, MutexHeld, WriterInv
    <2>3. PipeTypeOK'
      <3>1. stream' \in Seq(Chunks) /\ accepted <= Len(stream')
        BY <1>a, <1>6, DropTypes DEF WriteFails, AsyncWriteFails, WriteReturns, PipeTypeOK
      <3> QED
        BY <1>a, <2>1, <3>1 DEF Answer, PipeTypeOK
    <2>4. WriteTypeOK'
      <3>1. /\ upc' \in [Users -> UserPCs] /\ holder' \in Users \cup {NoUser}
            /\ sent' \in [Users -> 0..MaxChunks] /\ total' \in [Users -> 0..MaxChunks]
        BY <1>a, <2>1 DEF Answer, WriteTypeOK, UserPCs
      <3>2. /\ result' \in [Messages -> {"none", "ok", "err"}]
            /\ count' \in [Messages -> 0..MaxChunks]
        BY <1>a, <2>1, <2>2 DEF Answer, WriteTypeOK
      <3>3. UNCHANGED <<async_, msg, calls, length, cancels>>
        BY <2>1 DEF Answer
      <3>4. write_pending' \in BOOLEAN
        <4>1. write_pending' = write_pending \/ write_pending' = FALSE
          BY <1>6, Zenon DEF WriteFails, AsyncWriteFails, WriteReturns
        <4>2. write_pending \in BOOLEAN
          BY <1>a DEF WriteTypeOK
        <4> QED
          BY <4>1, <4>2
      <3> QED
        BY <1>a, <3>1, <3>2, <3>3, <3>4 DEF WriteTypeOK
    <2>5. MutexHeld'
      BY <1>0, <1>a, <2>1, <2>2 DEF Answer, MutexHeld
    <2>6. WriterInv'
      BY <1>0, <1>a, <2>1, <2>2 DEF Answer, WriterInv
    <2> QED
      BY <2>3, <2>4, <2>5, <2>6 DEF CallsInv
  <1>7. ASSUME NEW u \in Users, CancelIo(u) PROVE CallsInv'
    <2>1. stream' \in Seq(Chunks) /\ accepted <= Len(stream')
      BY <1>a, <1>7, DropTypes DEF CancelIo, PipeTypeOK
    <2>2. cut' \subseteq Messages
      <3>1. \A i \in accepted + 1 .. Len(stream) : stream[i] \in Chunks
        BY <1>a DEF PipeTypeOK
      <3>2. \A c \in Chunks : c.msg \in Messages
        BY DEF Chunks
      <3>3. {stream[i].msg : i \in accepted + 1 .. Len(stream)} \subseteq Messages
        BY <3>1, <3>2
      <3>4. cut' = cut \cup {stream[i].msg : i \in accepted + 1 .. Len(stream)} \/ cut' = cut
        BY <1>7, Zenon DEF CancelIo
      <3> QED
        BY <1>a, <3>3, <3>4 DEF PipeTypeOK
    <2>3. PipeTypeOK'
      <3>1. UNCHANGED <<fetched, accepted>>
        BY <1>7 DEF CancelIo
      <3>2. fetched \in Nat /\ accepted \in Nat /\ fetched <= accepted
        BY <1>a DEF PipeTypeOK
      <3> QED
        BY <2>1, <2>2, <3>1, <3>2 DEF PipeTypeOK
    <2>4. WriteTypeOK'
      <3>1. /\ UNCHANGED <<async_, upc, writeVars, callVars>>
            /\ cancels' = cancels + 1 /\ cancels \in Nat
        BY <1>a, <1>7 DEF CancelIo, WriteTypeOK
      <3> QED
        BY <1>a, <3>1 DEF WriteTypeOK
    <2>5. MutexHeld' /\ WriterInv'
      BY <1>a, <1>7 DEF CancelIo, MutexHeld, WriterInv
    <2> QED
      BY <2>3, <2>4, <2>5 DEF CallsInv
  <1>8. CASE HostRead
    <2>1. WriteTypeOK'
      BY <1>a, <1>8 DEF HostRead, WriteTypeOK
    <2>3. PipeTypeOK'
      <3>1. /\ UNCHANGED <<stream, cut>> /\ fetched < accepted /\ fetched' = fetched + 1
            /\ accepted' = (IF accepted < Len(stream) THEN accepted + 1 ELSE accepted)
        BY <1>8 DEF HostRead
      <3>2. stream \in Seq(Chunks) /\ Len(stream) \in Nat
        BY <1>a DEF PipeTypeOK
      <3> QED
        BY <1>a, <3>1, <3>2 DEF PipeTypeOK
    <2>2. MutexHeld' /\ WriterInv'
      BY <1>a, <1>8 DEF HostRead, MutexHeld, WriterInv
    <2> QED
      BY <2>1, <2>2, <2>3 DEF CallsInv
  <1>9. CASE Aside
    <2>1. WriteTypeOK' /\ PipeTypeOK'
      BY <1>a, <1>9, AsideFrame DEF WriteTypeOK, PipeTypeOK
    <2>2. MutexHeld'
      BY <1>0, <1>a, <1>9, AsideFrame DEF MutexHeld
    <2>3. ASSUME NEW v \in Users
          PROVE  /\ upc'[v] \in Writing => upc'[v] = upc[v]
                 /\ upc'[v] \notin Held => upc[v] \notin Held
                 /\ upc'[v] = "wait" => upc[v] = "wait"
                 /\ upc[v] = "wait" => upc'[v] = "wait"
      BY <1>a, <1>9, AsideFrame
    <2>4. UNCHANGED <<async_, msg, sent, total, calls, length, result>>
      BY <1>a, <1>9, AsideFrame
    <2>5. WriterInv'
      <3>1. ASSUME NEW v \in Users
            PROVE  /\ upc'[v] \in Writing => msg[v] \in 1..calls /\ sent[v] <= length[msg[v]]
                                               /\ result[msg[v]] = "none"
                   /\ upc'[v] \notin Held => sent[v] = 0 /\ total[v] = 0
                   /\ total[v] <= sent[v]
                   /\ upc'[v] = "wait" => ~async_ /\ sent[v] >= 1
                   /\ ~async_ => total[v] = (IF upc'[v] = "wait" THEN sent[v] - 1 ELSE sent[v])
        BY <1>a, <2>3 DEF WriterInv
      <3>2. \A v, w \in Users :
               v # w /\ upc'[v] \in Writing /\ upc'[w] \in Writing => msg[v] # msg[w]
        BY <1>a, <2>3 DEF WriterInv
      <3> QED
        BY <1>a, <2>4, <3>1, <3>2 DEF WriterInv
    <2> QED
      BY <2>1, <2>2, <2>5 DEF CallsInv
  <1> QED
    BY <1>1, <1>2, <1>3, <1>4, <1>5, <1>6, <1>7, <1>8, <1>9 DEF Next, WriteStep, Aside

(* The types of all variables, and who holds write_mutex.                   *)
THEOREM CallsTypeCorrect == Spec => []CallsTypeOK
  <1>1. CallsInv /\ ChildTypeOK => CallsTypeOK
    BY DEF CallsInv, CallsTypeOK
  <1> QED
    BY CallsInit, CallsStep, ChildTypes, <1>1, PTL DEF Spec

-----------------------------------------------------------------------------
(* The message of the holder is the last one in the stream, as far as it    *)
(* was sent; one that waits for the mutex has nothing there.                *)
QueueInv ==
    /\ \A i \in 1..Len(stream) : stream[i].msg \in 1..calls
    /\ \A u \in Users, i \in 1..Len(stream) : upc[u] = "lock" => stream[i].msg # msg[u]
    /\ \A u \in Users : upc[u] \in Held =>
         /\ \A i \in 1..Len(stream) : stream[i].msg = msg[u] => stream[i].part <= sent[u]
         /\ \A i, j \in 1..Len(stream) : i < j /\ stream[i].msg = msg[u] => stream[j].msg = msg[u]

(* A step takes a chunk of the holder ...                                   *)
Takes(u) ==
    /\ upc[u] = "chunk" /\ TakeChunk(u)
    /\ UNCHANGED <<async_, msg, calls, length, result, cut>>
    /\ upc'[u] \in Held /\ \A v \in Users : v # u => upc'[v] = upc[v]
    /\ async_ \/ Room \/ upc'[u] = "wait"

(* ... or keeps the stream or a beginning of it, while calls begin, get the *)
(* mutex or end.                                                            *)
Keeps ==
    /\ Len(stream') \in Nat /\ Len(stream') <= Len(stream)
    /\ \A i \in 1..Len(stream') : stream'[i] = stream[i]
    /\ calls' \in Nat /\ calls' >= calls
    /\ \A u \in Users : upc'[u] \in Held =>
         upc[u] \in Writing /\ msg'[u] = msg[u] /\ sent'[u] = sent[u]
    /\ \A u \in Users : upc'[u] = "lock" =>
         (upc[u] = "lock" /\ msg'[u] = msg[u]) \/ msg'[u] = calls + 1

LEMMA WriteTakes ==
  ASSUME CallsInv, NEW u \in Users, SyncWriteFile(u) \/ AsyncWriteFile(u)
  PROVE  Takes(u)
  <1>0. upc \in [Users -> UserPCs]
    BY DEF CallsInv, WriteTypeOK
  <1>1. TakeChunk(u) /\ upc[u] = "chunk" /\ UNCHANGED <<async_, msg, calls, length, result, cut>>
    BY DEF SyncWriteFile, AsyncWriteFile, TakeChunk, HasChunk
  <1>2. CASE AsyncWriteFile(u)
    BY <1>1, <1>2 DEF AsyncWriteFile, Takes, Held
  <1>3. CASE SyncWriteFile(u) /\ Room
    <2>1. upc' = [upc EXCEPT ![u] = "chunk"]
      BY <1>3 DEF SyncWriteFile
    <2> QED
      BY <1>0, <1>1, <1>3, <2>1 DEF Takes, Held
  <1>4. CASE SyncWriteFile(u) /\ ~Room
    <2>1. upc' = [upc EXCEPT ![u] = "wait"]
      BY <1>4 DEF SyncWriteFile
    <2> QED
      BY <1>0, <1>1, <2>1 DEF Takes, Held
  <1> QED
    BY <1>2, <1>3, <1>4

LEMMA TakesOrKeeps ==
  ASSUME CallsInv, [Next]_vars
  PROVE  Keeps \/ \E u \in Users : Takes(u)
  <1>0. /\ upc \in [Users -> UserPCs] /\ msg \in [Users -> Nat] /\ calls \in Nat
        /\ sent \in [Users -> Nat]
    BY CallsAssumption DEF CallsInv, WriteTypeOK
  <1>a. WriteTypeOK /\ PipeTypeOK /\ MutexHeld /\ WriterInv
    BY DEF CallsInv
  <1>b. Len(stream) \in Nat
    BY <1>a DEF PipeTypeOK
  <1> USE DEF Writing, Held
  <1>1. ASSUME NEW u \in Users, WriteStart(u) PROVE Keeps
    BY <1>0, <1>a, <1>b, <1>1 DEF WriteStart, Keeps
  <1>2. ASSUME NEW u \in Users, WriteLock(u) \/ WriteWakes(u) PROVE Keeps
    BY <1>0, <1>a, <1>b, <1>2 DEF WriteLock, WriteWakes, Keeps
  <1>3. ASSUME NEW u \in Users, SyncWriteFile(u) \/ AsyncWriteFile(u) PROVE Takes(u)
    BY <1>3, WriteTakes
  <1>5. ASSUME NEW u \in Users, WriteFails(u) \/ AsyncWriteFails(u) \/ WriteReturns(u)
        PROVE  Keeps
    <2>1. PICK r \in {"ok", "err"} : Answer(u, r)
      BY <1>5 DEF WriteFails, AsyncWriteFails, WriteReturns
    <2>2. /\ Len(stream') \in Nat /\ Len(stream') <= Len(stream)
          /\ \A i \in 1..Len(stream') : stream'[i] = stream[i]
      BY <1>0, <1>a, <1>b, <1>5, DropTypes DEF WriteFails, AsyncWriteFails, WriteReturns
    <2> QED
      BY <1>0, <1>a, <1>b, <2>1, <2>2 DEF Answer, Keeps
  <1>6. ASSUME NEW u \in Users, CancelIo(u) PROVE Keeps
    <2>1. /\ Len(stream') \in Nat /\ Len(stream') <= Len(stream)
          /\ \A i \in 1..Len(stream') : stream'[i] = stream[i]
      BY <1>0, <1>a, <1>b, <1>6, DropTypes DEF CancelIo
    <2> QED
      BY <1>0, <1>a, <1>b, <1>6, <2>1 DEF CancelIo, Keeps
  <1>7. CASE HostRead
    BY <1>0, <1>a, <1>b, <1>7 DEF HostRead, Keeps
  <1>8. CASE Aside
    <2>1. UNCHANGED <<stream, calls, msg, sent>>
      BY <1>a, <1>8, AsideFrame
    <2>2. \A u \in Users : upc'[u] \in Writing => upc'[u] = upc[u]
      BY <1>a, <1>8, AsideFrame
    <2> QED
      BY <1>0, <1>b, <2>1, <2>2 DEF Keeps
  <1> QED
    BY <1>1, <1>2, <1>3, <1>5, <1>6, <1>7, <1>8 DEF Next, WriteStep, Aside

(* The stream after a chunk was taken.                                      *)
LEMMA TakenStream ==
  ASSUME CallsInv, NEW u \in Users, Takes(u)
  PROVE  /\ Len(stream) \in Nat /\ Len(stream') = Len(stream) + 1
         /\ \A i \in 1..Len(stream) : stream'[i] = stream[i]
         /\ stream'[Len(stream')] = [msg |-> msg[u], part |-> sent[u] + 1]
         /\ sent[u] \in Nat /\ sent'[u] = sent[u] + 1 /\ sent[u] + 1 <= length[msg[u]]
         /\ \A v \in Users : upc[v] \in Held => v = u
  <1>1. WriteTypeOK /\ PipeTypeOK /\ MutexHeld /\ TakeChunk(u)
    BY DEF CallsInv, Takes
  <1> DEFINE c == [msg |-> msg[u], part |-> sent[u] + 1]
  <1>2. /\ c \in Chunks /\ stream' = Append(stream, c)
        /\ sent' = [sent EXCEPT ![u] = sent[u] + 1] /\ sent[u] + 1 <= length[msg[u]]
    BY <1>1, TakeTypes
  <1>3. sent[u] \in Nat /\ sent'[u] = sent[u] + 1
    BY <1>1, <1>2 DEF WriteTypeOK
  <1>4. stream \in Seq(Chunks)
    BY <1>1 DEF PipeTypeOK
  <1> HIDE DEF c
  <1>5. /\ Len(stream) \in Nat /\ Len(stream') = Len(stream) + 1
        /\ \A i \in 1..Len(stream) : stream'[i] = stream[i]
        /\ stream'[Len(stream')] = c
    BY <1>2, <1>4
  <1>6. \A v \in Users : upc[v] \in Held => v = u
    BY <1>1 DEF Takes, MutexHeld, Held
  <1> QED
    BY <1>2, <1>3, <1>5, <1>6 DEF c

LEMMA QueueStep == CallsInv /\ QueueInv /\ [Next]_vars => QueueInv'
  <1> SUFFICES ASSUME CallsInv, QueueInv, [Next]_vars PROVE QueueInv'
    OBVIOUS
  <1>0. /\ calls \in Nat /\ msg \in [Users -> Nat]
        /\ \A u \in Users : upc[u] \in Writing => msg[u] \in 1..calls
        /\ \A u, v \in Users :
             u # v /\ upc[u] \in Writing /\ upc[v] \in Writing => msg[u] # msg[v]
    BY CallsAssumption DEF CallsInv, WriterInv, WriteTypeOK
  <1> USE DEF Writing, Held
  <1>1. CASE Keeps
    <2>1. \A i \in 1..Len(stream') : i \in 1..Len(stream) /\ stream'[i] = stream[i]
      BY <1>1, CallsStream DEF Keeps
    <2>2. \A i \in 1..Len(stream') : stream'[i].msg \in 1..calls'
      BY <1>0, <1>1, <2>1 DEF Keeps, QueueInv
    <2>3. ASSUME NEW u \in Users, NEW i \in 1..Len(stream'), upc'[u] = "lock"
          PROVE  stream'[i].msg # msg'[u]
      BY <1>0, <1>1, <2>1, <2>3 DEF Keeps, QueueInv
    <2>4. ASSUME NEW u \in Users, upc'[u] \in Held
          PROVE  /\ \A i \in 1..Len(stream') : stream'[i].msg = msg'[u] => stream'[i].part <= sent'[u]
                 /\ \A i, j \in 1..Len(stream') :
                      i < j /\ stream'[i].msg = msg'[u] => stream'[j].msg = msg'[u]
      <3>1. upc[u] \in Writing /\ msg'[u] = msg[u] /\ sent'[u] = sent[u]
        BY <1>1, <2>4 DEF Keeps
      <3>2. CASE upc[u] = "lock"
        <4>1. \A i \in 1..Len(stream') : stream'[i].msg # msg'[u]
          BY <2>1, <3>1, <3>2 DEF QueueInv
        <4> QED
          BY <4>1
      <3>3. CASE upc[u] \in Held
        <4>1. \A i \in 1..Len(stream') : stream'[i].msg = msg'[u] => stream'[i].part <= sent'[u]
          BY <2>1, <3>1, <3>3 DEF QueueInv
        <4>2. \A i, j \in 1..Len(stream') :
                 i < j /\ stream'[i].msg = msg'[u] => stream'[j].msg = msg'[u]
          BY <2>1, <3>1, <3>3 DEF QueueInv
        <4> QED
          BY <4>1, <4>2
      <3> QED
        BY <3>1, <3>2, <3>3
    <2> QED
      BY <2>2, <2>3, <2>4 DEF QueueInv
  <1>2. ASSUME NEW u \in Users, Takes(u) PROVE QueueInv'
    <2>1. /\ Len(stream) \in Nat /\ Len(stream') = Len(stream) + 1
          /\ \A i \in 1..Len(stream) : stream'[i] = stream[i]
          /\ stream'[Len(stream')].msg = msg[u] /\ stream'[Len(stream')].part = sent[u] + 1
          /\ sent[u] \in Nat /\ sent'[u] = sent[u] + 1
          /\ \A v \in Users : upc[v] \in Held => v = u
      <3>1. stream'[Len(stream')] = [msg |-> msg[u], part |-> sent[u] + 1]
        BY <1>2, TakenStream
      <3>2. stream'[Len(stream')].msg = msg[u] /\ stream'[Len(stream')].part = sent[u] + 1
        BY <3>1
      <3> QED
        BY <1>2, <3>2, TakenStream
    <2>2. /\ upc[u] = "chunk" /\ UNCHANGED <<msg, calls>>
          /\ upc'[u] \in Held /\ \A v \in Users : v # u => upc'[v] = upc[v]
      BY <1>2 DEF Takes
    <2>3. \A i \in 1..Len(stream') : i \in 1..Len(stream) \/ i = Len(stream')
      BY <2>1
    <2>4. \A i \in 1..Len(stream') : stream'[i].msg \in 1..calls'
      BY <1>0, <2>1, <2>2, <2>3 DEF QueueInv
    <2>5. ASSUME NEW v \in Users, NEW i \in 1..Len(stream'), upc'[v] = "lock"
          PROVE  stream'[i].msg # msg'[v]
      BY <1>0, <2>1, <2>2, <2>3, <2>5 DEF QueueInv
    <2>6. ASSUME NEW v \in Users, upc'[v] \in Held
          PROVE  /\ \A i \in 1..Len(stream') : stream'[i].msg = msg'[v] => stream'[i].part <= sent'[v]
                 /\ \A i, j \in 1..Len(stream') :
                      i < j /\ stream'[i].msg = msg'[v] => stream'[j].msg = msg'[v]
      <3>1. v = u
        BY <2>1, <2>2, <2>6
      <3>2. ASSUME NEW i \in 1..Len(stream) PROVE stream[i].part \in Nat
        BY CallsStream
      <3>3. \A i \in 1..Len(stream') : stream'[i].msg = msg[u] => stream'[i].part <= sent[u] + 1
        BY <2>1, <2>2, <2>3, <3>2 DEF QueueInv
      <3>4. \A i, j \in 1..Len(stream') :
               i < j /\ stream'[i].msg = msg[u] => stream'[j].msg = msg[u]
        BY <2>1, <2>2, <2>3 DEF QueueInv
      <3> QED
        BY <2>1, <2>2, <3>1, <3>3, <3>4
    <2> QED
      BY <2>4, <2>5, <2>6 DEF QueueInv
  <1> QED
    BY <1>1, <1>2, TakesOrKeeps

(* MessagesUnbroken needs no more: what is added belongs to the holder,     *)
(* whose chunks are the last ones.                                          *)
LEMMA UnbrokenStep ==
  CallsInv /\ QueueInv /\ MessagesUnbroken /\ [Next]_vars => MessagesUnbroken'
  <1> SUFFICES ASSUME CallsInv, QueueInv, MessagesUnbroken, [Next]_vars PROVE MessagesUnbroken'
    OBVIOUS
  <1>1. CASE Keeps
    <2>1. \A i \in 1..Len(stream') : i \in 1..Len(stream) /\ stream'[i] = stream[i]
      BY <1>1, CallsStream DEF Keeps
    <2>2. \A i, j \in 1..Len(stream') : i..j \subseteq 1..Len(stream')
      BY <1>1 DEF Keeps
    <2> QED
      BY <2>1, <2>2 DEF MessagesUnbroken
  <1>2. ASSUME NEW u \in Users, Takes(u) PROVE MessagesUnbroken'
    <2>1. /\ Len(stream) \in Nat /\ Len(stream') = Len(stream) + 1
          /\ \A i \in 1..Len(stream) : stream'[i] = stream[i]
          /\ sent[u] \in Nat
      BY <1>2, TakenStream
    <2>2. stream'[Len(stream')].msg = msg[u] /\ stream'[Len(stream')].part = sent[u] + 1
      <3>1. stream'[Len(stream')] = [msg |-> msg[u], part |-> sent[u] + 1]
        BY <1>2, TakenStream
      <3> QED
        BY <3>1
    <2>3. /\ \A i \in 1..Len(stream) : stream[i].msg = msg[u] => stream[i].part <= sent[u]
          /\ \A i, j \in 1..Len(stream) : i < j /\ stream[i].msg = msg[u] => stream[j].msg = msg[u]
      BY <1>2 DEF Takes, QueueInv, Held
    <2>4. ASSUME NEW i \in 1..Len(stream'), NEW j \in 1..Len(stream'), i < j,
                 stream'[i].msg = stream'[j].msg
          PROVE  /\ stream'[i].part < stream'[j].part
                 /\ \A k \in i..j : stream'[k].msg = stream'[i].msg
      <3>1. i \in 1..Len(stream) /\ (j \in 1..Len(stream) \/ j = Len(stream'))
        BY <2>1, <2>4
      <3>2. CASE j \in 1..Len(stream)
        <4>1. \A k \in i..j : k \in 1..Len(stream)
          BY <2>1, <3>1, <3>2
        <4> QED
          BY <2>1, <2>4, <3>1, <3>2, <4>1 DEF MessagesUnbroken
      <3>3. CASE j = Len(stream')
        <4>1. stream[i].msg = msg[u] /\ stream[i].part <= sent[u] /\ stream[i].part \in Nat
          BY <2>1, <2>2, <2>3, <2>4, <3>1, <3>3, CallsStream
        <4>2. \A k \in i..j : k = i \/ (i < k /\ k \in 1..Len(stream)) \/ k = j
          BY <2>1, <3>1, <3>3
        <4> QED
          BY <2>1, <2>2, <2>3, <2>4, <3>1, <3>3, <4>1, <4>2
      <3> QED
        BY <3>1, <3>2, <3>3
    <2> QED
      BY <2>4 DEF MessagesUnbroken
  <1> QED
    BY <1>1, <1>2, TakesOrKeeps

LEMMA QueueCorrect == Spec => [](CallsInv /\ QueueInv /\ MessagesUnbroken)
  <1>1. Init => QueueInv /\ MessagesUnbroken
    <2>1. Init => stream = <<>> /\ \A u \in Users : upc[u] = "idle"
      BY DEF Init
    <2> QED
      BY <2>1 DEF QueueInv, MessagesUnbroken, Held
  <1> QED
    BY <1>1, CallsInit, CallsStep, QueueStep, UnbrokenStep, PTL DEF Spec

(* Concurrent writes do not mix their messages (base.rs, write_mutex).      *)
THEOREM MessagesStayWhole == Spec => []MessagesUnbroken
  BY QueueCorrect, PTL

-----------------------------------------------------------------------------
Has(s, m, k) == \E i \in 1..Len(s) : s[i].msg = m /\ s[i].part = k

(* What a synchronous writer has in line is its own; what the holder has    *)
(* sent and what an Ok stands for is in the stream, but for a cancel.       *)
LineInv ==
    ~async_ => \A i \in 1..Len(stream) : i > accepted =>
        \E u \in Users : upc[u] = "wait" /\ stream[i].msg = msg[u]

SentInv ==
    /\ \A i \in 1..Len(stream) : stream[i].part <= length[stream[i].msg]
    /\ \A u \in Users : upc[u] \in Held /\ msg[u] \notin cut =>
         /\ \A k \in 1..sent[u] : Has(stream, msg[u], k)
         /\ sent[u] >= 1 => /\ Len(stream) >= 1 /\ stream[Len(stream)].msg = msg[u]
                            /\ stream[Len(stream)].part = sent[u]
    /\ \A m \in Messages : result[m] = "ok" /\ m \notin cut =>
         \A k \in 1..length[m] : Has(stream, m, k)

(* A step that takes no chunk: what it loses is accounted for, as cut or as *)
(* an error, and an Ok comes only when everything was sent.                 *)
Accounts ==
    /\ async_' = async_ /\ cut \subseteq cut' /\ accepted' >= accepted
    /\ \A m \in 1..calls :
         length'[m] = length[m] /\ (result[m] # "none" => result'[m] = result[m])
    /\ \A i \in 1..Len(stream) : i > Len(stream') =>
         stream[i].msg \in cut' \/ result'[stream[i].msg] = "err"
    /\ \A u \in Users : upc[u] = "wait" => upc'[u] = "wait" \/ Len(stream') <= accepted'
    /\ \A m \in Messages : result'[m] = "ok" =>
         \/ result[m] = "ok"
         \/ \E u \in Users : upc[u] \in Held /\ msg[u] = m /\ sent[u] = length[m]

LEMMA KeepsAccounts ==
  ASSUME CallsInv, LineInv, [Next]_vars
  PROVE  Accounts \/ \E u \in Users : Takes(u)
  <1>0. /\ upc \in [Users -> UserPCs] /\ msg \in [Users -> Nat] /\ calls \in Nat
        /\ sent \in [Users -> Nat] /\ length \in [Messages -> Nat]
        /\ result \in [Messages -> {"none", "ok", "err"}] /\ calls <= MaxCalls
        /\ \A u, v \in Users : upc[u] \in Held /\ upc[v] \in Held => u = v
        /\ \A u \in Users : upc[u] \in Held =>
             msg[u] \in Messages /\ msg[u] \in 1..calls /\ result[msg[u]] = "none"
    BY CallsAssumption DEF CallsInv, WriteTypeOK, MutexHeld, WriterInv, Writing, Held
  <1>a. PipeTypeOK
    BY DEF CallsInv
  <1>b. accepted \in Nat /\ Len(stream) \in Nat
    BY <1>a DEF PipeTypeOK
  <1> USE DEF Held
  <1>1. ASSUME NEW u \in Users, WriteStart(u) PROVE Accounts
    <2>1. PICK n \in 0..MaxChunks : length' = [length EXCEPT ![calls + 1] = n]
      BY <1>1 DEF WriteStart
    <2>2. \A m \in 1..calls : m \in Messages /\ m # calls + 1
      BY <1>0, CallsAssumption DEF CallsInv, WriteTypeOK
    <2>3. \A m \in 1..calls : length'[m] = length[m]
      BY <1>0, <2>1, <2>2
    <2>4. /\ UNCHANGED <<async_, stream, accepted, cut, result>>
          /\ upc[u] = "idle" /\ upc' = [upc EXCEPT ![u] = "lock"]
      BY <1>1 DEF WriteStart
    <2>5. \A v \in Users : upc[v] = "wait" => upc'[v] = "wait"
      BY <1>0, <2>4
    <2> QED
      BY <1>b, <2>3, <2>4, <2>5 DEF Accounts
  <1>2. ASSUME NEW u \in Users, WriteLock(u) \/ WriteWakes(u) PROVE Accounts
    <2>1. UNCHANGED <<async_, stream, accepted, cut, length, result>>
      BY <1>2 DEF WriteLock, WriteWakes
    <2>2. upc' = [upc EXCEPT ![u] = "chunk"]
      BY <1>2 DEF WriteLock, WriteWakes
    <2>3. upc[u] = "wait" => accepted = Len(stream)
      BY <1>2 DEF WriteLock, WriteWakes
    <2>4. \A v \in Users : upc[v] = "wait" => upc'[v] = "wait" \/ Len(stream') <= accepted'
      BY <1>0, <1>b, <2>1, <2>2, <2>3
    <2> QED
      BY <1>b, <2>1, <2>4 DEF Accounts
  <1>3. ASSUME NEW u \in Users, WriteFails(u) PROVE Accounts
    <2>1. /\ ~async_ /\ upc[u] \in Held /\ Answer(u, "err")
          /\ Len(stream') = accepted
      BY <1>a, <1>3, DropTypes DEF WriteFails, ConinBroken, HasChunk
    <2>2. result' = [result EXCEPT ![msg[u]] = "err"] /\ result[msg[u]] = "none"
          /\ msg[u] \in Messages /\ UNCHANGED <<async_, cut, accepted, length>>
      BY <1>0, <2>1 DEF Answer
    <2>3. ASSUME NEW i \in 1..Len(stream), i > Len(stream') PROVE result'[stream[i].msg] = "err"
      <3>1. PICK v \in Users : upc[v] = "wait" /\ stream[i].msg = msg[v]
        BY <2>1, <2>3 DEF LineInv
      <3>2. v = u
        BY <1>0, <2>1, <3>1
      <3> QED
        BY <1>0, <2>2, <3>1, <3>2
    <2>4. \A m \in Messages : m # msg[u] => result'[m] = result[m]
      BY <1>0, <2>2
    <2>5. result'[msg[u]] = "err"
      BY <1>0, <2>2
    <2>6. \A m \in 1..calls : m \in Messages
      BY <1>0, CallsAssumption DEF CallsInv, WriteTypeOK
    <2>7. accepted' >= accepted /\ Len(stream') <= accepted'
      BY <1>b, <2>1, <2>2
    <2> QED
      BY <2>2, <2>3, <2>4, <2>5, <2>6, <2>7 DEF Accounts
  <1>4. ASSUME NEW u \in Users, WriteReturns(u) PROVE Accounts
    <2>1. /\ upc[u] = "chunk" /\ sent[u] = length[msg[u]] /\ Answer(u, "ok")
          /\ stream' = stream
      BY <1>4 DEF WriteReturns
    <2>2. result' = [result EXCEPT ![msg[u]] = "ok"] /\ result[msg[u]] = "none"
          /\ msg[u] \in Messages /\ UNCHANGED <<async_, cut, accepted, length>>
      BY <1>0, <2>1 DEF Answer
    <2>3. \A v \in Users : upc[v] # "wait"
      BY <1>0, <2>1
    <2>4. \A m \in Messages : m # msg[u] => result'[m] = result[m]
      BY <1>0, <2>2
    <2>5. \A m \in 1..calls : m \in Messages
      BY <1>0, CallsAssumption DEF CallsInv, WriteTypeOK
    <2>6. accepted' >= accepted /\ \A i \in 1..Len(stream) : ~ i > Len(stream')
      BY <1>b, <2>1, <2>2
    <2> QED
      BY <2>1, <2>2, <2>3, <2>4, <2>5, <2>6 DEF Accounts
  <1>5. ASSUME NEW u \in Users, CancelIo(u) PROVE Accounts
    <2>1. UNCHANGED <<async_, upc, accepted, length, result>>
      BY <1>5 DEF CancelIo
    <2>2. cut \subseteq cut' /\ \A i \in 1..Len(stream) : i > Len(stream') => stream[i].msg \in cut'
      <3>1. CASE async_
        <4>1. cut' = cut \cup {stream[i].msg : i \in accepted + 1 .. Len(stream)}
          BY <1>5, <3>1 DEF CancelIo
        <4>2. Len(stream') = accepted
          BY <1>a, <1>5, <3>1, DropTypes DEF CancelIo
        <4>3. \A i \in 1..Len(stream) : i > accepted => i \in accepted + 1 .. Len(stream)
          BY <1>b
        <4> QED
          BY <4>1, <4>2, <4>3
      <3>2. CASE ~async_
        BY <1>b, <1>5, <3>2 DEF CancelIo
      <3> QED
        BY <3>1, <3>2
    <2> QED
      BY <1>b, <2>1, <2>2 DEF Accounts
  <1>6. CASE HostRead
    BY <1>0, <1>b, <1>6 DEF HostRead, Accounts
  <1>7. CASE Aside
    <2>1. UNCHANGED <<async_, stream, accepted, cut, length, result>>
      BY <1>7, AsideFrame DEF CallsInv
    <2>2. \A u \in Users : upc[u] = "wait" => upc'[u] = "wait"
      BY <1>7, AsideFrame DEF CallsInv
    <2> QED
      BY <1>b, <2>1, <2>2 DEF Accounts
  <1>9. ASSUME NEW u \in Users, AsyncWriteFails(u) PROVE Accounts
    <2>1. /\ upc[u] = "chunk" /\ Answer(u, "err") /\ stream' = stream
      BY <1>9 DEF AsyncWriteFails, HasChunk
    <2>2. result' = [result EXCEPT ![msg[u]] = "err"] /\ result[msg[u]] = "none"
          /\ msg[u] \in Messages /\ UNCHANGED <<async_, cut, accepted, length>>
      BY <1>0, <2>1 DEF Answer
    <2>3. \A v \in Users : upc[v] # "wait"
      BY <1>0, <2>1
    <2>4. /\ \A m \in Messages : m # msg[u] => result'[m] = result[m]
          /\ result'[msg[u]] = "err"
      BY <1>0, <2>2
    <2>5. \A m \in 1..calls : m \in Messages
      BY <1>0, CallsAssumption DEF CallsInv, WriteTypeOK
    <2>6. accepted' >= accepted /\ \A i \in 1..Len(stream) : ~ i > Len(stream')
      BY <1>b, <2>1, <2>2
    <2> QED
      BY <2>1, <2>2, <2>3, <2>4, <2>5, <2>6 DEF Accounts
  <1>8. ASSUME NEW u \in Users, SyncWriteFile(u) \/ AsyncWriteFile(u) PROVE Takes(u)
    BY <1>8, WriteTakes
  <1> QED
    BY <1>1, <1>2, <1>3, <1>4, <1>5, <1>6, <1>7, <1>8, <1>9 DEF Next, WriteStep, Aside

(* What waits stays behind its writer.                                      *)
LEMMA LineStep == CallsInv /\ LineInv /\ [Next]_vars => LineInv'
  <1> SUFFICES ASSUME CallsInv, LineInv, [Next]_vars, ~async_'
               PROVE  \A i \in 1..Len(stream') : i > accepted' =>
                        \E u \in Users : upc'[u] = "wait" /\ stream'[i].msg = msg'[u]
    BY DEF LineInv
  <1>0. accepted \in Nat /\ accepted' \in Nat /\ Len(stream) \in Nat
    BY CallsStep DEF CallsInv, PipeTypeOK
  <1>1. CASE Keeps /\ Accounts
    <2>1. ASSUME NEW i \in 1..Len(stream'), i > accepted'
          PROVE  \E u \in Users : upc'[u] = "wait" /\ stream'[i].msg = msg'[u]
      <3>1. i \in 1..Len(stream) /\ i > accepted /\ stream'[i] = stream[i] /\ ~async_
        BY <1>0, <1>1, <2>1 DEF Keeps, Accounts
      <3>2. PICK u \in Users : upc[u] = "wait" /\ stream[i].msg = msg[u]
        BY <3>1 DEF LineInv
      <3>3. upc'[u] = "wait"
        BY <1>0, <1>1, <2>1, <3>2 DEF Keeps, Accounts
      <3>4. msg'[u] = msg[u]
        BY <1>1, <3>3 DEF Keeps, Held
      <3> QED
        BY <3>1, <3>2, <3>3, <3>4
    <2> QED
      BY <2>1
  <1>2. ASSUME NEW u \in Users, Takes(u)
        PROVE  \A i \in 1..Len(stream') : i > accepted' =>
                 \E v \in Users : upc'[v] = "wait" /\ stream'[i].msg = msg'[v]
    <2>1. /\ Len(stream') = Len(stream) + 1
          /\ stream'[Len(stream')] = [msg |-> msg[u], part |-> sent[u] + 1]
          /\ \A v \in Users : upc[v] \in Held => v = u
      BY <1>2, TakenStream
    <2>2. stream'[Len(stream')].msg = msg[u] /\ msg' = msg /\ ~async_ /\ upc[u] = "chunk"
      BY <1>2, <2>1 DEF Takes
    <2>3. Len(stream) <= accepted
      BY <1>0, <2>1, <2>2 DEF LineInv, Held
    <2>4. CASE Room
      <3>1. accepted' = Len(stream')
        BY <1>2, <2>1, <2>4 DEF Takes, TakeChunk, Room
      <3> QED
        BY <1>0, <3>1
    <2>5. CASE ~Room
      <3>1. upc'[u] = "wait" /\ accepted' = accepted
        BY <1>2, <2>2, <2>5 DEF Takes, TakeChunk
      <3>2. \A i \in 1..Len(stream') : i > accepted' => i = Len(stream')
        BY <1>0, <2>1, <2>3, <3>1
      <3> QED
        BY <2>2, <3>1, <3>2
    <2> QED
      BY <2>4, <2>5
  <1> QED
    BY <1>1, <1>2, TakesOrKeeps, KeepsAccounts

(* What was sent stays, unless a cancel or an error accounts for it.        *)
LEMMA SentStep == CallsInv /\ QueueInv /\ LineInv /\ SentInv /\ [Next]_vars => SentInv'
  <1> SUFFICES ASSUME CallsInv, QueueInv, LineInv, SentInv, [Next]_vars PROVE SentInv'
    OBVIOUS
  <1>0. /\ Len(stream) \in Nat /\ sent \in [Users -> Nat] /\ calls \in Nat
        /\ \A m \in Messages : result[m] = "ok" => m \in 1..calls
        /\ \A u \in Users : upc[u] \in Writing => msg[u] \in 1..calls
        /\ \A u \in Users : upc[u] = "lock" => sent[u] = 0
        /\ \A i \in 1..Len(stream) : stream[i].msg \in 1..calls /\ stream[i].part \in Nat
    <2>1. sent \in [Users -> Nat] /\ calls \in Nat
      BY CallsAssumption DEF CallsInv, WriteTypeOK
    <2>2. /\ \A m \in Messages : result[m] = "ok" => ~ m > calls
          /\ \A u \in Users : upc[u] \in Writing => msg[u] \in 1..calls
          /\ \A u \in Users : upc[u] = "lock" => sent[u] = 0
      BY DEF CallsInv, WriterInv, Writing, Held
    <2>3. \A m \in Messages : result[m] = "ok" => m \in 1..calls
      BY <2>1, <2>2, CallsAssumption
    <2>4. /\ Len(stream) \in Nat
          /\ \A i \in 1..Len(stream) : stream[i].msg \in 1..calls /\ stream[i].part \in Nat
      BY CallsStream DEF QueueInv
    <2> QED
      BY <2>1, <2>2, <2>3, <2>4
  <1>a. \A u \in Users : upc'[u] \in Held => result'[msg'[u]] = "none"
    BY CallsStep DEF CallsInv, WriterInv, Writing, Held
  <1>1. CASE Keeps /\ Accounts
    <2>1. /\ Len(stream') \in Nat /\ Len(stream') <= Len(stream)
          /\ \A i \in 1..Len(stream') : i \in 1..Len(stream) /\ stream'[i] = stream[i]
      BY <1>0, <1>1 DEF Keeps
    <2>2. /\ cut \subseteq cut'
          /\ \A m \in 1..calls : length'[m] = length[m]
          /\ \A i \in 1..Len(stream) : i > Len(stream') =>
               stream[i].msg \in cut' \/ result'[stream[i].msg] = "err"
      BY <1>1 DEF Accounts
    <2>3. ASSUME NEW i \in 1..Len(stream') PROVE stream'[i].part <= length'[stream'[i].msg]
      BY <1>0, <2>1, <2>2 DEF SentInv
    <2>4. ASSUME NEW i \in 1..Len(stream), stream[i].msg \notin cut',
                 result'[stream[i].msg] # "err"
          PROVE  i \in 1..Len(stream') /\ stream'[i] = stream[i]
      <3>1. ~ i > Len(stream')
        BY <2>2, <2>4
      <3> QED
        BY <2>1, <3>1
    <2>5. ASSUME NEW m, NEW k, Has(stream, m, k), m \notin cut', result'[m] # "err"
          PROVE  Has(stream', m, k)
      <3>1. PICK i \in 1..Len(stream) : stream[i].msg = m /\ stream[i].part = k
        BY <2>5 DEF Has
      <3> QED
        BY <2>4, <2>5, <3>1 DEF Has
    <2>6. ASSUME NEW u \in Users, upc'[u] \in Held, msg'[u] \notin cut'
          PROVE  /\ \A k \in 1..sent'[u] : Has(stream', msg'[u], k)
                 /\ sent'[u] >= 1 => /\ Len(stream') >= 1
                                     /\ stream'[Len(stream')].msg = msg'[u]
                                     /\ stream'[Len(stream')].part = sent'[u]
      <3>1. upc[u] \in Writing /\ msg'[u] = msg[u] /\ sent'[u] = sent[u] /\ sent[u] \in Nat
        BY <1>0, <1>1, <2>6 DEF Keeps
      <3>2. CASE upc[u] = "lock"
        BY <1>0, <3>1, <3>2
      <3>3. CASE upc[u] \in Held
        <4>1. msg[u] \notin cut /\ msg[u] \notin cut' /\ result'[msg[u]] # "err"
          BY <1>a, <2>2, <2>6, <3>1
        <4>2. \A k \in 1..sent[u] : Has(stream', msg[u], k)
          BY <2>5, <3>3, <4>1 DEF SentInv
        <4>3. ASSUME sent[u] >= 1
              PROVE  /\ Len(stream') >= 1 /\ stream'[Len(stream')].msg = msg[u]
                     /\ stream'[Len(stream')].part = sent[u]
          <5>1. /\ Len(stream) >= 1 /\ stream[Len(stream)].msg = msg[u]
                /\ stream[Len(stream)].part = sent[u]
            BY <3>3, <4>1, <4>3 DEF SentInv
          <5>2. Len(stream) \in 1..Len(stream)
            BY <1>0, <5>1
          <5>3. Len(stream) \in 1..Len(stream') /\ stream'[Len(stream)] = stream[Len(stream)]
            BY <2>4, <4>1, <5>1, <5>2
          <5>4. Len(stream') = Len(stream)
            BY <1>0, <2>1, <5>3
          <5> QED
            BY <5>1, <5>3, <5>4
        <4> QED
          BY <3>1, <4>2, <4>3
      <3> QED
        BY <3>1, <3>2, <3>3 DEF Writing, Held
    <2>7. ASSUME NEW m \in Messages, result'[m] = "ok", m \notin cut', NEW k \in 1..length'[m]
          PROVE  Has(stream', m, k)
      <3>1. m \notin cut /\ result'[m] # "err"
        BY <2>2, <2>7
      <3>2. CASE result[m] = "ok"
        <4>1. m \in 1..calls /\ length'[m] = length[m]
          BY <1>0, <2>2, <3>2
        <4> QED
          BY <2>5, <2>7, <3>1, <3>2, <4>1 DEF SentInv
      <3>3. CASE \E u \in Users : upc[u] \in Held /\ msg[u] = m /\ sent[u] = length[m]
        <4>1. PICK u \in Users : upc[u] \in Held /\ msg[u] = m /\ sent[u] = length[m]
          BY <3>3
        <4>2. length'[m] = length[m]
          BY <1>0, <2>2, <4>1 DEF Writing, Held
        <4> QED
          BY <2>5, <2>7, <3>1, <4>1, <4>2 DEF SentInv
      <3> QED
        BY <1>1, <2>7, <3>2, <3>3 DEF Accounts
    <2> QED
      BY <2>3, <2>6, <2>7 DEF SentInv
  <1>2. ASSUME NEW u \in Users, Takes(u) PROVE SentInv'
    <2>1. /\ Len(stream') = Len(stream) + 1
          /\ \A i \in 1..Len(stream) : stream'[i] = stream[i]
          /\ stream'[Len(stream')] = [msg |-> msg[u], part |-> sent[u] + 1]
          /\ sent[u] \in Nat /\ sent'[u] = sent[u] + 1 /\ sent[u] + 1 <= length[msg[u]]
          /\ \A v \in Users : upc[v] \in Held => v = u
      BY <1>2, TakenStream
    <2>2. stream'[Len(stream')].msg = msg[u] /\ stream'[Len(stream')].part = sent[u] + 1
      BY <2>1
    <2>3. /\ UNCHANGED <<msg, length, result, cut>> /\ upc[u] = "chunk"
          /\ \A v \in Users : v # u => upc'[v] = upc[v]
      BY <1>2 DEF Takes
    <2>4. \A i \in 1..Len(stream') : i \in 1..Len(stream) \/ i = Len(stream')
      BY <1>0, <2>1
    <2>5. \A i \in 1..Len(stream) : i \in 1..Len(stream')
      BY <1>0, <2>1
    <2>6. ASSUME NEW i \in 1..Len(stream') PROVE stream'[i].part <= length'[stream'[i].msg]
      BY <2>1, <2>2, <2>3, <2>4 DEF SentInv
    <2>7. ASSUME NEW m, NEW k, Has(stream, m, k) PROVE Has(stream', m, k)
      BY <2>1, <2>5, <2>7 DEF Has
    <2>8. Has(stream', msg[u], sent[u] + 1)
      <3>1. Len(stream') \in 1..Len(stream')
        BY <1>0, <2>1
      <3> QED
        BY <2>1, <2>2, <2>3, <3>1 DEF Has
    <2>9. ASSUME NEW v \in Users, upc'[v] \in Held, msg'[v] \notin cut'
          PROVE  /\ \A k \in 1..sent'[v] : Has(stream', msg'[v], k)
                 /\ sent'[v] >= 1 => /\ Len(stream') >= 1
                                     /\ stream'[Len(stream')].msg = msg'[v]
                                     /\ stream'[Len(stream')].part = sent'[v]
      <3>1. v = u
        BY <2>1, <2>3, <2>9
      <3>2. \A k \in 1..sent[u] : Has(stream', msg[u], k)
        BY <2>3, <2>7, <2>9, <3>1 DEF SentInv, Held
      <3>3. \A k \in 1..sent'[u] : k \in 1..sent[u] \/ k = sent[u] + 1
        BY <2>1
      <3>4. \A k \in 1..sent'[u] : Has(stream', msg[u], k)
        BY <2>8, <3>2, <3>3
      <3>5. Len(stream') >= 1
        BY <1>0, <2>1
      <3> QED
        BY <2>1, <2>2, <2>3, <3>1, <3>4, <3>5
    <2>10. ASSUME NEW m \in Messages, result'[m] = "ok", m \notin cut', NEW k \in 1..length'[m]
           PROVE  Has(stream', m, k)
      BY <2>3, <2>7, <2>10 DEF SentInv
    <2> QED
      BY <2>6, <2>9, <2>10 DEF SentInv
  <1> QED
    BY <1>1, <1>2, TakesOrKeeps, KeepsAccounts

(* A chunk is put behind the one before it, which is the end of the stream. *)
LEMMA PrefixStep ==
  CallsInv /\ QueueInv /\ LineInv /\ SentInv /\ DeliveredIsPrefix /\ [Next]_vars
    => DeliveredIsPrefix'
  <1> SUFFICES ASSUME CallsInv, LineInv, SentInv, DeliveredIsPrefix, [Next]_vars,
                      NEW i \in 1..Len(stream'), stream'[i].part > 1, stream'[i].msg \notin cut'
               PROVE  i > 1 /\ stream'[i - 1] = [stream'[i] EXCEPT !.part = @ - 1]
    BY DEF DeliveredIsPrefix
  <1>0. Len(stream) \in Nat
    BY CallsStream
  <1>1. CASE Keeps /\ Accounts
    <2>1. /\ i \in 1..Len(stream) /\ stream'[i] = stream[i] /\ cut \subseteq cut'
          /\ i > 1 => stream'[i - 1] = stream[i - 1]
      BY <1>0, <1>1 DEF Keeps, Accounts
    <2> QED
      BY <2>1 DEF DeliveredIsPrefix
  <1>2. ASSUME NEW u \in Users, Takes(u)
        PROVE  i > 1 /\ stream'[i - 1] = [stream'[i] EXCEPT !.part = @ - 1]
    <2>1. /\ Len(stream') = Len(stream) + 1
          /\ \A j \in 1..Len(stream) : stream'[j] = stream[j]
          /\ stream'[Len(stream')] = [msg |-> msg[u], part |-> sent[u] + 1]
          /\ sent[u] \in Nat
      BY <1>2, TakenStream
    <2>2. upc[u] \in Held /\ cut' = cut
      BY <1>2 DEF Takes, Held
    <2>3. CASE i \in 1..Len(stream)
      <3>1. stream'[i] = stream[i] /\ (i > 1 => stream'[i - 1] = stream[i - 1])
        BY <1>0, <2>1, <2>3
      <3> QED
        BY <2>2, <2>3, <3>1 DEF DeliveredIsPrefix
    <2>4. CASE i = Len(stream')
      <3>1. stream'[i].msg = msg[u] /\ stream'[i].part = sent[u] + 1
        BY <2>1, <2>4
      <3>2. sent[u] >= 1 /\ msg[u] \notin cut
        BY <2>1, <2>2, <3>1
      <3>3. /\ Len(stream) >= 1 /\ stream[Len(stream)].msg = msg[u]
            /\ stream[Len(stream)].part = sent[u]
        BY <2>2, <3>2 DEF SentInv
      <3>4. i > 1 /\ i - 1 = Len(stream) /\ Len(stream) \in 1..Len(stream)
        BY <1>0, <2>1, <2>4, <3>3
      <3>5. stream'[i - 1] = stream[Len(stream)] /\ stream[Len(stream)] \in Chunks
        BY <2>1, <3>4, CallsStream
      <3>6. stream[Len(stream)] = [msg |-> msg[u], part |-> sent[u]]
        BY <3>3, <3>5 DEF Chunks
      <3>7. [stream'[i] EXCEPT !.part = @ - 1] = [msg |-> msg[u], part |-> sent[u]]
        BY <2>1, <2>4
      <3> QED
        BY <3>4, <3>5, <3>6, <3>7
    <2> QED
      BY <1>0, <2>1, <2>3, <2>4
  <1> QED
    BY <1>1, <1>2, TakesOrKeeps, KeepsAccounts

LEMMA SentCorrect ==
  Spec => [](CallsInv /\ QueueInv /\ LineInv /\ SentInv /\ DeliveredIsPrefix)
  <1>1. Init => QueueInv /\ LineInv /\ SentInv /\ DeliveredIsPrefix
    <2>1. Init => /\ stream = <<>> /\ \A u \in Users : upc[u] = "idle"
                  /\ \A m \in Messages : result[m] = "none"
      BY DEF Init
    <2> QED
      BY <2>1 DEF QueueInv, LineInv, SentInv, DeliveredIsPrefix, Held
  <1> QED
    BY <1>1, CallsInit, CallsStep, QueueStep, LineStep, SentStep, PrefixStep, PTL DEF Spec

(* What a write leaves in the pipe is the beginning of its message, also    *)
(* when a WriteFile fails half-way (base.rs, the loop of write).            *)
THEOREM WritesAreWholeOrCut == Spec => []DeliveredIsPrefix
  BY SentCorrect, PTL

(* A write that answered Ok is in the pipe or in line behind it, but for    *)
(* what a CancelIoEx takes back.                                            *)
THEOREM OkIsDelivered == Spec => []AnsweredIsDelivered
  <1>1. ASSUME CallsInv, SentInv PROVE AnsweredIsDelivered
    <2>1. ASSUME NEW m \in Messages, result[m] = "ok", m \notin cut
          PROVE  Delivered(m) = 1..length[m]
      <3>1. ASSUME NEW k \in 1..length[m] PROVE k \in Delivered(m)
        <4>1. PICK i \in 1..Len(stream) : stream[i].msg = m /\ stream[i].part = k
          BY <1>1, <2>1 DEF SentInv, Has
        <4> QED
          BY <4>1 DEF Delivered
      <3>2. ASSUME NEW k \in Delivered(m) PROVE k \in 1..length[m]
        <4>1. PICK i \in 1..Len(stream) : stream[i].msg = m /\ stream[i].part = k
          BY DEF Delivered
        <4>2. stream[i] \in Chunks /\ stream[i].part <= length[m]
          BY <1>1, <4>1, CallsStream DEF SentInv
        <4>3. k \in 1..MaxChunks /\ length[m] \in 0..MaxChunks
          BY <1>1, <4>1, <4>2 DEF Chunks, CallsInv, WriteTypeOK
        <4> QED
          BY <4>1, <4>2, <4>3, CallsAssumption
      <3> QED
        BY <3>1, <3>2
    <2> QED
      BY <2>1 DEF AnsweredIsDelivered
  <1> QED
    BY <1>1, SentCorrect, PTL

-----------------------------------------------------------------------------
(* A synchronous writer has counted what it sent; the messages to come have *)
(* no answer yet.                                                           *)
CountInv == CallsInv /\ SyncCountsAll

LEMMA CountStep == CountInv /\ [Next]_vars => CountInv'
  <1> SUFFICES ASSUME CallsInv, SyncCountsAll, [Next]_vars PROVE SyncCountsAll'
    BY CallsStep DEF CountInv
  <1>0. /\ count \in [Messages -> Nat] /\ length \in [Messages -> Nat] /\ calls \in Nat
        /\ result \in [Messages -> {"none", "ok", "err"}]
        /\ result[calls + 1] = "none" \/ calls + 1 \notin Messages
    BY CallsAssumption DEF CallsInv, WriteTypeOK, WriterInv
  <1>1. CASE UNCHANGED <<async_, length, result, count>>
    BY <1>1 DEF SyncCountsAll
  <1>2. ASSUME NEW u \in Users, WriteStart(u) PROVE SyncCountsAll'
    <2>1. PICK n \in 0..MaxChunks : length' = [length EXCEPT ![calls + 1] = n]
      BY <1>2 DEF WriteStart
    <2>2. UNCHANGED <<async_, result, count>>
      BY <1>2 DEF WriteStart
    <2>3. \A m \in Messages : result[m] = "ok" => length'[m] = length[m]
      BY <1>0, <2>1
    <2> QED
      BY <2>2, <2>3 DEF SyncCountsAll
  <1>3. ASSUME NEW u \in Users, WriteFails(u) \/ AsyncWriteFails(u) \/ WriteReturns(u)
        PROVE  SyncCountsAll'
    <2>1. PICK r \in {"ok", "err"} :
             Answer(u, r) /\ (r = "ok" => upc[u] = "chunk" /\ sent[u] = length[msg[u]])
      BY <1>3 DEF WriteFails, AsyncWriteFails, WriteReturns
    <2>2. /\ result' = [result EXCEPT ![msg[u]] = r]
          /\ count' = [count EXCEPT ![msg[u]] = total[u]] /\ UNCHANGED <<async_, length>>
      BY <2>1 DEF Answer
    <2>3. ~async_ /\ r = "ok" => total[u] = length[msg[u]]
      <3>1. ~async_ => total[u] = (IF upc[u] = "wait" THEN sent[u] - 1 ELSE sent[u])
        BY DEF CallsInv, WriterInv
      <3> QED
        BY <2>1, <3>1
    <2>4. ASSUME NEW m \in Messages, ~async_', result'[m] = "ok" PROVE count'[m] = length'[m]
      <3>1. CASE m = msg[u]
        BY <1>0, <2>2, <2>3, <2>4, <3>1
      <3>2. CASE m # msg[u]
        BY <1>0, <2>2, <2>4, <3>2 DEF SyncCountsAll
      <3> QED
        BY <3>1, <3>2
    <2> QED
      BY <2>4 DEF SyncCountsAll
  <1>4. ASSUME NEW u \in Users,
               WriteLock(u) \/ SyncWriteFile(u) \/ WriteWakes(u) \/ AsyncWriteFile(u) \/ CancelIo(u)
        PROVE  UNCHANGED <<async_, length, result, count>>
    BY <1>4, Zenon DEF WriteLock, SyncWriteFile, WriteWakes, AsyncWriteFile, CancelIo
  <1>5. HostRead => UNCHANGED <<async_, length, result, count>>
    BY DEF HostRead
  <1>6. Aside => UNCHANGED <<async_, length, result, count>>
    BY AsideFrame DEF CallsInv
  <1> QED
    BY <1>1, <1>2, <1>3, <1>4, <1>5, <1>6 DEF Next, WriteStep, Aside

(* A synchronous write answers the length of the message (base.rs, the      *)
(* total_written of write).                                                 *)
THEOREM SyncWriteCounts == Spec => []SyncCountsAll
  <1>1. Init => SyncCountsAll
    BY DEF Init, SyncCountsAll
  <1> QED
    BY <1>1, CallsInit, CallsStep, CountStep, PTL DEF Spec, CountInv

-----------------------------------------------------------------------------
(* The struct has an identifier when it has a handle, of a child that was   *)
(* started, and waits only with one.                                        *)
FieldsInv ==
    /\ process = NoProc <=> pid = NoProc
    /\ process # NoProc => child[process] # "none"
    /\ \A u \in Users : upc[u] = "waitExit" => process # NoProc

ExitInv == CallsInv /\ ChildTypeOK /\ FieldsInv

LEMMA ExitStep == ExitInv /\ [Next]_vars => ExitInv'
  <1> SUFFICES ASSUME CallsInv, ChildTypeOK, FieldsInv, [Next]_vars PROVE FieldsInv'
    BY CallsStep, ChildTypes DEF ExitInv
  <1>0. /\ upc \in [Users -> UserPCs] /\ process \in Procs \cup {NoProc}
        /\ pid \in Procs \cup {NoProc} /\ child \in [Procs -> {"none", "alive", "dead"}]
        /\ NoProc \notin Procs
    BY CallsAssumption DEF CallsInv, WriteTypeOK, ChildTypeOK, Procs
  <1>1. CASE /\ UNCHANGED <<child, process, pid>>
             /\ \A u \in Users : upc'[u] = "waitExit" => upc[u] = "waitExit"
    BY <1>1 DEF FieldsInv
  <1>2. ASSUME NEW u \in Users, WaitStart(u) \/ WaitReturns(u) PROVE FieldsInv'
    BY <1>0, <1>2 DEF WaitStart, WaitReturns, FieldsInv
  <1>3. ASSUME NEW p \in Procs, SetProcess(p) PROVE FieldsInv'
    <2>1. /\ \A u \in Users : upc'[u] = "idle"
          /\ child' = [child EXCEPT ![p] = "alive"] /\ process' = p
      BY <1>3 DEF SetProcess, Exclusive
    <2>2. pid' # NoProc
      <3>1. CASE process = NoProc
        BY <1>0, <1>3, <3>1 DEF SetProcess
      <3>2. CASE process # NoProc
        BY <1>0, <1>3, <3>2 DEF SetProcess, FieldsInv
      <3> QED
        BY <3>1, <3>2
    <2> QED
      BY <1>0, <2>1, <2>2 DEF FieldsInv
  <1>4. ASSUME NEW p \in Procs, ChildExit(p) PROVE FieldsInv'
    BY <1>0, <1>4 DEF ChildExit, FieldsInv
  <1>5. ASSUME NEW u \in Users, WriteStart(u) \/ WriteStep(u) \/ CancelIo(u) PROVE FieldsInv'
    <2>1. UNCHANGED <<child, process, pid>>
      BY <1>5, Zenon DEF WriteStart, WriteStep, WriteLock, SyncWriteFile, WriteWakes,
         AsyncWriteFile, WriteFails, AsyncWriteFails, WriteReturns, Answer, CancelIo
    <2>2. upc' = upc \/ \E to \in {"idle", "lock", "chunk", "wait"} : upc' = [upc EXCEPT ![u] = to]
      <3>1. CASE SyncWriteFile(u)
        <4>1. CASE Room
          BY <3>1, <4>1 DEF SyncWriteFile
        <4>2. CASE ~Room
          BY <3>1, <4>2 DEF SyncWriteFile
        <4> QED
          BY <4>1, <4>2
      <3>2. CASE ~SyncWriteFile(u)
        BY <1>5, <3>2 DEF WriteStart, WriteStep, WriteLock, WriteWakes, AsyncWriteFile,
           WriteFails, AsyncWriteFails, WriteReturns, Answer, CancelIo
      <3> QED
        BY <3>1, <3>2
    <2>3. \A v \in Users : upc'[v] = "waitExit" => upc[v] = "waitExit"
      BY <1>0, <2>2
    <2> QED
      BY <1>1, <2>1, <2>3
  <1>6. CASE HostRead \/ HostClose
    BY <1>1, <1>6 DEF HostRead, HostClose
  <1>7. CASE UNCHANGED vars
    BY <1>1, <1>7
  <1> QED
    BY <1>1, <1>2, <1>3, <1>4, <1>5, <1>6, <1>7 DEF Next

LEMMA ExitCorrect == Spec => []ExitInv
  <1>1. Init => FieldsInv
    <2>1. Init => /\ process = NoProc /\ pid = NoProc
                  /\ \A u \in Users : upc[u] = "idle"
      BY DEF Init
    <2> QED
      BY <2>1 DEF FieldsInv
  <1> QED
    BY <1>1, CallsInit, ExitStep, PTL DEF Spec, ExitInv

(* When is_alive says that the present child has exited, get_exitstatus has *)
(* its code, whichever child the identifier names; unless the code is 259   *)
(* (base.rs, set_process, is_alive and get_exitstatus).                     *)
THEOREM StatusIsKnown == Spec => []StatusAfterExit
  <1>1. ASSUME ExitInv, IsAliveAnswer = "false"
        PROVE  ExitStatus = {code[process]} \/ code[process] = STATUS_PENDING
    <2>1. process # NoProc /\ child[process] # "alive"
      BY <1>1 DEF IsAliveAnswer
    <2>2. pid # NoProc /\ ExitCode(process) = code[process]
      BY <1>1, <2>1 DEF ExitInv, FieldsInv, ExitCode
    <2> QED
      BY <2>2 DEF ExitStatus
  <1>2. ExitInv => StatusAfterExit
    BY <1>1 DEF StatusAfterExit
  <1> QED
    BY <1>2, ExitCorrect, PTL
=============================================================================
