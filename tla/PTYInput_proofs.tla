---------------------------- MODULE PTYInput_proofs ----------------------------
(***************************************************************************)
(* PTYCalls implements InputStream, for any number of writers, messages of *)
(* any length and a pipe of any capacity, in both modes.                   *)
(*                                                                         *)
(* The message being written is that of the holder of write_mutex, and     *)
(* what is in line of it is what the holder has sent.  A failed WriteFile  *)
(* may drop what waits behind the pipe because in synchronous mode only    *)
(* the holder can wait there (LineInv and MutexHeld of PTYCalls_proofs).   *)
(***************************************************************************)
EXTENDS PTYCalls_proofs

USE DEF vars, writeVars, pipeVars, childVars, ownerVars, callVars, childFrame, hostFrame,
        NoUser, NoProc, Messages

(* The state of the abstract writer, as the refinement mapping has it.      *)
AnswerOf(m) == IF m > calls THEN "new" ELSE IF result[m] = "none" THEN "asked" ELSE result[m]
Answers == [m \in Messages |-> AnswerOf(m)]
Writer  == IF holder = NoUser THEN 0 ELSE msg[holder]
InLine  == IF holder = NoUser THEN 0 ELSE sent[holder]

(* What a step of the abstract writer is in terms of these.                 *)
LEMMA AbstractSteps ==
  /\ \A m \in Messages, n \in 0..MaxChunks :
       Answers[m] = "new" /\ Answers' = [Answers EXCEPT ![m] = "asked"]
         /\ length' = [length EXCEPT ![m] = n]
         /\ Writer' = Writer /\ InLine' = InLine /\ UNCHANGED <<stream, fetched, cut>>
         => Input!HandIn(m, n)
  /\ \A m \in Messages :
       Writer = 0 /\ Answers[m] = "asked" /\ Writer' = m /\ InLine' = 0
         /\ Answers' = Answers /\ UNCHANGED <<length, stream, fetched, cut>>
         => Input!Begin(m)
  /\ Writer # 0 /\ InLine < length[Writer] /\ InLine' = InLine + 1
       /\ stream' = Append(stream, [msg |-> Writer, part |-> InLine'])
       /\ Answers' = Answers /\ Writer' = Writer /\ UNCHANGED <<length, fetched, cut>>
       => Input!Put
  /\ \A r \in {"ok", "err"} :
       Writer # 0 /\ Answers' = [Answers EXCEPT ![Writer] = r] /\ Writer' = 0 /\ InLine' = 0
         /\ UNCHANGED <<length, fetched, cut>>
         => Input!Ends(r)
  /\ fetched < Len(stream) /\ fetched' = fetched + 1
       /\ Answers' = Answers /\ Writer' = Writer /\ InLine' = InLine
       /\ UNCHANGED <<length, stream, cut>>
       => Input!Fetch
  /\ Answers' = Answers /\ Writer' = Writer /\ InLine' = InLine
       /\ UNCHANGED <<length, stream, fetched, cut>>
       => UNCHANGED Input!inputVars
  <1> USE DEF Answers, AnswerOf, Writer, InLine, Input!NoMessage
  <1>1. ASSUME NEW m \in Messages, NEW n \in 0..MaxChunks,
               Answers[m] = "new", Answers' = [Answers EXCEPT ![m] = "asked"],
               length' = [length EXCEPT ![m] = n],
               Writer' = Writer, InLine' = InLine, UNCHANGED <<stream, fetched, cut>>
        PROVE  Input!HandIn(m, n)
    BY <1>1 DEF Input!HandIn
  <1>2. ASSUME NEW m \in Messages, Writer = 0, Answers[m] = "asked", Writer' = m, InLine' = 0,
               Answers' = Answers, UNCHANGED <<length, stream, fetched, cut>>
        PROVE  Input!Begin(m)
    BY <1>2 DEF Input!Begin
  <1>3. ASSUME Writer # 0, InLine < length[Writer], InLine' = InLine + 1,
               stream' = Append(stream, [msg |-> Writer, part |-> InLine']),
               Answers' = Answers, Writer' = Writer, UNCHANGED <<length, fetched, cut>>
        PROVE  Input!Put
    BY <1>3 DEF Input!Put
  <1>4. ASSUME NEW r \in {"ok", "err"}, Writer # 0, Answers' = [Answers EXCEPT ![Writer] = r],
               Writer' = 0, InLine' = 0, UNCHANGED <<length, fetched, cut>>
        PROVE  Input!Ends(r)
    BY <1>4 DEF Input!Ends
  <1>5. ASSUME fetched < Len(stream), fetched' = fetched + 1,
               Answers' = Answers, Writer' = Writer, InLine' = InLine,
               UNCHANGED <<length, stream, cut>>
        PROVE  Input!Fetch
    BY <1>5 DEF Input!Fetch
  <1>6. ASSUME Answers' = Answers, Writer' = Writer, InLine' = InLine,
               UNCHANGED <<length, stream, fetched, cut>>
        PROVE  UNCHANGED Input!inputVars
    BY <1>6 DEF Input!inputVars
  <1> HIDE DEF Answers, AnswerOf, Writer, InLine
  <1> QED
    BY <1>1, <1>2, <1>3, <1>4, <1>5, <1>6

(* Who holds the mutex writes, and what it writes is not answered yet.      *)
LEMMA HolderWrites ==
  ASSUME CallsInv, NEW u \in Users, upc[u] \in Held
  PROVE  /\ holder = u /\ u # NoUser /\ Writer = msg[u] /\ InLine = sent[u]
         /\ msg[u] \in Messages /\ msg[u] # 0
         /\ \A v \in Users : upc[v] \in Held => v = u
  <1>1. holder = u /\ \A v \in Users : upc[v] \in Held => v = u
    BY DEF CallsInv, MutexHeld, Held
  <1>2. u # NoUser
    BY CallsAssumption
  <1>3. msg[u] \in 1..calls /\ calls \in 0..MaxCalls
    BY DEF CallsInv, WriteTypeOK, WriterInv, Writing, Held
  <1>4. msg[u] \in Messages /\ msg[u] # 0
    BY <1>3, CallsAssumption
  <1> QED
    BY <1>1, <1>2, <1>4 DEF Writer, InLine

(* While the mutex stays with its holder, or with nobody, so does the       *)
(* message being written.                                                   *)
LEMMA SameWriter ==
  ASSUME UNCHANGED holder,
         \A u \in Users : holder = u => msg'[u] = msg[u] /\ sent'[u] = sent[u],
         holder \in Users \cup {NoUser}
  PROVE  Writer' = Writer /\ InLine' = InLine
  BY DEF Writer, InLine

LEMMA SameAnswers ==
  ASSUME UNCHANGED <<calls, result>>
  PROVE  Answers' = Answers
  BY DEF Answers, AnswerOf

(* The pipe never loses what the host has read.                             *)
LEMMA CutIsBehind ==
  ASSUME PipeTypeOK, stream' = SubSeq(stream, 1, accepted)
  PROVE  accepted \in 0..Len(stream) /\ Input!CutTo(accepted)
  <1>1. accepted \in 0..Len(stream) /\ accepted >= fetched
    BY DEF PipeTypeOK
  <1> QED
    BY <1>1 DEF Input!CutTo

(* The initial state, and every step of the writers, of the host and of     *)
(* cancel_io; the questions about the child change nothing of the input.    *)
LEMMA InputInit == Init => Input!Init
  <1> SUFFICES ASSUME Init PROVE Input!Init
    OBVIOUS
  <1>1. /\ length = [m \in Messages |-> 0] /\ stream = <<>> /\ fetched = 0 /\ cut = {}
        /\ holder = NoUser /\ calls = 0
    BY DEF Init
  <1>2. Answers = [m \in Messages |-> "new"]
    BY <1>1, CallsAssumption DEF Answers, AnswerOf
  <1> QED
    BY <1>1, <1>2 DEF Input!Init, Input!NoMessage, Answers, AnswerOf

LEMMA InputStep == CallsInv /\ LineInv /\ [Next]_vars => [Input!Next]_(Input!inputVars)
  <1> SUFFICES ASSUME CallsInv, LineInv, [Next]_vars PROVE [Input!Next]_(Input!inputVars)
    OBVIOUS
  <1>a. WriteTypeOK /\ PipeTypeOK /\ MutexHeld /\ WriterInv
    BY DEF CallsInv
  <1>0. /\ upc \in [Users -> UserPCs] /\ msg \in [Users -> Nat] /\ calls \in 0..MaxCalls
        /\ calls \in Nat /\ MaxCalls \in Nat
        /\ sent \in [Users -> Nat] /\ length \in [Messages -> Nat]
        /\ result \in [Messages -> {"none", "ok", "err"}]
        /\ holder \in Users \cup {NoUser}
    BY <1>a, CallsAssumption DEF WriteTypeOK
  <1>1. ASSUME NEW u \in Users, WriteStart(u)
        PROVE  \E m \in Messages, n \in 0..MaxChunks : Input!HandIn(m, n)
    <2>1. PICK n \in 0..MaxChunks : length' = [length EXCEPT ![calls + 1] = n]
      BY <1>1 DEF WriteStart
    <2>2. /\ upc[u] = "idle" /\ calls' = calls + 1 /\ calls + 1 \in Messages
          /\ msg' = [msg EXCEPT ![u] = calls + 1]
          /\ UNCHANGED <<sent, holder, result, stream, fetched, cut>>
      BY <1>0, <1>1 DEF WriteStart
    <2>3. Writer' = Writer /\ InLine' = InLine
      <3>1. holder # u
        BY <1>a, <2>2 DEF MutexHeld
      <3>2. \A v \in Users : holder = v => msg'[v] = msg[v] /\ sent'[v] = sent[v]
        BY <1>0, <2>2, <3>1
      <3> QED
        BY <1>0, <2>2, <3>2, SameWriter
    <2>4. PICK k \in Messages : k = calls + 1
      BY <2>2
    <2>5. AnswerOf(k) = "new" /\ AnswerOf(k)' = "asked"
      <3>1. result[k] = "none"
        BY <1>0, <1>a, <2>4 DEF WriterInv
      <3> QED
        BY <1>0, <2>2, <2>4, <3>1 DEF AnswerOf
    <2>6. ASSUME NEW m \in Messages, m # k PROVE AnswerOf(m)' = AnswerOf(m)
      BY <1>0, <2>2, <2>4, <2>6 DEF AnswerOf
    <2>7. Answers[k] = "new" /\ Answers' = [Answers EXCEPT ![k] = "asked"]
      BY <2>5, <2>6 DEF Answers
    <2> QED
      BY <2>1, <2>2, <2>3, <2>4, <2>7, AbstractSteps
  <1>2. ASSUME NEW u \in Users, WriteLock(u) PROVE \E m \in Messages : Input!Begin(m)
    <2>1. /\ upc[u] = "lock" /\ holder = NoUser /\ holder' = u /\ u # NoUser
          /\ UNCHANGED <<msg, sent, calls, result, length, stream, fetched, cut>>
      BY <1>2, CallsAssumption DEF WriteLock
    <2>2. /\ msg[u] \in 1..calls /\ result[msg[u]] = "none" /\ sent[u] = 0
      BY <1>a, <2>1 DEF WriterInv, Writing, Held
    <2>3. msg[u] \in Messages /\ Answers[msg[u]] = "asked"
      BY <1>0, <2>2 DEF Answers, AnswerOf
    <2>4. Writer = 0 /\ Writer' = msg[u] /\ InLine' = 0
      BY <2>1, <2>2 DEF Writer, InLine
    <2> QED
      BY <2>1, <2>3, <2>4, SameAnswers, AbstractSteps
  <1>3. ASSUME NEW u \in Users, SyncWriteFile(u) \/ AsyncWriteFile(u) PROVE Input!Put
    <2>1. /\ TakeChunk(u) /\ upc[u] \in Held
          /\ UNCHANGED <<holder, msg, calls, result, length, fetched, cut>>
      BY <1>3 DEF SyncWriteFile, AsyncWriteFile, TakeChunk, HasChunk, Held
    <2>2. /\ holder = u /\ u # NoUser /\ Writer = msg[u] /\ InLine = sent[u] /\ msg[u] # 0
      BY <2>1, HolderWrites
    <2>3. /\ stream' = Append(stream, [msg |-> msg[u], part |-> sent[u] + 1])
          /\ sent' = [sent EXCEPT ![u] = sent[u] + 1] /\ sent[u] < length[msg[u]]
      BY <2>1, TakeTypes DEF TakeChunk, HasChunk
    <2>4. Writer' = Writer /\ InLine' = InLine + 1
      BY <1>0, <2>1, <2>2, <2>3 DEF Writer, InLine
    <2>5. stream' = Append(stream, [msg |-> Writer, part |-> InLine'])
      BY <2>2, <2>3, <2>4
    <2>6. Writer # 0 /\ InLine < length[Writer]
      BY <2>2, <2>3
    <2> QED
      BY <2>1, <2>4, <2>5, <2>6, SameAnswers, AbstractSteps
  <1>4. ASSUME NEW u \in Users, WriteWakes(u) PROVE UNCHANGED Input!inputVars
    <2>1. UNCHANGED <<holder, msg, sent, calls, result, length, stream, fetched, cut>>
      BY <1>4 DEF WriteWakes
    <2> QED
      BY <1>0, <2>1, SameWriter, SameAnswers, AbstractSteps
  <1>5. ASSUME NEW u \in Users, NEW r \in {"ok", "err"}, Answer(u, r), upc[u] \in Held
        PROVE  Input!Ends(r)
    <2>1. /\ Writer = msg[u] /\ msg[u] # 0 /\ msg[u] \in Messages
      BY <1>5, HolderWrites
    <2>2. /\ holder' = NoUser /\ result' = [result EXCEPT ![msg[u]] = r]
          /\ UNCHANGED <<calls, length, fetched, cut>>
      BY <1>5 DEF Answer
    <2>3. Writer' = 0 /\ InLine' = 0
      BY <2>2 DEF Writer, InLine
    <2>4. msg[u] \in 1..calls
      BY <1>5, <1>a DEF WriterInv, Writing, Held
    <2>5. PICK k \in Messages : k = msg[u]
      BY <2>1
    <2>6. AnswerOf(k)' = r
      BY <1>0, <1>5, <2>2, <2>4, <2>5 DEF AnswerOf
    <2>7. ASSUME NEW m \in Messages, m # k PROVE AnswerOf(m)' = AnswerOf(m)
      BY <1>0, <2>2, <2>5, <2>7 DEF AnswerOf
    <2>8. Answers' = [Answers EXCEPT ![Writer] = r]
      BY <2>1, <2>5, <2>6, <2>7 DEF Answers
    <2> QED
      BY <2>1, <2>2, <2>3, <2>8, AbstractSteps
  <1>6. ASSUME NEW u \in Users, WriteFails(u) PROVE Input!Fail
    <2>1. /\ ~async_ /\ upc[u] \in Held /\ stream' = SubSeq(stream, 1, accepted)
          /\ Answer(u, "err")
      BY <1>6 DEF WriteFails, ConinBroken, HasChunk, Held
    <2>2. Input!Ends("err")
      BY <1>5, <2>1
    <2>3. accepted \in 0..Len(stream) /\ Input!CutTo(accepted)
      BY <1>a, <2>1, CutIsBehind
    <2>4. ASSUME NEW i \in accepted + 1 .. Len(stream) PROVE stream[i].msg = Writer
      <3>1. i \in 1..Len(stream) /\ i > accepted
        BY <1>a DEF PipeTypeOK
      <3>2. PICK v \in Users : upc[v] = "wait" /\ stream[i].msg = msg[v]
        BY <2>1, <3>1 DEF LineInv
      <3>3. v = u /\ Writer = msg[u]
        BY <2>1, <3>2, HolderWrites DEF Held
      <3> QED
        BY <3>2, <3>3
    <2> QED
      BY <2>2, <2>3, <2>4 DEF Input!Fail, Writer
  <1>6a. ASSUME NEW u \in Users, AsyncWriteFails(u) PROVE Input!Fail
    <2>1. upc[u] \in Held /\ stream' = stream /\ Answer(u, "err")
      BY <1>6a DEF AsyncWriteFails, HasChunk, Held
    <2>2. Input!Ends("err")
      BY <1>5, <2>1
    <2>3. /\ Len(stream) \in 0..Len(stream) /\ Len(stream) >= fetched
          /\ stream' = SubSeq(stream, 1, Len(stream))
      BY <1>a, <2>1 DEF PipeTypeOK
    <2>4. \A i \in Len(stream) + 1 .. Len(stream) : stream[i].msg = Writer
      BY <2>3
    <2> QED
      BY <2>2, <2>3, <2>4 DEF Input!Fail, Input!CutTo, Writer
  <1>7. ASSUME NEW u \in Users, WriteReturns(u) PROVE Input!Finish
    <2>1. /\ upc[u] \in Held /\ sent[u] = length[msg[u]] /\ stream' = stream /\ Answer(u, "ok")
      BY <1>7 DEF WriteReturns, Held
    <2>2. Input!Ends("ok")
      BY <1>5, <2>1
    <2>3. InLine = length[Writer]
      BY <2>1, HolderWrites
    <2> QED
      BY <2>1, <2>2, <2>3 DEF Input!Finish, Writer, InLine
  <1>8. ASSUME NEW u \in Users, CancelIo(u) PROVE Input!Cancel \/ UNCHANGED Input!inputVars
    <2>1. UNCHANGED <<holder, msg, sent, calls, result, length, fetched>>
      BY <1>8 DEF CancelIo
    <2>2. Answers' = Answers /\ Writer' = Writer /\ InLine' = InLine
      BY <1>0, <2>1, SameWriter, SameAnswers
    <2>3. CASE async_
      <3>1. /\ stream' = SubSeq(stream, 1, accepted)
            /\ cut' = cut \cup {stream[i].msg : i \in accepted + 1 .. Len(stream)}
        BY <1>8, <2>3 DEF CancelIo
      <3>2. accepted \in 0..Len(stream) /\ Input!CutTo(accepted)
        BY <1>a, <3>1, CutIsBehind
      <3> QED
        BY <2>1, <2>2, <3>1, <3>2 DEF Input!Cancel, Answers, AnswerOf, Writer, InLine
    <2>4. CASE ~async_
      <3>1. UNCHANGED <<stream, cut>>
        BY <1>8, <2>4 DEF CancelIo
      <3> QED
        BY <2>1, <2>2, <3>1, AbstractSteps
    <2> QED
      BY <2>3, <2>4
  <1>9. CASE HostRead
    <2>1. /\ fetched < accepted /\ fetched' = fetched + 1
          /\ UNCHANGED <<holder, msg, sent, calls, result, length, stream, cut>>
      BY <1>9 DEF HostRead
    <2>2. fetched < Len(stream)
      BY <1>a, <2>1 DEF PipeTypeOK
    <2>3. Answers' = Answers /\ Writer' = Writer /\ InLine' = InLine
      BY <1>0, <2>1, SameWriter, SameAnswers
    <2>4. Input!Fetch
      BY <2>1, <2>2, <2>3, AbstractSteps
    <2> QED
      BY <2>4 DEF Input!Next
  <1>10. CASE Aside
    <2>1. UNCHANGED <<holder, msg, sent, calls, result, length, stream, fetched, cut>>
      BY <1>a, <1>10, AsideFrame
    <2> QED
      BY <1>0, <2>1, SameWriter, SameAnswers, AbstractSteps
  <1>11. ASSUME NEW u \in Users, WriteStart(u) \/ WriteStep(u) \/ CancelIo(u)
         PROVE  [Input!Next]_(Input!inputVars)
    <2>1. CASE WriteStart(u)
      BY <1>1, <2>1 DEF Input!Next
    <2>2. CASE WriteLock(u)
      BY <1>2, <2>2 DEF Input!Next
    <2>3. CASE SyncWriteFile(u) \/ AsyncWriteFile(u)
      BY <1>3, <2>3 DEF Input!Next
    <2>4. CASE WriteWakes(u)
      BY <1>4, <2>4
    <2>5. CASE WriteFails(u) \/ AsyncWriteFails(u) \/ WriteReturns(u)
      BY <1>6, <1>7, <1>6a, <2>5 DEF Input!Next
    <2>6. CASE CancelIo(u)
      BY <1>8, <2>6 DEF Input!Next
    <2> QED
      BY <1>11, <2>1, <2>2, <2>3, <2>4, <2>5, <2>6 DEF WriteStep
  <1> QED
    BY <1>9, <1>10, <1>11 DEF Next, Aside

(* Whatever the threads that call write do at once, and whatever waits,     *)
(* fails or is cancelled in the kernel (base.rs, write and cancel_io), one  *)
(* writer could have written in turn.                                       *)
THEOREM InputImplemented == Spec => ImplementsInput
  BY InputInit, InputStep, SentCorrect, PTL DEF Spec, ImplementsInput, Input!Spec
=============================================================================
