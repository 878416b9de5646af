-------------------------------- MODULE PTYCalls --------------------------------
(***************************************************************************)
(* The calls of PTYProcess (src/pty/base.rs) that no thread of the struct  *)
(* answers: write, which puts a message into the input pipe piece by piece *)
(* under write_mutex, and the questions about the child: is_alive,         *)
(* wait_for_exit and get_exitstatus.  They come from any thread that holds *)
(* a reference.                                                            *)
(*                                                                         *)
(* A message is cut into chunks of BUFFER_SIZE bytes; the pipe holds       *)
(* Capacity of them (128 KiB in ConPTY::new).  A WriteFile that finds no   *)
(* room waits in the kernel, behind the pipe: a synchronous caller waits   *)
(* with it, an asynchronous one goes on.                                   *)
(***************************************************************************)
EXTENDS Integers, Sequences

CONSTANTS
    Users,          \* threads that call
    Modes,          \* values of async_: TRUE for ConPTY, FALSE for WinPTY
    Codes,          \* exit codes of children
    MaxSpawns,      \* bound: children
    MaxCalls,       \* bound: calls of write
    MaxChunks,      \* bound: chunks in a message
    MaxCancels,     \* bound: calls of cancel_io
    Capacity        \* chunks the input pipe holds

NoUser == 0
NoProc == 0
Procs    == 1..MaxSpawns
Messages == 1..MaxCalls

ASSUME CallsAssumption ==
    /\ NoUser \notin Users
    /\ Modes \subseteq BOOLEAN /\ Codes \subseteq Nat
    /\ MaxSpawns \in Nat /\ MaxCalls \in Nat /\ MaxChunks \in Nat /\ MaxCancels \in Nat
    /\ Capacity \in Nat \ {0}

VARIABLES
    async_,
    upc,            \* where each caller is
    msg,            \* the message each caller writes
    sent,           \* the chunks of it that WriteFile has taken
    total,          \* its total_written, in chunks
    holder,         \* who holds write_mutex
    write_pending,  \* the boolean inside the mutex
    stream,         \* all chunks WriteFile took, in order: fetched by the host,
    fetched,        \*   then in the pipe,
    accepted,       \*   then, behind accepted, waiting in the kernel
    hostOpen, child, code,
    process, pid,   \* the fields: a handle, and the identifier asked of it
    calls, length,  \* history: messages, and the chunks of each
    result, count,  \* history: what write answered
    cut,            \* history: messages that lost chunks to a CancelIoEx
    cancels

writeVars  == <<msg, sent, total, holder, write_pending>>
pipeVars   == <<stream, fetched, accepted, cut>>
childVars  == <<hostOpen, child, code>>
ownerVars  == <<process, pid>>
callVars   == <<calls, length, result, count>>
vars == <<async_, upc, writeVars, pipeVars, childVars, ownerVars, callVars, cancels>>

UserPCs == {"idle", "lock", "chunk", "wait", "waitExit"}

Init ==
    /\ async_ \in Modes
    /\ upc = [u \in Users |-> "idle"] /\ msg = [u \in Users |-> 0]
    /\ sent = [u \in Users |-> 0] /\ total = [u \in Users |-> 0]
    /\ holder = NoUser /\ write_pending = FALSE
    /\ stream = <<>> /\ fetched = 0 /\ accepted = 0
    /\ hostOpen = TRUE /\ child = [p \in Procs |-> "none"] /\ code = [p \in Procs |-> 0]
    /\ process = NoProc /\ pid = NoProc
    /\ calls = 0 /\ length = [m \in Messages |-> 0]
    /\ result = [m \in Messages |-> "none"] /\ count = [m \in Messages |-> 0]
    /\ cut = {} /\ cancels = 0

-----------------------------------------------------------------------------
(* write.                                                                   *)

(* The text is converted before the lock is taken; an empty one has no      *)
(* chunk.                                                                   *)
WriteStart(u) ==
    /\ upc[u] = "idle" /\ calls < MaxCalls
    /\ calls' = calls + 1
    /\ msg' = [msg EXCEPT ![u] = calls']
    /\ \E n \in 0..MaxChunks : length' = [length EXCEPT ![calls'] = n]
    /\ upc' = [upc EXCEPT ![u] = "lock"]
    /\ UNCHANGED <<async_, sent, total, holder, write_pending, pipeVars, childVars, ownerVars,
                   result, count, cancels>>

\* Variant for the mutants: the mutex is not taken.
WriteLockSkipped(u) ==
    /\ upc[u] = "lock"
    /\ holder' = u
    /\ upc' = [upc EXCEPT ![u] = "chunk"]
    /\ UNCHANGED <<async_, msg, sent, total, write_pending, pipeVars, childVars, ownerVars,
                   callVars, cancels>>

WriteLock(u) ==
    /\ upc[u] = "lock" /\ holder = NoUser
    /\ holder' = u
    /\ upc' = [upc EXCEPT ![u] = "chunk"]
    /\ UNCHANGED <<async_, msg, sent, total, write_pending, pipeVars, childVars, ownerVars,
                   callVars, cancels>>

Room == accepted = Len(stream) /\ accepted - fetched < Capacity

(* The input pipe has no reader left.  ConPTY keeps client handles of its   *)
(* own, so its pipe never breaks.                                           *)
ConinBroken == ~async_ /\ ~hostOpen

HasChunk(u) == upc[u] = "chunk" /\ sent[u] < length[msg[u]]

(* WriteFile takes the next chunk: into the pipe, or to wait behind it.     *)
TakeChunk(u) ==
    /\ HasChunk(u) /\ ~ConinBroken
    /\ sent' = [sent EXCEPT ![u] = @ + 1]
    /\ stream' = Append(stream, [msg |-> msg[u], part |-> sent'[u]])
    /\ accepted' = (IF Room THEN accepted + 1 ELSE accepted)

\* Variant for the mutants: the guard of the mutex lives for one turn of the loop.
SyncWriteFileUnlocks(u) ==
    /\ ~async_ /\ TakeChunk(u)
    /\ total' = [total EXCEPT ![u] = IF Room THEN @ + 1 ELSE @]
    /\ upc' = [upc EXCEPT ![u] = IF Room THEN "lock" ELSE "wait"]
    /\ holder' = (IF Room THEN NoUser ELSE u)
    /\ UNCHANGED <<async_, msg, write_pending, fetched, cut, childVars, ownerVars,
                   callVars, cancels>>

(* Synchronous: the call returns once the chunk is in the pipe, and counts. *)
SyncWriteFile(u) ==
    /\ ~async_ /\ TakeChunk(u)
    /\ total' = [total EXCEPT ![u] = IF Room THEN @ + 1 ELSE @]
    /\ upc' = [upc EXCEPT ![u] = IF Room THEN "chunk" ELSE "wait"]
    /\ UNCHANGED <<async_, msg, holder, write_pending, fetched, cut, childVars, ownerVars,
                   callVars, cancels>>

\* Variant for the mutants: a write that had to wait is not counted.
WriteWakesUncounted(u) ==
    /\ upc[u] = "wait" /\ accepted = Len(stream)
    /\ upc' = [upc EXCEPT ![u] = "chunk"]
    /\ UNCHANGED <<async_, msg, holder, sent, total, write_pending, pipeVars, childVars,
                   ownerVars, callVars, cancels>>

WriteWakes(u) ==
    /\ upc[u] = "wait" /\ accepted = Len(stream)
    /\ total' = [total EXCEPT ![u] = @ + 1]
    /\ upc' = [upc EXCEPT ![u] = "chunk"]
    /\ UNCHANGED <<async_, msg, holder, sent, write_pending, pipeVars, childVars, ownerVars,
                   callVars, cancels>>

(* What GetOverlappedResult tells of the write before: it is given a copy   *)
(* of an OVERLAPPED that no write ever fills (each gets a copy of its own), *)
(* so it answers at once, and that nothing was transferred.                 *)
OverlappedCount == 0

\* Variant for the mutants: a chunk is skipped when the one before was pending.
AsyncWriteFileSkips(u) ==
    /\ async_ /\ HasChunk(u)
    /\ sent' = [sent EXCEPT ![u] = @ + 1]
    /\ IF write_pending
         THEN write_pending' = FALSE /\ UNCHANGED <<stream, accepted>>
         ELSE /\ stream' = Append(stream, [msg |-> msg[u], part |-> sent'[u]])
              /\ accepted' = (IF Room THEN accepted + 1 ELSE accepted)
              /\ write_pending' = ~Room
    /\ UNCHANGED <<async_, upc, msg, total, holder, fetched, cut, childVars, ownerVars,
                   callVars, cancels>>

(* Asynchronous: a pending write is asked about first; the next one is      *)
(* issued whatever became of it, and is itself not counted.                 *)
AsyncWriteFile(u) ==
    /\ async_ /\ TakeChunk(u)
    /\ total' = [total EXCEPT ![u] = IF write_pending THEN @ + OverlappedCount ELSE @]
    /\ write_pending' = ~Room
    /\ UNCHANGED <<async_, upc, msg, holder, fetched, cut, childVars, ownerVars,
                   callVars, cancels>>

(* The guard of the mutex is dropped, and the call answers.                 *)
Answer(u, r) ==
    /\ upc' = [upc EXCEPT ![u] = "idle"]
    /\ holder' = NoUser
    /\ result' = [result EXCEPT ![msg[u]] = r]
    /\ count' = [count EXCEPT ![msg[u]] = total[u]]
    /\ sent' = [sent EXCEPT ![u] = 0] /\ total' = [total EXCEPT ![u] = 0]
    /\ UNCHANGED <<async_, msg, fetched, accepted, cut, childVars,
                   ownerVars, calls, length, cancels>>

\* Variant for the mutants: the chunk that failed is tried again.
WriteFailsRetries(u) ==
    /\ ConinBroken /\ HasChunk(u)
    /\ UNCHANGED vars

\* Variant for the mutants: a failed WriteFile ends the loop like the last chunk.
WriteFailsSilently(u) ==
    /\ ConinBroken
    /\ HasChunk(u) \/ (upc[u] = "wait" /\ accepted < Len(stream))
    /\ stream' = SubSeq(stream, 1, accepted) /\ UNCHANGED write_pending
    /\ Answer(u, "ok")

(* Synchronous: the host has gone, and WriteFile fails, also the one that   *)
(* waits; the chunks before it stay.                                        *)
WriteFails(u) ==
    /\ ConinBroken
    /\ HasChunk(u) \/ (upc[u] = "wait" /\ accepted < Len(stream))
    /\ stream' = SubSeq(stream, 1, accepted) /\ UNCHANGED write_pending
    /\ Answer(u, "err")

(* Asynchronous: the question about the write before fails, or the next     *)
(* WriteFile does; either way that write is no longer known as pending.     *)
(* What waits behind the pipe stays there.                                  *)
AsyncWriteFails(u) ==
    /\ async_ /\ HasChunk(u)
    /\ write_pending' = FALSE /\ UNCHANGED stream
    /\ Answer(u, "err")

WriteReturns(u) ==
    /\ upc[u] = "chunk" /\ sent[u] = length[msg[u]]
    /\ UNCHANGED <<stream, write_pending>>
    /\ Answer(u, "ok")

(* cancel_io: CancelIoEx(conout).  ConPTY passes one handle as conin and    *)
(* conout, so it takes back the writes that wait as well; in WinPTY these   *)
(* are two pipes.  The watcher and drop call CancelIoEx the same way.       *)
CancelIo(u) ==
    /\ upc[u] = "idle" /\ cancels < MaxCancels
    /\ cancels' = cancels + 1
    /\ IF async_
         THEN /\ stream' = SubSeq(stream, 1, accepted)
              /\ cut' = cut \cup {stream[i].msg : i \in accepted + 1 .. Len(stream)}
         ELSE UNCHANGED <<stream, cut>>
    /\ UNCHANGED <<async_, upc, writeVars, fetched, accepted, childVars, ownerVars,
                   callVars>>

-----------------------------------------------------------------------------
(* Questions about the child, which ask the kernel and change nothing: what *)
(* is_alive and get_exitstatus answer is a function of the state.           *)

childFrame == <<async_, writeVars, pipeVars, childVars, ownerVars, callVars, cancels>>

(* No process: WaitForSingleObject fails on the null handle.                *)
IsAliveAnswer ==
    IF process = NoProc THEN "err" ELSE IF child[process] = "alive" THEN "true" ELSE "false"

(* GetExitCodeProcess of a child that runs is STATUS_PENDING.               *)
STATUS_PENDING == 259
ExitCode(p) == IF child[p] = "alive" THEN STATUS_PENDING ELSE code[p]

\* get_exitstatus: no code, or one.
ExitStatus ==
    IF pid = NoProc \/ ExitCode(process) = STATUS_PENDING THEN {} ELSE {ExitCode(process)}

(* wait_for_exit; on the null handle it fails at once.                      *)
WaitStart(u) ==
    /\ upc[u] = "idle" /\ process # NoProc
    /\ upc' = [upc EXCEPT ![u] = "waitExit"]
    /\ UNCHANGED childFrame

WaitReturns(u) ==
    /\ upc[u] = "waitExit" /\ child[process] = "dead"
    /\ upc' = [upc EXCEPT ![u] = "idle"]
    /\ UNCHANGED childFrame

Exclusive == \A u \in Users : upc[u] = "idle"

\* Variant for the mutants: the identifier is not asked for.
SetProcessNoPid(p) ==
    /\ Exclusive /\ hostOpen /\ child[p] = "none"
    /\ \A q \in Procs : q < p => child[q] # "none"
    /\ child' = [child EXCEPT ![p] = "alive"]
    /\ process' = p /\ pid' = pid
    /\ UNCHANGED <<async_, upc, writeVars, pipeVars, hostOpen, code, callVars, cancels>>

(* set_process (&mut self) on a new child.  When the reader has ended, the  *)
(* send panics between the assignment of the handle and that of the pid;    *)
(* the reader does not end before it was given a first child, and once it   *)
(* has ended every later send panics too.                                   *)
SetProcess(p) ==
    /\ Exclusive /\ hostOpen /\ child[p] = "none"
    /\ \A q \in Procs : q < p => child[q] # "none"
    /\ child' = [child EXCEPT ![p] = "alive"]
    /\ process' = p
    /\ pid' \in (IF process = NoProc THEN {p} ELSE IF pid = process THEN {p, pid} ELSE {pid})
    /\ UNCHANGED <<async_, upc, writeVars, pipeVars, hostOpen, code, callVars, cancels>>

-----------------------------------------------------------------------------
(* External: the children, and the console host at the other end.           *)

hostFrame == <<async_, upc, writeVars, stream, cut, ownerVars, callVars, cancels>>

(* The host reads a chunk; the first of those that wait takes its place.    *)
HostRead ==
    /\ hostOpen /\ fetched < accepted
    /\ fetched' = fetched + 1
    /\ accepted' = (IF accepted < Len(stream) THEN accepted + 1 ELSE accepted)
    /\ UNCHANGED <<hostOpen, child, code, hostFrame>>

ChildExit(p) ==
    /\ child[p] = "alive"
    /\ child' = [child EXCEPT ![p] = "dead"]
    /\ \E c \in Codes : code' = [code EXCEPT ![p] = c]
    /\ UNCHANGED <<fetched, accepted, hostOpen, hostFrame>>

(* The host leaves after its last client, with input unread if there is.    *)
HostClose ==
    /\ hostOpen
    /\ \E p \in Procs : child[p] = "dead"
    /\ \A p \in Procs : child[p] # "alive"
    /\ hostOpen' = FALSE
    /\ UNCHANGED <<fetched, accepted, child, code, hostFrame>>

-----------------------------------------------------------------------------
WriteStep(u) ==
    \/ WriteLock(u) \/ SyncWriteFile(u) \/ WriteWakes(u) \/ AsyncWriteFile(u)
    \/ WriteFails(u) \/ AsyncWriteFails(u) \/ WriteReturns(u)

Next ==
    \/ \E u \in Users : WriteStart(u) \/ WriteStep(u) \/ CancelIo(u)
    \/ \E u \in Users : WaitStart(u) \/ WaitReturns(u)
    \/ \E p \in Procs : SetProcess(p) \/ ChildExit(p)
    \/ HostRead \/ HostClose

Spec == Init /\ [][Next]_vars

(* A call that has begun goes on, and the mutex is given to one of those    *)
(* that want it.  WinPTY's agent reads its input as long as it runs; for    *)
(* ConPTY nothing is asked of the host.                                     *)
Fairness ==
    /\ \A u \in Users : WF_vars(WriteStep(u)) /\ WF_vars(WaitReturns(u))
    /\ WF_vars(~async_ /\ HostRead)

FairSpec == Spec /\ Fairness

-----------------------------------------------------------------------------
Chunks == [msg : Messages, part : 1..MaxChunks]

WriteTypeOK ==
    /\ async_ \in BOOLEAN /\ upc \in [Users -> UserPCs]
    /\ msg \in [Users -> 0..MaxCalls] /\ holder \in Users \cup {NoUser}
    /\ sent \in [Users -> 0..MaxChunks] /\ total \in [Users -> 0..MaxChunks]
    /\ write_pending \in BOOLEAN
    /\ calls \in 0..MaxCalls /\ length \in [Messages -> 0..MaxChunks]
    /\ result \in [Messages -> {"none", "ok", "err"}]
    /\ count \in [Messages -> 0..MaxChunks]
    /\ cancels \in Nat

PipeTypeOK ==
    /\ stream \in Seq(Chunks) /\ fetched \in Nat /\ accepted \in Nat
    /\ fetched <= accepted /\ accepted <= Len(stream)
    /\ cut \subseteq Messages

ChildTypeOK ==
    /\ hostOpen \in BOOLEAN /\ child \in [Procs -> {"none", "alive", "dead"}]
    /\ code \in [Procs -> Codes \cup {0}]
    /\ process \in Procs \cup {NoProc} /\ pid \in Procs \cup {NoProc}

MutexHeld == \A u \in Users : holder = u <=> upc[u] \in {"chunk", "wait"}

(* Every variable keeps its type, and the mutex is held by the caller that  *)
(* is between its lock and its answer.                                      *)
CallsTypeOK == WriteTypeOK /\ PipeTypeOK /\ ChildTypeOK /\ MutexHeld

(* Messages of different threads are not mixed: between two chunks of one   *)
(* there is nothing of another, and they are in order, although an          *)
(* asynchronous write issues a chunk while the one before still waits.      *)
MessagesUnbroken ==
    \A i, j \in 1..Len(stream) :
        i < j /\ stream[i].msg = stream[j].msg =>
            /\ stream[i].part < stream[j].part
            /\ \A k \in i..j : stream[k].msg = stream[i].msg

(* What reaches the pipe of a message is its beginning, whatever fails; only*)
(* a cancel makes a hole in it.                                             *)
DeliveredIsPrefix ==
    \A i \in 1..Len(stream) :
        stream[i].part > 1 /\ stream[i].msg \notin cut =>
            i > 1 /\ stream[i - 1] = [stream[i] EXCEPT !.part = @ - 1]

Delivered(m) == {stream[i].part : i \in {j \in 1..Len(stream) : stream[j].msg = m}}

(* A write that answered Ok has put every chunk of its message into the     *)
(* pipe or in line behind it; a cancel, and nothing else, takes them back.  *)
AnsweredIsDelivered ==
    \A m \in Messages : result[m] = "ok" /\ m \notin cut => Delivered(m) = 1..length[m]

(* A synchronous write that answered Ok has counted all it wrote, also when *)
(* it had to wait for room.                                                 *)
SyncCountsAll ==
    \A m \in Messages : ~async_ /\ result[m] = "ok" => count[m] = length[m]

(* When is_alive says that the child has exited, get_exitstatus knows the   *)
(* status of that child, also after a set_process that panicked; a child    *)
(* that exits with 259 never has one.                                       *)
StatusAfterExit ==
    IsAliveAnswer = "false" =>
        ExitStatus = {code[process]} \/ code[process] = STATUS_PENDING

(* Every call returns: a write whatever the other writers do (and, in       *)
(* asynchronous mode, whatever the host does), a wait_for_exit when the     *)
(* child is gone.                                                           *)
CallsReturn ==
    \A u \in Users :
        (upc[u] # "idle" /\ (upc[u] = "waitExit" => child[process] = "dead"))
            ~> upc[u] = "idle"

-----------------------------------------------------------------------------
Input == INSTANCE InputStream WITH
    Sizes   <- 0..MaxChunks,
    answer  <- [m \in Messages |->
                  IF m > calls THEN "new" ELSE IF result[m] = "none" THEN "asked" ELSE result[m]],
    size    <- length,
    writing <- IF holder = NoUser THEN 0 ELSE msg[holder],
    put     <- IF holder = NoUser THEN 0 ELSE sent[holder],
    line    <- stream

(* Both modes implement the promise of InputStream: what many threads write *)
(* at once under write_mutex, with writes that wait in the kernel and       *)
(* cancels that take them back, one writer could have written in turn.      *)
ImplementsInput == Input!Spec

-----------------------------------------------------------------------------
(* base.rs:686-687, write returns "the total number of characters written   *)
(* if the call was successful".                                             *)
CountIsWritten ==
    \A m \in Messages : result[m] = "ok" => count[m] = length[m]
=============================================================================
