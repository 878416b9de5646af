------------------------------ MODULE PTYProcess ------------------------------
(***************************************************************************)
(* The machinery shared by both backends of the library, src/pty/base.rs:  *)
(* a reader thread that moves output from the PTY's pipe to a channel, a   *)
(* watcher thread (asynchronous mode) that unsticks the reader once the    *)
(* child has exited, the threads that call read, is_eof and cancel_io on a *)
(* shared &PTYProcess, and the owner that hands over a child and finally   *)
(* drops the struct.                                                       *)
(*                                                                         *)
(* Async = FALSE is the mode WinPTY uses, Async = TRUE the one ConPTY uses.*)
(* A unit of output is what one ReadFile returns; its bytes do not matter  *)
(* here.  The child, the console host between child and pipe, and the      *)
(* kernel's pipe are external: they are modelled from how the code uses    *)
(* them.                                                                   *)
(***************************************************************************)
EXTENDS Integers, Sequences, FiniteSets

CONSTANTS Async,         \* TRUE: overlapped reads and a watcher; FALSE: synchronous reads
          Users,         \* threads that share the PTY
          FarEnds,       \* the values farEnd may have: see there
          EventCreated,  \* CreateEventExW returned an event for reader_exit_event
          MaxSpawns,     \* children handed over with set_process
          MaxUnits,      \* units of output the children write
          MaxNudges,     \* messages on reader_process when the drop stops queueing its own
          MaxCancels     \* calls of cancel_io

ASSUME ConstantsAssumption ==
    /\ Async \in BOOLEAN
    /\ FarEnds \subseteq BOOLEAN
    /\ EventCreated \in BOOLEAN
    /\ MaxSpawns \in Nat
    /\ MaxUnits \in Nat
    /\ MaxNudges \in Nat \ {0}
    /\ MaxCancels \in Nat

Procs  == 1..MaxSpawns
NoProc == 0                 \* a null process handle; None on a channel of handles
Items  == {"data", "empty", "err", "eof"}   \* Ok(text), Ok(""), Err(_), None

VARIABLES
    rpc, rproc, rres, sawEmpty,   \* reader: step, its process, result in hand, last peek
    wpc, watchQ,                  \* watcher: step, handle forwarded by the reader
    dpc, process, closed, panicked, \* owner: step of drop, self.process, closed handles
    upc, uacc, ret,               \* callers: step, partial verdict of is_eof, last result
    procQ, stopSent, out,         \* channels: reader_process, reader_alive, reader_out
    ready, atomic, exitEvent,     \* reader_ready, reader_atomic, reader_exit_event
    io, pipe,                     \* kernel: the reader's ReadFile, units in the pipe
    hostBuf, hostOpen, child,     \* console host: unflushed units, its pipe end; children
    farEnd,                       \* the program itself keeps the pipe's far end open
    struck, cancels, produced, taken  \* history: a cancel hit a read; bounds; units in, out

readerVars == <<rpc, rproc, rres, sawEmpty>>
watchVars  == <<wpc, watchQ>>
ownerVars  == <<dpc, process, closed, panicked>>
userVars   == <<upc, uacc, ret>>
chanVars   == <<procQ, stopSent, out>>
flagVars   == <<ready, atomic, exitEvent>>
kernelVars == <<io, pipe>>
hostVars   == <<hostBuf, hostOpen, child, farEnd>>
histVars   == <<struck, cancels, produced, taken>>
vars == <<readerVars, watchVars, ownerVars, userVars, chanVars, flagVars,
          kernelVars, hostVars, histVars>>

ReaderPCs  == {"recv", "ready", "forward", "poll", "peek", "alive", "issue",
               "wait", "send", "atomic", "event", "exit", "done"}
WatcherPCs == {"recv", "call", "blocked", "waitExit", "cancel", "signal", "done"}
OwnerPCs   == {"live", "nudge", "stop", "cancel", "wait", "join", "close",
               "joinAlive", "closeEvent", "freed"}
UserPCs    == {"idle", "read", "eofAlive", "eofQueue", "eofAtomic"}
Handles    == {"conin", "conout", "process", "exit_event"}

(* PTYProcess::new: the reader waits for a handle; in asynchronous mode so  *)
(* does the watcher.                                                        *)
Init ==
    /\ rpc = "recv" /\ rproc = NoProc /\ rres = "none" /\ sawEmpty = FALSE
    /\ wpc = (IF Async THEN "recv" ELSE "done") /\ watchQ = NoProc
    /\ dpc = "live" /\ process = NoProc /\ closed = {} /\ panicked = FALSE
    /\ upc = [u \in Users |-> "idle"]
    /\ uacc = [u \in Users |-> FALSE]
    /\ ret = "nil"
    /\ procQ = <<>> /\ stopSent = FALSE /\ out = <<>>
    /\ ready = FALSE /\ atomic = TRUE /\ exitEvent = FALSE
    /\ io = "idle" /\ pipe = 0
    /\ hostBuf = 0 /\ hostOpen = TRUE /\ child = [p \in Procs |-> "none"]
    /\ farEnd \in FarEnds
    /\ struck = FALSE /\ cancels = 0 /\ produced = 0 /\ taken = 0

(* The pipe reports ERROR_BROKEN_PIPE: empty, and no far end left open.     *)
(* ConPTY::new leaves its own client handles open, so under ConPTY farEnd   *)
(* is TRUE and the pipe never breaks; winpty's pipes have one far end, the  *)
(* agent's.                                                                 *)
Broken == ~hostOpen /\ ~farEnd /\ pipe = 0

(* The reader's ends of the channels, dropped when its closure ends.        *)
ReaderGone == rpc = "done"

\* Variant for the mutants: a cancel throws away a read that had completed.
CancelIoExDiscards ==
    /\ io' = (IF io \in {"pending", "data"} THEN "cancelled" ELSE io)
    /\ struck' = (struck \/ io = "pending")

(* CancelIoEx(conout): a pending ReadFile completes as aborted.             *)
CancelIoEx ==
    /\ io' = (IF io = "pending" THEN "cancelled" ELSE io)
    /\ struck' = (struck \/ io = "pending")

-----------------------------------------------------------------------------
(* Reader thread.                                                           *)

readerFrame == <<watchVars, ownerVars, userVars, hostVars, histVars>>

ReaderRecv ==
    /\ rpc = "recv" /\ procQ # <<>>
    /\ rproc' = Head(procQ) /\ procQ' = Tail(procQ)
    /\ rpc' = "ready"
    /\ UNCHANGED <<rres, sawEmpty, stopSent, out, flagVars, kernelVars, readerFrame>>

\* Variant for the mutants: each mode takes the other's path.
ReaderReadySwapped ==
    /\ rpc = "ready"
    /\ ready' = TRUE
    /\ rpc' = (IF rproc = NoProc THEN "atomic" ELSE IF Async THEN "poll" ELSE "forward")
    /\ UNCHANGED <<rproc, rres, sawEmpty, chanVars, atomic, exitEvent, kernelVars,
                   readerFrame>>

ReaderReady ==
    /\ rpc = "ready"
    /\ ready' = TRUE
    /\ rpc' = (IF rproc = NoProc THEN "atomic" ELSE IF Async THEN "forward" ELSE "poll")
    /\ UNCHANGED <<rproc, rres, sawEmpty, chanVars, atomic, exitEvent, kernelVars,
                   readerFrame>>

AsyncForward ==
    /\ rpc = "forward"
    /\ watchQ' = rproc
    /\ rpc' = "issue"
    /\ UNCHANGED <<rproc, rres, sawEmpty, wpc, chanVars, flagVars, kernelVars, ownerVars,
                   userVars, hostVars, histVars>>

\* Variant for the mutants: what try_recv returns is not looked at.
SyncPollIgnored ==
    /\ rpc = "poll"
    /\ stopSent' = FALSE
    /\ rpc' = "peek"
    /\ UNCHANGED <<rproc, rres, sawEmpty, procQ, out, flagVars, kernelVars, readerFrame>>

(* try_recv on reader_alive: the loop ends when a stop was sent.            *)
SyncPoll ==
    /\ rpc = "poll"
    /\ stopSent' = FALSE
    /\ rpc' = (IF stopSent THEN "atomic" ELSE "peek")
    /\ UNCHANGED <<rproc, rres, sawEmpty, procQ, out, flagVars, kernelVars, readerFrame>>

(* is_eof(process, stream), first half: bytes available in the pipe.        *)
SyncPeek ==
    /\ rpc = "peek"
    /\ sawEmpty' = (pipe = 0)
    /\ IF Broken THEN rpc' = "send" /\ rres' = "eof"
                 ELSE rpc' = "alive" /\ rres' = rres
    /\ UNCHANGED <<rproc, chanVars, flagVars, kernelVars, readerFrame>>

\* Variant for the mutants: an empty pipe alone is the end of file.
SyncAliveIgnoresChild ==
    /\ rpc = "alive"
    /\ IF sawEmpty
         THEN rpc' = "send" /\ rres' = "eof"
         ELSE rpc' = "issue" /\ rres' = rres
    /\ UNCHANGED <<rproc, sawEmpty, chanVars, flagVars, kernelVars, readerFrame>>

\* Variant for the mutants: the end is reported before its message is queued.
SyncAliveClearsFlag ==
    /\ rpc = "alive"
    /\ IF sawEmpty /\ child[rproc] = "dead"
         THEN rpc' = "send" /\ rres' = "eof" /\ atomic' = FALSE
         ELSE rpc' = "issue" /\ rres' = rres /\ atomic' = atomic
    /\ UNCHANGED <<rproc, sawEmpty, chanVars, ready, exitEvent, kernelVars, readerFrame>>

(* is_eof(process, stream), second half: is the process still running?      *)
SyncAlive ==
    /\ rpc = "alive"
    /\ IF sawEmpty /\ child[rproc] = "dead"
         THEN rpc' = "send" /\ rres' = "eof"
         ELSE rpc' = "issue" /\ rres' = rres
    /\ UNCHANGED <<rproc, sawEmpty, chanVars, flagVars, kernelVars, readerFrame>>

(* What a broken pipe makes of a read.  The code's comment expects an       *)
(* overlapped read to return 0 bytes; the kernel reports a broken pipe.     *)
BrokenResults == IF Async THEN {"err", "empty"} ELSE {"err"}

ReadFile ==
    /\ rpc = "issue"
    /\ \/ /\ pipe > 0
          /\ pipe' = pipe - 1 /\ rres' = "data" /\ rpc' = "send" /\ io' = io
       \/ /\ Broken
          /\ rres' \in BrokenResults /\ rpc' = "send" /\ UNCHANGED kernelVars
       \/ /\ pipe = 0 /\ ~Broken
          /\ io' = "pending" /\ rpc' = "wait" /\ UNCHANGED <<rres, pipe>>
    /\ UNCHANGED <<rproc, sawEmpty, chanVars, flagVars, readerFrame>>

ReadWakes ==
    /\ rpc = "wait" /\ io \notin {"idle", "pending"}
    /\ rres' \in (CASE io = "data" -> {"data"}
                    [] io = "broken" -> BrokenResults
                    [] io = "cancelled" -> {"err"})
    /\ io' = "idle" /\ rpc' = "send"
    /\ UNCHANGED <<rproc, sawEmpty, pipe, chanVars, flagVars, readerFrame>>

\* Variant for the mutants: the loop ends with the child, not with the pipe.
AsyncSendStopsWithChild ==
    /\ Async /\ rpc = "send"
    /\ out' = Append(out, rres)
    /\ rpc' = (IF rres = "data" /\ child[rproc] = "alive" THEN "issue" ELSE "atomic")
    /\ rres' = "none"
    /\ UNCHANGED <<rproc, sawEmpty, procQ, stopSent, flagVars, kernelVars, readerFrame>>

(* Asynchronous mode: anything but data ends the loop.                      *)
AsyncSend ==
    /\ Async /\ rpc = "send"
    /\ out' = Append(out, rres)
    /\ rpc' = (IF rres = "data" THEN "issue" ELSE "atomic")
    /\ rres' = "none"
    /\ UNCHANGED <<rproc, sawEmpty, procQ, stopSent, flagVars, kernelVars, readerFrame>>

\* Variant for the mutants: the loop does not end at the end of file.
SyncSendGoesOn ==
    /\ ~Async /\ rpc = "send"
    /\ out' = Append(out, rres)
    /\ rpc' = "poll"
    /\ rres' = "none"
    /\ UNCHANGED <<rproc, sawEmpty, procQ, stopSent, flagVars, kernelVars, readerFrame>>

(* Synchronous mode: only the end-of-file verdict ends the loop.            *)
SyncSend ==
    /\ ~Async /\ rpc = "send"
    /\ out' = Append(out, rres)
    /\ rpc' = (IF rres = "eof" THEN "atomic" ELSE "poll")
    /\ rres' = "none"
    /\ UNCHANGED <<rproc, sawEmpty, procQ, stopSent, flagVars, kernelVars, readerFrame>>

ReaderAtomic ==
    /\ rpc = "atomic"
    /\ atomic' = FALSE /\ rpc' = "event"
    /\ UNCHANGED <<rproc, rres, sawEmpty, chanVars, ready, exitEvent, kernelVars,
                   readerFrame>>

ReaderSetEvent ==
    /\ rpc = "event"
    /\ exitEvent' = EventCreated /\ rpc' = "exit"
    /\ UNCHANGED <<rproc, rres, sawEmpty, chanVars, ready, atomic, kernelVars,
                   readerFrame>>

(* The closure ends: its channel ends are dropped and the thread can be     *)
(* joined.                                                                  *)
ReaderExit ==
    /\ rpc = "exit"
    /\ rpc' = "done"
    /\ UNCHANGED <<rproc, rres, sawEmpty, chanVars, flagVars, kernelVars, readerFrame>>

ReaderStep ==
    \/ ReaderRecv \/ ReaderReady \/ AsyncForward
    \/ SyncPoll \/ SyncPeek \/ SyncAlive
    \/ ReadFile \/ ReadWakes \/ AsyncSend \/ SyncSend
    \/ ReaderAtomic \/ ReaderSetEvent \/ ReaderExit

-----------------------------------------------------------------------------
(* Watcher thread (alive_thread).                                           *)

watcherFrame == <<readerVars, ownerVars, userVars, chanVars, flagVars, pipe, hostVars,
                  cancels, produced, taken>>

\* The watcher goes on, and nothing else changes.
WatcherGoes(from, to) ==
    /\ wpc = from /\ wpc' = to
    /\ UNCHANGED <<watchQ, io, struck, watcherFrame>>

WatcherRecv ==
    \/ watchQ # NoProc /\ WatcherGoes("recv", "call")
    \/ watchQ = NoProc /\ ReaderGone /\ WatcherGoes("recv", "done")

\* Variant for the mutants: the watcher does not wait for the child.
WatcherCallNoWait == WatcherGoes("call", "waitExit")

(* "process" in closed is the handle in self.process; an earlier one is     *)
(* never closed.                                                            *)
HandleClosed(p) == "process" \in closed /\ p = process

(* wait_for_exit is called: on a handle already closed (by ConPTY's drop)   *)
(* it fails at once, and the code goes on as if the child had exited.       *)
WatcherCall == WatcherGoes("call", IF HandleClosed(watchQ) THEN "waitExit" ELSE "blocked")

WatcherChildExited == WatcherGoes("blocked", "waitExit") /\ child[watchQ] = "dead"

WatcherSignalled == exitEvent /\ WatcherGoes("waitExit", "signal")

\* Variant for the mutants: after the timeout the watcher goes straight to the clean-up.
WatcherTimeoutGivesUp == ~exitEvent /\ WatcherGoes("waitExit", "signal")

(* The 5 s or 50 ms wait elapses, or fails because there is no event.       *)
WatcherTimeout == ~exitEvent /\ WatcherGoes("waitExit", "cancel")

\* Variant for the mutants: the watcher cancels on another handle.
WatcherCancelNothing == WatcherGoes("cancel", "waitExit")

WatcherCancel ==
    /\ wpc = "cancel" /\ wpc' = "waitExit"
    /\ IF "conout" \in closed THEN UNCHANGED <<io, struck>> ELSE CancelIoEx
    /\ UNCHANGED <<watchQ, watcherFrame>>

(* cleanup_tx.send(true), when the consumer gave a channel.                 *)
WatcherSignal == WatcherGoes("signal", "done")

WatcherStep ==
    \/ WatcherRecv \/ WatcherCall \/ WatcherChildExited \/ WatcherSignalled
    \/ WatcherTimeout \/ WatcherCancel \/ WatcherSignal

-----------------------------------------------------------------------------
(* Owner: set_process needs &mut self and drop needs the value, so neither  *)
(* runs while another thread is inside a call.                              *)

Exclusive == \A u \in Users : upc[u] = "idle"

NextProc(p) == p \in Procs /\ child[p] = "none" /\ \A q \in Procs : q < p => child[q] # "none"

(* A child was created (by the backend, on a live console host) and its     *)
(* handle is handed over.  The send panics once the reader has dropped its  *)
(* end.                                                                     *)
SetProcess(p) ==
    /\ dpc = "live" /\ ~panicked /\ hostOpen /\ Exclusive /\ NextProc(p)
    /\ child' = [child EXCEPT ![p] = "alive"]
    /\ process' = p
    /\ IF ReaderGone THEN panicked' = TRUE /\ procQ' = procQ
                     ELSE panicked' = panicked /\ procQ' = Append(procQ, p)
    /\ UNCHANGED <<readerVars, watchVars, dpc, closed, userVars, stopSent, out, flagVars,
                   kernelVars, hostBuf, hostOpen, farEnd, histVars>>

dropFrame == <<readerVars, watchVars, process, panicked, userVars, out, flagVars, pipe,
               hostVars, cancels, produced, taken>>

\* The owner goes on, and nothing else changes.
DropGoes(from, to) ==
    /\ dpc = from /\ dpc' = to
    /\ UNCHANGED <<procQ, stopSent, closed, io, struck, dropFrame>>

\* Variant for the mutants: drop does not wake a reader that waits for a handle.
DropBeginNoNudge == Exclusive /\ DropGoes("live", "stop")

DropBegin == Exclusive /\ DropGoes("live", "nudge")

(* The spin: queue a None until the reader reports that it has a message.   *)
(* MaxNudges bounds the queue: the reader receives once, so what is queued  *)
(* behind the first message is never received.                              *)
DropNudge ==
    /\ dpc = "nudge" /\ ~ready /\ Len(procQ) < MaxNudges
    /\ procQ' = (IF ReaderGone THEN procQ ELSE Append(procQ, NoProc))
    /\ UNCHANGED <<dpc, stopSent, closed, io, struck, dropFrame>>

DropReady == ready /\ DropGoes("nudge", "stop")

DropStop ==
    /\ dpc = "stop" /\ dpc' = "cancel"
    /\ stopSent' = TRUE
    /\ UNCHANGED <<procQ, closed, io, struck, dropFrame>>

(* An invalid event skips the waiting loop: the cancel is then not retried. *)
DropCancel ==
    /\ dpc = "cancel" /\ dpc' = (IF EventCreated THEN "wait" ELSE "join")
    /\ CancelIoEx
    /\ UNCHANGED <<procQ, stopSent, closed, dropFrame>>

\* Variant for the mutants: the cancel is not repeated.
DropWaitOnce == exitEvent /\ DropGoes("wait", "join")

DropWait ==
    \/ exitEvent /\ DropGoes("wait", "join")
    \/ ~exitEvent /\ DropGoes("wait", "stop")

\* Variant for the mutants: the exit event is taken for the end of the thread.
DropJoinSkipped == DropGoes("join", "close")

DropJoin == ReaderGone /\ DropGoes("join", "close")

(* The handles drop closes.  ConPTY (Async) passes one server pipe as both  *)
(* conin and conout, so closing conin closes both, and keeps the process    *)
(* handle (close_process = false); WinPTY passes two pipes and gives the    *)
(* process handle away.                                                     *)
ClosedByDrop == {"conin", "conout"}
                  \cup (IF ~Async /\ process # NoProc THEN {"process"} ELSE {})

DropClose ==
    /\ dpc = "close" /\ dpc' = "joinAlive"
    /\ closed' = closed \cup ClosedByDrop
    /\ UNCHANGED <<procQ, stopSent, io, struck, dropFrame>>

DropJoinAlive == wpc = "done" /\ DropGoes("joinAlive", "closeEvent")

DropCloseEvent ==
    /\ dpc = "closeEvent" /\ dpc' = "freed"
    /\ closed' = closed \cup (IF EventCreated THEN {"exit_event"} ELSE {})
    /\ UNCHANGED <<procQ, stopSent, io, struck, dropFrame>>

DropStep ==
    \/ DropNudge \/ DropReady \/ DropStop \/ DropCancel \/ DropWait
    \/ DropJoin \/ DropClose \/ DropJoinAlive \/ DropCloseEvent

-----------------------------------------------------------------------------
(* Threads that call read, is_eof and cancel_io through a shared reference. *)

userFrame == <<readerVars, watchVars, ownerVars, procQ, stopSent, flagVars, pipe, hostVars,
               produced>>

\* Variant for the mutants: someone keeps a sender, so the channel never disconnects.
TakeUnlessDisconnected(u) ==
    /\ out # <<>>
    /\ ret' = Head(out)
    /\ out' = Tail(out)
    /\ taken' = (IF Head(out) = "data" THEN taken + 1 ELSE taken)

(* What read returns: the message; Ok("") when the channel is disconnected. *)
Take(u) ==
    \/ /\ out # <<>>
       /\ ret' = Head(out)
       /\ out' = Tail(out)
       /\ taken' = (IF Head(out) = "data" THEN taken + 1 ELSE taken)
    \/ /\ out = <<>> /\ ReaderGone
       /\ ret' = "empty"
       /\ UNCHANGED <<out, taken>>

(* read(true) blocks in recv.                                               *)
ReadStart(u) ==
    /\ dpc = "live" /\ upc[u] = "idle"
    /\ upc' = [upc EXCEPT ![u] = "read"]
    /\ UNCHANGED <<uacc, ret, out, io, struck, cancels, taken, userFrame>>

ReadReturn(u) ==
    /\ upc[u] = "read"
    /\ Take(u)
    /\ upc' = [upc EXCEPT ![u] = "idle"]
    /\ UNCHANGED <<uacc, io, struck, cancels, userFrame>>

(* read(false): the same, and Ok("") when nothing is queued.                *)
TryRead(u) ==
    /\ dpc = "live" /\ upc[u] = "idle"
    /\ \/ Take(u)
       \/ /\ out = <<>> /\ ~ReaderGone
          /\ ret' = "empty"
          /\ UNCHANGED <<out, taken>>
    /\ UNCHANGED <<upc, uacc, io, struck, cancels, userFrame>>

\* Variant for the mutants: is_eof does not look at the pipe.
EofPeekIgnored(u) ==
    /\ dpc = "live" /\ upc[u] = "idle" /\ (Async \/ io # "pending")
    /\ uacc' = [uacc EXCEPT ![u] = FALSE]
    /\ upc' = [upc EXCEPT ![u] = "eofAlive"]
    /\ UNCHANGED <<ret, out, io, struck, cancels, taken, userFrame>>

(* is_eof: PeekNamedPipe.  On a synchronous handle it waits behind the      *)
(* reader's ReadFile.                                                       *)
EofPeek(u) ==
    /\ dpc = "live" /\ upc[u] = "idle" /\ (Async \/ io # "pending")
    /\ uacc' = [uacc EXCEPT ![u] = ~Broken]
    /\ upc' = [upc EXCEPT ![u] = "eofAlive"]
    /\ UNCHANGED <<ret, out, io, struck, cancels, taken, userFrame>>

(* is_eof: self.is_alive(), an error while there is no process.             *)
EofAlive(u) ==
    /\ upc[u] = "eofAlive"
    /\ IF process = NoProc
         THEN /\ upc' = [upc EXCEPT ![u] = "idle"]
              /\ ret' = "err"
              /\ uacc' = [uacc EXCEPT ![u] = FALSE]
         ELSE /\ uacc' = [uacc EXCEPT ![u] = @ \/ child[process] = "alive"]
              /\ upc' = [upc EXCEPT ![u] =
                            IF child[process] = "alive" THEN "eofAtomic" ELSE "eofQueue"]
              /\ ret' = ret
    /\ UNCHANGED <<out, io, struck, cancels, taken, userFrame>>

(* is_eof: reader_out_rx.is_empty().                                        *)
EofQueue(u) ==
    /\ upc[u] = "eofQueue"
    /\ uacc' = [uacc EXCEPT ![u] = @ \/ out # <<>>]
    /\ upc' = [upc EXCEPT ![u] = "eofAtomic"]
    /\ UNCHANGED <<ret, out, io, struck, cancels, taken, userFrame>>

(* is_eof: reader_atomic.load(), and the verdict.                           *)
EofAtomic(u) ==
    /\ upc[u] = "eofAtomic"
    /\ ret' = (IF uacc[u] \/ atomic THEN "false" ELSE "true")
    /\ uacc' = [uacc EXCEPT ![u] = FALSE]
    /\ upc' = [upc EXCEPT ![u] = "idle"]
    /\ UNCHANGED <<out, io, struck, cancels, taken, userFrame>>

(* cancel_io: an error when no read is pending.                             *)
CancelIo(u) ==
    /\ dpc = "live" /\ upc[u] = "idle" /\ cancels < MaxCancels
    /\ CancelIoEx
    /\ cancels' = cancels + 1
    /\ ret' = (IF io = "pending" THEN "ok" ELSE "err")
    /\ UNCHANGED <<upc, uacc, out, taken, userFrame>>

UserReturns(u) == ReadReturn(u) \/ EofAlive(u) \/ EofQueue(u) \/ EofAtomic(u)
UserCalls(u)   == ReadStart(u) \/ TryRead(u) \/ EofPeek(u) \/ CancelIo(u)

-----------------------------------------------------------------------------
(* External: child processes, the console host (conhost, winpty-agent) that *)
(* renders their output into the pipe, and the pipe itself.                 *)

hostFrame == <<readerVars, watchVars, ownerVars, userVars, chanVars, flagVars,
               farEnd, struck, cancels, taken>>

ChildWrite(p) ==
    /\ child[p] = "alive" /\ hostOpen /\ produced < MaxUnits
    /\ produced' = produced + 1 /\ hostBuf' = hostBuf + 1
    /\ UNCHANGED <<kernelVars, hostOpen, child, hostFrame>>

ChildExit(p) ==
    /\ child[p] = "alive"
    /\ child' = [child EXCEPT ![p] = "dead"]
    /\ UNCHANGED <<kernelVars, hostBuf, hostOpen, produced, hostFrame>>

(* A unit reaches the pipe; it completes a pending read.                    *)
HostFlush ==
    /\ hostOpen /\ hostBuf > 0
    /\ hostBuf' = hostBuf - 1
    /\ IF io = "pending" THEN io' = "data" /\ pipe' = pipe
                         ELSE io' = io /\ pipe' = pipe + 1
    /\ UNCHANGED <<hostOpen, child, produced, hostFrame>>

(* The host has flushed everything after its last client left, and closes   *)
(* its end.                                                                 *)
HostClose ==
    /\ hostOpen /\ hostBuf = 0
    /\ \E p \in Procs : child[p] = "dead"
    /\ \A p \in Procs : child[p] # "alive"
    /\ hostOpen' = FALSE
    /\ io' = (IF io = "pending" /\ ~farEnd THEN "broken" ELSE io)
    /\ UNCHANGED <<pipe, hostBuf, child, produced, hostFrame>>

(* WinPTY's drop calls winpty_free and then drops the PTYProcess: sometime  *)
(* in that drop the agent closes its end, whatever the children do and with *)
(* what it has not flushed.  No caller is left, so winpty_free itself is    *)
(* one step with DropBegin.  ConPTY has no such call.                       *)
AgentFreed ==
    /\ ~Async /\ dpc # "live" /\ hostOpen
    /\ hostOpen' = FALSE
    /\ io' = (IF io = "pending" /\ ~farEnd THEN "broken" ELSE io)
    /\ UNCHANGED <<pipe, hostBuf, child, produced, hostFrame>>

EnvStep == \/ HostFlush \/ HostClose \/ AgentFreed
           \/ \E p \in Procs : ChildWrite(p) \/ ChildExit(p)

-----------------------------------------------------------------------------
(* Owned and Called are up to whoever holds the struct; Internal happens    *)
(* whatever the holder does.                                                *)
Owned    == DropBegin \/ \E p \in Procs : SetProcess(p)
Called   == \E u \in Users : UserCalls(u)
Internal == \/ ReaderStep \/ WatcherStep \/ DropStep \/ EnvStep
            \/ \E u \in Users : UserReturns(u)
Next     == Owned \/ Called \/ Internal

Spec == Init /\ [][Next]_vars

(***************************************************************************)
(* Fairness.  Every thread of the program keeps running, a wait with a     *)
(* timeout elapses, a call that has begun goes on, and the host forwards   *)
(* what it has and leaves after its last client.  In asynchronous mode     *)
(* drop joins a thread that waits for the child; the only consumer, ConPTY,*)
(* closes the pseudoconsole first, which ends the children.  Nothing else  *)
(* makes a child write or exit, and nothing makes a caller call.           *)
(***************************************************************************)
DropEndsChildren == Async /\ dpc # "live" /\ \E p \in Procs : ChildExit(p)

Fairness ==
    /\ WF_vars(ReaderStep)
    /\ WF_vars(WatcherStep)
    /\ WF_vars(DropStep)
    /\ \A u \in Users : WF_vars(UserReturns(u))
    /\ WF_vars(HostFlush)
    /\ WF_vars(HostClose)
    /\ WF_vars(DropEndsChildren)

FairSpec == Spec /\ Fairness

-----------------------------------------------------------------------------
(* Every variable keeps its type; a synchronous reader is never in an       *)
(* asynchronous step and the reverse.                                       *)
TypeOK ==
    /\ rpc \in ReaderPCs \ (IF Async THEN {"poll", "peek", "alive"} ELSE {"forward"})
    /\ rproc \in Procs \cup {NoProc}
    /\ rres \in Items \cup {"none"} /\ sawEmpty \in BOOLEAN
    /\ wpc \in WatcherPCs /\ watchQ \in Procs \cup {NoProc}
    /\ dpc \in OwnerPCs /\ process \in Procs \cup {NoProc}
    /\ closed \subseteq Handles /\ panicked \in BOOLEAN
    /\ upc \in [Users -> UserPCs] /\ uacc \in [Users -> BOOLEAN]
    /\ ret \in Items \cup {"nil", "true", "false", "ok"}
    /\ procQ \in Seq(Procs \cup {NoProc}) /\ stopSent \in BOOLEAN /\ out \in Seq(Items)
    /\ ready \in BOOLEAN /\ atomic \in BOOLEAN /\ exitEvent \in BOOLEAN
    /\ io \in {"idle", "pending", "data", "broken", "cancelled"} /\ pipe \in Nat
    /\ hostBuf \in Nat /\ hostOpen \in BOOLEAN
    /\ child \in [Procs -> {"none", "alive", "dead"}] /\ farEnd \in BOOLEAN
    /\ struck \in BOOLEAN /\ cancels \in Nat /\ produced \in Nat /\ taken \in Nat

PastLoop == rpc \in {"atomic", "event", "exit", "done"}

(* Drop closes the output pipe only after the reader that reads from it has *)
(* ended, and the exit event only after both threads that use it have       *)
(* (base.rs, Drop: wait, join, close, join, close).                         *)
TeardownOrder ==
    /\ "conout" \in closed => rpc = "done"
    /\ "exit_event" \in closed => rpc = "done" /\ wpc = "done"

(* A reader that reports its end, by clearing reader_atomic (which is_eof   *)
(* trusts) or by the exit event (which drop and the watcher trust), adds    *)
(* nothing more to the channel.                                             *)
NothingAfterExit == [][~atomic \/ exitEvent => Len(out') <= Len(out)]_vars

(* What ends the loop is the last message: nobody reads output after the    *)
(* end of file (synchronous), or after an error or an empty read            *)
(* (asynchronous).                                                          *)
EndMarks == IF Async THEN Items \ {"data"} ELSE {"eof"}
EndMarkIsLast ==
    \A i \in 1..Len(out) : out[i] \in EndMarks => i = Len(out) /\ PastLoop

(* Until the owner drops the PTY, which ends the agent and with it the      *)
(* pipe, the synchronous reader calls end of file only for a child that is  *)
(* gone, however its peek and its liveness test interleave with the child.  *)
EofMeansChildGone ==
    dpc = "live" /\ "eof" \in {rres, ret} \cup {out[i] : i \in 1..Len(out)}
        => child[rproc] = "dead"

(* is_eof answers true only when the pipe and the host hold nothing more    *)
(* and the reader has reported its end: all output is in the channel.       *)
EofVerdictMeansPipeEmpty ==
    ret = "true" => pipe = 0 /\ hostBuf = 0 /\ ~hostOpen /\ ~atomic

(* An asynchronous reader that no CancelIoEx has hit ends only when the     *)
(* host is gone and everything it wrote was read.                           *)
UncancelledReaderDrains ==
    Async /\ PastLoop /\ rproc # NoProc /\ ~struck
        => ~hostOpen /\ hostBuf = 0 /\ pipe = 0

(* While nobody drops the struct or calls cancel_io, the reader serves its  *)
(* child to the end: the watcher's cancel never hits a reader whose child   *)
(* is running.                                                              *)
ReaderOutlivesChild ==
    dpc = "live" /\ cancels = 0 /\ PastLoop => child[rproc] = "dead"

(* The watcher tells the consumer to clean up (ClosePseudoConsole) only     *)
(* when the reader has reported its end.                                    *)
CleanupAfterReader ==
    wpc \in {"signal", "done"} /\ watchQ # NoProc => exitEvent /\ rpc \in {"exit", "done"}

(* Nobody waits for what no one will do any more.  No handle comes for the  *)
(* reader once drop has left its spin; a stop that drop sent is in the      *)
(* channel until the synchronous reader has left its loop; the event that   *)
(* the watcher waits for is set once drop repeats its cancel no longer; and *)
(* a reader that waits in the kernel has a read there.                      *)
NobodyWaitsInVain ==
    /\ dpc \notin {"live", "nudge"} => rpc # "recv"
    /\ ~Async /\ dpc \notin {"live", "nudge", "stop"} => stopSent \/ PastLoop
    /\ EventCreated /\ dpc \notin {"live", "nudge", "stop", "cancel", "wait"} => exitEvent
    /\ rpc = "wait" => io # "idle"

(* A unit is on its way to the channel while it is in the host, in the      *)
(* pipe, in a completed read or in the reader's hand.                       *)
InFlight == hostBuf + pipe + (IF io = "data" THEN 1 ELSE 0)
              + (IF rres = "data" THEN 1 ELSE 0)

(* Every unit a child wrote is in exactly one place: host, pipe, a          *)
(* completed read, the reader's hand, the channel, or a caller.             *)
DataQueued == Cardinality({i \in 1..Len(out) : out[i] = "data"})
NoUnitLost == produced = InFlight + DataQueued + taken

(* Drop always ends, wherever the reader, the watcher and the child are     *)
(* when it begins.                                                          *)
DropEnds == (dpc # "live") ~> (dpc = "freed")

(* Once its child has exited, the asynchronous reader ends: because the     *)
(* pipe breaks or, when something holds its far end, because the watcher    *)
(* cancels the read.                                                        *)
WatcherUnsticksReader ==
    (rproc # NoProc /\ child[rproc] = "dead") ~> exitEvent

(* A thread blocked in read(true) comes back once the child has exited,     *)
(* also when another thread takes the end-of-file message.                  *)
BlockedReadReturns ==
    \A u \in Users :
        (upc[u] = "read" /\ rproc # NoProc /\ child[rproc] = "dead") ~> (upc[u] = "idle")

-----------------------------------------------------------------------------
Stream == INSTANCE OutputStream WITH
    Marks    <- Items \ {"data"},
    Ends     <- EndMarks,
    written  <- produced,
    inFlight <- InFlight,
    queue    <- out,
    read     <- taken,
    over     <- PastLoop,
    mayEnd   <- (rproc # NoProc /\ child[rproc] = "dead") \/ dpc # "live"

(* Both modes implement the promise of OutputStream: threads, cancels and   *)
(* drop included, all that a caller can see of the output is units put in   *)
(* turn, marks, one end, and nothing after it.                              *)
ImplementsStream == Stream!Spec

-----------------------------------------------------------------------------
(* What the library's documentation and messages say, and the code does not *)
(* keep.                                                                    *)

(* base.rs:668, "Standard out reached EOF": when that message is queued,    *)
(* nothing is left to read in the pipe.                                     *)
EofMeansDrained == (\E i \in 1..Len(out) : out[i] = "eof") => pipe = 0

(* base.rs:794-797, is_eof is true "if the process reached EOL": then no    *)
(* output is left that read would still return.                             *)
EofVerdictMeansAllRead ==
    ret = "true" => \A i \in 1..Len(out) : out[i] # "data"

(* base.rs:657-659, read returns Err "if EOF is reached": a blocking read   *)
(* that finds the output ended returns an error.                            *)
ReadAfterEndIsError ==
    [][\A u \in Users :
        upc[u] = "read" /\ upc'[u] = "idle" /\ out = <<>> => ret' \in {"err", "eof"}]_vars

(* base.rs:104, spawn returns true "if the call was successful, else an     *)
(* error": handing over a child does not panic.                             *)
SpawnReturns == ~panicked
=============================================================================
