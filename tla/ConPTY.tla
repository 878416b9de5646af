-------------------------------- MODULE ConPTY --------------------------------
(***************************************************************************)
(* The ConPTY backend, src/pty/conpty/pty_impl.rs: the struct that embeds  *)
(* a PTYProcess, the pseudoconsole handle (HPCON) shared through a mutex,  *)
(* and the cleanup thread that closes the pseudoconsole when the watcher   *)
(* of the embedded PTYProcess says that the child and the reader are gone. *)
(* The struct's own drop closes it too; the flag beside the handle says    *)
(* who came first.                                                         *)
(*                                                                         *)
(* Every critical section of the mutex is one action.  The mutex is        *)
(* poisoned when spawn panics inside it.                                   *)
(***************************************************************************)
EXTENDS PTYProcess

CONSTANT ConsoleAllocated     \* AllocConsole succeeded in ConPTY::new

ASSUME ConPTYAssumption ==
    /\ Async
    /\ FarEnds = {TRUE}       \* ConPTY::new keeps its client handles
    /\ ConsoleAllocated \in BOOLEAN

VARIABLES
    cdpc,        \* ConPTY::drop: where the owner is
    tpc,         \* cleanup_thread: where it is
    flag,        \* the boolean beside the HPCON: true while nobody closed it
    poisoned,    \* the mutex is poisoned
    infoSent,    \* release_info_tx: spawn has sent its record
    cleanupQ,    \* cleanup_tx: true from the watcher, false from drop
    closes,      \* calls of ClosePseudoConsole
    frees        \* calls of FreeConsole

conVars == <<cdpc, tpc, flag, poisoned, infoSent, cleanupQ, closes, frees>>
allVars == <<vars, conVars>>

DropPCs    == {"live", "send", "handles", "lock", "fields", "freed"}
CleanupPCs == {"info", "clean", "close", "done"}

ConInit ==
    /\ Init
    /\ cdpc = "live" /\ tpc = "info"
    /\ flag = TRUE /\ poisoned = FALSE
    /\ infoSent = FALSE /\ cleanupQ = <<>>
    /\ closes = 0 /\ frees = 0

ConsoleFrees == IF ConsoleAllocated THEN 1 ELSE 0

-----------------------------------------------------------------------------
(* The owner and the callers.                                               *)

(* spawn: under the mutex, a process is created on the pseudoconsole and    *)
(* handed to the PTYProcess, then its record goes to the cleanup thread.    *)
(* set_process panics when the reader is gone, the send of the record when  *)
(* the cleanup thread is; either poisons the mutex.  The flag is not looked *)
(* at: after the clean-up a closed HPCON is handed to CreateProcess, which  *)
(* fails once the host is gone, and until then may succeed; such a spawn    *)
(* panics.  A CreateProcess that fails changes nothing.                     *)
Spawn(p) ==
    /\ cdpc = "live" /\ ~poisoned
    /\ SetProcess(p)
    /\ poisoned' = (panicked' \/ tpc = "done")
    /\ infoSent' = (infoSent \/ ~poisoned')
    /\ UNCHANGED <<cdpc, tpc, flag, cleanupQ, closes, frees>>

Call == cdpc = "live" /\ Called /\ UNCHANGED conVars

(* set_size: under the mutex, and whatever the flag says: after the cleanup *)
(* thread it resizes a pseudoconsole that is closed, with any outcome.      *)
(* Sizes that are not positive are refused before; a poisoned mutex panics  *)
(* in the caller and changes nothing.                                       *)
SetSize(u) ==
    /\ cdpc = "live" /\ upc[u] = "idle" /\ ~poisoned
    /\ \E positive \in BOOLEAN :
          ret' \in (IF ~positive THEN {"err"}
                    ELSE IF flag /\ hostOpen THEN {"ok"} ELSE {"ok", "err"})
    /\ UNCHANGED <<readerVars, watchVars, ownerVars, upc, uacc, chanVars, flagVars, kernelVars,
                   hostVars, histVars, conVars>>

(* A step A of the embedded PTYProcess: its watcher's last step queues a    *)
(* true, unless the cleanup thread has ended.                               *)
Inside(A) ==
    /\ A
    /\ cleanupQ' = (IF wpc = "signal" /\ wpc' = "done" /\ tpc # "done"
                      THEN Append(cleanupQ, TRUE) ELSE cleanupQ)
    /\ UNCHANGED <<cdpc, tpc, flag, poisoned, infoSent, closes, frees>>

ProcessStep == Inside(Internal)

-----------------------------------------------------------------------------
(* cleanup_thread.                                                          *)

\* Variant for the mutants: the thread acts only once the struct is gone.
CleanupInfoWaitsForDrop ==
    /\ tpc = "info" /\ cdpc = "freed"
    /\ tpc' = (IF infoSent THEN "clean" ELSE "done")
    /\ UNCHANGED <<vars, cdpc, flag, poisoned, infoSent, cleanupQ, closes, frees>>

\* Variant for the mutants: a sender that outlives the struct keeps the channel open.
CleanupInfoNeverDisconnected ==
    /\ tpc = "info" /\ infoSent /\ tpc' = "clean"
    /\ UNCHANGED <<vars, cdpc, flag, poisoned, infoSent, cleanupQ, closes, frees>>

CleanupInfo ==
    /\ tpc = "info"
    /\ \/ infoSent /\ tpc' = "clean"
       \/ ~infoSent /\ cdpc = "freed" /\ tpc' = "done"
    /\ UNCHANGED <<vars, cdpc, flag, poisoned, infoSent, cleanupQ, closes, frees>>

CleanupRecv ==
    /\ tpc = "clean" /\ cleanupQ # <<>>
    /\ cleanupQ' = Tail(cleanupQ)
    /\ tpc' = (IF Head(cleanupQ) THEN "close" ELSE "done")
    /\ UNCHANGED <<vars, cdpc, flag, poisoned, infoSent, closes, frees>>

\* Variant for the mutants: the flag is not consulted.
CleanupCloseAlways ==
    /\ tpc = "close" /\ tpc' = "done"
    /\ closes' = closes + 1 /\ frees' = frees + ConsoleFrees /\ flag' = FALSE
    /\ UNCHANGED <<vars, cdpc, poisoned, infoSent, cleanupQ>>

\* Variant for the mutants: the flag is cleared, the pseudoconsole is not closed.
CleanupCloseForgets ==
    /\ tpc = "close" /\ tpc' = "done"
    /\ flag' = FALSE
    /\ UNCHANGED <<vars, cdpc, poisoned, infoSent, cleanupQ, closes, frees>>

(* lock, cleanup(), clear the flag; a poisoned mutex ends the thread.       *)
CleanupClose ==
    /\ tpc = "close" /\ tpc' = "done"
    /\ IF flag /\ ~poisoned
         THEN closes' = closes + 1 /\ frees' = frees + ConsoleFrees /\ flag' = FALSE
         ELSE UNCHANGED <<closes, frees, flag>>
    /\ UNCHANGED <<vars, cdpc, poisoned, infoSent, cleanupQ>>

CleanupStep == CleanupInfo \/ CleanupRecv \/ CleanupClose

-----------------------------------------------------------------------------
(* ConPTY::drop, then the drop of its fields.                               *)

\* Variant for the mutants: drop closes the process handle before anything else.
ConDropBeginClosesHandle ==
    /\ cdpc = "live" /\ Exclusive
    /\ cdpc' = "send"
    /\ closed' = closed \cup {"process"}
    /\ UNCHANGED <<readerVars, watchVars, dpc, process, panicked, userVars, chanVars, flagVars,
                   kernelVars, hostVars, histVars>>
    /\ UNCHANGED <<tpc, flag, poisoned, infoSent, cleanupQ, closes, frees>>

ConDropBegin ==
    /\ cdpc = "live" /\ Exclusive
    /\ cdpc' = "send"
    /\ UNCHANGED <<vars, tpc, flag, poisoned, infoSent, cleanupQ, closes, frees>>

\* Variant for the mutants: nobody tells the cleanup thread that it is not needed.
ConDropSendNothing ==
    /\ cdpc = "send" /\ cdpc' = "handles"
    /\ UNCHANGED <<vars, tpc, flag, poisoned, infoSent, cleanupQ, closes, frees>>

ConDropSend ==
    /\ cdpc = "send" /\ cdpc' = "handles"
    /\ cleanupQ' = (IF tpc # "done" THEN Append(cleanupQ, FALSE) ELSE cleanupQ)
    /\ UNCHANGED <<vars, tpc, flag, poisoned, infoSent, closes, frees>>

(* hThread and hProcess are closed; DeleteProcThreadAttributeList is left   *)
(* out.                                                                     *)
ConDropHandles ==
    /\ cdpc = "handles" /\ cdpc' = "lock"
    /\ closed' = (IF process = NoProc THEN closed ELSE closed \cup {"process"})
    /\ UNCHANGED <<readerVars, watchVars, dpc, process, panicked, userVars, chanVars, flagVars,
                   kernelVars, hostVars, histVars>>
    /\ UNCHANGED <<tpc, flag, poisoned, infoSent, cleanupQ, closes, frees>>

\* Variant for the mutants: drop leaves the pseudoconsole to the cleanup thread.
ConDropCloseLeavesConsole ==
    /\ cdpc = "lock" /\ cdpc' = "fields"
    /\ frees' = frees + ConsoleFrees
    /\ UNCHANGED <<vars, tpc, flag, closes, poisoned, infoSent, cleanupQ>>

(* Close the pseudoconsole unless the flag says it is done, and free the    *)
(* console whatever the flag says.  A poisoned mutex panics out of drop;    *)
(* the fields are dropped all the same.                                     *)
ConDropClose ==
    /\ cdpc = "lock" /\ cdpc' = "fields"
    /\ IF poisoned
         THEN UNCHANGED <<flag, closes, frees>>
         ELSE /\ flag' = FALSE
              /\ closes' = (IF flag THEN closes + 1 ELSE closes)
              /\ frees' = frees + ConsoleFrees
    /\ UNCHANGED <<vars, tpc, poisoned, infoSent, cleanupQ>>

(* The field process is dropped first, ...                                  *)
ConDropFields ==
    /\ cdpc = "fields" /\ DropBegin /\ UNCHANGED conVars

(* ... then the channels' sending ends; the cleanup thread is detached.     *)
ConDropEnd ==
    /\ cdpc = "fields" /\ dpc = "freed"
    /\ cdpc' = "freed"
    /\ UNCHANGED <<vars, tpc, flag, poisoned, infoSent, cleanupQ, closes, frees>>

ConDropStep ==
    ConDropSend \/ ConDropHandles \/ ConDropClose \/ ConDropFields \/ ConDropEnd

-----------------------------------------------------------------------------
ConNext ==
    \/ \E p \in Procs : Spawn(p)
    \/ (\E u \in Users : SetSize(u))
    \/ Call \/ ProcessStep \/ CleanupStep \/ ConDropBegin \/ ConDropStep

ConSpec == ConInit /\ [][ConNext]_allVars

(* As for PTYProcess, plus the two threads of this module.  Closing the     *)
(* pseudoconsole ends the children; nothing else makes a child exit.        *)
ClosedConsoleEndsChildren ==
    closes > 0 /\ (\E p \in Procs : ChildExit(p)) /\ UNCHANGED conVars

ConFairness ==
    /\ WF_allVars(Inside(ReaderStep))
    /\ WF_allVars(Inside(WatcherStep))
    /\ WF_allVars(Inside(DropStep))
    /\ \A u \in Users : WF_allVars(Inside(UserReturns(u)))
    /\ WF_allVars(CleanupStep)
    /\ WF_allVars(ConDropStep)
    /\ WF_allVars(ClosedConsoleEndsChildren)

ConFairSpec == ConSpec /\ ConFairness

-----------------------------------------------------------------------------
ConTypeOK ==
    /\ TypeOK
    /\ cdpc \in DropPCs /\ tpc \in CleanupPCs
    /\ flag \in BOOLEAN /\ poisoned \in BOOLEAN
    /\ infoSent \in BOOLEAN /\ cleanupQ \in Seq(BOOLEAN)
    /\ closes \in Nat /\ frees \in Nat

(* The cleanup thread and drop both want to close the pseudoconsole: its    *)
(* handle is closed at most once, whoever comes first.                      *)
ClosedOnce == closes <= 1

(* The cleanup thread decides to close the pseudoconsole only after the     *)
(* child it serves has exited and its reader has ended; a watcher that      *)
(* takes a closed handle for an exited child does not mislead it, because   *)
(* drop has spoken first.                                                   *)
CleanupOnlyAfterExit ==
    tpc = "close" => child[rproc] = "dead" /\ exitEvent

(* Before drop waits for the threads of the PTYProcess, of which the        *)
(* watcher waits for the child, it has seen to the pseudoconsole, whose end *)
(* ends the child; and a struct that is gone leaves none, unless a panic in *)
(* spawn poisoned the mutex.                                                *)
NoConsoleLeak == dpc # "live" \/ cdpc = "freed" => closes = 1 \/ poisoned

(* As long as the struct lives and the child it serves runs, the            *)
(* pseudoconsole is open: a set_size that comes before the child's exit,    *)
(* which does not look at the flag, resizes a live one.                     *)
ConsoleOpenWhileServed ==
    cdpc = "live" /\ rproc # NoProc /\ child[rproc] = "alive" => flag /\ closes = 0

(* The reader serves its child to the end, as in a PTYProcess of its own,   *)
(* until drop has closed the handle the watcher waits on: a watcher that    *)
(* takes the closed handle for an exited child cancels the reader of one    *)
(* that runs, and only a struct that is being dropped may see that.         *)
ConReaderOutlivesChild ==
    cdpc \in {"live", "send"} /\ cancels = 0 /\ PastLoop => child[rproc] = "dead"

(* Drop ends, wherever the child, the reader, the watcher and the cleanup   *)
(* thread are when it begins.                                               *)
ConDropEnds == (cdpc = "send" /\ ~poisoned) ~> (cdpc = "freed")

(* The cleanup thread, which nobody joins, does not outlive the struct for  *)
(* ever.                                                                    *)
CleanupThreadEnds == (cdpc = "freed") ~> (tpc = "done")

(* The pseudoconsole of a child that has exited is closed without waiting   *)
(* for a drop.                                                              *)
ClosedAfterExit ==
    (rproc # NoProc /\ child[rproc] = "dead") ~> (closes > 0 \/ poisoned)

-----------------------------------------------------------------------------
(* base.rs:144-148, is_eof is true "if the process reached EOL": a call     *)
(* that begins when the child, its host and the reader are gone and all     *)
(* output was read does not see an open pipe.                               *)
OutputOver ==
    /\ process # NoProc /\ child[process] = "dead" /\ ~hostOpen
    /\ ReaderGone /\ out = <<>> /\ pipe = 0
EofCallSeesTheEnd ==
    [][\A u \in Users :
        OutputOver /\ upc[u] = "idle" /\ upc'[u] = "eofAlive" => ~uacc'[u]]_allVars
=============================================================================
