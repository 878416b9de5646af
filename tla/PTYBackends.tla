----------------------------- MODULE PTYBackends -----------------------------
(***************************************************************************)
(* How PTYs come and go in one program: PTY::new and new_with_backend      *)
(* (src/pty.rs), the constructors and drops of the two backends            *)
(* (conpty/pty_impl.rs, winpty/pty_impl.rs), and the one thing that the    *)
(* PTYs of a program share: the console of its process, which ConPTY::new  *)
(* allocates when there is none and which the drop and the cleanup thread  *)
(* free.                                                                   *)
(*                                                                         *)
(* Each constructor is the table of its calls; any of them may fail.  What *)
(* happens between construction and drop is in PTYProcess and ConPTY; here *)
(* only a spawn that panics with the pseudoconsole's mutex locked shows,   *)
(* since it decides what the drop releases.  The program may allocate a    *)
(* console for itself at any time; that it frees one is not modelled.  The *)
(* standard handles are not kept: nothing in the library reads them back.  *)
(***************************************************************************)
EXTENDS Naturals, Sequences

CONSTANTS Ptys,      \* PTYs the program creates, each at most once, on threads of their own
          Requests,  \* what new_with_backend is asked for; "Auto" is PTY::new
          Features   \* backends compiled in; the others are placeholders (default_impl.rs)

ASSUME BackendsAssumption ==
    /\ Requests \subseteq {"Auto", "ConPTY", "WinPTY", "NoBackend"}
    /\ Features \subseteq {"ConPTY", "WinPTY"}
    /\ Ptys \cap {"own", "none"} = {}

VARIABLES stage,      \* where each PTY is in its life
          step,       \* the next call of the constructor it is in
          asked,      \* the backend asked for
          goodSize,   \* cols and rows are positive
          backend,    \* PTY.backend
          allocated,  \* console_allocated, a local of ConPTY::new and then a field
          poisoned,   \* the mutex of the PTY's pseudoconsole
          frees,      \* calls of FreeConsole made for each PTY
          held,       \* resources the PTY's code has opened and not closed
          console     \* the process's console: "none", the program's "own", or the PTY that
                \* allocated it

lockVars == <<poisoned, frees>>
vars == <<stage, step, asked, goodSize, backend, allocated, lockVars, held, console>>

Stages == {"idle", "con", "win", "live", "dropped", "failed", "panicked"}

(* The calls of ConPTY::new after AllocConsole and ShowWindow, in order.    *)
ConSteps == <<"conout", "conin", "getMode", "setMode", "stdOut", "stdErr", "stdIn",
              "dir", "server", "client", "input", "output", "hpcon">>
NeedsConsole == {"conout", "conin", "getMode", "setMode"}
ConHandles == {"conout", "conin", "dir", "server", "client", "input", "output", "hpcon"}

(* The calls of WinPTY::new after winpty_config_new and the size check.     *)
WinSteps == <<"agent", "agentIn", "agentOut">>
WinHandles == {"config", "agent", "agentIn", "agentOut"}

Init ==
    /\ stage = [p \in Ptys |-> "idle"]
    /\ step = [p \in Ptys |-> 0]
    /\ asked = [p \in Ptys |-> "none"]
    /\ goodSize = [p \in Ptys |-> FALSE]
    /\ backend = [p \in Ptys |-> "none"]
    /\ allocated = [p \in Ptys |-> FALSE]
    /\ poisoned = [p \in Ptys |-> FALSE]
    /\ frees = [p \in Ptys |-> 0]
    /\ held = [p \in Ptys |-> {}]
    /\ console \in {"none", "own"}

Goes(p, to, n) == stage' = [stage EXCEPT ![p] = to] /\ step' = [step EXCEPT ![p] = n]
Opens(p, S) == held' = [held EXCEPT ![p] = @ \cup S]
Closes(p, S) == held' = [held EXCEPT ![p] = @ \ S]

-----------------------------------------------------------------------------
(* PTY::new and new_with_backend: "Auto" tries ConPTY first.                *)
FirstTry == [Auto |-> "con", ConPTY |-> "con", WinPTY |-> "win", NoBackend |-> "failed"]

New(p) ==
    /\ stage[p] = "idle"
    /\ \E r \in Requests, good \in BOOLEAN :
          /\ asked' = [asked EXCEPT ![p] = r]
          /\ goodSize' = [goodSize EXCEPT ![p] = good]
          /\ Goes(p, FirstTry[r], 0)
    /\ UNCHANGED <<backend, allocated, lockVars, held, console>>

\* Variant for the mutants: a ConPTY that was asked for by name falls back too.
ConFailsFallsBack(p) ==
    /\ Goes(p, "win", 0)
    /\ allocated' = [allocated EXCEPT ![p] = FALSE]
    /\ Closes(p, {"dir"})
    /\ UNCHANGED <<asked, goodSize, backend, lockVars, console>>

(* ConPTY::new returns Err; PTY::new goes on with WinPTY.  Only dir is an   *)
(* Owned handle: nothing else is released, the console included, and        *)
(* console_allocated is forgotten with the function's locals.               *)
ConFails(p) ==
    /\ Goes(p, IF asked[p] = "Auto" THEN "win" ELSE "failed", 0)
    /\ allocated' = [allocated EXCEPT ![p] = FALSE]
    /\ Closes(p, {"dir"})
    /\ UNCHANGED <<asked, goodSize, backend, lockVars, console>>

(* The size check, or the placeholder's only answer.                        *)
ConRefuses(p) ==
    /\ stage[p] = "con" /\ step[p] = 0
    /\ "ConPTY" \notin Features \/ ~goodSize[p]
    /\ ConFails(p)

ConTries(p) ==
    stage[p] = "con" /\ step[p] = 0 /\ "ConPTY" \in Features /\ goodSize[p]

\* Variant for the mutants: the result of AllocConsole is not looked at.
ConAllocConsoleAssumed(p) ==
    /\ ConTries(p)
    /\ allocated' = [allocated EXCEPT ![p] = TRUE]
    /\ console' = (IF console = "none" THEN p ELSE console)
    /\ Goes(p, "con", 1)
    /\ UNCHANGED <<asked, goodSize, backend, lockVars, held>>

(* AllocConsole fails when the process has a console, and may fail when it  *)
(* has none; the code goes on.                                              *)
ConAllocConsole(p) ==
    /\ ConTries(p)
    /\ \/ /\ console = "none" /\ console' = p
          /\ allocated' = [allocated EXCEPT ![p] = TRUE]
          /\ Goes(p, "con", 1)
       \/ /\ Goes(p, "con", 2)
          /\ UNCHANGED <<allocated, console>>
    /\ UNCHANGED <<asked, goodSize, backend, lockVars, held>>

(* ShowWindow's FALSE (no window, or one that was hidden) is unwrapped.     *)
ConShowWindow(p) ==
    /\ stage[p] = "con" /\ step[p] = 1
    /\ \/ console # "none" /\ Goes(p, "con", 2)
       \/ Goes(p, "panicked", 0)
    /\ UNCHANGED <<asked, goodSize, backend, allocated, lockVars, held, console>>

(* The call at a step, counted from 2.                                      *)
ConCall(p) == ConSteps[step[p] - 1]

ConStep(p) ==
    /\ stage[p] = "con" /\ step[p] >= 2 /\ ConCall(p) # "hpcon"
    /\ ConCall(p) \in NeedsConsole => console # "none"
    /\ Opens(p, {ConCall(p)} \cap ConHandles)
    /\ Goes(p, "con", step[p] + 1)
    /\ UNCHANGED <<asked, goodSize, backend, allocated, lockVars, console>>

(* CreatePseudoConsole, the threads of PTYProcess, and the end of the       *)
(* constructor, where dir is dropped.                                       *)
ConBuilt(p) ==
    /\ stage[p] = "con" /\ step[p] >= 2 /\ ConCall(p) = "hpcon"
    /\ held' = [held EXCEPT ![p] = (@ \cup {"hpcon"}) \ {"dir"}]
    /\ Goes(p, "live", 0)
    /\ backend' = [backend EXCEPT ![p] = "ConPTY"]
    /\ UNCHANGED <<asked, goodSize, allocated, lockVars, console>>

ConStepFails(p) == stage[p] = "con" /\ step[p] >= 2 /\ ConFails(p)

-----------------------------------------------------------------------------
(* WinPTY::new.                                                             *)

winFrame == <<asked, goodSize, allocated, lockVars, console>>

(* The placeholder, or winpty_config_new answers an error.                  *)
WinRefuses(p) ==
    /\ stage[p] = "win" /\ step[p] = 0
    /\ Goes(p, "failed", 0)
    /\ UNCHANGED <<backend, held, winFrame>>

WinConfig(p) ==
    /\ stage[p] = "win" /\ step[p] = 0 /\ "WinPTY" \in Features
    /\ Opens(p, {"config"})
    /\ Goes(p, "win", 1)
    /\ UNCHANGED <<backend, winFrame>>

(* The size is checked with the configuration made: it is not freed.        *)
WinBadSize(p) ==
    /\ stage[p] = "win" /\ step[p] = 1 /\ ~goodSize[p]
    /\ Goes(p, "failed", 0)
    /\ UNCHANGED <<backend, held, winFrame>>

WinCall(p) == WinSteps[step[p]]

(* winpty_open takes the configuration, which is freed whatever it answers. *)
WinStep(p) ==
    /\ stage[p] = "win" /\ step[p] >= 1 /\ goodSize[p]
    /\ held' = [held EXCEPT ![p] = (@ \cup {WinCall(p)}) \ {"config"}]
    /\ IF WinCall(p) = "agentOut"
         THEN Goes(p, "live", 0) /\ backend' = [backend EXCEPT ![p] = "WinPTY"]
         ELSE Goes(p, "win", step[p] + 1) /\ UNCHANGED backend
    /\ UNCHANGED winFrame

\* Variant for the mutants: the agent has no owner until the pipes are open.
WinStepFailsKeepsAgent(p) ==
    /\ stage[p] = "win" /\ step[p] >= 1 /\ goodSize[p]
    /\ Goes(p, "failed", 0)
    /\ Closes(p, {"config"})
    /\ UNCHANGED <<backend, winFrame>>

(* A failure drops WinPTYPtr, which ends the agent; conin stays open.       *)
WinStepFails(p) ==
    /\ stage[p] = "win" /\ step[p] >= 1 /\ goodSize[p]
    /\ Goes(p, "failed", 0)
    /\ Closes(p, {"config", "agent"})
    /\ UNCHANGED <<backend, winFrame>>

-----------------------------------------------------------------------------
(* The program calls AllocConsole, which it may do whenever there is none.  *)
ProgramAllocsConsole ==
    /\ console = "none" /\ console' = "own"
    /\ UNCHANGED <<stage, step, asked, goodSize, backend, allocated, lockVars, held>>

(* FreeConsole detaches the process from whatever console it has.           *)
FreeConsole(p) ==
    IF allocated[p] THEN console' = "none" /\ frees' = [frees EXCEPT ![p] = @ + 1]
                    ELSE UNCHANGED <<console, frees>>

(* A spawn panics between the lock and its end (ConPTY's Spawn says when);  *)
(* the PTY object outlives it.                                              *)
SpawnPanics(p) ==
    /\ stage[p] = "live" /\ backend[p] = "ConPTY" /\ ~poisoned[p]
    /\ poisoned' = [poisoned EXCEPT ![p] = TRUE]
    /\ UNCHANGED <<stage, step, asked, goodSize, backend, allocated, frees, held, console>>

(* The cleanup thread, once the child has exited: at most once, since it    *)
(* shares its flag ("hpcon" is open) with drop, and not at all when the     *)
(* lock is poisoned, which ends the thread.                                 *)
Cleanup(p) ==
    /\ stage[p] = "live" /\ backend[p] = "ConPTY"
    /\ ~poisoned[p] /\ "hpcon" \in held[p]
    /\ Closes(p, {"hpcon"})
    /\ FreeConsole(p)
    /\ UNCHANGED <<stage, step, asked, goodSize, backend, allocated, poisoned>>

\* Variant for the mutants: the console is left to the cleanup thread.
ConDropLeavesConsole(p) ==
    /\ stage[p] = "live" /\ backend[p] = "ConPTY"
    /\ Closes(p, IF poisoned[p] THEN {"server"} ELSE {"hpcon", "server"})
    /\ Goes(p, "dropped", 0)
    /\ UNCHANGED <<asked, goodSize, backend, allocated, lockVars, console>>

(* Drop of ConPTY and of its PTYProcess.  A poisoned lock panics out of it  *)
(* before the pseudoconsole and the console; the fields are dropped all the *)
(* same.                                                                    *)
ConDrop(p) ==
    /\ stage[p] = "live" /\ backend[p] = "ConPTY"
    /\ IF poisoned[p] THEN Closes(p, {"server"}) /\ UNCHANGED <<console, frees>>
                      ELSE Closes(p, {"hpcon", "server"}) /\ FreeConsole(p)
    /\ Goes(p, "dropped", 0)
    /\ UNCHANGED <<asked, goodSize, backend, allocated, poisoned>>

(* Drop of WinPTY: winpty_free, then the PTYProcess's two pipes.            *)
WinDrop(p) ==
    /\ stage[p] = "live" /\ backend[p] = "WinPTY"
    /\ Closes(p, {"agent", "agentIn", "agentOut"})
    /\ Goes(p, "dropped", 0)
    /\ UNCHANGED <<backend, winFrame>>

Next ==
    \/ ProgramAllocsConsole
    \/ \E p \in Ptys :
        \/ New(p)
        \/ ConRefuses(p) \/ ConAllocConsole(p) \/ ConShowWindow(p)
        \/ ConStep(p) \/ ConBuilt(p) \/ ConStepFails(p)
        \/ WinRefuses(p) \/ WinConfig(p) \/ WinBadSize(p) \/ WinStep(p) \/ WinStepFails(p)
        \/ SpawnPanics(p) \/ Cleanup(p) \/ ConDrop(p) \/ WinDrop(p)

Spec == Init /\ [][Next]_vars

-----------------------------------------------------------------------------
(* Every variable keeps its type, a step is one of the table's, and a PTY   *)
(* is of a backend that is compiled in and, when one was asked for by name, *)
(* of that one.                                                             *)
BackTypeOK ==
    /\ stage \in [Ptys -> Stages]
    /\ step \in [Ptys -> 0..14]
    /\ \A p \in Ptys : stage[p] # "con" => step[p] <= 3
    /\ asked \in [Ptys -> Requests \cup {"none"}]
    /\ goodSize \in [Ptys -> BOOLEAN]
    /\ backend \in [Ptys -> Features \cup {"none"}]
    /\ \A p \in Ptys : backend[p] # "none" => asked[p] \in {"Auto", backend[p]}
    /\ allocated \in [Ptys -> BOOLEAN]
    /\ poisoned \in [Ptys -> BOOLEAN] /\ frees \in [Ptys -> Nat]
    /\ held \in [Ptys -> SUBSET (ConHandles \cup WinHandles)]
    /\ console \in Ptys \cup {"none", "own"}

(* As long as no PTY has called FreeConsole twice (its cleanup thread and   *)
(* then its drop, which does not know), a console goes only by the PTY that *)
(* allocated it: neither the program's own console nor that of another PTY  *)
(* is taken away, whatever is created, fails, panics and is dropped.        *)
ConsoleGoesWithItsOwner ==
    [][\A c \in Ptys \cup {"own"} : console = c /\ console' # c =>
          \/ c \in Ptys /\ frees'[c] = frees[c] + 1
          \/ \E q \in Ptys : frees'[q] > 1]_vars

(* A console that the library allocated has someone who will free it, a PTY *)
(* still in its constructor or alive that remembers having allocated it;    *)
(* the exceptions are a ConPTY::new that failed or panicked, and a drop     *)
(* that panicked on the poisoned lock.                                      *)
ConsoleHasOwner ==
    \A p \in Ptys : console = p =>
        \/ allocated[p] /\ stage[p] \in {"con", "live"}
        \/ stage[p] \in {"win", "failed", "panicked"} \/ backend[p] = "WinPTY"
        \/ poisoned[p]

(* When a PTY is over (dropped, or never built) its pseudoconsole is        *)
(* closed, its agent has been ended, and the device directory is closed,    *)
(* whichever call of whichever constructor failed; a drop that panicked on  *)
(* the poisoned lock may leave the pseudoconsole, and nothing more.         *)
PseudoconsoleAndAgentReleased ==
    \A p \in Ptys : stage[p] \in {"dropped", "failed", "panicked"} =>
        held[p] \cap {"hpcon", "agent", "dir", "agentOut"}
            \subseteq (IF poisoned[p] THEN {"hpcon"} ELSE {})

(* conpty/pty_impl.rs:92, "Create a console window in case ConPTY is        *)
(* running in a GUI application": a live ConPTY that allocated the console  *)
(* and has not given it up still has it.                                    *)
ConsoleStaysForItsUser ==
    \A p \in Ptys :
        stage[p] = "live" /\ allocated[p] /\ "hpcon" \in held[p] => console = p
=============================================================================
