-------------------------- MODULE PTYBackends_proofs --------------------------
(***************************************************************************)
(* Proofs about PTYBackends for every set of PTYs, every set of requests   *)
(* and every choice of compiled backends.                                  *)
(***************************************************************************)
EXTENDS PTYBackends, TLAPS

USE DEF vars, lockVars, winFrame, Goes, Opens, Closes

(* The last calls of the two tables, by their places.                       *)
LEMMA LastCalls ==
    /\ ConSteps[13] = "hpcon" /\ WinSteps[3] = "agentOut"
    /\ \A i \in 1..3 : WinSteps[i] \in WinHandles
  BY DEF ConSteps, WinSteps, WinHandles

(* A PTY has a backend once it is built, one that is compiled in and that   *)
(* was asked for.  Nothing remembers an allocation that it could not free:  *)
(* what ConPTY::new allocated before it failed is forgotten; and nothing    *)
(* frees a console before there is a PTY.                                   *)
LifeInv ==
    \A p \in Ptys :
        /\ stage[p] \in {"live", "dropped"} <=> backend[p] # "none"
        /\ stage[p] = "con" => asked[p] \in {"Auto", "ConPTY"}
        /\ stage[p] = "win" => asked[p] \in {"Auto", "WinPTY"}
        /\ stage[p] = "con" /\ step[p] > 0 => "ConPTY" \in Features
        /\ stage[p] = "win" /\ step[p] > 0 => "WinPTY" \in Features
        /\ allocated[p] => stage[p] \in {"con", "panicked"} \/ backend[p] = "ConPTY"
        /\ stage[p] \in {"idle", "con"} => frees[p] = 0
        /\ stage[p] = "idle" => ~allocated[p]
        /\ stage[p] = "con" /\ step[p] = 0 => ~allocated[p]

(* A constructor stays within its table.                                    *)
LEMMA TypeStep == BackTypeOK /\ LifeInv /\ [Next]_vars => BackTypeOK'
  <1> SUFFICES ASSUME BackTypeOK, LifeInv, [Next]_vars PROVE BackTypeOK'
    OBVIOUS
  <1> USE BackendsAssumption DEF BackTypeOK, LifeInv, Stages
  <1>1. ASSUME NEW p \in Ptys, New(p) PROVE BackTypeOK'
    BY <1>1, BackendsAssumption DEF New, FirstTry
  <1>2. ASSUME NEW p \in Ptys, ConFails(p) PROVE BackTypeOK'
    BY <1>2 DEF ConFails
  <1>3. ASSUME NEW p \in Ptys, ConAllocConsole(p) PROVE BackTypeOK'
    <2>1. allocated' \in [Ptys -> BOOLEAN]
      BY <1>3 DEF ConAllocConsole
    <2>2. stage' \in [Ptys -> Stages] /\ step' \in [Ptys -> 0..14]
          /\ \A q \in Ptys : stage'[q] # "con" => step'[q] <= 3
      BY <1>3 DEF ConAllocConsole
    <2>3. console' \in Ptys \cup {"none", "own"}
      BY <1>3 DEF ConAllocConsole
    <2> QED
      BY <1>3, <2>1, <2>2, <2>3 DEF ConAllocConsole
  <1>4. ASSUME NEW p \in Ptys, ConShowWindow(p) PROVE BackTypeOK'
    BY <1>4 DEF ConShowWindow
  <1>5. ASSUME NEW p \in Ptys, ConStep(p) PROVE BackTypeOK'
    <2>1. step[p] + 1 \in 0..14
      BY <1>5, LastCalls DEF ConStep, ConCall
    <2> QED
      BY <1>5, <2>1 DEF ConStep
  <1>6. ASSUME NEW p \in Ptys, ConBuilt(p) PROVE BackTypeOK'
    BY <1>6 DEF ConBuilt, ConHandles
  <1>7. ASSUME NEW p \in Ptys, WinRefuses(p) \/ WinBadSize(p) \/ WinStepFails(p)
        PROVE  BackTypeOK'
    BY <1>7 DEF WinRefuses, WinBadSize, WinStepFails
  <1>8. ASSUME NEW p \in Ptys, WinConfig(p) PROVE BackTypeOK'
    BY <1>8 DEF WinConfig, WinHandles
  <1>9. ASSUME NEW p \in Ptys, WinStep(p) PROVE BackTypeOK'
    <2>1. step[p] \in 1..3 /\ WinCall(p) \in WinHandles
      BY <1>9, LastCalls DEF WinStep, WinCall
    <2>2. WinCall(p) = "agentOut" \/ step[p] + 1 \in 1..3
      BY <2>1, LastCalls DEF WinCall
    <2> QED
      BY <1>9, <2>1, <2>2 DEF WinStep
  <1>10. ASSUME NEW p \in Ptys, Cleanup(p) \/ ConDrop(p) \/ WinDrop(p) \/ SpawnPanics(p)
         PROVE  BackTypeOK'
    <2>1. CASE WinDrop(p)
      BY <2>1 DEF WinDrop
    <2>2. CASE Cleanup(p) \/ ConDrop(p)
      <3>1. frees' \in [Ptys -> Nat] /\ console' \in Ptys \cup {"none", "own"}
        BY <2>2 DEF Cleanup, ConDrop, FreeConsole
      <3>2. held' \in [Ptys -> SUBSET (ConHandles \cup WinHandles)]
        BY <2>2 DEF Cleanup, ConDrop
      <3> QED
        BY <2>2, <3>1, <3>2 DEF Cleanup, ConDrop
    <2>3. CASE SpawnPanics(p)
      BY <2>3 DEF SpawnPanics
    <2> QED
      BY <1>10, <2>1, <2>2, <2>3
  <1>11. CASE ProgramAllocsConsole \/ UNCHANGED vars
    BY <1>11 DEF ProgramAllocsConsole
  <1> QED
    BY <1>1, <1>2, <1>3, <1>4, <1>5, <1>6, <1>7, <1>8, <1>9, <1>10, <1>11
       DEF Next, ConRefuses, ConStepFails

(* Where a console allocated by the library comes from.                     *)
ConsoleInv ==
    \A p \in Ptys : console = p =>
        /\ stage[p] # "idle" /\ ~(stage[p] = "con" /\ step[p] = 0)
        /\ stage[p] \in {"con", "panicked"} \/ backend[p] = "ConPTY" => allocated[p]
        /\ ~(stage[p] = "dropped" /\ backend[p] = "ConPTY" /\ ~poisoned[p])

(* While no PTY has called FreeConsole twice, each that allocated the       *)
(* console and has not freed it has it.                                     *)
OwnInv ==
    (\A q \in Ptys : frees[q] <= 1) =>
        \A p \in Ptys : allocated[p] /\ frees[p] = 0 => console = p

(* What each stage of a PTY's life cannot hold.                             *)
HeldInv ==
    \A p \in Ptys :
        /\ stage[p] \in {"idle", "panicked", "failed"}
             => held[p] \cap {"hpcon", "agent", "dir", "agentOut"} = {}
        /\ stage[p] = "con" => held[p] \cap {"hpcon", "agent", "agentOut"} = {}
        /\ stage[p] = "con" /\ step[p] <= 1 => "dir" \notin held[p]
        /\ stage[p] = "win" => held[p] \cap {"hpcon", "dir", "agentOut"} = {}
        /\ stage[p] = "win" /\ step[p] <= 1 => "agent" \notin held[p]
        /\ backend[p] = "ConPTY" => held[p] \cap {"agent", "dir", "agentOut"} = {}
        /\ backend[p] = "WinPTY" => held[p] \cap {"hpcon", "dir"} = {}
        /\ stage[p] = "dropped" => held[p] \cap {"agent", "dir", "agentOut"} = {}
        /\ stage[p] = "dropped" /\ "hpcon" \in held[p] => poisoned[p]

ConsoleInvs == LifeInv /\ ConsoleInv /\ OwnInv

(* Constructors, cleanup threads and drops keep the console accounted for.  *)
LEMMA ConsoleStep == BackTypeOK /\ ConsoleInvs /\ [Next]_vars => ConsoleInvs'
  <1> SUFFICES ASSUME BackTypeOK, ConsoleInvs, [Next]_vars PROVE ConsoleInvs'
    OBVIOUS
  <1> USE BackendsAssumption DEF BackTypeOK, ConsoleInvs, LifeInv, ConsoleInv, OwnInv
  <1>1. ASSUME NEW p \in Ptys, New(p) PROVE ConsoleInvs'
    BY <1>1 DEF New, FirstTry
  <1>2. ASSUME NEW p \in Ptys, stage[p] = "con", ConFails(p) PROVE ConsoleInvs'
    BY <1>2 DEF ConFails
  <1>3. ASSUME NEW p \in Ptys, ConAllocConsole(p) PROVE ConsoleInvs'
    BY <1>3 DEF ConAllocConsole, ConTries
  <1>4. ASSUME NEW p \in Ptys, ConShowWindow(p) \/ ConStep(p) \/ ConBuilt(p)
        PROVE  ConsoleInvs'
    BY <1>4 DEF ConShowWindow, ConStep, ConBuilt
  <1>5. ASSUME NEW p \in Ptys,
               WinRefuses(p) \/ WinConfig(p) \/ WinBadSize(p) \/ WinStep(p) \/ WinStepFails(p)
        PROVE  ConsoleInvs'
    BY <1>5 DEF WinRefuses, WinConfig, WinBadSize, WinStep, WinStepFails
  <1>6. ASSUME NEW p \in Ptys, Cleanup(p) \/ ConDrop(p) \/ WinDrop(p) \/ SpawnPanics(p)
        PROVE  ConsoleInvs'
    BY <1>6 DEF Cleanup, ConDrop, WinDrop, SpawnPanics, FreeConsole
  <1>7. CASE ProgramAllocsConsole \/ UNCHANGED vars
    BY <1>7 DEF ProgramAllocsConsole
  <1> QED
    BY <1>1, <1>2, <1>3, <1>4, <1>5, <1>6, <1>7 DEF Next, ConRefuses, ConStepFails

(* Each call opens, and each end closes, what its stage says.               *)
LEMMA HeldStep == BackTypeOK /\ LifeInv /\ HeldInv /\ [Next]_vars => HeldInv'
  <1> SUFFICES ASSUME BackTypeOK, LifeInv, HeldInv, [Next]_vars PROVE HeldInv'
    OBVIOUS
  <1> USE DEF BackTypeOK, LifeInv, HeldInv
  <1>1. ASSUME NEW p \in Ptys, New(p) PROVE HeldInv'
    BY <1>1 DEF New, FirstTry
  <1>2. ASSUME NEW p \in Ptys, stage[p] = "con", ConFails(p) PROVE HeldInv'
    BY <1>2 DEF ConFails
  <1>3. ASSUME NEW p \in Ptys, ConAllocConsole(p) \/ ConShowWindow(p) PROVE HeldInv'
    BY <1>3 DEF ConAllocConsole, ConTries, ConShowWindow
  <1>4. ASSUME NEW p \in Ptys, ConStep(p) PROVE HeldInv'
    BY <1>4 DEF ConStep, ConHandles
  <1>5. ASSUME NEW p \in Ptys, ConBuilt(p) PROVE HeldInv'
    BY <1>5 DEF ConBuilt
  <1>6. ASSUME NEW p \in Ptys, WinRefuses(p) \/ WinConfig(p) \/ WinBadSize(p) \/ WinStepFails(p)
        PROVE  HeldInv'
    BY <1>6 DEF WinRefuses, WinConfig, WinBadSize, WinStepFails
  <1>7. ASSUME NEW p \in Ptys, WinStep(p) PROVE HeldInv'
    <2>1. WinCall(p) \in {"agent", "agentIn", "agentOut"}
      BY <1>7, LastCalls DEF WinStep, WinCall, WinSteps
    <2> QED
      BY <1>7, <2>1 DEF WinStep
  <1>8. ASSUME NEW p \in Ptys, Cleanup(p) \/ ConDrop(p) \/ WinDrop(p) \/ SpawnPanics(p)
        PROVE  HeldInv'
    BY <1>8 DEF Cleanup, ConDrop, WinDrop, SpawnPanics, FreeConsole
  <1>9. CASE ProgramAllocsConsole \/ UNCHANGED vars
    BY <1>9 DEF ProgramAllocsConsole
  <1> QED
    BY <1>1, <1>2, <1>3, <1>4, <1>5, <1>6, <1>7, <1>8, <1>9 DEF Next, ConRefuses, ConStepFails

-----------------------------------------------------------------------------
IInv == BackTypeOK /\ ConsoleInvs /\ HeldInv

(* A program that has built no PTY holds nothing of the library.            *)
LEMMA InitIInv == Init => IInv
  BY BackendsAssumption
     DEF Init, IInv, BackTypeOK, Stages, ConsoleInvs, LifeInv, ConsoleInv, OwnInv, HeldInv

(* The inductive invariant of the constructors and drops of all PTYs.       *)
THEOREM Inductive == Spec => []IInv
  <1>1. IInv /\ [Next]_vars => IInv'
    BY TypeStep, ConsoleStep, HeldStep DEF IInv, ConsoleInvs
  <1> QED
    BY InitIInv, <1>1, PTL DEF Spec

(* Every variable keeps its type and each constructor its table.            *)
THEOREM BackendsTypeCorrect == Spec => []BackTypeOK
  <1>1. IInv => BackTypeOK
    BY DEF IInv
  <1> QED
    BY Inductive, <1>1, PTL

(* A console the library allocated has an owner, unless ConPTY::new forgot  *)
(* it in failing or a drop panicked.                                        *)
THEOREM ConsoleIsOwned == Spec => []ConsoleHasOwner
  <1>1. IInv => ConsoleHasOwner
    BY BackendsAssumption
       DEF IInv, BackTypeOK, Stages, ConsoleInvs, LifeInv, ConsoleInv, ConsoleHasOwner
  <1> QED
    BY Inductive, <1>1, PTL

(* A PTY that is over leaves no agent or directory handle, and no           *)
(* pseudoconsole unless its lock was poisoned.                              *)
THEOREM NothingHeavyStays == Spec => []PseudoconsoleAndAgentReleased
  <1>1. IInv => PseudoconsoleAndAgentReleased
    BY DEF IInv, HeldInv, PseudoconsoleAndAgentReleased
  <1> QED
    BY Inductive, <1>1, PTL

(* A console, the program's or a PTY's, is taken away only by the PTY that  *)
(* allocated it, as long as none has called FreeConsole twice.              *)
THEOREM ConsoleIsNotTaken == Spec => ConsoleGoesWithItsOwner
  <1>1. IInv /\ [Next]_vars =>
          [\A c \in Ptys \cup {"own"} : console = c /\ console' # c =>
              \/ c \in Ptys /\ frees'[c] = frees[c] + 1
              \/ \E q \in Ptys : frees'[q] > 1]_vars
    <2> SUFFICES ASSUME IInv, Next, NEW c \in Ptys \cup {"own"}, console = c, console' # c,
                        \A q \in Ptys : ~(frees'[q] > 1)
                 PROVE  c \in Ptys /\ frees'[c] = frees[c] + 1
      OBVIOUS
    <2> USE BackendsAssumption DEF IInv, BackTypeOK, ConsoleInvs, OwnInv
    <2>1. console # "none"
      OBVIOUS
    <2>2. PICK p \in Ptys : Cleanup(p) \/ ConDrop(p)
      BY <2>1 DEF Next, ProgramAllocsConsole, New, ConRefuses, ConFails, ConAllocConsole,
         ConShowWindow, ConStep, ConBuilt, ConStepFails, WinRefuses, WinConfig, WinBadSize,
         WinStep, WinStepFails, WinDrop, SpawnPanics
    <2>3. allocated[p] /\ frees' = [frees EXCEPT ![p] = @ + 1]
      BY <2>2 DEF Cleanup, ConDrop, FreeConsole
    <2>4. \A q \in Ptys : frees[q] <= frees'[q] /\ frees'[q] <= 1
      BY <2>3
    <2>5. frees[p] = 0 /\ console = p
      BY <2>3, <2>4
    <2> QED
      BY <2>3, <2>5
  <1> QED
    BY Inductive, <1>1, PTL DEF Spec, ConsoleGoesWithItsOwner
=============================================================================
