------------------------------ MODULE InputStream ------------------------------
(***************************************************************************)
(* What a PTY promises of its input, whoever writes it and however many    *)
(* at once: messages are written one at a time and each to its end, piece  *)
(* by piece, onto one line that the host reads from.  A message that fails *)
(* may lose pieces of its own that the host has not read, a cancel pieces  *)
(* of any message; nothing else takes a piece back, and Ok is answered     *)
(* only when every piece was put.                                          *)
(*                                                                         *)
(* PTYCalls is shown to implement this in both of its modes.               *)
(***************************************************************************)
EXTENDS Naturals, Sequences

CONSTANTS Messages,   \* names of messages, among them not 0
          Sizes       \* numbers of pieces a message can have

VARIABLES
    answer,     \* what each message is: "new", "asked", answered "ok" or "err"
    size,       \* the pieces of each message
    writing,    \* the message being written; 0 if there is none
    put,        \* the pieces of it that are in line
    line,       \* all pieces, in order
    fetched,    \* of these, the pieces the host has read
    cut         \* the messages that a cancel has hit

inputVars == <<answer, size, writing, put, line, fetched, cut>>

NoMessage == 0

Init ==
    /\ answer = [m \in Messages |-> "new"] /\ size = [m \in Messages |-> 0]
    /\ writing = NoMessage /\ put = 0
    /\ line = <<>> /\ fetched = 0 /\ cut = {}

HandIn(m, n) ==
    /\ answer[m] = "new"
    /\ answer' = [answer EXCEPT ![m] = "asked"]
    /\ size' = [size EXCEPT ![m] = n]
    /\ UNCHANGED <<writing, put, line, fetched, cut>>

Begin(m) ==
    /\ writing = NoMessage /\ answer[m] = "asked"
    /\ writing' = m /\ put' = 0
    /\ UNCHANGED <<answer, size, line, fetched, cut>>

Put ==
    /\ writing # NoMessage /\ put < size[writing]
    /\ put' = put + 1
    /\ line' = Append(line, [msg |-> writing, part |-> put'])
    /\ UNCHANGED <<answer, size, writing, fetched, cut>>

Ends(r) ==
    /\ writing # NoMessage
    /\ answer' = [answer EXCEPT ![writing] = r]
    /\ writing' = NoMessage /\ put' = 0
    /\ UNCHANGED <<size, fetched, cut>>

Finish == Ends("ok") /\ put = size[writing] /\ line' = line

\* The line is cut after its first n pieces, of which the host has not read more.
CutTo(n) == n >= fetched /\ line' = SubSeq(line, 1, n)

Fail ==
    /\ Ends("err")
    /\ \E n \in 0..Len(line) :
         CutTo(n) /\ \A i \in n + 1 .. Len(line) : line[i].msg = writing

Cancel ==
    /\ \E n \in 0..Len(line) :
         CutTo(n) /\ cut' = cut \cup {line[i].msg : i \in n + 1 .. Len(line)}
    /\ UNCHANGED <<answer, size, writing, put, fetched>>

Fetch ==
    /\ fetched < Len(line)
    /\ fetched' = fetched + 1
    /\ UNCHANGED <<answer, size, writing, put, line, cut>>

Next ==
    \/ \E m \in Messages : Begin(m) \/ \E n \in Sizes : HandIn(m, n)
    \/ Put \/ Finish \/ Fail \/ Cancel \/ Fetch

Spec == Init /\ [][Next]_inputVars
=============================================================================
