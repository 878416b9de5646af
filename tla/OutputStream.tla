----------------------------- MODULE OutputStream -----------------------------
(***************************************************************************)
(* What a PTY promises of its output, whoever moves it and however: a      *)
(* stream of units written by children is put, unit by unit, on a queue    *)
(* that callers read from; it may be interrupted by marks; when it is over *)
(* nothing is put any more.  A mark among Ends is the last message, and    *)
(* the mark "eof" is put only when the stream may end: the child being     *)
(* served has gone, or the owner drops the PTY.                            *)
(*                                                                         *)
(* PTYProcess is shown to implement this in both of its modes.             *)
(***************************************************************************)
EXTENDS Naturals, Sequences, FiniteSets

CONSTANTS Marks,   \* messages that are not output: "empty", "err", "eof"
          Ends     \* the marks that are always the last message

VARIABLES
    written,    \* units children have written
    inFlight,   \* of these, the units on their way to the queue
    queue,      \* messages that can be read
    read,       \* units that have been read
    over,       \* nothing will be put any more
    mayEnd      \* the child being served has exited, or the owner drops the PTY

streamVars == <<written, inFlight, queue, read, over, mayEnd>>

Init ==
    /\ written = 0 /\ inFlight = 0 /\ queue = <<>> /\ read = 0
    /\ over = FALSE /\ mayEnd = FALSE

Write ==
    /\ written' = written + 1 /\ inFlight' = inFlight + 1
    /\ UNCHANGED <<queue, read, over, mayEnd>>

Put ==
    /\ ~over /\ inFlight > 0
    /\ inFlight' = inFlight - 1
    /\ queue' = Append(queue, "data")
    /\ UNCHANGED <<written, read, over, mayEnd>>

Mark(m) ==
    /\ ~over
    /\ m = "eof" => mayEnd
    /\ queue' = Append(queue, m)
    /\ over' = (m \in Ends)
    /\ UNCHANGED <<written, inFlight, read, mayEnd>>

(* The stream is cut off: its owner drops it.                               *)
Stop ==
    /\ ~over /\ over' = TRUE
    /\ UNCHANGED <<written, inFlight, queue, read, mayEnd>>

LetEnd ==
    /\ mayEnd' = TRUE
    /\ UNCHANGED <<written, inFlight, queue, read, over>>

Get ==
    /\ queue # <<>>
    /\ queue' = Tail(queue)
    /\ read' = (IF Head(queue) = "data" THEN read + 1 ELSE read)
    /\ UNCHANGED <<written, inFlight, over, mayEnd>>

Next == Write \/ Put \/ (\E m \in Marks : Mark(m)) \/ Stop \/ LetEnd \/ Get

Spec == Init /\ [][Next]_streamVars
=============================================================================
