---------------------------- MODULE ReliableFile ----------------------------
(***************************************************************************)
(* What mp2 promises, without a network: a receiver takes over chunks in   *)
(* order and writes them, a sender learns of chunks taken over and         *)
(* finishes when all of them are.  The receiver may acknowledge chunks it  *)
(* holds in memory and has not written yet, so the file may lag behind     *)
(* what was taken, but never the other way round.                          *)
(***************************************************************************)
EXTENDS Integers, Sequences

CONSTANT N          \* the number of chunks of the file

VARIABLES
    taken,          \* chunks the receiver answers for
    written,        \* the file
    confirmed,      \* chunks the sender knows to be taken
    finished        \* the sender has returned

Source(n) == [i \in 1 .. n |-> i - 1]

Init ==
    /\ taken = 0
    /\ written = << >>
    /\ confirmed = 0
    /\ finished = FALSE

(* The receiver takes over further chunks and writes some of those it has *)
Receive ==
    /\ \E n \in taken .. N : \E m \in Len(written) .. n :
          /\ taken' = n
          /\ written' = Source(m)
    /\ UNCHANGED <<confirmed, finished>>

(* The sender learns of it *)
Confirm ==
    /\ confirmed' \in confirmed .. taken
    /\ UNCHANGED <<taken, written, finished>>

Finish ==
    /\ confirmed = N
    /\ finished' = TRUE
    /\ UNCHANGED <<taken, written, confirmed>>

Next == Receive \/ Confirm \/ Finish

Spec == Init /\ [][Next]_<<taken, written, confirmed, finished>>
=============================================================================
