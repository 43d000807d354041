----------------------------- MODULE RoundRobin -----------------------------
(***************************************************************************)
(* What the process system promises: the processes take turns.  The first  *)
(* of the queue runs; a timer tick moves it to the end; a started process  *)
(* joins at the end.                                                       *)
(***************************************************************************)
EXTENDS Sequences, SequencesExt

CONSTANT Proc
VARIABLE queue

Init == queue = <<>>

Start(p) ==
    /\ p \notin ToSet(queue)
    /\ queue' = Append(queue, p)

Rotate ==
    /\ queue # <<>>
    /\ queue' = Append(Tail(queue), Head(queue))

Next == Rotate \/ \E p \in Proc : Start(p)

Spec == Init /\ [][Next]_queue
=============================================================================
