----------------------------- MODULE BoundedFIFO -----------------------------
(***************************************************************************)
(* What a queue between threads promises, with no indices, no nodes and no *)
(* steps inside an operation: values leave in the order they entered, each *)
(* once, and the number inside is one of Sizes (0..n for a queue of n      *)
(* places, Nat for one without a limit).  The two histories make the       *)
(* promise visible: "sent" is what completed pushes put in, "received"     *)
(* what completed pops took out.                                           *)
(***************************************************************************)
EXTENDS Naturals, Sequences

CONSTANTS Values, Sizes

VARIABLES queue, sent, received

fifoVars == <<queue, sent, received>>

Init ==
    /\ queue = <<>>
    /\ sent = <<>>
    /\ received = <<>>

Push ==
    /\ Len(queue) + 1 \in Sizes
    /\ \E v \in Values :
        /\ queue' = Append(queue, v)
        /\ sent' = Append(sent, v)
    /\ UNCHANGED received

Pop ==
    /\ queue # <<>>
    /\ received' = Append(received, Head(queue))
    /\ queue' = Tail(queue)
    /\ UNCHANGED sent

Next == Push \/ Pop

Spec == Init /\ [][Next]_fifoVars
=============================================================================
