---------------------------- MODULE FrameChannel ----------------------------
(***************************************************************************)
(* What one direction of a connection promises to the programs: the bodies *)
(* that are put in come out one by one, in order and each in one piece,    *)
(* until the receiving end is over.                                        *)
(***************************************************************************)
EXTENDS Naturals, Sequences

CONSTANT Bodies

VARIABLES
    put,    \* the bodies put in so far
    got,    \* the bodies that came out so far
    over    \* no more comes out

vars == <<put, got, over>>

Init ==
    /\ put = <<>>
    /\ got = <<>>
    /\ over = FALSE

Put ==
    /\ \E b \in Bodies : put' = Append(put, b)
    /\ UNCHANGED <<got, over>>

Get ==
    /\ ~over
    /\ Len(got) < Len(put)
    /\ got' = Append(got, put[Len(got) + 1])
    /\ UNCHANGED <<put, over>>

End ==
    /\ over' = TRUE
    /\ UNCHANGED <<put, got>>

Next == Put \/ Get \/ End

Spec == Init /\ [][Next]_vars /\ WF_vars(Get)
=============================================================================
