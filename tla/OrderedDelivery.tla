--------------------------- MODULE OrderedDelivery ---------------------------
(***************************************************************************)
(* What the turn channel of a network match promises the game loop: the    *)
(* peer's turns are handed over one by one, in step order, each exactly    *)
(* once, and all of them from one sealing of the game.  The receiver may   *)
(* give up at any moment (a protocol error or a deadline) and hands over   *)
(* nothing afterwards.                                                     *)
(***************************************************************************)
EXTENDS Naturals, Sequences

CONSTANTS Steps, Seals

VARIABLES accepted, over

vars == <<accepted, over>>

\* The n-th turn of the sealing s.
Turn(s, n) == [step |-> n, commit |-> s[n]]

Init == accepted = <<>> /\ over = FALSE

HandOver ==
    /\ ~over
    /\ \E s \in Seals :
          /\ \A i \in 1 .. Len(accepted) : accepted[i] = Turn(s, i)
          /\ Len(accepted) + 1 \in Steps
          /\ accepted' = Append(accepted, Turn(s, Len(accepted) + 1))
    /\ UNCHANGED over

GiveUp == ~over /\ over' = TRUE /\ UNCHANGED accepted

Next == HandOver \/ GiveUp

Spec == Init /\ [][Next]_vars
=============================================================================
