--------------------------- MODULE MCTurnDelivery ----------------------------
(***************************************************************************)
(* Instances of TurnDelivery for TLC: commitments are strings, and the     *)
(* sealings say what kind of peer is at the other end.                     *)
(***************************************************************************)
EXTENDS TurnDelivery

Digit == <<"1", "2", "3", "4">>
Letters(prefix) == [s \in 1 .. N |-> prefix \o Digit[s]]

\* One process, which seals each step with a commitment of its own.
HonestSeals == {Letters("a")}

\* A process and the processes that follow it after a crash.
RestartSeals == {Letters("a"), Letters("b")}

\* The same, when one of them uses the commitment of step 1 again for step N.
ReusingSeals == {[Letters("a") EXCEPT ![N] = "a1"], Letters("b")}

AllCommits == {Letters("a")[s] : s \in 1 .. N} \cup {Letters("b")[s] : s \in 1 .. N}
=============================================================================
