---------------------------- MODULE MCRevealedLogs ---------------------------
(***************************************************************************)
(* Small sets of records for RevealedLogs, on a 2 x 2 board: the police    *)
(* starts beside the thief.                                                *)
(***************************************************************************)
EXTENDS RevealedLogs

West == <<0, 0>>
East == <<0, 1>>

Record(step, role, state, position, move, barrier, claim, response) ==
    [step |-> step, role |-> role, state |-> state, position |-> position, move |-> move,
     terminal_ack |-> FALSE, barrier |-> barrier, claim |-> claim, response |-> response]

ThiefTurns ==
    {Record(step, "thief", None, position, "unknown", None, None, response) :
        step \in 2 .. 3, position \in {East, West},
        response \in {None} \cup [claim : {East}, caught : BOOLEAN]
                            \cup [claim : {West}, caught : {TRUE}]}
      \cup {Record(1, "thief", None, <<1, 1>>, "S", None, None, None)}
      \cup {Record(2, "thief", state, position, move, None, None, None) :
               state \in {None, <<1, 0>>}, position \in {None, East}, move \in {"absent", "W"}}
      \cup {Record(3, "thief", None, East, "STAY", East, None, None)}

PoliceTurns ==
    {Record(step, "police", None, position, "unknown", barrier, claim, None) :
        step \in 1 .. 2, position \in {East, West}, barrier \in {None, East},
        claim \in {None, East}}
      \cup {Record(2, role, state, None, "E", None, East, None) :
               role \in {"thief", None}, state \in {None, East}}
      \cup {Record(1, None, None, West, "STAY", <<1, 1>>, None, None),
            Record(1, "thief", None, West, "STAY", None, None, None),
            Record(None, None, None, East, "STAY", None, None, None)}
=============================================================================
