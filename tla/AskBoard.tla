------------------------------ MODULE AskBoard ------------------------------
(* What a project promises about the questions put to a human, whatever file *)
(* they are kept in: a question is put once, nobody takes it back from those *)
(* who still wait for it, and the first answer it gets is its answer.        *)
CONSTANTS Ids, Values  \* no value is one of "unasked", "open", "withdrawn"

VARIABLE board

BoardInit == board = [id \in Ids |-> "unasked"]

Put(id) == board[id] = "unasked" /\ board' = [board EXCEPT ![id] = "open"]
Withdraw(id) == board[id] = "open" /\ board' = [board EXCEPT ![id] = "withdrawn"]

\* also of a question just withdrawn: whoever answered had seen it open
Settle(id, value) ==
    board[id] \in {"open", "withdrawn"} /\ board' = [board EXCEPT ![id] = value]

BoardNext == \E id \in Ids : Put(id) \/ Withdraw(id) \/ \E value \in Values : Settle(id, value)

BoardSpec == BoardInit /\ [][BoardNext]_board
=============================================================================
