-------------------------- MODULE MCSerialFraming ---------------------------
(* A small instance of SerialFraming for TLC: a message without data, one   *)
(* that fills the buffer and one that is larger and whose data looks like a *)
(* prefix; noise with parts of a prefix, a whole one and an unknown command. *)
EXTENDS SerialFraming, TLC

MCPrefix == <<1, 2, 3>>
Message(command_id, data) == [command_id |-> command_id, request_id |-> 1, data |-> data]
MCMessages == {Message(0, <<>>), Message(1, <<1, 2>>), Message(1, <<1, 2, 3>>)}
MCNoises == {<<>>, <<1, 2>>, <<3, 0, 0, 1>>, <<1, 2, 3>>, <<1, 2, 3, 2>>}
=============================================================================
