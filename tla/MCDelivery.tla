----------------------------- MODULE MCDelivery -----------------------------
(***************************************************************************)
(* An instance of Delivery for TLC: the initiator writes two messages, the *)
(* responder one.                                                          *)
(***************************************************************************)
EXTENDS Delivery

CONSTANTS a1, a2, b1

MCAuthorOf == [m \in Messages |-> IF m = b1 THEN Responder ELSE Initiator]
=============================================================================
