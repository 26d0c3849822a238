---------------------------- MODULE MCCollection ----------------------------
(* A message, a neighbour change, a receipt and a traffic event.           *)
EXTENDS Collection

CONSTANTS msg, nbr, receipt, tx

TypeDef == [a \in Answers |->
    CASE a = msg -> "message" [] a = nbr -> "neighbor" [] a = receipt -> "delivery"
      [] OTHER -> "traffic"]
=============================================================================
