------------------------------- MODULE MCAml --------------------------------
(* Two groups of two processes.  A buffer holds one message between groups  *)
(* and two inside a group, and each layer has one send request: a second    *)
(* message to the other group waits in a flush for the first packet, and a  *)
(* packet inside a group carries forwarded messages, own ones, or both.     *)
(* <<0,0>> sends two messages that the other group forwards, <<1,1>>        *)
(* answers across, directly or forwarded, or inside its group, where        *)
(* acknowledgements ride back.                                              *)
(* There are two epochs: messages of the second meet processes that are     *)
(* still leaving the first barrier.                                         *)
EXTENDS Aml

MCAGGR == [ly \in Layer |-> IF ly = "inter" THEN 1 ELSE 2]
MCBudget ==
  [p \in Proc |-> CASE p = <<0, 0>> -> 2 [] p = <<1, 1>> -> 1 [] OTHER -> 0]
MCTargets ==
  [p \in Proc |-> CASE p = <<0, 0>> -> {<<1, 1>>}
                    [] p = <<1, 1>> -> {<<0, 0>>, <<0, 1>>, <<1, 0>>}
                    [] OTHER -> {}]
=============================================================================
