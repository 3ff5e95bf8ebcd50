------------------------------- MODULE MCParts -------------------------------
(* The instance of Parts that is explored. The values in the cfg files:      *)
(* three battery levels and a drop of one and a half, with values up to     *)
(* those of a full battery; one range near, one at the distance followed,    *)
(* one lost, and steps of an eighth of a turn; two motors, and every period  *)
(* of three or four iterations.                                              *)
EXTENDS Parts

Led(value, action) == [value |-> value, action |-> action]

\* A sequence that ends, as seq_linkUp, and below it one that goes on for ever, as seq_alive.
LedSequences ==
    <<<<Led(TRUE, "wait"), Led(FALSE, "now"), Led(FALSE, "STOP")>>,
      <<Led(TRUE, "wait"), Led(FALSE, "wait"), Led(FALSE, "LOOP")>>>>
=============================================================================
