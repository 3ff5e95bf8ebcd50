----------------------------- MODULE MCDroneApp -----------------------------
(* DroneApp on a cell of three charge levels and one reading of the upward *)
(* ranger between every two thresholds of followTheWall.                   *)
EXTENDS DroneApp

MCUpRanges == {0, 50, 200, 400, 600}
=============================================================================
