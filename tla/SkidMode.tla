------------------------------ MODULE SkidMode ------------------------------
(***************************************************************************)
(* What the skid subsystem of a ground mover promises about its mode, with *)
(* the physics left out: a unit on the ground under its own control can be *)
(* thrown into a skid or into the air; a skid ends on the ground or goes   *)
(* airborne; and a unit in the air comes down into a skid, never straight  *)
(* back under its own control.  GroundMoveSkid implements it under the     *)
(* mapping GroundMoveSkid!Mode.                                            *)
(***************************************************************************)

Modes == {"Ground", "Skid", "Air"}

VARIABLE mode

Init == mode = "Ground"

\* An impulse or a steep slope takes the unit out of its own control.
Slip == mode = "Ground" /\ mode' \in {"Skid", "Air"}

\* The skid slows down to a stop on level ground.
Recover == mode = "Skid" /\ mode' = "Ground"

\* The skidding unit leaves the ground.
Launch == mode = "Skid" /\ mode' = "Air"

\* The flying unit hits the ground and slides on.
Land == mode = "Air" /\ mode' = "Skid"

Next == Slip \/ Recover \/ Launch \/ Land

Spec == Init /\ [][Next]_mode

=============================================================================
