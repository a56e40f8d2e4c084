-------------------------- MODULE MC_GroundMoveUnit --------------------------
(* Model-checking instance of GroundMoveUnit: one path id, a stall test   *)
(* that trips after one idle frame and fails after two idle slow updates. *)
EXTENDS GroundMoveUnit, TLC

CONSTANTS p1

MCPathIds == {p1}
MCShortMax == 2
MCIdleLimit == 1
MCMaxIdlingSlowUpdates == 2
MCSlowRate == 1
=============================================================================
