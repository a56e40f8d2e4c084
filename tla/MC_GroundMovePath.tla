------------------------- MODULE MC_GroundMovePath -------------------------
(* Small instance of GroundMovePath for TLC: two path ids (model values), *)
(* the stall counters shrunk so that saturation, the stall threshold and  *)
(* the give-up bound are all reached within a few frames.                 *)
EXTENDS GroundMovePath, TLC

CONSTANTS p1, p2

MCPathIds == {p1, p2}
MCShortMax == 2
MCIdleLimit == 1
MCMaxIdlingSlowUpdates == 2
MCSlowRate == 1

MCSymmetry == Permutations(MCPathIds)

\* One id is enough where a leak or a second live path is not the question.
MCOnePathId == {p1}

=============================================================================
