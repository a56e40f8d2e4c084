--------------------------- MODULE GroundMoveUnit ---------------------------
(***************************************************************************)
(* One ground mover with both of its components: the path lifecycle       *)
(* (GroundMovePath, extended here) and the skid subsystem (GroundMoveSkid, *)
(* instantiated over the shared variable transported).  UnitUpdate picks   *)
(* the frame's mode from the skid flags as the code does (lines 212-249):  *)
(* a transported unit does nothing, a skidding one runs UpdateSkid (and    *)
(* the collision passes only when the skid ends, line 793), a falling one  *)
(* UpdateControlledDrop, and only the remaining frames run the path code   *)
(* and the idle test.  SlowUpdate, the orders, loading and destruction are *)
(* those of GroundMovePath; impulses and transport those of the skid code. *)
(***************************************************************************)
EXTENDS GroundMovePath

VARIABLES u, beingBuilt

S == INSTANCE GroundMoveSkid

unitVars == <<m, transported, alive, phase, u, beingBuilt>>

UnitInit == Init /\ S!Init

\* The frame's path effects once UpdateSkid has run: collisions are
\* handled only if the unit no longer skids.
SkidFramePath(t, s) == IF t.skidding THEN {s} ELSE Collide(s)

\* CGroundMoveType::Update with its mode dispatch.
UnitUpdate ==
  /\ alive
  /\ phase < SlowRate
  /\ phase' = phase + 1
  /\ IF transported
     THEN m' = EndFrame(m) /\ u' = u
     ELSE \E onSlope \in BOOLEAN :
            LET s == IF onSlope THEN S!BeginSkid(u) ELSE u
            IN  \/ /\ s.skidding
                   /\ u' \in S!SkidResults(s)
                   /\ \E t \in SkidFramePath(u', m) : m' = EndFrame(t)
                \/ /\ ~s.skidding /\ s.falling
                   /\ u' \in S!DropResults(s)
                   /\ m' = EndFrame(m)
                \/ /\ ~s.skidding /\ ~s.falling
                   /\ u' = s
                   /\ \E t \in ControlledResults(m) : m' = EndFrame(t)
  /\ UNCHANGED <<transported, alive, beingBuilt>>

\* The path-only handlers, which leave the skid state alone.
PathStep ==
  /\ \/ SlowUpdate \/ MoveOrder \/ StopOrder \/ KeepPointingTo
     \/ PostLoad \/ Destroy
  /\ UNCHANGED <<u, beingBuilt>>

\* The skid code's environment: impulses, transport and construction.
SkidEnvironment ==
  /\ alive
  /\ \/ S!ApplyImpulse \/ S!Load \/ S!Unload \/ S!Finish
  /\ UNCHANGED <<m, alive, phase>>

UnitTerminated == ~alive /\ UNCHANGED unitVars

UnitNext == UnitUpdate \/ PathStep \/ SkidEnvironment \/ UnitTerminated

UnitSpec == UnitInit /\ [][UnitNext]_unitVars

-----------------------------------------------------------------------------
(* Properties.                                                             *)

\* A SlowUpdate that fails a unit holding a path: the stall test of case A
\* (directly, or through the repath it starts).
StallFail ==
  /\ phase = SlowRate /\ phase' = 0
  /\ m.progressState = "Active" /\ m.pathId # NoPath
  /\ m'.progressState = "Failed"

\* Spec section 7 (PathStalled): a unit is failed by the stall test only
\* when it has a path but is not making progress.  SlowUpdate reads
\* idling and numIdlingUpdates (lines 320-326), which only a controlled
\* frame recomputes; skid and drop frames leave the values of the last
\* controlled frame, so a unit that was stuck before an impulse is failed
\* while the impulse throws it across the map.
NoStallFailWhileSkidding == [][~(u.skidding /\ StallFail)]_unitVars

=============================================================================
