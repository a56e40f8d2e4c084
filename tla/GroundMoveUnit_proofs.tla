------------------------ MODULE GroundMoveUnit_proofs ------------------------
(***************************************************************************)
(* The whole mover implements each of its components: every step of       *)
(* GroundMoveUnit is a step of GroundMovePath on the path variables and a  *)
(* step of GroundMoveSkid on the skid variables (or leaves them alone).    *)
(* So the invariants proved of the components separately -- no leaked     *)
(* path id, a path only while Active, flying => skidding -- and the        *)
(* refinement of SkidMode hold of the composed mover, whose frames         *)
(* interleave the two: the skid code decides which path code runs.        *)
(***************************************************************************)
EXTENDS GroundMoveUnit, GroundMovePath_proofs, TLAPS

SP == INSTANCE GroundMoveSkid_proofs

-----------------------------------------------------------------------------
(* The skid helpers as GroundMoveUnit sees them are those of the proofs.   *)

LEMMA SkidHelpers ==
  ASSUME NEW s
  PROVE  /\ S!BeginSkid(s) = SP!BeginSkid(s)
         /\ S!SkidResults(s) = SP!SkidResults(s)
         /\ S!DropResults(s) = SP!DropResults(s)
BY Zenon DEF S!BeginSkid, SP!BeginSkid, S!SkidResults, SP!SkidResults,
             S!Landed, SP!Landed, S!SkidStopped, SP!SkidStopped,
             S!Airborne, SP!Airborne, S!DropResults, SP!DropResults

LEMMA SkidActions ==
  /\ S!ApplyImpulse => SP!ApplyImpulse
  /\ S!Load => SP!Load
  /\ S!Unload => SP!Unload
  /\ S!Finish => SP!Finish
BY Zenon DEF S!ApplyImpulse, SP!ApplyImpulse, S!Impulsed, SP!Impulsed,
             S!BeginSkid, SP!BeginSkid, S!Load, SP!Load, S!Unload, SP!Unload,
             S!Finish, SP!Finish

LEMMA UnitInitComponents == UnitInit => Init /\ SP!Init
BY Zenon DEF UnitInit, S!Init, SP!Init, S!GroundStates, SP!GroundStates

-----------------------------------------------------------------------------
(* Every step of the mover is a path step.                                 *)

\* The frames of the whole mover produce only what GroundMovePath's
\* Update allows: a skid frame keeps the path state or runs the
\* collision passes, a drop frame keeps it, a controlled frame runs it.
LEMMA UnitUpdatePath == UnitUpdate => Update
<1>. SUFFICES ASSUME UnitUpdate PROVE Update
  OBVIOUS
<1>1. CASE transported
  BY <1>1 DEF UnitUpdate, Update
<1>2. CASE ~transported
  <2>1. PICK onSlope \in BOOLEAN :
          LET s == IF onSlope THEN S!BeginSkid(u) ELSE u
          IN  \/ /\ s.skidding
                 /\ u' \in S!SkidResults(s)
                 /\ \E t \in SkidFramePath(u', m) : m' = EndFrame(t)
              \/ /\ ~s.skidding /\ s.falling
                 /\ u' \in S!DropResults(s)
                 /\ m' = EndFrame(m)
              \/ /\ ~s.skidding /\ ~s.falling
                 /\ u' = s
                 /\ \E t \in ControlledResults(m) : m' = EndFrame(t)
    BY <1>2 DEF UnitUpdate
  <2>2. SkidFramePath(u', m) \subseteq UpdateResults(m)
    BY DEF SkidFramePath, UpdateResults
  <2>3. \E t \in UpdateResults(m) : m' = EndFrame(t)
    BY <2>1, <2>2 DEF UpdateResults
  <2>. QED
    BY <1>2, <2>3 DEF UnitUpdate, Update
<1>. QED
  BY <1>1, <1>2

LEMMA UnitStepPath == [UnitNext]_unitVars => [Next]_vars
<1>. SUFFICES ASSUME [UnitNext]_unitVars PROVE [Next]_vars
  OBVIOUS
<1>1. CASE UnitUpdate
  BY <1>1, UnitUpdatePath DEF Next
<1>2. CASE PathStep
  BY <1>2 DEF PathStep, Next
<1>3. CASE SkidEnvironment /\ (S!ApplyImpulse \/ S!Finish)
  BY <1>3 DEF SkidEnvironment, S!ApplyImpulse, S!Finish, vars
<1>4. CASE SkidEnvironment /\ (S!Load \/ S!Unload)
  BY <1>4 DEF SkidEnvironment, S!Load, S!Unload, Transport, Next
<1>5. CASE UnitTerminated \/ UNCHANGED unitVars
  BY <1>5 DEF UnitTerminated, unitVars, vars
<1>. QED
  BY <1>1, <1>2, <1>3, <1>4, <1>5 DEF UnitNext, SkidEnvironment

-----------------------------------------------------------------------------
(* Every step of the mover is a skid step.                                 *)

LEMMA UnitUpdateSkid == UnitUpdate => [SP!Next]_(SP!vars)
<1>. SUFFICES ASSUME UnitUpdate PROVE [SP!Next]_(SP!vars)
  OBVIOUS
<1>1. CASE transported
  BY <1>1 DEF UnitUpdate, SP!vars
<1>2. CASE ~transported
  <2>1. PICK onSlope \in BOOLEAN :
          LET s == IF onSlope THEN S!BeginSkid(u) ELSE u
          IN  \/ s.skidding /\ u' \in S!SkidResults(s)
              \/ ~s.skidding /\ s.falling /\ u' \in S!DropResults(s)
              \/ ~s.skidding /\ ~s.falling /\ u' = s
    BY <1>2 DEF UnitUpdate
  <2>. DEFINE s == IF onSlope THEN SP!BeginSkid(u) ELSE u
  <2>2. u' \in IF s.skidding THEN SP!SkidResults(s)
               ELSE IF s.falling THEN SP!DropResults(s)
               ELSE {s}
    BY <2>1, SkidHelpers
  <2>3. SP!Update
    BY <1>2, <2>2 DEF UnitUpdate, SP!Update
  <2>. QED
    BY <2>3 DEF SP!Next
<1>. QED
  BY <1>1, <1>2

LEMMA UnitStepSkid == [UnitNext]_unitVars => [SP!Next]_(SP!vars)
<1>. SUFFICES ASSUME [UnitNext]_unitVars PROVE [SP!Next]_(SP!vars)
  OBVIOUS
<1>1. CASE UnitUpdate
  BY <1>1, UnitUpdateSkid
<1>2. CASE PathStep
  BY <1>2 DEF PathStep, SlowUpdate, MoveOrder, StopOrder, KeepPointingTo,
              PostLoad, Destroy, SP!vars
<1>3. CASE SkidEnvironment
  BY <1>3, SkidActions DEF SkidEnvironment, SP!Next
<1>4. CASE UnitTerminated \/ UNCHANGED unitVars
  BY <1>4 DEF UnitTerminated, unitVars, SP!vars
<1>. QED
  BY <1>1, <1>2, <1>3, <1>4 DEF UnitNext

-----------------------------------------------------------------------------
(* The theorems.                                                           *)

\* The whole mover never leaks a path id: whichever mode the skid flags
\* select for a frame, the path service holds exactly the mover's path.
THEOREM UnitPathHeldAlone == UnitSpec => []PathHeldAlone
<1>1. UnitSpec => []IInv
  BY InitIInv, NextIInv, UnitInitComponents, UnitStepPath, PTL DEF UnitSpec
<1>2. IInv => PathHeldAlone
  BY DEF IInv, PathHeldAlone, Good
<1>. QED
  BY <1>1, <1>2, PTL

\* The whole mover holds a path only while Active, also across skids,
\* drops and transports.
THEOREM UnitPathOnlyWhileActive == UnitSpec => []PathOnlyWhileActive
<1>1. UnitSpec => []IInv
  BY InitIInv, NextIInv, UnitInitComponents, UnitStepPath, PTL DEF UnitSpec
<1>2. IInv => PathOnlyWhileActive
  BY DEF IInv, PathOnlyWhileActive, Good
<1>. QED
  BY <1>1, <1>2, PTL

\* The whole mover keeps spec section 3's flag invariant: the path code's
\* frames never touch the skid flags, so flying => skidding survives.
THEOREM UnitFlyingImpliesSkidding == UnitSpec => []SP!FlyingImpliesSkidding
<1>1. UnitSpec => []SP!IInv
  BY SP!InitIInv, SP!NextIInv, UnitInitComponents, UnitStepSkid, PTL
  DEF UnitSpec
<1>2. SP!IInv => SP!FlyingImpliesSkidding
  BY DEF SP!IInv
<1>. QED
  BY <1>1, <1>2, PTL

\* The whole mover implements SkidMode under the mapping Mode(u): in no
\* interleaving with the path code does a flying unit return straight to
\* its own control.
THEOREM UnitSkidModeImplemented == UnitSpec => SP!SkidModeRefined
<1>1. UnitSpec => []SP!IInv
  BY SP!InitIInv, SP!NextIInv, UnitInitComponents, UnitStepSkid, PTL
  DEF UnitSpec
<1>2. UnitSpec => [][SP!AbsSkid!Next]_(SP!Mode(u))
  BY <1>1, SP!StepRefined, UnitStepSkid, PTL DEF UnitSpec
<1>3. UnitSpec => SP!AbsSkid!Init
  BY SP!InitRefined, UnitInitComponents DEF UnitSpec
<1>. QED
  BY <1>2, <1>3, PTL DEF SP!SkidModeRefined, SP!AbsSkid!Spec
=============================================================================
