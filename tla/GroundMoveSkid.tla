--------------------------- MODULE GroundMoveSkid ---------------------------
(***************************************************************************)
(* The skid and controlled-drop subsystem of one ground mover             *)
(* (CGroundMoveType::CanApplyImpulse, UpdateSkid, UpdateControlledDrop and *)
(* the mode dispatch at the top of Update, GroundMoveType.cpp).            *)
(*                                                                         *)
(* The state is the set of flags that select the mode of a frame and the   *)
(* physical state the owner is given while it skids: skidding, flying,     *)
(* useHeading, owner->physicalState, oldPhysState and owner->falling.      *)
(* Speeds, spin and terrain are abstracted to the outcome of each test the *)
(* code makes on them (is the impulse upward, did the unit hit the ground, *)
(* is it slow enough to stop, is there air below it).                      *)
(***************************************************************************)

\* CSolidObject::PhysicalState: the states a ground unit is in on its own,
\* and Flying, which only the skid code gives it.
GroundStates == {"OnGround", "Floating", "Hovering"}
PhysStates == GroundStates \cup {"Flying"}

VARIABLES
  u,            \* the mover's skid flags and the owner's physical state
  transported,  \* owner->GetTransporter() != NULL
  beingBuilt    \* owner->beingBuilt

vars == <<u, transported, beingBuilt>>

\* preSkid is a history variable: the physical state the owner had when
\* the current skid began (the state a skid's end is meant to restore).
SkidState == [
  skidding     : BOOLEAN,
  flying       : BOOLEAN,
  useHeading   : BOOLEAN,
  physState    : PhysStates,   \* owner->physicalState
  oldPhysState : PhysStates,
  falling      : BOOLEAN,      \* owner->falling
  preSkid      : PhysStates
]

\* A skid begins or goes on: preSkid records the state at its beginning.
BeginSkid(s) ==
  [s EXCEPT !.skidding = TRUE,
            !.preSkid = IF s.skidding THEN s.preSkid ELSE s.physState]

\* CanApplyImpulse when the impulse is accepted (not being built, not
\* transported, residual impulse above the threshold): the unit skids,
\* heading control is switched off, the current physical state is saved
\* and replaced by Flying; an upward impulse also makes it fly.
Impulsed(s, up) ==
  [BeginSkid(s) EXCEPT !.useHeading = FALSE,
                       !.oldPhysState = s.physState,
                       !.physState = "Flying",
                       !.flying = s.flying \/ up]

\* Mutant: the landing also ends the skid.
LandedStopsSkid(s) ==
  [s EXCEPT !.flying = FALSE, !.skidding = FALSE, !.useHeading = TRUE]

\* Flying, the unit hits the ground: it stops flying but keeps skidding.
Landed(s) == [s EXCEPT !.flying = FALSE]

\* On the ground and slow enough off a slope, the skid ends: heading
\* control is restored and so is the saved physical state.
SkidStopped(s) ==
  [s EXCEPT !.skidding = FALSE, !.useHeading = TRUE,
            !.physState = s.oldPhysState]

\* There is air below the unit: it flies again (skidding, no heading).
Airborne(s) ==
  [s EXCEPT !.flying = TRUE, !.skidding = TRUE, !.useHeading = FALSE]

\* Mutant: the stop test runs after the air test.
SkidResultsStopLast(s) ==
  IF s.flying
  THEN {s, Landed(s)}
  ELSE UNION { {t, SkidStopped(t)} : t \in {s, Airborne(s)} }

\* The flag effects of UpdateSkid.  Flying, the unit either lands or
\* keeps falling.  On the ground it may stop, and then, whether it
\* stopped or not, the air test may send it flying again; a bounce or a
\* slide changes only its speed.
SkidResults(s) ==
  IF s.flying
  THEN {s, Landed(s)}
  ELSE UNION { {t, Airborne(t)} : t \in {s, SkidStopped(s)} }

\* UpdateControlledDrop: the unit falls until it reaches the ground.
DropResults(s) == IF s.falling THEN {s, [s EXCEPT !.falling = FALSE]} ELSE {s}

-----------------------------------------------------------------------------
(* Actions.                                                                *)

\* The constructor sets skidding = flying = false and oldPhysState =
\* OnGround; the owner starts on its own in any ground state.
Init ==
  /\ \E p \in GroundStates :
       u = [skidding |-> FALSE, flying |-> FALSE, useHeading |-> TRUE,
            physState |-> p, oldPhysState |-> "OnGround",
            falling |-> FALSE, preSkid |-> p]
  /\ transported = FALSE
  /\ beingBuilt \in BOOLEAN

\* Update's dispatch: a transported unit does nothing; a unit on too
\* steep a slope starts skidding (only the flag is set); a skidding unit
\* runs UpdateSkid, a falling one UpdateControlledDrop; any other frame
\* leaves the flags alone.
Update ==
  /\ ~transported
  /\ \E onSlope \in BOOLEAN :
       LET s == IF onSlope THEN BeginSkid(u) ELSE u
       IN  u' \in IF s.skidding THEN SkidResults(s)
                  ELSE IF s.falling THEN DropResults(s)
                  ELSE {s}
  /\ UNCHANGED <<transported, beingBuilt>>

\* A weapon, an explosion or a skid collision gives the unit an impulse
\* large enough to be accepted.
ApplyImpulse ==
  /\ ~beingBuilt
  /\ ~transported
  /\ \E up \in BOOLEAN : u' = Impulsed(u, up)
  /\ UNCHANGED <<transported, beingBuilt>>

\* A transporter picks the unit up.
Load ==
  /\ ~transported
  /\ transported' = TRUE
  /\ UNCHANGED <<u, beingBuilt>>

\* A transporter sets the unit down, or drops it from the air.
Unload ==
  /\ transported
  /\ transported' = FALSE
  /\ \E drop \in BOOLEAN : u' = [u EXCEPT !.falling = drop]
  /\ UNCHANGED beingBuilt

\* The unit's construction is finished.
Finish ==
  /\ beingBuilt
  /\ beingBuilt' = FALSE
  /\ UNCHANGED <<u, transported>>

Next == Update \/ ApplyImpulse \/ Load \/ Unload \/ Finish

Spec == Init /\ [][Next]_vars

-----------------------------------------------------------------------------
(* Properties.                                                             *)

TypeOK ==
  /\ u \in SkidState
  /\ transported \in BOOLEAN
  /\ beingBuilt \in BOOLEAN

\* Spec section 3: flying is an airborne sub-mode of a skid; every path
\* out of a skid in UpdateSkid and CanApplyImpulse keeps flying => skidding.
FlyingImpliesSkidding == u.flying => u.skidding

\* Spec section 3: while a unit skids, heading control is off.  Update's
\* slope test (line 217) sets skidding without clearing useHeading.
SkiddingSuppressesHeading == u.skidding => ~u.useHeading

\* Spec section 8, property 7: when a skid ends the physical state the
\* unit had before the skid is restored.  CanApplyImpulse overwrites
\* oldPhysState on every impulse, also during a skid, and the slope test
\* never saves it.
SkidEndRestoresPhysState ==
  [][u.skidding /\ ~u'.skidding => u'.physState = u.preSkid]_vars

\* The refinement mapping: the mode of SkidMode a state of the mover is in.
Mode(s) == IF s.flying THEN "Air" ELSE IF s.skidding THEN "Skid" ELSE "Ground"

AbsSkid == INSTANCE SkidMode WITH mode <- Mode(u)

\* The skid code implements SkidMode: every frame, impulse and transport
\* step is a mode step or leaves the mode alone; in particular UpdateSkid
\* never returns a flying unit to its own control without a landing.
SkidModeRefined == AbsSkid!Spec

=============================================================================
