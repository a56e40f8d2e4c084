------------------------- MODULE GroundMoveSkid_proofs -------------------------
(***************************************************************************)
(* Proofs about the skid subsystem: its type, the flag invariant of spec   *)
(* section 3 (flying => skidding), and that it implements SkidMode.        *)
(***************************************************************************)
EXTENDS GroundMoveSkid, TLAPS

\* The inductive invariant: the type and the flag invariant together.
IInv == TypeOK /\ FlyingImpliesSkidding

\* A skid state that keeps flying => skidding.
Sound(s) == s \in SkidState /\ (s.flying => s.skidding)

-----------------------------------------------------------------------------
(* Each helper maps sound skid states to sound skid states.               *)

LEMMA BeginSkidSound ==
  ASSUME NEW s \in SkidState
  PROVE  Sound(BeginSkid(s)) /\ BeginSkid(s).skidding
BY Zenon DEF Sound, BeginSkid, SkidState, PhysStates

LEMMA ImpulsedSound ==
  ASSUME NEW s \in SkidState, NEW up \in BOOLEAN
  PROVE  Sound(Impulsed(s, up))
<1>1. BeginSkid(s) \in SkidState
  BY BeginSkidSound DEF Sound
<1>2. s.physState \in PhysStates
  BY DEF SkidState
<1>3. (s.flying \/ up) \in BOOLEAN /\ "Flying" \in PhysStates
  BY DEF SkidState, PhysStates
<1>4. Impulsed(s, up) \in SkidState
  BY <1>1, <1>2, <1>3, Zenon DEF Impulsed, SkidState
<1>5. Impulsed(s, up).skidding
  BY <1>1, Zenon DEF Impulsed, BeginSkid, SkidState
<1>. QED
  BY <1>4, <1>5 DEF Sound

LEMMA SkidResultsSound ==
  ASSUME NEW s, Sound(s)
  PROVE  \A t \in SkidResults(s) : Sound(t)
<1>1. CASE s.flying
  <2>1. Sound(Landed(s))
    BY <1>1, Zenon DEF Sound, Landed, SkidState
  <2>. QED
    BY <1>1, <2>1 DEF SkidResults
<1>2. CASE ~s.flying
  <2>1. Sound(SkidStopped(s))
    BY <1>2, Zenon DEF Sound, SkidStopped, SkidState, PhysStates
  <2>2. \A t \in {s, SkidStopped(s)} : Sound(Airborne(t))
    BY <2>1, Zenon DEF Sound, Airborne, SkidState
  <2>. QED
    BY <1>2, <2>1, <2>2 DEF SkidResults
<1>. QED
  BY <1>1, <1>2

LEMMA DropResultsSound ==
  ASSUME NEW s, Sound(s)
  PROVE  \A t \in DropResults(s) : Sound(t)
BY Zenon DEF DropResults, Sound, SkidState

-----------------------------------------------------------------------------
(* The invariant.                                                          *)

LEMMA InitIInv == Init => IInv
<1>. SUFFICES ASSUME Init PROVE IInv
  OBVIOUS
<1>1. PICK p \in GroundStates :
        u = [skidding |-> FALSE, flying |-> FALSE, useHeading |-> TRUE,
             physState |-> p, oldPhysState |-> "OnGround",
             falling |-> FALSE, preSkid |-> p]
  BY DEF Init
<1>2. p \in PhysStates /\ "OnGround" \in PhysStates
  BY DEF PhysStates, GroundStates
<1>3. u \in SkidState
  BY <1>1, <1>2, Zenon DEF SkidState
<1>. QED
  BY <1>1, <1>3, Zenon DEF Init, IInv, TypeOK, FlyingImpliesSkidding

LEMMA UpdateIInv == IInv /\ Update => IInv'
<1>. SUFFICES ASSUME IInv, Update PROVE IInv'
  OBVIOUS
<1>1. Sound(u)
  BY DEF IInv, TypeOK, FlyingImpliesSkidding, Sound
<1>2. PICK onSlope \in BOOLEAN :
        LET s == IF onSlope THEN BeginSkid(u) ELSE u
        IN  u' \in IF s.skidding THEN SkidResults(s)
                   ELSE IF s.falling THEN DropResults(s)
                   ELSE {s}
  BY DEF Update
<1>. DEFINE s == IF onSlope THEN BeginSkid(u) ELSE u
<1>3. Sound(s)
  BY <1>1, BeginSkidSound DEF Sound
<1>4. Sound(u')
  BY <1>2, <1>3, SkidResultsSound, DropResultsSound
<1>. QED
  BY <1>4, Zenon DEF Update, IInv, TypeOK, FlyingImpliesSkidding, Sound

LEMMA NextIInv == IInv /\ [Next]_vars => IInv'
<1>. SUFFICES ASSUME IInv, [Next]_vars PROVE IInv'
  OBVIOUS
<1>1. CASE Update
  BY <1>1, UpdateIInv
<1>2. CASE ApplyImpulse
  <2>1. PICK up \in BOOLEAN : u' = Impulsed(u, up)
    BY <1>2 DEF ApplyImpulse
  <2>2. Sound(u')
    BY <2>1, ImpulsedSound DEF IInv, TypeOK
  <2>. QED
    BY <1>2, <2>2, Zenon DEF ApplyImpulse, IInv, TypeOK,
                            FlyingImpliesSkidding, Sound
<1>3. CASE Unload
  BY <1>3, Zenon DEF Unload, IInv, TypeOK, FlyingImpliesSkidding, SkidState
<1>4. CASE Load \/ Finish \/ UNCHANGED vars
  BY <1>4, Zenon DEF Load, Finish, vars, IInv, TypeOK, FlyingImpliesSkidding
<1>. QED
  BY <1>1, <1>2, <1>3, <1>4 DEF Next

\* Every reachable state is well-typed.
THEOREM TypeCorrect == Spec => []TypeOK
<1>1. IInv => TypeOK
  BY DEF IInv
<1>. QED
  BY <1>1, InitIInv, NextIInv, PTL DEF Spec

\* Spec section 3 holds of the code: a flying unit is always skidding,
\* whatever the order of impulses, landings, stops and slopes.
THEOREM FlyingImpliesSkiddingHolds == Spec => []FlyingImpliesSkidding
<1>1. IInv => FlyingImpliesSkidding
  BY DEF IInv
<1>. QED
  BY <1>1, InitIInv, NextIInv, PTL DEF Spec

-----------------------------------------------------------------------------
(* The refinement: every step is a SkidMode step or keeps the mode.       *)

LEMMA InitRefined == Init => AbsSkid!Init
<1>. SUFFICES ASSUME Init PROVE AbsSkid!Init
  OBVIOUS
<1>1. PICK p \in GroundStates :
        u = [skidding |-> FALSE, flying |-> FALSE, useHeading |-> TRUE,
             physState |-> p, oldPhysState |-> "OnGround",
             falling |-> FALSE, preSkid |-> p]
  BY DEF Init
<1>2. ~u.flying /\ ~u.skidding
  BY <1>1
<1>. QED
  BY <1>2 DEF AbsSkid!Init, Mode

LEMMA StepRefined ==
  IInv /\ [Next]_vars => [AbsSkid!Next]_(Mode(u))
<1>. SUFFICES ASSUME IInv, [Next]_vars PROVE [AbsSkid!Next]_(Mode(u))
  OBVIOUS
<1>. USE DEF AbsSkid!Next, AbsSkid!Slip, AbsSkid!Recover, AbsSkid!Launch,
             AbsSkid!Land
<1>1. CASE Update
  <2>1. PICK onSlope \in BOOLEAN :
          LET s == IF onSlope THEN BeginSkid(u) ELSE u
          IN  u' \in IF s.skidding THEN SkidResults(s)
                     ELSE IF s.falling THEN DropResults(s)
                     ELSE {s}
    BY <1>1 DEF Update
  <2>. DEFINE s == IF onSlope THEN BeginSkid(u) ELSE u
  <2>2. Sound(u) /\ Sound(s)
    BY BeginSkidSound DEF IInv, TypeOK, FlyingImpliesSkidding, Sound
  <2>3. s.flying = u.flying
    BY <2>2, Zenon DEF BeginSkid, Sound, SkidState
  <2>4. CASE s.skidding /\ s.flying
    <3>1. u' \in {s, Landed(s)}
      BY <2>1, <2>4 DEF SkidResults
    <3>2. Mode(u) = "Air" /\ Mode(u') \in {"Air", "Skid"}
      BY <2>2, <2>3, <2>4, <3>1, Zenon DEF Mode, Landed, Sound, SkidState
    <3>. QED
      BY <3>2
  <2>5. CASE s.skidding /\ ~s.flying
    <3>1. \E t \in {s, SkidStopped(s)} : u' \in {t, Airborne(t)}
      BY <2>1, <2>5 DEF SkidResults
    <3>2. Mode(u) # "Air"
      BY <2>3, <2>5 DEF Mode
    <3>3. Mode(u') \in {"Air", "Skid", "Ground"}
      BY DEF Mode
    <3>4. Mode(u) = "Ground" => Mode(u') \in {"Ground", "Skid", "Air"}
      BY <3>3
    <3>5. Mode(u) = "Skid" => Mode(u') \in {"Ground", "Skid", "Air"}
      BY <3>3
    <3>. QED
      BY <3>2, <3>4, <3>5 DEF Mode
  <2>6. CASE ~s.skidding
    <3>1. ~onSlope /\ s = u
      BY <2>6, BeginSkidSound DEF IInv, TypeOK
    <3>2. u' \in DropResults(u) \/ u' = u
      BY <2>1, <2>6, <3>1
    <3>3. Mode(u') = Mode(u)
      BY <2>2, <3>2, Zenon DEF DropResults, Mode, Sound, SkidState
    <3>. QED
      BY <3>3
  <2>. QED
    BY <2>4, <2>5, <2>6
<1>2. CASE ApplyImpulse
  <2>1. PICK up \in BOOLEAN : u' = Impulsed(u, up)
    BY <1>2 DEF ApplyImpulse
  <2>2. u'.skidding /\ u'.flying = (u.flying \/ up)
    BY <2>1, Zenon DEF Impulsed, BeginSkid, IInv, TypeOK, SkidState
  <2>3. u.flying => u.skidding
    BY DEF IInv, FlyingImpliesSkidding
  <2>. QED
    BY <2>2, <2>3 DEF Mode
<1>3. CASE Unload
  <2>1. u'.flying = u.flying /\ u'.skidding = u.skidding
    BY <1>3, Zenon DEF Unload, IInv, TypeOK, SkidState
  <2>. QED
    BY <2>1 DEF Mode
<1>4. CASE Load \/ Finish \/ UNCHANGED vars
  BY <1>4 DEF Load, Finish, vars
<1>. QED
  BY <1>1, <1>2, <1>3, <1>4 DEF Next

\* The skid code implements SkidMode: a flying unit lands into a skid and
\* is never handed back to its own control straight from the air.
THEOREM SkidModeImplemented == Spec => SkidModeRefined
<1>1. Spec => []IInv
  BY InitIInv, NextIInv, PTL DEF Spec
<1>2. Spec => [][AbsSkid!Next]_(Mode(u))
  BY <1>1, StepRefined, PTL DEF Spec
<1>. QED
  BY <1>2, InitRefined, PTL DEF Spec, SkidModeRefined, AbsSkid!Spec
=============================================================================
