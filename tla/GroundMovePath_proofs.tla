----------------------- MODULE GroundMovePath_proofs -----------------------
(***************************************************************************)
(* Proofs about GroundMovePath for every value of the constants: the type  *)
(* invariant and the path-ownership invariants (PathHeldAlone,             *)
(* PathOnlyWhileActive).  Each helper of the model is a lemma saying that  *)
(* it maps a well-formed mover record to well-formed records; the          *)
(* invariant's proof composes them along the handlers.                     *)
(***************************************************************************)
EXTENDS GroundMovePath, TLAPS

\* A mover record whose path bookkeeping is consistent: the service holds
\* exactly the mover's path, and only an Active mover holds one.
Good(s) ==
  /\ s \in MoverState
  /\ s.live = IF s.pathId # NoPath THEN {s.pathId} ELSE {}
  /\ s.pathId # NoPath => s.progressState = "Active"

\* A mover record that holds no path (what StopEngine leaves).
Stopped(s) ==
  /\ s \in MoverState
  /\ s.pathId = NoPath
  /\ s.live = {}

\* The inductive invariant: a consistent mover while the unit lives, an
\* empty path service once it is gone.
IInv ==
  /\ TypeOK
  /\ alive => Good(m)
  /\ ~alive => m.live = {}

-----------------------------------------------------------------------------
(* Lemmas on the helpers.                                                  *)

\* A record that holds no path is consistent whatever its progress state.
LEMMA StoppedGood ==
  ASSUME NEW s, Stopped(s)
  PROVE  Good(s)
BY NoPathAssumption DEF Stopped, Good

\* The saturating counters stay in range.
LEMMA IncDecRange ==
  ASSUME NEW n \in Nat, NEW cap \in Nat, n <= cap
  PROVE  /\ Inc(n, cap) \in 0..cap
         /\ Dec(n) \in 0..cap
BY DEF Inc, Dec

\* A freshly reset frame counter is in range.
LEMMA ZeroSinceRequest == 0 \in 0..(RequestDelay + 1)
BY BoundsAssumption DEF RequestDelay

\* StopEngine releases the held path and leaves the progress state alone.
LEMMA StopEngineStops ==
  ASSUME NEW s, Good(s)
  PROVE  /\ Stopped(StopEngine(s))
         /\ StopEngine(s).progressState = s.progressState
         /\ StopEngine(s).atGoal = s.atGoal
<1>1. CASE s.pathId # NoPath
  BY <1>1 DEF Good, Stopped, StopEngine, MoverState, WpKinds
<1>2. CASE s.pathId = NoPath
  BY <1>2 DEF Good, Stopped, StopEngine, MoverState
<1>. QED
  BY <1>1, <1>2

\* Fail leaves a record without a path.
LEMMA FailStops ==
  ASSUME NEW s, Good(s)
  PROVE  Stopped(Fail(s))
<1>1. Stopped(StopEngine(s))
  BY StopEngineStops
<1>. QED
  BY <1>1 DEF Fail, Stopped, MoverState, ProgressStates

\* GetNewPath, from a stopped Active record, yields consistent records:
\* a fresh id is the only one the service holds, or the mover Failed.
LEMMA GetNewPathGood ==
  ASSUME NEW s, Stopped(s), s.progressState = "Active",
         NEW t \in GetNewPath(s)
  PROVE  Good(t)
<1>1. t = PathRefused(s) \/ \E id \in PathIds \ s.live, c, n \in WpKinds :
                               t = PathFound(s, id, c, n)
  BY DEF GetNewPath
<1>2. CASE t = PathRefused(s)
  <2>1. Stopped(Fail(s))
    BY StoppedGood, FailStops
  <2>. QED
    BY <1>2, <2>1, ZeroSinceRequest, Zenon
       DEF Stopped, MoverState, Good, PathRefused
<1>3. CASE \E id \in PathIds \ s.live, c, n \in WpKinds : t = PathFound(s, id, c, n)
  <2>. PICK id \in PathIds \ s.live, c, n \in WpKinds : t = PathFound(s, id, c, n)
    BY <1>3
  <2>1. t \in MoverState
    BY ZeroSinceRequest, Zenon DEF Stopped, MoverState, PathFound
  <2>2. t.pathId = id /\ t.live = {id} /\ t.progressState = "Active"
    BY Zenon DEF Stopped, MoverState, PathFound
  <2>. QED
    BY <2>1, <2>2, NoPathAssumption DEF Good
<1>. QED
  BY <1>1, <1>2, <1>3

\* A step that only touches waypoints, flags or counters keeps the path
\* bookkeeping.
SameHold(s, t) ==
  /\ t \in MoverState
  /\ t.pathId = s.pathId
  /\ t.live = s.live
  /\ t.progressState = s.progressState

LEMMA SameHoldGood ==
  ASSUME NEW s, NEW t, Good(s), SameHold(s, t)
  PROVE  Good(t)
BY DEF Good, SameHold

\* Raising owner->isMoving after a successful request.
LEMMA LaunchedGood ==
  ASSUME NEW s, Good(s)
  PROVE  Good(Launched(s))
BY Zenon DEF Launched, Good, MoverState

\* StartEngine, on an Active record, yields consistent records.
LEMMA StartEngineGood ==
  ASSUME NEW s, Good(s), s.progressState = "Active",
         NEW t \in StartEngine(s)
  PROVE  Good(t)
<1>1. CASE s.pathId = NoPath /\ ~s.atGoal
  <2>1. Stopped(s)
    BY <1>1 DEF Good, Stopped
  <2>2. PICK u \in GetNewPath(s) : t = Launched(u)
    BY <1>1 DEF StartEngine
  <2>3. Good(u)
    BY <2>1, GetNewPathGood
  <2>. QED
    BY <2>2, <2>3, LaunchedGood
<1>2. CASE ~(s.pathId = NoPath /\ ~s.atGoal)
  BY <1>2 DEF StartEngine
<1>. QED
  BY <1>1, <1>2

\* A repath of an Active record yields consistent records.
LEMMA RepathGood ==
  ASSUME NEW s, Good(s), s.progressState = "Active",
         NEW t \in Repath(s)
  PROVE  Good(t)
<1>1. Good(StopEngine(s)) /\ StopEngine(s).progressState = "Active"
  BY StopEngineStops, StoppedGood
<1>. QED
  BY <1>1, StartEngineGood DEF Repath

\* Arrival stops the engine before the mover becomes Done.
LEMMA ArrivedGood ==
  ASSUME NEW s, Good(s)
  PROVE  Good(Arrived(s))
<1>1. CASE s.progressState = "Active"
  <2>1. Stopped(StopEngine(s))
    BY StopEngineStops
  <2>2. Stopped([StopEngine(s) EXCEPT !.progressState = "Done"])
    BY <2>1, Zenon DEF Stopped, MoverState, ProgressStates
  <2>. QED
    BY <1>1, <2>2, StoppedGood DEF Arrived
<1>. QED
  BY <1>1 DEF Arrived

\* A new goal on a record without a path.
LEMMA NewGoalStopped ==
  ASSUME NEW s, Stopped(s)
  PROVE  Stopped(NewGoal(s)) /\ NewGoal(s).progressState = "Active"
<1>1. 0 \in 0..ShortMax /\ 0 \in 0..MaxIdlingSlowUpdates
  BY BoundsAssumption
<1>. QED
  BY <1>1, Zenon DEF NewGoal, Stopped, MoverState, ProgressStates

\* StartMoving from any consistent record: a mover that is not Active
\* holds no path, an Active one releases it first.
LEMMA StartMovingGood ==
  ASSUME NEW s, Good(s), NEW t \in StartMoving(s)
  PROVE  Good(t)
<1>1. Stopped(IF s.progressState = "Active" THEN StopEngine(s) ELSE s)
  <2>1. CASE s.progressState = "Active"
    BY <2>1, StopEngineStops
  <2>2. CASE s.progressState # "Active"
    BY <2>2 DEF Good, Stopped
  <2>. QED
    BY <2>1, <2>2
<1>. QED
  BY <1>1, NewGoalStopped, StoppedGood, StartEngineGood DEF StartMoving

\* StopMoving leaves no path.
LEMMA StopMovingStopped ==
  ASSUME NEW s, Good(s)
  PROVE  Stopped(StopMoving(s))
<1>1. Stopped(StopEngine(s))
  BY StopEngineStops
<1>. QED
  BY <1>1, Zenon DEF StopMoving, Stopped, MoverState, ProgressStates

\* CanGetNextWayPoint touches only the waypoints and the end latch.
LEMMA CanGetNextWayPointHold ==
  ASSUME NEW s \in MoverState, NEW c \in CanGetNextWayPoint(s)
  PROVE  SameHold(s, c.st) /\ c.adv \in BOOLEAN
<1>1. ASSUME NEW r \in Refreshes(s) PROVE SameHold(s, r)
  <2>1. CASE r = s
    BY <2>1 DEF SameHold
  <2>2. CASE r # s
    <3>1. PICK cw, nw \in WpKinds : r = Refreshed(s, cw, nw)
      BY <2>2 DEF Refreshes
    <3>. QED
      BY <3>1, Zenon DEF Refreshed, SameHold, MoverState
  <2>. QED
    BY <2>1, <2>2
<1>2. ASSUME NEW r, SameHold(s, r), NEW l \in LatchEnd(r)
      PROVE  SameHold(s, l.st) /\ l.adv \in BOOLEAN
  <2>1. SameHold(s, Latched(r))
    BY <1>2, Zenon DEF Latched, SameHold, MoverState, WpKinds
  <2>2. PICK near \in BOOLEAN :
          l = IF r.atEndOfPath \/ near THEN [adv |-> FALSE, st |-> Latched(r)]
                                       ELSE [adv |-> TRUE, st |-> r]
    BY <1>2 DEF LatchEnd
  <2>. QED
    BY <1>2, <2>1, <2>2
<1>3. SameHold(s, s)
  BY DEF SameHold
<1>4. CASE s.currWp # "temp" /\ s.nextWp # "temp"
  <2>1. PICK r \in Refreshes(s) :
          c \in {[adv |-> FALSE, st |-> r]} \cup LatchEnd(r)
    BY <1>4 DEF CanGetNextWayPoint
  <2>2. SameHold(s, r)
    BY <1>1
  <2>3. CASE c = [adv |-> FALSE, st |-> r]
    BY <2>2, <2>3
  <2>4. CASE c \in LatchEnd(r)
    BY <2>2, <2>4, <1>2
  <2>. QED
    BY <2>1, <2>3, <2>4
<1>5. CASE ~(s.currWp # "temp" /\ s.nextWp # "temp")
  <2>1. PICK b \in BOOLEAN : c = [adv |-> b, st |-> s]
    BY <1>5 DEF CanGetNextWayPoint
  <2>. QED
    BY <2>1, <1>3
<1>. QED
  BY <1>4, <1>5

\* So does advancing.
LEMMA AdvancedHold ==
  ASSUME NEW s \in MoverState, NEW t \in Advanced(s)
  PROVE  SameHold(s, t)
<1>1. ASSUME NEW u, SameHold(s, u), NEW k \in WpKinds
      PROVE  SameHold(s, Advance(u, k))
  BY <1>1, Zenon DEF Advance, SameHold, MoverState
<1>. QED
  BY <1>1, CanGetNextWayPointHold DEF Advanced

\* GetNextWayPoint on an Active record yields consistent records.
LEMMA GetNextWayPointGood ==
  ASSUME NEW s, Good(s), s.progressState = "Active",
         NEW t \in GetNextWayPoint(s)
  PROVE  Good(t)
<1>1. PICK u \in Advanced(s) :
         t \in IF u.nextWp = "fail" THEN {Fail(u)} ELSE {u} \cup Repath(u)
  BY DEF GetNextWayPoint
<1>2. Good(u) /\ u.progressState = "Active"
  BY AdvancedHold, SameHoldGood DEF Good, SameHold
<1>. QED
  BY <1>1, <1>2, FailStops, StoppedGood, RepathGood

\* SetMainHeading runs only without a path.
LEMMA SetMainHeadingGood ==
  ASSUME NEW s, Good(s), s.pathId = NoPath, NEW t \in SetMainHeading(s)
  PROVE  Good(t)
<1>1. Stopped(s)
  BY DEF Good, Stopped
<1>2. Stopped(Toggled(s))
  BY <1>1, Zenon DEF Toggled, Stopped, MoverState, ProgressStates
<1>. QED
  BY <1>1, <1>2, StoppedGood DEF SetMainHeading

\* The goal test and the stall counter keep the path bookkeeping.
LEMMA ApproachHold ==
  ASSUME NEW s \in MoverState, NEW near \in BOOLEAN
  PROVE  SameHold(s, Approach(s, near))
<1>1. /\ Inc(s.numIdlingUpdates, ShortMax) \in 0..ShortMax
      /\ Dec(s.numIdlingUpdates) \in 0..ShortMax
  BY IncDecRange, BoundsAssumption DEF MoverState
<1>. QED
  BY <1>1, Zenon DEF Approach, SameHold, MoverState

\* FollowPath yields consistent records.
LEMMA FollowPathGood ==
  ASSUME NEW s, Good(s), NEW t \in FollowPath(s)
  PROVE  Good(t)
<1>1. CASE s.pathId = NoPath
  BY <1>1, SetMainHeadingGood DEF FollowPath
<1>2. CASE s.pathId # NoPath
  <2>1. PICK near \in BOOLEAN :
          t \in IF ~Approach(s, near).atEndOfPath
                THEN GetNextWayPoint(Approach(s, near))
                ELSE IF Approach(s, near).atGoal THEN {Arrived(Approach(s, near))}
                                                ELSE {Approach(s, near)}
    BY <1>2 DEF FollowPath
  <2>2. Good(Approach(s, near)) /\ Approach(s, near).progressState = "Active"
    BY <1>2, ApproachHold, SameHoldGood DEF Good, SameHold
  <2>. QED
    BY <2>1, <2>2, GetNextWayPointGood, ArrivedGood
<1>. QED
  BY <1>1, <1>2

\* One unit collidee yields consistent records.
LEMMA UnitCollisionGood ==
  ASSUME NEW s, Good(s), NEW t \in UnitCollision(s)
  PROVE  Good(t)
<1>1. Good(GoalLocked(s))
  BY Zenon DEF GoalLocked, Good, MoverState
<1>. QED
  BY <1>1, StartMovingGood DEF UnitCollision

\* The unit, feature and terrain collision passes yield consistent records.
LEMMA CollideGood ==
  ASSUME NEW s, Good(s), NEW t \in Collide(s)
  PROVE  Good(t)
<1>1. ASSUME NEW u \in UnitPass(s) PROVE Good(u)
  <2>1. PICK v \in UnitCollision(s) : u \in UnitCollision(v)
    BY DEF UnitPass
  <2>. QED
    BY <2>1, UnitCollisionGood
<1>2. ASSUME NEW u, Good(u), NEW f \in FeaturePass(u) PROVE Good(f)
  BY <1>2, StartMovingGood DEF FeaturePass
<1>3. ASSUME NEW f, Good(f), NEW g \in TerrainPass(f) PROVE Good(g)
  BY <1>3, StartMovingGood DEF TerrainPass
<1>4. PICK f \in UNION { FeaturePass(u) : u \in UnitPass(s) } : t \in TerrainPass(f)
  BY DEF Collide
<1>5. PICK u \in UnitPass(s) : f \in FeaturePass(u)
  BY <1>4
<1>. QED
  BY <1>1, <1>2, <1>3, <1>4, <1>5

\* The idle test after a mode's step.
LEMMA SettleGood ==
  ASSUME NEW s, Good(s), NEW t \in Settle(s)
  PROVE  Good(t)
<1>1. PICK u \in Collide(s), b \in BOOLEAN : t = [u EXCEPT !.idling = b]
  BY DEF Settle
<1>2. Good(u)
  BY CollideGood
<1>. QED
  BY <1>1, <1>2, Zenon DEF Good, MoverState

\* Every mode of Update yields consistent records.
LEMMA UpdateResultsGood ==
  ASSUME NEW s, Good(s), NEW t \in UpdateResults(s)
  PROVE  Good(t)
<1>1. ASSUME NEW b \in BOOLEAN PROVE Good(Steered(s, b))
  BY Zenon DEF Steered, Good, MoverState
<1>2. ASSUME NEW u \in FollowPath(s) PROVE Good(u)
  BY FollowPathGood
<1>3. \/ t = s
      \/ t \in Collide(s)
      \/ t \in Settle(s)
      \/ \E b \in BOOLEAN : t \in Settle(Steered(s, b))
      \/ \E u \in FollowPath(s) : t \in Settle(u)
  BY DEF UpdateResults, ControlledResults
<1>. QED
  BY <1>1, <1>2, <1>3, CollideGood, SettleGood

\* The end of a frame advances the request counter within its cap.
LEMMA EndFrameGood ==
  ASSUME NEW s, Good(s)
  PROVE  Good(EndFrame(s))
<1>1. Inc(s.sinceRequest, RequestDelay + 1) \in 0..(RequestDelay + 1)
  BY IncDecRange, BoundsAssumption DEF Good, MoverState, RequestDelay
<1>. QED
  BY <1>1, Zenon DEF EndFrame, Good, MoverState

\* The stall handling of SlowUpdate on an Active record.
LEMMA StallCheckGood ==
  ASSUME NEW s, Good(s), s.progressState = "Active", NEW t \in StallCheck(s)
  PROVE  Good(t)
<1>1. Good(SlowIdleCount(s)) /\ SlowIdleCount(s).progressState = "Active"
  <2>1. /\ Inc(s.numIdlingSlowUpdates, MaxIdlingSlowUpdates)
             \in 0..MaxIdlingSlowUpdates
        /\ Dec(s.numIdlingSlowUpdates) \in 0..MaxIdlingSlowUpdates
    BY IncDecRange, BoundsAssumption DEF Good, MoverState
  <2>. QED
    BY <2>1, Zenon DEF SlowIdleCount, Good, MoverState
<1>2. CASE s.pathId # NoPath
  <2>1. \/ t \in Repath(SlowIdleCount(s))
        \/ t = Fail(SlowIdleCount(s))
        \/ t = SlowIdleCount(s)
    BY <1>2 DEF StallCheck
  <2>. QED
    BY <1>1, <2>1, RepathGood, FailStops, StoppedGood
<1>3. CASE s.pathId = NoPath
  <2>1. t \in Repath(s) \/ t = s
    BY <1>3 DEF StallCheck
  <2>. QED
    BY <2>1, RepathGood
<1>. QED
  BY <1>2, <1>3

-----------------------------------------------------------------------------
(* The invariant, one action at a time.                                    *)

LEMMA InitIInv == Init => IInv
<1>1. 0 \in 0..SlowRate /\ 0 \in 0..ShortMax /\ 0 \in 0..MaxIdlingSlowUpdates
  BY BoundsAssumption
<1>. SUFFICES ASSUME Init PROVE IInv
  OBVIOUS
<1>2. m \in MoverState
  BY <1>1, ZeroSinceRequest, Zenon DEF Init, MoverState, ProgressStates, WpKinds
<1>3. m.pathId = NoPath /\ m.live = {}
  BY DEF Init
<1>. QED
  BY <1>2, <1>3, <1>1 DEF Init, IInv, TypeOK, Good

\* Every action that leaves alive and transported alone and replaces m by
\* a consistent record keeps the invariant.
LEMMA MoverStep ==
  ASSUME IInv, alive, Good(m'), alive' = alive, transported' = transported,
         phase' \in 0..SlowRate
  PROVE  IInv'
BY DEF IInv, TypeOK, Good

LEMMA UpdateIInv == IInv /\ Update => IInv'
<1>. SUFFICES ASSUME IInv, Update PROVE IInv'
  OBVIOUS
<1>1. Good(m)
  BY DEF IInv, Update
<1>2. phase' \in 0..SlowRate
  BY BoundsAssumption DEF Update, IInv, TypeOK
<1>3. Good(m')
  <2>1. CASE transported
    BY <1>1, <2>1, EndFrameGood DEF Update
  <2>2. CASE ~transported
    BY <1>1, <2>2, EndFrameGood, UpdateResultsGood DEF Update
  <2>. QED
    BY <2>1, <2>2
<1>. QED
  BY <1>2, <1>3, MoverStep DEF Update

LEMMA SlowUpdateIInv == IInv /\ SlowUpdate => IInv'
<1>. SUFFICES ASSUME IInv, SlowUpdate PROVE IInv'
  OBVIOUS
<1>1. Good(m)
  BY DEF IInv, SlowUpdate
<1>2. phase' \in 0..SlowRate
  BY BoundsAssumption DEF SlowUpdate
<1>3. Good(m')
  <2>1. CASE transported /\ m.progressState = "Active"
    BY <1>1, <2>1, StopEngineStops, StoppedGood DEF SlowUpdate
  <2>2. CASE ~transported /\ m.progressState = "Active"
    BY <1>1, <2>2, StallCheckGood DEF SlowUpdate
  <2>3. CASE m.progressState # "Active"
    BY <1>1, <2>3 DEF SlowUpdate
  <2>. QED
    BY <2>1, <2>2, <2>3
<1>. QED
  BY <1>2, <1>3, MoverStep DEF SlowUpdate

LEMMA OrderIInv == IInv /\ (MoveOrder \/ StopOrder \/ KeepPointingTo) => IInv'
<1>. SUFFICES ASSUME IInv, MoveOrder \/ StopOrder \/ KeepPointingTo
              PROVE  IInv'
  OBVIOUS
<1>1. alive /\ Good(m) /\ phase' \in 0..SlowRate
  BY DEF IInv, TypeOK, MoveOrder, StopOrder, KeepPointingTo
<1>2. CASE MoveOrder
  BY <1>1, <1>2, StartMovingGood, MoverStep DEF MoveOrder
<1>3. CASE StopOrder
  BY <1>1, <1>3, StopMovingStopped, StoppedGood, MoverStep DEF StopOrder
<1>4. CASE KeepPointingTo
  <2>1. PICK aggressive, mustTurn \in BOOLEAN :
          m' = [m EXCEPT !.useMainHeading = aggressive,
                         !.progressState =
                            IF aggressive /\ mustTurn THEN "Active" ELSE @]
    BY <1>4 DEF KeepPointingTo
  <2>2. Good(m')
    BY <1>1, <2>1, Zenon DEF Good, MoverState, ProgressStates
  <2>. QED
    BY <1>1, <1>4, <2>2, MoverStep DEF KeepPointingTo
<1>. QED
  BY <1>2, <1>3, <1>4

LEMMA EnvironmentIInv == IInv /\ (Transport \/ PostLoad \/ Destroy \/ Terminated) => IInv'
<1>. SUFFICES ASSUME IInv, Transport \/ PostLoad \/ Destroy \/ Terminated
              PROVE  IInv'
  OBVIOUS
<1>1. CASE Transport
  BY <1>1 DEF Transport, IInv, TypeOK
<1>2. CASE PostLoad
  <2>1. alive /\ Good(m) /\ phase' \in 0..SlowRate
    BY <1>2 DEF IInv, TypeOK, PostLoad
  <2>2. Good(m')
    <3>1. CASE m.pathId # NoPath
      <4>1. PICK id \in PathIds \cup {NoPath} :
              m' = [m EXCEPT !.pathId = id,
                             !.live = IF id = NoPath THEN {} ELSE {id}]
        BY <1>2, <3>1 DEF PostLoad
      <4>. QED
        BY <2>1, <3>1, <4>1, Zenon DEF Good, MoverState
    <3>2. CASE m.pathId = NoPath
      <4>1. m' = [m EXCEPT !.live = {}]
        BY <1>2, <3>2 DEF PostLoad
      <4>. QED
        BY <2>1, <3>2, <4>1 DEF Good, MoverState
    <3>. QED
      BY <3>1, <3>2
  <2>. QED
    BY <1>2, <2>1, <2>2, MoverStep DEF PostLoad
<1>3. CASE Destroy
  <2>1. alive /\ Good(m)
    BY <1>3 DEF IInv, Destroy
  <2>2. m' = [m EXCEPT !.live = {}]
    BY <1>3, <2>1 DEF Destroy, Good
  <2>3. m' \in MoverState
    BY <2>1, <2>2, Zenon DEF Good, MoverState
  <2>4. m'.live = {}
    BY <2>1, <2>2, Zenon DEF Good, MoverState
  <2>. QED
    BY <1>3, <2>3, <2>4 DEF Destroy, IInv, TypeOK
<1>4. CASE Terminated
  BY <1>4 DEF Terminated, vars, IInv, TypeOK, Good
<1>. QED
  BY <1>1, <1>2, <1>3, <1>4

LEMMA NextIInv == IInv /\ [Next]_vars => IInv'
<1>. SUFFICES ASSUME IInv, [Next]_vars PROVE IInv'
  OBVIOUS
<1>1. CASE UNCHANGED vars
  BY <1>1 DEF vars, IInv, TypeOK, Good
<1>. QED
  BY <1>1, UpdateIInv, SlowUpdateIInv, OrderIInv, EnvironmentIInv DEF Next

-----------------------------------------------------------------------------
(* The theorems.                                                           *)

\* The mover's record keeps its type: no handler drives a counter past its
\* cap or leaves a field outside its range.
THEOREM TypeCorrect == Spec => []TypeOK
<1>1. IInv => TypeOK
  BY DEF IInv
<1>. QED
  BY <1>1, InitIInv, NextIInv, PTL DEF Spec

\* PathHeldAlone for every instance: no repath, failure, arrival, stop,
\* collision restart, load or destruction leaks a path id.
THEOREM PathHeldAloneHolds == Spec => []PathHeldAlone
<1>1. IInv => PathHeldAlone
  BY DEF IInv, PathHeldAlone, Good
<1>. QED
  BY <1>1, InitIInv, NextIInv, PTL DEF Spec

\* PathOnlyWhileActive for every instance: every way out of Active
\* releases the path first.
THEOREM PathOnlyWhileActiveHolds == Spec => []PathOnlyWhileActive
<1>1. IInv => PathOnlyWhileActive
  BY DEF IInv, PathOnlyWhileActive, Good
<1>. QED
  BY <1>1, InitIInv, NextIInv, PTL DEF Spec

=============================================================================
