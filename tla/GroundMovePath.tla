--------------------------- MODULE GroundMovePath ---------------------------
(***************************************************************************)
(* The path-request lifecycle of one ground mover (CGroundMoveType in      *)
(* src/rts/Sim/MoveTypes/GroundMoveType.cpp) together with the part of the *)
(* path service it talks to (the set of path ids the service holds live).  *)
(*                                                                         *)
(* The mover's state is one record, m, because the code's handlers are     *)
(* sequences of helper calls (Fail = StopEngine; progressState := Failed,  *)
(* a repath = StopEngine; StartEngine, ...): every helper is an operator   *)
(* from a record to the set of records it can produce, and a handler is    *)
(* their composition.  Geometry (positions, distances, headings, squares)  *)
(* is abstracted to the Boolean outcome of each test the code makes; the   *)
(* path service's answers are nondeterministic.                            *)
(***************************************************************************)
EXTENDS Naturals, FiniteSets

CONSTANTS
  PathIds,               \* the handles the path service can hand out
  NoPath,                \* pathId == 0: no path
  ShortMax,              \* SHORTINT_MAXVALUE: cap of numIdlingUpdates
  IdleLimit,             \* SHORTINT_MAXVALUE / turnRate: the stall threshold
  MaxIdlingSlowUpdates,  \* MAX_IDLING_SLOWUPDATES
  SlowRate               \* UNIT_SLOWUPDATE_RATE: frames between SlowUpdates

ASSUME PathIdsAssumption == IsFiniteSet(PathIds) /\ PathIds # {}
ASSUME NoPathAssumption == NoPath \notin PathIds
ASSUME BoundsAssumption ==
  /\ ShortMax \in Nat \ {0}
  /\ IdleLimit \in 0..(ShortMax - 1)
  /\ MaxIdlingSlowUpdates \in Nat \ {0}
  /\ SlowRate \in Nat \ {0}

\* pathRequestDelay = frameNum + (UNIT_SLOWUPDATE_RATE << 1): the number of
\* frames that must pass before "frameNum > pathRequestDelay" holds again.
RequestDelay == 2 * SlowRate

\* A waypoint as the controller tells them apart: a real square, a
\* temporary one (y == -1, the pathfinder is still searching) or the
\* failure sentinel (x == -1 and z == -1).
WpKinds == {"real", "temp", "fail"}

ProgressStates == {"Done", "Active", "Failed"}

VARIABLES
  m,            \* the mover's fields and the path service's live ids
  transported,  \* owner->GetTransporter() != NULL
  alive,        \* the unit (and with it its move type) exists
  phase         \* Updates since the last SlowUpdate

vars == <<m, transported, alive, phase>>

MoverState == [
  progressState        : ProgressStates,
  pathId               : PathIds \cup {NoPath},
  live                 : SUBSET PathIds,   \* ids the path service holds
  atGoal               : BOOLEAN,
  atEndOfPath          : BOOLEAN,
  currWp               : WpKinds,
  nextWp               : WpKinds,
  idling               : BOOLEAN,
  numIdlingUpdates     : 0..ShortMax,
  numIdlingSlowUpdates : 0..MaxIdlingSlowUpdates,
  sinceRequest         : 0..(RequestDelay + 1), \* frames since GetNewPath
  isMoving             : BOOLEAN,          \* owner->isMoving
  useMainHeading       : BOOLEAN
]

Inc(n, cap) == IF n + 1 > cap THEN cap ELSE n + 1
Dec(n) == IF n = 0 THEN 0 ELSE n - 1

-----------------------------------------------------------------------------
(* The engine: StopEngine, GetNewPath, StartEngine, Arrived, Fail.         *)

\* Mutant: StopEngine that forgets pathManager->DeletePath.
StopEngineKeepsPath(s) ==
  IF s.pathId # NoPath
  THEN [s EXCEPT !.pathId = NoPath,
                 !.currWp = IF s.atGoal THEN @ ELSE "real", !.isMoving = FALSE]
  ELSE [s EXCEPT !.isMoving = FALSE]

\* StopEngine: delete the held path; Here() (a real square) becomes the
\* current waypoint unless we are at the goal.
StopEngine(s) ==
  IF s.pathId # NoPath
  THEN [s EXCEPT !.live = @ \ {s.pathId}, !.pathId = NoPath,
                 !.currWp = IF s.atGoal THEN @ ELSE "real",
                 !.isMoving = FALSE]
  ELSE [s EXCEPT !.isMoving = FALSE]

\* Fail: stop and enter Failed (UnitMoveFailed is published).
Fail(s) == [StopEngine(s) EXCEPT !.progressState = "Failed"]

\* GetNewPath's two outcomes: RequestPath hands out an id it does not
\* hold and both waypoints are fetched, or it returns 0 and we Fail.
\* Either way the next case-B request is delayed.
PathFound(s, id, c, n) ==
  [s EXCEPT !.pathId = id, !.live = @ \cup {id},
            !.atGoal = FALSE, !.atEndOfPath = FALSE,
            !.currWp = c, !.nextWp = n, !.sinceRequest = 0]
PathRefused(s) == [Fail(s) EXCEPT !.sinceRequest = 0]

\* GetNewPath.
GetNewPath(s) ==
  {PathFound(s, id, c, n) : id \in PathIds \ s.live, c \in WpKinds, n \in WpKinds}
  \cup {PathRefused(s)}

\* StartEngine: request a path only without one and away from the goal;
\* owner->isMoving is raised only if a path was found.
Launched(t) == IF t.pathId # NoPath THEN [t EXCEPT !.isMoving = TRUE] ELSE t

StartEngine(s) ==
  IF s.pathId = NoPath /\ ~s.atGoal
  THEN {Launched(t) : t \in GetNewPath(s)}
  ELSE {s}

\* The "StopEngine(); StartEngine();" pair the code uses to repath.
Repath(s) == StartEngine(StopEngine(s))

\* Mutant: Arrived that becomes Done without StopEngine.
ArrivedKeepsPath(s) ==
  IF s.progressState = "Active" THEN [s EXCEPT !.progressState = "Done"] ELSE s

\* Arrived: only an Active mover arrives.
Arrived(s) ==
  IF s.progressState = "Active"
  THEN [StopEngine(s) EXCEPT !.progressState = "Done"]
  ELSE s

\* StartMoving(goal, radius[, speed]): an Active mover first stops its
\* engine; the new goal clears the goal flags and the stall counters.
NewGoal(t) ==
  [t EXCEPT !.atGoal = FALSE, !.useMainHeading = FALSE,
            !.progressState = "Active",
            !.numIdlingUpdates = 0, !.numIdlingSlowUpdates = 0]

StartMoving(s) ==
  StartEngine(NewGoal(IF s.progressState = "Active" THEN StopEngine(s) ELSE s))

\* StopMoving.
StopMoving(s) ==
  [StopEngine(s) EXCEPT !.useMainHeading = FALSE, !.progressState = "Done"]

-----------------------------------------------------------------------------
(* Waypoint progression: CanGetNextWayPoint and GetNextWayPoint.           *)

\* The end-of-path latch: when currWayPoint lies within the goal radius
\* (near), both waypoints are clamped to goalPos and we do not advance.
Latched(s) ==
  [s EXCEPT !.atEndOfPath = TRUE, !.currWp = "real", !.nextWp = "real"]

LatchEnd(s) ==
  { IF s.atEndOfPath \/ near THEN [adv |-> FALSE, st |-> Latched(s)]
                             ELSE [adv |-> TRUE, st |-> s] : near \in BOOLEAN }

\* An updated path (pathManager->PathUpdated) refreshes both waypoints.
Refreshed(s, c, n) == [s EXCEPT !.currWp = c, !.nextWp = n]

Refreshes(s) == {s} \cup {Refreshed(s, c, n) : c, n \in WpKinds}

\* CanGetNextWayPoint: with two non-temporary waypoints, the refresh; the
\* path controller, the turn-radius, alignment and obstacle-rectangle tests
\* may refuse to advance; then the end-of-path latch.  With a temporary
\* waypoint only the path controller's AllowSetTempGoalPosition is asked.
CanGetNextWayPoint(s) ==
  IF s.currWp # "temp" /\ s.nextWp # "temp"
  THEN UNION { {[adv |-> FALSE, st |-> r]} \cup LatchEnd(r) : r \in Refreshes(s) }
  ELSE {[adv |-> b, st |-> s] : b \in BOOLEAN}

\* Advancing: next becomes current and a new next is fetched.
Advance(s, k) == [s EXCEPT !.currWp = s.nextWp, !.nextWp = k]

Advanced(s) ==
  UNION { IF c.adv THEN {Advance(c.st, k) : k \in WpKinds} ELSE {c.st} :
            c \in CanGetNextWayPoint(s) }

\* GetNextWayPoint: after advancing, Fail on the failure sentinel, or
\* repath when a waypoint square is blocked by a structure.
GetNextWayPoint(s) ==
  UNION { IF t.nextWp = "fail" THEN {Fail(t)} ELSE {t} \cup Repath(t) :
            t \in Advanced(s) }

\* SetMainHeading, for a mover without a path that keeps its weapon
\* pointed: an Active one becomes Done when aligned, an idle one becomes
\* Active when it must turn and cannot target.
Toggled(s) ==
  [s EXCEPT !.progressState = IF @ = "Active" THEN "Done" ELSE "Active"]

SetMainHeading(s) == IF s.useMainHeading THEN {s, Toggled(s)} ELSE {s}

\* Mutant: the stall counter without std::min(SHORTINT_MAXVALUE, ...).
ApproachUncapped(s, near) ==
  [s EXCEPT !.atGoal = s.atGoal \/ near,
            !.numIdlingUpdates =
               IF s.atGoal \/ near THEN @
               ELSE IF s.idling THEN @ + 1 ELSE Dec(@)]

\* FollowPath's goal test (near) and stall counter: numIdlingUpdates rises
\* while idling and falls otherwise, and is left alone at the goal.
Approach(s, near) ==
  [s EXCEPT !.atGoal = s.atGoal \/ near,
            !.numIdlingUpdates =
               IF s.atGoal \/ near THEN @
               ELSE IF s.idling THEN Inc(@, ShortMax) ELSE Dec(@)]

\* FollowPath: waypoint progression before the end of the path, arrival
\* at the goal after it.
FollowPath(s) ==
  IF s.pathId = NoPath THEN SetMainHeading(s)
  ELSE UNION { LET t == Approach(s, near)
               IN  IF ~t.atEndOfPath THEN GetNextWayPoint(t)
                   ELSE IF t.atGoal THEN {Arrived(t)} ELSE {t} :
                 near \in BOOLEAN }

-----------------------------------------------------------------------------
(* Collisions: the parts of HandleObjectCollisions that reach the path     *)
(* lifecycle.                                                              *)

\* The goal-lock: the collidee shares our goal and is Done and idle while
\* we are Active and moving, so we take the goal as reached.
GoalLocked(s) == [s EXCEPT !.atGoal = TRUE, !.atEndOfPath = TRUE]

\* One unit collidee (HandleUnitCollisions): no effect on the path state,
\* the goal-lock, or a static collision that restarts the move once the
\* request delay has passed (canRequestPath = frameNum > pathRequestDelay).
UnitCollision(s) ==
  {s}
  \cup (IF s.isMoving /\ s.progressState = "Active" THEN {GoalLocked(s)} ELSE {})
  \cup (IF s.sinceRequest > RequestDelay THEN StartMoving(s) ELSE {})

\* The loop over the nearby units.  Two collidees give every order of the
\* two effects: a restart resets the delay, so it happens once a frame,
\* and a repeated lock changes nothing.
UnitPass(s) == UNION { UnitCollision(u) : u \in UnitCollision(s) }

\* HandleFeatureCollisions: a moving feature is a static collision under
\* the same request delay.
FeaturePass(s) ==
  {s} \cup (IF s.sinceRequest > RequestDelay THEN StartMoving(s) ELSE {})

\* The terrain pass (canRequestPath = true) restarts a moving mover that
\* has a blocked square ahead.
TerrainPass(s) == {s} \cup (IF s.isMoving THEN StartMoving(s) ELSE {})

\* HandleObjectCollisions: units, then features, then the terrain.
Collide(s) ==
  UNION { TerrainPass(f) : f \in UNION { FeaturePass(u) : u \in UnitPass(s) } }

\* The end of a frame: frameNum advances.
EndFrame(s) == [s EXCEPT !.sinceRequest = Inc(@, RequestDelay + 1)]

\* The rest of Update after the mode's own step: the idle test compares
\* the position with oldPos (its geometry is abstracted, so either result).
Settle(s) == { [t EXCEPT !.idling = b] : t \in Collide(s), b \in BOOLEAN }

\* Under direct control the player's keys set owner->isMoving.
Steered(s, b) == [s EXCEPT !.isMoving = b]

\* The frames in which the unit is not skidding or falling: stunned or
\* being built, under direct control, or following the path; each ends
\* with the collision passes and the idle test.
ControlledResults(s) ==
       Settle(s)                                          \* stunned
  \cup (UNION { Settle(Steered(s, b)) : b \in BOOLEAN })  \* direct
  \cup (UNION { Settle(t) : t \in FollowPath(s) })        \* follow

\* Update in each of its modes: skidding (UpdateSkid, which handles
\* collisions when the skid ends), falling (UpdateControlledDrop), or a
\* controlled frame.  GroundMoveUnit selects the mode from the skid flags.
UpdateResults(s) ==
     {s}                                                 \* skid or drop
  \cup Collide(s)                                        \* skid ends
  \cup ControlledResults(s)

-----------------------------------------------------------------------------
(* Actions.                                                                *)

Init ==
  /\ m = [progressState |-> "Done", pathId |-> NoPath, live |-> {},
          atGoal |-> FALSE, atEndOfPath |-> FALSE,
          currWp |-> "real", nextWp |-> "real", idling |-> FALSE,
          numIdlingUpdates |-> 0, numIdlingSlowUpdates |-> 0,
          sinceRequest |-> 0, isMoving |-> FALSE, useMainHeading |-> FALSE]
  /\ transported = FALSE
  /\ alive = TRUE
  /\ phase = 0

\* CGroundMoveType::Update, one frame.
Update ==
  /\ alive
  /\ phase < SlowRate
  /\ phase' = phase + 1
  /\ IF transported
     THEN m' = EndFrame(m)
     ELSE \E t \in UpdateResults(m) : m' = EndFrame(t)
  /\ UNCHANGED <<transported, alive>>

\* The stall handling of SlowUpdate (case A: a path but no progress;
\* case B: no path).
SlowIdleCount(s) ==
  [s EXCEPT !.numIdlingSlowUpdates =
              IF s.idling THEN Inc(@, MaxIdlingSlowUpdates) ELSE Dec(@)]

\* Mutant: SlowUpdate without case B (no re-request without a path).
StallCheckNoRetry(s) ==
  IF s.pathId # NoPath
  THEN LET t == SlowIdleCount(s)
       IN  IF t.numIdlingUpdates > IdleLimit
           THEN IF t.numIdlingSlowUpdates < MaxIdlingSlowUpdates
                THEN Repath(t) ELSE {Fail(t)}
           ELSE {t}
  ELSE {s}

StallCheck(s) ==
  IF s.pathId # NoPath
  THEN LET t == SlowIdleCount(s)
       IN  IF t.numIdlingUpdates > IdleLimit
           THEN IF t.numIdlingSlowUpdates < MaxIdlingSlowUpdates
                THEN Repath(t) ELSE {Fail(t)}
           ELSE {t}
  ELSE IF s.sinceRequest > RequestDelay THEN Repath(s) ELSE {s}

\* CGroundMoveType::SlowUpdate, every SlowRate frames.
SlowUpdate ==
  /\ alive
  /\ phase = SlowRate
  /\ phase' = 0
  /\ IF transported
     THEN m' = IF m.progressState = "Active" THEN StopEngine(m) ELSE m
     ELSE IF m.progressState = "Active"
          THEN m' \in StallCheck(m)
          ELSE m' = m
  /\ UNCHANGED <<transported, alive>>

\* A move order: StartMoving from the command AI.
MoveOrder ==
  /\ alive
  /\ m' \in StartMoving(m)
  /\ UNCHANGED <<transported, alive, phase>>

\* A stop order: StopMoving from the command AI.
StopOrder ==
  /\ alive
  /\ m' = StopMoving(m)
  /\ UNCHANGED <<transported, alive, phase>>

\* KeepPointingTo(pos, distance, aggressive): an aggressive call on a
\* mover that must turn and cannot target makes it Active (without a path).
KeepPointingTo ==
  /\ alive
  /\ \E aggressive, mustTurn \in BOOLEAN :
       m' = [m EXCEPT !.useMainHeading = aggressive,
                      !.progressState =
                         IF aggressive /\ mustTurn THEN "Active" ELSE @]
  /\ UNCHANGED <<transported, alive, phase>>

\* The unit is loaded into or unloaded from a transporter.
Transport ==
  /\ alive
  /\ transported' = ~transported
  /\ UNCHANGED <<m, alive, phase>>

\* A saved game is loaded (PostLoad): the path service starts empty and a
\* held path is re-requested (the answer may be 0, which is not checked).
PostLoad ==
  /\ alive
  /\ IF m.pathId # NoPath
     THEN \E id \in PathIds \cup {NoPath} :
            m' = [m EXCEPT !.pathId = id,
                           !.live = IF id = NoPath THEN {} ELSE {id}]
     ELSE m' = [m EXCEPT !.live = {}]
  /\ UNCHANGED <<transported, alive, phase>>

\* The unit dies: ~CGroundMoveType deletes a held path.
Destroy ==
  /\ alive
  /\ alive' = FALSE
  /\ m' = [m EXCEPT !.live = @ \ {m.pathId}]
  /\ UNCHANGED <<transported, phase>>

\* After the unit is gone nothing happens.
Terminated == ~alive /\ UNCHANGED vars

Next ==
  \/ Update \/ SlowUpdate
  \/ MoveOrder \/ StopOrder \/ KeepPointingTo
  \/ Transport \/ PostLoad \/ Destroy
  \/ Terminated

\* The simulation loop calls Update every frame and SlowUpdate every
\* SlowRate frames; orders, transport and loading come from outside and
\* are not assumed to happen.  Fairness is stated on the frame clock:
\* FrameStep (SlowStep) steps of Next are exactly its Update (SlowUpdate)
\* steps, and since UpdateResults(m) always contains m and StallCheck(m)
\* is never empty, FrameStep (SlowStep) is enabled exactly when Update
\* (SlowUpdate) is.  So this is WF_vars(Update) /\ WF_vars(SlowUpdate),
\* in a form TLC evaluates without recomputing a handler on every edge.
FrameStep == alive /\ phase < SlowRate /\ phase' = phase + 1
SlowStep == alive /\ phase = SlowRate /\ phase' = 0

Fairness == WF_phase(FrameStep) /\ WF_phase(SlowStep)

Spec == Init /\ [][Next]_vars /\ Fairness

-----------------------------------------------------------------------------
(* Properties.                                                             *)

TypeOK ==
  /\ m \in MoverState
  /\ transported \in BOOLEAN
  /\ alive \in BOOLEAN
  /\ phase \in 0..SlowRate

\* The path service holds exactly the path the mover holds, and nothing
\* once the unit is gone: StopEngine deletes before every new request
\* (GetNewPath asserts pathId == 0), the destructor deletes, and a
\* loaded game re-requests into an empty service.  A path would leak if
\* any repath, failure or arrival left the old id live.
PathHeldAlone ==
  m.live = IF alive /\ m.pathId # NoPath THEN {m.pathId} ELSE {}

\* A mover holds a path only while its progress state is Active: every
\* way out of Active (Arrived, Fail, StopMoving, SetMainHeading, the
\* transporter case of SlowUpdate) stops the engine first.
PathOnlyWhileActive ==
  alive /\ m.pathId # NoPath => m.progressState = "Active"

\* SlowUpdate's case B: a mover that wants to move, is away from its goal
\* and has no path gets one, fails, or is taken off the move (or into a
\* transporter) -- the request delay only postpones the retry.
PathRequestRetried ==
  (alive /\ ~transported /\ m.progressState = "Active"
         /\ m.pathId = NoPath /\ ~m.atGoal)
    ~> (~alive \/ transported \/ m.progressState # "Active"
               \/ m.pathId # NoPath \/ m.atGoal)

\* Spec section 3: "while progress_state == Active and path_id == 0, a
\* request is pending or delayed", i.e. an Active mover without a path
\* (and not just turning toward a target) eventually has one or leaves
\* Active.
ActiveWithoutPathRecovers ==
  (alive /\ ~transported /\ m.progressState = "Active"
         /\ m.pathId = NoPath /\ ~m.useMainHeading)
    ~> (~alive \/ transported \/ m.progressState # "Active"
               \/ m.pathId # NoPath)

\* The command AI's calls into the move type.
Order == MoveOrder \/ StopOrder \/ KeepPointingTo

\* Spec section 7: after NoPathAvailable (or the stall or terminal-waypoint
\* failure) "no retry within the same move order" -- only a new call from
\* the command AI takes the mover out of Failed, so each order publishes
\* UnitMoveFailed at most once (S6).
FailedUntilNextOrder ==
  [][m.progressState = "Failed" /\ m'.progressState # "Failed" => Order]_vars

=============================================================================
