# Formal model of the ground move type

This directory holds TLA+ models of the locomotion code of the Spring RTS engine
that this repository carries: `CGroundMoveType`
(`src/rts/Sim/MoveTypes/GroundMoveType.{h,cpp}`). It also covers the event
dispatch it publishes to (`src/rts/System/EventHandler.h`, and the client
interface in `src/unnamed/part_000`) and the tree drawer interface
(`src/rts/Rendering/Env/ITreeDrawer.*`).

## 1. The system and its parts

| Part | Source | What it does | Status |
|---|---|---|---|
| Path lifecycle | GroundMoveType.cpp 130-500, 1188-1477, 2051-2141 | `StartMoving`/`StopMoving` (orders), `StartEngine`/`StopEngine`/`GetNewPath` (requests and releases a path id from the path manager), `FollowPath`/`CanGetNextWayPoint`/`GetNextWayPoint` (waypoint following, temporary waypoints, repath on a structure-blocked square), `Arrived`, `Fail`, `SlowUpdate` (stall detection: case A counts idle slow updates and fails, case B re-requests a missing path after `pathRequestDelay`), `SetMainHeading`, `KeepPointingTo`, `PostLoad`, destructor | modelled (`GroundMovePath`) |
| Collision response | 1482-1949 | `HandleObjectCollisions` runs the unit, feature and terrain passes. A static collision can call `StartMoving` (1655). A collision with a unit that sits on the goal can latch `atGoal` (1779-1792). | partly: the path effects only |
| Direct control | 2207-2245 | `UpdateDirectControl` turns the player's keys into `owner->isMoving` and waypoints | partly: the `isMoving` effect only |
| Skid and drop physics | 208-231, 624-829 | The slope start in `Update`, `CanApplyImpulse`, `UpdateSkid`, `UpdateControlledDrop` | modelled (`GroundMoveSkid`, abstract `SkidMode`); the spin and ballistic arithmetic is abstracted |
| Speed and heading | 502-620, 1000-1180 | `ChangeSpeed`, `ChangeHeading`, `BrakingDistance`, `UpdateOwnerPos` | partly (`GroundMoveHeading`): the short heading arithmetic and the turn-slowdown test; the float kinematics are not modelled |
| Obstacle avoidance | `GetObstacleAvoidanceDir` | Vector geometry over the spatial index | not modelled |
| Line table | `CreateLineTable` | A static table of grid lines | not modelled (planned: pure algorithm) |
| Event dispatch | EventHandler.h 381-918 | One loop over the client list per call-in (`UnitMoved`, `UnitMoveFailed`, `UnitUnitCollision`, ...) | modelled (`EventDispatch`); `AddClient`/`RemoveClient`/`ListInsert`/`ListRemove` are outside this source and are modelled from their contract |
| Event client | part_000 | The routing (`GetReadAllyTeam`, `GetFullRead`, `CanReadAllyTeam`) and empty virtual call-ins | partly: the routing, in `EventDispatch` |
| Tree drawer | ITreeDrawer | Rendering configuration | not modelled: no locomotion state |
| The whole mover | | `GroundMovePath` and `GroundMoveSkid` together | composed in `GroundMoveUnit` |

How the parts interact:

- The simulation calls `Update` every frame and `SlowUpdate` every `UNIT_SLOWUPDATE_RATE` frames.
- `Update` branches as follows:
  - it returns early when the unit is transported, skidding or falling;
  - it does nothing when the unit is stunned;
  - otherwise it runs direct control or `FollowPath`.
- Then, whatever the mode, it runs the collision passes and the idle test.
- Orders from the command AI (`StartMoving`, `StopMoving`, `KeepPointingTo`) arrive between frames.
- The path manager hands out path ids, and a path id stays live until `DeletePath` is called.
- Weapons, explosions and skid collisions call `CanApplyImpulse` between frames; from then on the skid flags decide the mode of every frame until the skid ends.
- Every event the mover publishes (`UnitMoved`, `UnitMoveFailed`, the collision events) goes through one of the call-in loops of `CEventHandler`, which call client code synchronously.

## 2. Module `GroundMovePath`

### State

- **`m`** is a record with the fields of `CGroundMoveType` that the path lifecycle reads or writes:
  - `progressState`, `pathId` and `atGoal`;
  - `atEndOfPath`;
  - the kinds of `currWayPoint` and `nextWayPoint`: real, temporary or failed;
  - `idling`;
  - `numIdlingUpdates`, saturated at `ShortMax`;
  - `numIdlingSlowUpdates`;
  - `useMainHeading` and `owner->isMoving`;
  - `sinceRequest`, the number of frames since `pathRequestDelay` was set, saturated one past `RequestDelay = 2*SlowRate`;
  - `live`, the set of path ids the path manager holds for this unit.
- **`transported`**, **`alive`**, and **`phase`** (the frame clock of the slow update).

### Data abstraction

- Geometry is reduced to the Boolean outcome of each test:
  - whether the goal is near;
  - whether a waypoint square is blocked;
  - whether a collision is resolved by a restart;
  - whether the unit moved.
- Path ids are model values (`PathIds`), and `NoPath` stands for 0.

### Structure of the module

- **Helpers.** Each helper (`GetNewPath`, `StartEngine`, `StopEngine`, `Arrived`, `Fail`, `FollowPath`, `CanGetNextWayPoint`, `GetNextWayPoint`, `SetMainHeading`, the collision passes) maps a record to the set of records the C++ function can leave.
- **Actions.** A handler's action composes the helpers in the order of the code:
  - `Update` is `UpdateResults`, the union over its modes of the mode's step followed by `Collide` and the idle test.
  - `SlowUpdate` is the transporter case, case A and case B.
  - The other actions are `MoveOrder` (`StartMoving`), `StopOrder`, `KeepPointingTo` and `PostLoad`.
  - `Destroy` is the destructor. `Transport` models a transporter picking the unit up or setting it down.
- The map in `PROJECT.json` names the lines of each definition.

### Fairness

- The engine calls `Update` and `SlowUpdate` unconditionally, so both are weakly fair.
- Orders, transport, loading and destruction are left unfair.
- The module states this fairness as `WF_phase(FrameStep) /\ WF_phase(SlowStep)`, where `FrameStep` and `SlowStep` are the clock parts of the two actions. This is the same as `WF_vars(Update) /\ WF_vars(SlowUpdate)`:
  - the only steps of `Next` that advance `phase` below `SlowRate` are `Update` steps;
  - `Update` is enabled exactly when `FrameStep` is, because `UpdateResults(m)` always contains `m` (the skid frame);
  - the same holds for `SlowUpdate` and `SlowStep`, because `StallCheck` is never empty.
- This form lets TLC evaluate fairness on the clock alone rather than recomputing every successor of `Update`.

## 3. Runs (`MC_GroundMovePath`, cfgs `MC_GroundMovePath_*.cfg`)

Bounds:

- two path ids (no symmetry, because the run also checks a liveness property);
- `ShortMax = 2`, `IdleLimit = 1`, `MaxIdlingSlowUpdates = 2`, `SlowRate = 1`.

Why these bounds are enough:

- Two ids are the fewest for which a leaked or doubly held path is visible.
- Two idle slow updates reach both the fail branch and its reset.
- With `SlowRate = 1`, the request delay of two slow updates still separates a delayed request from a due one.
- The `path_safety` run reaches 177,560 distinct states, and every action and every branch fires.

| Run | Checks | Result |
|---|---|---|
| `path_safety` | `TypeOK`; `PathHeldAlone` (the path manager holds exactly the mover's path while it lives, nothing afterwards); `PathOnlyWhileActive`; `PathRequestRetried` (an Active mover without a path and not at its goal eventually gets a path, fails or leaves Active) | holds, the last under the fairness above |
| `active_without_path` | `ActiveWithoutPathRecovers` (spec §3: while Active with no path, a request is pending or delayed, so a path eventually comes) | **violated** |
| `failed_until_order` | `FailedUntilNextOrder` (spec §7 and S6: no retry, and one `UnitMoveFailed`, per move order) | **violated** |

### What the violations show (the findings in PROJECT.json)

**`active_without_path`.** `StartEngine` skips the request when `atGoal` is set, and `Arrived` is reached only when a path is held. As a result, a mover that is Active with no path and `atGoal` set stays Active forever. Three routes lead there:

- a repath after `atGoal` was latched, either in case A of `SlowUpdate` or from a blocked waypoint in `GetNextWayPoint`;
- `PostLoad` receiving 0 (this is the trace TLC printed, after a goal-lock set by a unit collision).

**`failed_until_order`.** `HandleStaticObjectCollision` restarts the move (`StartMoving`, line 1655) whatever the progress state is. This happens in the terrain pass of a moving unit, for example under direct control, and in the unit and feature passes after the request delay. A Failed unit thus becomes Active again with no new order and can fail a second time.

## 4. Proofs (`GroundMovePath_proofs`)

`tlapm` checks every obligation of the module. The module proves the following for every value of the constants that satisfies the module's `ASSUME`s:

- `TypeCorrect`: `Spec => []TypeOK`;
- `PathHeldAloneHolds`: `Spec => []PathHeldAlone`;
- `PathOnlyWhileActiveHolds`: `Spec => []PathOnlyWhileActive`.

The assumptions are:

- path ids are a set without `NoPath`;
- the bounds are positive naturals.

### Why a stronger invariant is needed

`TypeOK` alone is not inductive: a helper applied to an ill-formed record may produce one that holds two paths.

The proof uses `IInv == TypeOK /\ (alive => Good(m)) /\ (~alive => m.live = {})`. Here `Good(s)` says:

- `live` is exactly `{pathId}` when a path is held, and empty otherwise;
- a path is held only while Active.

### Argument

- **Lemmas on helpers.** One lemma per helper states what it returns from a `Good` record:
  - `StopEngine` and `Fail` return a stopped record, with no path and nothing live;
  - `GetNewPath` from a stopped record returns a `Good` one;
  - `StartEngine` needs an Active record;
  - the waypoint helpers keep the path, the live set and the state (`SameHold`);
  - the collision passes map `Good` to `Good`.
- **Lemmas per action.** Each action lemma is proved from the helper lemmas. `NextIInv` combines them.
- **The theorems** follow by `PTL` from `InitIInv` and `NextIInv`.

### What stays with TLC

- Liveness (`PathRequestRetried`) and the two violated properties are model-checked only. TLAPS does not handle fairness or `ENABLED` here.
- The proofs cover the path lifecycle model only. The not-modelled parts above are neither checked nor proved.

## 5. Module `GroundMoveSkid` and its abstraction `SkidMode`

### State and actions

- **`u`** is a record with the skid flags of `CGroundMoveType` and the owner's physical state:
  - `skidding`, `flying` and `useHeading`;
  - `physState` (`owner->physicalState`) and `oldPhysState`;
  - `falling` (`owner->falling`);
  - `preSkid`, a history variable: the physical state the unit had when the current skid began.
- **`transported`** and **`beingBuilt`** are the two guards of `CanApplyImpulse`.
- The helpers map a record to a record or a set of records:
  - `BeginSkid` is the slope start (line 217);
  - `Impulsed` is an accepted impulse (641-666);
  - `Landed`, `SkidStopped` and `Airborne` are the three flag changes of `UpdateSkid`;
  - `SkidResults` combines them in the code's order: stop test first, then the air test;
  - `DropResults` is `UpdateControlledDrop`.
- The actions are:
  - `Update`, the dispatch of lines 208-231;
  - `ApplyImpulse`;
  - `Load`, `Unload` (with or without a drop) and `Finish`. The transport and construction code is not in this source, so these three are modelled from their effect.
- Speeds, spin and terrain are reduced to the outcome of each test: is the impulse upward, did the unit hit the ground, is it slow enough to stop, is there air below it.

### The abstraction

- `SkidMode` has one variable, `mode`, with the values Ground, Skid and Air. Its steps are:
  - `Slip`: Ground to Skid or Air;
  - `Recover`: Skid to Ground;
  - `Launch`: Skid to Air;
  - `Land`: Air to Skid.
- The mapping `Mode(u)` is Air when `flying`, else Skid when `skidding`, else Ground.
- `SkidModeRefined == AbsSkid!Spec` (with `AbsSkid == INSTANCE SkidMode WITH mode <- Mode(u)`) is checked as a property and proved.

### Runs (no constants)

| Run | Checks | Result |
|---|---|---|
| `skid_safety` | `FlyingImpliesSkidding` (spec §3); `SkidModeRefined` | holds, 268 distinct states |
| `skid_heading` | `SkiddingSuppressesHeading` (spec §3: heading control is off while skidding) | **violated**: the slope start at line 217 sets only `skidding` |
| `skid_restore` | `SkidEndRestoresPhysState` (spec §8 property 7) | **violated** |

`skid_restore` fails along two routes:

- a second impulse during a skid saves `oldPhysState = Flying` (line 663), so the skid end (line 732) leaves the unit Flying;
- a slope-started skid never saves the state, so a hovering unit comes back OnGround, the constructor's value.

## 6. Module `GroundMoveUnit`: the mover as a whole (`MC_GroundMoveUnit`)

- `GroundMoveUnit` extends `GroundMovePath`, adds the skid state `u` and `beingBuilt`, and instantiates the skid component over the shared variable `transported`: `S == INSTANCE GroundMoveSkid`.
- `UnitInit` is the conjunction of the two initial states. `UnitUpdate` picks the frame's mode from the skid flags, as lines 212-249 do:
  - a transported unit only ends the frame;
  - a skidding unit runs `SkidResults`, and the collision passes run only if the skid ended (lines 788-794);
  - a falling unit runs `DropResults`;
  - every other frame runs `ControlledResults`, the stunned, direct and follow modes with their idle test.
- `PathStep`: `SlowUpdate`, the orders, `PostLoad` and destruction are those of `GroundMovePath`. `SkidEnvironment`: impulses, transport and construction are those of `GroundMoveSkid`.
- Bounds: one path id, `ShortMax = 2`, `IdleLimit = 1`, `MaxIdlingSlowUpdates = 2`, `SlowRate = 1`.

| Run | Checks | Result |
|---|---|---|
| `unit_stall` | `NoStallFailWhileSkidding` (spec §7 PathStalled: the stall test fails only a unit that is not making progress) | **violated** |

How the violation arises:

- `SlowUpdate` reads `idling` and `numIdlingUpdates` (lines 320-326).
- Only a controlled frame recomputes them.
- So a unit that was stuck before an impulse is repathed and failed while the impulse throws it across the map.

## 7. Module `GroundMoveHeading`

- `owner->heading` and `wantedHeading` are shorts. The width is a constant, `HeadingBits`; the code's width is 16.
- `Short(x)` is the two's-complement wrap into `-Half..Half-1`. It models the short `+=` of `ChangeHeading` (line 611) and the float-to-short conversion of `owner->heading +- turnRate` in `UpdateDirectControl`.
- `DeltaHeading` is `IPathController::GetDeltaHeading`, which is not in this source: the short difference clipped to the turn rate.
- The actions are:
  - `FollowTurn`: `FollowPath` and `SetMainHeading` turning toward any heading;
  - `DirectTurn`: the left key, then the right key, each a `ChangeHeading`;
  - `Freeze`: the unit takes off or is transported, so `ChangeHeading` returns at once.
- `SlowsForTurn` is `ChangeSpeed`'s test `reqTurnAngle > maxTurnAngle` (line 548), scaled to integers.
- Bounds: `HeadingBits = 4` (a circle of 16 headings, seam at -8/7) and `TurnRate = 2`. The seam, a clipped turn and an unclipped one all occur on this circle.

| Run | Checks | Result |
|---|---|---|
| `heading_turn` | `TypeOK`; `TurnsShorterWay` (spec §9, S2: every step that moves the owner brings it strictly closer, the shorter way round, to the wanted heading) | holds, 392 distinct states |
| `heading_slowdown` | `SlowdownOnlyForRealTurn` (spec §9: differences wrap) | **violated**: heading -8 and wanted 7 are one heading apart, but the unwrapped difference of 15 makes the unit brake |

## 8. Module `EventDispatch`

### Model

- Every inlined call-in loop of `EventHandler.h` has the same shape:
  - `count = list.size()` is read once;
  - then, for each `i < count`, the loop reads `ec = list[i]`, tests ec's filter and calls it.
- `Dispatch` starts a loop and `CallIn` is one iteration. `LoopExit` is the loop condition failing.
- The event's `loop` field selects the filter of its family:
  - unit events: `CanReadAllyTeam`;
  - transport events: full read, or the team of the unit or of the transport;
  - feature and projectile events: a global object, or `CanReadAllyTeam`;
  - render and height-map events: every client;
  - `Explosion`: full readers only, and no call once `noGfx` is true;
  - `DefaultCommand`: every client, from the back, stopping at the first one that handles it.
- A client is its order, a natural number.
- The list helpers (`Members`, `SortedLists`, `ListInsert`, `ListRemove`) are written over the standard `Sequences` module only, without `SequencesExt`, so that the module reaches no `RECURSIVE` operator and its properties can be proved.
- `AddClient`/`RemoveClient` between dispatches and `ListInsert`/`ListRemove` are in `EventHandler.cpp`, which is not in this source. They are modelled from their contract: the lists stay sorted by order, with no duplicates.
- The call-in is client code. With `Reentrant = TRUE` it may add or remove one client before it returns, as a Lua widget that shuts itself down does.
- Reading `list[i]` past the end is undefined behaviour; the model takes the program to crash there (`pc = "crashed"`).
- No fairness is assumed and no liveness property is checked. Every loop runs `for (i = 0; i < count; i++)` over a bound read once before it, so it returns whatever its call-ins do: a property saying so would hold by the shape of the loop.

### Runs

Bounds: three clients, two ally teams, and every read team (including no access and all access). Three clients are the fewest for which a removal can both shift a reader under the index and shrink the list below `count`.

| Run | Checks | Result |
|---|---|---|
| `dispatch_safety` | `DeliveredInOrderOnce` (each reader that stays subscribed is called once, in list order; a prefix ending at the answer for the loops that stop early) | holds with `Reentrant = FALSE`, 72,480 distinct states |
| `dispatch_bounds` | `NoReadPastEnd` | **violated** with `Reentrant = TRUE`: client 1 removes client 2 from inside its call-in, and the loop reads `list[1]` of a one-element list |
| `explosion_skip` | `ExplosionReachesAllFullReaders` | **violated** even without reentrancy: `noGfx = noGfx \|\| ec->Explosion(...)` short-circuits, so the full readers after the first that returns true are never called |

The same reentrant removal does harm before the list runs out: it shifts the list under the index. A forward loop then skips the next reader, and `DefaultCommand`'s reverse loop (line 911) calls a client twice when the client before it is removed. With `Reentrant = TRUE`, TLC finds the reverse-loop trace against `DeliveredInOrderOnce`. The finding of `dispatch_bounds` records both effects.

`dispatch_bounds` says `CHECK_DEADLOCK FALSE` because a crashed program really stops.

## 9. Proofs

`tlapm` checks every obligation of the five proof modules. No module with theorems reaches a `RECURSIVE` operator.

- **`GroundMovePath_proofs`** proves `TypeCorrect`, `PathHeldAloneHolds` and `PathOnlyWhileActiveHolds`, as described in section 4.
- **`GroundMoveSkid_proofs`** has no assumptions, because the module has no constants.
  - `TypeCorrect` proves `Spec => []TypeOK`, and `FlyingImpliesSkiddingHolds` proves `Spec => []FlyingImpliesSkidding`.
  - The invariant `FlyingImpliesSkidding` is inductive once it is conjoined with the type: `IInv == TypeOK /\ FlyingImpliesSkidding`.
  - One lemma per helper shows that it maps a `Sound` record (typed, with flying => skidding) to `Sound` records (`BeginSkidSound`, `ImpulsedSound`, `SkidResultsSound`, `DropResultsSound`).
  - `SkidModeImplemented` proves `Spec => SkidModeRefined`:
    - `InitRefined`: the initial state maps to Ground;
    - `StepRefined`: under `IInv`, every step is a `SkidMode` step or leaves `Mode(u)` unchanged. The `Update` case splits on flying and skidding; a flying unit can only stay in the air or land into a skid.
- **`GroundMoveHeading_proofs`** proves its theorems for every width `HeadingBits >= 2` and every turn rate in `1..Half-1` (`HeadingAssumption`).
  - `TypeCorrect` proves `Spec => []TypeOK`.
  - `TurnsShorterWayHolds` proves `Spec => TurnsShorterWay`. It rests on these lemmas:
    - `DivMod`, `ModUnique` and `ModShift`: modular arithmetic for a symbolic modulus;
    - `ShortPeriodic`, `ShortOffset`, `ShortIdem` and `ShortAdd`: the short of a sum may be taken before or after wrapping;
    - `TurnBy`: a turn of at most the turn rate lands on its target;
    - `TurnCloser`: with `d = Short(w - h)` and `D` its clipped value, the new distance is `|d - D| < |d|`.
  - The direct-control step with both keys held comes back to the original heading, which `TurnBy` shows twice.

- **`GroundMoveUnit_proofs`** carries the component results over to the composed mover, for every value of the constants. It does not prove anything new about the helpers. Instead it shows that every step of the composition is a step of each component:
  - `UnitStepPath`: every `[UnitNext]_unitVars` step is a `[Next]_vars` step of `GroundMovePath`. A skid frame either keeps the path state or runs the collision passes, both of which are among `UpdateResults`. A drop frame keeps the path state. A controlled frame is `Update` itself. The skid environment's transport is `GroundMovePath`'s `Transport`.
  - `UnitStepSkid`: every step is a `[Next]_vars` step of `GroundMoveSkid`, with `SkidHelpers` and `SkidActions` identifying the instantiated helpers with those of `GroundMoveSkid_proofs`.
  - With these, the inductive invariants of the components are inductive for the composition. This gives `UnitPathHeldAlone`, `UnitPathOnlyWhileActive`, `UnitFlyingImpliesSkidding` and `UnitSkidModeImplemented` (`UnitSpec => SkidModeRefined`, from `StepRefined`).
- **`EventDispatch_proofs`** proves its theorems for every finite or infinite set of clients and ally teams allowed by `DispatchAssumption` (sets of naturals).
  - `TypeCorrect` proves `Spec => []TypeOK`, whether or not call-ins are reentrant. Its inductive invariant `IInv` adds two facts to `TypeOK`:
    - the client list is sorted without duplicates (`Lists`), which `ListInsert` and `ListRemove` preserve (`InsertSorted`, `RemoveSorted`; the insertion point is the least larger element, `MinExists`, from well-foundedness of `<` on `Nat`);
    - a forward loop's index is a natural.
  - `ReadPastEndOnlyAfterRemoval` proves `Spec => []CrashOnlyAfterRemoval` for reentrant call-ins too. A loop that reads `list[i]` past the end has lost a client of the list it began with to a removal from inside one of its call-ins: additions never cause the read. `NoReadPastEnd` itself is not an invariant of the code, and `dispatch_bounds` shows the removal producing the read.
    - The inductive invariant `RInv` says that inside a loop the clients that stayed are still in the list, that `count` is the length of the list the loop began with, and that DefaultCommand's index is below `count`. TLC checked `IInv /\ RInv` as an invariant with `Reentrant = TRUE` on the instance of `dispatch_bounds` (245,865 distinct states) before it was proved.
    - At the crash step `i < count = Len(snap)`. If no client of `snap` had been removed, `snap`'s clients would all be in the current list. `SubListShorter` then gives `Len(snap) <= Len(clients)`, so `i < Len(clients)` and there is no crash.
    - `SubListShorter` maps each position of `snap` to the position of the same client in the current list. Both lists are sorted, so this map is strictly increasing. `IncreasingBound` shows that a strictly increasing map of `1..n` into `1..m` needs `n <= m`. It argues from a least counterexample (`MinExists`), because the provers cannot instantiate the induction rules.
  - `DeliveredInOrderOnceWithoutReentry` assumes `~Reentrant`, the case that `dispatch_safety` checks; with reentry the property fails (see section 8). It rests on `LoopInv`, which says that inside a loop `LoopFacts` holds and DefaultCommand's answer is still unset. `LoopFacts` says:
    - the list is the one the loop began with, and its length is `count`;
    - the index is within bounds;
    - every call so far went to a reader in the passed part `Done` of the list, and the calls are in the loop's order (`Ahead`);
    - every passed reader was called, except, once Explosion's answer is set, those after the last call.
  - `DeliveredInOrderOnce` alone is not inductive: it speaks only of the state at the end of a loop. Its proof needs the loop's progress, which `LoopFacts` records.
  - `CallInLoop` shows that one iteration keeps `LoopFacts`. `StepDelivered` shows that both ways a loop ends satisfy the property's action: `LoopExit`, and DefaultCommand's `return` after a `true` answer. `FactsDelivered` and the index lemmas `LaterIndex` and `EarlierIndex` relate `Done` to the readers still subscribed.

### What stays with TLC

- The liveness property `PathRequestRetried` is model-checked only, since the prover does not handle fairness or `ENABLED`.
- The violated properties (`NoStallFailWhileSkidding`, `SlowdownOnlyForRealTurn`, `SkiddingSuppressesHeading`, `SkidEndRestoresPhysState`, `NoReadPastEnd`, `ExplosionReachesAllFullReaders`) are model-checked only: a violation is a counterexample, not a theorem.
- Of `EventDispatch` with `Reentrant = TRUE`, only type correctness is proved. The read past the end and the skipped or repeated reader are TLC's counterexamples.

## 10. Not modelled, and why

- **Obstacle avoidance** (`GetObstacleAvoidanceDir`) and the collision push, bounce and crush physics are real-valued vector geometry over the spatial index, with no discrete state beyond a throttle tick.
- The float kinematics of `ChangeSpeed`, `GetNewSpeedVector` and `UpdateOwnerPos` are not modelled, for the same reason.
- **The line table** (`CreateLineTable`) fills a static table once. It could still be checked as a pure algorithm against a reference definition.
- **The tree drawer** is rendering configuration with no interaction with the mover.
- The liveness hazard at line 396 is not covered by a property. The terrain-collision restart resets `numIdlingSlowUpdates` every frame, so a unit stuck against terrain never fails. Stating this needs a fairness assumption on the geometry (the unit stays blocked), which the Boolean abstraction of collisions does not carry.
- A multi-unit composition (collision, goal-lock and restart between two movers) is not modelled yet.
