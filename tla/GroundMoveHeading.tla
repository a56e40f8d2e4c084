-------------------------- MODULE GroundMoveHeading --------------------------
(***************************************************************************)
(* The heading arithmetic of the ground mover: owner->heading and          *)
(* wantedHeading are 16-bit shorts on a circle of SPRING_CIRCLE_DIVS       *)
(* headings; ChangeHeading (GroundMoveType.cpp 607-618) turns the owner by *)
(* the path controller's delta and ChangeSpeed (538-563) slows the unit    *)
(* down for the turn still left.  The width is a constant so that TLC can  *)
(* check the wrap-around at the +-half-circle seam on a small circle; the  *)
(* code's width is HeadingBits = 16.                                       *)
(***************************************************************************)
EXTENDS Integers

CONSTANTS
  HeadingBits,  \* the width of a short heading (16 in the code)
  TurnRate      \* turnRate: headings per frame

ASSUME HeadingAssumption ==
  /\ HeadingBits \in Nat \ {0, 1}
  /\ TurnRate \in 1..(2^(HeadingBits - 1) - 1)

Half == 2^(HeadingBits - 1)   \* SHORTINT_MAXVALUE + 1
Circle == 2 * Half            \* SPRING_CIRCLE_DIVS
Shorts == -Half..(Half - 1)

\* Conversion to short: two's-complement wrap into -Half..Half-1.
Short(x) == ((x + Half) % Circle) - Half

Abs(x) == IF x < 0 THEN -x ELSE x

\* How far apart two headings are, the shorter way round.
Dist(h, w) == Abs(Short(w - h))

\* Mutant: the difference is clipped without the wrap to short.
DeltaHeadingUnwrapped(w, h) ==
  LET d == w - h
  IN  IF d > TurnRate THEN TurnRate ELSE IF d < -TurnRate THEN -TurnRate ELSE d

\* IPathController::GetDeltaHeading (the path controller is not part of
\* this source): the short difference to the wanted heading, clipped to
\* the turn rate.
DeltaHeading(w, h) ==
  LET d == Short(w - h)
  IN  IF d > TurnRate THEN TurnRate ELSE IF d < -TurnRate THEN -TurnRate ELSE d

VARIABLES
  heading,        \* owner->heading
  wantedHeading,  \* wantedHeading
  frozen          \* flying or transported: ChangeHeading returns at once

vars == <<heading, wantedHeading, frozen>>

\* Mutant: owner->heading kept in an int, without the wrap to short.
TurnedUnwrapped(h, w) == h + DeltaHeading(w, h)

\* ChangeHeading(newHeading) as a transition from heading h: the wanted
\* heading is stored and the short owner->heading += delta wraps.
Turned(h, w) == Short(h + DeltaHeading(w, h))

ChangeHeading(w) ==
  IF frozen
  THEN UNCHANGED <<heading, wantedHeading>>
  ELSE wantedHeading' = w /\ heading' = Turned(heading, w)

\* ChangeSpeed's turn test (line 548-549): the unit slows down for a turn
\* when reqTurnAngle = |180 (heading - wantedHeading) / SHORTINT_MAXVALUE|
\* exceeds maxTurnAngle = turnRate / SPRING_CIRCLE_DIVS * 360.  The
\* difference is taken in int, without the wrap to short.
SlowsForTurn(h, w) == Abs(h - w) * Half > TurnRate * (Half - 1)

\* The same test on the turn the unit will really make.
TurnExceedsFrame(h, w) == Dist(h, w) * Half > TurnRate * (Half - 1)

Init ==
  /\ heading \in Shorts
  /\ wantedHeading = 0
  /\ frozen \in BOOLEAN

\* FollowPath (line 494), SetMainHeading (2129, 2137): turn toward the
\* heading of the wanted direction, then ChangeSpeed applies its test.
FollowTurn ==
  /\ \E w \in Shorts : ChangeHeading(w)
  /\ UNCHANGED frozen

\* UpdateDirectControl (2237-2238): left calls ChangeHeading(heading +
\* turnRate), then right calls ChangeHeading(heading - turnRate) from the
\* heading the first call left; the float sum is converted to short.
DirectTurn ==
  /\ ~frozen
  /\ \E left, right \in BOOLEAN :
       LET h1 == IF left THEN Turned(heading, Short(heading + TurnRate))
                 ELSE heading
           w1 == IF left THEN Short(heading + TurnRate) ELSE wantedHeading
       IN  IF right
           THEN /\ wantedHeading' = Short(h1 - TurnRate)
                /\ heading' = Turned(h1, Short(h1 - TurnRate))
           ELSE wantedHeading' = w1 /\ heading' = h1
  /\ UNCHANGED frozen

\* The unit takes off, lands, is loaded or unloaded.
Freeze ==
  /\ frozen' = ~frozen
  /\ UNCHANGED <<heading, wantedHeading>>

Next == FollowTurn \/ DirectTurn \/ Freeze

Spec == Init /\ [][Next]_vars

-----------------------------------------------------------------------------
(* Properties.                                                             *)

TypeOK ==
  /\ heading \in Shorts
  /\ wantedHeading \in Shorts
  /\ frozen \in BOOLEAN

\* Spec section 9 (short-int angles) and scenario S2: every ChangeHeading
\* turns the owner the shorter way round toward the heading it wants,
\* also across the +-half-circle seam.
TurnsShorterWay ==
  [][heading' # heading =>
       Dist(heading', wantedHeading') < Dist(heading, wantedHeading')]_vars

\* Spec section 9: heading differences must wrap by two's complement.
\* ChangeSpeed slows the unit for a turn only if the turn it will make is
\* more than one frame's worth; near the seam the unwrapped difference is
\* almost a full circle and the unit brakes for a turn it does not make.
SlowdownOnlyForRealTurn ==
  SlowsForTurn(heading, wantedHeading) => TurnExceedsFrame(heading, wantedHeading)

=============================================================================
