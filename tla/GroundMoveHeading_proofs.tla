------------------------ MODULE GroundMoveHeading_proofs ------------------------
(***************************************************************************)
(* Proofs about the heading arithmetic, for every width and turn rate.    *)
(***************************************************************************)
EXTENDS GroundMoveHeading, TLAPS

\* The circle has at least four headings and the turn rate fits in half.
LEMMA HalfBounds == Half \in Int /\ Half >= 2 /\ TurnRate \in 1..(Half - 1)
BY HeadingAssumption, SMT DEF Half

LEMMA ShortsInt == Shorts \subseteq Int
BY HalfBounds DEF Shorts

\* The conversion to short lands in the range of a short.
LEMMA ShortInShorts ==
  ASSUME NEW x \in Int
  PROVE  Short(x) \in Shorts
BY HalfBounds, SMT DEF Short, Shorts, Circle

\* The clipped delta is an integer no larger than the turn rate.
LEMMA DeltaBounds ==
  ASSUME NEW w \in Int, NEW h \in Int
  PROVE  DeltaHeading(w, h) \in -TurnRate..TurnRate
<1>1. Short(w - h) \in Int
  BY ShortInShorts, HalfBounds DEF Shorts
<1>. QED
  BY <1>1, HalfBounds, SMT DEF DeltaHeading

LEMMA TurnedInShorts ==
  ASSUME NEW h \in Int, NEW w \in Int
  PROVE  Turned(h, w) \in Shorts
<1>1. h + DeltaHeading(w, h) \in Int
  BY DeltaBounds, HalfBounds
<1>. QED
  BY <1>1, ShortInShorts DEF Turned

-----------------------------------------------------------------------------
(* The wrap to short is arithmetic modulo the circle.                     *)

LEMMA CircleBounds == Circle \in Nat \ {0} /\ Circle = 2 * Half
BY HalfBounds DEF Circle

\* The remainder of y is r whenever y = C * k + r with r in 0..C-1.
LEMMA ModUnique ==
  ASSUME NEW C \in Nat \ {0}, NEW y \in Int, NEW k \in Int, NEW r \in 0..(C - 1),
         y = C * k + r
  PROVE  y % C = r
BY SMTT(60)

\* Euclidean division by a positive modulus.
LEMMA DivMod ==
  ASSUME NEW C \in Nat \ {0}, NEW x \in Int
  PROVE  /\ x \div C \in Int
         /\ x % C \in 0..(C - 1)
         /\ x = C * (x \div C) + (x % C)
BY SMT

LEMMA ModShift ==
  ASSUME NEW C \in Nat \ {0}, NEW x \in Int, NEW q \in Int
  PROVE  (x + C * q) % C = x % C
<1>. DEFINE k == x \div C
<1>1. k \in Int /\ x % C \in 0..(C - 1) /\ x = C * k + (x % C)
  BY DivMod
<1>2. x + C * q = C * (k + q) + (x % C)
  BY <1>1, SMT
<1>3. k + q \in Int /\ x + C * q \in Int
  BY <1>1, SMT
<1>. QED
  BY <1>1, <1>2, <1>3, ModUnique

\* Adding whole circles does not change the short.
LEMMA ShortPeriodic ==
  ASSUME NEW x \in Int, NEW q \in Int
  PROVE  Short(x + Circle * q) = Short(x)
<1>1. (x + Circle * q) + Half = (x + Half) + Circle * q
  BY HalfBounds, CircleBounds, SMT
<1>2. ((x + Half) + Circle * q) % Circle = (x + Half) % Circle
  <2>1. x + Half \in Int
    BY HalfBounds
  <2>. QED
    BY <2>1, CircleBounds, ModShift
<1>. QED
  BY <1>1, <1>2 DEF Short

\* The short of x differs from x by whole circles.
LEMMA ShortOffset ==
  ASSUME NEW x \in Int
  PROVE  \E q \in Int : Short(x) = x + Circle * q
<1>. DEFINE y == x + Half
<1>1. y \in Int
  BY HalfBounds
<1>2. y = Circle * (y \div Circle) + (y % Circle) /\ (y \div Circle) \in Int
  BY <1>1, CircleBounds, DivMod
<1>3. Short(x) = x + Circle * (-(y \div Circle))
  BY <1>1, <1>2, HalfBounds, CircleBounds, SMT DEF Short
<1>. QED
  BY <1>2, <1>3

\* A value in the range of a short is its own short.
LEMMA ShortIdem ==
  ASSUME NEW x \in Shorts
  PROVE  Short(x) = x
<1>1. x + Half \in 0..(Circle - 1) /\ x \in Int
  BY HalfBounds, CircleBounds DEF Shorts
<1>2. x + Half = Circle * 0 + (x + Half)
  BY <1>1, HalfBounds, CircleBounds, SMT
<1>3. (x + Half) % Circle = x + Half
  BY <1>1, <1>2, CircleBounds, ModUnique
<1>. QED
  BY <1>1, <1>3, HalfBounds DEF Short

\* A sum may be wrapped before or after: Short(Short(a) + b) = Short(a + b).
LEMMA ShortAdd ==
  ASSUME NEW a \in Int, NEW b \in Int
  PROVE  Short(Short(a) + b) = Short(a + b)
<1>1. PICK q \in Int : Short(a) = a + Circle * q
  BY ShortOffset
<1>2. Short(a) + b = (a + b) + Circle * q
  BY <1>1, CircleBounds, SMT
<1>. QED
  BY <1>2, ShortPeriodic

\* A turn by t, no larger than the turn rate, toward the heading t away
\* lands on it.
LEMMA TurnBy ==
  ASSUME NEW h \in Shorts, NEW t \in -TurnRate..TurnRate
  PROVE  Turned(h, Short(h + t)) = Short(h + t)
<1>1. h \in Int /\ t \in Shorts /\ t \in Int
  BY HalfBounds DEF Shorts
<1>2. Short(Short(h + t) + (-h)) = Short(t)
  <2>1. Short(Short(h + t) + (-h)) = Short((h + t) + (-h))
    BY <1>1, ShortAdd
  <2>2. (h + t) + (-h) = t
    BY <1>1, SMT
  <2>. QED
    BY <2>1, <2>2
<1>3. Short(h + t) - h = Short(h + t) + (-h)
  <2>0. h + t \in Int
    BY <1>1
  <2>1. Short(h + t) \in Int
    BY <2>0, ShortInShorts, ShortsInt
  <2>. QED
    BY <1>1, <2>1, SMT
<1>4. Short(Short(h + t) - h) = t
  BY <1>1, <1>2, <1>3, ShortIdem
<1>5. DeltaHeading(Short(h + t), h) = t
  BY <1>4, <1>1, HalfBounds, SMT DEF DeltaHeading
<1>. QED
  BY <1>5 DEF Turned

\* One ChangeHeading that moves the owner brings it strictly closer to
\* the heading it wants, measured the shorter way round.
LEMMA TurnCloser ==
  ASSUME NEW h \in Shorts, NEW w \in Shorts, Turned(h, w) # h
  PROVE  Dist(Turned(h, w), w) < Dist(h, w)
<1>. DEFINE d == Short(w - h)
            D == DeltaHeading(w, h)
<1>1. h \in Int /\ w \in Int /\ d \in Shorts /\ d \in Int
  BY HalfBounds, ShortInShorts DEF Shorts
<1>2. D = IF d > TurnRate THEN TurnRate ELSE IF d < -TurnRate THEN -TurnRate ELSE d
  BY DEF DeltaHeading
<1>3. D \in Int
  BY <1>1, <1>2, HalfBounds
<1>4. Short(w - Turned(h, w)) = Short(d - D)
  <2>1. Turned(h, w) = Short(h + D)
    BY DEF Turned
  <2>2. w - Short(h + D) = Short(h + D) * (-1) + w
    <3>0. h + D \in Int
      BY <1>1, <1>3
    <3>1. Short(h + D) \in Int
      BY <3>0, ShortInShorts, ShortsInt
    <3>. QED
      BY <1>1, <3>1, SMT
  <2>3. Short(Short(h + D) * (-1) + w) = Short(w - (h + D))
    <3>1. PICK q \in Int : Short(h + D) = (h + D) + Circle * q
      BY <1>1, <1>3, ShortOffset
    <3>2. Short(h + D) * (-1) + w = (w - (h + D)) + Circle * (-q)
      BY <3>1, <1>1, <1>3, CircleBounds, SMT
    <3>. QED
      BY <3>2, <1>1, <1>3, ShortPeriodic
  <2>4. Short(w - (h + D)) = Short(d + (-D))
    <3>1. Short(Short(w - h) + (-D)) = Short((w - h) + (-D))
      BY <1>1, <1>3, ShortAdd
    <3>2. (w - h) + (-D) = w - (h + D)
      BY <1>1, <1>3, SMT
    <3>. QED
      BY <3>1, <3>2
  <2>5. d + (-D) = d - D
    BY <1>1, <1>3, SMT
  <2>. QED
    BY <2>1, <2>2, <2>3, <2>4, <2>5
<1>5. d # 0
  <2>. SUFFICES ASSUME d = 0 PROVE FALSE
    OBVIOUS
  <2>1. D = 0
    BY <1>2, HalfBounds
  <2>2. Short(h + D) = h
    BY <2>1, <1>1, ShortIdem
  <2>. QED
    BY <2>2 DEF Turned
<1>6. d - D \in Shorts
  BY <1>1, <1>2, HalfBounds, SMT DEF Shorts
<1>7. Short(d - D) = d - D
  BY <1>6, ShortIdem
<1>8. Abs(d - D) < Abs(d)
  BY <1>1, <1>2, <1>5, HalfBounds, SMT DEF Abs
<1>. QED
  BY <1>4, <1>7, <1>8 DEF Dist

LEMMA InitTypeOK == Init => TypeOK
BY HalfBounds, SMT DEF Init, TypeOK, Shorts

LEMMA NextTypeOK == TypeOK /\ [Next]_vars => TypeOK'
<1>. SUFFICES ASSUME TypeOK, [Next]_vars PROVE TypeOK'
  OBVIOUS
<1>0. heading \in Int /\ wantedHeading \in Int
  BY HalfBounds DEF TypeOK, Shorts
<1>1. CASE FollowTurn
  <2>1. PICK w \in Shorts : ChangeHeading(w)
    BY <1>1 DEF FollowTurn
  <2>2. w \in Int
    BY HalfBounds DEF Shorts
  <2>3. Turned(heading, w) \in Shorts
    BY <1>0, <2>2, TurnedInShorts
  <2>. QED
    BY <1>1, <2>1, <2>3 DEF ChangeHeading, FollowTurn, TypeOK
<1>2. CASE DirectTurn
  <2>1. PICK left, right \in BOOLEAN :
          LET h1 == IF left THEN Turned(heading, Short(heading + TurnRate))
                    ELSE heading
              w1 == IF left THEN Short(heading + TurnRate) ELSE wantedHeading
          IN  IF right
              THEN /\ wantedHeading' = Short(h1 - TurnRate)
                   /\ heading' = Turned(h1, Short(h1 - TurnRate))
              ELSE wantedHeading' = w1 /\ heading' = h1
    BY <1>2 DEF DirectTurn
  <2>. DEFINE h1 == IF left THEN Turned(heading, Short(heading + TurnRate))
                    ELSE heading
              w1 == IF left THEN Short(heading + TurnRate) ELSE wantedHeading
  <2>2. Short(heading + TurnRate) \in Shorts
    BY <1>0, HalfBounds, ShortInShorts
  <2>3. h1 \in Shorts /\ w1 \in Shorts
    <3>1. CASE left
      BY <1>0, <2>2, <3>1, ShortsInt, TurnedInShorts
    <3>2. CASE ~left
      BY <3>2 DEF TypeOK
    <3>. QED
      BY <3>1, <3>2
  <2>4. h1 \in Int
    BY <2>3, ShortsInt
  <2>5. Short(h1 - TurnRate) \in Shorts
    BY <2>4, HalfBounds, ShortInShorts
  <2>6. Turned(h1, Short(h1 - TurnRate)) \in Shorts
    BY <2>4, <2>5, ShortsInt, TurnedInShorts
  <2>. QED
    BY <1>2, <2>1, <2>3, <2>5, <2>6 DEF DirectTurn, TypeOK
<1>3. CASE Freeze
  BY <1>3 DEF Freeze, TypeOK
<1>4. CASE UNCHANGED vars
  BY <1>4 DEF vars, TypeOK
<1>. QED
  BY <1>1, <1>2, <1>3, <1>4 DEF Next

\* For every width and turn rate the short arithmetic keeps both headings
\* in the range of a short.
THEOREM TypeCorrect == Spec => []TypeOK
BY InitTypeOK, NextTypeOK, PTL DEF Spec

LEMMA StepShorter ==
  TypeOK /\ [Next]_vars =>
    (heading' # heading =>
       Dist(heading', wantedHeading') < Dist(heading, wantedHeading'))
<1>. SUFFICES ASSUME TypeOK, [Next]_vars, heading' # heading
              PROVE  Dist(heading', wantedHeading') < Dist(heading, wantedHeading')
  OBVIOUS
<1>0. heading \in Shorts /\ heading \in Int /\ TurnRate \in Int
  BY HalfBounds DEF TypeOK, Shorts
<1>1. CASE FollowTurn
  <2>1. PICK w \in Shorts : ChangeHeading(w)
    BY <1>1 DEF FollowTurn
  <2>2. ~frozen /\ wantedHeading' = w /\ heading' = Turned(heading, w)
    BY <2>1 DEF ChangeHeading
  <2>. QED
    BY <1>0, <2>2, TurnCloser
<1>2. CASE DirectTurn
  <2>1. PICK left, right \in BOOLEAN :
          LET h1 == IF left THEN Turned(heading, Short(heading + TurnRate))
                    ELSE heading
              w1 == IF left THEN Short(heading + TurnRate) ELSE wantedHeading
          IN  IF right
              THEN /\ wantedHeading' = Short(h1 - TurnRate)
                   /\ heading' = Turned(h1, Short(h1 - TurnRate))
              ELSE wantedHeading' = w1 /\ heading' = h1
    BY <1>2 DEF DirectTurn
  <2>. DEFINE up == Short(heading + TurnRate)
  <2>2. up \in Shorts /\ up \in Int
    <3>1. heading + TurnRate \in Int
      BY <1>0
    <3>. QED
      BY <3>1, ShortInShorts, ShortsInt
  <2>3. Turned(heading, up) = up
    BY <1>0, HalfBounds, TurnBy
  <2>4. CASE left /\ right
    <3>1. heading' = Turned(up, Short(up - TurnRate))
      BY <2>1, <2>3, <2>4
    <3>2. Turned(up, Short(up + (-TurnRate))) = Short(up + (-TurnRate))
      BY <2>2, HalfBounds, TurnBy
    <3>3. up - TurnRate = up + (-TurnRate)
      BY <2>2, <1>0, SMT
    <3>4. Short(up + (-TurnRate)) = Short((heading + TurnRate) + (-TurnRate))
      BY <1>0, ShortAdd
    <3>5. (heading + TurnRate) + (-TurnRate) = heading
      BY <1>0, SMT
    <3>6. heading' = heading
      BY <3>1, <3>2, <3>3, <3>4, <3>5, <1>0, ShortIdem
    <3>. QED
      BY <3>6
  <2>5. CASE left /\ ~right
    <3>1. wantedHeading' = up /\ heading' = Turned(heading, up)
      BY <2>1, <2>5
    <3>. QED
      BY <3>1, <1>0, <2>2, TurnCloser
  <2>6. CASE ~left /\ right
    <3>1. wantedHeading' = Short(heading - TurnRate)
          /\ heading' = Turned(heading, Short(heading - TurnRate))
      BY <2>1, <2>6
    <3>2. Short(heading - TurnRate) \in Shorts
      <4>1. heading - TurnRate \in Int
        BY <1>0
      <4>. QED
        BY <4>1, ShortInShorts
    <3>. QED
      BY <3>1, <3>2, <1>0, TurnCloser
  <2>7. CASE ~left /\ ~right
    BY <2>1, <2>7
  <2>. QED
    BY <2>4, <2>5, <2>6, <2>7
<1>3. CASE Freeze
  BY <1>3 DEF Freeze
<1>4. CASE UNCHANGED vars
  BY <1>4 DEF vars
<1>. QED
  BY <1>1, <1>2, <1>3, <1>4 DEF Next

\* Spec section 9 and scenario S2 hold of ChangeHeading and of the direct
\* control's left and right turns for every width and turn rate: every
\* step that moves the owner brings it strictly closer, the shorter way
\* round, to the heading it wants, across the half-circle seam too.
THEOREM TurnsShorterWayHolds == Spec => TurnsShorterWay
<1>1. Spec => []TypeOK
  BY TypeCorrect
<1>2. TypeOK /\ [Next]_vars =>
        [heading' # heading =>
           Dist(heading', wantedHeading') < Dist(heading, wantedHeading')]_vars
  BY StepShorter
<1>. QED
  BY <1>1, <1>2, PTL DEF Spec, TurnsShorterWay
=============================================================================
