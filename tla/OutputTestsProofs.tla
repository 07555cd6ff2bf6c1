-------------------------- MODULE OutputTestsProofs --------------------------
(***************************************************************************)
(* Proofs about Pointer and OutputTests, for an output of any size, with   *)
(* any scales, step distances and walks of any length: what a pointer      *)
(* remembers of where it is, how far it goes in a step, and what a watcher *)
(* of the output may tell.                                                 *)
(***************************************************************************)
EXTENDS OutputTests, SequenceTheorems, TLAPS

(* Whole numbers *)

\* What the quotient of a whole number is.
LEMMA DivIs ==
    ASSUME NEW a \in Int, NEW s \in Nat \ {0}
    PROVE  /\ a \div s \in Int
           /\ s * (a \div s) <= a /\ a < s * (a \div s) + s
  OBVIOUS

\* A product grows with its factor.
LEMMA TimesGrows ==
    ASSUME NEW s \in Nat, NEW m \in Int, NEW n \in Int, m <= n
    PROVE  s * m <= s * n
<1>1. n - m \in Nat
  OBVIOUS
<1>2. s * (n - m) \in Nat
  BY <1>1
<1>3. s * (n - m) = s * n - s * m
  OBVIOUS
<1>4. s * n \in Int /\ s * m \in Int
  OBVIOUS
<1> QED
  BY <1>2, <1>3, <1>4

\* A quotient of natural numbers is one.
LEMMA DivIsNat ==
    ASSUME NEW a \in Nat, NEW s \in Nat \ {0}
    PROVE  a \div s \in Nat
<1>1. a \div s \in Int /\ a < s * (a \div s) + s
  BY DivIs
<1>2. CASE a \div s < 0
  <2>1. s * (a \div s) <= s * (-1)
    BY <1>1, <1>2, TimesGrows
  <2>2. s * (-1) = -s /\ s * (a \div s) \in Int
    BY <1>1
  <2> QED
    BY <1>1, <2>1, <2>2
<1> QED
  BY <1>1, <1>2

\* What grows by at most k times the divisor has a quotient that grows by at most k.
LEMMA DivGrows ==
    ASSUME NEW a \in Int, NEW b \in Int, NEW s \in Nat \ {0}, NEW k \in Nat, b - a <= s * k
    PROVE  (b \div s) - (a \div s) <= k
<1> DEFINE p == a \div s
           q == b \div s
<1>1. p \in Int /\ q \in Int /\ a < s * p + s /\ s * q <= b
  BY DivIs
<1> HIDE DEF p, q
<1>2. SUFFICES ASSUME q - p > k PROVE FALSE
  BY <1>1 DEF p, q
<1>3. p + k + 1 <= q
  BY <1>1, <1>2
<1>4. s * (p + k + 1) <= s * q
  BY <1>1, <1>3, TimesGrows
<1>5. s * (p + k + 1) = s * p + s * k + s
  BY <1>1
<1>6. s * p \in Int /\ s * k \in Int /\ s * q \in Int
  BY <1>1
<1> QED
  BY <1>1, <1>4, <1>5, <1>6

\* As many steps as Steps says, of a distance each, are enough.
LEMMA StepsAreEnough ==
    ASSUME NEW d \in Nat, NEW n \in Nat, step_distance \in Nat \ {0}, n >= Steps(d)
    PROVE  d <= n * step_distance
<1> DEFINE e == step_distance
           q == Steps(d)
<1>1. q \in Int /\ d + e - 1 < e * q + e
  BY DivIs DEF Steps
<1>2. q <= n
  BY <1>1
<1> HIDE DEF q
<1>3. e * q <= e * n
  BY <1>1, <1>2, TimesGrows
<1>4. e * q \in Int /\ e * n \in Int /\ e * n = n * e
  BY <1>1
<1> QED
  BY <1>1, <1>3, <1>4

\* A multiple of the divisor is divided without a rest.
LEMMA DivExact ==
    ASSUME NEW x \in Nat, NEW s \in Nat \ {0}
    PROVE  (s * x) \div s = x
<1>1. s * x \in Nat
  OBVIOUS
<1>2. (s * x) \div s <= x
  <2>1. (s * x) - 0 <= s * x
    BY <1>1
  <2>2. ((s * x) \div s) - (0 \div s) <= x
    BY <1>1, <2>1, DivGrows
  <2>3. 0 \div s = 0
    OBVIOUS
  <2>4. (s * x) \div s \in Int
    BY <1>1, DivIs
  <2> QED
    BY <2>2, <2>3, <2>4
<1>3. x <= (s * x) \div s
  <2> DEFINE q == (s * x) \div s
  <2>1. q \in Int /\ s * x < s * q + s
    BY <1>1, DivIs
  <2> HIDE DEF q
  <2>2. SUFFICES ASSUME q + 1 <= x PROVE FALSE
    BY <2>1 DEF q
  <2>3. s * (q + 1) <= s * x
    BY <2>1, <2>2, TimesGrows
  <2>4. s * (q + 1) = s * q + s /\ s * q \in Int
    BY <2>1
  <2> QED
    BY <1>1, <2>1, <2>3, <2>4
<1>4. (s * x) \div s \in Int
  BY <1>1, DivIs
<1> QED
  BY <1>2, <1>3, <1>4

-----------------------------------------------------------------------------
(* The positions of a walk *)

Walking ==
    /\ pointer_position \in Nat /\ arg \in Nat
    /\ steps \in Nat \ {0} /\ step_distance \in Nat \ {0}

\* What is divided by the number of steps to have the position of a step.
Weighted(n) == (steps - n) * pointer_position + n * arg

\* The position of a step is the quotient of natural numbers, and one itself.
LEMMA WeightedIs ==
    ASSUME Walking, NEW n \in 0..steps
    PROVE  /\ Weighted(n) \in Nat /\ WalkPosition(n) = Weighted(n) \div steps
           /\ WalkPosition(n) \in Nat
<1>1. steps - n \in Nat /\ n \in Nat
  BY DEF Walking
<1>2. (steps - n) * pointer_position \in Nat /\ n * arg \in Nat
  BY <1>1 DEF Walking
<1>3. Weighted(n) \in Nat
  BY <1>2 DEF Weighted
<1>4. WalkPosition(n) = Weighted(n) \div steps
  BY DEF WalkPosition, Weighted
<1>5. Weighted(n) \div steps \in Nat
  BY <1>3, DivIsNat DEF Walking
<1> QED
  BY <1>3, <1>4, <1>5

\* A walk begins where the pointer is, and ends where it is to go.
LEMMA WalkEnds ==
    ASSUME Walking
    PROVE  WalkPosition(0) = pointer_position /\ WalkPosition(steps) = arg
<1>1. Weighted(0) = steps * pointer_position
  BY DEF Weighted, Walking
<1>2. Weighted(steps) = steps * arg
  BY DEF Weighted, Walking
<1>3. 0 \in 0..steps /\ steps \in 0..steps
  BY DEF Walking
<1>4. /\ WalkPosition(0) = (steps * pointer_position) \div steps
      /\ WalkPosition(steps) = (steps * arg) \div steps
  BY <1>1, <1>2, <1>3, WeightedIs
<1> QED
  BY <1>4, DivExact DEF Walking

\* What is sent for a step is its position, or the pixel before it.
LEMMA RoundedIs ==
    ASSUME Walking, NEW n \in 0..steps, NEW x \in Rounded(n)
    PROVE  /\ x \in Nat
           /\ x = WalkPosition(n) \/ x = WalkPosition(n) - 1
           /\ n \in {0, steps} => x = WalkPosition(n)
<1>1. WalkPosition(n) \in Nat
  BY WeightedIs
<1>2. CASE x = WalkPosition(n)
  BY <1>1, <1>2
<1>3. CASE x # WalkPosition(n)
  <2>1. n \in 1..(steps - 1) /\ WalkPosition(n) > 0 /\ x = WalkPosition(n) - 1
    BY <1>3 DEF Rounded
  <2>2. n \notin {0, steps}
    BY <2>1 DEF Walking
  <2> QED
    BY <1>1, <2>1, <2>2
<1> QED
  BY <1>2, <1>3

\* Two steps of a walk are at most its step distance apart.
LEMMA StepIsShort ==
    ASSUME Walking, steps >= Steps(Distance), NEW n \in 1..steps
    PROVE  /\ WalkPosition(n) - WalkPosition(n - 1) <= step_distance
           /\ WalkPosition(n - 1) - WalkPosition(n) <= step_distance
<1> DEFINE m == n - 1
<1>1. m \in 0..steps /\ n \in 0..steps /\ m \in Nat /\ n \in Nat
  BY DEF Walking
<1>2. /\ Weighted(n) \in Nat /\ WalkPosition(n) = Weighted(n) \div steps
      /\ Weighted(m) \in Nat /\ WalkPosition(m) = Weighted(m) \div steps
  BY <1>1, WeightedIs
<1>3. Weighted(n) - Weighted(m) = arg - pointer_position
  <2>1. steps - m = (steps - n) + 1 /\ steps - n \in Nat
    BY <1>1 DEF Walking
  <2>2. (steps - m) * pointer_position = (steps - n) * pointer_position + pointer_position
    BY <2>1 DEF Walking
  <2>3. n * arg = m * arg + arg
    BY <1>1 DEF Walking
  <2>4. /\ (steps - n) * pointer_position \in Nat /\ n * arg \in Nat /\ m * arg \in Nat
        /\ pointer_position \in Nat /\ arg \in Nat
    BY <1>1, <2>1 DEF Walking
  <2> HIDE DEF m
  <2> QED
    BY <2>2, <2>3, <2>4 DEF Weighted
<1>4. Distance \in Nat /\ arg - pointer_position <= Distance /\ pointer_position - arg <= Distance
  BY DEF Distance, Walking
<1>5. Distance <= steps * step_distance
  BY <1>4, StepsAreEnough DEF Walking
<1>6. steps * step_distance \in Nat
  BY DEF Walking
<1> HIDE DEF m
<1>7. /\ Weighted(n) - Weighted(m) <= steps * step_distance
      /\ Weighted(m) - Weighted(n) <= steps * step_distance
  BY <1>2, <1>3, <1>4, <1>5, <1>6 DEF Walking
<1>8. /\ WalkPosition(n) - WalkPosition(m) <= step_distance
      /\ WalkPosition(m) - WalkPosition(n) <= step_distance
  <2>1. /\ Weighted(n) \in Int /\ Weighted(m) \in Int
        /\ steps \in Nat \ {0} /\ step_distance \in Nat
    BY <1>2 DEF Walking
  <2>2. (Weighted(n) \div steps) - (Weighted(m) \div steps) <= step_distance
    BY <1>7, <2>1, DivGrows
  <2>3. (Weighted(m) \div steps) - (Weighted(n) \div steps) <= step_distance
    BY <1>7, <2>1, DivGrows
  <2> QED
    BY <1>2, <2>2, <2>3
<1> QED
  BY <1>8 DEF m

\* And so are what is sent for them, but for the pixel that is lost in rounding.
LEMMA SentIsNear ==
    ASSUME Walking, steps >= Steps(Distance), NEW n \in 1..steps,
           NEW x \in Rounded(n - 1), NEW y \in Rounded(n)
    PROVE  y - x <= step_distance + 1 /\ x - y <= step_distance + 1
<1>1. n - 1 \in 0..steps /\ n \in 0..steps
  BY DEF Walking
<1>2. /\ x \in Nat /\ (x = WalkPosition(n - 1) \/ x = WalkPosition(n - 1) - 1)
      /\ y \in Nat /\ (y = WalkPosition(n) \/ y = WalkPosition(n) - 1)
      /\ WalkPosition(n - 1) \in Nat /\ WalkPosition(n) \in Nat
  BY <1>1, RoundedIs, WeightedIs
<1>3. /\ WalkPosition(n) - WalkPosition(n - 1) <= step_distance
      /\ WalkPosition(n - 1) - WalkPosition(n) <= step_distance
  BY StepIsShort
<1> QED
  BY <1>2, <1>3 DEF Walking

-----------------------------------------------------------------------------
(* Types of the pointer *)

\* What is true or false, and what is not: the conjuncts of TypeOK.
Booleans ==
    /\ present \in BOOLEAN /\ vnc \in BOOLEAN /\ pointer \in BOOLEAN /\ listening \in BOOLEAN
    /\ changed \in BOOLEAN /\ astray \in BOOLEAN /\ rescaled \in BOOLEAN

Moving == {"move", "walk", "move_proportional", "walk_proportional"}
Pressing == {"press", "release", "click", "release_all"}

Data ==
    /\ factor \in Factors /\ output_width \in Nat /\ output_scale \in Scales
    /\ pointer_position \in Nat \cup {None} /\ sent \in Nat \cup {None}
    /\ pc \in {"idle", "connect", "outputs", "run", "walk", "sleep"}
    /\ keyword \in {"none"} \cup Moving \cup Pressing
    /\ keyword \in Moving => arg \in Nat
    /\ step \in 0..steps /\ steps \in 0..MaxSteps /\ step_distance \in Nat \ {0}
    /\ held \subseteq Buttons

\* TypeOK in two parts, which different provers handle.
LEMMA PointerTypes == TypeOK <=> Booleans /\ Data
<1>1. Booleans <=> /\ present \in BOOLEAN /\ vnc \in BOOLEAN /\ pointer \in BOOLEAN
                   /\ listening \in BOOLEAN /\ changed \in BOOLEAN
                   /\ astray \in BOOLEAN /\ rescaled \in BOOLEAN
  BY Zenon DEF Booleans
<1>2. (keyword \in {"none"} \cup Moving \cup Pressing)
        <=> keyword \in {"none", "move", "move_proportional", "walk", "walk_proportional", "press",
                    "release", "click", "release_all"}
  BY DEF Moving, Pressing
<1>3. (keyword \in Moving) <=> keyword \in {"move", "walk", "move_proportional", "walk_proportional"}
  BY DEF Moving
<1> QED
  BY <1>1, <1>2, <1>3, Zenon DEF TypeOK, Data

\* A pointer is as far from the edge as a natural number of pixels.
LEMMA HalvesAreNat ==
    ASSUME NEW a \in Nat, NEW w \in Nat
    PROVE  (a * w) \div 2 \in Nat
<1>1. a * w \in Nat
  OBVIOUS
<1> QED
  BY <1>1, DivIsNat

\* The width that is known of an output is a natural number of pixels.
LEMMA WidthsAreNat ==
    ASSUME NEW f \in Factors, NEW s \in Scales
    PROVE  (Logical(f) * s) \div 2 \in Nat
<1>1. Mode \in Nat /\ f \in Nat \ {0} /\ s \in Nat
  <2>1. Mode \in Nat \ {0} /\ Factors \subseteq 1..Mode /\ Scales \subseteq Nat \ {0, 1}
    BY PointerAssumption, Zenon
  <2> QED
    BY <2>1
<1>2. Logical(f) \in Nat
  BY <1>1, DivIsNat DEF Logical
<1> QED
  BY <1>1, <1>2, HalvesAreNat

\* Where nothing but the type of the keyword's own variables is at stake.
KeywordTypes ==
    /\ pc \in {"idle", "connect", "outputs", "run", "walk", "sleep"}
    /\ keyword \in {"none"} \cup Moving \cup Pressing
    /\ keyword \in Moving => arg \in Nat
    /\ keyword \in {"press", "release", "click"} => arg \in Buttons
    /\ step \in 0..steps /\ steps \in 0..MaxSteps /\ step_distance \in Nat \ {0}

\* A keyword that is over leaves its variables as they were at first.
LEMMA FinishTypes ==
    ASSUME Finish
    PROVE  KeywordTypes'
<1>1. MaxSteps \in Nat
  BY PointerAssumption, Zenon
<1> QED
  BY <1>1 DEF Finish, KeywordTypes, Moving

\* A keyword that goes on keeps them.
LEMMA GotoTypes ==
    ASSUME KeywordTypes, NEW place \in {"outputs", "run", "walk", "sleep"}, Goto(place)
    PROVE  KeywordTypes'
<1>1. pc' = place /\ UNCHANGED <<keyword, arg, step, steps, step_distance>>
  BY DEF Goto
<1> QED
  BY <1>1 DEF KeywordTypes

\* A keyword that begins takes arguments of its own kind.
LEMMA BeginTypes ==
    ASSUME KeywordTypes, NEW k \in Moving \cup Pressing, Begin(k)
    PROVE  KeywordTypes'
<1>1. /\ keyword' = k /\ arg' \in Arguments(k) /\ pc' \in {"run", "connect"}
      /\ UNCHANGED <<step, steps>>
      /\ step_distance' \in IF k \in {"walk", "walk_proportional"} THEN StepDistances ELSE {1}
  BY DEF Begin
<1>2. Mode \in Nat /\ StepDistances \subseteq Nat \ {0}
  BY PointerAssumption, Zenon
<1>3. step_distance' \in Nat \ {0}
  BY <1>1, <1>2
<1>4. k \in Moving => arg' \in Nat
  BY <1>1, <1>2 DEF Arguments, Moving, Proportions
<1>5. k \in {"press", "release", "click"} => arg' \in Buttons
  BY <1>1 DEF Arguments
<1> QED
  BY <1>1, <1>3, <1>4, <1>5 DEF KeywordTypes

\* Each step keeps the types of the keyword under way.
LEMMA KeywordStep ==
    ASSUME TypeOK, Connection, OnItsWay, [Next]_vars
    PROVE  KeywordTypes'
<1>1. KeywordTypes /\ Data
  BY PointerTypes DEF Data, KeywordTypes, Connection
<1>2. CASE UNCHANGED keywordVars
  BY <1>1, <1>2 DEF keywordVars, KeywordTypes
<1>3. CASE Finish
  BY <1>3, FinishTypes
<1>4. CASE \E place \in {"outputs", "run", "walk", "sleep"} : Goto(place)
  BY <1>1, <1>4, GotoTypes
<1>5. CASE \E k \in Moving \cup Pressing : Begin(k)
  BY <1>1, <1>5, BeginTypes
<1>6. CASE WalkProportional
  <2>1. CASE Finish
    BY <2>1, FinishTypes
  <2>2. CASE /\ keyword' = "walk" /\ arg' = (arg * output_width) \div 2
             /\ UNCHANGED <<pc, step, steps, step_distance>>
    <3>1. keyword = "walk_proportional"
      BY <1>6 DEF WalkProportional
    <3>2. arg' \in Nat
      BY <1>1, <2>2, <3>1, HalvesAreNat DEF Data, Moving
    <3> QED
      BY <1>1, <2>2, <3>2 DEF KeywordTypes, Moving
  <2> QED
    BY <1>6, <2>1, <2>2 DEF WalkProportional
<1>7. CASE Walk
  <2>1. CASE Finish
    BY <2>1, FinishTypes
  <2>2. CASE /\ steps' \in 1..MaxSteps /\ step' = 0 /\ pc' = "walk"
             /\ UNCHANGED <<keyword, arg, step_distance>>
    <3>1. MaxSteps \in Nat
      BY PointerAssumption, Zenon
    <3> QED
      BY <1>1, <2>2, <3>1 DEF KeywordTypes
  <2> QED
    BY <1>7, <2>1, <2>2 DEF Walk
<1>8. CASE Sleep
  <2>1. CASE Finish
    BY <2>1, FinishTypes
  <2>2. CASE /\ ~LastStep /\ pc' = "walk" /\ step' = step + 1
             /\ UNCHANGED <<keyword, arg, steps, step_distance>>
    <3>1. MaxSteps \in Nat
      BY PointerAssumption, Zenon
    <3> QED
      BY <1>1, <2>2, <3>1 DEF KeywordTypes, LastStep
  <2> QED
    BY <1>8, <2>1, <2>2 DEF Sleep
<1>9. CASE Button
  <2>1. CASE Finish
    BY <2>1, FinishTypes
  <2>2. CASE /\ keyword = "click" /\ keyword' = "release"
             /\ UNCHANGED <<arg, pc, step, steps, step_distance>>
    BY <1>1, <2>2 DEF KeywordTypes, Moving, Pressing
  <2> QED
    BY <1>9, <2>1, <2>2 DEF Button
<1>10. CASE Move \/ MoveProportional \/ WalkFromNowhere \/ WalkStep
  BY <1>3, <1>4, <1>10 DEF Move, MoveProportional, WalkFromNowhere, WalkStep, Fail
<1>11. CASE Refused \/ Connect \/ Connected \/ ConnectVnc
  BY <1>3, <1>4, <1>11 DEF Refused, Connect, Connected, ConnectVnc, Fail
<1>12. CASE Close \/ Dispatch \/ Appear
  BY <1>2, <1>12 DEF Close, Dispatch, Appear, hidVars, keywordVars
<1>13. CASE \E f \in Factors : Rescale(f)
  BY <1>2, <1>13 DEF Rescale, SizeNotSent
<1>14. CASE UNCHANGED vars
  BY <1>2, <1>14 DEF vars, keywordVars
<1>15. CASE \E s \in Scales : SetOutputScale(s)
  BY <1>2, <1>15 DEF SetOutputScale
<1> QED
  BY <1>5, <1>6, <1>7, <1>8, <1>9, <1>10, <1>11, <1>12, <1>13, <1>14, <1>15
     DEF Next, Robot, Keyword, Moving, Pressing

-----------------------------------------------------------------------------
(* What the pointer knows of the output *)

ConnectionTypes ==
    /\ factor \in Factors /\ output_width \in Nat /\ output_scale \in Scales
    /\ present \in BOOLEAN /\ vnc \in BOOLEAN /\ pointer \in BOOLEAN /\ listening \in BOOLEAN
    /\ changed \in BOOLEAN /\ rescaled \in BOOLEAN

\* The types of the connection are among those of TypeOK.
LEMMA ConnectionTyped == TypeOK => ConnectionTypes
<1> SUFFICES ASSUME TypeOK PROVE ConnectionTypes
  OBVIOUS
<1>1. Booleans /\ Data
  BY PointerTypes
<1> QED
  BY <1>1, Zenon DEF Booleans, Data, ConnectionTypes

\* A request, and a step that sends none: what was sent of the output is handled, or is not.
LEMMA RequestKeeps ==
    ASSUME ConnectionTypes, SizeFollows, Roundtrip \/ OutOfRange
    PROVE  /\ ConnectionTypes' /\ SizeFollows'
           /\ UNCHANGED <<factor, present, vnc, pointer, listening, output_scale>>
<1>1. UNCHANGED <<factor, present, vnc, pointer, listening, output_scale>>
  BY DEF Roundtrip, OutOfRange, outputVars, connectionVars
<1>2. CASE Roundtrip
  <2>1. Heard
    BY <1>2 DEF Roundtrip
  <2>2. /\ output_width' = IF changed THEN Cached(factor) ELSE output_width
        /\ rescaled' = (rescaled /\ ~changed) /\ changed' = FALSE
    BY <2>1 DEF Heard
  <2>3. Cached(factor) \in Nat /\ Cached(factor)' = Cached(factor)
    BY <1>1, WidthsAreNat DEF ConnectionTypes, Cached
  <2>4. ConnectionTypes'
    <3>1. output_width' \in Nat
      BY <2>2, <2>3 DEF ConnectionTypes
    <3>2. rescaled' \in BOOLEAN /\ changed' \in BOOLEAN
      BY <2>2
    <3>3. /\ factor' \in Factors /\ output_scale' \in Scales
          /\ present' \in BOOLEAN /\ vnc' \in BOOLEAN /\ pointer' \in BOOLEAN
          /\ listening' \in BOOLEAN
      BY <1>1, Zenon DEF ConnectionTypes
    <3> QED
      BY <3>1, <3>2, <3>3, Zenon DEF ConnectionTypes
  <2>5. SizeFollows'
    BY <1>1, <2>2, <2>3 DEF SizeFollows
  <2> QED
    BY <1>1, <2>4, <2>5
<1>3. CASE OutOfRange
  <2>1. UNCHANGED <<output_width, changed, rescaled>>
    BY <1>3 DEF OutOfRange, connectionVars
  <2>2. ConnectionTypes'
    BY <1>1, <2>1, Zenon DEF ConnectionTypes
  <2>3. SizeFollows'
    BY <1>1, <2>1 DEF SizeFollows, Cached
  <2> QED
    BY <1>1, <2>2, <2>3
<1> QED
  BY <1>2, <1>3

\* A keyword connects before it does what it is for, and VNC hears of no output.
Placed ==
    /\ pc \in {"connect", "outputs"} => ~pointer
    /\ pc \in {"run", "walk", "sleep"} => pointer
    /\ vnc => ~listening

\* Once connected, a keyword stays so.
LEMMA PlacedStays ==
    ASSUME Placed, UNCHANGED <<vnc, pointer, listening>>,
           \/ pc' = "idle" \/ pc' = pc
           \/ pc \in {"run", "walk", "sleep"} /\ pc' \in {"run", "walk", "sleep"}
           \/ pc' = IF pointer THEN "run" ELSE "connect"
    PROVE  Placed'
<1>1. pc' \in {"connect", "outputs"} => ~pointer
  BY DEF Placed
<1>2. pc' \in {"run", "walk", "sleep"} => pointer
  BY DEF Placed
<1> QED
  BY <1>1, <1>2, Zenon DEF Placed

\* Each step of a keyword that is connected, and of one that has nothing to ask.
LEMMA MotionConnection ==
    ASSUME ConnectionTypes, SizeFollows, Placed,
           \/ \E k \in Moving \cup Pressing : Begin(k)
           \/ Refused \/ Move \/ MoveProportional \/ WalkProportional \/ WalkFromNowhere
           \/ Walk \/ WalkStep \/ Sleep \/ Button
    PROVE  ConnectionTypes' /\ SizeFollows' /\ Placed'
<1>1. Roundtrip \/ OutOfRange
  <2>1. CASE (\E k \in Moving \cup Pressing : Begin(k)) \/ Refused
    BY <2>1 DEF Begin, Refused, OutOfRange, connectionVars, outputVars
  <2>2. CASE WalkProportional \/ Walk \/ Sleep \/ Button
    BY <2>2, Zenon DEF WalkProportional, Walk, Sleep, Button
  <2>3. CASE Move \/ MoveProportional \/ WalkFromNowhere \/ WalkStep
    BY <2>3, Zenon DEF Move, MoveProportional, WalkFromNowhere, WalkStep, MoveTo, Send
  <2> QED
    BY <2>1, <2>2, <2>3
<1>2. \/ pc' = "idle" \/ pc' = pc
      \/ pc \in {"run", "walk", "sleep"} /\ pc' \in {"run", "walk", "sleep"}
      \/ pc' = IF pointer THEN "run" ELSE "connect"
  <2>1. CASE (\E k \in Moving \cup Pressing : Begin(k)) \/ Refused
    BY <2>1 DEF Begin, Refused, Fail, Finish
  <2>2. CASE WalkProportional \/ Walk \/ Sleep \/ Button
    BY <2>2 DEF WalkProportional, Walk, Sleep, Button, Finish
  <2>3. CASE Move \/ MoveProportional \/ WalkFromNowhere \/ WalkStep
    BY <2>3 DEF Move, MoveProportional, WalkFromNowhere, WalkStep, Finish, Fail, Goto
  <2> QED
    BY <2>1, <2>2, <2>3
<1>3. /\ ConnectionTypes' /\ SizeFollows'
      /\ UNCHANGED <<factor, present, vnc, pointer, listening, output_scale>>
  BY <1>1, RequestKeeps
<1>4. Placed'
  BY <1>2, <1>3, PlacedStays
<1> QED
  BY <1>3, <1>4

\* The steps in which a pointer connects and hears of its output.
LEMMA ConnectingStep ==
    ASSUME ConnectionTypes, SizeFollows, Placed, Connect \/ Connected \/ ConnectVnc \/ Close
    PROVE  ConnectionTypes' /\ SizeFollows' /\ Placed'
<1>1. factor' = factor /\ present' = present /\ vnc' = vnc
  BY DEF Connect, Connected, ConnectVnc, Close, outputVars
<1>2. output_scale' \in Scales
  BY PointerAssumption DEF ConnectionTypes, Connect, Connected, ConnectVnc, Close
<1>3. Cached(factor) \in Nat
  BY WidthsAreNat DEF ConnectionTypes, Cached
<1>4. output_width' \in Nat
  <2>1. Mode \in Nat
    BY PointerAssumption, Zenon
  <2> QED
    BY <1>3, <2>1 DEF ConnectionTypes, Connect, Connected, ConnectVnc, Close
<1>5. /\ pointer' \in BOOLEAN /\ listening' \in BOOLEAN
      /\ changed' \in BOOLEAN /\ rescaled' \in BOOLEAN
  <2>1. CASE Connect
    BY <2>1, Zenon DEF ConnectionTypes, Connect
  <2>2. CASE Connected
    <3>1. changed' = FALSE /\ rescaled' = FALSE /\ listening' = listening
          /\ (pointer' = TRUE \/ pointer' = pointer)
      BY <2>2, Zenon DEF Connected
    <3> QED
      BY <3>1, Zenon DEF ConnectionTypes
  <2>3. CASE ConnectVnc
    BY <2>3, Zenon DEF ConnectionTypes, ConnectVnc
  <2>4. CASE Close
    BY <2>4, Zenon DEF ConnectionTypes, Close
  <2> QED
    BY <2>1, <2>2, <2>3, <2>4
<1>6. ConnectionTypes'
  BY <1>1, <1>2, <1>4, <1>5, Zenon DEF ConnectionTypes
<1>7. SizeFollows'
  <2>1. CASE Connect
    BY <2>1, Zenon DEF SizeFollows, Connect, Placed
  <2>2. CASE Connected
    <3>1. listening' = listening /\ output_scale' = output_scale
          /\ output_width' = IF listening THEN Cached(factor) ELSE output_width
      BY <2>2 DEF Connected
    <3>2. Cached(factor)' = Cached(factor)
      BY <1>1, <3>1 DEF Cached
    <3> QED
      BY <1>1, <3>1, <3>2 DEF SizeFollows
  <2>3. CASE ConnectVnc
    BY <2>3, Zenon DEF SizeFollows, ConnectVnc, Placed
  <2>4. CASE Close
    BY <2>4, Zenon DEF SizeFollows, Close
  <2> QED
    BY <2>1, <2>2, <2>3, <2>4
<1>8. Placed'
  <2>1. CASE Connect
    <3>1. pc = "connect" /\ ~vnc /\ pc' = "outputs" /\ UNCHANGED <<vnc, pointer>>
      BY <2>1 DEF Connect, Goto
    <3> QED
      BY <3>1 DEF Placed
  <2>2. CASE Connected
    <3>1. UNCHANGED <<vnc, listening>>
          /\ ((pc' = "run" /\ pointer' = TRUE) \/ pc' = "idle")
      BY <2>2, Zenon DEF Connected, Goto, Fail, Finish
    <3> QED
      BY <3>1 DEF Placed
  <2>3. CASE ConnectVnc
    <3>1. UNCHANGED <<vnc, listening>> /\ pc' = "run" /\ pointer' = TRUE
      BY <2>3, Zenon DEF ConnectVnc, Goto
    <3> QED
      BY <3>1 DEF Placed
  <2>4. CASE Close
    <3>1. pc' = "idle" /\ listening' = FALSE
      BY <2>4 DEF Close, keywordVars
    <3> QED
      BY <3>1 DEF Placed
  <2> QED
    BY <2>1, <2>2, <2>3, <2>4
<1> QED
  BY <1>6, <1>7, <1>8

\* The scale that is set and the size that is sent, handled or not: what is not known of the
\* output is not claimed.
LEMMA SizeStep ==
    ASSUME ConnectionTypes, SizeFollows, Placed,
           \/ \E s \in Scales : SetOutputScale(s)
           \/ Dispatch \/ (\E f \in Factors : Rescale(f)) \/ Appear \/ UNCHANGED vars
    PROVE  ConnectionTypes' /\ SizeFollows' /\ Placed'
<1>1. Placed'
  <2>1. UNCHANGED <<vnc, pointer, listening, pc>>
    BY DEF SetOutputScale, Dispatch, Rescale, SizeNotSent, Appear, hidVars, connectionVars,
           keywordVars, vars
  <2> QED
    BY <2>1, PlacedStays
<1>2. CASE \E s \in Scales : SetOutputScale(s)
  <2>1. PICK s \in Scales : SetOutputScale(s)
    BY <1>2
  <2>2. /\ output_scale' = s /\ rescaled' = (pointer /\ (rescaled \/ s # output_scale))
        /\ UNCHANGED <<vnc, factor, present, pointer, listening, output_width, changed>>
    BY <2>1 DEF SetOutputScale, outputVars
  <2>3. ConnectionTypes'
    <3>1. rescaled' \in BOOLEAN
      BY <2>2
    <3> QED
      BY <2>2, <3>1, Zenon DEF ConnectionTypes
  <2>4. SizeFollows'
    <3>1. SUFFICES ASSUME pointer, listening, ~changed, ~rescaled'
                   PROVE  output_width' = Cached(factor)'
      BY <2>2 DEF SizeFollows
    <3>2. output_scale' = output_scale /\ ~rescaled
      BY <2>2, <3>1, Zenon
    <3>3. Cached(factor)' = Cached(factor)
      BY <2>2, <3>2 DEF Cached
    <3> QED
      BY <2>2, <3>1, <3>2, <3>3 DEF SizeFollows
  <2> QED
    BY <1>1, <2>3, <2>4
<1>3. CASE Dispatch
  <2>1. Roundtrip
    BY <1>3, Zenon DEF Dispatch, Roundtrip
  <2> QED
    BY <1>1, <2>1, RequestKeeps
<1>4. CASE \E f \in Factors : Rescale(f)
  <2>1. PICK f \in Factors : Rescale(f)
    BY <1>4
  <2>2. /\ factor' = f
        /\ changed' = (changed \/ (pointer /\ listening /\ Logical(f) # Logical(factor)))
        /\ UNCHANGED <<vnc, present, pointer, listening, output_width, output_scale, rescaled>>
    BY <2>1 DEF Rescale, SizeSent, SizeNotSent
  <2>3. ConnectionTypes'
    <3>1. changed' \in BOOLEAN
      BY <2>2 DEF ConnectionTypes
    <3> QED
      BY <2>2, <3>1, Zenon DEF ConnectionTypes
  <2>4. SizeFollows'
    <3>1. SUFFICES ASSUME pointer, listening, ~changed', ~rescaled
                   PROVE  output_width' = Cached(factor)'
      BY <2>2 DEF SizeFollows
    <3>2. Logical(f) = Logical(factor) /\ ~changed
      BY <2>2, <3>1, Zenon
    <3>3. Cached(factor)' = Cached(factor)
      BY <2>2, <3>2 DEF Cached, Logical
    <3> QED
      BY <2>2, <3>1, <3>2, <3>3 DEF SizeFollows
  <2> QED
    BY <1>1, <2>3, <2>4
<1>5. CASE Appear \/ UNCHANGED vars
  <2>1. /\ UNCHANGED <<vnc, factor, pointer, listening, output_width, output_scale, changed,
                       rescaled>>
        /\ present' = present \/ present' = TRUE
    BY <1>5, Zenon DEF Appear, hidVars, connectionVars, vars
  <2>2. ConnectionTypes'
    BY <2>1, Zenon DEF ConnectionTypes
  <2>3. SizeFollows'
    BY <2>1 DEF SizeFollows, Cached
  <2> QED
    BY <1>1, <2>2, <2>3
<1> QED
  BY <1>2, <1>3, <1>4, <1>5

\* Each step keeps what is known of the output.
LEMMA ConnectionStep ==
    ASSUME ConnectionTypes, SizeFollows, Placed, [Next]_vars
    PROVE  ConnectionTypes' /\ SizeFollows' /\ Placed'
<1>1. CASE \/ \E k \in Moving \cup Pressing : Begin(k)
           \/ Refused \/ Move \/ MoveProportional \/ WalkProportional \/ WalkFromNowhere
           \/ Walk \/ WalkStep \/ Sleep \/ Button
  BY <1>1, MotionConnection
<1>2. CASE Connect \/ Connected \/ ConnectVnc \/ Close
  BY <1>2, ConnectingStep
<1>3. CASE \/ \E s \in Scales : SetOutputScale(s)
           \/ Dispatch \/ (\E f \in Factors : Rescale(f)) \/ Appear \/ UNCHANGED vars
  BY <1>3, SizeStep
<1> QED
  BY <1>1, <1>2, <1>3 DEF Next, Robot, Keyword, Moving, Pressing

-----------------------------------------------------------------------------
(* What the pointer remembers of where it is *)

\* The conjuncts of TypeOK that are about the motion, and those that are about the buttons.
MotionTypes ==
    /\ pointer_position \in Nat \cup {None} /\ sent \in Nat \cup {None}
    /\ astray \in BOOLEAN /\ held \subseteq Buttons

MotionInv == MotionTypes /\ Remembered /\ OnItsWay

\* A keyword that is over, or has not come to its motion, remembers what was sent last.
LEMMA AtRest ==
    ASSUME MotionInv, UNCHANGED <<motionVars, held>>, pc \notin {"walk", "sleep"},
           pc' \notin {"walk", "sleep"}
    PROVE  MotionInv'
<1>1. UNCHANGED <<pointer_position, sent, astray, held>>
  BY DEF motionVars
<1>2. MotionTypes'
  BY <1>1, Zenon DEF MotionInv, MotionTypes
<1>3. Remembered'
  BY <1>1 DEF MotionInv, Remembered
<1>4. OnItsWay'
  BY DEF OnItsWay
<1> QED
  BY <1>2, <1>3, <1>4 DEF MotionInv

\* A walk that goes on as it is.
LEMMA WalkGoesOn ==
    ASSUME MotionInv, UNCHANGED <<motionVars, keywordVars, held>>
    PROVE  MotionInv'
<1>1. UNCHANGED <<pointer_position, sent, astray, held, keyword, arg, pc, step, steps,
                  step_distance>>
  BY DEF motionVars, keywordVars
<1>2. MotionTypes'
  BY <1>1, Zenon DEF MotionInv, MotionTypes
<1>3. Remembered'
  BY <1>1 DEF MotionInv, Remembered
<1>4. OnItsWay'
  BY <1>1 DEF MotionInv, OnItsWay, Steps, Distance, Rounded, WalkPosition, Whole
<1> QED
  BY <1>2, <1>3, <1>4 DEF MotionInv

\* Connecting, and the keywords that move nothing.
LEMMA RestingStep ==
    ASSUME MotionInv, Placed, KeywordTypes,
           \/ \E k \in Moving \cup Pressing : Begin(k)
           \/ \E s \in Scales : SetOutputScale(s)
           \/ Refused \/ Connect \/ Connected \/ ConnectVnc \/ WalkProportional
    PROVE  MotionInv'
<1>1. UNCHANGED <<motionVars, held>>
  BY DEF Begin, SetOutputScale, Refused, Connect, Connected, ConnectVnc, WalkProportional,
         motionVars, Fail
<1>2. pc \notin {"walk", "sleep"} /\ pc' \notin {"walk", "sleep"}
  BY DEF Begin, SetOutputScale, Refused, Connect, Connected, ConnectVnc, WalkProportional,
         keywordVars, Finish, Fail, Goto
<1> QED
  BY <1>1, <1>2, AtRest

\* While a walk is on its way its numbers are numbers.
LEMMA OnItsWayIsWalking ==
    ASSUME MotionInv, KeywordTypes, pc \in {"walk", "sleep"}
    PROVE  Walking /\ steps >= Steps(Distance) /\ step \in 0..steps
<1>1. /\ keyword = "walk" /\ pointer_position # None /\ steps >= Steps(Distance) /\ steps > 0
  BY DEF MotionInv, OnItsWay
<1>2. pointer_position \in Nat
  BY <1>1 DEF MotionInv, MotionTypes
<1>3. /\ arg \in Nat /\ step \in 0..steps /\ steps \in 0..MaxSteps
      /\ step_distance \in Nat \ {0}
  BY <1>1 DEF KeywordTypes, Moving
<1>4. MaxSteps \in Nat
  BY PointerAssumption, Zenon
<1>5. steps \in Nat \ {0}
  BY <1>1, <1>3, <1>4
<1> QED
  BY <1>1, <1>2, <1>3, <1>5 DEF Walking

\* A button moves nothing.
LEMMA ButtonStep ==
    ASSUME MotionInv, KeywordTypes, Button
    PROVE  MotionInv'
<1>1. pc = "run" /\ UNCHANGED <<pointer_position, sent, astray>>
  BY DEF Button, motionVars
<1>2. pc' \in {"run", "idle"}
  BY DEF Button, Finish
<1>3. held' \subseteq Buttons
  BY DEF Button, MotionInv, MotionTypes, KeywordTypes
<1>4. MotionTypes'
  BY <1>1, <1>3, Zenon DEF MotionInv, MotionTypes
<1>5. Remembered' /\ OnItsWay'
  BY <1>1, <1>2 DEF MotionInv, Remembered, OnItsWay
<1> QED
  BY <1>4, <1>5 DEF MotionInv

\* A motion to one place leaves the pointer where it is remembered to be, or fails and leaves
\* both as they were.
LEMMA MoveStep ==
    ASSUME MotionInv, KeywordTypes, ConnectionTypes, ConnectionTypes',
           Move \/ MoveProportional \/ WalkFromNowhere \/ Close
    PROVE  MotionInv'
<1>1. pc \notin {"walk", "sleep"}
  BY DEF Move, MoveProportional, WalkFromNowhere, Close
<1>2. pc' \notin {"walk", "sleep"}
  BY <1>1 DEF Move, MoveProportional, WalkFromNowhere, Close, Finish, Fail, Goto, keywordVars
<1>3. held' \subseteq Buttons
  BY DEF Move, MoveProportional, WalkFromNowhere, Close, MotionInv, MotionTypes
<1>4. astray' \in BOOLEAN
  <2>1. CASE Move
    BY <2>1, Zenon DEF Move, MotionInv, MotionTypes
  <2>2. CASE MoveProportional
    <3>1. astray' = (output_width' # output_width) \/ astray' = astray
      BY <2>2, Zenon DEF MoveProportional
    <3> QED
      BY <3>1, Zenon DEF MotionInv, MotionTypes
  <2>3. CASE WalkFromNowhere
    BY <2>3, Zenon DEF WalkFromNowhere
  <2>4. CASE Close
    BY <2>4, Zenon DEF Close
  <2> QED
    BY <2>1, <2>2, <2>3, <2>4
<1>5. /\ pointer_position' \in Nat \cup {None} /\ sent' \in Nat \cup {None}
      /\ pointer_position' # None /\ ~astray' => sent' = pointer_position'
  <2>1. CASE UNCHANGED <<pointer_position, sent, astray>>
    BY <1>1, <2>1 DEF MotionInv, MotionTypes, Remembered
  <2>2. CASE Move /\ ~UNCHANGED <<pointer_position, sent, astray>>
    <3>1. sent' = arg /\ pointer_position' = arg /\ keyword = "move"
      BY <2>2, Zenon DEF Move, MoveTo, Send, Fail
    <3>2. arg \in Nat
      BY <3>1 DEF KeywordTypes, Moving
    <3> QED
      BY <3>1, <3>2
  <2>3. CASE MoveProportional /\ ~UNCHANGED <<pointer_position, sent, astray>>
    <3>1. /\ sent' = (arg * output_width) \div 2
          /\ pointer_position' = (arg * output_width') \div 2
          /\ astray' = (output_width' # output_width)
          /\ keyword = "move_proportional"
      BY <2>3, Zenon DEF MoveProportional, MoveTo, Send, Fail
    <3>2. arg \in Nat
      BY <3>1 DEF KeywordTypes, Moving
    <3>3. output_width \in Nat /\ output_width' \in Nat
      BY DEF ConnectionTypes
    <3>4. sent' \in Nat /\ pointer_position' \in Nat
      BY <3>1, <3>2, <3>3, HalvesAreNat
    <3>5. ~astray' => sent' = pointer_position'
      BY <3>1, Zenon
    <3> QED
      BY <3>4, <3>5
  <2>4. CASE WalkFromNowhere
    <3>1. /\ pointer_position' = 0
          /\ (sent' = 0 \/ (sent' = sent /\ astray' = TRUE))
      BY <2>4 DEF WalkFromNowhere, MoveTo, Send
    <3> QED
      BY <3>1 DEF MotionInv, MotionTypes
  <2>5. CASE Close
    <3>1. pointer_position' = None /\ sent' = None
      BY <2>5 DEF Close
    <3> QED
      BY <3>1
  <2> QED
    BY <2>1, <2>2, <2>3, <2>4, <2>5
<1>6. MotionTypes'
  BY <1>3, <1>4, <1>5, Zenon DEF MotionTypes
<1>7. Remembered' /\ OnItsWay'
  BY <1>2, <1>5 DEF Remembered, OnItsWay
<1> QED
  BY <1>6, <1>7 DEF MotionInv

\* A walk begins with steps enough, where the pointer is remembered to be.
LEMMA WalkBegins ==
    ASSUME MotionInv, KeywordTypes, Walk
    PROVE  MotionInv'
<1>1. /\ pc = "run" /\ keyword = "walk" /\ pointer_position # None
      /\ UNCHANGED <<motionVars, held>>
  BY DEF Walk
<1>2. UNCHANGED <<pointer_position, sent, astray, held>>
  BY <1>1 DEF motionVars
<1>3. CASE Finish
  <2>1. pc' = "idle"
    BY <1>3 DEF Finish
  <2> QED
    BY <1>1, <2>1, AtRest
<1>4. CASE /\ steps' \in {n \in 1..MaxSteps : n >= Steps(Distance)} /\ step' = 0 /\ pc' = "walk"
           /\ UNCHANGED <<keyword, arg, step_distance>>
  <2>1. MotionTypes'
    BY <1>2, Zenon DEF MotionInv, MotionTypes
  <2>2. MaxSteps \in Nat
    BY PointerAssumption, Zenon
  <2>3. steps' > 0 /\ steps' >= Steps(Distance)
    BY <1>4, <2>2
  <2>4. Steps(Distance)' = Steps(Distance)
    BY <1>2, <1>4 DEF Steps, Distance
  <2>5. astray \/ sent = pointer_position
    BY <1>1 DEF MotionInv, Remembered
  <2>6. OnItsWay'
    BY <1>1, <1>2, <1>4, <2>3, <2>4, <2>5 DEF OnItsWay
  <2>7. Remembered'
    BY <1>4 DEF Remembered
  <2> QED
    BY <2>1, <2>6, <2>7 DEF MotionInv
<1> QED
  BY <1>3, <1>4 DEF Walk

\* A step of it is sent, or fails; the first may fail and leave the pointer where it was.
LEMMA WalkStepStep ==
    ASSUME MotionInv, KeywordTypes, WalkStep
    PROVE  MotionInv'
<1>1. pc = "walk" /\ held' = held
  BY DEF WalkStep
<1>2. Walking /\ step \in 0..steps
  BY <1>1, OnItsWayIsWalking
<1>3. CASE /\ \E x \in Rounded(step) : Send(x)
           /\ Goto("sleep") /\ UNCHANGED <<pointer_position, astray>>
  <2>1. PICK x \in Rounded(step) : sent' = x
    BY <1>3 DEF Send
  <2>2. /\ pc' = "sleep"
        /\ UNCHANGED <<keyword, arg, step, steps, step_distance, pointer_position, astray, held>>
    BY <1>1, <1>3 DEF Goto
  <2>3. sent' \in Nat
    BY <1>2, <2>1, RoundedIs
  <2>4. MotionTypes'
    BY <2>2, <2>3, Zenon DEF MotionInv, MotionTypes
  <2>5. Rounded(step)' = Rounded(step) /\ Steps(Distance)' = Steps(Distance)
    BY <2>2 DEF Rounded, WalkPosition, Whole, Steps, Distance
  <2>6. OnItsWay'
    BY <1>1, <2>1, <2>2, <2>5 DEF MotionInv, OnItsWay
  <2>7. Remembered'
    BY <2>2 DEF Remembered
  <2> QED
    BY <2>4, <2>6, <2>7 DEF MotionInv
<1>4. CASE Fail /\ astray' = (astray \/ step > 0)
  <2>1. pc' = "idle" /\ UNCHANGED <<pointer_position, sent, held>>
    BY <1>1, <1>4 DEF Fail, Finish
  <2>2. astray' \in BOOLEAN
    BY <1>4
  <2>3. MotionTypes'
    BY <2>1, <2>2, Zenon DEF MotionInv, MotionTypes
  <2>4. astray' \/ sent = pointer_position
    <3>1. step = 0 \/ step > 0
      BY <1>2 DEF Walking
    <3> QED
      BY <1>1, <1>4, <3>1 DEF MotionInv, OnItsWay
  <2>5. Remembered' /\ OnItsWay'
    BY <2>1, <2>4 DEF Remembered, OnItsWay
  <2> QED
    BY <2>3, <2>5 DEF MotionInv
<1> QED
  BY <1>3, <1>4 DEF WalkStep

\* The last step is where the walk was to go.
LEMMA SleepStep ==
    ASSUME MotionInv, KeywordTypes, Sleep
    PROVE  MotionInv'
<1>1. pc = "sleep" /\ sent' = sent /\ held' = held
  BY DEF Sleep
<1>2. Walking /\ step \in 0..steps
  BY <1>1, OnItsWayIsWalking
<1>3. sent \in Rounded(step)
  BY <1>1 DEF MotionInv, OnItsWay
<1>4. CASE LastStep /\ pointer_position' = arg /\ astray' = FALSE /\ Finish
  <2>1. sent = arg
    <3>1. step = steps
      BY <1>4 DEF LastStep
    <3>2. sent = WalkPosition(step)
      BY <1>2, <1>3, <3>1, RoundedIs
    <3> QED
      BY <1>2, <3>1, <3>2, WalkEnds
  <2>2. pc' = "idle"
    BY <1>4 DEF Finish
  <2>3. pointer_position' \in Nat
    BY <1>2, <1>4 DEF Walking
  <2>4. MotionTypes'
    BY <1>1, <1>4, <2>3, Zenon DEF MotionInv, MotionTypes
  <2>5. Remembered' /\ OnItsWay'
    BY <1>1, <1>4, <2>1, <2>2 DEF Remembered, OnItsWay
  <2> QED
    BY <2>4, <2>5 DEF MotionInv
<1>5. CASE /\ ~LastStep /\ pc' = "walk" /\ step' = step + 1
           /\ UNCHANGED <<keyword, arg, steps, step_distance, pointer_position, astray>>
  <2>1. MotionTypes'
    BY <1>1, <1>5, Zenon DEF MotionInv, MotionTypes
  <2>2. step' > 0 /\ step' - 1 = step
    BY <1>2, <1>5 DEF Walking
  <2>3. Rounded(step - 1)' = Rounded(step) /\ Steps(Distance)' = Steps(Distance)
    BY <1>5, <2>2 DEF Rounded, WalkPosition, Whole, Steps, Distance
  <2>4. OnItsWay'
    BY <1>1, <1>3, <1>5, <2>2, <2>3 DEF MotionInv, OnItsWay
  <2>5. Remembered'
    BY <1>5 DEF Remembered
  <2> QED
    BY <2>1, <2>4, <2>5 DEF MotionInv
<1> QED
  BY <1>4, <1>5 DEF Sleep

\* Each step keeps what is remembered of the motion.
LEMMA MotionStep ==
    ASSUME MotionInv, KeywordTypes, ConnectionTypes, ConnectionTypes', Placed, [Next]_vars
    PROVE  MotionInv'
<1>1. CASE \/ \E k \in Moving \cup Pressing : Begin(k)
           \/ \E s \in Scales : SetOutputScale(s)
           \/ Refused \/ Connect \/ Connected \/ ConnectVnc \/ WalkProportional
  BY <1>1, RestingStep
<1>2. CASE Button
  BY <1>2, ButtonStep
<1>3. CASE Move \/ MoveProportional \/ WalkFromNowhere \/ Close
  BY <1>3, MoveStep
<1>4. CASE Walk
  BY <1>4, WalkBegins
<1>5. CASE WalkStep
  BY <1>5, WalkStepStep
<1>6. CASE Sleep
  BY <1>6, SleepStep
<1>7. CASE Dispatch \/ (\E f \in Factors : Rescale(f)) \/ Appear \/ UNCHANGED vars
  <2>1. UNCHANGED <<motionVars, keywordVars, held>>
    BY <1>7 DEF Dispatch, Rescale, SizeNotSent, Appear, hidVars, vars, motionVars, keywordVars
  <2> QED
    BY <2>1, WalkGoesOn
<1> QED
  BY <1>1, <1>2, <1>3, <1>4, <1>5, <1>6, <1>7 DEF Next, Robot, Keyword, Moving, Pressing

-----------------------------------------------------------------------------
(* The pointer, with the watcher or by itself *)

\* PointerInv in the parts that the steps keep.
LEMMA PointerParts ==
    PointerInv <=> KeywordTypes /\ ConnectionTypes /\ SizeFollows /\ Placed /\ MotionInv
<1>1. PointerInv => KeywordTypes /\ ConnectionTypes /\ SizeFollows /\ Placed /\ MotionInv
  <2> SUFFICES ASSUME PointerInv
               PROVE  KeywordTypes /\ ConnectionTypes /\ SizeFollows /\ Placed /\ MotionInv
    OBVIOUS
  <2>1. TypeOK /\ Connection /\ Remembered /\ OnItsWay /\ SizeFollows
    BY DEF PointerInv
  <2>2. Booleans /\ Data
    BY <2>1, PointerTypes
  <2>3. KeywordTypes
    BY <2>1, <2>2, Zenon DEF Data, KeywordTypes, Connection
  <2>4. ConnectionTypes
    BY <2>1, ConnectionTyped
  <2>5. MotionTypes
    BY <2>2, Zenon DEF Booleans, Data, MotionTypes
  <2>6. Placed
    BY <2>1, Zenon DEF Connection, Placed
  <2> QED
    BY <2>1, <2>3, <2>4, <2>5, <2>6 DEF MotionInv
<1>2. KeywordTypes /\ ConnectionTypes /\ SizeFollows /\ Placed /\ MotionInv => PointerInv
  <2> SUFFICES ASSUME KeywordTypes, ConnectionTypes, SizeFollows, Placed, MotionInv
               PROVE  PointerInv
    OBVIOUS
  <2>1. MotionTypes /\ Remembered /\ OnItsWay
    BY DEF MotionInv
  <2>2. Booleans /\ Data
    BY <2>1, Zenon DEF KeywordTypes, ConnectionTypes, MotionTypes, Booleans, Data
  <2>3. TypeOK
    BY <2>2, PointerTypes
  <2>4. Connection
    BY Zenon DEF KeywordTypes, Placed, Connection
  <2> QED
    BY <2>1, <2>3, <2>4 DEF PointerInv
<1> QED
  BY <1>1, <1>2

\* A new library remembers nothing.
LEMMA PointerStarts ==
    ASSUME Init
    PROVE  PointerInv
<1>1. /\ MaxSteps \in Nat /\ 2 \in Scales
  BY PointerAssumption, Zenon
<1>2. KeywordTypes
  BY <1>1 DEF Init, KeywordTypes, Moving
<1>3. ConnectionTypes
  <2>1. /\ factor \in Factors /\ present \in BOOLEAN /\ vnc \in BOOLEAN /\ output_scale = 2
        /\ pointer = FALSE /\ listening = FALSE /\ changed = FALSE /\ rescaled = FALSE
    BY Zenon DEF Init
  <2>2. output_width \in Nat
    BY DEF Init
  <2> QED
    BY <1>1, <2>1, <2>2, Zenon DEF ConnectionTypes
<1>4. SizeFollows /\ Placed
  BY DEF Init, SizeFollows, Placed
<1>5. MotionInv
  BY DEF Init, MotionInv, MotionTypes, Remembered, OnItsWay
<1> QED
  BY <1>2, <1>3, <1>4, <1>5, PointerParts

\* Each step of a pointer keeps its invariant.
LEMMA PointerSteps ==
    ASSUME PointerInv, [Next]_vars
    PROVE  PointerInv'
<1>1. KeywordTypes /\ ConnectionTypes /\ SizeFollows /\ Placed /\ MotionInv
  BY PointerParts
<1>2. KeywordTypes'
  BY KeywordStep DEF PointerInv
<1>3. ConnectionTypes' /\ SizeFollows' /\ Placed'
  BY <1>1, ConnectionStep
<1>4. MotionInv'
  BY <1>1, <1>3, MotionStep
<1> QED
  BY <1>2, <1>3, <1>4, PointerParts, PTL

\* What an output test does to a pointer, a pointer does by itself.
LEMMA TestsMoveThePointer == TestsNext => [Next]_vars
<1>1. CASE Suite
  BY <1>1 DEF Suite, Next
<1>2. CASE Watch
  BY <1>2 DEF Watch
<1>3. CASE \E f \in Factors : ChangeScale(f)
  BY <1>3 DEF ChangeScale, Next
<1>4. CASE OutputAppears
  BY <1>4 DEF OutputAppears, Next
<1> QED
  BY <1>1, <1>2, <1>3, <1>4 DEF TestsNext

\* The suites of the output tests are those of a pointer, whatever the watcher does.
THEOREM TestsDriveThePointer == TestsSpec => Spec
<1>1. TestsInit => Init
  BY DEF TestsInit
<1>2. [TestsNext]_allVars => [Next]_vars
  BY TestsMoveThePointer DEF allVars
<1> QED
  BY <1>1, <1>2, PTL DEF TestsSpec, Spec

\* The size that is known is that of the output once what it sent is handled, and the position
\* that is remembered is the one that was sent last (virtual_pointer.py:57, WaylandHid.py:37).
THEOREM PointerInvHolds == Spec => []PointerInv
<1>1. Init => PointerInv
  BY PointerStarts
<1>2. PointerInv /\ [Next]_vars => PointerInv'
  BY PointerSteps
<1> QED
  BY <1>1, <1>2, PTL DEF Spec

\* Only a step of it moves the pointer that walks.
LEMMA OnlyItsSteps ==
    ASSUME pc = "walk", [Next]_vars, sent' # sent
    PROVE  WalkStep
<1>1. CASE Robot
  BY <1>1 DEF Robot, Begin, SetOutputScale, Close
<1>2. CASE Keyword
  BY <1>2 DEF Keyword, Refused, Connect, Connected, ConnectVnc, Move, MoveProportional,
              WalkProportional, WalkFromNowhere, Walk, Sleep, Button
<1>3. CASE Dispatch \/ (\E f \in Factors : Rescale(f)) \/ Appear \/ UNCHANGED vars
  BY <1>3 DEF Dispatch, Rescale, SizeNotSent, Appear, hidVars, vars, motionVars
<1> QED
  BY <1>1, <1>2, <1>3 DEF Next

\* A walk goes no further in one step than its step distance and the pixel that is lost in
\* rounding, from where the last keyword left the pointer (WaylandHid.py:52-68).
LEMMA WalkStepIsShort ==
    ASSUME PointerInv, pc = "walk", [Next]_vars, sent' # sent, step > 0 \/ ~astray
    PROVE  sent' - sent <= step_distance + 1 /\ sent - sent' <= step_distance + 1
<1>1. KeywordTypes /\ MotionInv
  BY PointerParts
<1>2. Walking /\ steps >= Steps(Distance) /\ step \in 0..steps
  BY <1>1, OnItsWayIsWalking
<1>3. WalkStep
  BY OnlyItsSteps
<1>4. sent' \in Rounded(step)
  BY <1>3 DEF WalkStep, Send, Fail
<1>5. CASE step = 0
  <2>1. sent = pointer_position
    BY <1>1, <1>5 DEF MotionInv, OnItsWay
  <2>2. sent' = WalkPosition(step) /\ WalkPosition(0) = pointer_position
    BY <1>2, <1>4, <1>5, RoundedIs, WalkEnds
  <2> QED
    BY <1>5, <2>1, <2>2
<1>6. CASE step > 0
  <2>1. sent \in Rounded(step - 1)
    BY <1>1, <1>6 DEF MotionInv, OnItsWay
  <2>2. step \in 1..steps
    BY <1>2, <1>6 DEF Walking
  <2> QED
    BY <1>2, <1>4, <2>1, <2>2, SentIsNear
<1>7. step = 0 \/ step > 0
  BY <1>2 DEF Walking
<1> QED
  BY <1>5, <1>6, <1>7

\* The pointer walks gradually, also while the output is rescaled (kvm.resource:131): every
\* step but the first is short, and the first one, too, unless the position remembered is not
\* the one sent, as WalkIsGradual says.
THEOREM WalksAreGradual == Spec => WalkIsGradual
<1> DEFINE Gradual == pc = "walk" /\ sent' # sent /\ (step > 0 \/ ~astray)
                      => /\ sent' - sent <= step_distance + 1
                         /\ sent - sent' <= step_distance + 1
<1>1. PointerInv /\ [Next]_vars => [Gradual]_vars
  BY WalkStepIsShort
<1>2. Spec => [][Gradual]_vars
  BY <1>1, PointerInvHolds, PTL DEF Spec
<1> QED
  BY <1>2 DEF WalkIsGradual

-----------------------------------------------------------------------------
(* The watcher *)

\* What is handled of a queue leaves a queue, and what is queued joins it.
LEMMA Queues ==
    ASSUME NEW S, NEW T, S \subseteq T, NEW q \in Seq(S)
    PROVE  /\ q \in Seq(T)
           /\ q # <<>> => Head(q) \in S /\ Tail(q) \in Seq(S)
           /\ \A f \in T : Append(q, f) \in Seq(T)
<1>1. q \in Seq(T)
  BY SeqMonotonic
<1>2. q # <<>> => Head(q) \in S /\ Tail(q) \in Seq(S)
  OBVIOUS
<1>3. \A f \in T : Append(q, f) \in Seq(T)
  BY <1>1
<1> QED
  BY <1>1, <1>2, <1>3

\* What the watcher knows, and which suite waits for it: the two parts of WatcherInv.
Watched ==
    /\ test \in {"osk", "configuration", "robot"} /\ (vnc => test = "robot")
    /\ wanted \in Factors \cup {None}
    /\ bound \/ announced => present
    /\ mode = IF bound THEN Mode ELSE None
    /\ ~bound => queue = <<>> /\ calls = {} /\ ~done_event
    /\ wpc = "robot" => bound
    /\ queue \in Seq(shown) /\ calls \subseteq shown
    /\ test = "configuration" /\ present /\ wpc \notin {"passed", "failed"} => factor \in shown
    /\ wpc = "passed" /\ timeout > 0 => wanted \in calls

SuiteWaits ==
    /\ test = "osk" /\ wpc # "robot" => pc = "idle" /\ ~pointer
    /\ test = "osk" /\ (pointer \/ pc = "outputs") => listening

\* WatcherInv in two parts.
LEMMA WatcherParts == WatcherInv <=> Watched /\ SuiteWaits
  BY Zenon DEF WatcherInv, Watched, SuiteWaits

\* A watcher that has not connected knows nothing.
LEMMA WatcherStarts ==
    ASSUME Init, Watcher!WatcherInit, vnc => test = "robot"
    PROVE  WatcherInv
<1>1. Watched
  <2>1. /\ test \in {"osk", "configuration", "robot"} /\ wanted = None /\ bound = FALSE
        /\ announced = FALSE /\ mode = None /\ done_event = FALSE /\ calls = {} /\ queue = <<>>
        /\ wpc = "connect"
    BY DEF Watcher!WatcherInit
  <2>2. test = "configuration" /\ present => factor \in shown
    BY DEF Watcher!WatcherInit, Watcher!on_scale
  <2>3. queue \in Seq(shown)
    BY <2>1, EmptySeq
  <2> QED
    BY <2>1, <2>2, <2>3 DEF Watched
<1>2. SuiteWaits
  BY DEF Init, SuiteWaits
<1> QED
  BY <1>1, <1>2, WatcherParts

\* A suite hears of its output when that is there before it connects.
LEMMA SuiteStep ==
    ASSUME WatcherInv, Suite
    PROVE  WatcherInv'
<1>1. Watched /\ SuiteWaits
  BY WatcherParts
<1>2. /\ test' = test /\ config' = config /\ wpc' = wpc /\ timeout' = timeout /\ looks' = looks
      /\ wanted' = wanted /\ bound' = bound /\ mode' = mode /\ done_event' = done_event
      /\ calls' = calls /\ announced' = announced /\ queue' = queue /\ shown' = shown
  BY DEF Suite, watcherVars
<1>3. Robot \/ Keyword \/ Dispatch
  BY DEF Suite
<1>4. factor' = factor /\ present' = present /\ vnc' = vnc
  <2>1. CASE Robot
    BY <2>1 DEF Robot, Begin, SetOutputScale, Close, outputVars
  <2>2. CASE Keyword
    BY <2>2 DEF Keyword, Refused, Connect, Connected, ConnectVnc, Move, MoveProportional,
                WalkProportional, WalkFromNowhere, Walk, WalkStep, Sleep, Button, MoveTo, Send,
                Roundtrip, OutOfRange, outputVars
  <2>3. CASE Dispatch
    BY <2>3 DEF Dispatch, outputVars
  <2> QED
    BY <1>3, <2>1, <2>2, <2>3
<1>5. Watched'
  BY <1>1, <1>2, <1>4, Zenon DEF Watched
<1>6. ASSUME test = "osk"
      PROVE  /\ wpc = "robot"
             /\ pointer' \/ pc' = "outputs" => listening'
  <2>1. wpc = "robot" /\ present /\ ~vnc
    BY <1>1, <1>6 DEF Suite, Watched
  <2>2. pointer \/ pc = "outputs" => listening
    BY <1>1, <1>6 DEF SuiteWaits
  <2>3. pointer' \/ pc' = "outputs" => listening'
    <3>1. CASE Robot
      BY <2>2, <3>1 DEF Robot, Begin, SetOutputScale, Close, connectionVars, keywordVars
    <3>2. CASE Connect
      BY <2>1, <3>2 DEF Connect
    <3>3. CASE Connected
      BY <2>2, <3>3 DEF Connected
    <3>4. CASE Refused \/ ConnectVnc
      BY <2>1, <2>2, <3>4 DEF Refused, ConnectVnc, Fail, Finish, connectionVars
    <3>5. CASE WalkProportional \/ Walk \/ Sleep \/ Button \/ Dispatch
      BY <2>2, <3>5 DEF WalkProportional, Walk, Sleep, Button, Dispatch, OutOfRange, Roundtrip,
                        connectionVars, keywordVars, Finish
    <3>6. CASE Move \/ MoveProportional \/ WalkFromNowhere \/ WalkStep
      BY <2>2, <3>6 DEF Move, MoveProportional, WalkFromNowhere, WalkStep, MoveTo, Send, OutOfRange,
                        Roundtrip, connectionVars, Fail, Finish, Goto
    <3> QED
      BY <1>3, <3>1, <3>2, <3>3, <3>4, <3>5, <3>6 DEF Keyword
  <2> QED
    BY <2>1, <2>3
<1>7. SuiteWaits'
  BY <1>2, <1>6, Zenon DEF SuiteWaits
<1> QED
  BY <1>5, <1>7, WatcherParts, PTL

\* A step of the test, or of its watcher.
LEMMA WatchStep ==
    ASSUME WatcherInv, Watch
    PROVE  WatcherInv'
<1>1. Watched /\ SuiteWaits
  BY WatcherParts
<1>2. /\ factor' = factor /\ present' = present /\ vnc' = vnc
      /\ pc' = pc /\ pointer' = pointer /\ listening' = listening
  BY DEF Watch, vars
<1>3. test' = test /\ timeout' = timeout /\ shown' = shown
  BY DEF Watch, Watcher!Step, Watcher!Connect, Watcher!Dispatch, Watcher!WaitDone, Watcher!Look,
         Watcher!Wake, Watcher!Goto, Watcher!callVars
<1>4. SuiteWaits'
  <2>1. wpc' # "robot" => wpc # "robot"
    BY DEF Watch, Watcher!Step, Watcher!Connect, Watcher!Dispatch, Watcher!WaitDone,
           Watcher!Look, Watcher!Wake, Watcher!Goto
  <2> QED
    BY <1>1, <1>2, <1>3, <2>1, Zenon DEF SuiteWaits
<1>5. CASE Watcher!Describe /\ wpc \notin {"robot", "passed", "failed"} /\ present
           /\ wpc' \notin {"robot", "passed"} /\ wanted' = wanted
           /\ (wpc' # "failed" => wpc # "failed")
  <2>1. /\ bound' = TRUE /\ announced' = FALSE /\ queue' = <<>> /\ mode' = Mode
        /\ calls' = IF test = "configuration" THEN calls \cup {factor} ELSE calls
    BY <1>5 DEF Watcher!Describe, Watcher!on_scale
  <2>2. calls' \subseteq shown
    BY <1>1, <1>5, <2>1 DEF Watched
  <2>3. queue' \in Seq(shown)
    BY <2>1, EmptySeq
  <2>4. test = "configuration" /\ present => factor \in shown
    BY <1>1, <1>5 DEF Watched
  <2>5. Watched'
    BY <1>1, <1>2, <1>3, <1>5, <2>1, <2>2, <2>3, <2>4 DEF Watched
  <2> QED
    BY <1>4, <2>5, WatcherParts, PTL
<1>6. CASE /\ wpc \notin {"robot", "passed", "failed"} /\ wpc' \notin {"robot", "passed"}
           /\ queue # <<>> /\ queue' = Tail(queue) /\ calls' = calls \cup {Head(queue)}
           /\ UNCHANGED <<bound, mode, announced, wanted>>
  <2>1. Head(queue) \in shown /\ Tail(queue) \in Seq(shown) /\ bound
    BY <1>1, <1>6, Queues DEF Watched
  <2>2. calls' \subseteq shown /\ queue' \in Seq(shown)
    BY <1>1, <1>6, <2>1 DEF Watched
  <2>3. test = "configuration" /\ present => factor \in shown
    BY <1>1, <1>6 DEF Watched
  <2>4. Watched'
    BY <1>1, <1>2, <1>3, <1>6, <2>1, <2>2, <2>3 DEF Watched
  <2> QED
    BY <1>4, <2>4, WatcherParts, PTL
<1>7. CASE /\ UNCHANGED <<bound, mode, done_event, calls, announced, queue>>
           /\ wpc \notin {"passed", "failed"}
           /\ wanted' \in Factors \cup {None}
           /\ wpc' = "robot" => bound
           /\ wpc' = "passed" /\ timeout > 0 => wanted' \in calls
  <2>1. test = "configuration" /\ present => factor \in shown
    BY <1>1, <1>7 DEF Watched
  <2>2. Watched'
    BY <1>1, <1>2, <1>3, <1>7, <2>1 DEF Watched
  <2> QED
    BY <1>4, <2>2, WatcherParts, PTL
<1>8. CASE Watcher!Connect
  <2>1. wpc = "connect" /\ wpc' \in {"look", "wait_done"} /\ wanted' = wanted
    BY <1>8 DEF Watcher!Connect
  <2>2. (present /\ Watcher!Describe)
        \/ UNCHANGED <<bound, mode, done_event, calls, announced, queue>>
    BY <1>8 DEF Watcher!Connect, Watcher!handledVars
  <2> QED
    BY <1>1, <1>5, <1>7, <2>1, <2>2 DEF Watched
<1>9. CASE Watcher!Dispatch
  <2>1. wpc \in {"wait_done", "asleep"} /\ wpc' = wpc /\ wanted' = wanted
    BY <1>9 DEF Watcher!Dispatch
  <2>2. \/ announced /\ Watcher!Describe
        \/ /\ queue # <<>> /\ queue' = Tail(queue) /\ calls' = calls \cup {Head(queue)}
           /\ UNCHANGED <<bound, mode, announced>>
    BY <1>9 DEF Watcher!Dispatch
  <2> QED
    BY <1>1, <1>5, <1>6, <2>1, <2>2 DEF Watched
<1>10. CASE Watcher!WaitDone
  <2>1. /\ wpc = "wait_done" /\ wanted' = wanted
        /\ UNCHANGED <<bound, mode, done_event, calls, announced, queue>>
        /\ (wpc' = "robot" /\ done_event) \/ wpc' = "failed"
    BY <1>10 DEF Watcher!WaitDone, Watcher!Goto, Watcher!handledVars
  <2> QED
    BY <1>1, <1>7, <2>1 DEF Watched
<1>11. CASE Watcher!Look
  <2>1. wpc = "look" /\ UNCHANGED <<bound, mode, done_event, calls, announced, queue>>
    BY <1>11 DEF Watcher!Look, Watcher!handledVars
  <2>2. CASE (timeout = 0 \/ Watcher!Called) /\ Watcher!Returned
    <3>1. \/ wanted' \in Factors /\ wpc' = "look"
          \/ wanted # None /\ wpc' = "passed" /\ wanted' = wanted
      BY <2>2 DEF Watcher!Returned
    <3>2. wanted # None => timeout = 0 \/ wanted \in calls
      BY <2>2 DEF Watcher!Called
    <3> QED
      BY <1>1, <1>7, <2>1, <3>1, <3>2 DEF Watched
  <2>3. CASE wanted' = wanted /\ wpc' \in {"failed", "asleep"}
    BY <1>1, <1>7, <2>1, <2>3 DEF Watched
  <2> QED
    BY <1>11, <2>2, <2>3 DEF Watcher!Look
<1>12. CASE Watcher!Wake
  <2>1. /\ wpc = "asleep" /\ wpc' = "look" /\ wanted' = wanted
        /\ UNCHANGED <<bound, mode, done_event, calls, announced, queue>>
    BY <1>12 DEF Watcher!Wake, Watcher!Goto, Watcher!handledVars
  <2> QED
    BY <1>1, <1>7, <2>1 DEF Watched
<1> QED
  BY <1>8, <1>9, <1>10, <1>11, <1>12 DEF Watch, Watcher!Step

\* The output has another scale, or comes.
LEMMA OutputStep ==
    ASSUME WatcherInv, (\E f \in Factors : ChangeScale(f)) \/ OutputAppears
    PROVE  WatcherInv'
<1>1. Watched /\ SuiteWaits
  BY WatcherParts
<1>2. vnc' = vnc /\ pc' = pc /\ pointer' = pointer /\ listening' = listening
  BY DEF ChangeScale, Rescale, SizeNotSent, OutputAppears, Appear, hidVars, connectionVars,
         keywordVars
<1>3. test' = test /\ timeout' = timeout /\ wpc' = wpc /\ wanted' = wanted
      /\ UNCHANGED <<bound, mode, done_event, calls>>
  BY DEF ChangeScale, Watcher!Scaled, OutputAppears, Watcher!Appeared, Watcher!callVars,
         Watcher!handledVars
<1>4. SuiteWaits'
  BY <1>1, <1>2, <1>3, Zenon DEF SuiteWaits
<1>5. Watched'
  <2>1. CASE OutputAppears
    <3>1. /\ ~present /\ present' = TRUE /\ factor' = factor /\ queue' = queue
          /\ shown' = IF test = "configuration" THEN {factor} ELSE {}
      BY <2>1 DEF OutputAppears, Appear, Watcher!Appeared, Watcher!on_scale
    <3>2. ~bound /\ queue = <<>> /\ calls = {}
      BY <1>1, <3>1 DEF Watched
    <3>3. queue' \in Seq(shown')
      BY <3>1, <3>2, EmptySeq
    <3> QED
      BY <1>1, <1>2, <1>3, <3>1, <3>2, <3>3 DEF Watched
  <2>2. CASE \E f \in Factors : ChangeScale(f)
    <3>1. PICK f \in Factors : Rescale(f) /\ Watcher!Scaled(f)
      BY <2>2 DEF ChangeScale
    <3>2. factor' = f /\ present' = present
      BY <3>1 DEF Rescale
    <3>3. CASE test = "configuration" /\ wpc \notin {"passed", "failed"}
      <4>1. /\ shown' = IF present THEN shown \cup {f} ELSE shown
            /\ queue' = IF bound THEN Append(queue, f) ELSE queue
            /\ announced' = announced
        BY <3>1, <3>3 DEF Watcher!Scaled, Watcher!on_scale
      <4>2. shown \subseteq shown' /\ (bound => f \in shown')
        BY <1>1, <4>1 DEF Watched
      <4>3. queue' \in Seq(shown')
        <5>1. queue \in Seq(shown)
          BY <1>1 DEF Watched
        <5>2. queue \in Seq(shown') /\ (bound => Append(queue, f) \in Seq(shown'))
          BY <4>2, <5>1, Queues
        <5> QED
          BY <4>1, <5>2
      <4>4. calls' \subseteq shown'
        BY <1>1, <1>3, <4>2 DEF Watched
      <4>5. ~bound => queue' = <<>>
        BY <1>1, <4>1 DEF Watched
      <4>6. present => f \in shown'
        BY <4>1
      <4> QED
        BY <1>1, <1>2, <1>3, <3>2, <3>3, <4>1, <4>3, <4>4, <4>5, <4>6 DEF Watched
    <3>4. CASE ~(test = "configuration" /\ wpc \notin {"passed", "failed"})
      <4>1. UNCHANGED <<shown, queue, announced>>
        BY <3>1, <3>4 DEF Watcher!Scaled, Watcher!on_scale, Watcher!callVars, Watcher!handledVars
      <4> QED
        BY <1>1, <1>2, <1>3, <3>2, <3>4, <4>1 DEF Watched
    <3> QED
      BY <3>3, <3>4
  <2> QED
    BY <2>1, <2>2
<1> QED
  BY <1>4, <1>5, WatcherParts, PTL

\* What a watcher knows it has been told of an output that is there, and the suite of test_osk
\* waits for it.
THEOREM TestsInvHolds == TestsSpec => []TestsInv
<1>1. TestsInit => WatcherInv
  BY WatcherStarts DEF TestsInit
<1>2. WatcherInv /\ [TestsNext]_allVars => WatcherInv'
  <2> SUFFICES ASSUME WatcherInv, [TestsNext]_allVars PROVE WatcherInv'
    OBVIOUS
  <2>1. CASE Suite
    BY <2>1, SuiteStep
  <2>2. CASE Watch
    BY <2>2, WatchStep
  <2>3. CASE (\E f \in Factors : ChangeScale(f)) \/ OutputAppears
    BY <2>3, OutputStep
  <2>4. CASE UNCHANGED allVars
    <3>1. UNCHANGED vars /\ UNCHANGED watcherVars
      BY <2>4 DEF allVars
    <3>2. /\ factor' = factor /\ present' = present /\ vnc' = vnc /\ pc' = pc
          /\ pointer' = pointer /\ listening' = listening
      BY <3>1 DEF vars
    <3>3. /\ test' = test /\ wpc' = wpc /\ timeout' = timeout /\ wanted' = wanted
          /\ bound' = bound /\ mode' = mode /\ done_event' = done_event /\ calls' = calls
          /\ announced' = announced /\ queue' = queue /\ shown' = shown
      BY <3>1 DEF watcherVars
    <3> QED
      BY <3>2, <3>3, Zenon DEF WatcherInv
  <2> QED
    BY <2>1, <2>2, <2>3, <2>4 DEF TestsNext
<1>3. TestsSpec => []WatcherInv
  BY <1>1, <1>2, PTL DEF TestsSpec
<1>4. PointerInv /\ WatcherInv => TestsInv
  BY DEF TestsInv
<1> QED
  BY <1>3, <1>4, TestsDriveThePointer, PointerInvHolds, PTL

\* A test that goes on has the mode of its output, one that passes has had the scale it asked
\* for, and a suite that waited for the watcher hears of the size of its output
\* (test_osk.py:72, test_display_configuration.py:33, virtual_pointer.py:47-51).
THEOREM WatcherTellsTheTruth == TestsSpec => []WatcherKnows
<1>1. WatcherInv => WatcherKnows
  <2> SUFFICES ASSUME WatcherInv PROVE WatcherKnows
    OBVIOUS
  <2>1. None # Mode
    BY PointerAssumption
  <2>2. Watcher!DoneMeansMode
    BY <2>1 DEF WatcherInv, Watcher!DoneMeansMode
  <2>3. Watcher!PassMeansScaled
    BY DEF WatcherInv, Watcher!PassMeansScaled
  <2>4. test = "osk" /\ pointer => listening
    BY DEF WatcherInv
  <2> QED
    BY <2>2, <2>3, <2>4 DEF WatcherKnows
<1>2. TestsInv => WatcherInv
  BY DEF TestsInv
<1> QED
  BY <1>1, <1>2, TestsInvHolds, PTL
=============================================================================
