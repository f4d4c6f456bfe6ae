--------------------------- MODULE Contents_proofs ---------------------------
(***************************************************************************)
(* Proofs about the contents of a round, for every window, every database,  *)
(* every text and every set of durations.                                  *)
(***************************************************************************)
EXTENDS Contents, Data_proofs

\* A step works on one part and leaves the others alone.
LEMMA OnePartSteps ==
    ASSUME [Next]_vars
    PROVE  /\ (\E kind \in Kinds : Push(kind)) \/ UNCHANGED windowVars
           /\ DeckNext \/ UNCHANGED deckVars
           /\ PanelsNext \/ UNCHANGED panelVars
           /\ MotorNext \/ UNCHANGED motorVars
  BY DEF Next, vars

-----------------------------------------------------------------------------
(***************************************************************************)
(* The motor.  PatternIsFelt is not inductive: a turn of the loop must not  *)
(* come when the pattern is over.  It cannot, as a step is held only while  *)
(* index is that of a step, and without a pattern none is held at all.     *)
(***************************************************************************)
MotorSteps == [strength : Nat, duration : Nat \ {0}]

Feels(i) == IF i <= Len(steps) THEN steps[i].strength ELSE 0

MotorInv ==
    /\ steps \in Seq(MotorSteps) /\ index \in Nat /\ left \in Nat \cup {Off}
    /\ steps = <<>> => left = Off
    /\ steps # <<>> => /\ index \in 1..Len(steps) + 1
                       /\ left # Off => index <= Len(steps)
                       /\ felt \in Seq(Nat) /\ Len(felt) = index
                       /\ \A i \in 1..index : felt[i] = Feels(i)

\* Every event has a pattern of steps that last.
LEMMA PatternType ==
    ASSUME NEW event \in HapticEvents
    PROVE  pattern(event) \in Seq(MotorSteps) /\ pattern(event) # <<>>
<1>1. /\ \A s \in {Soft, Rising, Original, Firm} : pulse(s) \in MotorSteps
      /\ Silence \in MotorSteps /\ Step(Firm, THUMP) \in MotorSteps
  BY MotorAssumption
     DEF pulse, Silence, Step, MotorSteps, Soft, Rising, Original, Firm
<1>2. \A p \in {Single, DoubleSoft, Double, Thump, Rise} :
         p \in Seq(MotorSteps) /\ p # <<>>
  <2>1. \A a, b, c, d, e \in MotorSteps :
           \A p \in {<<a>>, <<a, b, c>>, <<a, b, c, d, e>>} :
              p \in Seq(MotorSteps) /\ p # <<>>
    <3> HIDE DEF MotorSteps
    <3> TAKE a, b, c, d, e \in MotorSteps
    <3>1. <<a>> \in Seq(MotorSteps) /\ <<a>> # <<>>
      OBVIOUS
    <3>2. <<a, b, c>> \in Seq(MotorSteps) /\ <<a, b, c>> # <<>>
      OBVIOUS
    <3>3. <<a, b, c, d, e>> \in Seq(MotorSteps) /\ <<a, b, c, d, e>> # <<>>
      OBVIOUS
    <3>4. QED  BY <3>1, <3>2, <3>3, Zenon
  <2>2. Single # <<>> /\ Single \in Seq(MotorSteps)
    BY <1>1, <2>1, Zenon DEF Single
  <2>3. DoubleSoft # <<>> /\ DoubleSoft \in Seq(MotorSteps)
    BY <1>1, <2>1, Zenon DEF DoubleSoft
  <2>4. Double # <<>> /\ Double \in Seq(MotorSteps)
    BY <1>1, <2>1, Zenon DEF Double
  <2>5. Thump # <<>> /\ Thump \in Seq(MotorSteps)
    BY <1>1, <2>1, Zenon DEF Thump
  <2>6. Rise # <<>> /\ Rise \in Seq(MotorSteps)
    BY <1>1, <2>1, Zenon DEF Rise
  <2>7. QED  BY <2>2, <2>3, <2>4, <2>5, <2>6, Zenon
<1>3. pattern(event) \in {Single, DoubleSoft, Double, Thump, Rise}
  BY DEF pattern, HapticEvents
<1>4. QED  BY <1>2, <1>3

\* A pattern that is asked for is felt from its first step.
LEMMA PlayStartsAnew ==
    ASSUME NEW event \in HapticEvents, Play(event)
    PROVE  MotorInv'
<1> DEFINE p == pattern(event)
<1>1. p \in Seq(MotorSteps) /\ p # <<>>
  BY PatternType
<1>2. steps' = p /\ index' = 1 /\ StartStep(p, 1) /\ felt' = <<strength'>>
  BY DEF Play
<1> HIDE DEF p
<1>3. 1 \in DOMAIN p /\ Len(p) \in Nat \ {0} /\ p[1] \in MotorSteps
  BY <1>1
<1>4. strength' = p[1].strength /\ left' = p[1].duration
  BY <1>2, <1>3 DEF StartStep
<1>5. strength' \in Nat /\ left' \in Nat
  BY <1>3, <1>4 DEF MotorSteps
<1>6. Len(felt') = 1 /\ felt' \in Seq(Nat) /\ felt'[1] = p[1].strength
  BY <1>2, <1>4, <1>5
<1>7. QED  BY <1>1, <1>2, <1>3, <1>5, <1>6 DEF MotorInv, Feels

\* A turn of the loop adds the next step, or the silence after the last.
LEMMA AdvanceFeelsTheNext == MotorInv /\ Advance => MotorInv'
<1> SUFFICES ASSUME MotorInv, Advance  PROVE MotorInv'
  OBVIOUS
<1>1. /\ left = 0 /\ steps' = steps /\ index' = index + 1
      /\ StartStep(steps, index + 1) /\ felt' = Append(felt, strength')
  BY DEF Advance
<1>2. /\ steps # <<>> /\ index \in 1..Len(steps) /\ steps \in Seq(MotorSteps)
      /\ felt \in Seq(Nat) /\ Len(felt) = index
      /\ \A i \in 1..index : felt[i] = Feels(i)
  BY <1>1 DEF MotorInv, Off
<1>3. /\ strength' = Feels(index + 1) /\ strength' \in Nat
      /\ left' \in Nat \cup {Off}
      /\ left' # Off => index + 1 <= Len(steps)
  <2>1. CASE index + 1 <= Len(steps)
    <3>1. index + 1 \in DOMAIN steps /\ steps[index + 1] \in MotorSteps
      BY <1>2, <2>1
    <3>2. /\ strength' = steps[index + 1].strength
          /\ left' = steps[index + 1].duration
      BY <1>1, <3>1 DEF StartStep
    <3>3. QED  BY <2>1, <3>1, <3>2 DEF MotorSteps, Feels
  <2>2. CASE ~(index + 1 <= Len(steps))
    <3>1. index + 1 \notin DOMAIN steps
      BY <1>2, <2>2
    <3>2. QED  BY <1>1, <2>2, <3>1 DEF StartStep, Feels
  <2>3. QED  BY <2>1, <2>2
<1>4. /\ felt' \in Seq(Nat) /\ Len(felt') = index + 1
      /\ \A i \in 1..index : felt'[i] = felt[i]
      /\ felt'[index + 1] = strength'
  BY <1>1, <1>2, <1>3
<1>5. \A i \in 1..index + 1 : felt'[i] = Feels(i)
  BY <1>2, <1>3, <1>4
<1>6. \A i \in 1..index' :
         felt'[i] = IF i <= Len(steps') THEN steps'[i].strength ELSE 0
  BY <1>1, <1>5 DEF Feels
<1>7. /\ steps' \in Seq(MotorSteps) /\ steps' # <<>>
      /\ index' \in 1..Len(steps') + 1
      /\ left' # Off => index' <= Len(steps')
      /\ felt' \in Seq(Nat) /\ Len(felt') = index'
  BY <1>1, <1>2, <1>3, <1>4
<1>8. index' \in Nat /\ left' \in Nat \cup {Off}
  BY <1>3, <1>7
<1>9. QED  BY <1>6, <1>7, <1>8 DEF MotorInv, Feels

LEMMA MotorStep == MotorInv /\ [Next]_vars => MotorInv'
<1> SUFFICES ASSUME MotorInv, [Next]_vars  PROVE MotorInv'
  OBVIOUS
<1>1. CASE PlayInLoop \/ FallAsleep
  <2>1. \E event \in HapticEvents : Play(event)
    BY <1>1 DEF PlayInLoop, FallAsleep, HapticEvents
  <2>2. QED  BY <2>1, PlayStartsAnew
<1>2. CASE Advance
  BY <1>2, AdvanceFeelsTheNext
<1>3. CASE Pass
  <2>1. left \in Nat /\ left' \in Nat /\ UNCHANGED <<steps, index, felt>>
    BY <1>3 DEF Pass, MotorInv, Off
  <2>2. QED  BY <2>1 DEF MotorInv, Feels, Off
<1>4. CASE Release
  BY <1>4 DEF Release, MotorInv
<1>5. CASE UNCHANGED motorVars
  BY <1>5 DEF motorVars, MotorInv, Feels
<1>6. QED  BY OnePartSteps, <1>1, <1>2, <1>3, <1>4, <1>5 DEF MotorNext

LEMMA MotorInvGivesPattern == MotorInv => PatternIsFelt
<1> SUFFICES ASSUME MotorInv, steps # <<>>
             PROVE  /\ IsPrefix(felt, Append([i \in DOMAIN steps |-> steps[i].strength], 0))
                    /\ Len(felt) = index
  BY DEF PatternIsFelt
<1> DEFINE strengths == [i \in DOMAIN steps |-> steps[i].strength]
           whole == Append(strengths, 0)
<1>1. /\ steps \in Seq(MotorSteps) /\ index \in 1..Len(steps) + 1
      /\ felt \in Seq(Nat) /\ Len(felt) = index
      /\ \A i \in 1..index : felt[i] = Feels(i)
  BY DEF MotorInv
<1>2. /\ strengths \in Seq(Nat) /\ Len(strengths) = Len(steps)
      /\ \A i \in 1..Len(steps) : strengths[i] = steps[i].strength
  <2>1. DOMAIN steps = 1..Len(steps) /\ Len(steps) \in Nat
    BY <1>1
  <2>2. \A i \in 1..Len(steps) : steps[i].strength \in Nat
    <3>1. \A i \in 1..Len(steps) : steps[i] \in MotorSteps
      BY <1>1
    <3>2. QED  BY <3>1 DEF MotorSteps
  <2>3. QED  BY <2>1, <2>2
<1> HIDE DEF strengths
<1>3. whole \in Seq(Nat) /\ Len(whole) = Len(steps) + 1
      /\ \A i \in 1..Len(steps) : whole[i] = steps[i].strength
      /\ whole[Len(steps) + 1] = 0
  BY <1>1, <1>2
<1> HIDE DEF whole
<1>4. ASSUME NEW i \in 1..index  PROVE felt[i] = whole[i]
  <2>1. i \in Nat /\ Len(steps) \in Nat
    BY <1>1
  <2>2. IF i <= Len(steps) THEN i \in 1..Len(steps) ELSE i = Len(steps) + 1
    BY <1>1, <2>1
  <2>3. felt[i] = IF i <= Len(steps) THEN steps[i].strength ELSE 0
    BY <1>1, Zenon DEF Feels
  <2>4. CASE i <= Len(steps)
    <3>1. i \in 1..Len(steps) /\ felt[i] = steps[i].strength
      BY <2>2, <2>3, <2>4, Zenon
    <3>2. QED  BY <1>3, <3>1, Zenon
  <2>5. CASE ~(i <= Len(steps))
    <3>1. i = Len(steps) + 1 /\ felt[i] = 0
      BY <2>2, <2>3, <2>5, Zenon
    <3>2. whole[Len(steps) + 1] = 0
      BY <1>3
    <3>3. QED  BY <3>1, <3>2
  <2>6. QED  BY <2>4, <2>5, Zenon
<1>5. SubSeq(felt, 1, index) = SubSeq(whole, 1, index)
  BY <1>1, <1>3, <1>4
<1>6. QED  BY <1>1, <1>3, <1>5 DEF IsPrefix, whole, strengths

\* However patterns interrupt each other and however late a turn is, the player
\* feels the last pattern from its beginning, no step left out (play, advance),
\* for every pulse, gap and thump.
THEOREM LastPatternIsFelt == Spec => []PatternIsFelt
<1>1. Init => MotorInv
  BY DEF Init, MotorInit, MotorInv, Off
<1>2. QED  BY <1>1, MotorStep, MotorInvGivesPattern, PTL DEF Spec

-----------------------------------------------------------------------------
(***************************************************************************)
(* The window of events.  Of any two events one comes before the other: a   *)
(* durable one before an answer, of a kind the newer.  The window holds the *)
(* first ones in this order, and what push_kind drops is the last of those  *)
(* it holds.  The invariant adds that events are numbered as they come and  *)
(* that nothing is dropped before the window is full.                      *)
(***************************************************************************)
EventType == [id : Nat, kind : Kinds]

Outranks(p, j, i) ==
    \/ p[j].kind = "Durable" /\ p[i].kind = "Answer"
    \/ p[j].kind = p[i].kind /\ j > i

AheadIn(p, i) == {j \in 1..Len(p) : Outranks(p, j, i)}

ShownIn(p) == {i \in 1..Len(p) : Cardinality(AheadIn(p, i)) < EVENT_WINDOW}

LEMMA EventsHaveKinds ==
    ASSUME NEW p \in Seq(EventType)
    PROVE  Len(p) \in Nat /\ \A j \in 1..Len(p) : p[j].kind \in Kinds
<1>1. Len(p) \in Nat /\ \A j \in 1..Len(p) : p[j] \in EventType
  OBVIOUS
<1>2. QED  BY <1>1 DEF EventType

LEMMA AheadIsAheadIn ==
    ASSUME pushed \in Seq(EventType), NEW i \in 1..Len(pushed)
    PROVE  Ahead(i) = AheadIn(pushed, i)
<1>1. Len(pushed) \in Nat /\ \A j \in 1..Len(pushed) : pushed[j].kind \in Kinds
  BY EventsHaveKinds
<1>2. CASE pushed[i].kind = "Answer"
  BY <1>1, <1>2 DEF Ahead, IsAnswer, Later, AheadIn, Outranks, Kinds
<1>3. CASE pushed[i].kind = "Durable"
  BY <1>1, <1>3 DEF Ahead, IsAnswer, Later, AheadIn, Outranks, Kinds
<1>4. QED  BY <1>1, <1>2, <1>3 DEF Kinds

\* The order is strict and total.
LEMMA RankOrder ==
    ASSUME NEW p \in Seq(EventType),
           NEW i \in 1..Len(p), NEW j \in 1..Len(p), NEW k \in 1..Len(p)
    PROVE  /\ ~Outranks(p, i, i)
           /\ i # j => (Outranks(p, i, j) <=> ~Outranks(p, j, i))
           /\ Outranks(p, k, j) /\ Outranks(p, j, i) => Outranks(p, k, i)
<1>1. \A x \in 1..Len(p) : p[x].kind = "Answer" \/ p[x].kind = "Durable"
  BY EventsHaveKinds DEF Kinds
<1>2. QED  BY <1>1 DEF Outranks

LEMMA AheadFinite ==
    ASSUME NEW p \in Seq(EventType), NEW i
    PROVE  /\ IsFiniteSet(AheadIn(p, i)) /\ Cardinality(AheadIn(p, i)) \in Nat
           /\ IsFiniteSet(ShownIn(p))
<1>1. IsFiniteSet(1..Len(p))
  BY FS_Interval
<1>2. QED  BY <1>1, FS_Subset, FS_CardinalityType DEF AheadIn, ShownIn

\* What comes before an event that is shown is shown as well.
LEMMA ShownFromTheTop ==
    ASSUME NEW p \in Seq(EventType), NEW i \in ShownIn(p)
    PROVE  AheadIn(p, i) \subseteq ShownIn(p)
<1> SUFFICES ASSUME NEW j \in AheadIn(p, i)  PROVE j \in ShownIn(p)
  OBVIOUS
<1>1. i \in 1..Len(p) /\ j \in 1..Len(p) /\ Outranks(p, j, i)
  BY DEF AheadIn, ShownIn
<1>2. AheadIn(p, j) \subseteq AheadIn(p, i)
  BY <1>1, RankOrder DEF AheadIn
<1>3. Cardinality(AheadIn(p, j)) <= Cardinality(AheadIn(p, i))
  BY <1>2, AheadFinite, SmallerPart
<1>4. Cardinality(AheadIn(p, j)) \in Nat /\ Cardinality(AheadIn(p, i)) \in Nat
  BY AheadFinite
<1>5. Cardinality(AheadIn(p, i)) < EVENT_WINDOW
  BY DEF ShownIn
<1>6. Cardinality(AheadIn(p, j)) < EVENT_WINDOW
  BY <1>3, <1>4, <1>5, WindowAssumption
<1>7. QED  BY <1>1, <1>6 DEF ShownIn

\* What comes before an earlier event after one more has come.
LEMMA AheadGrows ==
    ASSUME NEW p \in Seq(EventType), NEW e \in EventType, NEW i \in 1..Len(p)
    PROVE  /\ AheadIn(p, i) \subseteq AheadIn(Append(p, e), i)
           /\ AheadIn(Append(p, e), i) \subseteq AheadIn(p, i) \cup {Len(p) + 1}
<1> DEFINE q == Append(p, e)
<1>1. Len(q) = Len(p) + 1 /\ \A j \in 1..Len(p) : q[j] = p[j]
  OBVIOUS
<1> HIDE DEF q
<1>2. \A j \in 1..Len(p) : Outranks(q, j, i) <=> Outranks(p, j, i)
  BY <1>1 DEF Outranks
<1>3. QED  BY <1>1, <1>2 DEF AheadIn, q

LEMMA CountUpTo ==
    ASSUME NEW n \in Nat
    PROVE  IsFiniteSet(1..n) /\ Cardinality(1..n) = n
<1>1. /\ IsFiniteSet(1..n)
      /\ Cardinality(1..n) = IF 1 > n THEN 0 ELSE n - 1 + 1
  BY FS_Interval
<1>2. QED  BY <1>1

\* A window with room shows every event.
LEMMA RoomForAll ==
    ASSUME NEW p \in Seq(EventType), Len(p) <= EVENT_WINDOW
    PROVE  ShownIn(p) = 1..Len(p)
<1> SUFFICES ASSUME NEW i \in 1..Len(p)
             PROVE  Cardinality(AheadIn(p, i)) < EVENT_WINDOW
  BY DEF ShownIn
<1>1. AheadIn(p, i) \subseteq (1..Len(p)) \ {i}
  BY RankOrder DEF AheadIn
<1>2. IsFiniteSet(1..Len(p)) /\ Cardinality(1..Len(p)) = Len(p) /\ Len(p) \in Nat
  BY CountUpTo
<1>3. IsFiniteSet((1..Len(p)) \ {i}) /\ Cardinality((1..Len(p)) \ {i}) = Len(p) - 1
  <2> DEFINE D == 1..Len(p)
  <2>1. IsFiniteSet(D) /\ i \in D /\ Cardinality(D) = Len(p)
    BY <1>2
  <2> HIDE DEF D
  <2>2. IsFiniteSet(D \ {i}) /\ Cardinality(D \ {i}) = Len(p) - 1
    BY <2>1, FS_RemoveElement
  <2>3. QED  BY <2>2 DEF D
<1>4. /\ Cardinality(AheadIn(p, i)) <= Len(p) - 1
      /\ Cardinality(AheadIn(p, i)) \in Nat
  BY <1>1, <1>3, SmallerPart
<1>5. QED  BY <1>2, <1>4, WindowAssumption

\* A full window loses, of what it shows and what has come, the last in rank.
LEMMA LastInRankGoes ==
    ASSUME NEW p \in Seq(EventType), NEW e \in EventType,
           Cardinality(ShownIn(p)) = EVENT_WINDOW,
           NEW x \in ShownIn(p) \cup {Len(p) + 1},
           ShownIn(p) \cup {Len(p) + 1} \subseteq AheadIn(Append(p, e), x) \cup {x}
    PROVE  /\ ShownIn(Append(p, e)) = (ShownIn(p) \cup {Len(p) + 1}) \ {x}
           /\ Cardinality((ShownIn(p) \cup {Len(p) + 1}) \ {x}) = EVENT_WINDOW
<1> DEFINE q == Append(p, e)
           new == Len(p) + 1
           G == ShownIn(p) \cup {new}
<1>1. /\ q \in Seq(EventType) /\ Len(q) = new /\ new \in Nat
      /\ \A i \in 1..Len(q) : i \in 1..Len(p) \/ i = new
      /\ 1..Len(p) \subseteq 1..Len(q) /\ new \in 1..Len(q) /\ new \notin 1..Len(p)
  OBVIOUS
<1>2. ShownIn(p) \subseteq 1..Len(p) /\ G \subseteq 1..Len(q)
  BY <1>1 DEF ShownIn
<1>3. /\ \A i \in 1..Len(p) : AheadIn(p, i) \subseteq AheadIn(q, i)
      /\ \A i \in 1..Len(p) : AheadIn(q, i) \subseteq AheadIn(p, i) \cup {new}
  BY AheadGrows
<1>4. x \in G /\ x \in 1..Len(q) /\ G \subseteq AheadIn(q, x) \cup {x}
  BY <1>2
<1> HIDE DEF q, new
<1> HIDE DEF G
<1>5. IsFiniteSet(G) /\ Cardinality(G) = EVENT_WINDOW + 1
  <2>1. new \notin ShownIn(p) /\ IsFiniteSet(ShownIn(p))
    BY <1>1, <1>2, AheadFinite
  <2>2. QED  BY <2>1, FS_AddElement DEF G
<1>6. IsFiniteSet(G \ {x}) /\ Cardinality(G \ {x}) = EVENT_WINDOW
  <2>1. IsFiniteSet(G \ {x}) /\ Cardinality(G \ {x}) = Cardinality(G) - 1
    BY <1>4, <1>5, FS_RemoveElement
  <2>2. QED  BY <1>5, <2>1, WindowAssumption
<1>7. x \notin ShownIn(q)
  <2>1. G \ {x} \subseteq AheadIn(q, x)
    BY <1>4
  <2>2. Cardinality(G \ {x}) <= Cardinality(AheadIn(q, x))
    BY <1>1, <2>1, AheadFinite, SmallerPart
  <2>3. Cardinality(AheadIn(q, x)) \in Nat
    BY <1>1, AheadFinite
  <2>4. ~(Cardinality(AheadIn(q, x)) < EVENT_WINDOW)
    BY <1>6, <2>2, <2>3, WindowAssumption
  <2>5. QED  BY <2>4 DEF ShownIn
<1>8. ASSUME NEW i \in G, i # x  PROVE i \in ShownIn(q)
  <2>1. Outranks(q, i, x)
    BY <1>4, <1>8 DEF AheadIn
  <2>2. i \in 1..Len(q) /\ AheadIn(q, i) \subseteq AheadIn(q, x)
    BY <1>1, <1>2, <1>4, <2>1, RankOrder DEF AheadIn
  <2>3. i \notin AheadIn(q, i) /\ x \notin AheadIn(q, i)
    BY <1>1, <1>4, <2>1, <2>2, RankOrder DEF AheadIn
  <2>4. AheadIn(q, i) \subseteq G
    <3>1. CASE i \in ShownIn(p)
      BY <1>2, <1>3, <3>1, ShownFromTheTop DEF G
    <3>2. CASE i = new /\ x \in ShownIn(p)
      <4>1. AheadIn(q, x) \subseteq G
        BY <1>2, <1>3, <3>2, ShownFromTheTop DEF G
      <4>2. QED  BY <2>2, <4>1
    <3>3. QED  BY <1>4, <1>8, <3>1, <3>2 DEF G
  <2>5. AheadIn(q, i) \subseteq (G \ {x}) \ {i}
    BY <2>3, <2>4
  <2>6. /\ IsFiniteSet((G \ {x}) \ {i})
        /\ Cardinality((G \ {x}) \ {i}) = Cardinality(G \ {x}) - 1
    <3>1. i \in G \ {x}
      BY <1>8
    <3>2. QED  BY <1>6, <3>1, FS_RemoveElement
  <2>7. /\ Cardinality(AheadIn(q, i)) <= Cardinality((G \ {x}) \ {i})
        /\ Cardinality(AheadIn(q, i)) \in Nat
    BY <2>5, <2>6, SmallerPart
  <2>8. Cardinality(AheadIn(q, i)) < EVENT_WINDOW
    BY <1>6, <2>6, <2>7, WindowAssumption
  <2>9. QED  BY <2>2, <2>8 DEF ShownIn
<1>9. ASSUME NEW i \in ShownIn(q)  PROVE i \in G
  <2>1. CASE i = new
    BY <2>1 DEF G
  <2>2. CASE i # new
    <3>1. i \in 1..Len(p) /\ Cardinality(AheadIn(q, i)) < EVENT_WINDOW
      BY <1>1, <2>2 DEF ShownIn
    <3>2. Cardinality(AheadIn(p, i)) <= Cardinality(AheadIn(q, i))
      BY <1>1, <1>3, <3>1, AheadFinite, SmallerPart
    <3>3. /\ Cardinality(AheadIn(p, i)) \in Nat
          /\ Cardinality(AheadIn(q, i)) \in Nat
      BY <1>1, AheadFinite
    <3>4. Cardinality(AheadIn(p, i)) < EVENT_WINDOW
      BY <3>1, <3>2, <3>3, WindowAssumption
    <3>5. QED  BY <3>1, <3>4 DEF ShownIn, G
  <2>3. QED  BY <2>1, <2>2
<1>10. QED  BY <1>6, <1>7, <1>8, <1>9 DEF q, new, G

\* A window tells what was pushed, in order.
Ids(w) == {w[n].id : n \in 1..Len(w)}

Tells(w, p) ==
    /\ \A n \in 1..Len(w) : w[n].id \in 1..Len(p) /\ w[n] = p[w[n].id]
    /\ \A m, n \in 1..Len(w) : m < n => w[m].id < w[n].id

WindowInv ==
    /\ pushed \in Seq(EventType) /\ events \in Seq(EventType)
    /\ Tells(events, pushed) /\ Ids(events) = ShownIn(pushed)
    /\ Cardinality(ShownIn(pushed)) = Len(events) /\ Len(events) <= EVENT_WINDOW
    /\ Len(events) < EVENT_WINDOW => Len(events) = Len(pushed)

\* What push_kind drops: every other event of the window is durable or newer.
LEMMA VictimIsLast ==
    ASSUME NEW w \in Seq(EventType), w # <<>>
    PROVE  /\ Victim(w) \in 1..Len(w)
           /\ \A n \in 1..Len(w) : n # Victim(w) =>
                 \/ w[n].kind = "Durable" /\ w[Victim(w)].kind = "Answer"
                 \/ w[n].kind = w[Victim(w)].kind /\ n > Victim(w)
<1> DEFINE A == {i \in 1..Len(w) : IsAnswer(w[i])}
<1>1. /\ Len(w) \in Nat \ {0} /\ DOMAIN w = 1..Len(w)
      /\ \A n \in 1..Len(w) : w[n].kind = "Answer" \/ w[n].kind = "Durable"
  BY EventsHaveKinds DEF Kinds
<1>2. CASE A # {}
  <2>1. A \subseteq Nat
    BY <1>1
  <2>2. Victim(w) = Min(A)
    BY <1>1, <1>2 DEF Victim, SelectInSeq
  <2>3. Victim(w) \in A /\ \A i \in A : Victim(w) <= i
    BY <1>2, <2>1, <2>2, MinIsLeast
  <2>4. QED  BY <1>1, <2>3 DEF IsAnswer
<1>3. CASE A = {}
  <2>1. Victim(w) = 1
    BY <1>1, <1>3 DEF Victim
  <2>2. \A n \in 1..Len(w) : w[n].kind = "Durable"
    BY <1>1, <1>3 DEF IsAnswer
  <2>3. QED  BY <1>1, <2>1, <2>2
<1>4. QED  BY <1>2, <1>3

\* A window with one event more.
LEMMA TellsTheNext ==
    ASSUME NEW w \in Seq(EventType), NEW p \in Seq(EventType), NEW e \in EventType,
           Tells(w, p), e.id = Len(p) + 1
    PROVE  /\ Tells(Append(w, e), Append(p, e))
           /\ Ids(Append(w, e)) = Ids(w) \cup {Len(p) + 1}
<1> DEFINE g == Append(w, e)
           q == Append(p, e)
<1>1. /\ Len(w) \in Nat /\ Len(g) = Len(w) + 1 /\ g[Len(w) + 1] = e
      /\ \A n \in 1..Len(w) : g[n] = w[n]
  OBVIOUS
<1>2. /\ Len(p) \in Nat /\ Len(q) = Len(p) + 1 /\ q[Len(p) + 1] = e
      /\ \A n \in 1..Len(p) : q[n] = p[n]
  OBVIOUS
<1> HIDE DEF g, q
<1>3. \A n \in 1..Len(g) : n \in 1..Len(w) \/ n = Len(w) + 1
  BY <1>1
<1>4. \A n \in 1..Len(g) : g[n].id \in 1..Len(q) /\ g[n] = q[g[n].id]
  BY <1>1, <1>2, <1>3 DEF Tells
<1>5. ASSUME NEW m \in 1..Len(g), NEW n \in 1..Len(g), m < n
      PROVE  g[m].id < g[n].id
  <2>1. m \in 1..Len(w) /\ g[m].id \in 1..Len(p)
    BY <1>1, <1>3, <1>5 DEF Tells
  <2>2. CASE n \in 1..Len(w)
    BY <1>1, <1>5, <2>1, <2>2 DEF Tells
  <2>3. CASE n = Len(w) + 1
    BY <1>1, <1>2, <2>1, <2>3
  <2>4. QED  BY <1>3, <2>2, <2>3
<1>6. Ids(g) = Ids(w) \cup {Len(p) + 1}
  BY <1>1, <1>3 DEF Ids
<1>7. QED  BY <1>4, <1>5, <1>6 DEF Tells, g, q

\* A window with one event less.
LEMMA TellsTheRest ==
    ASSUME NEW w \in Seq(EventType), NEW p \in Seq(EventType), Tells(w, p),
           NEW v \in 1..Len(w)
    PROVE  /\ Tells(RemoveAt(w, v), p)
           /\ Ids(RemoveAt(w, v)) = Ids(w) \ {w[v].id}
<1> DEFINE r == RemoveAt(w, v)
           Was(n) == IF n < v THEN n ELSE n + 1
<1>1. /\ Len(w) \in Nat /\ r \in Seq(EventType) /\ Len(r) = Len(w) - 1
      /\ \A n \in 1..Len(w) - 1 : r[n] = IF n < v THEN w[n] ELSE w[n + 1]
  BY RemoveAtElements
<1> HIDE DEF r
<1>2. \A n \in 1..Len(r) : Was(n) \in 1..Len(w) /\ Was(n) # v /\ r[n] = w[Was(n)]
  BY <1>1
<1>3. \A m, n \in 1..Len(r) : m < n => Was(m) < Was(n)
  BY <1>1
<1>4. \A k \in 1..Len(w) : k # v => \E n \in 1..Len(r) : Was(n) = k
  <2> TAKE k \in 1..Len(w)
  <2> HAVE k # v
  <2>1. CASE k < v
    BY <1>1, <2>1
  <2>2. CASE k > v
    <3>1. k - 1 \in 1..Len(r) /\ Was(k - 1) = k
      BY <1>1, <2>2
    <3>2. QED  BY <3>1
  <2>3. QED  BY <1>1, <2>1, <2>2
<1> HIDE DEF Was
<1>5. /\ \A n \in 1..Len(w) : w[n].id \in 1..Len(p) /\ w[n] = p[w[n].id]
      /\ \A m, n \in 1..Len(w) : m < n => w[m].id < w[n].id
  BY DEF Tells
<1>6. Tells(r, p)
  BY <1>2, <1>3, <1>5 DEF Tells
<1>7. \A n \in 1..Len(w) : n # v => w[n].id # w[v].id
  BY <1>1, <1>5
<1>8. ASSUME NEW y \in Ids(r)  PROVE y \in Ids(w) \ {w[v].id}
  <2>1. PICK n \in 1..Len(r) : y = r[n].id
    BY <1>8 DEF Ids
  <2>2. y = w[Was(n)].id /\ Was(n) \in 1..Len(w) /\ Was(n) # v
    BY <1>2, <2>1
  <2>3. QED  BY <1>7, <2>2 DEF Ids
<1>9. ASSUME NEW y \in Ids(w), y # w[v].id  PROVE y \in Ids(r)
  <2>1. PICK k \in 1..Len(w) : y = w[k].id /\ k # v
    BY <1>9 DEF Ids
  <2>2. PICK n \in 1..Len(r) : Was(n) = k
    BY <1>4, <2>1
  <2>3. QED  BY <1>2, <2>1, <2>2 DEF Ids
<1>10. QED  BY <1>6, <1>8, <1>9 DEF r

LEMMA PushKeepsWindow ==
    ASSUME WindowInv, NEW kind \in Kinds, Push(kind)
    PROVE  WindowInv'
<1> DEFINE p == pushed
           e == [id |-> Len(p) + 1, kind |-> kind]
           q == Append(p, e)
           g == Append(events, e)
<1>1. /\ p \in Seq(EventType) /\ events \in Seq(EventType)
      /\ Tells(events, p) /\ Ids(events) = ShownIn(p)
      /\ Cardinality(ShownIn(p)) = Len(events) /\ Len(events) <= EVENT_WINDOW
      /\ Len(events) < EVENT_WINDOW => Len(events) = Len(p)
  BY DEF WindowInv
<1>2. /\ pushed' = q
      /\ events' = IF Len(g) > EVENT_WINDOW THEN RemoveAt(g, Victim(g)) ELSE g
  BY DEF Push
<1>3. e \in EventType /\ e.id = Len(p) + 1
  BY <1>1 DEF EventType
<1> HIDE DEF e
<1>4. /\ q \in Seq(EventType) /\ Len(q) = Len(p) + 1 /\ Len(p) \in Nat
      /\ g \in Seq(EventType) /\ Len(g) = Len(events) + 1 /\ Len(events) \in Nat
  BY <1>1, <1>3
<1>5. Tells(g, q) /\ Ids(g) = ShownIn(p) \cup {Len(p) + 1}
  BY <1>1, <1>3, TellsTheNext
<1> HIDE DEF p
<1>6. CASE ~(Len(g) > EVENT_WINDOW)
  <2>1. Len(events) = Len(p) /\ Len(q) <= EVENT_WINDOW /\ Len(p) <= EVENT_WINDOW
    BY <1>1, <1>4, <1>6, WindowAssumption
  <2>2. ShownIn(q) = 1..Len(q) /\ ShownIn(p) = 1..Len(p)
    BY <1>1, <1>4, <2>1, RoomForAll
  <2>3. Ids(g) = ShownIn(q)
    BY <1>4, <1>5, <2>2
  <2>4. Cardinality(ShownIn(q)) = Len(g)
    BY <1>4, <2>1, <2>2, CountUpTo
  <2>5. Len(g) <= EVENT_WINDOW /\ Len(g) = Len(q) /\ events' = g
    BY <1>2, <1>4, <1>6, <2>1
  <2> HIDE DEF q, g
  <2>6. QED  BY <1>2, <1>4, <1>5, <2>3, <2>4, <2>5 DEF WindowInv
<1>7. CASE Len(g) > EVENT_WINDOW
  <2> DEFINE v == Victim(g)
             x == g[v].id
             r == RemoveAt(g, v)
  <2>1. Cardinality(ShownIn(p)) = EVENT_WINDOW /\ Len(g) = EVENT_WINDOW + 1
    BY <1>1, <1>4, <1>7, WindowAssumption
  <2>2. /\ v \in 1..Len(g)
        /\ \A n \in 1..Len(g) : n # v =>
              \/ g[n].kind = "Durable" /\ g[v].kind = "Answer"
              \/ g[n].kind = g[v].kind /\ n > v
    <3> HIDE DEF g
    <3>1. g \in Seq(EventType) /\ g # <<>>
      BY <1>4
    <3>2. QED  BY <3>1, VictimIsLast
  <2> HIDE DEF v, q, g
  <2>3. /\ \A n \in 1..Len(g) : g[n].id \in 1..Len(q) /\ g[n] = q[g[n].id]
        /\ \A m, n \in 1..Len(g) : m < n => g[m].id < g[n].id
    BY <1>5 DEF Tells
  <2>4. x \in Ids(g)
    BY <2>2 DEF Ids
  <2>5. Ids(g) \subseteq AheadIn(q, x) \cup {x}
    <3> SUFFICES ASSUME NEW n \in 1..Len(g), n # v
                 PROVE  g[n].id \in AheadIn(q, x)
      BY DEF Ids
    <3>1. g[n].id \in 1..Len(q) /\ q[g[n].id] = g[n] /\ q[x] = g[v]
      BY <2>2, <2>3
    <3>2. n > v => g[n].id > x
      BY <2>2, <2>3
    <3>3. Outranks(q, g[n].id, x)
      BY <2>2, <3>1, <3>2 DEF Outranks
    <3>4. QED  BY <3>1, <3>3 DEF AheadIn
  <2>6. /\ ShownIn(q) = Ids(g) \ {x}
        /\ Cardinality(Ids(g) \ {x}) = EVENT_WINDOW
    <3>1. x \in ShownIn(p) \cup {Len(p) + 1}
      BY <1>5, <2>4
    <3>2. ShownIn(p) \cup {Len(p) + 1} \subseteq AheadIn(Append(p, e), x) \cup {x}
      BY <1>5, <2>5 DEF q
    <3> HIDE DEF x
    <3>3. /\ ShownIn(Append(p, e)) = (ShownIn(p) \cup {Len(p) + 1}) \ {x}
          /\ Cardinality((ShownIn(p) \cup {Len(p) + 1}) \ {x}) = EVENT_WINDOW
      BY <1>1, <1>3, <2>1, <3>1, <3>2, LastInRankGoes
    <3>4. QED  BY <1>5, <3>3 DEF q
  <2>7. Tells(r, q) /\ Ids(r) = Ids(g) \ {x}
    BY <1>4, <1>5, <2>2, TellsTheRest
  <2>8. r \in Seq(EventType) /\ Len(r) = EVENT_WINDOW
    BY <1>4, <2>1, <2>2, RemoveAtElements, WindowAssumption
  <2>9. events' = r
    BY <1>2, <1>7 DEF v
  <2> HIDE DEF r
  <2>10. QED  BY <1>2, <1>4, <2>6, <2>7, <2>8, <2>9, WindowAssumption DEF WindowInv
<1>8. QED  BY <1>6, <1>7

LEMMA WindowStep == WindowInv /\ [Next]_vars => WindowInv'
<1> SUFFICES ASSUME WindowInv, [Next]_vars  PROVE WindowInv'
  OBVIOUS
<1>1. CASE \E kind \in Kinds : Push(kind)
  BY <1>1, PushKeepsWindow
<1>2. CASE UNCHANGED windowVars
  BY <1>2 DEF windowVars, WindowInv
<1>3. QED  BY OnePartSteps, <1>1, <1>2

LEMMA WindowInitially == Init => WindowInv
<1> SUFFICES ASSUME events = <<>>, pushed = <<>>  PROVE WindowInv
  BY DEF Init, WindowInit
<1>1. Len(pushed) = 0 /\ Len(events) = 0 /\ 1..0 = {}
  OBVIOUS
<1>2. ShownIn(pushed) = {} /\ Ids(events) = {}
  BY <1>1 DEF ShownIn, Ids
<1>3. Tells(events, pushed)
  BY <1>1 DEF Tells
<1>4. Cardinality(ShownIn(pushed)) = 0
  BY <1>2, FS_EmptySet
<1>5. pushed \in Seq(EventType) /\ events \in Seq(EventType)
  OBVIOUS
<1>6. QED  BY <1>1, <1>2, <1>3, <1>4, <1>5, WindowAssumption DEF WindowInv

LEMMA WindowInvTellsTheStory == WindowInv => WindowTellsTheStory
<1> SUFFICES ASSUME WindowInv  PROVE WindowTellsTheStory
  OBVIOUS
<1>1. /\ pushed \in Seq(EventType) /\ events \in Seq(EventType)
      /\ DOMAIN pushed = 1..Len(pushed) /\ DOMAIN events = 1..Len(events)
      /\ Tells(events, pushed) /\ Ids(events) = ShownIn(pushed)
  BY DEF WindowInv
<1>2. \A i \in 1..Len(pushed) : Ahead(i) = AheadIn(pushed, i)
  BY <1>1, AheadIsAheadIn
<1>3. {j \in DOMAIN pushed : Cardinality(Ahead(j)) < EVENT_WINDOW} = Ids(events)
  BY <1>1, <1>2 DEF ShownIn
<1>4. ToSet(events) = {pushed[i] : i \in Ids(events)}
  BY <1>1 DEF ToSet, Ids, Tells
<1>5. \A i, j \in DOMAIN events : i < j => events[i].id < events[j].id
  BY <1>1 DEF Tells
<1>6. QED  BY <1>3, <1>4, <1>5 DEF WindowTellsTheStory

\* However answers and durable events come in, a window of any size holds the
\* newest durable ones and, in what they leave free, the newest answers, in the
\* order they happened (push_kind).
THEOREM WindowAlwaysTells == Spec => []WindowTellsTheStory
<1> QED  BY WindowInitially, WindowStep, WindowInvTellsTheStory, PTL DEF Spec

-----------------------------------------------------------------------------
(***************************************************************************)
(* The general bucket.  The set of prompts the filter remembers is that of  *)
(* the entries it could play, which is what makes an accepted entry the     *)
(* first of its prompt.                                                    *)
(***************************************************************************)
Plays(t, i) == t[i].usable /\ t[i].fits

FirstOfEach(t) ==
    {i \in DOMAIN t : Plays(t, i) /\
        \A h \in 1..i - 1 : Plays(t, h) => t[h].prompt # t[i].prompt}

PlayedPrompts(t) == {t[i].prompt : i \in {h \in DOMAIN t : Plays(t, h)}}

TakenBy(g) == {g[j].entry : j \in DOMAIN g}

GeneralEntries(S) == [entry : Nat, prompt : {e.prompt : e \in S}]

FilterTypes(S) ==
    source \in Seq(S) /\ taken \in Seq(S) /\ general \in Seq(GeneralEntries(S))

FilterInv ==
    /\ \E S : FilterTypes(S)
    /\ seen = PlayedPrompts(taken)
    /\ TakenBy(general) = FirstOfEach(taken)

LEMMA FilterInitially == Init => FilterInv
<1> SUFFICES ASSUME taken = <<>>, general = <<>>, seen = {},
                    source \in Sources \/ source = <<>>
             PROVE  FilterInv
  BY DEF Init, DeckInit, NoDeck, DeckFrom
<1>1. \E S : FilterTypes(S)
  <2>1. source \in Seq(ToSet(source))
    <3>1. CASE source \in Sources
      BY <3>1, DeckAssumption
    <3>2. CASE source = <<>>
      BY <3>2
    <3>3. QED  BY <3>1, <3>2
  <2>2. taken \in Seq(ToSet(source)) /\ general \in Seq(GeneralEntries(ToSet(source)))
    OBVIOUS
  <2>3. QED  BY <2>1, <2>2 DEF FilterTypes
<1>2. DOMAIN taken = {} /\ DOMAIN general = {}
  OBVIOUS
<1>3. QED  BY <1>1, <1>2 DEF FilterInv, FirstOfEach, PlayedPrompts, TakenBy

\* What one more entry changes.
LEMMA OneMoreEntry ==
    ASSUME NEW S, NEW t \in Seq(S), NEW e \in S
    PROVE  LET plays == e.usable /\ e.fits
               new   == plays /\ e.prompt \notin PlayedPrompts(t)
           IN  /\ PlayedPrompts(Append(t, e)) =
                      PlayedPrompts(t) \cup (IF plays THEN {e.prompt} ELSE {})
               /\ FirstOfEach(Append(t, e)) =
                      FirstOfEach(t) \cup (IF new THEN {Len(t) + 1} ELSE {})
<1> DEFINE n == Len(t)
           u == Append(t, e)
           plays == e.usable /\ e.fits
           new == plays /\ e.prompt \notin PlayedPrompts(t)
<1>1. /\ n \in Nat /\ DOMAIN t = 1..n /\ DOMAIN u = 1..n + 1
      /\ u[n + 1] = e /\ \A i \in 1..n : u[i] = t[i]
  OBVIOUS
<1> HIDE DEF n, u
<1>2. \A i \in 1..n : Plays(u, i) <=> Plays(t, i)
  BY <1>1 DEF Plays
<1>3. Plays(u, n + 1) <=> plays
  BY <1>1 DEF Plays
<1> HIDE DEF plays
<1>4. /\ \A i \in 1..n + 1 : i \in 1..n \/ i = n + 1
      /\ 1..n \subseteq 1..n + 1 /\ n + 1 \in 1..n + 1 /\ n + 1 \notin 1..n
      /\ 1..(n + 1) - 1 = 1..n
      /\ \A i \in 1..n : 1..i - 1 \subseteq 1..n
  BY <1>1
<1>5. PlayedPrompts(u) = PlayedPrompts(t) \cup (IF plays THEN {e.prompt} ELSE {})
  <2>1. ASSUME NEW x \in PlayedPrompts(u)
        PROVE  x \in PlayedPrompts(t) \cup (IF plays THEN {e.prompt} ELSE {})
    <3>1. PICK i \in 1..n + 1 : x = u[i].prompt /\ Plays(u, i)
      BY <1>1, <2>1 DEF PlayedPrompts
    <3>2. CASE i \in 1..n
      <4>1. Plays(t, i) /\ x = t[i].prompt
        BY <1>1, <1>2, <3>1, <3>2
      <4>2. QED  BY <1>1, <3>2, <4>1 DEF PlayedPrompts
    <3>3. CASE i = n + 1
      BY <1>1, <1>3, <3>1, <3>3
    <3>4. QED  BY <1>4, <3>2, <3>3
  <2>2. ASSUME NEW x \in PlayedPrompts(t)  PROVE x \in PlayedPrompts(u)
    <3>1. PICK i \in 1..n : x = t[i].prompt /\ Plays(t, i)
      BY <1>1, <2>2 DEF PlayedPrompts
    <3>2. i \in 1..n + 1 /\ x = u[i].prompt /\ Plays(u, i)
      BY <1>1, <1>2, <1>4, <3>1
    <3>3. QED  BY <1>1, <3>2 DEF PlayedPrompts
  <2>3. plays => e.prompt \in PlayedPrompts(u)
    <3>1. plays => n + 1 \in DOMAIN u /\ Plays(u, n + 1) /\ u[n + 1].prompt = e.prompt
      BY <1>1, <1>3, <1>4
    <3>2. QED  BY <3>1 DEF PlayedPrompts
  <2>4. QED  BY <2>1, <2>2, <2>3
<1>6. \A i \in 1..n : i \in FirstOfEach(u) <=> i \in FirstOfEach(t)
  <2> TAKE i \in 1..n
  <2>1. i \in 1..n + 1 /\ \A h \in 1..i - 1 : h \in 1..n
    BY <1>4
  <2>2. \A h \in 1..i - 1 : (Plays(u, h) <=> Plays(t, h)) /\ u[h] = t[h]
    BY <1>1, <1>2, <2>1
  <2>3. (Plays(u, i) <=> Plays(t, i)) /\ u[i] = t[i]
    BY <1>1, <1>2
  <2>4. QED  BY <1>1, <2>1, <2>2, <2>3 DEF FirstOfEach
<1>7. n + 1 \in FirstOfEach(u) <=> new
  <2>1. e.prompt \notin PlayedPrompts(t) <=>
           \A h \in 1..n : Plays(t, h) => t[h].prompt # e.prompt
    BY <1>1 DEF PlayedPrompts
  <2>2. n + 1 \in FirstOfEach(u) <=>
           /\ Plays(u, n + 1)
           /\ \A h \in 1..n : Plays(u, h) => u[h].prompt # u[n + 1].prompt
    BY <1>1, <1>4 DEF FirstOfEach
  <2>3. (\A h \in 1..n : Plays(u, h) => u[h].prompt # u[n + 1].prompt) <=>
           \A h \in 1..n : Plays(t, h) => t[h].prompt # e.prompt
    BY <1>1, <1>2
  <2>4. QED  BY <1>3, <2>1, <2>2, <2>3
<1>8. FirstOfEach(t) \subseteq 1..n /\ FirstOfEach(u) \subseteq 1..n + 1
  BY <1>1 DEF FirstOfEach
<1>9. FirstOfEach(u) = FirstOfEach(t) \cup (IF new THEN {n + 1} ELSE {})
  <2> HIDE DEF new
  <2>1. ASSUME NEW i \in FirstOfEach(u)
        PROVE  i \in FirstOfEach(t) \cup (IF new THEN {n + 1} ELSE {})
    <3>1. i \in 1..n \/ i = n + 1
      BY <1>4, <1>8, <2>1
    <3>2. QED  BY <1>6, <1>7, <2>1, <3>1
  <2>2. QED  BY <1>6, <1>7, <1>8, <2>1
<1>10. QED  BY <1>5, <1>9 DEF n, u, plays, new

\* One entry is looked at.
LEMMA FilterKeepsFirst == FilterInv /\ Filter => FilterInv'
<1> SUFFICES ASSUME FilterInv, Filter  PROVE FilterInv'
  OBVIOUS
<1> DEFINE entry == Head(source)
           new == [entry |-> Len(taken) + 1, prompt |-> entry.prompt]
<1>1. PICK S : FilterTypes(S)
  BY DEF FilterInv
<1>2. /\ source' = Tail(source) /\ taken' = Append(taken, entry) /\ source # <<>>
      /\ IF Accepts(entry)
         THEN seen' = seen \cup {entry.prompt} /\ general' = Append(general, new)
         ELSE UNCHANGED <<seen, general>>
  BY DEF Filter
<1>3. /\ entry \in S /\ source' \in Seq(S) /\ taken' \in Seq(S) /\ taken \in Seq(S)
      /\ Len(taken) \in Nat
  BY <1>1, <1>2 DEF FilterTypes
<1> HIDE DEF entry
<1>4. new \in GeneralEntries(S) /\ general \in Seq(GeneralEntries(S))
  BY <1>1, <1>3 DEF GeneralEntries, FilterTypes
<1>5. /\ PlayedPrompts(taken') = PlayedPrompts(taken) \cup
             (IF entry.usable /\ entry.fits THEN {entry.prompt} ELSE {})
      /\ FirstOfEach(taken') = FirstOfEach(taken) \cup
             (IF Accepts(entry) THEN {Len(taken) + 1} ELSE {})
      /\ Accepts(entry) <=>
             entry.usable /\ entry.fits /\ entry.prompt \notin PlayedPrompts(taken)
  BY <1>2, <1>3, OneMoreEntry DEF Accepts, FilterInv
<1>6. CASE Accepts(entry)
  <2>1. general' = Append(general, new) /\ seen' = seen \cup {entry.prompt}
    BY <1>2, <1>6
  <2>2. new.entry = Len(taken) + 1
    OBVIOUS
  <2> HIDE DEF new
  <2>3. TakenBy(general') = TakenBy(general) \cup {Len(taken) + 1}
    <3>1. /\ Len(general) \in Nat /\ DOMAIN general = 1..Len(general)
          /\ DOMAIN general' = 1..Len(general) + 1
          /\ general'[Len(general) + 1] = new
          /\ \A j \in 1..Len(general) : general'[j] = general[j]
      BY <1>4, <2>1
    <3>2. \A j \in 1..Len(general) + 1 : j \in 1..Len(general) \/ j = Len(general) + 1
      BY <3>1
    <3>3. /\ 1..Len(general) \subseteq 1..Len(general) + 1
          /\ Len(general) + 1 \in 1..Len(general) + 1
      BY <3>1
    <3>4. QED  BY <2>2, <3>1, <3>2, <3>3 DEF TakenBy
  <2>4. general' \in Seq(GeneralEntries(S))
    BY <1>4, <2>1
  <2>5. seen' = PlayedPrompts(taken')
    BY <1>5, <1>6, <2>1 DEF FilterInv, Accepts
  <2>6. QED  BY <1>3, <1>5, <1>6, <2>3, <2>4, <2>5 DEF FilterInv, FilterTypes
<1>7. CASE ~Accepts(entry)
  <2>1. UNCHANGED <<seen, general>>
    BY <1>2, <1>7
  <2>2. PlayedPrompts(taken') = PlayedPrompts(taken)
    BY <1>5, <1>7
  <2>3. QED  BY <1>3, <1>4, <1>5, <1>7, <2>1, <2>2 DEF FilterInv, FilterTypes
<1>8. QED  BY <1>6, <1>7

LEMMA FilterStep == FilterInv /\ [Next]_vars => FilterInv'
<1> SUFFICES ASSUME FilterInv, [Next]_vars  PROVE FilterInv'
  OBVIOUS
<1>1. CASE Filter
  BY <1>1, FilterKeepsFirst
<1>2. CASE UNCHANGED <<source, taken, seen, general>>
  BY <1>2 DEF FilterInv, FilterTypes
<1>3. Filter \/ UNCHANGED <<source, taken, seen, general>>
  BY OnePartSteps DEF DeckNext, deckVars, Validate, Batch, StopDealing, Deliver,
                      ShuffleAnswers
<1>4. QED  BY <1>1, <1>2, <1>3

LEMMA FilterAlways == Spec => []FilterInv
  BY FilterInitially, FilterStep, PTL DEF Spec

\* Whatever the database lists, the general bucket holds the first entry of every
\* prompt that can be played, and no other (general_questions).
THEOREM GeneralAlwaysFirst == Spec => []GeneralIsFirstOfEach
<1>1. FilterInv => GeneralIsFirstOfEach
  BY DEF FilterInv, GeneralIsFirstOfEach, FirstOfEach, Plays, TakenBy
<1>2. QED  BY FilterAlways, <1>1, PTL

-----------------------------------------------------------------------------
(***************************************************************************)
(* The deck.  What is dealt of a bucket is always its beginning, as far as  *)
(* its cursor, so the deck has as many questions as the cursors add up to.  *)
(* A batch does not exceed the deck, and while it leaves room every bucket  *)
(* has given its full share or its last question, which keeps the weights   *)
(* and leaves nothing to fill up with.                                     *)
(***************************************************************************)
DeckTypes ==
    /\ maximum \in Nat
    /\ \A k \in 1..3 : authored[k] \in Seq(ToSet(authored[k]))
    /\ \E S : general \in Seq(GeneralEntries(S))

Total(c) == c[1] + c[2] + c[3] + c[4]

LEMMA TotalAdds ==
    ASSUME NEW c \in [Buckets -> Nat], NEW d \in [Buckets -> Nat]
    PROVE  /\ Total(c) \in Nat
           /\ Total([k \in Buckets |-> c[k] + d[k]]) = Total(c) + Total(d)
           /\ Total(c) = 0 => \A k \in Buckets : c[k] = 0
<1> DEFINE e == [k \in Buckets |-> c[k] + d[k]]
<1>1. /\ c[1] \in Nat /\ c[2] \in Nat /\ c[3] \in Nat /\ c[4] \in Nat
      /\ d[1] \in Nat /\ d[2] \in Nat /\ d[3] \in Nat /\ d[4] \in Nat
  BY DEF Buckets
<1>2. /\ e[1] = c[1] + d[1] /\ e[2] = c[2] + d[2]
      /\ e[3] = c[3] + d[3] /\ e[4] = c[4] + d[4]
  BY DEF Buckets
<1>3. \A k \in Buckets : k = 1 \/ k = 2 \/ k = 3 \/ k = 4
  BY DEF Buckets
<1> HIDE DEF e
<1>4. Total(c) \in Nat /\ Total(e) = Total(c) + Total(d)
  BY <1>1, <1>2 DEF Total
<1>5. ASSUME Total(c) = 0  PROVE c[1] = 0 /\ c[2] = 0 /\ c[3] = 0 /\ c[4] = 0
  <2> DEFINE w == c[1]
             x == c[2]
             y == c[3]
             z == c[4]
  <2>1. w + x + y + z = 0
    BY <1>5, Zenon DEF Total
  <2>2. w \in Nat /\ x \in Nat /\ y \in Nat /\ z \in Nat
    BY <1>1
  <2> HIDE DEF w, x, y, z
  <2>3. w = 0 /\ x = 0 /\ y = 0 /\ z = 0
    BY <2>1, <2>2
  <2>4. QED  BY <2>3 DEF w, x, y, z
<1>6. Total(c) = 0 => \A k \in Buckets : c[k] = 0
  BY <1>3, <1>5
<1>7. QED  BY <1>4, <1>6 DEF e

\* n questions of a bucket after the first a.
Run(k, a, n) == {<<k, i>> : i \in a + 1..a + n}

\* The next n[k] questions of every bucket after the first a[k].
Runs(a, n) == UNION {Run(k, a[k], n[k]) : k \in Buckets}

NoneDealt == [k \in Buckets |-> 0]

Sizes == [k \in Buckets |-> Len(Bucket(k))]

CursorsInv ==
    /\ cursors \in [Buckets -> Nat]
    /\ \A k \in Buckets : cursors[k] <= Sizes[k]

BatchesInv ==
    /\ batches \in Seq(SUBSET (Buckets \X Nat))
    /\ \A i \in DOMAIN batches : IsFiniteSet(batches[i])
    /\ Dealt = Runs(NoneDealt, cursors)
    /\ DeckLength = Total(cursors) /\ DeckLength <= maximum

AnswersInv ==
    IF stage # "ready" THEN options = Answers /\ correct = 1
    ELSE options[correct] = "right" /\ ToSet(options) = ToSet(Answers)

StageInv ==
    /\ stage \in {"filter", "deal", "fill", "shuffle", "ready", "failed"}
    /\ stage = "filter" => batches = <<>> /\ cursors = NoneDealt
    /\ stage = "fill" => \/ DeckLength = maximum
                         \/ cursors = Sizes
    /\ stage \in {"shuffle", "ready"} => DeckLength = maximum
    /\ stage \in {"deal", "fill", "shuffle", "ready"} => AuthoredValid
    /\ stage = "failed" => ~IsInjective(Prompts) \/ ~AuthoredValid \/ Len(Prompts) < maximum

WeightsInv ==
    stage = "deal" /\ DeckLength < maximum =>
        \A k \in Buckets : cursors[k] = Min({Len(batches) * Pattern[k], Sizes[k]})

DeckInv ==
    DeckTypes /\ CursorsInv /\ BatchesInv /\ StageInv /\ AnswersInv /\ WeightsInv

LEMMA SizesType == DeckTypes => Sizes \in [Buckets -> Nat] /\ Len(Prompts) = Total(Sizes)
<1> SUFFICES ASSUME DeckTypes
             PROVE  Sizes \in [Buckets -> Nat] /\ Len(Prompts) = Total(Sizes)
  OBVIOUS
<1> DEFINE A == ToSet(authored[1]) \cup ToSet(authored[2]) \cup ToSet(authored[3])
           P == {x.prompt : x \in A} \cup {general[i].prompt : i \in DOMAIN general}
           g == [i \in DOMAIN general |-> general[i].prompt]
<1>1. general \in Seq({general[i] : i \in DOMAIN general}) /\ Len(general) \in Nat
      /\ DOMAIN general = 1..Len(general)
  <2>1. PICK S : general \in Seq(GeneralEntries(S))
    BY DEF DeckTypes
  <2> QED  BY <2>1
<1>2. g \in Seq(P) /\ Len(g) = Len(general)
  BY <1>1
<1>3. \A k \in 1..3 : authored[k] \in Seq(A) /\ Len(authored[k]) \in Nat
  <2> TAKE k \in 1..3
  <2>1. authored[k] \in Seq(ToSet(authored[k])) /\ ToSet(authored[k]) \subseteq A
    BY DEF DeckTypes
  <2> HIDE DEF A
  <2>2. QED  BY <2>1
<1>15. \A x \in A : x.prompt \in P
  OBVIOUS
<1> HIDE DEF A, P, g
<1>4. ASSUME NEW Q, NEW x \in Seq(Q), NEW y \in Seq(Q)
      PROVE  x \o y \in Seq(Q) /\ Len(x \o y) = Len(x) + Len(y)
  OBVIOUS
<1> DEFINE a == authored[1]
           b == authored[2]
           c == authored[3]
<1>5. a \in Seq(A) /\ b \in Seq(A) /\ c \in Seq(A)
  BY <1>3
<1> HIDE DEF a, b, c
<1> DEFINE written == a \o b \o c
           w == [i \in DOMAIN written |-> written[i].prompt]
<1>6. /\ Len(a) \in Nat /\ Len(b) \in Nat /\ Len(c) \in Nat /\ Len(g) \in Nat
      /\ Len(w \o g) = Len(a) + Len(b) + Len(c) + Len(g)
  <2>1. a \o b \in Seq(A) /\ Len(a \o b) = Len(a) + Len(b)
    BY <1>4, <1>5
  <2>2. written \in Seq(A) /\ Len(written) = Len(a \o b) + Len(c)
    BY <1>4, <1>5, <2>1
  <2> HIDE DEF written
  <2>3. w \in Seq(P) /\ Len(w) = Len(written)
    BY <1>15, <2>2
  <2> HIDE DEF w
  <2>4. Len(w \o g) = Len(w) + Len(g)
    BY <1>2, <1>4, <2>3
  <2>5. Len(a) \in Nat /\ Len(b) \in Nat /\ Len(c) \in Nat /\ Len(g) \in Nat
    BY <1>2, <1>5
  <2>6. QED  BY <2>1, <2>2, <2>3, <2>4, <2>5
<1>7. /\ Bucket(1) = a /\ Bucket(2) = b /\ Bucket(3) = c /\ Bucket(4) = general
  BY DEF Bucket, General, a, b, c
<1>8. Prompts = w \o g
  BY DEF Prompts, a, b, c, g
<1>9. \A k \in Buckets : k = 1 \/ k = 2 \/ k = 3 \/ k = 4
  BY DEF Buckets
<1>10. /\ Len(Bucket(1)) = Len(a) /\ Len(Bucket(2)) = Len(b)
       /\ Len(Bucket(3)) = Len(c) /\ Len(Bucket(4)) = Len(g)
  BY <1>2, <1>7
<1>11. /\ Sizes[1] = Len(a) /\ Sizes[2] = Len(b) /\ Sizes[3] = Len(c)
       /\ Sizes[4] = Len(g)
  BY <1>10 DEF Sizes, Buckets
<1>12. Total(Sizes) = Len(a) + Len(b) + Len(c) + Len(g)
  BY <1>11 DEF Total
<1>13. \A k \in Buckets : Len(Bucket(k)) \in Nat
  BY <1>6, <1>9, <1>10
<1>14. QED  BY <1>6, <1>8, <1>12, <1>13 DEF Sizes

\* A run of n questions has n of them.
LEMMA RunSize ==
    ASSUME NEW k, NEW a \in Nat, NEW n \in Nat
    PROVE  IsFiniteSet(Run(k, a, n)) /\ Cardinality(Run(k, a, n)) = n
<1> DEFINE f == [i \in 1..n |-> <<k, a + i>>]
<1>1. f \in Bijection(1..n, Run(k, a, n))
  <2>1. \A i \in 1..n : f[i] \in Run(k, a, n)
    BY DEF Run
  <2>2. \A i, j \in 1..n : f[i] = f[j] => i = j
    OBVIOUS
  <2>3. \A y \in Run(k, a, n) : \E i \in 1..n : f[i] = y
    <3> TAKE y \in Run(k, a, n)
    <3>1. PICK i \in a + 1..a + n : y = <<k, i>>
      BY DEF Run
    <3>2. i - a \in 1..n /\ a + (i - a) = i
      BY <3>1
    <3>3. QED  BY <3>1, <3>2
  <2> HIDE DEF f
  <2>4. f \in [1..n -> Run(k, a, n)]
    BY <2>1 DEF f
  <2>5. QED  BY <2>2, <2>3, <2>4 DEF Bijection, Injection, Surjection, IsInjective
<1>2. IsFiniteSet(1..n) /\ Cardinality(1..n) = n
  BY CountUpTo
<1>3. QED  BY <1>1, <1>2, FS_Bijection DEF ExistsBijection

\* Runs of different buckets have nothing in common.
LEMMA RunsSize ==
    ASSUME NEW a \in [Buckets -> Nat], NEW n \in [Buckets -> Nat]
    PROVE  IsFiniteSet(Runs(a, n)) /\ Cardinality(Runs(a, n)) = Total(n)
<1> DEFINE R(k) == Run(k, a[k], n[k])
<1>1. \A k \in Buckets : IsFiniteSet(R(k)) /\ Cardinality(R(k)) = n[k] /\ n[k] \in Nat
  BY RunSize
<1>2. \A k, l \in Buckets : k # l => R(k) \cap R(l) = {}
  BY DEF Run
<1>3. Runs(a, n) = ((R(1) \cup R(2)) \cup R(3)) \cup R(4)
  BY DEF Runs, Buckets
<1> HIDE DEF R
<1>4. 1 \in Buckets /\ 2 \in Buckets /\ 3 \in Buckets /\ 4 \in Buckets
  BY DEF Buckets
<1>5. IsFiniteSet(R(1) \cup R(2)) /\ Cardinality(R(1) \cup R(2)) = n[1] + n[2]
  <2>1. R(1) \cap R(2) = {}
    BY <1>2, <1>4
  <2>2. /\ IsFiniteSet(R(1) \cup R(2))
        /\ Cardinality(R(1) \cup R(2)) = Cardinality(R(1)) + Cardinality(R(2))
    BY <1>1, <1>4, <2>1, DisjointUnion
  <2>3. QED  BY <1>1, <1>4, <2>2
<1>6. /\ IsFiniteSet((R(1) \cup R(2)) \cup R(3))
      /\ Cardinality((R(1) \cup R(2)) \cup R(3)) = n[1] + n[2] + n[3]
  <2>1. (R(1) \cup R(2)) \cap R(3) = {}
    BY <1>2, <1>4
  <2>2. /\ IsFiniteSet((R(1) \cup R(2)) \cup R(3))
        /\ Cardinality((R(1) \cup R(2)) \cup R(3)) =
              Cardinality(R(1) \cup R(2)) + Cardinality(R(3))
    BY <1>1, <1>4, <1>5, <2>1, DisjointUnion
  <2>3. QED  BY <1>1, <1>4, <1>5, <2>2
<1>7. /\ IsFiniteSet(((R(1) \cup R(2)) \cup R(3)) \cup R(4))
      /\ Cardinality(((R(1) \cup R(2)) \cup R(3)) \cup R(4)) = n[1] + n[2] + n[3] + n[4]
  <2>1. ((R(1) \cup R(2)) \cup R(3)) \cap R(4) = {}
    BY <1>2, <1>4
  <2>2. /\ IsFiniteSet(((R(1) \cup R(2)) \cup R(3)) \cup R(4))
        /\ Cardinality(((R(1) \cup R(2)) \cup R(3)) \cup R(4)) =
              Cardinality((R(1) \cup R(2)) \cup R(3)) + Cardinality(R(4))
    BY <1>1, <1>4, <1>6, <2>1, DisjointUnion
  <2>3. QED  BY <1>1, <1>4, <1>6, <2>2
<1>8. QED  BY <1>3, <1>7 DEF Total

\* One batch after another goes on where the last one ended.
LEMMA RunsGoOn ==
    ASSUME NEW a \in [Buckets -> Nat], NEW n \in [Buckets -> Nat]
    PROVE  Runs(NoneDealt, a) \cup Runs(a, n) =
              Runs(NoneDealt, [k \in Buckets |-> a[k] + n[k]])
<1>1. ASSUME NEW k \in Buckets
      PROVE  Run(k, 0, a[k]) \cup Run(k, a[k], n[k]) = Run(k, 0, a[k] + n[k])
  <2>1. (0 + 1..0 + a[k]) \cup (a[k] + 1..a[k] + n[k]) = 0 + 1..0 + (a[k] + n[k])
    <3>1. a[k] \in Nat /\ n[k] \in Nat
      OBVIOUS
    <3>2. QED  BY <3>1
  <2>2. QED  BY <2>1 DEF Run
<1>2. QED  BY <1>1 DEF Runs, NoneDealt

\* The shares of a batch, bucket by bucket.
LEMMA RoomUnfolds ==
    /\ Room[1] = maximum - DeckLength
    /\ Room[2] = Room[1] - Share(1)
    /\ Room[3] = Room[2] - Share(2)
    /\ Room[4] = Room[3] - Share(3)
<1> DEFINE r1 == maximum - DeckLength
           r2 == r1 - Takes(1, r1)
           r3 == r2 - Takes(2, r2)
           r4 == r3 - Takes(3, r3)
           Solution == [k \in Buckets |-> IF k = 1 THEN r1 ELSE IF k = 2 THEN r2
                                          ELSE IF k = 3 THEN r3 ELSE r4]
           Solves4(R) == R = [k \in Buckets |->
                                IF k = 1 THEN maximum - DeckLength
                                         ELSE R[k - 1] - Takes(k - 1, R[k - 1])]
<1>1. Solves4(Solution)
  <2> DEFINE Right(k) == IF k = 1 THEN maximum - DeckLength
                         ELSE Solution[k - 1] - Takes(k - 1, Solution[k - 1])
  <2>1. /\ Solution[1] = r1 /\ Solution[2] = r2 /\ Solution[3] = r3 /\ Solution[4] = r4
    BY DEF Buckets
  <2>2. \A k \in Buckets : k = 1 \/ k = 2 \/ k = 3 \/ k = 4
    BY DEF Buckets
  <2>3. 2 - 1 = 1 /\ 3 - 1 = 2 /\ 4 - 1 = 3
    OBVIOUS
  <2>4. Solution = [k \in Buckets |-> Solution[k]]
    OBVIOUS
  <2> HIDE DEF Solution
  <2>5. /\ Right(1) = r1 /\ Right(2) = r2 /\ Right(3) = r3 /\ Right(4) = r4
    BY <2>1, <2>3
  <2>6. \A k \in Buckets : Solution[k] = Right(k)
    BY <2>1, <2>2, <2>5, Zenon
  <2> HIDE DEF Right
  <2>7. Solution = [k \in Buckets |-> Right(k)]
    BY <2>4, <2>6
  <2>8. QED  BY <2>7 DEF Right
<1>2. Solves4(Room)
  <2> HIDE DEF Solution
  <2>1. \E R : Solves4(R)
    BY <1>1
  <2>2. Room = CHOOSE R : Solves4(R)
    BY DEF Room
  <2>3. QED  BY <2>1, <2>2
<1>3. \A k \in Buckets : Room[k] = IF k = 1 THEN maximum - DeckLength
                                   ELSE Room[k - 1] - Takes(k - 1, Room[k - 1])
  BY <1>2
<1> HIDE DEF Solves4
<1>4. /\ 1 \in Buckets /\ 2 \in Buckets /\ 3 \in Buckets /\ 4 \in Buckets
      /\ 2 - 1 = 1 /\ 3 - 1 = 2 /\ 4 - 1 = 3
  BY DEF Buckets
<1>5. QED  BY <1>3, <1>4 DEF Share

SharesAre(n) ==
    /\ n = [k \in Buckets |-> Share(k)] /\ n \in [Buckets -> Nat]
    /\ \A k \in Buckets :
          /\ n[k] <= Pattern[k] /\ cursors[k] + n[k] <= Sizes[k]
          /\ \/ n[k] = Pattern[k]
             \/ cursors[k] + n[k] = Sizes[k]
             \/ DeckLength + Total(n) = maximum
    /\ DeckLength + Total(n) <= maximum

\* A batch never asks for more than there is, and where it asks for less than the
\* pattern, the bucket is empty or the deck is full.
LEMMA Shares ==
    ASSUME DeckTypes, CursorsInv, BatchesInv
    PROVE  SharesAre([k \in Buckets |-> Share(k)])
<1> DEFINE n == [k \in Buckets |-> Share(k)]
           rest(k) == Sizes[k] - cursors[k]
<1>1. /\ \A k \in Buckets : cursors[k] \in Nat /\ Sizes[k] \in Nat
      /\ \A k \in Buckets : rest(k) \in Nat /\ Pattern[k] \in Nat
      /\ DeckLength \in Nat /\ maximum \in Nat /\ DeckLength <= maximum
  <2>1. \A k \in Buckets : /\ cursors[k] \in Nat /\ Sizes[k] \in Nat
                           /\ cursors[k] <= Sizes[k]
    BY SizesType DEF CursorsInv, Sizes
  <2>2. \A k \in Buckets : Pattern[k] \in Nat
    BY DeckAssumption DEF Buckets
  <2>3. Total(cursors) \in Nat
    BY TotalAdds DEF CursorsInv
  <2>4. QED  BY <2>1, <2>2, <2>3 DEF DeckTypes, BatchesInv
<1>2. ASSUME NEW k \in Buckets, Room[k] \in Nat
      PROVE  /\ Share(k) \in Nat /\ Share(k) <= Pattern[k] /\ Share(k) <= rest(k)
             /\ Share(k) <= Room[k]
             /\ Share(k) = Pattern[k] \/ Share(k) = rest(k) \/ Share(k) = Room[k]
  <2> HIDE DEF rest
  <2>1. Share(k) = Min({Pattern[k], rest(k), Room[k]})
    BY DEF Share, Takes, Sizes, rest
  <2>2. Pattern[k] \in Nat /\ rest(k) \in Nat
    BY <1>1
  <2>3. QED  BY <1>2, <2>1, <2>2, MinOfThree
<1>3. 1 \in Buckets /\ 2 \in Buckets /\ 3 \in Buckets /\ 4 \in Buckets
  BY DEF Buckets
<1>4. Room[1] \in Nat /\ Room[1] = maximum - DeckLength
  BY <1>1, RoomUnfolds
<1>5. Share(1) \in Nat /\ Room[2] \in Nat /\ Room[2] = Room[1] - Share(1)
  BY <1>2, <1>3, <1>4, RoomUnfolds
<1>6. Share(2) \in Nat /\ Room[3] \in Nat /\ Room[3] = Room[2] - Share(2)
  BY <1>2, <1>3, <1>5, RoomUnfolds
<1>7. Share(3) \in Nat /\ Room[4] \in Nat /\ Room[4] = Room[3] - Share(3)
  BY <1>2, <1>3, <1>6, RoomUnfolds
<1>8. Share(4) \in Nat /\ Share(4) <= Room[4]
  BY <1>2, <1>3, <1>7
<1>9. n[1] = Share(1) /\ n[2] = Share(2) /\ n[3] = Share(3) /\ n[4] = Share(4)
  BY <1>3
<1>10. Total(n) = Share(1) + Share(2) + Share(3) + Share(4)
  BY <1>9 DEF Total
<1>11. /\ DeckLength + Total(n) <= maximum
       /\ (\/ Share(1) = Room[1] \/ Share(2) = Room[2]
           \/ Share(3) = Room[3] \/ Share(4) = Room[4]) => DeckLength + Total(n) = maximum
  <2> HIDE DEF n
  <2>1. /\ DeckLength \in Nat /\ maximum \in Nat
        /\ Share(1) \in Nat /\ Share(2) \in Nat /\ Share(3) \in Nat /\ Share(4) \in Nat
        /\ Room[1] = maximum - DeckLength /\ Room[2] = Room[1] - Share(1)
        /\ Room[3] = Room[2] - Share(2) /\ Room[4] = Room[3] - Share(3)
        /\ Share(4) <= Room[4]
        /\ Room[1] \in Nat /\ Room[2] \in Nat /\ Room[3] \in Nat /\ Room[4] \in Nat
    BY <1>1, <1>4, <1>5, <1>6, <1>7, <1>8
  <2>2. QED  BY <1>10, <2>1
<1>12. \A k \in Buckets : k = 1 \/ k = 2 \/ k = 3 \/ k = 4
  BY DEF Buckets
<1>13. \A k \in Buckets : Room[k] \in Nat
  BY <1>4, <1>5, <1>6, <1>7, <1>12
<1>14. ASSUME NEW k \in Buckets, Share(k) = Room[k]
       PROVE  DeckLength + Total(n) = maximum
  <2> HIDE DEF n
  <2>1. \/ Share(1) = Room[1] \/ Share(2) = Room[2]
        \/ Share(3) = Room[3] \/ Share(4) = Room[4]
    BY <1>12, <1>14, Zenon
  <2>2. QED  BY <1>11, <2>1
<1>15. ASSUME NEW k \in Buckets
       PROVE  /\ n[k] \in Nat /\ n[k] <= Pattern[k]
              /\ cursors[k] + n[k] <= Sizes[k]
              /\ \/ n[k] = Pattern[k]
                 \/ cursors[k] + n[k] = Sizes[k]
                 \/ DeckLength + Total(n) = maximum
  <2>1. n[k] = Share(k) /\ Room[k] \in Nat
    BY <1>13
  <2>2. /\ Share(k) \in Nat /\ Share(k) <= Pattern[k] /\ Share(k) <= rest(k)
        /\ Share(k) = Pattern[k] \/ Share(k) = rest(k) \/ Share(k) = Room[k]
    BY <1>2, <2>1
  <2>3. cursors[k] \in Nat /\ Sizes[k] \in Nat /\ Pattern[k] \in Nat
    BY <1>1
  <2> HIDE DEF n
  <2>4. QED  BY <1>14, <2>1, <2>2, <2>3
<1>16. n \in [Buckets -> Nat]
  BY <1>15
<1> HIDE DEF n
<1>17. QED  BY <1>11, <1>15, <1>16 DEF SharesAre, n

\* Steps that leave the deck alone leave its counts alone.
LEMMA CountsKept ==
    UNCHANGED <<authored, general, batches>>
        => UNCHANGED <<Sizes, DeckLength, Dealt, Prompts, AuthoredValid>>
  BY DEF Sizes, Bucket, DeckLength, Dealt, Prompts, AuthoredValid

LEMMA DeckInitially == Init => DeckInv
<1> SUFFICES ASSUME Init  PROVE DeckInv
  OBVIOUS
<1>1. /\ stage = "filter" /\ general = <<>> /\ cursors = NoneDealt /\ batches = <<>>
      /\ options = Answers /\ correct = 1
      /\ maximum \in Maxima \/ maximum = 0
      /\ authored \in AuthoredDecks \/ authored = << <<>>, <<>>, <<>> >>
  BY DEF Init, DeckInit, NoDeck, DeckFrom, NoneDealt
<1>2. DeckTypes
  <2>1. maximum \in Nat
    <3>1. CASE maximum \in Maxima
      BY <3>1, DeckAssumption, Zenon
    <3>2. CASE maximum = 0
      BY <3>2
    <3>3. QED  BY <1>1, <3>1, <3>2, Zenon
  <2>2. \A k \in 1..3 : authored[k] \in Seq(ToSet(authored[k]))
    <3>1. CASE authored \in AuthoredDecks
      BY <3>1, DeckAssumption
    <3>2. CASE authored = << <<>>, <<>>, <<>> >>
      <4>1. \A k \in 1..3 : k = 1 \/ k = 2 \/ k = 3
        OBVIOUS
      <4>2. authored[1] = <<>> /\ authored[2] = <<>> /\ authored[3] = <<>>
        BY <3>2
      <4>3. \A S : <<>> \in Seq(S)
        OBVIOUS
      <4>4. QED  BY <4>1, <4>2, <4>3
    <3>3. QED  BY <1>1, <3>1, <3>2
  <2>3. general \in Seq(GeneralEntries({}))
    BY <1>1
  <2>4. QED  BY <2>1, <2>2, <2>3 DEF DeckTypes
<1>3. /\ cursors \in [Buckets -> Nat] /\ Total(cursors) = 0
      /\ \A k \in Buckets : cursors[k] = 0
  BY <1>1 DEF NoneDealt, Total, Buckets
<1>4. CursorsInv
  BY <1>2, <1>3, SizesType DEF CursorsInv
<1>5. BatchesInv
  <2>1. DOMAIN batches = {} /\ batches \in Seq(SUBSET (Buckets \X Nat))
    BY <1>1
  <2>2. DeckLength = 0
    BY <2>1, SumOfNothing DEF DeckLength, SumFunction
  <2>3. Dealt = {} /\ Runs(NoneDealt, cursors) = {}
    BY <1>1, <2>1 DEF Dealt, Runs, Run, NoneDealt
  <2>4. QED  BY <1>2, <1>3, <2>1, <2>2, <2>3 DEF BatchesInv, DeckTypes
<1>6. QED  BY <1>1, <1>2, <1>4, <1>5 DEF DeckInv, StageInv, AnswersInv, WeightsInv

\* Only the filter touches a bucket, and before a card is dealt.
LEMMA FilterKeepsDeck == DeckInv /\ FilterInv' /\ Filter => DeckInv'
<1> SUFFICES ASSUME DeckInv, FilterInv', Filter  PROVE DeckInv'
  OBVIOUS
<1>1. /\ stage = "filter"
      /\ UNCHANGED <<stage, authored, cursors, batches, maximum, options, correct>>
  BY DEF Filter, shuffleVars
<1>2. /\ DeckTypes /\ CursorsInv /\ BatchesInv /\ AnswersInv
      /\ batches = <<>> /\ cursors = NoneDealt
  BY <1>1 DEF DeckInv, StageInv
<1>3. DeckTypes'
  BY <1>1, <1>2 DEF DeckTypes, FilterInv, FilterTypes
<1>4. Sizes' \in [Buckets -> Nat]
  <2>1. (DeckTypes => Sizes \in [Buckets -> Nat] /\ Len(Prompts) = Total(Sizes))'
    BY SizesType, PTL
  <2>2. QED  BY <1>3, <2>1
<1>5. CursorsInv'
  BY <1>1, <1>2, <1>4 DEF CursorsInv, NoneDealt
<1>6. DeckLength' = DeckLength /\ Dealt' = Dealt
  BY <1>1 DEF DeckLength, Dealt
<1>7. BatchesInv'
  BY <1>1, <1>2, <1>6 DEF BatchesInv
<1>8. QED
  BY <1>1, <1>2, <1>3, <1>5, <1>7 DEF DeckInv, StageInv, AnswersInv, WeightsInv

\* A batch: what it adds, and what is left when there is none.
LEMMA BatchKeepsDeck == DeckInv /\ Batch => DeckInv'
<1> SUFFICES ASSUME DeckInv, Batch  PROVE DeckInv'
  OBVIOUS
<1> DEFINE n == [k \in Buckets |-> Share(k)]
           batch == Runs(cursors, n)
           more == [k \in Buckets |-> cursors[k] + n[k]]
           m == Len(batches)
<1>1. /\ DeckTypes /\ CursorsInv /\ BatchesInv /\ AnswersInv /\ WeightsInv
      /\ cursors \in [Buckets -> Nat] /\ DeckLength = Total(cursors)
      /\ batches \in Seq(SUBSET (Buckets \X Nat)) /\ m \in Nat
      /\ \A i \in DOMAIN batches : IsFiniteSet(batches[i])
      /\ Dealt = Runs(NoneDealt, cursors)
      /\ maximum \in Nat /\ Sizes \in [Buckets -> Nat]
  BY SizesType DEF DeckInv, CursorsInv, BatchesInv, DeckTypes
<1>2. SharesAre(n)
  BY <1>1, Shares
<1>3. batch = UNION {Draws(k, Share(k)) : k \in Buckets}
  BY DEF Runs, Run, Draws
<1>4. /\ stage = "deal" /\ DeckLength < maximum
      /\ UNCHANGED <<source, taken, seen, general, authored, maximum, options, correct>>
      /\ IF batch = {}
         THEN stage' = "fill" /\ UNCHANGED <<batches, cursors>>
         ELSE batches' = Append(batches, batch) /\ cursors' = more /\ stage' = "deal"
  BY <1>3 DEF Batch, shuffleVars
<1>5. /\ n \in [Buckets -> Nat]
      /\ \A k \in Buckets :
            /\ n[k] <= Pattern[k] /\ cursors[k] + n[k] <= Sizes[k]
            /\ \/ n[k] = Pattern[k]
               \/ cursors[k] + n[k] = Sizes[k]
               \/ DeckLength + Total(n) = maximum
      /\ DeckLength + Total(n) <= maximum
  BY <1>2 DEF SharesAre
<1> HIDE DEF n
<1>6. IsFiniteSet(batch) /\ Cardinality(batch) = Total(n)
  BY <1>1, <1>5, RunsSize
<1>7. \A k \in Buckets : Pattern[k] \in Nat /\ Pattern[k] > 0
  BY DeckAssumption DEF Buckets
<1>8. Sizes' = Sizes /\ DeckTypes'
  BY <1>1, <1>4 DEF Sizes, Bucket, DeckTypes
<1>9. CASE batch = {}
  <2>1. /\ \A k \in Buckets : n[k] = 0
        /\ DeckLength + Total(n) = DeckLength
    <3>1. Total(n) = 0
      BY <1>6, <1>9, FS_EmptySet
    <3>2. DeckLength \in Nat
      BY <1>1, TotalAdds
    <3>3. \A k \in Buckets : n[k] = 0
      BY <1>5, <3>1, TotalAdds, Zenon
    <3>4. QED  BY <3>1, <3>2, <3>3
  <2>2. \A k \in Buckets : cursors[k] = Sizes[k]
    <3> TAKE k \in Buckets
    <3>1. n[k] # Pattern[k] /\ DeckLength + Total(n) # maximum
      <4>1. DeckLength \in Nat
        BY <1>1, TotalAdds
      <4>2. n[k] = 0 /\ Pattern[k] > 0
        BY <1>7, <2>1
      <4>3. QED  BY <1>1, <1>4, <2>1, <4>1, <4>2
    <3>2. cursors[k] + n[k] = Sizes[k] /\ cursors[k] \in Nat
      BY <1>1, <1>5, <3>1
    <3>3. QED  BY <2>1, <3>2
  <2>3. cursors = Sizes
    BY <1>1, <2>2
  <2>4. UNCHANGED <<batches, cursors>> /\ stage' = "fill"
    BY <1>4, <1>9
  <2>5. DeckLength' = DeckLength /\ Dealt' = Dealt
    BY <2>4 DEF DeckLength, Dealt
  <2>6. CursorsInv' /\ BatchesInv' /\ AnswersInv'
    BY <1>1, <1>4, <1>8, <2>4, <2>5 DEF CursorsInv, BatchesInv, AnswersInv
  <2>7. AuthoredValid /\ AuthoredValid'
    <3>1. AuthoredValid
      BY <1>4 DEF DeckInv, StageInv
    <3>2. QED  BY <1>4, <3>1 DEF AuthoredValid
  <2>8. StageInv'
    BY <1>1, <1>4, <1>8, <2>3, <2>4, <2>7 DEF StageInv
  <2>9. QED  BY <1>8, <2>4, <2>6, <2>8 DEF DeckInv, WeightsInv
<1>10. CASE batch # {}
  <2>1. batches' = Append(batches, batch) /\ cursors' = more /\ stage' = "deal"
    BY <1>4, <1>10
  <2>2. batch \in SUBSET (Buckets \X Nat)
    BY <1>1, <1>5 DEF Runs, Run
  <2>3. Runs(NoneDealt, cursors) \cup batch = Runs(NoneDealt, more)
    BY <1>1, <1>5, RunsGoOn
  <2>4. \A k \in Buckets : more[k] = cursors[k] + n[k]
    OBVIOUS
  <2>5. more \in [Buckets -> Nat]
    BY <1>1, <1>5
  <2> HIDE DEF batch, more
  <2>6. Total(more) = DeckLength + Total(n)
    BY <1>1, <1>5, TotalAdds DEF more
  <2>7. DeckLength' = DeckLength + Total(n)
    BY <1>1, <1>6, <2>1, <2>2, CountOfOneMore DEF DeckLength
  <2>8. /\ m + 1 = Len(batches') /\ batches' \in Seq(SUBSET (Buckets \X Nat))
        /\ \A i \in DOMAIN batches' : IsFiniteSet(batches'[i])
        /\ Dealt' = Dealt \cup batch
    <3>1. /\ DOMAIN batches = 1..m /\ DOMAIN batches' = 1..m + 1
          /\ batches'[m + 1] = batch /\ \A i \in 1..m : batches'[i] = batches[i]
          /\ m + 1 = Len(batches') /\ batches' \in Seq(SUBSET (Buckets \X Nat))
      BY <1>1, <2>1, <2>2
    <3>2. /\ \A i \in 1..m + 1 : i \in 1..m \/ i = m + 1
          /\ 1..m \subseteq 1..m + 1 /\ m + 1 \in 1..m + 1
      BY <1>1
    <3> HIDE DEF m
    <3>3. \A i \in 1..m + 1 : IsFiniteSet(batches'[i])
      BY <1>1, <1>6, <3>1, <3>2
    <3>4. Dealt' = Dealt \cup batch
      BY <3>1, <3>2 DEF Dealt
    <3>5. QED  BY <3>1, <3>3, <3>4
  <2>9. BatchesInv'
    BY <1>1, <1>4, <1>5, <2>1, <2>3, <2>6, <2>7, <2>8 DEF BatchesInv
  <2>10. CursorsInv'
    BY <1>5, <1>8, <2>1, <2>4, <2>5 DEF CursorsInv
  <2>11. ASSUME DeckLength' < maximum, NEW k \in Buckets
         PROVE  more[k] = Min({(m + 1) * Pattern[k], Sizes[k]})
    <3> DEFINE a == m * Pattern[k]
               z == Sizes[k]
    <3>1. /\ a \in Nat /\ z \in Nat /\ Pattern[k] \in Nat /\ Pattern[k] > 0
          /\ cursors[k] \in Nat /\ n[k] \in Nat
      BY <1>1, <1>5, <1>7
    <3>2. (m + 1) * Pattern[k] = a + Pattern[k]
      <4>1. \A x, y \in Nat : (x + 1) * y = x * y + y
        OBVIOUS
      <4> HIDE DEF m
      <4>2. QED  BY <1>1, <3>1, <4>1
    <3>3. cursors[k] = Min({a, z})
      BY <1>1, <1>4 DEF WeightsInv
    <3>4. /\ n[k] <= Pattern[k] /\ cursors[k] + n[k] <= z
          /\ n[k] = Pattern[k] \/ cursors[k] + n[k] = z
      BY <1>5, <2>7, <2>11
    <3> HIDE DEF a, z, m
    <3>5. /\ cursors[k] <= a /\ cursors[k] <= z
          /\ cursors[k] = a \/ cursors[k] = z
      <4>1. a \in Nat /\ z \in Nat
        BY <3>1
      <4>2. /\ Min({a, z}) <= a /\ Min({a, z}) <= z
            /\ Min({a, z}) = a \/ Min({a, z}) = z
        BY <4>1, MinOfTwo, Zenon
      <4>3. QED  BY <3>3, <4>2, Zenon
    <3>6. a + Pattern[k] \in Nat
      BY <3>1
    <3>7. /\ Min({a + Pattern[k], z}) \in Nat
          /\ Min({a + Pattern[k], z}) <= a + Pattern[k] /\ Min({a + Pattern[k], z}) <= z
          /\ Min({a + Pattern[k], z}) = a + Pattern[k] \/ Min({a + Pattern[k], z}) = z
      BY <3>1, <3>6, MinOfTwo
    <3> DEFINE least == Min({a + Pattern[k], z})
    <3> HIDE DEF least
    <3>8. cursors[k] + n[k] = least
      BY <3>1, <3>4, <3>5, <3>7 DEF least
    <3>9. QED  BY <2>4, <3>2, <3>8 DEF least, z
  <2>12. WeightsInv'
    BY <1>4, <1>8, <2>1, <2>8, <2>11 DEF WeightsInv
  <2>13. AuthoredValid /\ AuthoredValid'
    <3>1. AuthoredValid
      BY <1>4 DEF DeckInv, StageInv
    <3>2. QED  BY <1>4, <3>1 DEF AuthoredValid
  <2>14. StageInv' /\ AnswersInv'
    BY <1>1, <1>4, <1>8, <2>1, <2>10, <2>13 DEF StageInv, AnswersInv
  <2>15. QED
    BY <1>8, <2>9, <2>10, <2>12, <2>14 DEF DeckInv
<1>11. QED  BY <1>9, <1>10

\* The right answer is found again wherever the shuffle has put it.
LEMMA ShuffleKeepsAnswers ==
    AnswersInv /\ ShuffleAnswers => AnswersInv' /\ stage' = "ready"
<1> SUFFICES ASSUME AnswersInv, ShuffleAnswers  PROVE AnswersInv' /\ stage' = "ready"
  OBVIOUS
<1>1. /\ options = Answers /\ correct = 1
      /\ correct' = SelectInSeq(options', LAMBDA answer : answer = options[correct])
      /\ stage' = IF correct' \in DOMAIN options' THEN "ready" ELSE "failed"
  BY DEF ShuffleAnswers, AnswersInv
<1>2. PICK order \in Bijection(1..4, 1..4) : options' = [i \in 1..4 |-> options[order[i]]]
  BY DEF ShuffleAnswers
<1>3. /\ order \in [1..4 -> 1..4]
      /\ \A w \in 1..4 : \E v \in 1..4 : order[v] = w
  BY DEF Bijection, Injection, Surjection
<1>4. /\ DOMAIN Answers = 1..4 /\ Answers[1] = "right"
      /\ Answers \in [1..4 -> {Answers[i] : i \in 1..4}]
  BY DEF Answers
<1>5. options' = [i \in 1..4 |-> Answers[order[i]]]
  BY <1>1, <1>2
<1> HIDE DEF Answers
<1>6. DOMAIN options' = 1..4 /\ \A i \in 1..4 : options'[i] = Answers[order[i]]
  BY <1>5
<1>7. Len(options') = 4
  <2>1. options' \in [1..4 -> {Answers[i] : i \in 1..4}]
    BY <1>3, <1>5
  <2>2. QED  BY <2>1, <1>6
<1>8. ToSet(options') = ToSet(Answers)
  <2>1. ASSUME NEW x \in ToSet(Answers)  PROVE x \in ToSet(options')
    <3>1. PICK w \in 1..4 : x = Answers[w]
      BY <1>4 DEF ToSet
    <3>2. PICK v \in 1..4 : order[v] = w
      BY <1>3
    <3>3. QED  BY <1>6, <3>1, <3>2 DEF ToSet
  <2>2. ASSUME NEW x \in ToSet(options')  PROVE x \in ToSet(Answers)
    <3>1. PICK i \in 1..4 : x = Answers[order[i]]
      BY <1>6 DEF ToSet
    <3>2. order[i] \in 1..4
      BY <1>3
    <3>3. QED  BY <1>4, <3>1, <3>2 DEF ToSet
  <2>3. QED  BY <2>1, <2>2
<1>9. options'[correct'] = "right" /\ correct' \in 1..4
  <2> DEFINE found == {i \in 1..Len(options') : options'[i] = options[correct]}
  <2>1. found = {i \in 1..4 : options'[i] = "right"}
    BY <1>1, <1>4, <1>7
  <2>2. \E i \in 1..4 : options'[i] = "right"
    BY <1>3, <1>4, <1>6
  <2>3. correct' = Min(found)
    BY <1>1, <2>1, <2>2 DEF SelectInSeq
  <2> HIDE DEF found
  <2>4. found \subseteq Nat /\ found # {}
    BY <2>1, <2>2
  <2>5. Min(found) \in found
    BY <2>4, MinIsLeast
  <2>6. QED  BY <2>1, <2>3, <2>5
<1>10. stage' = "ready"
  BY <1>1, <1>6, <1>9
<1>11. QED  BY <1>8, <1>9, <1>10 DEF AnswersInv

\* The other steps move the stage on.
LEMMA StagesKeepDeck ==
    DeckInv /\ (Validate \/ StopDealing \/ Deliver \/ ShuffleAnswers) => DeckInv'
<1> SUFFICES ASSUME DeckInv, Validate \/ StopDealing \/ Deliver \/ ShuffleAnswers
             PROVE  DeckInv'
  OBVIOUS
<1>1. UNCHANGED <<authored, general, batches, cursors, maximum>>
  BY DEF Validate, StopDealing, Deliver, ShuffleAnswers
<1>2. UNCHANGED <<Sizes, DeckLength, Dealt, Prompts, AuthoredValid>>
  BY <1>1, CountsKept
<1>3. /\ DeckTypes /\ CursorsInv /\ BatchesInv /\ StageInv /\ AnswersInv /\ WeightsInv
      /\ DeckLength <= maximum /\ DeckLength = Total(cursors) /\ maximum \in Nat
      /\ DeckLength \in Nat /\ cursors \in [Buckets -> Nat]
  BY TotalAdds DEF DeckInv, BatchesInv, DeckTypes, CursorsInv
<1>4. DeckTypes' /\ CursorsInv' /\ BatchesInv'
  BY <1>1, <1>2, <1>3 DEF DeckTypes, CursorsInv, BatchesInv
<1>5. Sizes \in [Buckets -> Nat] /\ Len(Prompts) = Total(Sizes)
  BY <1>3, SizesType
<1>6. CASE Validate
  <2>1. /\ stage = "filter" /\ UNCHANGED <<options, correct>>
        /\ stage' = IF AuthoredValid /\ IsInjective(Prompts) THEN "deal" ELSE "failed"
    BY <1>6 DEF Validate, shuffleVars
  <2>2. batches = <<>> /\ cursors = NoneDealt
    BY <1>3, <2>1 DEF StageInv
  <2>3. \A k \in Buckets : cursors[k] = Min({Len(batches) * Pattern[k], Sizes[k]})
    <3> TAKE k \in Buckets
    <3>1. Len(batches) = 0 /\ cursors[k] = 0 /\ Pattern[k] \in Nat /\ Sizes[k] \in Nat
      BY <1>5, <2>2, DeckAssumption DEF NoneDealt, Buckets
    <3>2. Len(batches) * Pattern[k] = 0
      BY <3>1
    <3> DEFINE least == Min({0, Sizes[k]})
    <3>3. least \in Nat /\ least <= 0
      BY <3>1, MinOfTwo
    <3> HIDE DEF least
    <3>4. least = cursors[k]
      BY <3>1, <3>3
    <3>5. QED  BY <3>2, <3>4 DEF least
  <2>4. StageInv' /\ AnswersInv'
    BY <1>2, <1>3, <2>1 DEF StageInv, AnswersInv
  <2>5. WeightsInv'
    BY <1>1, <1>2, <2>3 DEF WeightsInv
  <2>6. QED  BY <1>4, <2>4, <2>5 DEF DeckInv
<1>7. CASE StopDealing
  <2>1. /\ stage = "deal" /\ stage' = "fill" /\ DeckLength >= maximum
        /\ UNCHANGED <<options, correct>>
    BY <1>7 DEF StopDealing, shuffleVars
  <2>2. DeckLength = maximum
    BY <1>3, <2>1
  <2>3. QED  BY <1>1, <1>2, <1>3, <1>4, <2>1, <2>2
                DEF DeckInv, StageInv, AnswersInv, WeightsInv
<1>8. CASE Deliver
  <2>1. /\ stage = "fill" /\ UNCHANGED <<options, correct>>
        /\ stage' = IF DeckLength = maximum THEN "shuffle" ELSE "failed"
    BY <1>8 DEF Deliver, shuffleVars
  <2>2. DeckLength # maximum => Len(Prompts) < maximum
    <3>1. DeckLength # maximum => cursors = Sizes
      BY <1>3, <2>1 DEF StageInv
    <3>2. DeckLength # maximum => DeckLength < maximum
      BY <1>3
    <3>3. QED  BY <1>3, <1>5, <3>1, <3>2
  <2>3. QED  BY <1>1, <1>2, <1>3, <1>4, <2>1, <2>2
                DEF DeckInv, StageInv, AnswersInv, WeightsInv
<1>9. CASE ShuffleAnswers
  <2>1. stage = "shuffle"
    BY <1>9 DEF ShuffleAnswers
  <2>2. AnswersInv' /\ stage' = "ready"
    BY <1>3, <1>9, ShuffleKeepsAnswers
  <2>3. QED  BY <1>1, <1>2, <1>3, <1>4, <2>1, <2>2 DEF DeckInv, StageInv, WeightsInv
<1>10. QED  BY <1>6, <1>7, <1>8, <1>9

LEMMA DeckStep == DeckInv /\ FilterInv' /\ [Next]_vars => DeckInv'
<1> SUFFICES ASSUME DeckInv, FilterInv', [Next]_vars  PROVE DeckInv'
  OBVIOUS
<1>1. CASE Filter
  BY <1>1, FilterKeepsDeck
<1>2. CASE Batch
  BY <1>2, BatchKeepsDeck
<1>3. CASE Validate \/ StopDealing \/ Deliver \/ ShuffleAnswers
  BY <1>3, StagesKeepDeck
<1>4. CASE UNCHANGED deckVars
  <2>1. UNCHANGED <<stage, authored, general, cursors, batches, maximum, options, correct>>
    BY <1>4 DEF deckVars, shuffleVars
  <2>2. UNCHANGED <<Sizes, DeckLength, Dealt, Prompts, AuthoredValid>>
    BY <2>1, CountsKept
  <2>3. QED  BY <2>1, <2>2 DEF DeckInv, DeckTypes, CursorsInv, BatchesInv, StageInv,
                               AnswersInv, WeightsInv
<1>5. QED  BY OnePartSteps, <1>1, <1>2, <1>3, <1>4 DEF DeckNext

LEMMA DeckAlways == Spec => []DeckInv
  BY DeckInitially, DeckStep, FilterAlways, PTL DEF Spec

\* The weights of build_deck, "the agreed category weights": whatever the buckets
\* hold and whatever the pattern, a deck that is not full has the agreed share of
\* every category that has not run out.
THEOREM WeightsAlwaysKept == Spec => []WeightsKept
<1>1. DeckInv => WeightsKept
  BY DEF DeckInv, WeightsInv, WeightsKept, Sizes
<1>2. QED  BY DeckAlways, <1>1, PTL

\* What is in the general bucket fits the badge.
LEMMA GeneralFits ==
    FilterInv => /\ DOMAIN general = 1..Len(general)
                 /\ \A j \in DOMAIN general : taken[general[j].entry].fits
<1> SUFFICES ASSUME FilterInv
             PROVE  /\ DOMAIN general = 1..Len(general)
                    /\ \A j \in DOMAIN general : taken[general[j].entry].fits
  OBVIOUS
<1>1. DOMAIN general = 1..Len(general)
  BY DEF FilterInv, FilterTypes
<1>2. ASSUME NEW j \in DOMAIN general  PROVE taken[general[j].entry].fits
  <2>1. general[j].entry \in FirstOfEach(taken)
    BY DEF FilterInv, TakenBy
  <2>2. QED  BY <2>1 DEF FirstOfEach, Plays
<1>3. QED  BY <1>1, <1>2

LEMMA DeckInvGivesDeckOrNothing == DeckInv /\ FilterInv => DeckOrNothing
<1> SUFFICES ASSUME DeckInv, FilterInv  PROVE DeckOrNothing
  OBVIOUS
<1>1. /\ DeckTypes /\ CursorsInv /\ BatchesInv /\ StageInv /\ AnswersInv
      /\ cursors \in [Buckets -> Nat] /\ Dealt = Runs(NoneDealt, cursors)
      /\ DeckLength = Total(cursors) /\ NoneDealt \in [Buckets -> Nat]
  BY DEF DeckInv, CursorsInv, BatchesInv, NoneDealt
<1>2. Sizes \in [Buckets -> Nat]
  BY <1>1, SizesType
<1>3. Cardinality(Dealt) = DeckLength
  BY <1>1, RunsSize
<1>4. ASSUME NEW card \in Dealt
      PROVE  /\ card[1] \in Buckets /\ card[2] \in 1..Len(Bucket(card[1]))
             /\ card[2] <= Len(Bucket(card[1])) /\ Len(Bucket(card[1])) \in Nat
  <2>1. PICK k \in Buckets : card \in Run(k, NoneDealt[k], cursors[k])
    BY <1>1, <1>4 DEF Runs
  <2>2. PICK i \in NoneDealt[k] + 1..NoneDealt[k] + cursors[k] : card = <<k, i>>
    BY <2>1 DEF Run
  <2>3. card[1] = k /\ card[2] = i /\ 1 <= i /\ i <= cursors[k] /\ i \in Int
    BY <1>1, <2>2 DEF NoneDealt
  <2>4. cursors[k] <= Sizes[k] /\ cursors[k] \in Nat /\ Sizes[k] \in Nat
    BY <1>1, <1>2 DEF CursorsInv
  <2>5. Sizes[k] = Len(Bucket(k))
    BY DEF Sizes
  <2>6. QED  BY <2>3, <2>4, <2>5
<1>5. stage = "fill" => ~CanFill
  <2> SUFFICES ASSUME stage = "fill", DeckLength < maximum, cursors[General] < Len(general)
               PROVE  FALSE
    BY DEF CanFill
  <2>1. DeckLength \in Nat /\ maximum \in Nat
    BY <1>1, TotalAdds DEF DeckTypes
  <2>2. cursors = Sizes
    BY <1>1, <2>1 DEF StageInv
  <2>3. General \in Buckets /\ Sizes[General] = Len(general)
    BY DEF Sizes, Bucket, General, Buckets
  <2>4. cursors[General] \in Nat
    BY <1>1, <2>3
  <2>5. QED  BY <2>2, <2>3, <2>4
<1>6. stage = "ready" => DeckLength = maximum
  BY <1>1 DEF StageInv
<1>7. stage = "failed" => \/ ~IsInjective(Prompts) \/ ~AuthoredValid
                          \/ Len(Prompts) < maximum
  BY <1>1 DEF StageInv
<1>10. ASSUME stage = "ready", NEW card \in Dealt  PROVE IsValid(card)
  <2>1. CASE card[1] = General
    <3>1. card[2] \in DOMAIN general
      BY <1>4, <2>1, GeneralFits DEF Bucket
    <3>2. taken[general[card[2]].entry].fits
      BY <3>1, GeneralFits
    <3>3. QED  BY <2>1, <3>2 DEF IsValid
  <2>2. CASE card[1] # General
    <3>1. card[1] \in 1..3 /\ Bucket(card[1]) = authored[card[1]]
      BY <1>4, <2>2 DEF Buckets, General, Bucket
    <3>2. authored[card[1]] \in Seq(ToSet(authored[card[1]]))
      BY <1>1, <3>1 DEF DeckTypes
    <3>3. card[2] \in DOMAIN authored[card[1]]
      BY <1>4, <3>1, <3>2
    <3>4. AuthoredValid
      BY <1>1, <1>10 DEF StageInv
    <3>5. QED  BY <2>2, <3>1, <3>3, <3>4 DEF AuthoredValid, IsValid
  <2>3. QED  BY <2>1, <2>2
<1>8. stage = "ready" => options[correct] = "right" /\ ToSet(options) = ToSet(Answers)
  BY <1>1 DEF AnswersInv
<1>9. QED  BY <1>3, <1>4, <1>5, <1>6, <1>7, <1>8, <1>10 DEF DeckOrNothing

\* A round gets as many questions as were asked for and none of them twice, with
\* the right answer as the one that counts, or none for want of questions or for
\* an authored duplicate, and the loop that fills up has nothing to take
\* (build_deck, shuffle_answers): for every database, pattern and deck size.
THEOREM DeckIsWholeOrRefused == Spec => []DeckOrNothing
<1> QED  BY DeckAlways, FilterAlways, DeckInvGivesDeckOrNothing, PTL
-----------------------------------------------------------------------------
(***************************************************************************)
(* The panels.  NothingSkipped is not inductive: the size a line carries    *)
(* must be its width, and a word can only be broken again because what is   *)
(* left of it reaches to its end, that is, because only the first of the    *)
(* remaining pieces may start anywhere but at 1.                            *)
(***************************************************************************)
Names == UNION {{text[i].name : i \in DOMAIN text} : text \in Texts}

Parts == {x \in [name : Names, from : Nat \ {0}, upto : Nat \ {0}] : x.from <= x.upto}

Lines == [pieces : Seq(Parts), size : Nat]

PiecesOf(drawn) == [n \in DOMAIN drawn |-> drawn[n].pieces]

AllOf(drawn, line, rest) == FlattenSeq(PiecesOf(drawn)) \o line.pieces \o rest

PanelTypes ==
    /\ answers \in [1..AnswerPanels -> Texts \cup {<<>>}]
    /\ panel \in 1..AnswerPanels + 1
    /\ remaining \in Seq(Parts) /\ current \in Lines /\ lines \in Seq(Lines)
    /\ shown \in Seq(Seq(Lines))

WidthsInv ==
    /\ \A n \in DOMAIN lines : Width(lines[n]) <= ANSWER_LABEL_CHARS
    /\ Width(current) = current.size /\ current.size <= ANSWER_LABEL_CHARS
    /\ current.pieces = <<>> => current = EmptyLine
    /\ Len(lines) <= ANSWER_LABEL_LINES
    /\ \A p \in DOMAIN shown : Len(shown[p]) <= ANSWER_LABEL_LINES

TextInv ==
    /\ \A i \in 2..Len(remaining) : remaining[i].from = 1
    /\ Drawing => Made(AllOf(lines, current, remaining), answers[panel])

ShownInv ==
    /\ Len(shown) = panel - 1
    /\ \A p \in DOMAIN shown :
          Len(shown[p]) = ANSWER_LABEL_LINES \/ Made(Drawn(shown[p]), answers[p])

PanelsInv == PanelTypes /\ WidthsInv /\ TextInv /\ ShownInv

LEMMA ShownStays ==
    PanelsInv /\ UNCHANGED <<answers, panel, shown>> => ShownInv'
  BY DEF PanelsInv, ShownInv

LEMMA EmptyLineType == EmptyLine \in Lines /\ EmptyLine.pieces = <<>> /\ EmptyLine.size = 0
  BY DEF EmptyLine, Lines

LEMMA PartSize == ASSUME NEW x \in Parts  PROVE Size(x) \in Nat \ {0}
  BY DEF Parts, Size

\* The width of a line without pieces, and of one with one more.
LEMMA WidthOfNone == ASSUME NEW line, line.pieces = <<>>  PROVE Width(line) = 0
<1> DEFINE f == [i \in DOMAIN line.pieces |-> Size(line.pieces[i])]
<1>1. DOMAIN f = {}
  OBVIOUS
<1> HIDE DEF f
<1>2. SumFunction(f) = 0
  BY <1>1, SumOfNothing DEF SumFunction
<1> QED  BY <1>2 DEF Width, f

LEMMA WidthOfOneMore ==
    ASSUME NEW line, line.pieces \in Seq(Parts), NEW x \in Parts,
           NEW wider, wider.pieces = Append(line.pieces, x)
    PROVE  /\ Width(line) \in Int
           /\ Width(wider) = IF line.pieces = <<>> THEN Size(x)
                                                   ELSE Width(line) + 1 + Size(x)
<1> DEFINE ps == line.pieces
           qs == wider.pieces
           n == Len(ps)
           f == [i \in DOMAIN ps |-> Size(ps[i])]
           g == [i \in DOMAIN qs |-> Size(qs[i])]
<1>1. /\ n \in Nat /\ DOMAIN ps = 1..n /\ DOMAIN qs = 1..n+1 /\ Len(qs) = n + 1
      /\ qs # <<>> /\ qs[n + 1] = x /\ (ps = <<>> <=> n = 0)
      /\ \A i \in 1..n : ps[i] \in Parts /\ qs[i] = ps[i]
  OBVIOUS
<1> HIDE DEF ps, qs, n
<1>2. /\ DOMAIN f = 1..n /\ DOMAIN g = 1..n+1 /\ g[n + 1] = Size(x)
      /\ \A i \in 1..n : f[i] \in Int /\ g[i] = f[i]
  BY <1>1, PartSize
<1>3. Size(x) \in Int
  BY PartSize
<1> HIDE DEF f, g
<1>4. SumFunction(f) \in Int /\ SumFunction(g) = SumFunction(f) + Size(x)
  <2>1. g[n + 1] \in Int
    BY <1>2, <1>3
  <2>2. SumFunction(f) \in Int /\ SumFunction(g) = SumFunction(f) + g[n + 1]
    BY <1>1, <1>2, <2>1, SumOfOneMore, Zenon
  <2> QED  BY <1>2, <2>2
<1>5. Width(line) = SumFunction(f) + (IF ps = <<>> THEN 0 ELSE n - 1)
  BY Zenon DEF Width, f, ps, n
<1>6. Width(wider) = SumFunction(g) + n
  <2>1. Width(wider) = SumFunction(g) + (IF qs = <<>> THEN 0 ELSE Len(qs) - 1)
    BY Zenon DEF Width, g, qs
  <2>2. Len(qs) - 1 = n
    BY <1>1
  <2> QED  BY <1>1, <2>1, <2>2, Zenon
<1>7. ps = <<>> => Width(line) = 0
  BY WidthOfNone DEF ps
<1> QED  BY <1>1, <1>3, <1>4, <1>5, <1>6, <1>7 DEF ps

\* What is drawn, when a line is added to it.
LEMMA AllOfOneMore ==
    ASSUME NEW drawn \in Seq(Lines), NEW line \in Lines
    PROVE  /\ FlattenSeq(PiecesOf(drawn)) \in Seq(Parts)
           /\ FlattenSeq(PiecesOf(Append(drawn, line))) =
                 FlattenSeq(PiecesOf(drawn)) \o line.pieces
<1>1. /\ PiecesOf(drawn) \in Seq(Seq(Parts)) /\ line.pieces \in Seq(Parts)
      /\ PiecesOf(Append(drawn, line)) = Append(PiecesOf(drawn), line.pieces)
  <2> DEFINE more == Append(drawn, line)
             n == Len(drawn)
             s == PiecesOf(drawn)
             t == Append(s, line.pieces)
  <2>1. /\ n \in Nat /\ DOMAIN drawn = 1..n /\ DOMAIN more = 1..n+1 /\ more[n + 1] = line
        /\ \A i \in 1..n : more[i] = drawn[i] /\ drawn[i] \in Lines
    OBVIOUS
  <2>2. \A l \in Lines : l.pieces \in Seq(Parts)
    BY DEF Lines
  <2> HIDE DEF n, more
  <2>3. s \in [1..n -> Seq(Parts)]
    BY <2>1, <2>2 DEF PiecesOf
  <2>4. s \in Seq(Seq(Parts)) /\ Len(s) = n
    BY <2>1, <2>3
  <2> HIDE DEF s
  <2>5. /\ DOMAIN t = 1..n+1 /\ t[n + 1] = line.pieces /\ \A i \in 1..n : t[i] = s[i]
        /\ t \in Seq(Seq(Parts))
    BY <2>2, <2>4
  <2>6. \A i \in 1..n : s[i] = drawn[i].pieces
    BY <2>1 DEF s, PiecesOf
  <2> HIDE DEF t
  <2>7. \A i \in 1..n+1 : t[i] = more[i].pieces
    <3> TAKE i \in 1..n+1
    <3>1. i \in 1..n \/ i = n + 1
      BY <2>1
    <3> QED  BY <2>1, <2>5, <2>6, <3>1
  <2>8. PiecesOf(more) = t
    BY <2>1, <2>5, <2>7 DEF PiecesOf
  <2> QED  BY <2>2, <2>4, <2>8 DEF s, t, more
<1> QED  BY <1>1, FlattenOneMore

LEMMA NothingDrawn == FlattenSeq(PiecesOf(<<>>)) = <<>>
<1>1. PiecesOf(<<>>) = <<>> /\ Len(<<>>) = 0
  BY DEF PiecesOf
<1> QED  BY <1>1, Zenon DEF FlattenSeq

\* What is drawn and what remains are parts of words.
LEMMA AllOfParts ==
    ASSUME NEW drawn \in Seq(Lines), NEW line \in Lines, NEW rest \in Seq(Parts)
    PROVE  AllOf(drawn, line, rest) \in Seq(Parts)
<1>1. FlattenSeq(PiecesOf(drawn)) \in Seq(Parts) /\ line.pieces \in Seq(Parts)
  BY AllOfOneMore DEF Lines
<1> QED  BY <1>1, ConcatProperties DEF AllOf

\* A finished line takes its pieces along.
LEMMA LineMoves ==
    ASSUME NEW drawn \in Seq(Lines), NEW line \in Lines, NEW rest \in Seq(Parts)
    PROVE  AllOf(Append(drawn, line), EmptyLine, rest) = AllOf(drawn, line, rest)
<1> DEFINE f == FlattenSeq(PiecesOf(drawn))
<1>1. /\ f \in Seq(Parts) /\ line.pieces \in Seq(Parts)
      /\ FlattenSeq(PiecesOf(Append(drawn, line))) = f \o line.pieces
  BY AllOfOneMore DEF Lines
<1> HIDE DEF f
<1>2. f \o line.pieces \in Seq(Parts)
  BY <1>1, ConcatProperties
<1>3. (f \o line.pieces) \o <<>> = f \o line.pieces
  BY <1>2, ConcatEmptySeq
<1> QED  BY <1>1, <1>3, EmptyLineType, Zenon DEF AllOf, f

\* When nothing remains, what is drawn is all there is.
LEMMA AllDrawn ==
    ASSUME NEW drawn \in Seq(Lines)
    PROVE  AllOf(drawn, EmptyLine, <<>>) = Drawn(drawn)
<1> DEFINE f == FlattenSeq(PiecesOf(drawn))
<1>1. f \in Seq(Parts)
  BY AllOfOneMore, EmptyLineType
<1>2. f = Drawn(drawn)
  BY DEF Drawn, PiecesOf
<1> HIDE DEF f
<1>3. f \o <<>> = f
  BY <1>1, ConcatEmptySeq
<1> QED  BY <1>2, <1>3, EmptyLineType, Zenon DEF AllOf, f

LEMMA PartsRegroup ==
    ASSUME NEW a \in Seq(Parts), NEW b \in Seq(Parts), NEW c \in Seq(Parts)
    PROVE  (a \o b) \o c = a \o (b \o c)
<1> DEFINE S == Parts
<1>1. a \in Seq(S) /\ b \in Seq(S) /\ c \in Seq(S)
  OBVIOUS
<1> HIDE DEF S
<1> QED  BY <1>1, ConcatAssociative

\* So does the next piece when it is placed.
LEMMA PieceMoves ==
    ASSUME NEW drawn \in Seq(Lines), NEW line \in Lines,
           NEW rest \in Seq(Parts), rest # <<>>,
           NEW wider, wider.pieces = Append(line.pieces, Head(rest))
    PROVE  AllOf(drawn, wider, Tail(rest)) = AllOf(drawn, line, rest)
<1> DEFINE f == FlattenSeq(PiecesOf(drawn))
           c == line.pieces
           d == Append(c, Head(rest))
<1>1. f \in Seq(Parts) /\ c \in Seq(Parts)
  BY AllOfOneMore DEF Lines
<1> HIDE DEF f, c
<1>2. Head(rest) \in Parts /\ Tail(rest) \in Seq(Parts) /\ d \in Seq(Parts)
  BY <1>1, HeadTailProperties, AppendProperties
<1>3. d \o Tail(rest) = c \o rest
  BY <1>1, MoveFirst
<1> HIDE DEF d
<1>4. (f \o d) \o Tail(rest) = f \o (d \o Tail(rest))
  <2> DEFINE r == Tail(rest)
  <2>1. f \in Seq(Parts) /\ d \in Seq(Parts) /\ r \in Seq(Parts)
    BY <1>1, <1>2
  <2> HIDE DEF r
  <2>2. (f \o d) \o r = f \o (d \o r)
    BY <2>1, PartsRegroup, Zenon
  <2> QED  BY <2>2 DEF r
<1>5. (f \o c) \o rest = f \o (c \o rest)
  BY <1>1, PartsRegroup
<1> QED  BY <1>3, <1>4, <1>5, Zenon DEF AllOf, f, c, d

\* The text of an answer has words, each with its characters.
LEMMA TextType ==
    ASSUME NEW text \in Texts \cup {<<>>}
    PROVE  /\ Len(text) \in Nat /\ DOMAIN text = 1..Len(text)
           /\ \A i \in DOMAIN text : text[i].size \in Nat \ {0} /\ text[i].name \in Names
<1>1. CASE text = <<>>
  BY <1>1
<1>2. CASE text \in Texts
  <2>1. text \in Seq(ToSet(text)) /\ \A i \in DOMAIN text : text[i].size \in Nat \ {0}
    BY <1>2, PanelsAssumption
  <2>2. \A i \in DOMAIN text : text[i].name \in Names
    BY <1>2 DEF Names
  <2>3. Len(text) \in Nat /\ DOMAIN text = 1..Len(text)
    BY <2>1
  <2> QED  BY <2>1, <2>2, <2>3
<1> QED  BY <1>1, <1>2

\* The words of a text make it.
LEMMA WholeText ==
    ASSUME NEW text \in Texts \cup {<<>>}
    PROVE  /\ Pieces(text) \in Seq(Parts)
           /\ \A i \in 2..Len(Pieces(text)) : Pieces(text)[i].from = 1
           /\ Made(Pieces(text), text)
<1> DEFINE n == Len(text)
           ps == Pieces(text)
           of == [i \in DOMAIN ps |-> i]
<1>1. /\ n \in Nat /\ DOMAIN text = 1..n
      /\ \A i \in 1..n : text[i].size \in Nat \ {0} /\ text[i].name \in Names
  BY TextType
<1> HIDE DEF n
<1>2. /\ DOMAIN ps = 1..n
      /\ \A i \in 1..n : /\ ps[i] = Whole(text[i])
                         /\ ps[i].name = text[i].name /\ ps[i].from = 1
                         /\ ps[i].upto = text[i].size
  BY <1>1 DEF Pieces, Whole
<1>3. \A i \in 1..n : Whole(text[i]) \in Parts
  BY <1>1 DEF Whole, Parts
<1>4. ps \in [1..n -> Parts]
  BY <1>1, <1>3 DEF Pieces
<1> HIDE DEF ps
<1>5. ps \in Seq(Parts) /\ Len(ps) = n
  BY <1>1, <1>4
<1>6. of \in [DOMAIN ps -> DOMAIN text] /\ \A i \in 1..n : of[i] = i
  BY <1>1, <1>2
<1>7. {of[i] : i \in DOMAIN ps} = DOMAIN text
  BY <1>1, <1>2
<1> HIDE DEF of
<1>8. ASSUME NEW i \in 1..n  PROVE of[i] = IF i = 1 THEN 1 ELSE of[i - 1] + 1
  <2>1. i # 1 => i - 1 \in 1..n
    BY <1>1
  <2> QED  BY <1>1, <1>6, <2>1
<1>9. Makes(ps, of, text)
  BY <1>2, <1>5, <1>6, <1>7, <1>8 DEF Makes
<1>10. \A i \in 2..Len(ps) : ps[i].from = 1
  BY <1>1, <1>2, <1>5
<1> QED  BY <1>5, <1>6, <1>9, <1>10 DEF Made, ps

\* A word that is broken goes on in the next piece.
LEMMA BreakMakes ==
    ASSUME NEW text \in Texts \cup {<<>>}, NEW s \in Seq(Parts), NEW u \in Seq(Parts),
           Made(s, text), Len(u) = Len(s) + 1, NEW p \in 1..Len(s),
           \A i \in 1..p - 1 : u[i] = s[i],
           \A i \in p + 2..Len(s) + 1 : u[i] = s[i - 1],
           \A i \in p + 1..Len(s) : s[i].from = 1,
           Size(s[p]) > ANSWER_LABEL_CHARS,
           u[p].name = s[p].name, u[p].from = s[p].from,
           u[p + 1].name = s[p].name, u[p + 1].upto = s[p].upto,
           u[p + 1].from = u[p].upto + 1, u[p + 1].from > 1
    PROVE  Made(u, text)
<1> DEFINE n == Len(s)
<1>1. /\ n \in Nat /\ p \in Nat /\ p >= 1 /\ p <= n
      /\ DOMAIN s = 1..n /\ DOMAIN u = 1..n+1 /\ Len(s) = n /\ Len(u) = n + 1
  OBVIOUS
<1>0. n \in Nat /\ p \in Nat /\ p >= 1 /\ p <= n
  BY <1>1
<1>2. \A i \in 1..n : s[i] \in Parts
  OBVIOUS
<1>3. \A x \in Parts : x.from \in Nat \ {0} /\ x.upto \in Nat \ {0} /\ Size(x) = x.upto - x.from + 1
  BY DEF Parts, Size
<1>4. PICK of \in [DOMAIN s -> DOMAIN text] : Makes(s, of, text)
  BY DEF Made
<1> HIDE DEF n
<1> DEFINE Owns(i) ==
        /\ s[i].name = text[of[i]].name
        /\ s[i].from = 1 => of[i] = IF i = 1 THEN 1 ELSE of[i - 1] + 1
        /\ s[i].from # 1 => /\ i > 1 /\ of[i] = of[i - 1]
                            /\ s[i].from = s[i - 1].upto + 1
                            /\ text[of[i]].size > ANSWER_LABEL_CHARS
        /\ i = n \/ s[i + 1].from = 1 => s[i].upto = text[of[i]].size
<1>5. (\A i \in 1..n : Owns(i)) /\ {of[i] : i \in 1..n} = DOMAIN text
  BY <1>1, <1>4, Zenon DEF Makes
<1>6. /\ Len(text) \in Nat /\ DOMAIN text = 1..Len(text)
      /\ \A i \in DOMAIN text : text[i].size \in Nat \ {0}
  BY TextType
<1>7. \A i \in 1..n : of[i] \in DOMAIN text /\ of[i] \in Nat
  BY <1>1, <1>4, <1>6
<1>8. s[p].upto = text[of[p]].size
  <2>1. p = n \/ (p + 1 \in p + 1..n)
    BY <1>1
  <2> QED  BY <1>1, <1>5, <2>1
<1>9. text[of[p]].size > ANSWER_LABEL_CHARS
  <2>1. /\ s[p].from \in Nat \ {0} /\ s[p].upto \in Nat
        /\ s[p].upto - s[p].from + 1 > ANSWER_LABEL_CHARS
    BY <1>1, <1>2, <1>3
  <2>2. ANSWER_LABEL_CHARS \in Nat
    BY PanelsAssumption
  <2>3. s[p].upto > ANSWER_LABEL_CHARS
    BY <2>1, <2>2
  <2> QED  BY <1>8, <2>3
<1> DEFINE to == [i \in 1..n+1 |-> IF i <= p THEN of[i] ELSE of[i - 1]]
<1>10. /\ \A i \in 1..p : to[i] = of[i] /\ i \in 1..n
       /\ \A i \in p + 1..n + 1 : to[i] = of[i - 1] /\ i - 1 \in 1..n
       /\ DOMAIN to = 1..n+1
  BY <1>1
<1>11. \A i \in 1..n+1 : to[i] \in DOMAIN text
  BY <1>1, <1>7, <1>10
<1>12. to \in [DOMAIN u -> DOMAIN text]
  BY <1>1, <1>11
<1> HIDE DEF to
<1>13. {to[i] : i \in DOMAIN u} = DOMAIN text
  <2>1. ASSUME NEW w \in DOMAIN text  PROVE \E i \in 1..n+1 : to[i] = w
    <3>1. PICK i \in 1..n : of[i] = w
      BY <1>5
    <3>2. CASE i <= p
      <4>1. i \in 1..p /\ i \in 1..n+1
        BY <1>1, <3>2
      <4> QED  BY <1>10, <3>1, <4>1
    <3>3. CASE i > p
      <4>1. i + 1 \in p + 1..n + 1 /\ i + 1 \in 1..n+1 /\ (i + 1) - 1 = i
        BY <1>1, <3>3
      <4>2. to[i + 1] = of[i]
        BY <1>10, <4>1
      <4> QED  BY <3>1, <4>1, <4>2
    <3> QED  BY <1>1, <3>2, <3>3
  <2> QED  BY <1>1, <1>11, <2>1
<1> DEFINE Fits(i) ==
        /\ u[i].name = text[to[i]].name
        /\ IF u[i].from = 1
           THEN to[i] = IF i = 1 THEN 1 ELSE to[i - 1] + 1
           ELSE /\ i > 1 /\ to[i] = to[i - 1]
                /\ u[i].from = u[i - 1].upto + 1
                /\ text[to[i]].size > ANSWER_LABEL_CHARS
        /\ i = n + 1 \/ u[i + 1].from = 1 => u[i].upto = text[to[i]].size
<1>14. ASSUME NEW i \in 1..p  PROVE u[i].name = s[i].name /\ u[i].from = s[i].from
  BY <1>1
<1>15. ASSUME NEW i \in 1..p - 1  PROVE Fits(i)
  <2>1. /\ i \in 1..p /\ i + 1 \in 1..p /\ i \in 1..n /\ i # n /\ i # n + 1
        /\ i # 1 => i - 1 \in 1..p - 1 /\ i - 1 \in 1..p
    BY <1>0
  <2>2. Owns(i)
    BY <1>5, <2>1, Zenon
  <2>3. i > 1 => i # 1
    BY <1>0
  <2> HIDE DEF Owns
  <2>4. /\ u[i] = s[i] /\ u[i + 1].from = s[i + 1].from /\ to[i] = of[i]
        /\ i # 1 => u[i - 1] = s[i - 1] /\ to[i - 1] = of[i - 1]
    BY <1>10, <1>14, <2>1
  <2>5. u[i].name = text[to[i]].name
    BY <2>2, <2>4, Zenon DEF Owns
  <2>6. u[i].from = 1 => to[i] = IF i = 1 THEN 1 ELSE to[i - 1] + 1
    BY <2>2, <2>4, Zenon DEF Owns
  <2>7. u[i].from # 1 => /\ i > 1 /\ to[i] = to[i - 1]
                         /\ u[i].from = u[i - 1].upto + 1
                         /\ text[to[i]].size > ANSWER_LABEL_CHARS
    BY <2>2, <2>3, <2>4, Zenon DEF Owns
  <2>8. i = n + 1 \/ u[i + 1].from = 1 => u[i].upto = text[to[i]].size
    BY <2>1, <2>2, <2>4, Zenon DEF Owns
  <2> QED  BY <2>5, <2>6, <2>7, <2>8, Zenon
<1>16. Fits(p)
  <2>1. /\ p \in 1..p /\ p \in 1..n /\ p # n + 1
        /\ p # 1 => p - 1 \in 1..p - 1 /\ p - 1 \in 1..p
    BY <1>0
  <2>2. Owns(p)
    BY <1>5, <2>1, Zenon
  <2>3. p > 1 => p # 1
    BY <1>0
  <2> HIDE DEF Owns
  <2>4. /\ u[p].name = s[p].name /\ u[p].from = s[p].from /\ to[p] = of[p]
        /\ p # 1 => u[p - 1] = s[p - 1] /\ to[p - 1] = of[p - 1]
    BY <1>10, <1>14, <2>1
  <2>5. u[p + 1].from # 1
    OBVIOUS
  <2>6. u[p].name = text[to[p]].name
    BY <2>2, <2>4, Zenon DEF Owns
  <2>7. u[p].from = 1 => to[p] = IF p = 1 THEN 1 ELSE to[p - 1] + 1
    BY <2>2, <2>4, Zenon DEF Owns
  <2>8. u[p].from # 1 => /\ p > 1 /\ to[p] = to[p - 1]
                         /\ u[p].from = u[p - 1].upto + 1
                         /\ text[to[p]].size > ANSWER_LABEL_CHARS
    BY <2>2, <2>3, <2>4, Zenon DEF Owns
  <2> QED  BY <2>1, <2>5, <2>6, <2>7, <2>8, Zenon
<1>17. Fits(p + 1)
  <2>1. /\ p \in 1..p /\ p \in 1..n /\ p + 1 \in p + 1..n + 1 /\ (p + 1) - 1 = p /\ p + 1 > 1
    BY <1>0
  <2>2. to[p + 1] = of[p] /\ to[p] = of[p]
    BY <1>10, <2>1
  <2>3. s[p].name = text[of[p]].name
    BY <1>5, <2>1
  <2> QED  BY <1>8, <1>9, <2>1, <2>2, <2>3
<1>18. ASSUME NEW i \in p + 2..n + 1  PROVE Fits(i)
  <2> DEFINE j == i - 1
  <2>1. /\ j \in 1..n /\ j \in p + 1..n /\ i \in p + 1..n + 1 /\ i # 1 /\ j # 1 /\ i \in Nat
        /\ j \in p + 1..n + 1 /\ j - 1 \in 1..n /\ i - 1 = j /\ i + 1 \in Nat
        /\ (i + 1) - 1 = j + 1 /\ (i = n + 1 <=> j = n)
        /\ i # n + 1 => i + 1 \in p + 2..n + 1
    <3>1. i \in Int /\ p + 2 <= i /\ i <= n + 1
      BY <1>0
    <3>2. i \in Nat /\ j \in Nat /\ i = j + 1 /\ p + 1 <= j /\ j <= n
      BY <1>0, <3>1
    <3>3. i # 1 /\ j # 1 /\ i - 1 = j /\ i + 1 \in Nat /\ (i + 1) - 1 = j + 1
      BY <1>0, <3>2
    <3>4. (i = n + 1 <=> j = n) /\ j \in 1..n /\ j - 1 \in 1..n
      BY <1>0, <3>2
    <3>5. j \in p + 1..n /\ j \in p + 1..n + 1 /\ i \in p + 1..n + 1
      BY <1>0, <3>2
    <3>6. i # n + 1 => i + 1 \in p + 2..n + 1
      BY <1>0, <3>2
    <3> QED  BY <3>2, <3>3, <3>4, <3>5, <3>6, Zenon
  <2>2. /\ to[i] = of[j] /\ to[j] = of[j - 1] /\ u[i] = s[j]
    BY <1>1, <1>10, <2>1
  <2>3. i # n + 1 => u[i + 1] = s[j + 1]
    BY <1>1, <2>1
  <2>4. s[j].from = 1
    BY <1>1, <2>1
  <2> HIDE DEF j
  <2>5. of[j] = of[j - 1] + 1 /\ s[j].name = text[of[j]].name
    BY <1>5, <2>1, <2>4
  <2>6. j = n \/ s[j + 1].from = 1 => s[j].upto = text[of[j]].size
    BY <1>5, <2>1
  <2> QED  BY <2>1, <2>2, <2>3, <2>4, <2>5, <2>6
<1>19. \A i \in 1..n+1 : Fits(i)
  <2> TAKE i \in 1..n+1
  <2>1. i \in 1..p - 1 \/ i = p \/ i = p + 1 \/ i \in p + 2..n + 1
    BY <1>1
  <2> HIDE DEF Fits
  <2> QED  BY <1>15, <1>16, <1>17, <1>18, <2>1
<1>20. Makes(u, to, text)
  BY <1>1, <1>13, <1>19, Zenon DEF Makes
<1> QED  BY <1>12, <1>20 DEF Made

LEMMA PanelsInitially == Init => PanelsInv
<1> SUFFICES ASSUME Init  PROVE PanelsInv
  OBVIOUS
<1>1. /\ answers \in [1..AnswerPanels -> Texts \cup {<<>>}] /\ panel = 1
      /\ remaining = Pieces(answers[1]) /\ current = EmptyLine
      /\ lines = <<>> /\ shown = <<>>
  BY DEF Init, NoPanels, PanelsInit, PanelsFrom
<1>2. AnswerPanels \in Nat \ {0} /\ 1 \in 1..AnswerPanels
      /\ ANSWER_LABEL_CHARS \in Nat /\ ANSWER_LABEL_LINES \in Nat
  BY PanelsAssumption
<1>3. /\ remaining \in Seq(Parts)
      /\ \A i \in 2..Len(remaining) : remaining[i].from = 1
      /\ Made(remaining, answers[1])
  BY <1>1, <1>2, WholeText
<1>4. PanelTypes
  BY <1>1, <1>2, <1>3, EmptyLineType DEF PanelTypes
<1>5. WidthsInv
  <2>1. Width(EmptyLine) = 0
    BY EmptyLineType, WidthOfNone
  <2>2. /\ Len(lines) = 0 /\ DOMAIN lines = {} /\ DOMAIN shown = {}
    BY <1>1
  <2> QED  BY <1>1, <1>2, <2>1, <2>2, EmptyLineType DEF WidthsInv
<1>6. AllOf(lines, current, remaining) = remaining
  <2>1. <<>> \in Seq(Parts)
    OBVIOUS
  <2>2. <<>> \o <<>> = <<>> /\ <<>> \o remaining = remaining
    BY <1>3, <2>1, ConcatEmptySeq
  <2> QED  BY <1>1, <2>2, NothingDrawn, EmptyLineType, Zenon DEF AllOf
<1>7. TextInv
  BY <1>1, <1>3, <1>6 DEF TextInv
<1>8. ShownInv
  <2>1. Len(shown) = 0 /\ DOMAIN shown = {}
    BY <1>1
  <2> QED  BY <1>1, <2>1 DEF ShownInv
<1> QED  BY <1>4, <1>5, <1>7, <1>8 DEF PanelsInv

\* A line that is full, or the last one, is finished.
LEMMA LineKeepsPanels ==
    PanelsInv /\ (EndLine \/ LastLine) => PanelsInv'
<1> SUFFICES ASSUME PanelsInv, EndLine \/ LastLine  PROVE PanelsInv'
  OBVIOUS
<1>1. /\ lines' = Append(lines, current) /\ current' = EmptyLine
      /\ UNCHANGED <<answers, panel, remaining, shown>>
      /\ Drawing /\ Len(lines) # ANSWER_LABEL_LINES
  BY DEF EndLine, LastLine, Wrapped
<1>2. /\ answers \in [1..AnswerPanels -> Texts \cup {<<>>}]
      /\ remaining \in Seq(Parts) /\ current \in Lines /\ lines \in Seq(Lines)
      /\ shown \in Seq(Seq(Lines)) /\ panel \in 1..AnswerPanels + 1
  BY DEF PanelsInv, PanelTypes
<1>3. ANSWER_LABEL_CHARS \in Nat /\ ANSWER_LABEL_LINES \in Nat
  BY PanelsAssumption
<1>4. /\ Len(lines) \in Nat /\ DOMAIN lines = 1..Len(lines)
      /\ lines' \in Seq(Lines) /\ Len(lines') = Len(lines) + 1
      /\ DOMAIN lines' = 1..Len(lines) + 1 /\ lines'[Len(lines) + 1] = current
      /\ \A n \in 1..Len(lines) : lines'[n] = lines[n]
  BY <1>1, <1>2
<1>5. PanelTypes'
  BY <1>1, <1>2, <1>4, EmptyLineType DEF PanelTypes
<1>6. WidthsInv'
  <2>1. Width(EmptyLine) = 0
    BY EmptyLineType, WidthOfNone
  <2>2. \A n \in 1..Len(lines) : Width(lines[n]) <= ANSWER_LABEL_CHARS
    BY <1>4 DEF PanelsInv, WidthsInv
  <2>3. Width(current) <= ANSWER_LABEL_CHARS
    BY DEF PanelsInv, WidthsInv
  <2>4. ASSUME NEW n \in 1..Len(lines) + 1  PROVE Width(lines'[n]) <= ANSWER_LABEL_CHARS
    <3>1. CASE n \in 1..Len(lines)
      <4>1. lines'[n] = lines[n]
        BY <1>4, <3>1
      <4> QED  BY <2>2, <3>1, <4>1
    <3>2. CASE n = Len(lines) + 1
      BY <1>4, <2>3, <3>2
    <3> QED  BY <1>4, <3>1, <3>2
  <2>5. Len(lines) + 1 <= ANSWER_LABEL_LINES
    <3>1. Len(lines) <= ANSWER_LABEL_LINES /\ Len(lines) \in Nat
      BY <1>4 DEF PanelsInv, WidthsInv
    <3>2. Len(lines) # ANSWER_LABEL_LINES
      BY <1>1
    <3> QED  BY <1>3, <3>1, <3>2
  <2>6. \A p \in DOMAIN shown : Len(shown[p]) <= ANSWER_LABEL_LINES
    BY DEF PanelsInv, WidthsInv
  <2>7. /\ \A n \in DOMAIN lines' : Width(lines'[n]) <= ANSWER_LABEL_CHARS
        /\ Len(lines') <= ANSWER_LABEL_LINES
    BY <1>4, <2>4, <2>5
  <2>8. /\ Width(current') = current'.size /\ current'.size <= ANSWER_LABEL_CHARS
        /\ current'.pieces = <<>> => current' = EmptyLine
    BY <1>1, <1>3, <2>1, EmptyLineType
  <2> QED  BY <1>1, <2>6, <2>7, <2>8 DEF WidthsInv
<1>7. AllOf(lines', current', remaining') = AllOf(lines, current, remaining)
  BY <1>1, <1>2, LineMoves
<1>8. TextInv'
  BY <1>1, <1>7 DEF PanelsInv, TextInv, Drawing
<1>9. ShownInv'
  BY <1>1, ShownStays
<1> QED  BY <1>5, <1>6, <1>8, <1>9 DEF PanelsInv

\* Needed is the width of the line with the next piece on it.
LEMMA PlaceKeepsPanels == PanelsInv /\ PlaceWord => PanelsInv'
<1> SUFFICES ASSUME PanelsInv, PlaceWord  PROVE PanelsInv'
  OBVIOUS
<1> DEFINE x == Head(remaining)
<1>1. /\ remaining # <<>> /\ Drawing /\ Needed <= ANSWER_LABEL_CHARS
      /\ current' = [pieces |-> Append(current.pieces, x), size |-> Needed]
      /\ remaining' = Tail(remaining)
      /\ UNCHANGED <<answers, panel, lines, shown>>
  BY DEF PlaceWord
<1>2. /\ answers \in [1..AnswerPanels -> Texts \cup {<<>>}]
      /\ remaining \in Seq(Parts) /\ current \in Lines /\ lines \in Seq(Lines)
      /\ shown \in Seq(Seq(Lines)) /\ panel \in 1..AnswerPanels + 1
  BY DEF PanelsInv, PanelTypes
<1>3. /\ x \in Parts /\ remaining' \in Seq(Parts) /\ Len(remaining) \in Nat
      /\ Len(remaining') = Len(remaining) - 1
      /\ \A i \in 1..Len(remaining) - 1 : remaining'[i] = remaining[i + 1]
  BY <1>1, <1>2
<1>4. current.pieces \in Seq(Parts) /\ current.size \in Nat
  BY <1>2 DEF Lines
<1>5. /\ Width(current) = current.size /\ current.size <= ANSWER_LABEL_CHARS
      /\ current.pieces = <<>> <=> current = EmptyLine
  BY EmptyLineType DEF PanelsInv, WidthsInv
<1>6. /\ Size(x) \in Nat
      /\ Needed = IF current.pieces = <<>> THEN Size(x) ELSE current.size + 1 + Size(x)
  BY <1>3, <1>5, PartSize DEF Needed
<1> HIDE DEF x
<1>7. /\ Append(current.pieces, x) \in Seq(Parts) /\ Append(current.pieces, x) # <<>>
  BY <1>3, <1>4, AppendProperties
<1>8. Needed \in Nat
  BY <1>4, <1>6
<1>9. /\ current' \in Lines /\ current'.pieces = Append(current.pieces, x)
      /\ current'.size = Needed
  BY <1>1, <1>7, <1>8 DEF Lines
<1>10. Width(current') = Needed
  <2>1. Width(current') = IF current.pieces = <<>> THEN Size(x)
                                                   ELSE Width(current) + 1 + Size(x)
    BY <1>3, <1>4, <1>9, WidthOfOneMore
  <2> QED  BY <1>5, <1>6, <2>1
<1>11. PanelTypes'
  BY <1>1, <1>2, <1>3, <1>9 DEF PanelTypes
<1>12. WidthsInv'
  BY <1>1, <1>7, <1>9, <1>10 DEF PanelsInv, WidthsInv
<1>13. AllOf(lines', current', remaining') = AllOf(lines, current, remaining)
  BY <1>1, <1>2, <1>9, PieceMoves DEF x
<1>14. ASSUME NEW i \in 2..Len(remaining')  PROVE remaining'[i].from = 1
  <2>1. i \in 1..Len(remaining) - 1 /\ i + 1 \in 2..Len(remaining)
    BY <1>3
  <2>2. remaining[i + 1].from = 1
    BY <2>1 DEF PanelsInv, TextInv
  <2> QED  BY <1>3, <2>1, <2>2
<1>15. TextInv'
  BY <1>1, <1>13, <1>14 DEF PanelsInv, TextInv, Drawing
<1>16. ShownInv'
  BY <1>1, ShownStays
<1> QED  BY <1>11, <1>12, <1>15, <1>16 DEF PanelsInv

\* The first part fills a line, the second is what remains of the word.
LEMMA BreakKeepsPanels == PanelsInv /\ BreakWord => PanelsInv'
<1> SUFFICES ASSUME PanelsInv, BreakWord  PROVE PanelsInv'
  OBVIOUS
<1> DEFINE x == Head(remaining)
           a == [x EXCEPT !.upto = x.from + ANSWER_LABEL_CHARS - 1]
           b == [x EXCEPT !.from = a.upto + 1]
           full == [pieces |-> <<a>>, size |-> ANSWER_LABEL_CHARS]
           r == Tail(remaining)
           f == FlattenSeq(PiecesOf(lines))
<1>1. /\ remaining # <<>> /\ Drawing /\ Len(lines) # ANSWER_LABEL_LINES
      /\ current = EmptyLine /\ Size(x) > ANSWER_LABEL_CHARS
      /\ lines' = Append(lines, full) /\ remaining' = <<b>> \o r
      /\ UNCHANGED <<answers, panel, current, shown>>
  BY DEF BreakWord, Wrapped
<1>2. /\ answers \in [1..AnswerPanels -> Texts \cup {<<>>}]
      /\ remaining \in Seq(Parts) /\ current \in Lines /\ lines \in Seq(Lines)
      /\ shown \in Seq(Seq(Lines)) /\ panel \in 1..AnswerPanels + 1
  BY DEF PanelsInv, PanelTypes
<1>3. ANSWER_LABEL_CHARS \in Nat \ {0} /\ ANSWER_LABEL_LINES \in Nat
  BY PanelsAssumption
<1>4. x \in Parts /\ r \in Seq(Parts) /\ Len(r) = Len(remaining) - 1
      /\ Len(remaining) \in Nat \ {0}
  BY <1>1, <1>2
<1> HIDE DEF x, r
<1>5. /\ a \in Parts /\ b \in Parts /\ Size(a) = ANSWER_LABEL_CHARS
      /\ a.name = x.name /\ a.from = x.from /\ b.name = x.name /\ b.upto = x.upto
      /\ b.from = a.upto + 1 /\ b.from > 1
  <2>1. /\ x \in [name : Names, from : Nat \ {0}, upto : Nat \ {0}]
        /\ x.from \in Nat \ {0} /\ x.upto \in Nat \ {0}
        /\ x.upto - x.from + 1 > ANSWER_LABEL_CHARS
    BY <1>1, <1>4 DEF Parts, Size
  <2>2. /\ x.from + ANSWER_LABEL_CHARS - 1 \in Nat \ {0}
        /\ x.from <= x.from + ANSWER_LABEL_CHARS - 1
        /\ (x.from + ANSWER_LABEL_CHARS - 1) + 1 \in Nat \ {0}
        /\ (x.from + ANSWER_LABEL_CHARS - 1) + 1 <= x.upto
        /\ (x.from + ANSWER_LABEL_CHARS - 1) + 1 > 1
        /\ (x.from + ANSWER_LABEL_CHARS - 1) - x.from + 1 = ANSWER_LABEL_CHARS
    BY <1>3, <2>1
  <2> DEFINE m == x.from + ANSWER_LABEL_CHARS - 1
  <2> HIDE DEF m
  <2>3. /\ a.name = x.name /\ a.from = x.from /\ a.upto = m
        /\ a \in [name : Names, from : Nat \ {0}, upto : Nat \ {0}]
    BY <2>1, <2>2 DEF m
  <2>4. b.name = x.name /\ b.from = m + 1 /\ b.upto = x.upto
        /\ b \in [name : Names, from : Nat \ {0}, upto : Nat \ {0}]
    BY <2>1, <2>2, <2>3 DEF m
  <2> HIDE DEF a, b
  <2> QED  BY <2>1, <2>2, <2>3, <2>4 DEF m, Parts, Size
<1> HIDE DEF a, b
<1>6. /\ full \in Lines /\ full.pieces = <<a>> /\ full.size = ANSWER_LABEL_CHARS
  <2>1. <<a>> \in Seq(Parts)
    BY <1>5
  <2> QED  BY <1>3, <2>1 DEF Lines
<1>7. Width(full) = ANSWER_LABEL_CHARS
  <2>1. EmptyLine.pieces = <<>> /\ <<>> \in Seq(Parts)
    BY EmptyLineType
  <2>2. full.pieces = Append(EmptyLine.pieces, a)
    BY <1>6, <2>1
  <2> HIDE DEF full
  <2>3. Width(full) = Size(a)
    BY <1>5, <2>1, <2>2, WidthOfOneMore
  <2> QED  BY <1>5, <2>3
<1> HIDE DEF full
<1>8. /\ Len(lines) \in Nat /\ DOMAIN lines = 1..Len(lines)
      /\ lines' \in Seq(Lines) /\ Len(lines') = Len(lines) + 1
      /\ DOMAIN lines' = 1..Len(lines) + 1 /\ lines'[Len(lines) + 1] = full
      /\ \A n \in 1..Len(lines) : lines'[n] = lines[n]
  BY <1>1, <1>2, <1>6
<1>9. remaining' \in Seq(Parts) /\ Len(remaining') = Len(remaining)
      /\ \A i \in 2..Len(remaining) : remaining'[i] = remaining[i]
  <2>1. <<b>> \in Seq(Parts) /\ Len(<<b>>) = 1
    BY <1>5
  <2>2. /\ remaining' \in Seq(Parts) /\ Len(remaining') = 1 + Len(r)
        /\ \A i \in 1..1 + Len(r) : remaining'[i] = IF i <= 1 THEN <<b>>[i] ELSE r[i - 1]
    BY <1>1, <1>4, <2>1, ConcatProperties
  <2>3. ASSUME NEW i \in 2..Len(remaining)  PROVE remaining'[i] = remaining[i]
    <3>1. i \in 1..1 + Len(r) /\ ~(i <= 1) /\ i - 1 \in 1..Len(remaining) - 1
      BY <1>4
    <3>2. r[i - 1] = remaining[i]
      BY <1>1, <1>2, <3>1 DEF r
    <3> QED  BY <2>2, <3>1, <3>2
  <2> QED  BY <1>4, <2>2, <2>3
<1>10. PanelTypes'
  BY <1>1, <1>2, <1>8, <1>9 DEF PanelTypes
<1>11. WidthsInv'
  <2>1. \A n \in 1..Len(lines) : Width(lines[n]) <= ANSWER_LABEL_CHARS
    BY <1>8 DEF PanelsInv, WidthsInv
  <2>2. ASSUME NEW n \in DOMAIN lines'  PROVE Width(lines'[n]) <= ANSWER_LABEL_CHARS
    <3>1. CASE n \in 1..Len(lines)
      <4>1. lines'[n] = lines[n]
        BY <1>8, <3>1
      <4> QED  BY <2>1, <3>1, <4>1
    <3>2. CASE n = Len(lines) + 1
      <4>1. Width(lines'[n]) = ANSWER_LABEL_CHARS
        BY <1>7, <1>8, <3>2
      <4> QED  BY <1>3, <4>1
    <3> QED  BY <1>8, <3>1, <3>2
  <2>3. Len(lines') <= ANSWER_LABEL_LINES
    <3>1. Len(lines) <= ANSWER_LABEL_LINES /\ Len(lines) \in Nat
      BY <1>8 DEF PanelsInv, WidthsInv
    <3>2. Len(lines) + 1 <= ANSWER_LABEL_LINES
      BY <1>1, <1>3, <3>1
    <3> QED  BY <1>8, <3>2
  <2> QED  BY <1>1, <2>2, <2>3 DEF PanelsInv, WidthsInv
<1>12. \A i \in 2..Len(remaining') : remaining'[i].from = 1
  BY <1>9 DEF PanelsInv, TextInv
<1> DEFINE s == f \o remaining
           u == Append(f, a) \o (<<b>> \o r)
           p == Len(f) + 1
<1>13. f \in Seq(Parts) /\ FlattenSeq(PiecesOf(lines')) = f \o <<a>>
  BY <1>1, <1>2, <1>6, AllOfOneMore
<1> HIDE DEF f
<1>14. AllOf(lines, current, remaining) = s
  <2>1. f \o <<>> = f
    BY <1>13, ConcatEmptySeq
  <2> QED  BY <1>1, <2>1, EmptyLineType, Zenon DEF AllOf, f
<1>15. AllOf(lines', current', remaining') = u
  <2>1. Append(f, a) = f \o <<a>> /\ Append(f, a) \in Seq(Parts)
    BY <1>5, <1>13, AppendIsConcat, AppendProperties
  <2>2. (f \o <<a>>) \o <<>> = Append(f, a)
    BY <2>1, ConcatEmptySeq
  <2> QED  BY <1>1, <1>13, <2>2, EmptyLineType, Zenon DEF AllOf
<1>16. /\ s \in Seq(Parts) /\ u \in Seq(Parts) /\ p \in 1..Len(s)
       /\ Len(s) = Len(f) + Len(remaining) /\ Len(u) = Len(s) + 1
       /\ s[p] = x /\ u[p] = a /\ u[p + 1] = b
       /\ \A i \in 1..p - 1 : u[i] = s[i]
       /\ \A i \in p + 2..Len(s) + 1 : u[i] = s[i - 1]
       /\ \A i \in 2..Len(remaining) : s[p + i - 1] = remaining[i]
  <2>1. /\ f \in Seq(Parts) /\ remaining \in Seq(Parts) /\ remaining # <<>>
        /\ a \in Parts /\ b \in Parts
    BY <1>1, <1>2, <1>5, <1>13
  <2> QED  BY <2>1, SplitFirst DEF x, r
<1> HIDE DEF s, u
<1>17. ASSUME NEW i \in p + 1..Len(s)  PROVE s[i].from = 1
  <2>1. Len(f) \in Nat
    BY <1>13
  <2>2. i - Len(f) \in 2..Len(remaining) /\ p + (i - Len(f)) - 1 = i
    BY <1>4, <1>16, <2>1
  <2>3. s[i] = remaining[i - Len(f)]
    BY <1>16, <2>2
  <2> QED  BY <2>2, <2>3 DEF PanelsInv, TextInv
<1>18. panel \in 1..AnswerPanels /\ answers[panel] \in Texts \cup {<<>>}
  BY <1>1, <1>2, PanelsAssumption DEF Drawing
<1>19. Made(s, answers[panel])
  BY <1>1, <1>14 DEF PanelsInv, TextInv
<1> HIDE DEF p
<1>20. Made(u, answers[panel])
  BY <1>1, <1>5, <1>16, <1>17, <1>18, <1>19, BreakMakes
<1>21. TextInv'
  BY <1>1, <1>12, <1>15, <1>20 DEF TextInv, Drawing
<1>22. ShownInv'
  BY <1>1, ShownStays
<1> QED  BY <1>10, <1>11, <1>21, <1>22 DEF PanelsInv

LEMMA NextKeepsPanels == PanelsInv /\ NextPanel => PanelsInv'
<1> SUFFICES ASSUME PanelsInv, NextPanel  PROVE PanelsInv'
  OBVIOUS
<1>1. /\ Drawing /\ shown' = Append(shown, lines) /\ panel' = panel + 1
      /\ remaining' = IF panel < AnswerPanels THEN Pieces(answers[panel + 1]) ELSE <<>>
      /\ current' = EmptyLine /\ lines' = <<>> /\ answers' = answers
  BY DEF NextPanel
<1>2. /\ answers \in [1..AnswerPanels -> Texts \cup {<<>>}]
      /\ lines \in Seq(Lines) /\ shown \in Seq(Seq(Lines)) /\ panel \in 1..AnswerPanels + 1
  BY DEF PanelsInv, PanelTypes
<1>3. /\ AnswerPanels \in Nat /\ panel \in 1..AnswerPanels /\ panel + 1 \in 1..AnswerPanels + 1
      /\ ANSWER_LABEL_CHARS \in Nat /\ ANSWER_LABEL_LINES \in Nat
  BY <1>1, <1>2, PanelsAssumption DEF Drawing
<1>4. /\ remaining' \in Seq(Parts)
      /\ \A i \in 2..Len(remaining') : remaining'[i].from = 1
      /\ panel < AnswerPanels => Made(remaining', answers[panel + 1])
  <2>1. CASE panel < AnswerPanels
    <3>1. answers[panel + 1] \in Texts \cup {<<>>}
      BY <1>2, <1>3, <2>1
    <3> QED  BY <1>1, <2>1, <3>1, WholeText
  <2>2. CASE ~(panel < AnswerPanels)
    BY <1>1, <2>2
  <2> QED  BY <2>1, <2>2
<1>5. shown' \in Seq(Seq(Lines)) /\ lines' \in Seq(Lines)
  BY <1>1, <1>2
<1>6. PanelTypes'
  BY <1>1, <1>2, <1>3, <1>4, <1>5, EmptyLineType DEF PanelTypes
<1>7. WidthsInv'
  <2>1. Width(EmptyLine) = 0
    BY EmptyLineType, WidthOfNone
  <2>2. Len(lines') = 0 /\ DOMAIN lines' = {}
    BY <1>1
  <2>3. ASSUME NEW p \in DOMAIN shown'  PROVE Len(shown'[p]) <= ANSWER_LABEL_LINES
    <3>1. \/ p \in DOMAIN shown /\ shown'[p] = shown[p]
          \/ shown'[p] = lines
      BY <1>1, <1>2
    <3> QED  BY <3>1 DEF PanelsInv, WidthsInv
  <2> QED  BY <1>1, <1>3, <2>1, <2>2, <2>3, EmptyLineType DEF WidthsInv
<1>8. AllOf(lines', current', remaining') = remaining'
  <2>1. <<>> \in Seq(Parts)
    OBVIOUS
  <2>2. <<>> \o <<>> = <<>> /\ <<>> \o remaining' = remaining'
    BY <1>4, <2>1, ConcatEmptySeq
  <2> QED  BY <1>1, <2>2, NothingDrawn, EmptyLineType, Zenon DEF AllOf
<1>9. Drawing' => panel < AnswerPanels
  BY <1>1, <1>3 DEF Drawing
<1>10. TextInv'
  BY <1>1, <1>4, <1>8, <1>9 DEF TextInv
<1>11. ASSUME Len(lines) # ANSWER_LABEL_LINES  PROVE Made(Drawn(lines), answers[panel])
  <2>1. remaining = <<>> /\ current = EmptyLine
    BY <1>11 DEF NextPanel, Wrapped
  <2>2. AllOf(lines, current, remaining) = Drawn(lines)
    BY <1>2, <2>1, AllDrawn
  <2> QED  BY <1>1, <2>2 DEF PanelsInv, TextInv
<1>12. ShownInv'
  <2>1. /\ Len(shown) \in Nat /\ Len(shown) = panel - 1 /\ Len(shown') = panel
        /\ DOMAIN shown' = 1..panel /\ DOMAIN shown = 1..panel - 1
        /\ shown'[panel] = lines /\ \A p \in 1..panel - 1 : shown'[p] = shown[p]
    BY <1>1, <1>2, <1>3 DEF PanelsInv, ShownInv
  <2>2. ASSUME NEW p \in 1..panel - 1
        PROVE  Len(shown'[p]) = ANSWER_LABEL_LINES \/ Made(Drawn(shown'[p]), answers[p])
    <3>1. shown'[p] = shown[p] /\ p \in DOMAIN shown
      BY <2>1
    <3> QED  BY <3>1 DEF PanelsInv, ShownInv
  <2>3. \A p \in 1..panel : p \in 1..panel - 1 \/ p = panel
    BY <1>3
  <2>4. Len(shown'[panel]) = ANSWER_LABEL_LINES \/ Made(Drawn(shown'[panel]), answers[panel])
    BY <1>11, <2>1
  <2>5. Len(shown') = panel' - 1
    BY <1>1, <1>3, <2>1
  <2> QED  BY <1>1, <2>1, <2>2, <2>3, <2>4, <2>5 DEF ShownInv
<1> QED  BY <1>6, <1>7, <1>10, <1>12 DEF PanelsInv

LEMMA PanelsStep == PanelsInv /\ [Next]_vars => PanelsInv'
<1> SUFFICES ASSUME PanelsInv, [Next]_vars  PROVE PanelsInv'
  OBVIOUS
<1>1. CASE EndLine \/ LastLine
  BY <1>1, LineKeepsPanels
<1>2. CASE BreakWord
  BY <1>2, BreakKeepsPanels
<1>3. CASE PlaceWord
  BY <1>3, PlaceKeepsPanels
<1>4. CASE NextPanel
  BY <1>4, NextKeepsPanels
<1>5. CASE UNCHANGED panelVars
  BY <1>5 DEF panelVars, PanelsInv, PanelTypes, WidthsInv, TextInv, ShownInv, Drawing
<1> QED  BY OnePartSteps, <1>1, <1>2, <1>3, <1>4, <1>5 DEF PanelsNext

\* wrap: "instead of silently dropping the tail".  For every text, width and number
\* of lines, no line is too wide, and the pieces that are drawn and those that
\* remain make the text, of which only words that no line holds are broken; a panel
\* that is left has no line to spare or shows its whole text.
THEOREM NothingEverSkipped == Spec => []NothingSkipped
<1>1. PanelsInv => NothingSkipped
  <2> SUFFICES ASSUME PanelsInv  PROVE NothingSkipped
    OBVIOUS
  <2>1. NoLineTooWide
    BY DEF PanelsInv, WidthsInv, NoLineTooWide
  <2>2. AllPieces = AllOf(lines, current, remaining)
    BY DEF AllPieces, AllOf, PiecesOf, Drawn
  <2>3. Drawing => Made(AllPieces, answers[panel])
    BY <2>2 DEF PanelsInv, TextInv
  <2> QED  BY <2>1, <2>3 DEF PanelsInv, ShownInv, NothingSkipped
<1> QED  BY PanelsInitially, PanelsStep, <1>1, PTL DEF Spec
=============================================================================
