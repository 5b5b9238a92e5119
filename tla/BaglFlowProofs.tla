--------------------------- MODULE BaglFlowProofs ---------------------------
(***************************************************************************)
(* Skipping hidden steps always comes to rest, at the nearest visible step *)
(* of the direction, because the first and the last step of every flow are *)
(* visible.  So the buttons leave out no visible step, and the approve     *)
(* step is reached behind all of them.                                     *)
(***************************************************************************)
EXTENDS BaglFlow, SumsProofs

-----------------------------------------------------------------------------
(* Nearest elements *)

\* The nearest element of S from j on, in either direction.
IsNext(S, j, m) == m \in S /\ j <= m /\ \A k \in S : j <= k => m <= k
IsPrevious(S, j, m) == m \in S /\ m <= j /\ \A k \in S : k <= j => k <= m

\* A set that has both ends of 1..n.
Spans(S, n) == n \in Nat \ {0} /\ S \subseteq 1..n /\ 1 \in S /\ n \in S

\* Both exist between the ends.
LEMMA NearestExist ==
  ASSUME NEW n, NEW S, Spans(S, n), NEW j \in 1..n
  PROVE  /\ \E m \in 1..n : IsNext(S, j, m)
         /\ \E m \in 1..n : IsPrevious(S, j, m)
<1>1. \E m \in 1..n : IsNext(S, j, m)
  <2> DEFINE T == {k \in S : j <= k}
  <2>1. n \in T /\ T \subseteq 1..n
    <3>1. n \in S /\ n \in Nat /\ S \subseteq 1..n /\ j <= n
      BY DEF Spans
    <3> QED BY <3>1
  <2>2. PICK m \in T : \A k \in T : m <= k
    <3>1. T \subseteq Nat /\ T # {}
      BY <2>1
    <3> QED BY <3>1, LeastElement
  <2> QED BY <2>1, <2>2 DEF IsNext
<1>2. \E m \in 1..n : IsPrevious(S, j, m)
  <2> DEFINE T == {k \in S : k <= j}
  <2>1. 1 \in T /\ T \subseteq 1..n /\ n \in Nat
    <3>1. 1 \in S /\ n \in Nat /\ S \subseteq 1..n /\ 1 <= j
      BY DEF Spans
    <3> QED BY <3>1
  <2>2. PICK m \in T : \A k \in T : k <= m
    <3>1. T \subseteq 0..n /\ T # {}
      BY <2>1
    <3> QED BY <2>1, <3>1, GreatestElement
  <2> QED BY <2>1, <2>2 DEF IsPrevious
<1> QED BY <1>1, <1>2

\* There is only one of each.
LEMMA NearestIsUnique ==
  ASSUME NEW n, NEW S, Spans(S, n), NEW j \in 1..n, NEW m, NEW k
  PROVE  /\ IsNext(S, j, m) /\ IsNext(S, j, k) => m = k
         /\ IsPrevious(S, j, m) /\ IsPrevious(S, j, k) => m = k
<1>1. \A i \in S : i \in Int
  BY DEF Spans
<1> QED BY <1>1 DEF IsNext, IsPrevious

\* An element is nearest to itself; from elsewhere, the nearest one is that of the
\* neighbour.
LEMMA NearestOfNeighbour ==
  ASSUME NEW n, NEW S, Spans(S, n), NEW j \in 1..n
  PROVE  /\ j \in S => IsNext(S, j, j) /\ IsPrevious(S, j, j)
         /\ j \notin S => /\ j + 1 \in 1..n /\ j - 1 \in 1..n
                          /\ \A m : IsNext(S, j + 1, m) => IsNext(S, j, m)
                          /\ \A m : IsPrevious(S, j - 1, m) => IsPrevious(S, j, m)
<1>1. \A i \in S : i \in Int
  BY DEF Spans
<1>2. j \in S => IsNext(S, j, j) /\ IsPrevious(S, j, j)
  BY <1>1 DEF IsNext, IsPrevious
<1>3. ASSUME j \notin S
      PROVE  /\ j + 1 \in 1..n /\ j - 1 \in 1..n
             /\ \A m : IsNext(S, j + 1, m) => IsNext(S, j, m)
             /\ \A m : IsPrevious(S, j - 1, m) => IsPrevious(S, j, m)
  <2>1. j # 1 /\ j # n /\ n \in Nat
    BY <1>3 DEF Spans
  <2>2. j + 1 \in 1..n /\ j - 1 \in 1..n
    BY <2>1
  <2>3. ASSUME NEW m, IsNext(S, j + 1, m) PROVE IsNext(S, j, m)
    <3>1. \A k \in S : j <= k => j + 1 <= k
      BY <1>1, <1>3
    <3> QED BY <1>1, <2>3, <3>1 DEF IsNext
  <2>4. ASSUME NEW m, IsPrevious(S, j - 1, m) PROVE IsPrevious(S, j, m)
    <3>1. \A k \in S : k <= j => k <= j - 1
      BY <1>1, <1>3
    <3> QED BY <1>1, <2>4, <3>1 DEF IsPrevious
  <2> QED BY <2>2, <2>3, <2>4
<1> QED BY <1>2, <1>3

\* The function that Rest defines, for the set S of visible steps.
IsWalk(rest, S, n) ==
  rest = [at \in (1..n) \X Directions |->
            IF at[1] \in S THEN at[1]
            ELSE IF (at[2] # "backward" /\ at[1] < n) \/ at[1] = 1
            THEN rest[<<at[1] + 1, "forward">>]
            ELSE rest[<<at[1] - 1, "backward">>]]

\* There is such a function.
LEMMA WalkExists ==
  ASSUME NEW n, NEW S, Spans(S, n)
  PROVE  \E rest : IsWalk(rest, S, n)
<1> DEFINE next(j) == CHOOSE m \in 1..n : IsNext(S, j, m)
           previous(j) == CHOOSE m \in 1..n : IsPrevious(S, j, m)
           w == [at \in (1..n) \X Directions |->
                   IF at[2] # "backward" THEN next(at[1]) ELSE previous(at[1])]
<1>1. \A j \in 1..n : IsNext(S, j, next(j)) /\ IsPrevious(S, j, previous(j))
  BY NearestExist
<1>2. ASSUME NEW j \in 1..n
      PROVE  /\ next(j) = IF j \in S THEN j ELSE next(j + 1)
             /\ previous(j) = IF j \in S THEN j ELSE previous(j - 1)
             /\ j \notin S => j < n /\ j # 1 /\ j + 1 \in 1..n /\ j - 1 \in 1..n
  <2> HIDE DEF next, previous
  <2>1. CASE j \in S
    <3>1. IsNext(S, j, j) /\ IsPrevious(S, j, j)
      BY <2>1, NearestOfNeighbour
    <3>2. next(j) = j /\ previous(j) = j
      BY <1>1, <3>1, NearestIsUnique
    <3> QED BY <2>1, <3>2
  <2>2. CASE j \notin S
    <3>1. j + 1 \in 1..n /\ j - 1 \in 1..n
      BY <2>2, NearestOfNeighbour
    <3>2. IsNext(S, j, next(j + 1)) /\ IsPrevious(S, j, previous(j - 1))
      BY <1>1, <2>2, <3>1, NearestOfNeighbour
    <3>3. next(j) = next(j + 1) /\ previous(j) = previous(j - 1)
      BY <1>1, <3>2, NearestIsUnique
    <3>4. j < n /\ j # 1
      BY <3>1 DEF Spans
    <3> QED BY <2>2, <3>1, <3>3, <3>4
  <2> QED BY <2>1, <2>2
<1> HIDE DEF next, previous
<1>3. ASSUME NEW at \in (1..n) \X Directions
      PROVE  (IF at[2] # "backward" THEN next(at[1]) ELSE previous(at[1])) =
               IF at[1] \in S THEN at[1]
               ELSE IF (at[2] # "backward" /\ at[1] < n) \/ at[1] = 1
               THEN w[<<at[1] + 1, "forward">>]
               ELSE w[<<at[1] - 1, "backward">>]
  <2>1. PICK j \in 1..n, direction \in Directions : at = <<j, direction>>
    OBVIOUS
  <2>2. at[1] = j /\ at[2] = direction /\ direction \in {"forward", "backward"}
    BY <2>1 DEF Directions
  <2>3. CASE j \in S
    BY <1>2, <2>2, <2>3
  <2>4. CASE j \notin S
    <3>1. j + 1 \in 1..n /\ j - 1 \in 1..n /\ j < n /\ j # 1
      BY <1>2, <2>4
    <3>2. /\ <<j + 1, "forward">> \in (1..n) \X Directions
          /\ <<j - 1, "backward">> \in (1..n) \X Directions
      BY <3>1 DEF Directions
    <3>3. w[<<j + 1, "forward">>] = next(j + 1) /\ w[<<j - 1, "backward">>] = previous(j - 1)
      BY <3>2
    <3> HIDE DEF w
    <3> QED BY <1>2, <2>2, <2>4, <3>1, <3>3
  <2> QED BY <2>3, <2>4
<1>4. IsWalk(w, S, n)
  BY <1>3 DEF IsWalk
<1> QED BY <1>4

\* Every such function leads to the nearest element.
LEMMA WalkIsNearest ==
  ASSUME NEW n, NEW S, Spans(S, n), NEW rest, IsWalk(rest, S, n), NEW j \in 1..n
  PROVE  IsNext(S, j, rest[<<j, "forward">>]) /\ IsPrevious(S, j, rest[<<j, "backward">>])
<1>1. ASSUME NEW i \in 1..n
      PROVE  /\ rest[<<i, "forward">>] = IF i \in S THEN i
                                     ELSE IF i < n \/ i = 1 THEN rest[<<i + 1, "forward">>]
                                     ELSE rest[<<i - 1, "backward">>]
             /\ rest[<<i, "backward">>] = IF i \in S THEN i
                                     ELSE IF i = 1 THEN rest[<<i + 1, "forward">>]
                                     ELSE rest[<<i - 1, "backward">>]
  <2>1. <<i, "forward">> \in (1..n) \X Directions /\ <<i, "backward">> \in (1..n) \X Directions
    BY DEF Directions
  <2> QED BY <2>1 DEF IsWalk
<1>2. \A i \in 1..n : i \notin S => i < n /\ i # 1 /\ i + 1 \in 1..n /\ i - 1 \in 1..n
  BY NearestOfNeighbour DEF Spans
<1> DEFINE F == {i \in 1..n : ~IsNext(S, i, rest[<<i, "forward">>])}
           B == {i \in 1..n : ~IsPrevious(S, i, rest[<<i, "backward">>])}
<1>3. F = {}
  <2> SUFFICES ASSUME F # {} PROVE FALSE
    OBVIOUS
  <2>1. F \subseteq 0..n /\ n \in Nat
    BY DEF Spans
  <2>2. PICK i \in F : \A k \in F : k <= i
    <3> HIDE DEF F
    <3> QED BY <2>1, GreatestElement
  <2>3. i \in 1..n /\ ~IsNext(S, i, rest[<<i, "forward">>])
    BY <2>2
  <2>4. i \notin S
    <3>1. i \in S => IsNext(S, i, i) /\ IsPrevious(S, i, i)
      BY <2>3, NearestOfNeighbour
    <3> QED BY <1>1, <2>3, <3>1
  <2>5. i + 1 \in 1..n /\ rest[<<i, "forward">>] = rest[<<i + 1, "forward">>]
    BY <1>1, <1>2, <2>3, <2>4
  <2>6. i + 1 \notin F
    BY <2>2, <2>3
  <2>7. IsNext(S, i + 1, rest[<<i + 1, "forward">>])
    BY <2>5, <2>6
  <2> QED BY <2>3, <2>4, <2>5, <2>7, NearestOfNeighbour
<1>4. B = {}
  <2> SUFFICES ASSUME B # {} PROVE FALSE
    OBVIOUS
  <2>1. B \subseteq Nat
    OBVIOUS
  <2>2. PICK i \in B : \A k \in B : i <= k
    <3> HIDE DEF B
    <3> QED BY <2>1, LeastElement
  <2>3. i \in 1..n /\ ~IsPrevious(S, i, rest[<<i, "backward">>])
    BY <2>2
  <2>4. i \notin S
    <3>1. i \in S => IsNext(S, i, i) /\ IsPrevious(S, i, i)
      BY <2>3, NearestOfNeighbour
    <3> QED BY <1>1, <2>3, <3>1
  <2>5. i - 1 \in 1..n /\ rest[<<i, "backward">>] = rest[<<i - 1, "backward">>]
    BY <1>1, <1>2, <2>3, <2>4
  <2>6. i - 1 \notin B
    BY <2>2, <2>3
  <2>7. IsPrevious(S, i - 1, rest[<<i - 1, "backward">>])
    BY <2>5, <2>6
  <2> QED BY <2>3, <2>4, <2>5, <2>7, NearestOfNeighbour
<1> QED BY <1>3, <1>4

-----------------------------------------------------------------------------
(* The flows *)

IsSequence(s) == \E S : s \in Seq(S)

\* What only the message flow has.
MessageNames == {"message length", "message"} \cup DisplayTypes

\* Steps without the given names.
IsPart(s, without) == IsSequence(s) /\ \A i \in 1..Len(s) : s[i].name \notin without

\* A single step is a part.
LEMMA StepIsPart ==
  ASSUME NEW name, NEW condition, NEW without, name \notin without
  PROVE  /\ IsPart(Optional(name, condition), without)
         /\ Len(Optional(name, condition)) = 1
         /\ Optional(name, condition)[1].name = name
         /\ Optional(name, condition)[1].condition = condition
<1> DEFINE step == [name |-> name, condition |-> condition]
<1>1. Optional(name, condition) = <<step>>
  BY DEF Optional
<1>2. step.name = name /\ step.condition = condition
  OBVIOUS
<1> HIDE DEF step
<1>3. <<step>> \in Seq({step}) /\ Len(<<step>>) = 1 /\ <<step>>[1] = step
  OBVIOUS
<1>4. IsSequence(<<step>>)
  BY <1>3 DEF IsSequence
<1>5. \A i \in 1..Len(<<step>>) : <<step>>[i].name \notin without
  BY <1>2, <1>3
<1> QED BY <1>1, <1>2, <1>3, <1>4, <1>5 DEF IsPart

\* A step that is always displayed is an optional one, too.
LEMMA StepIsOptional == \A name : Step(name) = Optional(name, "always")
  BY DEF Step, Optional

\* So it is a part as well.
LEMMA AlwaysIsPart ==
  ASSUME NEW name, NEW without, name \notin without
  PROVE  IsPart(Step(name), without)
BY StepIsOptional, StepIsPart

\* A sequence of one step.
LEMMA StepIsSequence ==
  ASSUME NEW name
  PROVE  /\ IsSequence(Step(name)) /\ Len(Step(name)) = 1
         /\ Step(name)[1].name = name /\ Step(name)[1].condition = "always"
<1> DEFINE step == Optional(name, "always")
<1>1. Step(name) = step
  BY StepIsOptional
<1>2. IsPart(step, {}) /\ Len(step) = 1 /\ step[1].name = name /\ step[1].condition = "always"
  <2>1. name \notin {}
    OBVIOUS
  <2> QED BY Zenon, <2>1, StepIsPart
<1> HIDE DEF step
<1> QED BY Zenon, <1>1, <1>2 DEF IsPart

\* The steps of one sequence behind another.
IsJoin(f, s, t) ==
  /\ IsSequence(f)
  /\ Len(s) \in Nat /\ Len(t) \in Nat /\ Len(f) = Len(s) + Len(t)
  /\ \A i \in 1..Len(s) : f[i] = s[i]
  /\ \A i \in 1..Len(t) : f[Len(s) + i] = t[i]

\* That is what concatenation makes of two sequences.
LEMMA SequencesTogether ==
  ASSUME NEW s, NEW t, IsSequence(s), IsSequence(t)
  PROVE  IsJoin(s \o t, s, t)
<1>1. PICK S, T : s \in Seq(S) /\ t \in Seq(T)
  BY DEF IsSequence
<1>2. s \in Seq(S \cup T) /\ t \in Seq(S \cup T)
  BY <1>1
<1> DEFINE U == S \cup T
<1>3. s \in Seq(U) /\ t \in Seq(U)
  BY <1>2
<1> HIDE DEF U
<1>4. s \o t \in Seq(U)
  BY <1>3
<1>5. /\ Len(s) \in Nat /\ Len(t) \in Nat /\ Len(s \o t) = Len(s) + Len(t)
      /\ \A i \in 1..Len(s) : (s \o t)[i] = s[i]
      /\ \A i \in 1..Len(t) : (s \o t)[Len(s) + i] = t[i]
  BY <1>3
<1> QED BY <1>4, <1>5 DEF IsSequence, IsJoin

\* Parts together are a part.
LEMMA PartsTogether ==
  ASSUME NEW without, NEW s, NEW t, IsPart(s, without), IsPart(t, without)
  PROVE  IsPart(s \o t, without)
<1>1. /\ IsSequence(s \o t)
      /\ Len(s) \in Nat /\ Len(t) \in Nat /\ Len(s \o t) = Len(s) + Len(t)
      /\ \A i \in 1..Len(s) : (s \o t)[i] = s[i]
      /\ \A i \in 1..Len(t) : (s \o t)[Len(s) + i] = t[i]
  BY SequencesTogether DEF IsPart, IsJoin
<1>2. ASSUME NEW i \in 1..Len(s \o t) PROVE (s \o t)[i].name \notin without
  <2>1. CASE i \in 1..Len(s)
    BY <1>1, <2>1 DEF IsPart
  <2>2. CASE i \notin 1..Len(s)
    <3> DEFINE j == i - Len(s)
    <3>1. j \in 1..Len(t) /\ i = Len(s) + j
      BY <1>1, <2>2
    <3> HIDE DEF j
    <3> QED BY <1>1, <3>1 DEF IsPart
  <2> QED BY <2>1, <2>2
<1> QED BY <1>1, <1>2 DEF IsPart

\* What no optional step is named, nor a display type.
Plain == MessageNames \cup {"none"}

\* A part that begins with a step that is displayed whatever the conditions and the
\* display type are.
Begins(s, without) ==
  IsPart(s, without) /\ Len(s) >= 1 /\ s[1].condition = "always" /\ s[1].name \notin Plain

\* All flows begin and end with such a step.
IsFlow(f) ==
  /\ IsSequence(f) /\ Len(f) \in Nat \ {0}
  /\ \A i \in {1, Len(f)} : f[i].condition = "always" /\ f[i].name \notin Plain

\* A step that is always displayed begins a flow.
LEMMA StepBegins ==
  ASSUME NEW name, NEW without, name \notin without \cup Plain
  PROVE  Begins(Step(name), without)
<1>1. /\ IsPart(Step(name), without) /\ Len(Step(name)) = 1
      /\ Step(name)[1].name = name /\ Step(name)[1].condition = "always"
  BY StepIsOptional, StepIsPart
<1> QED BY <1>1 DEF Begins

\* So does what a part and further steps make up.
LEMMA PartBegins ==
  ASSUME NEW without, NEW s, NEW t, Begins(s, without), IsPart(t, without)
  PROVE  Begins(s \o t, without)
<1>1. /\ IsPart(s, without) /\ Len(s) >= 1
      /\ s[1].condition = "always" /\ s[1].name \notin Plain
  BY DEF Begins
<1>2. /\ Len(s) \in Nat /\ Len(t) \in Nat /\ Len(s \o t) = Len(s) + Len(t)
      /\ \A i \in 1..Len(s) : (s \o t)[i] = s[i]
  BY <1>1, SequencesTogether DEF IsPart, IsJoin
<1>3. IsPart(s \o t, without) /\ Len(s \o t) >= 1 /\ (s \o t)[1] = s[1]
  BY <1>1, <1>2, PartsTogether
<1> QED BY <1>1, <1>3 DEF Begins

\* What begins like a flow is one with the decision at its end.
LEMMA FlowEnds ==
  ASSUME NEW without, "approve" \notin without, "reject" \notin without,
         NEW s, Begins(s, without)
  PROVE  IsFlow(s \o Decide) /\ IsPart(s \o Decide, without)
<1> DEFINE f == s \o Decide
           approve == Step("approve")
           reject == Step("reject")
<1>1. IsPart(s, without) /\ IsSequence(s)
  BY DEF Begins, IsPart
<1>2. /\ IsPart(approve, without) /\ IsSequence(approve) /\ Len(approve) = 1
      /\ IsPart(reject, without) /\ IsSequence(reject) /\ Len(reject) = 1
      /\ reject[1].name = "reject" /\ reject[1].condition = "always"
  BY StepIsOptional, StepIsPart DEF IsPart
<1>3. Decide = approve \o reject
  BY DEF Decide
<1> HIDE DEF approve, reject
<1>4. IsPart(Decide, without) /\ IsSequence(Decide) /\ Len(Decide) = 2 /\ Decide[2] = reject[1]
  <2>1. IsPart(Decide, without)
    BY <1>2, <1>3, PartsTogether
  <2>2. IsJoin(Decide, approve, reject)
    BY <1>2, <1>3, SequencesTogether
  <2>3. 1 \in 1..Len(reject)
    BY <1>2
  <2> QED BY <1>2, <2>1, <2>2, <2>3 DEF IsPart, IsJoin
<1>5. Len(f) = Len(s) + 2 /\ f[Len(s) + 2] = Decide[2] /\ Len(s) \in Nat
  <2>1. 2 \in 1..Len(Decide)
    BY <1>4
  <2>2. IsJoin(f, s, Decide)
    BY <1>1, <1>4, SequencesTogether
  <2> HIDE DEF f
  <2> QED BY <1>4, <2>1, <2>2 DEF IsJoin
<1>6. "reject" \notin Plain
  BY DEF Plain, MessageNames, DisplayTypes
<1>7. f[Len(f)].condition = "always" /\ f[Len(f)].name \notin Plain
  BY <1>2, <1>4, <1>5, <1>6
<1>8. /\ f[1].condition = "always" /\ f[1].name \notin Plain
      /\ IsPart(f, without) /\ IsSequence(f)
  <2>1. Begins(f, without)
    BY <1>4, PartBegins
  <2> HIDE DEF f
  <2> QED BY <2>1 DEF Begins, IsPart
<1> HIDE DEF f
<1>9. IsFlow(f)
  BY <1>5, <1>7, <1>8 DEF IsFlow
<1> QED BY <1>8, <1>9 DEF f

\* Transactions.
LEMMA TransactionIsFlow ==
  ASSUME NEW specific, IsPart(specific, Plain)
  PROVE  IsFlow(TransactionFlow(specific)) /\ IsPart(TransactionFlow(specific), Plain)
<1>1. /\ "transaction type" \notin Plain /\ "amount" \notin Plain /\ "fee" \notin Plain
      /\ "network" \notin Plain /\ "approve" \notin Plain /\ "reject" \notin Plain
  BY DEF Plain, MessageNames, DisplayTypes
<1>2. /\ Begins(Step("transaction type"), Plain) /\ IsPart(Optional("amount", "value"), Plain)
      /\ IsPart(Optional("fee", "fee"), Plain) /\ IsPart(Step("network"), Plain)
  BY <1>1, StepBegins, StepIsOptional, StepIsPart
<1>3. Begins(Step("transaction type") \o Optional("amount", "value"), Plain)
  BY <1>2, PartBegins
<1>4. Begins(Step("transaction type") \o Optional("amount", "value") \o specific, Plain)
  BY <1>3, PartBegins
<1>5. Begins(Step("transaction type") \o Optional("amount", "value") \o specific
             \o Optional("fee", "fee"), Plain)
  BY <1>2, <1>4, PartBegins
<1>6. Begins(Step("transaction type") \o Optional("amount", "value") \o specific
             \o Optional("fee", "fee") \o Step("network"), Plain)
  BY <1>2, <1>5, PartBegins
<1> QED BY <1>1, <1>6, FlowEnds DEF TransactionFlow, Begins

\* How the message flow begins, and that the other steps are not like its second and
\* third.
StartsWith(s, first, second, third) ==
  /\ IsSequence(s) /\ Len(s) >= 3
  /\ s[1].name = first /\ s[2].name = second /\ s[3].name = third
  /\ \A i \in 1..3 : s[i].condition = "always"
  /\ \A i \in 4..Len(s) : s[i].name \notin {second, third}

Buffered == {"message length", "message"}
IsMessage(s) == StartsWith(s, "intro", "message length", "message")

\* A step at the end of n others.
IsAppended(f, s, n, name) ==
  /\ IsSequence(f) /\ Len(f) = n + 1
  /\ f[n + 1].name = name /\ f[n + 1].condition = "always"
  /\ \A i \in 1..n : f[i] = s[i]

\* Steps one after the other.
LEMMA StepIsAppended ==
  ASSUME NEW s, IsSequence(s), NEW n \in Nat, Len(s) = n, NEW name
  PROVE  IsAppended(s \o Step(name), s, n, name)
<1> DEFINE step == Step(name)
           f == s \o step
<1>1. /\ IsSequence(step) /\ Len(step) = 1
      /\ step[1].name = name /\ step[1].condition = "always"
  BY Zenon, StepIsSequence
<1> HIDE DEF step
<1>2. IsJoin(f, s, step)
  BY <1>1, SequencesTogether
<1> HIDE DEF f
<1>3. 1 \in 1..Len(step)
  BY <1>1
<1>4. Len(f) = n + 1 /\ f[n + 1] = step[1] /\ IsSequence(f)
  BY <1>1, <1>2, <1>3 DEF IsJoin
<1>5. \A i \in 1..n : f[i] = s[i]
  BY <1>2 DEF IsJoin
<1>6. IsAppended(f, s, n, name)
  BY <1>1, <1>4, <1>5 DEF IsAppended
<1> QED BY <1>6 DEF f, step

\* The first three steps of the message flow.
LEMMA MessageBegins ==
  ASSUME NEW first, NEW second, NEW third
  PROVE  StartsWith(Step(first) \o Step(second) \o Step(third), first, second, third)
<1> DEFINE a == Step(first)
           b == a \o Step(second)
           c == b \o Step(third)
<1>1. IsSequence(a) /\ Len(a) = 1 /\ a[1].name = first /\ a[1].condition = "always"
  BY Zenon, StepIsSequence
<1> HIDE DEF a
<1>2. IsAppended(b, a, 1, second)
  BY <1>1, StepIsAppended
<1> HIDE DEF b
<1>3. IsAppended(c, b, 2, third)
  <2>1. IsSequence(b) /\ Len(b) = 2
    BY <1>2 DEF IsAppended
  <2> QED BY <2>1, StepIsAppended
<1> HIDE DEF c
<1>4. b[1] = a[1] /\ c[1] = b[1] /\ c[2] = b[2]
  BY <1>2, <1>3 DEF IsAppended
<1>5. /\ c[1].name = first /\ c[1].condition = "always"
      /\ c[2].name = second /\ c[2].condition = "always"
      /\ c[3].name = third /\ c[3].condition = "always"
  BY <1>1, <1>2, <1>3, <1>4 DEF IsAppended
<1>6. IsSequence(c) /\ Len(c) = 3
  BY <1>3 DEF IsAppended
<1>7. \A i \in 1..3 : i = 1 \/ i = 2 \/ i = 3
  OBVIOUS
<1>8. \A i \in 1..3 : c[i].condition = "always"
  BY <1>5, <1>7
<1>9. 4..Len(c) = {} /\ Len(c) >= 3
  BY <1>6
<1>10. StartsWith(c, first, second, third)
  BY <1>5, <1>6, <1>8, <1>9 DEF StartsWith
<1> QED BY <1>10 DEF a, b, c

\* Steps that do not use the buffer can follow.
LEMMA MessageGoesOn ==
  ASSUME NEW s, NEW t, NEW first, NEW second, NEW third,
         StartsWith(s, first, second, third), IsPart(t, {second, third})
  PROVE  StartsWith(s \o t, first, second, third)
<1> DEFINE f == s \o t
<1>1. IsSequence(s) /\ IsSequence(t)
  BY DEF StartsWith, IsPart
<1>2. IsJoin(f, s, t)
  BY <1>1, SequencesTogether
<1> HIDE DEF f
<1>3. Len(s) >= 3
  BY DEF StartsWith
<1>4. \A i \in 1..3 : f[i] = s[i]
  BY <1>2, <1>3 DEF IsJoin
<1>5. ASSUME NEW i \in 4..Len(f) PROVE f[i].name \notin {second, third}
  <2>1. CASE i <= Len(s)
    <3>1. i \in 1..Len(s) /\ i \in 4..Len(s)
      BY <1>2, <2>1 DEF IsJoin
    <3> QED BY <1>2, <3>1 DEF StartsWith, IsJoin
  <2>2. CASE ~(i <= Len(s))
    <3> DEFINE j == i - Len(s)
    <3>1. j \in 1..Len(t) /\ i = Len(s) + j
      BY <1>2, <2>2 DEF IsJoin
    <3> HIDE DEF j
    <3>2. f[i] = t[j]
      BY <1>2, <3>1 DEF IsJoin
    <3> QED BY <3>1, <3>2 DEF IsPart
  <2> QED BY <2>1, <2>2
<1>6. f[1] = s[1] /\ f[2] = s[2] /\ f[3] = s[3]
  BY <1>4
<1>7. \A i \in 1..3 : f[i].condition = "always"
  BY <1>4 DEF StartsWith
<1>8. IsSequence(f) /\ Len(f) >= 3
  BY <1>2, <1>3 DEF IsJoin
<1>9. f[1].name = first /\ f[2].name = second /\ f[3].name = third
  BY <1>6 DEF StartsWith
<1>10. StartsWith(f, first, second, third)
  BY <1>5, <1>7, <1>8, <1>9 DEF StartsWith
<1> QED BY <1>10 DEF f

\* The message flow.
LEMMA MessageIsFlow == IsFlow(MessageFlow) /\ IsMessage(MessageFlow)
<1>1. /\ IsPart(Optional("ASCII", "ascii"), Buffered)
      /\ IsPart(Optional("HEX", "printable"), Buffered)
      /\ IsPart(Optional("HASH", "always"), Buffered)
      /\ IsPart(Step("approve"), Buffered) /\ IsPart(Step("reject"), Buffered)
  <2>1. /\ "ASCII" \notin Buffered /\ "HEX" \notin Buffered /\ "HASH" \notin Buffered
        /\ "approve" \notin Buffered /\ "reject" \notin Buffered
    BY DEF Buffered
  <2> QED BY <2>1, StepIsOptional, StepIsPart
<1>2. IsPart(Decide, Buffered)
  BY <1>1, PartsTogether DEF Decide
<1> DEFINE s == Step("intro") \o Step("message length") \o Step("message")
                \o Optional("ASCII", "ascii") \o Optional("HEX", "printable")
                \o Optional("HASH", "always")
<1>3. IsMessage(s)
  <2>1. IsMessage(Step("intro") \o Step("message length") \o Step("message")
                  \o Optional("ASCII", "ascii"))
    BY <1>1, MessageBegins, MessageGoesOn DEF IsMessage, Buffered
  <2>2. IsMessage(Step("intro") \o Step("message length") \o Step("message")
                  \o Optional("ASCII", "ascii") \o Optional("HEX", "printable"))
    BY <1>1, <2>1, MessageGoesOn DEF IsMessage, Buffered
  <2> QED BY <1>1, <2>2, MessageGoesOn DEF IsMessage, Buffered
<1>4. MessageFlow = s \o Decide
  BY DEF MessageFlow
<1> HIDE DEF s
<1>5. Begins(s, {})
  <2>1. "intro" \notin Plain
    BY DEF Plain, MessageNames, DisplayTypes
  <2>2. IsSequence(s) /\ Len(s) >= 3 /\ s[1].condition = "always"
    <3>1. 1 \in 1..3
      OBVIOUS
    <3> QED BY Zenon, <1>3, <3>1 DEF IsMessage, StartsWith
  <2>3. s[1].name = "intro"
    BY Zenon, <1>3 DEF IsMessage, StartsWith
  <2>4. Len(s) >= 1
    <3>1. Len(s) \in Nat
      BY <2>2, SequencesTogether DEF IsJoin
    <3> QED BY <2>2, <3>1
  <2>5. IsPart(s, {})
    BY <2>2 DEF IsPart
  <2> QED BY <2>1, <2>2, <2>3, <2>4, <2>5 DEF Begins
<1>6. IsFlow(s \o Decide)
  <2>1. "approve" \notin {} /\ "reject" \notin {}
    OBVIOUS
  <2> QED BY Zenon, <1>5, <2>1, FlowEnds
<1>7. IsMessage(s \o Decide)
  BY <1>2, <1>3, MessageGoesOn DEF IsMessage, Buffered
<1> QED BY <1>4, <1>6, <1>7

\* A part of a transaction flow with one more step, which must not have the name of a
\* display type or of a step that prints.
LEMMA PartGoesOn ==
  ASSUME NEW s, IsPart(s, Plain), NEW name, name \notin Plain, NEW condition
  PROVE  IsPart(s \o Optional(name, condition), Plain) /\ IsPart(s \o Step(name), Plain)
<1>1. IsPart(Optional(name, condition), Plain) /\ IsPart(Step(name), Plain)
  BY StepIsPart, StepIsOptional
<1> QED BY <1>1, PartsTogether

\* The flow of every kind of transaction, and that of a public key.
LEMMA OtherFlowsAreFlows ==
  \A f \in {PublicKeyFlow, NormalFlow, HtlcFlow, VestingFlow, StakingFlow} :
    IsFlow(f) /\ IsPart(f, Plain)
<1>1. IsFlow(NormalFlow) /\ IsPart(NormalFlow, Plain)
  <2>1. "recipient" \notin Plain /\ "data" \notin Plain
    BY DEF Plain, MessageNames, DisplayTypes
  <2>2. IsPart(Step("recipient"), Plain)
    BY <2>1, StepIsPart, StepIsOptional
  <2>3. IsPart(Step("recipient") \o Optional("data", "data"), Plain)
    BY <2>1, <2>2, PartGoesOn
  <2> QED BY <2>3, TransactionIsFlow DEF NormalFlow
<1>2. IsFlow(HtlcFlow) /\ IsPart(HtlcFlow, Plain)
  <2>1. /\ "redeem address" \notin Plain /\ "refund address" \notin Plain
        /\ "hash root" \notin Plain /\ "hash algorithm" \notin Plain
        /\ "hash count" \notin Plain /\ "timeout" \notin Plain
    BY DEF Plain, MessageNames, DisplayTypes
  <2>2. IsPart(Step("redeem address"), Plain)
    BY <2>1, StepIsPart, StepIsOptional
  <2>3. IsPart(
          Step("redeem address") \o Optional("refund address", "foreign refund")
          \o Step("hash root") \o Optional("hash algorithm", "algorithm")
          \o Optional("hash count", "count") \o Optional("timeout", "timeout"), Plain)
    BY Zenon, <2>1, <2>2, PartGoesOn
  <2> QED BY <2>3, TransactionIsFlow DEF HtlcFlow
<1>3. IsFlow(VestingFlow) /\ IsPart(VestingFlow, Plain)
  <2>1. /\ "owner address" \notin Plain /\ "single vesting block" \notin Plain
        /\ "start block" \notin Plain /\ "period" \notin Plain
        /\ "step count" \notin Plain /\ "step block count" \notin Plain
        /\ "first step block count" \notin Plain /\ "step amount" \notin Plain
        /\ "first step amount" \notin Plain /\ "last step amount" \notin Plain
        /\ "pre vested amount" \notin Plain
    BY DEF Plain, MessageNames, DisplayTypes
  <2>2. IsPart(Optional("owner address", "foreign owner"), Plain)
    BY <2>1, StepIsPart
  <2>3. IsPart(
          Optional("owner address", "foreign owner") \o Optional("single vesting block", "single")
          \o Optional("start block", "multi") \o Optional("period", "multi")
          \o Optional("step count", "multi") \o Optional("step block count", "multi")
          \o Optional("first step block count", "first duration")
          \o Optional("step amount", "step amount")
          \o Optional("first step amount", "first amount")
          \o Optional("last step amount", "last amount")
          \o Optional("pre vested amount", "pre vested"), Plain)
    BY Zenon, <2>1, <2>2, PartGoesOn
  <2> QED BY <2>3, TransactionIsFlow DEF VestingFlow
<1>4. IsFlow(StakingFlow) /\ IsPart(StakingFlow, Plain)
  <2>1. /\ "data amount" \notin Plain /\ "staker" \notin Plain
        /\ "delegation" \notin Plain /\ "reactivate" \notin Plain
    BY DEF Plain, MessageNames, DisplayTypes
  <2>2. IsPart(Optional("data amount", "data amount"), Plain)
    BY <2>1, StepIsPart
  <2>3. IsPart(
          Optional("data amount", "data amount") \o Optional("staker", "foreign staker")
          \o Optional("delegation", "delegation") \o Optional("reactivate", "update staker"),
          Plain)
    BY Zenon, <2>1, <2>2, PartGoesOn
  <2> QED BY <2>3, TransactionIsFlow DEF StakingFlow
<1>5. IsFlow(PublicKeyFlow) /\ IsPart(PublicKeyFlow, Plain)
  <2>1. "address" \notin Plain /\ "approve" \notin Plain /\ "reject" \notin Plain
    BY DEF Plain, MessageNames, DisplayTypes
  <2>2. Begins(Step("address"), Plain)
    BY <2>1, StepBegins
  <2> QED BY <2>1, <2>2, FlowEnds DEF PublicKeyFlow
<1> QED BY <1>1, <1>2, <1>3, <1>4, <1>5

\* What the proofs below need to know of a flow.
LEMMA FlowFacts ==
  ASSUME NEW f \in AllFlows
  PROVE  /\ f # <<>> /\ Len(f) \in Nat \ {0} /\ DOMAIN f = 1..Len(f)
         /\ f[1].condition = "always" /\ f[1].name \notin Plain
         /\ f[Len(f)].condition = "always" /\ f[Len(f)].name \notin Plain
<1>1. IsFlow(f)
  BY MessageIsFlow, OtherFlowsAreFlows DEF AllFlows
<1>2. PICK S : f \in Seq(S)
  BY <1>1 DEF IsFlow, IsSequence
<1>3. Len(f) \in Nat \ {0}
  BY <1>1 DEF IsFlow
<1>4. DOMAIN f = 1..Len(f) /\ (f = <<>> => Len(f) = 0)
  BY <1>2
<1>5. 1 \in {1, Len(f)} /\ Len(f) \in {1, Len(f)}
  OBVIOUS
<1> QED BY Zenon, <1>1, <1>3, <1>4, <1>5, 0 \notin Nat \ {0} DEF IsFlow

\* The third step of the message flow is the one that prints the message; the steps
\* that relaunch the flow are behind it.
LEMMA MessageFacts ==
  /\ Len(MessageFlow) >= 3
  /\ \A i \in 1..3 : /\ MessageFlow[i].condition = "always"
                     /\ MessageFlow[i].name \notin DisplayTypes \cup {"none"}
  /\ \A i \in 1..2 : MessageFlow[i].name # "message"
  /\ MessageFlow[3].name = "message"
<1> DEFINE f == MessageFlow
<1>1. StartsWith(f, "intro", "message length", "message")
  BY MessageIsFlow DEF IsMessage
<1> HIDE DEF f
<1>2. /\ Len(f) >= 3 /\ \A i \in 1..3 : f[i].condition = "always"
      /\ f[1].name = "intro" /\ f[2].name = "message length" /\ f[3].name = "message"
  BY Zenon, <1>1 DEF StartsWith
<1>3. \A i \in 1..3 : i = 1 \/ i = 2 \/ i = 3
  OBVIOUS
<1>4. \A i \in 1..2 : i = 1 \/ i = 2
  OBVIOUS
<1>5. /\ "intro" \notin DisplayTypes \cup {"none"}
      /\ "message length" \notin DisplayTypes \cup {"none"}
      /\ "message" \notin DisplayTypes \cup {"none"}
  BY DEF DisplayTypes
<1>6. "intro" # "message" /\ "message length" # "message"
  OBVIOUS
<1> QED BY Zenon, <1>2, <1>3, <1>4, <1>5, <1>6 DEF f

\* Steps with the given name depend on the given condition.
Requires(s, name, condition) ==
  IsSequence(s) /\ \A i \in 1..Len(s) : s[i].name = name => s[i].condition = condition

\* A step that has the name has the condition, or has another name.
LEMMA StepRequires ==
  ASSUME NEW name, NEW condition, NEW other, NEW otherCondition,
         other # name \/ otherCondition = condition
  PROVE  Requires(Optional(other, otherCondition), name, condition)
<1> DEFINE step == Optional(other, otherCondition)
<1>1. /\ IsPart(step, {}) /\ Len(step) = 1
      /\ step[1].name = other /\ step[1].condition = otherCondition
  <2>1. other \notin {}
    OBVIOUS
  <2> QED BY Zenon, <2>1, StepIsPart
<1> HIDE DEF step
<1>2. IsSequence(step)
  BY <1>1 DEF IsPart
<1>3. \A i \in 1..Len(step) : i = 1
  BY <1>1
<1>4. Requires(step, name, condition)
  BY Zenon, <1>1, <1>2, <1>3 DEF Requires
<1> QED BY <1>4 DEF step

\* Steps one after the other.
LEMMA TogetherRequire ==
  ASSUME NEW s, NEW t, NEW name, NEW condition,
         Requires(s, name, condition), Requires(t, name, condition)
  PROVE  Requires(s \o t, name, condition)
<1> DEFINE f == s \o t
<1>1. IsJoin(f, s, t)
  BY SequencesTogether DEF Requires
<1> HIDE DEF f
<1>2. ASSUME NEW i \in 1..Len(f), f[i].name = name PROVE f[i].condition = condition
  <2>1. CASE i <= Len(s)
    <3>1. i \in 1..Len(s)
      BY <1>1, <2>1 DEF IsJoin
    <3> QED BY <1>1, <1>2, <3>1 DEF Requires, IsJoin
  <2>2. CASE ~(i <= Len(s))
    <3> DEFINE j == i - Len(s)
    <3>1. j \in 1..Len(t) /\ i = Len(s) + j
      BY <1>1, <2>2 DEF IsJoin
    <3> HIDE DEF j
    <3>2. f[i] = t[j]
      BY <1>1, <3>1 DEF IsJoin
    <3> QED BY <1>2, <3>1, <3>2 DEF Requires
  <2> QED BY <2>1, <2>2
<1>3. Requires(f, name, condition)
  BY <1>1, <1>2 DEF Requires, IsJoin
<1> QED BY <1>3 DEF f

\* The conditions of the display type steps of the message flow.
LEMMA DisplayTypesRequire ==
  Requires(MessageFlow, "ASCII", "ascii") /\ Requires(MessageFlow, "HEX", "printable")
<1>1. ASSUME NEW name, NEW condition,
             \/ name = "ASCII" /\ condition = "ascii"
             \/ name = "HEX" /\ condition = "printable"
      PROVE  Requires(MessageFlow, name, condition)
  <2>1. /\ Requires(Step("intro"), name, condition)
        /\ Requires(Step("message length"), name, condition)
        /\ Requires(Step("message"), name, condition)
        /\ Requires(Step("approve"), name, condition)
        /\ Requires(Step("reject"), name, condition)
    BY <1>1, StepRequires, StepIsOptional
  <2>2. /\ Requires(Optional("ASCII", "ascii"), name, condition)
        /\ Requires(Optional("HEX", "printable"), name, condition)
        /\ Requires(Optional("HASH", "always"), name, condition)
    BY <1>1, StepRequires
  <2> QED BY Zenon, <2>1, <2>2, TogetherRequire DEF MessageFlow, Decide
<1> QED BY <1>1

-----------------------------------------------------------------------------
(* Moving between steps *)

VisibleSteps == {i \in 1..Len(flow) : Visible(i)}

\* Both ends of a flow are visible, whatever the conditions and the display type are.
LEMMA EndsAreVisible ==
  ASSUME flow \in AllFlows, displayType \in DisplayTypes \cup {"none"}
  PROVE  Spans(VisibleSteps, Len(flow)) /\ DOMAIN flow = 1..Len(flow)
<1>1. /\ Len(flow) \in Nat \ {0} /\ DOMAIN flow = 1..Len(flow)
      /\ flow[1].condition = "always" /\ flow[1].name \notin Plain
      /\ flow[Len(flow)].condition = "always" /\ flow[Len(flow)].name \notin Plain
  BY FlowFacts
<1>2. displayType \in Plain
  BY DEF Plain, MessageNames
<1>3. Visible(1) /\ Visible(Len(flow))
  BY <1>1, <1>2 DEF Visible, IsShown
<1>4. 1 \in 1..Len(flow) /\ Len(flow) \in 1..Len(flow)
  BY <1>1
<1> QED BY <1>1, <1>3, <1>4 DEF Spans, VisibleSteps

\* A step that is reached comes to rest at the nearest visible one.
LEMMA RestIsNearest ==
  ASSUME flow \in AllFlows, displayType \in DisplayTypes \cup {"none"},
         NEW j \in 1..Len(flow)
  PROVE  /\ IsNext(VisibleSteps, j, Rest(j, "forward"))
         /\ IsPrevious(VisibleSteps, j, Rest(j, "backward"))
<1> DEFINE n == Len(flow)
           walk == CHOOSE rest : IsWalk(rest, VisibleSteps, n)
<1>1. Spans(VisibleSteps, n) /\ DOMAIN flow = 1..n
  BY EndsAreVisible
<1>2. IsWalk(walk, VisibleSteps, n)
  BY Zenon, <1>1, WalkExists
<1>3. Rest(j, "forward") = walk[<<j, "forward">>] /\ Rest(j, "backward") = walk[<<j, "backward">>]
  BY <1>1 DEF Rest, IsWalk, VisibleSteps
<1> QED BY <1>1, <1>2, <1>3, WalkIsNearest

-----------------------------------------------------------------------------
(* The inductive invariant *)

\* Every visible step up to the one on the screen was displayed, with what it would
\* display now.
UpToHereSeen ==
  \A i \in VisibleSteps :
    i <= index => <<flow[i].name, Content(flow[i], displayType)>> \in seen

FlowInv ==
  InFlow =>
    /\ flow \in AllFlows /\ displayType \in DisplayTypes \cup {"none"}
    /\ index \in VisibleSteps
    /\ UpToHereSeen
    /\ PrintedMessageIsOfStep

\* Showing a step of the same flow keeps the invariant if the steps before it were seen.
LEMMA ShowKeepsInvariant ==
  ASSUME flow \in AllFlows, displayType \in DisplayTypes \cup {"none"},
         NEW i \in VisibleSteps, Show(flow, i, displayType),
         UNCHANGED <<flow, conditions, displayType>>,
         \A k \in VisibleSteps :
           k < i => <<flow[k].name, Content(flow[k], displayType)>> \in seen
  PROVE  FlowInv'
<1>1. VisibleSteps' = VisibleSteps
  BY DEF VisibleSteps, Visible, IsShown
<1>2. /\ flow' = flow /\ displayType' = displayType /\ index' = i
      /\ printedMessage' = Printed(flow[i], displayType)
      /\ seen' = seen \cup {<<flow[i].name, Content(flow[i], displayType)>>}
  BY DEF Show
<1>3. UpToHereSeen'
  <2>1. ASSUME NEW k \in VisibleSteps, k <= i
        PROVE  <<flow[k].name, Content(flow[k], displayType)>> \in seen'
    <3>1. k \in Int /\ i \in Int
      BY EndsAreVisible DEF Spans
    <3>2. CASE k = i
      BY <1>2, <3>2
    <3>3. CASE k # i
      BY <1>2, <2>1, <3>1, <3>3
    <3> QED BY <3>2, <3>3
  <2>2. \A k : Content(flow[k], displayType)' = Content(flow[k], displayType)
    BY <1>2 DEF Content
  <2> QED BY <1>1, <1>2, <2>1, <2>2 DEF UpToHereSeen
<1>4. PrintedMessageIsOfStep'
  BY <1>2 DEF PrintedMessageIsOfStep, Printed, InFlow
<1> QED BY <1>1, <1>2, <1>3, <1>4 DEF FlowInv

\* A flow is launched.
LEMMA LaunchKeepsInvariant ==
  ASSUME FlowInv, NEW f \in Flows, Launch(f)
  PROVE  FlowInv'
<1>1. f \in AllFlows
  BY FlowsAssumption
<1>2. /\ flow' = f /\ index' = 1
      /\ seen' = {<<f[1].name, Content(f[1], displayType')>>}
      /\ displayType' \in DisplayTypes \cup {"none"}
  BY DEF Launch
<1>3. /\ Len(f) \in Nat \ {0}
      /\ f[1].condition = "always" /\ f[1].name \notin Plain
  BY <1>1, FlowFacts
<1>4. displayType' \in Plain
  BY <1>2 DEF Plain, MessageNames
<1>5. 1 \in VisibleSteps'
  BY <1>2, <1>3, <1>4 DEF VisibleSteps, Visible, IsShown
<1>6. UpToHereSeen'
  <2>1. \A k \in VisibleSteps' : k <= 1 => k = 1
    BY <1>2, <1>3 DEF VisibleSteps
  <2> QED BY <1>2, <2>1 DEF UpToHereSeen, Content
<1>7. PrintedMessageIsOfStep'
  BY <1>2, <1>3 DEF PrintedMessageIsOfStep, Plain, MessageNames
<1> QED BY <1>1, <1>2, <1>5, <1>6, <1>7 DEF FlowInv

\* The buttons leave out no visible step.
LEMMA ButtonsKeepInvariant ==
  ASSUME FlowInv, Right \/ Left
  PROVE  FlowInv'
<1>1. InFlow
  BY DEF Right, Left, InFlow
<1>2. /\ flow \in AllFlows /\ displayType \in DisplayTypes \cup {"none"}
      /\ index \in VisibleSteps /\ UpToHereSeen
  BY <1>1 DEF FlowInv
<1>3. /\ Len(flow) \in Nat /\ VisibleSteps \subseteq 1..Len(flow)
  BY <1>2, EndsAreVisible DEF Spans
<1>4. CASE Right
  <2> DEFINE i == Rest(index + 1, "forward")
  <2>1. index + 1 \in 1..Len(flow)
    BY <1>2, <1>3, <1>4 DEF Right
  <2>2. IsNext(VisibleSteps, index + 1, i)
    BY <1>2, <2>1, RestIsNearest
  <2>3. Show(flow, i, displayType) /\ UNCHANGED <<flow, conditions, displayType>>
    BY <1>4 DEF Right
  <2> HIDE DEF i
  <2>4. i \in VisibleSteps /\ \A k \in VisibleSteps : k < i => k <= index
    BY <1>2, <1>3, <2>2 DEF IsNext
  <2>5. \A k \in VisibleSteps :
          k < i => <<flow[k].name, Content(flow[k], displayType)>> \in seen
    BY <1>2, <2>4 DEF UpToHereSeen
  <2> QED BY <1>2, <2>3, <2>4, <2>5, ShowKeepsInvariant
<1>5. CASE Left
  <2> DEFINE i == Rest(index - 1, "backward")
  <2>1. index - 1 \in 1..Len(flow)
    BY <1>2, <1>3, <1>5 DEF Left
  <2>2. IsPrevious(VisibleSteps, index - 1, i)
    BY <1>2, <2>1, RestIsNearest
  <2>3. Show(flow, i, displayType) /\ UNCHANGED <<flow, conditions, displayType>>
    BY <1>5 DEF Left
  <2> HIDE DEF i
  <2>4. i \in VisibleSteps /\ \A k \in VisibleSteps : k < i => k <= index
    BY <1>2, <1>3, <2>2 DEF IsPrevious
  <2>5. \A k \in VisibleSteps :
          k < i => <<flow[k].name, Content(flow[k], displayType)>> \in seen
    BY <1>2, <2>4 DEF UpToHereSeen
  <2> QED BY <1>2, <2>3, <2>4, <2>5, ShowKeepsInvariant
<1> QED BY <1>4, <1>5

\* The flow is relaunched at the message with another display type: the steps before
\* the message are visible with both, and do not display it.
LEMMA SwitchKeepsInvariant ==
  ASSUME FlowInv, SwitchDisplay
  PROVE  FlowInv'
<1> DEFINE type == flow[index].name
<1>1. /\ flow = MessageFlow /\ flow' = flow /\ conditions' = conditions
      /\ displayType' = type /\ type \in DisplayTypes
      /\ index' = 3 /\ printedMessage' = Printed(flow[3], type)
      /\ seen' = seen \cup {<<flow[3].name, Content(flow[3], type)>>}
  BY DEF SwitchDisplay, Show, MessageStep
<1>2. InFlow
  <2>1. MessageFlow # <<>>
    BY FlowFacts DEF AllFlows
  <2> QED BY <1>1, <2>1 DEF InFlow
<1>3. /\ flow \in AllFlows /\ displayType \in DisplayTypes \cup {"none"}
      /\ index \in VisibleSteps /\ UpToHereSeen
  BY <1>2 DEF FlowInv
<1>4. Len(flow) \in Nat /\ VisibleSteps \subseteq 1..Len(flow)
  BY <1>3, EndsAreVisible DEF Spans
<1>5. /\ Len(flow) >= 3
      /\ \A i \in 1..3 : /\ flow[i].condition = "always"
                         /\ flow[i].name \notin DisplayTypes \cup {"none"}
      /\ \A i \in 1..2 : flow[i].name # "message"
      /\ flow[3].name = "message"
  BY <1>1, MessageFacts
<1>6. index > 3
  BY <1>1, <1>3, <1>4, <1>5
<1>7. \A i \in 1..3 : i \in VisibleSteps /\ i \in VisibleSteps'
  BY <1>1, <1>3, <1>4, <1>5 DEF VisibleSteps, Visible, IsShown
<1>8. index' \in VisibleSteps'
  BY <1>1, <1>7
<1>9. UpToHereSeen'
  <2>1. ASSUME NEW k \in VisibleSteps', k <= 3
        PROVE  <<flow[k].name, Content(flow[k], type)>> \in seen'
    <3>1. k \in 1..3
      BY <1>1, <2>1 DEF VisibleSteps
    <3>2. CASE k = 3
      BY <1>1, <3>2
    <3>3. CASE k # 3
      <4>1. k \in 1..2 /\ k \in VisibleSteps /\ k <= index
        BY <1>3, <1>4, <1>6, <1>7, <3>1, <3>3
      <4>2. <<flow[k].name, Content(flow[k], displayType)>> \in seen
        BY <1>3, <4>1 DEF UpToHereSeen
      <4>3. Content(flow[k], type) = Content(flow[k], displayType)
        BY <1>5, <4>1 DEF Content
      <4> QED BY <1>1, <4>2, <4>3
    <3> QED BY <3>2, <3>3
  <2>2. \A k : Content(flow[k], displayType)' = Content(flow[k], type)
    BY <1>1 DEF Content
  <2> HIDE DEF type
  <2> QED BY <1>1, <2>1, <2>2 DEF UpToHereSeen
<1>10. PrintedMessageIsOfStep'
  <2> HIDE DEF type
  <2>1. flow'[index'].name = "message" /\ printedMessage' = displayType'
    BY <1>1, <1>5 DEF Printed
  <2> QED BY <2>1 DEF PrintedMessageIsOfStep
<1> QED BY <1>1, <1>3, <1>8, <1>9, <1>10 DEF FlowInv

\* Every step keeps the invariant.
LEMMA NextKeepsInvariant == FlowInv /\ [Next]_vars => FlowInv'
<1> SUFFICES ASSUME FlowInv, [Next]_vars PROVE FlowInv'
  OBVIOUS
<1>1. CASE \E f \in Flows : Launch(f)
  BY <1>1, LaunchKeepsInvariant
<1>2. CASE Right \/ Left
  BY <1>2, ButtonsKeepInvariant
<1>3. CASE SwitchDisplay
  BY <1>3, SwitchKeepsInvariant
<1>4. CASE Validate \/ Reset
  BY <1>4 DEF Validate, Reset, BackToMenu, FlowInv, InFlow
<1>5. CASE UNCHANGED vars
  BY <1>5 DEF vars, FlowInv, InFlow, UpToHereSeen, VisibleSteps, Visible, IsShown, Content,
              PrintedMessageIsOfStep
<1> QED BY <1>1, <1>2, <1>3, <1>4, <1>5 DEF Next

\* A review is always in a state of the invariant.
LEMMA AlwaysInvariant == Spec => []FlowInv
<1>1. Init => FlowInv
  BY DEF Init, FlowInv, InFlow
<1> QED BY <1>1, NextKeepsInvariant, PTL DEF Spec

-----------------------------------------------------------------------------
(* What the invariant implies *)

\* Nobody sees a step whose condition does not hold, or one that is about the display
\* type the message has anyway.
THEOREM OnlyVisibleStepsAreShown == Spec => []RestsOnVisibleStep
<1>1. FlowInv => RestsOnVisibleStep
  BY EndsAreVisible DEF FlowInv, RestsOnVisibleStep, VisibleSteps
<1> QED BY <1>1, AlwaysInvariant, PTL

\* The buffer of the message flow is filled by the step on the screen.
THEOREM BufferIsOfStep == Spec => []PrintedMessageIsOfStep
<1>1. FlowInv => PrintedMessageIsOfStep
  BY DEF FlowInv, PrintedMessageIsOfStep
<1> QED BY <1>1, AlwaysInvariant, PTL

\* The approve step is reached behind every other visible step only.
THEOREM ApprovedIsSeen == Spec => []NothingIsApprovedUnseen
<1>1. FlowInv => NothingIsApprovedUnseen
  <2> SUFFICES ASSUME FlowInv, InFlow, NEW i \in 1..(index - 1), Visible(i)
               PROVE  <<flow[i].name, Content(flow[i], displayType)>> \in seen
    BY DEF NothingIsApprovedUnseen
  <2>1. /\ flow \in AllFlows /\ displayType \in DisplayTypes \cup {"none"}
        /\ index \in VisibleSteps /\ UpToHereSeen
    BY DEF FlowInv
  <2>2. Len(flow) \in Nat /\ VisibleSteps \subseteq 1..Len(flow)
    BY <2>1, EndsAreVisible DEF Spans
  <2>3. i \in VisibleSteps /\ i <= index
    BY <2>1, <2>2 DEF VisibleSteps
  <2> QED BY <2>1, <2>3 DEF UpToHereSeen
<1> QED BY <1>1, AlwaysInvariant, PTL

\* Skipping hidden steps ends at the nearest visible step of the direction.
THEOREM ButtonsGoToNearest == Spec => []NavigatesVisibleSteps
<1>1. FlowInv => NavigatesVisibleSteps
  <2> SUFFICES ASSUME FlowInv, InFlow
               PROVE  /\ index < Len(flow) =>
                           Rest(index + 1, "forward") =
                             Min({i \in DOMAIN flow : i > index /\ Visible(i)})
                      /\ index > 1 =>
                           Rest(index - 1, "backward") =
                             Max({i \in DOMAIN flow : i < index /\ Visible(i)})
    BY DEF NavigatesVisibleSteps
  <2>1. /\ flow \in AllFlows /\ displayType \in DisplayTypes \cup {"none"}
        /\ index \in VisibleSteps
    BY DEF FlowInv
  <2>2. Len(flow) \in Nat /\ VisibleSteps \subseteq 1..Len(flow) /\ DOMAIN flow = 1..Len(flow)
    BY <2>1, EndsAreVisible DEF Spans
  <2> DEFINE next == Rest(index + 1, "forward")
             previous == Rest(index - 1, "backward")
             behind == {i \in DOMAIN flow : i > index /\ Visible(i)}
             before == {i \in DOMAIN flow : i < index /\ Visible(i)}
  <2>3. /\ behind = {i \in VisibleSteps : index + 1 <= i}
        /\ before = {i \in VisibleSteps : i <= index - 1}
    BY <2>1, <2>2 DEF VisibleSteps
  <2>4. ASSUME index < Len(flow) PROVE next = Min(behind)
    <3>1. index + 1 \in 1..Len(flow)
      BY <2>1, <2>2, <2>4
    <3>2. IsNext(VisibleSteps, index + 1, next)
      BY <2>1, <3>1, RestIsNearest
    <3> HIDE DEF next, behind
    <3>3. next \in behind /\ \A k \in behind : next <= k
      BY <2>3, <3>2 DEF IsNext
    <3>4. \A k \in behind : (\A i \in behind : k <= i) => k = next
      BY <2>2, <2>3, <3>3
    <3> QED BY <3>3, <3>4 DEF Min
  <2>5. ASSUME index > 1 PROVE previous = Max(before)
    <3>1. index - 1 \in 1..Len(flow)
      BY <2>1, <2>2, <2>5
    <3>2. IsPrevious(VisibleSteps, index - 1, previous)
      BY <2>1, <3>1, RestIsNearest
    <3> HIDE DEF previous, before
    <3>3. previous \in before /\ \A k \in before : k <= previous
      BY <2>3, <3>2 DEF IsPrevious
    <3>4. \A k \in before : (\A i \in before : i <= k) => k = previous
      BY <2>2, <2>3, <3>3
    <3> QED BY <3>3, <3>4 DEF Max
  <2> QED BY <2>4, <2>5
<1> QED BY <1>1, AlwaysInvariant, PTL
=============================================================================
