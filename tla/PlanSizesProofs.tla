-------------------------- MODULE PlanSizesProofs --------------------------
(***************************************************************************)
(* What VolumeSize gives, for every plan whose Step is positive and every  *)
(* request.                                                                *)
(***************************************************************************)
EXTENDS PlanSizes, TLAPS

(* Integer division by a positive number rounds down.                      *)
LEMMA Division ==
  ASSUME NEW a \in Int, NEW b \in Nat \ {0}
  PROVE  a \div b \in Int /\ b * (a \div b) <= a /\ a < b * (a \div b) + b
OBVIOUS

(* Multiples of a positive number are in the order of their factors, and   *)
(* at least that number apart.                                             *)
LEMMA Multiples ==
  ASSUME NEW i \in Int, NEW j \in Int, NEW b \in Nat \ {0}, i < j
  PROVE  b * i + b <= b * j
OBVIOUS

LEMMA CeilBounds ==
  ASSUME NEW a \in Int, NEW b \in Nat \ {0}
  PROVE  Ceil(a, b) \in Int /\ a <= b * Ceil(a, b) /\ b * Ceil(a, b) < a + b
<1> DEFINE q == (-a) \div b
<1>1. q \in Int /\ b * q <= -a /\ -a < b * q + b
  <2>1. -a \in Int
    OBVIOUS
  <2>2. QED
    BY <2>1, Division
<1>2. Ceil(a, b) = -q
  BY DEF Ceil
<1>3. b * (-q) = -(b * q)
  BY <1>1
<1>4. b * q \in Int
  BY <1>1
<1> HIDE DEF q
<1>5. QED
  BY <1>1, <1>2, <1>3, <1>4

(* Ceil is the only such number.                                           *)
LEMMA CeilIsUnique ==
  ASSUME NEW a \in Int, NEW b \in Nat \ {0}, NEW k \in Int,
         a <= b * k, b * k < a + b
  PROVE  Ceil(a, b) = k
<1> DEFINE c == Ceil(a, b)
<1>1. c \in Int /\ a <= b * c /\ b * c < a + b
  BY CeilBounds
<1> HIDE DEF c
<1>2. b * c \in Int /\ b * k \in Int
  BY <1>1
<1>3. ASSUME c < k PROVE FALSE
  <2>1. b * c + b <= b * k
    BY <1>1, <1>3, Multiples
  <2>2. QED
    BY <1>1, <1>2, <2>1
<1>4. ASSUME k < c PROVE FALSE
  <2>1. b * k + b <= b * c
    BY <1>1, <1>4, Multiples
  <2>2. QED
    BY <1>1, <1>2, <2>1
<1>5. c = k
  BY <1>1, <1>3, <1>4
<1>6. QED
  BY <1>5 DEF c

LEMMA StepBounds ==
  ASSUME NEW plan \in Plans, NEW size \in Int
  PROVE  /\ UpToStep(plan, size) \in Int
         /\ size <= UpToStep(plan, size)
         /\ UpToStep(plan, size) < size + plan.Step
<1>1. plan.Default \in Int /\ plan.Step \in Nat \ {0} /\ size - plan.Default \in Int
  BY DEF Plans
<1> DEFINE c == Ceil(size - plan.Default, plan.Step)
<1>2. /\ c \in Int
      /\ size - plan.Default <= plan.Step * c
      /\ plan.Step * c < size - plan.Default + plan.Step
  BY <1>1, CeilBounds
<1>3. UpToStep(plan, size) = plan.Default + plan.Step * c
  BY DEF UpToStep
<1> HIDE DEF c
<1>4. plan.Step * c \in Int
  BY <1>1, <1>2
<1>5. QED
  BY <1>1, <1>2, <1>3, <1>4

(* A larger size is never taken up to a smaller step.                      *)
LEMMA StepsGrow ==
  ASSUME NEW plan \in Plans, NEW s \in Int, NEW t \in Int, s <= t
  PROVE  UpToStep(plan, s) <= UpToStep(plan, t)
<1>1. plan.Default \in Int /\ plan.Step \in Nat \ {0}
  BY DEF Plans
<1> DEFINE c == Ceil(s - plan.Default, plan.Step)
           d == Ceil(t - plan.Default, plan.Step)
<1>2. /\ c \in Int /\ plan.Step * c < s - plan.Default + plan.Step
      /\ d \in Int /\ t - plan.Default <= plan.Step * d
  <2>1. s - plan.Default \in Int /\ t - plan.Default \in Int
    BY <1>1
  <2>2. QED
    BY <1>1, <2>1, CeilBounds
<1>3. /\ UpToStep(plan, s) = plan.Default + plan.Step * c
      /\ UpToStep(plan, t) = plan.Default + plan.Step * d
  BY DEF UpToStep
<1> HIDE DEF c, d
<1>4. plan.Step * c \in Int /\ plan.Step * d \in Int
  BY <1>1, <1>2
<1>5. CASE c = d
  BY <1>1, <1>3, <1>4, <1>5
<1>6. CASE c < d
  <2>1. plan.Step * c + plan.Step <= plan.Step * d
    BY <1>1, <1>2, <1>6, Multiples
  <2>2. QED
    BY <1>1, <1>3, <1>4, <2>1
<1>7. CASE d < c
  <2>1. plan.Step * d + plan.Step <= plan.Step * c
    BY <1>1, <1>2, <1>7, Multiples
  <2>2. QED
    BY <1>1, <1>2, <1>4, <2>1
<1>8. QED
  BY <1>2, <1>5, <1>6, <1>7

LEMMA WantedIsInt ==
  ASSUME NEW plan \in Plans, NEW asked \in Requested
  PROVE  Wanted(plan, asked) \in Int
<1>1. plan.bullet \in Int /\ asked.tenths \in Int
  BY DEF Plans, Requested
<1>2. Rounded(asked.tenths) \in Int
  BY <1>1 DEF Rounded
<1>3. QED
  BY <1>1, <1>2 DEF Wanted

(* A request gets at least what it asks for, unless that is cut at Max,    *)
(* and no more than a step above it: a size can be zero or negative only   *)
(* if that was asked for, or if the plan's Max is (main.go:820-825).       *)
THEOREM SizeSuffices ==
  ASSUME NEW plan \in Plans, NEW asked \in Requested
  PROVE  LET size == VolumeSize(plan, asked)
         IN /\ size \in Int
            /\ size >= Wanted(plan, asked) \/ size = plan.Max
            /\ size < Wanted(plan, asked) + plan.Step
            /\ plan.customized => size <= plan.Max
<1> DEFINE w == Wanted(plan, asked)
<1>1. w \in Int
  BY WantedIsInt
<1>2. plan.Max \in Int /\ plan.Step \in Nat \ {0}
  BY DEF Plans
<1>3. VolumeSize(plan, asked) =
        IF ~plan.customized THEN w
        ELSE IF UpToStep(plan, w) > plan.Max THEN plan.Max ELSE UpToStep(plan, w)
  BY DEF VolumeSize
<1> HIDE DEF w
<1>4. UpToStep(plan, w) \in Int /\ w <= UpToStep(plan, w) /\ UpToStep(plan, w) < w + plan.Step
  BY <1>1, StepBounds
<1> USE DEF w
<1>5. CASE ~plan.customized
  BY <1>1, <1>2, <1>3, <1>5
<1>6. CASE plan.customized /\ UpToStep(plan, w) > plan.Max
  BY <1>1, <1>2, <1>3, <1>4, <1>6
<1>7. CASE plan.customized /\ ~(UpToStep(plan, w) > plan.Max)
  BY <1>1, <1>2, <1>3, <1>4, <1>7
<1>8. QED
  BY <1>5, <1>6, <1>7

(* Who asks for more gets no less, so that an Update that asks for more    *)
(* than the instance was provisioned with is not refused as a smaller size *)
(* (main.go:411).                                                          *)
THEOREM SizesGrowTogether ==
  ASSUME NEW plan \in Plans, NEW less \in Requested, NEW more \in Requested,
         Wanted(plan, less) <= Wanted(plan, more)
  PROVE  VolumeSize(plan, less) <= VolumeSize(plan, more)
<1> DEFINE s == Wanted(plan, less)
           t == Wanted(plan, more)
<1>1. s \in Int /\ t \in Int /\ s <= t
  BY WantedIsInt
<1>2. plan.Max \in Int
  BY DEF Plans
<1>3. /\ VolumeSize(plan, less) =
           IF ~plan.customized THEN s
           ELSE IF UpToStep(plan, s) > plan.Max THEN plan.Max ELSE UpToStep(plan, s)
      /\ VolumeSize(plan, more) =
           IF ~plan.customized THEN t
           ELSE IF UpToStep(plan, t) > plan.Max THEN plan.Max ELSE UpToStep(plan, t)
  BY DEF VolumeSize
<1> HIDE DEF s, t
<1>4. /\ UpToStep(plan, s) \in Int /\ UpToStep(plan, t) \in Int
      /\ UpToStep(plan, s) <= UpToStep(plan, t)
  BY <1>1, StepBounds, StepsGrow
<1>5. CASE ~plan.customized
  BY <1>1, <1>3, <1>5
<1>6. CASE plan.customized
  BY <1>2, <1>3, <1>4, <1>6
<1>7. QED
  BY <1>5, <1>6

(* Asking for the size one has changes nothing: an Update with the         *)
(* recorded size finds the same size again and leaves the volumes alone    *)
(* (main.go:407).                                                          *)
THEOREM AskingAgainIsIdle ==
  ASSUME NEW plan \in Plans, NEW asked \in Requested
  PROVE  VolumeSize(plan, AsksFor(10 * VolumeSize(plan, asked))) = VolumeSize(plan, asked)
<1> DEFINE size == VolumeSize(plan, asked)
           w == Wanted(plan, asked)
<1>1. size \in Int /\ w \in Int
  BY SizeSuffices, WantedIsInt
<1>2. plan.Max \in Int /\ plan.Default \in Int /\ plan.Step \in Nat \ {0}
  BY DEF Plans
<1>3. Wanted(plan, AsksFor(10 * size)) = size
  <2>1. Rounded(10 * size) = size
    BY <1>1 DEF Rounded
  <2>2. QED
    BY <2>1 DEF Wanted, AsksFor
<1>4. VolumeSize(plan, AsksFor(10 * size)) =
        IF ~plan.customized THEN size
        ELSE IF UpToStep(plan, size) > plan.Max THEN plan.Max ELSE UpToStep(plan, size)
  BY <1>3 DEF VolumeSize
<1>5. size = IF ~plan.customized THEN w
             ELSE IF UpToStep(plan, w) > plan.Max THEN plan.Max ELSE UpToStep(plan, w)
  BY DEF VolumeSize
<1> HIDE DEF size, w
<1>6. CASE ~plan.customized
  BY <1>4, <1>6 DEF size
<1>7. CASE plan.customized /\ UpToStep(plan, w) > plan.Max
  <2>1. size = plan.Max
    BY <1>5, <1>7
  <2>2. UpToStep(plan, size) \in Int /\ size <= UpToStep(plan, size)
    BY <1>1, StepBounds
  <2>3. VolumeSize(plan, AsksFor(10 * size)) = size
    BY <1>1, <1>4, <1>7, <2>1, <2>2
  <2>4. QED
    BY <2>3 DEF size
<1>8. CASE plan.customized /\ ~(UpToStep(plan, w) > plan.Max)
  <2>1. size = UpToStep(plan, w)
    BY <1>5, <1>8
  <2> DEFINE k == Ceil(w - plan.Default, plan.Step)
  <2>2. k \in Int
    <3>1. w - plan.Default \in Int
      BY <1>1, <1>2
    <3>2. QED
      BY <3>1, <1>2, CeilBounds
  <2>3. size = plan.Default + plan.Step * k
    BY <2>1 DEF UpToStep
  <2> HIDE DEF k
  <2>4. plan.Step * k \in Int /\ size - plan.Default = plan.Step * k
    BY <1>2, <2>2, <2>3
  <2>5. Ceil(size - plan.Default, plan.Step) = k
    <3>1. size - plan.Default \in Int /\ plan.Step * k < size - plan.Default + plan.Step
      BY <1>2, <2>4
    <3>2. QED
      BY <1>2, <2>2, <2>4, <3>1, CeilIsUnique
  <2>6. UpToStep(plan, size) = size
    BY <2>3, <2>5 DEF UpToStep
  <2>7. VolumeSize(plan, AsksFor(10 * size)) = size
    BY <1>4, <1>8, <2>1, <2>6
  <2>8. QED
    BY <2>7 DEF size
<1>9. QED
  BY <1>6, <1>7, <1>8
=============================================================================
