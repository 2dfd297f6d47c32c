----------------------------- MODULE Arithmetic -----------------------------
(***************************************************************************)
(* Facts about indices of a ring of C cells, cell = index % C, that every  *)
(* ring of the library rests on; about the window of a log that a ring     *)
(* holds: n elements, after the first k were popped; and about loops:      *)
(* what holds after every turn, by induction.                              *)
(***************************************************************************)
EXTENDS Integers, Sequences, TLAPS

LOCAL INSTANCE WellFoundedInduction

\* Division with remainder by the ring size.
LEMMA DivMod ==
  ASSUME NEW C \in Nat, C >= 1, NEW x \in Nat
  PROVE  /\ x % C \in 0..(C - 1)
         /\ x \div C \in Nat
         /\ x = C * (x \div C) + (x % C)
  BY SMT

\* Two different lap numbers are at least one lap apart.
LEMMA LapStep ==
  ASSUME NEW C \in Nat, C >= 1, NEW a \in Nat, NEW b \in Nat, a < b
  PROVE  C * a + C <= C * b
<1>1. PICK d \in Nat : b = a + 1 + d
  <2>1. b - a - 1 \in Nat  OBVIOUS
  <2>2. b = a + 1 + (b - a - 1)  OBVIOUS
  <2> QED  BY <2>1, <2>2
<1>2. C * b = C * a + C + C * d  BY <1>1
<1>3. C * d \in Nat  BY <1>1
<1> QED  BY <1>2, <1>3

\* Two different indices of the same cell are at least one lap apart.
LEMMA SameCell ==
  ASSUME NEW C \in Nat, C >= 1, NEW x \in Nat, NEW y \in Nat,
         x % C = y % C, x < y
  PROVE  x + C <= y
<1> DEFINE a == x \div C
           b == y \div C
           r == x % C
<1>1. r \in 0..(C - 1) /\ a \in Nat /\ x = C * a + r  BY DivMod
<1>2. b \in Nat /\ y = C * b + r  BY DivMod
<1> HIDE DEF a, b, r
<1>3. ~(b < a)  BY <1>1, <1>2, LapStep
<1>4. a # b  BY <1>1, <1>2
<1>5. a < b  BY <1>1, <1>2, <1>3, <1>4
<1>6. C * a + C <= C * b  BY <1>1, <1>2, <1>5, LapStep
<1>7. C * a \in Nat /\ C * b \in Nat  BY <1>1, <1>2
<1> QED  BY <1>1, <1>2, <1>6, <1>7

\* One lap later the index is back in the same cell.
LEMMA NextLap ==
  ASSUME NEW C \in Nat, C >= 1, NEW x \in Nat
  PROVE  (x + C) % C = x % C
<1> DEFINE a == x \div C
           r == x % C
           b == (x + C) \div C
           s == (x + C) % C
<1>0. x + C \in Nat  OBVIOUS
<1>1. r \in 0..(C - 1) /\ a \in Nat /\ x = C * a + r  BY DivMod
<1>2. s \in 0..(C - 1) /\ b \in Nat /\ x + C = C * b + s  BY <1>0, DivMod
<1> HIDE DEF a, r, b, s
<1>3. C * (a + 1) = C * a + C  BY <1>1
<1>4. ~(a + 1 < b)  BY <1>1, <1>2, <1>3, LapStep
<1>5. ~(b < a + 1)  BY <1>1, <1>2, <1>3, LapStep
<1>6. b = a + 1  BY <1>1, <1>2, <1>4, <1>5
<1>7. r = s  BY <1>1, <1>2, <1>3, <1>6
<1> QED  BY <1>7 DEF r, s

\* On the first lap the cell is the index itself.
LEMMA FirstLap ==
  ASSUME NEW C \in Nat, C >= 1, NEW x \in 0..(C - 1)
  PROVE  x % C = x
  BY SMT

\* Quotient and remainder are unique.
LEMMA ModUnique ==
  ASSUME NEW C \in Nat, C >= 1, NEW a \in Nat, NEW r \in 0..(C - 1)
  PROVE  (C * a + r) % C = r
<1> DEFINE x == C * a + r
           b == x \div C
           s == x % C
<1>1. C * a \in Nat /\ x \in Nat  OBVIOUS
<1>2. s \in 0..(C - 1) /\ b \in Nat /\ x = C * b + s  BY <1>1, DivMod
<1>3. x = C * a + r  OBVIOUS
<1> HIDE DEF x, b, s
<1>4. ~(a < b)  BY <1>1, <1>2, <1>3, LapStep
<1>5. ~(b < a)  BY <1>1, <1>2, <1>3, LapStep
<1>6. r = s  BY <1>1, <1>2, <1>3, <1>4, <1>5
<1> QED  BY <1>6 DEF x, s

\* An index kept modulo the ring size steps as the unbounded one does.
LEMMA StepMod ==
  ASSUME NEW C \in Nat, C >= 1, NEW x \in Nat
  PROVE  ((x % C) + 1) % C = (x + 1) % C
<1> DEFINE a == x \div C
           r == x % C
<1>1. r \in 0..(C - 1) /\ a \in Nat /\ x = C * a + r  BY DivMod
<1> HIDE DEF a, r
<1>2. CASE r + 1 < C
  <2>1. r + 1 \in 0..(C - 1) /\ x + 1 = C * a + (r + 1) /\ r + 1 = C * 0 + (r + 1)  BY <1>1, <1>2
  <2>2. (x + 1) % C = r + 1  BY <1>1, <2>1, ModUnique
  <2>3. (r + 1) % C = r + 1  BY <2>1, FirstLap
  <2> QED  BY <2>2, <2>3 DEF r
<1>3. CASE ~(r + 1 < C)
  <2>1. r + 1 = C /\ x + 1 = C * (a + 1) + 0 /\ r + 1 = C * 1 + 0  BY <1>1, <1>3
  <2>2. (x + 1) % C = 0  BY <1>1, <2>1, ModUnique
  <2>3. (r + 1) % C = 0  BY <2>1, ModUnique
  <2> QED  BY <2>2, <2>3 DEF r
<1> QED  BY <1>2, <1>3

\* A difference of indices at the width of a word: a negative one wraps.
LEMMA WordDifference ==
  ASSUME NEW W \in Nat, W >= 1, NEW d \in Int, d < W, -W <= d
  PROVE  d % W = IF d >= 0 THEN d ELSE d + W
  BY SMT

-----------------------------------------------------------------------------
\* What a ring holds: n elements of the log, after the first k.
Window(log, k, n) == [i \in 1..n |-> log[k + i]]

\* A window is a sequence of n elements, the first of them just after k.
LEMMA WindowSeq ==
  ASSUME NEW V, NEW log \in Seq(V), NEW k \in Nat, NEW n \in Nat, k + n <= Len(log)
  PROVE  /\ Window(log, k, n) \in Seq(V)
         /\ Len(Window(log, k, n)) = n
         /\ n = 0 => Window(log, k, n) = <<>>
         /\ n > 0 => Window(log, k, n) # <<>> /\ Head(Window(log, k, n)) = log[k + 1]
  BY DEF Window

\* A push makes the window longer by the element.
LEMMA WindowPush ==
  ASSUME NEW V, NEW log \in Seq(V), NEW k \in Nat, NEW n \in Nat, k + n = Len(log), NEW v \in V
  PROVE  Window(Append(log, v), k, n + 1) = Append(Window(log, k, n), v)
  BY DEF Window

\* A pop takes the first element of the window.
LEMMA WindowPop ==
  ASSUME NEW V, NEW log \in Seq(V), NEW k \in Nat, NEW n \in Nat, k + n <= Len(log), n > 0
  PROVE  Window(log, k + 1, n - 1) = Tail(Window(log, k, n))
  BY DEF Window

-----------------------------------------------------------------------------
\* Every set of numbers has a least one.
LEMMA Least ==
  ASSUME NEW T \in SUBSET Nat, T # {}
  PROVE  \E n \in T : \A m \in T : n <= m
<1> DEFINE R == OpToRel(<, Nat)
<1>1. IsWellFoundedOn(R, Nat)
  BY NatLessThanWellFounded
<1>2. \A x, y \in Nat : x < y => <<x, y>> \in R
  BY DEF OpToRel
<1> HIDE DEF R
<1>3. PICK x \in T : \A y \in T : ~(<<y, x>> \in R)
  BY <1>1, WFMin
<1>4. ASSUME NEW m \in T  PROVE x <= m
  <2>1. ~(m < x)
    BY <1>2, <1>3, <1>4
  <2> QED  BY <2>1
<1> QED  BY <1>4

\* Induction, over the set of the numbers for which a fact holds.
LEMMA SetInduction ==
  ASSUME NEW S \in SUBSET Nat, 0 \in S, \A n \in S : n + 1 \in S
  PROVE  S = Nat
<1> SUFFICES ASSUME Nat \ S # {}  PROVE FALSE
  OBVIOUS
<1>1. PICK n \in Nat \ S : \A m \in Nat \ S : n <= m
  BY Least
<1>2. n # 0 /\ n - 1 \in Nat
  BY <1>1
<1>3. n - 1 \in S
  BY <1>1, <1>2
<1>4. (n - 1) + 1 \in S
  BY <1>3
<1> QED  BY <1>1, <1>4

\* Two runs of n turns start alike, and their turns do the same to the same.
SameLoop(n, f, g) == /\ f[0] = g[0]
                     /\ \A k \in 1..n : f[k - 1] = g[k - 1] => f[k] = g[k]

\* Then they are alike after every turn.  A loop is compared with what it is
\* meant to compute in this way.
LEMMA LoopUnique ==
  ASSUME NEW n \in Nat, NEW f, NEW g, SameLoop(n, f, g)
  PROVE  \A k \in 0..n : f[k] = g[k]
<1> DEFINE S == {k \in Nat : k <= n => f[k] = g[k]}
<1>1. 0 \in S
  BY DEF SameLoop
<1>2. ASSUME NEW k \in S  PROVE k + 1 \in S
  <2>1. CASE k + 1 <= n
    <3>1. k + 1 \in 1..n /\ (k + 1) - 1 = k /\ f[k] = g[k]
      BY <2>1
    <3> QED  BY <3>1 DEF SameLoop
  <2> QED  BY <2>1
<1> HIDE DEF S
<1>3. S = Nat
  BY <1>1, <1>2, SetInduction DEF S
<1> QED  BY <1>3 DEF S

\* A loop over values V: what each of its n turns does, and the values f after
\* each turn when it starts with a.
Turns(V, n, Step) == Step \in [1..n -> [V -> V]]
RunOf(V, n, a, Step, f) == /\ f \in [0..n -> V]
                           /\ f[0] = a
                           /\ \A i \in 1..n : f[i] = Step[i][f[i - 1]]

\* The values exist, so that a function defined by recursion on the number of
\* turns satisfies its equation.
LEMMA LoopExists ==
  ASSUME NEW V, NEW n \in Nat, NEW a \in V, NEW Step, Turns(V, n, Step)
  PROVE  \E f : RunOf(V, n, a, Step, f)
<1> DEFINE Run(k, f) == \A i \in 0..k : f[i] = IF i = 0 THEN a ELSE Step[i][f[i - 1]]
           Exists(k) == \E f \in [0..k -> V] : Run(k, f)
           S == {k \in Nat : k <= n => Exists(k)}
<1>1. 0 \in S
  <2>1. [i \in 0..0 |-> a] \in [0..0 -> V] /\ Run(0, [i \in 0..0 |-> a])
    OBVIOUS
  <2> QED  BY <2>1
<1>2. ASSUME NEW k \in S  PROVE k + 1 \in S
  <2> SUFFICES ASSUME k + 1 <= n  PROVE Exists(k + 1)
    <3> HIDE DEF Exists
    <3> QED  OBVIOUS
  <2>1. PICK f \in [0..k -> V] : Run(k, f)
    OBVIOUS
  <2> DEFINE g == [i \in 0..(k + 1) |-> IF i = k + 1 THEN Step[i][f[k]] ELSE f[i]]
  <2>2. Step[k + 1][f[k]] \in V
    BY DEF Turns
  <2>3. g \in [0..(k + 1) -> V]
    BY <2>2
  <2>4. ASSUME NEW i \in 0..(k + 1)  PROVE g[i] = IF i = 0 THEN a ELSE Step[i][g[i - 1]]
    <3>1. CASE i = k + 1
      BY <3>1
    <3>2. CASE i # k + 1
      BY <3>2, <2>1
    <3> QED  BY <3>1, <3>2
  <2> QED  BY <2>3, <2>4
<1> HIDE DEF S
<1>3. S = Nat
  BY <1>1, <1>2, SetInduction DEF S
<1>4. PICK f \in [0..n -> V] : Run(n, f)
  BY <1>3 DEF S
<1>5. RunOf(V, n, a, Step, f)
  BY <1>4 DEF RunOf
<1> QED  BY <1>5

\* The values that a loop may have after each of its n turns, and what the
\* turns do to them.
Stages(n, V, Step) == \A i \in 1..n : \A x \in V[i - 1] : Step[i][x] \in V[i]
StagedRun(n, V, a, Step, f) == /\ f = [i \in 0..n |-> IF i = 0 THEN a ELSE Step[i][f[i - 1]]]
                               /\ \A i \in 0..n : f[i] \in V[i]

LEMMA LoopStages ==
  ASSUME NEW n \in Nat, NEW V, NEW a \in V[0], NEW Step, Stages(n, V, Step)
  PROVE  \E f : StagedRun(n, V, a, Step, f)
<1> DEFINE Run(k, f) == \A i \in 0..k : f[i] = (IF i = 0 THEN a ELSE Step[i][f[i - 1]]) /\ f[i] \in V[i]
           W == UNION {V[i] : i \in 0..n}
           Exists(k) == \E f \in [0..k -> W] : Run(k, f)
           S == {k \in Nat : k <= n => Exists(k)}
<1>1. 0 \in S
  <2>1. a \in W
    OBVIOUS
  <2> HIDE DEF W
  <2>2. [i \in 0..0 |-> a] \in [0..0 -> W] /\ Run(0, [i \in 0..0 |-> a])
    BY <2>1
  <2> QED  BY <2>2
<1>2. ASSUME NEW k \in S  PROVE k + 1 \in S
  <2> SUFFICES ASSUME k + 1 <= n  PROVE Exists(k + 1)
    <3> HIDE DEF Exists
    <3> QED  OBVIOUS
  <2>1. PICK f \in [0..k -> W] : Run(k, f)
    OBVIOUS
  <2> DEFINE g == [i \in 0..(k + 1) |-> IF i = k + 1 THEN Step[i][f[k]] ELSE f[i]]
  <2>2. Step[k + 1][f[k]] \in V[k + 1]
    <3>1. k + 1 \in 1..n /\ (k + 1) - 1 = k /\ f[k] \in V[k]
      BY <2>1
    <3> QED  BY <3>1 DEF Stages
  <2>5. k + 1 \in 0..n
    OBVIOUS
  <2>6. Step[k + 1][f[k]] \in W
    BY <2>2, <2>5
  <2> HIDE DEF W
  <2>3. g \in [0..(k + 1) -> W]
    BY <2>6
  <2>4. ASSUME NEW i \in 0..(k + 1)  PROVE g[i] = (IF i = 0 THEN a ELSE Step[i][g[i - 1]]) /\ g[i] \in V[i]
    <3>1. CASE i = k + 1
      BY <2>2, <3>1
    <3>2. CASE i # k + 1
      BY <2>1, <3>2
    <3> QED  BY <3>1, <3>2
  <2> HIDE DEF g
  <2> QED  BY <2>3, <2>4
<1> HIDE DEF S
<1>3. S = Nat
  BY <1>1, <1>2, SetInduction DEF S
<1>4. Exists(n)
  <2> HIDE DEF Exists
  <2> QED  BY <1>3 DEF S
<1>5. PICK f \in [0..n -> W] : Run(n, f)
  BY <1>4
<1> HIDE DEF W
<1>6. f = [i \in 0..n |-> IF i = 0 THEN a ELSE Step[i][f[i - 1]]]
  BY <1>5
<1>7. StagedRun(n, V, a, Step, f)
  BY <1>5, <1>6 DEF StagedRun
<1> QED  BY <1>7
=============================================================================
