---------------------------- MODULE HabitLogProofs ----------------------------
(***************************************************************************)
(* What holds of a habit, its log and its streaks for any number of        *)
(* requests and days.                                                      *)
(*                                                                         *)
(* The streaks are computed by recursion over the days.  Facts about them  *)
(* are proved day by day: what holds of day 0 and passes from each day to  *)
(* the next holds of all (DayByDay), and so does that such a recursion has *)
(* a solution (PassesExist).                                               *)
(*                                                                         *)
(* The counters fit the log because every write takes all of them from one *)
(* read, whose own counters fitted (ReadsFit); the longest streak covers   *)
(* the log because an edit of the target was decided on the habit as it    *)
(* still is, or the history says that two writes were mixed (ReadsAgree).  *)
(***************************************************************************)
EXTENDS HabitLog, FiniteSetTheorems, WellFoundedInduction, TLAPS

-----------------------------------------------------------------------------
(* Numbers and days.                                                        *)

LEMMA Descent ==
    ASSUME NEW S, NEW R, IsWellFoundedOn(R, Nat), S \subseteq Nat, S # {}
    PROVE  \E x \in S : \A y \in S : <<y, x>> \notin R
  BY WFMin

LEMMA LeastNumber ==
    ASSUME NEW S, S \subseteq Nat, S # {}
    PROVE  \E m \in S : \A n \in S : m <= n
<1>. DEFINE R == OpToRel(<, Nat)
<1>1. IsWellFoundedOn(R, Nat)
  BY NatLessThanWellFounded
<1>2. \A m, n \in Nat : m < n => <<m, n>> \in R
  BY DEF OpToRel
<1>. HIDE DEF R
<1>3. PICK x \in S : \A y \in S : <<y, x>> \notin R
  BY <1>1, Descent
<1>4. \A y \in S : ~(y < x)
  BY <1>2, <1>3
<1>. QED BY <1>4

\* What holds of the day before the first, and of each day if it holds of the one
\* before, holds of all days.
LEMMA DayByDay ==
    ASSUME NEW S, 0 \in S, \A d \in Days : d - 1 \in S => d \in S
    PROVE  0 .. MaxDay \subseteq S
<1>. DEFINE missed == (0 .. MaxDay) \ S
<1>. SUFFICES ASSUME missed # {} PROVE FALSE
  OBVIOUS
<1>1. missed \subseteq Nat
  BY ConstantsAssumption
<1>2. PICK m \in missed : \A n \in missed : m <= n
  BY <1>1, LeastNumber
<1>3. m \in Days /\ m - 1 \in 0 .. MaxDay /\ m - 1 \notin missed
  BY <1>1, <1>2, ConstantsAssumption DEF Days
<1>. QED BY <1>2, <1>3

LEMMA MaxIs ==
    ASSUME NEW S, S \subseteq Int, NEW m \in S, \A n \in S : m >= n
    PROVE  Max(S) = m
<1>1. PICK k : k = Max(S)
  OBVIOUS
<1>2. k \in S /\ \A n \in S : k >= n
  BY <1>1 DEF Max
<1>3. k >= m /\ m >= k /\ k \in Int /\ m \in Int
  BY <1>2
<1>. QED BY <1>1, <1>3

LEMMA MinIs ==
    ASSUME NEW S, S \subseteq Int, NEW m \in S, \A n \in S : m <= n
    PROVE  Min(S) = m
<1>1. PICK k : k = Min(S)
  OBVIOUS
<1>2. k \in S /\ \A n \in S : k <= n
  BY <1>1 DEF Min
<1>3. k <= m /\ m <= k /\ k \in Int /\ m \in Int
  BY <1>2
<1>. QED BY <1>1, <1>3

LEMMA MaxOfTwo == \A a, b \in Int : Max({a, b}) = IF a >= b THEN a ELSE b
<1>. SUFFICES ASSUME NEW a \in Int, NEW b \in Int PROVE Max({a, b}) = IF a >= b THEN a ELSE b
  OBVIOUS
<1>1. CASE a >= b
  BY <1>1, MaxIs
<1>2. CASE ~(a >= b)
  BY <1>2, MaxIs
<1>. QED BY <1>1, <1>2

LEMMA MinOfTwo == \A a, b \in Int : Min({a, b}) = IF a <= b THEN a ELSE b
<1>. SUFFICES ASSUME NEW a \in Int, NEW b \in Int PROVE Min({a, b}) = IF a <= b THEN a ELSE b
  OBVIOUS
<1>1. CASE a <= b
  BY <1>1, MinIs
<1>2. CASE ~(a <= b)
  BY <1>2, MinIs
<1>. QED BY <1>1, <1>2

\* Some days have a latest one.
LEMMA LatestDay ==
    ASSUME NEW S \in SUBSET (0 .. MaxDay), S # {}
    PROVE  Max(S) \in S /\ \A d \in S : d <= Max(S)
<1>. DEFINE left == {MaxDay - d : d \in S}
<1>1. S \subseteq Int /\ \A d \in S : MaxDay - d \in Nat /\ MaxDay \in Nat
  BY ConstantsAssumption
<1>2. PICK n \in left : \A k \in left : n <= k
  <2>1. left \subseteq Nat /\ left # {}
    BY <1>1
  <2>. QED BY <2>1, LeastNumber
<1>3. PICK m \in S : n = MaxDay - m
  BY <1>2
<1>4. \A d \in S : MaxDay - m <= MaxDay - d
  BY <1>2, <1>3
<1>5. \A d \in S : m >= d
  BY <1>1, <1>4
<1>6. Max(S) = m
  BY <1>1, <1>5, MaxIs
<1>. QED BY <1>1, <1>5, <1>6

-----------------------------------------------------------------------------
(* Recursion over the days.                                                 *)

\* A recursion in which each day adds to what was known after the day before has a
\* solution.
LEMMA PassesExist ==
    ASSUME NEW V, NEW base \in V, NEW next \in [Days -> [V -> V]]
    PROVE  \E f \in [0 .. MaxDay -> V] :
              /\ f[0] = base
              /\ \A d \in Days : f[d] = next[d][f[d - 1]]
<1>. DEFINE Solves(f, n) ==
                /\ f \in [0 .. n -> V] /\ f[0] = base
                /\ \A d \in Days : d <= n => f[d] = next[d][f[d - 1]]
            solved == {n \in 0 .. MaxDay : \E f : Solves(f, n)}
<1>1. 0 \in solved
  <2>1. PICK f : f = [d \in 0 .. 0 |-> base]
    OBVIOUS
  <2>2. Solves(f, 0)
    BY <2>1 DEF Days
  <2>3. 0 \in 0 .. MaxDay
    BY ConstantsAssumption
  <2>. QED BY <2>2, <2>3
<1>2. ASSUME NEW n \in Days, n - 1 \in solved PROVE n \in solved
  <2>1. n \in 0 .. MaxDay /\ n \in Nat /\ n # 0
    BY ConstantsAssumption DEF Days
  <2>2. PICK g : Solves(g, n - 1)
    BY <1>2
  <2>3. g[n - 1] \in V
    BY <2>1, <2>2
  <2>4. next[n][g[n - 1]] \in V
    BY <2>3
  <2>5. PICK f : f = [d \in 0 .. n |-> IF d = n THEN next[n][g[n - 1]] ELSE g[d]]
    OBVIOUS
  <2>6. f \in [0 .. n -> V] /\ f[0] = base
    <3>1. \A d \in 0 .. n : d # n => d \in 0 .. n - 1
      BY <2>1
    <3>2. \A d \in 0 .. n - 1 : g[d] \in V
      BY <2>2
    <3>3. \A d \in 0 .. n : f[d] \in V
      BY <2>4, <2>5, <3>1, <3>2
    <3>. QED BY <2>1, <2>2, <2>5, <3>3
  <2>7. \A d \in 0 .. n - 1 : f[d] = g[d]
    BY <2>1, <2>5
  <2>8. ASSUME NEW d \in Days, d <= n PROVE f[d] = next[d][f[d - 1]]
    <3>1. d - 1 \in 0 .. n - 1 /\ d \in 0 .. n /\ d \in Nat
      BY <2>1, <2>8, ConstantsAssumption DEF Days
    <3>2. f[d - 1] = g[d - 1]
      BY <2>7, <3>1
    <3>3. CASE d = n
      BY <2>5, <3>1, <3>2, <3>3
    <3>4. CASE d # n
      <4>1. d <= n - 1 /\ d \in 0 .. n - 1
        BY <2>1, <3>1, <3>4
      <4>2. g[d] = next[d][g[d - 1]]
        BY <2>2, <4>1
      <4>. QED BY <2>7, <3>2, <4>1, <4>2
    <3>. QED BY <3>3, <3>4
  <2>9. Solves(f, n)
    BY <2>6, <2>8
  <2>. QED BY <2>1, <2>9
<1>. HIDE DEF Solves
<1>3. MaxDay \in solved
  <2>1. 0 .. MaxDay \subseteq solved
    <3>. HIDE DEF solved
    <3>. QED BY <1>1, <1>2, DayByDay
  <2>. QED BY <2>1, ConstantsAssumption
<1>4. PICK f : Solves(f, MaxDay)
  BY <1>3
<1>. QED BY <1>4, ConstantsAssumption DEF Solves, Days

-----------------------------------------------------------------------------
(* The current streak.                                                      *)

LEMMA MetDays ==
    ASSUME NEW log, NEW target \in Nat \ {0}
    PROVE  dayMetTarget(log, target) \in SUBSET Days
  BY DEF dayMetTarget

LEMMA RunsRecur ==
    ASSUME NEW met \in SUBSET Days
    PROVE  \A d \in 0 .. MaxDay :
              RunsUpTo(met)[d] = IF d \in met THEN 1 + RunsUpTo(met)[d - 1] ELSE 0
<1>. DEFINE IsRun(f) == f = [d \in 0 .. MaxDay |-> IF d \in met THEN 1 + f[d - 1] ELSE 0]
            next == [d \in Days |-> [n \in Nat |-> IF d \in met THEN 1 + n ELSE 0]]
<1>1. next \in [Days -> [Nat -> Nat]]
  OBVIOUS
<1>2. \A d \in Days : \A n \in Nat : next[d][n] = IF d \in met THEN 1 + n ELSE 0
  OBVIOUS
<1>. HIDE DEF next
<1>3. PICK f \in [0 .. MaxDay -> Nat] : f[0] = 0 /\ \A d \in Days : f[d] = next[d][f[d - 1]]
  <2>1. PICK lengths, none : lengths = Nat /\ none = 0
    OBVIOUS
  <2>2. next \in [Days -> [lengths -> lengths]] /\ none \in lengths
    BY <1>1, <2>1
  <2>3. \E f \in [0 .. MaxDay -> lengths] :
          f[0] = none /\ \A d \in Days : f[d] = next[d][f[d - 1]]
    BY <2>2, PassesExist
  <2>. QED BY <2>1, <2>3
<1>4. \A d \in Days : d \in 0 .. MaxDay /\ d - 1 \in 0 .. MaxDay
  BY ConstantsAssumption DEF Days
<1>5. \A d \in Days : f[d] = IF d \in met THEN 1 + f[d - 1] ELSE 0
  BY <1>2, <1>3, <1>4
<1>6. \A d \in 0 .. MaxDay : f[d] = IF d \in met THEN 1 + f[d - 1] ELSE 0
  BY <1>3, <1>5, ConstantsAssumption DEF Days
<1>7. IsRun(f)
  BY <1>3, <1>6
<1>8. RunsUpTo(met) = CHOOSE g : IsRun(g)
  BY DEF RunsUpTo
<1>. HIDE DEF IsRun
<1>9. IsRun(RunsUpTo(met))
  BY <1>7, <1>8
<1>. QED BY <1>9 DEF IsRun

\* A run is a number of met days that end with the day, and the day before them was
\* not met.
LEMMA RunsAre ==
    ASSUME NEW met \in SUBSET Days
    PROVE  \A d \in 0 .. MaxDay :
              LET run == RunsUpTo(met)[d] IN
              /\ run \in 0 .. d
              /\ d - run + 1 .. d \subseteq met /\ d - run \notin met
<1>. DEFINE back == RunsUpTo(met)
            Right(d) == /\ back[d] \in 0 .. d
                        /\ d - back[d] + 1 .. d \subseteq met /\ d - back[d] \notin met
            S == {d \in 0 .. MaxDay : Right(d)}
<1>1. \A d \in 0 .. MaxDay : back[d] = IF d \in met THEN 1 + back[d - 1] ELSE 0
  BY RunsRecur
<1>. HIDE DEF back
<1>2. ASSUME NEW d \in 0 .. MaxDay, d \notin met PROVE Right(d)
  <2>1. back[d] = 0 /\ d \in Nat
    BY <1>1, <1>2, ConstantsAssumption
  <2>. QED BY <1>2, <2>1
<1>3. 0 \in S
  BY <1>2, ConstantsAssumption DEF Days
<1>4. ASSUME NEW d \in Days, d - 1 \in S PROVE d \in S
  <2>1. d \in 0 .. MaxDay /\ d \in Nat /\ d - 1 \in 0 .. MaxDay
    BY ConstantsAssumption DEF Days
  <2>2. CASE d \in met
    <3>1. back[d] = 1 + back[d - 1]
      BY <1>1, <2>1, <2>2
    <3>2. /\ back[d - 1] \in 0 .. d - 1
          /\ (d - 1) - back[d - 1] + 1 .. d - 1 \subseteq met
          /\ (d - 1) - back[d - 1] \notin met
      BY <1>4
    <3>3. back[d] \in 0 .. d /\ d - back[d] = (d - 1) - back[d - 1]
      BY <2>1, <3>1, <3>2
    <3>4. \A e \in d - back[d] + 1 .. d : e = d \/ e \in (d - 1) - back[d - 1] + 1 .. d - 1
      BY <2>1, <3>2, <3>3
    <3>. QED BY <2>1, <2>2, <3>2, <3>3, <3>4
  <2>3. CASE d \notin met
    BY <1>2, <2>1, <2>3
  <2>. QED BY <2>2, <2>3
<1>5. 0 .. MaxDay \subseteq S
  <2>. HIDE DEF S
  <2>. QED BY <1>3, <1>4, DayByDay
<1>. QED BY <1>5 DEF back

-----------------------------------------------------------------------------
(* The longest streak.                                                      *)

Known == [prev : 0 .. MaxDay, run : Nat, longest : Nat]
Start == [prev |-> NoDay, run |-> 0, longest |-> 0]

\* What the pass knows after one more met day.
Onward(acc, day) ==
    LET run == IF acc.prev # NoDay /\ day - acc.prev = 1 THEN acc.run + 1 ELSE 1 IN
    [prev |-> day, run |-> run, longest |-> IF run > acc.longest THEN run ELSE acc.longest]

LEMMA PassRecurs ==
    ASSUME NEW met \in SUBSET Days
    PROVE  /\ Pass(met)[0] = Start
           /\ \A d \in Days :
                 Pass(met)[d] = IF d \in met THEN Onward(Pass(met)[d - 1], d) ELSE Pass(met)[d - 1]
<1>. DEFINE IsPass(f) == f = [d \in 0 .. MaxDay |->
                                 IF d = 0 THEN Start
                                 ELSE IF d \in met THEN Onward(f[d - 1], d) ELSE f[d - 1]]
            next == [d \in Days |-> [acc \in Known |-> IF d \in met THEN Onward(acc, d) ELSE acc]]
<1>1. \A acc \in Known : \A d \in Days : Onward(acc, d) \in Known
  BY ConstantsAssumption DEF Known, Onward, Days
<1>2. next \in [Days -> [Known -> Known]]
  BY <1>1
<1>3. \A d \in Days : \A acc \in Known : next[d][acc] = IF d \in met THEN Onward(acc, d) ELSE acc
  OBVIOUS
<1>4. Start \in Known
  BY ConstantsAssumption DEF Start, Known, NoDay
<1>. HIDE DEF next
<1>5. PICK f \in [0 .. MaxDay -> Known] :
          f[0] = Start /\ \A d \in Days : f[d] = next[d][f[d - 1]]
  BY <1>2, <1>4, PassesExist
<1>6. \A d \in Days : d \in 0 .. MaxDay /\ d - 1 \in 0 .. MaxDay /\ d # 0
  BY ConstantsAssumption DEF Days
<1>7. \A d \in Days : f[d] = IF d \in met THEN Onward(f[d - 1], d) ELSE f[d - 1]
  BY <1>3, <1>5, <1>6
<1>8. \A d \in 0 .. MaxDay : d = 0 \/ d \in Days
  BY ConstantsAssumption DEF Days
<1>9. IsPass(f)
  BY <1>5, <1>6, <1>7, <1>8
<1>10. Pass(met) = CHOOSE g : IsPass(g)
  BY DEF Pass, Onward, Start
<1>. HIDE DEF IsPass
<1>11. IsPass(Pass(met))
  BY <1>9, <1>10
<1>12. 0 \in 0 .. MaxDay
  BY ConstantsAssumption
<1>. QED BY <1>6, <1>11, <1>12 DEF IsPass

\* The pass knows the last met day, the run that ends there, and the longest run so far.
LEMMA PassKnows ==
    ASSUME NEW met \in SUBSET Days
    PROVE  \A d \in 0 .. MaxDay :
              LET acc == Pass(met)[d]
                  back == RunsUpTo(met) IN
              /\ acc.prev \in 0 .. d /\ acc.run = back[acc.prev]
              /\ acc.prev # NoDay => acc.prev \in met
              /\ \A e \in acc.prev + 1 .. d : e \notin met
              /\ \A e \in 0 .. d : back[e] <= acc.longest
              /\ \E e \in 0 .. d : back[e] = acc.longest
<1>. DEFINE back == RunsUpTo(met)
            Knows(acc, d) ==
              /\ acc.prev \in 0 .. d /\ acc.run = back[acc.prev]
              /\ acc.prev # NoDay => acc.prev \in met
              /\ \A e \in acc.prev + 1 .. d : e \notin met
              /\ \A e \in 0 .. d : back[e] <= acc.longest
              /\ \E e \in 0 .. d : back[e] = acc.longest
            S == {d \in 0 .. MaxDay : Knows(Pass(met)[d], d)}
<1>1. \A d \in 0 .. MaxDay : /\ back[d] = IF d \in met THEN 1 + back[d - 1] ELSE 0
                             /\ back[d] \in Nat
  BY RunsRecur, RunsAre, ConstantsAssumption
<1>. HIDE DEF back
<1>2. 0 \in S
  <2>1. back[0] = 0 /\ 0 \in 0 .. MaxDay
    BY <1>1, ConstantsAssumption DEF Days
  <2>2. Start.prev = 0 /\ Start.run = 0 /\ Start.longest = 0
    BY DEF Start, NoDay
  <2>3. \A e \in 0 .. 0 : e = 0
    OBVIOUS
  <2>4. Knows(Start, 0)
    BY <2>1, <2>2, <2>3 DEF NoDay
  <2>. QED BY <2>1, <2>4, PassRecurs
<1>3. ASSUME NEW d \in Days, d - 1 \in S PROVE d \in S
  <2>1. /\ d \in 0 .. MaxDay /\ d \in Nat /\ d # 0 /\ d - 1 \in 0 .. MaxDay
        /\ \A e \in 0 .. d : e = d \/ e \in 0 .. d - 1
        /\ \A e \in 0 .. d - 1 : e \in 0 .. d /\ e \in 0 .. MaxDay
    BY ConstantsAssumption DEF Days
  <2>2. PICK acc : acc = Pass(met)[d - 1]
    OBVIOUS
  <2>3. Knows(acc, d - 1)
    BY <1>3, <2>2
  <2>4. acc.longest \in Nat /\ acc.run \in Nat /\ acc.prev \in Nat /\ acc.prev < d
    BY <1>1, <2>1, <2>3
  <2>5. CASE d \notin met
    <3>1. Pass(met)[d] = acc
      BY <2>2, <2>5, PassRecurs
    <3>2. back[d] = 0
      BY <1>1, <2>1, <2>5
    <3>3. acc.prev \in 0 .. d /\ \A e \in acc.prev + 1 .. d : e \notin met
      BY <2>1, <2>3, <2>4, <2>5
    <3>4. /\ \A e \in 0 .. d : back[e] <= acc.longest
          /\ \E e \in 0 .. d : back[e] = acc.longest
      BY <2>1, <2>3, <2>4, <3>2
    <3>. QED BY <2>1, <2>3, <3>1, <3>3, <3>4
  <2>6. CASE d \in met
    <3>1. PICK new : new = Onward(acc, d)
      OBVIOUS
    <3>2. Pass(met)[d] = new
      BY <2>2, <2>6, <3>1, PassRecurs
    <3>3. /\ new.prev = d
          /\ new.run = IF acc.prev # NoDay /\ d - acc.prev = 1 THEN acc.run + 1 ELSE 1
          /\ new.longest = IF new.run > acc.longest THEN new.run ELSE acc.longest
      BY <3>1 DEF Onward
    <3>4. back[d] = 1 + back[d - 1]
      BY <1>1, <2>1, <2>6
    <3>5. new.run = back[d]
      <4>1. CASE acc.prev # NoDay /\ d - acc.prev = 1
        <5>1. acc.prev = d - 1
          BY <2>1, <2>4, <4>1
        <5>. QED BY <2>3, <2>4, <3>3, <3>4, <4>1, <5>1
      <4>2. CASE acc.prev # NoDay /\ d - acc.prev # 1
        <5>1. d - 1 \in acc.prev + 1 .. d - 1
          BY <2>1, <2>4, <4>2
        <5>2. back[d - 1] = 0
          BY <1>1, <2>1, <2>3, <5>1
        <5>. QED BY <3>3, <3>4, <4>2, <5>2
      <4>3. CASE acc.prev = NoDay
        <5>1. d - 1 = 0 \/ d - 1 \in acc.prev + 1 .. d - 1
          BY <2>1, <2>4, <4>3 DEF NoDay
        <5>2. d - 1 \notin met
          BY <2>1, <2>3, <5>1 DEF Days
        <5>3. back[d - 1] = 0
          BY <1>1, <2>1, <5>2
        <5>. QED BY <3>3, <3>4, <4>3, <5>3
      <4>. QED BY <4>1, <4>2, <4>3
    <3>6. \A e \in 0 .. d : back[e] <= new.longest
      <4>1. back[d] \in Nat /\ new.longest \in Nat
        BY <1>1, <2>1, <2>4, <3>3, <3>5
      <4>2. back[d] <= new.longest /\ acc.longest <= new.longest
        BY <2>4, <3>3, <3>5, <4>1
      <4>3. \A e \in 0 .. d - 1 : back[e] <= acc.longest /\ back[e] \in Nat
        BY <1>1, <2>1, <2>3
      <4>. QED BY <2>1, <2>4, <4>1, <4>2, <4>3
    <3>7. \E e \in 0 .. d : back[e] = new.longest
      <4>1. CASE new.run > acc.longest
        BY <2>1, <3>3, <3>5, <4>1
      <4>2. CASE ~(new.run > acc.longest)
        BY <2>1, <2>3, <3>3, <4>2
      <4>. QED BY <4>1, <4>2
    <3>8. new.prev \in 0 .. d /\ \A e \in new.prev + 1 .. d : e \notin met
      BY <2>1, <3>3
    <3>9. Knows(new, d)
      BY <2>6, <3>3, <3>5, <3>6, <3>7, <3>8
    <3>. QED BY <2>1, <3>2, <3>9
  <2>. QED BY <2>5, <2>6
<1>4. 0 .. MaxDay \subseteq S
  <2>. HIDE DEF S
  <2>. QED BY <1>2, <1>3, DayByDay
<1>. QED BY <1>4 DEF back

\* The longest streak is the greatest of the runs.
LEMMA LongestIs ==
    ASSUME NEW log, NEW target \in Nat \ {0}
    PROVE  LET longest == computeLongestStreak(log, target)
               back == RunsUpTo(dayMetTarget(log, target)) IN
           /\ longest \in 0 .. MaxDay
           /\ \A e \in 0 .. MaxDay : back[e] <= longest
           /\ \E e \in 0 .. MaxDay : back[e] = longest
<1>. DEFINE met == dayMetTarget(log, target)
<1>1. met \in SUBSET Days
  BY MetDays
<1>2. computeLongestStreak(log, target) = Pass(met)[MaxDay].longest
  BY DEF computeLongestStreak
<1>. HIDE DEF met
<1>3. MaxDay \in 0 .. MaxDay
  BY ConstantsAssumption
<1>4. /\ \A e \in 0 .. MaxDay : RunsUpTo(met)[e] <= Pass(met)[MaxDay].longest
      /\ \E e \in 0 .. MaxDay : RunsUpTo(met)[e] = Pass(met)[MaxDay].longest
  BY <1>1, <1>3, PassKnows
<1>5. \A e \in 0 .. MaxDay : RunsUpTo(met)[e] \in 0 .. MaxDay
  BY <1>1, RunsAre, ConstantsAssumption
<1>. QED BY <1>2, <1>4, <1>5 DEF met

\* The current streak is one of the runs, and so within the longest one.
LEMMA CurrentIs ==
    ASSUME NEW log, NEW target \in Nat \ {0}, NEW today \in Days
    PROVE  /\ computeCurrentStreak(log, target, today) \in 0 .. MaxDay
           /\ computeCurrentStreak(log, target, today) <= computeLongestStreak(log, target)
<1>. DEFINE met == dayMetTarget(log, target)
<1>1. PICK e \in 0 .. MaxDay : computeCurrentStreak(log, target, today) = RunsUpTo(met)[e]
  <2>1. today \in 0 .. MaxDay /\ today - 1 \in 0 .. MaxDay
    BY ConstantsAssumption DEF Days
  <2>. QED BY <2>1 DEF computeCurrentStreak
<1>2. met \in SUBSET Days
  BY MetDays
<1>3. RunsUpTo(met)[e] <= computeLongestStreak(log, target)
  BY LongestIs
<1>4. RunsUpTo(met)[e] \in 0 .. MaxDay
  BY <1>2, RunsAre, ConstantsAssumption
<1>. QED BY <1>1, <1>3, <1>4

\* A run is the longest interval of met days that ends with the day.
LEMMA RunsAreLongest ==
    ASSUME NEW met \in SUBSET Days, NEW a \in 1 .. MaxDay + 1, NEW b \in 0 .. MaxDay,
           a .. b \subseteq met
    PROVE  Cardinality(a .. b) <= RunsUpTo(met)[b]
<1>1. PICK run : run = RunsUpTo(met)[b]
  OBVIOUS
<1>2. run \in 0 .. b /\ b - run \notin met
  BY <1>1, RunsAre
<1>3. a \in Int /\ b \in Int /\ run \in Int /\ run >= 0 /\ run <= b
  BY <1>2, ConstantsAssumption
<1>4. Cardinality(a .. b) = IF a > b THEN 0 ELSE b - a + 1
  BY <1>3, FS_Interval
<1>5. a > b \/ ~(run < b - a + 1)
  <2>1. b - run \notin a .. b
    BY <1>2
  <2>. QED BY <1>3, <2>1
<1>. QED BY <1>1, <1>3, <1>4, <1>5

\* The longest streak is the greatest length of an interval of met days.
LEMMA LongestIsInterval ==
    ASSUME NEW log, NEW target \in Nat \ {0}
    PROVE  LET met == dayMetTarget(log, target)
               intervals == {i \in (1 .. MaxDay + 1) \X (0 .. MaxDay) :
                               i[1] .. i[2] \subseteq met} IN
           computeLongestStreak(log, target) = Max({Cardinality(r[1] .. r[2]) : r \in intervals})
<1>1. PICK met : met = dayMetTarget(log, target)
  OBVIOUS
<1>2. PICK longest : longest = computeLongestStreak(log, target)
  OBVIOUS
<1>. DEFINE intervals == {i \in (1 .. MaxDay + 1) \X (0 .. MaxDay) : i[1] .. i[2] \subseteq met}
            lengths == {Cardinality(r[1] .. r[2]) : r \in intervals}
<1>3. met \in SUBSET Days
  BY <1>1, MetDays
<1>4. /\ longest \in 0 .. MaxDay
      /\ \A e \in 0 .. MaxDay : RunsUpTo(met)[e] <= longest
      /\ \E e \in 0 .. MaxDay : RunsUpTo(met)[e] = longest
  BY <1>1, <1>2, LongestIs
<1>5. \A r \in intervals : /\ Cardinality(r[1] .. r[2]) \in Int
                          /\ Cardinality(r[1] .. r[2]) <= longest
  <2>. TAKE r \in intervals
  <2>1. PICK a \in 1 .. MaxDay + 1, b \in 0 .. MaxDay : r = <<a, b>> /\ a .. b \subseteq met
    OBVIOUS
  <2>2. a \in Int /\ b \in Int
    BY <2>1, ConstantsAssumption
  <2>3. Cardinality(a .. b) \in Int
    BY <2>2, FS_Interval
  <2>4. Cardinality(a .. b) <= RunsUpTo(met)[b]
    BY <1>3, <2>1, RunsAreLongest
  <2>5. RunsUpTo(met)[b] <= longest /\ RunsUpTo(met)[b] \in Int
    BY <1>3, <1>4, <2>1, RunsAre, ConstantsAssumption
  <2>6. longest \in Int /\ r[1] = a /\ r[2] = b
    BY <1>4, <2>1
  <2>. QED BY <2>3, <2>4, <2>5, <2>6
<1>6. \E r \in intervals : Cardinality(r[1] .. r[2]) = longest
  <2>1. PICK e \in 0 .. MaxDay : RunsUpTo(met)[e] = longest
    BY <1>4
  <2>2. longest \in 0 .. e /\ e - longest + 1 .. e \subseteq met
    BY <1>3, <2>1, RunsAre
  <2>3. PICK a : a = e - longest + 1
    OBVIOUS
  <2>4. e \in Int /\ a \in Int /\ a \in 1 .. MaxDay + 1 /\ longest >= 0
    BY <2>2, <2>3, ConstantsAssumption
  <2>5. Cardinality(a .. e) = longest
    BY <2>2, <2>3, <2>4, FS_Interval
  <2>6. a .. e \subseteq met
    BY <2>2, <2>3
  <2>7. <<a, e>> \in intervals
    BY <2>4, <2>6
  <2>. QED BY <2>5, <2>7
<1>7. Max(lengths) = longest
  <2>1. lengths \subseteq Int /\ \A n \in lengths : longest >= n
    BY <1>5, <1>4
  <2>2. longest \in lengths
    BY <1>6
  <2>. HIDE DEF lengths
  <2>. QED BY <2>1, <2>2, MaxIs
<1>. QED BY <1>1, <1>2, <1>7

\* The current streak is the run of entries at the head of the history that are met, but for
\* an open today, as far as the history goes.
LEMMA CurrentIsHead ==
    ASSUME NEW log, NEW target \in Nat \ {0}, NEW today \in Days
    PROVE  LET history == buildHistory(log, target, today)
               from == IF history[1] THEN 1 ELSE 2
               head == {n \in 0 .. HISTORY_WINDOW_DAYS + 1 - from :
                          \A i \in from .. from + n - 1 : history[i]} IN
           Min({computeCurrentStreak(log, target, today), HISTORY_WINDOW_DAYS + 1 - from})
             = Max(head)
<1>1. PICK met, history : /\ met = dayMetTarget(log, target)
                          /\ history = buildHistory(log, target, today)
  OBVIOUS
<1>2. \A i \in 1 .. HISTORY_WINDOW_DAYS : history[i] <=> today - i + 1 \in met
  BY <1>1 DEF buildHistory, dayMetTarget
<1>3. met \in SUBSET Days /\ HISTORY_WINDOW_DAYS \in Nat /\ HISTORY_WINDOW_DAYS >= 1
      /\ today \in Nat /\ today >= 1 /\ today <= MaxDay /\ MaxDay \in Nat
  BY <1>1, MetDays, ConstantsAssumption DEF Days
<1>4. PICK from : from = IF history[1] THEN 1 ELSE 2
  OBVIOUS
<1>5. from \in {1, 2} /\ (from = 1 <=> today \in met)
  BY <1>2, <1>3, <1>4
<1>6. PICK e : e = today - from + 1
  OBVIOUS
<1>7. e \in 0 .. MaxDay /\ e \in Int
  BY <1>3, <1>5, <1>6
<1>8. PICK run : run = RunsUpTo(met)[e]
  OBVIOUS
<1>9. computeCurrentStreak(log, target, today) = run
  <2>1. e = IF today \in met THEN today ELSE today - 1
    BY <1>3, <1>5, <1>6
  <2>. QED BY <1>1, <1>8, <2>1 DEF computeCurrentStreak
<1>10. /\ run \in 0 .. e /\ run \in Int
       /\ e - run + 1 .. e \subseteq met /\ e - run \notin met
  BY <1>3, <1>7, <1>8, RunsAre
<1>11. PICK room : room = HISTORY_WINDOW_DAYS + 1 - from
  OBVIOUS
<1>12. room \in Nat /\ room \in Int
  BY <1>3, <1>5, <1>11
<1>13. PICK least : least = Min({run, room})
  OBVIOUS
<1>14. /\ least \in Int /\ least >= 0 /\ least <= room /\ least <= run
       /\ least = run \/ least = room
  BY <1>10, <1>12, <1>13, MinOfTwo
<1>. DEFINE head == {n \in 0 .. room : \A i \in from .. from + n - 1 : history[i]}
<1>15. \A n \in 0 .. room : \A i \in from .. from + n - 1 :
          history[i] <=> e - (i - from) \in met
  <2>. TAKE n \in 0 .. room
  <2>. TAKE i \in from .. from + n - 1
  <2>1. i \in 1 .. HISTORY_WINDOW_DAYS /\ today - i + 1 = e - (i - from)
    BY <1>3, <1>5, <1>6, <1>11
  <2>. QED BY <1>2, <2>1
<1>16. least \in head
  <2>1. least \in 0 .. room
    BY <1>12, <1>14
  <2>2. ASSUME NEW i \in from .. from + least - 1 PROVE e - (i - from) \in met
    <3>1. e - (i - from) \in e - run + 1 .. e
      BY <1>5, <1>7, <1>10, <1>14
    <3>. QED BY <1>10, <3>1
  <2>. QED BY <1>15, <2>1, <2>2
<1>17. \A n \in head : least >= n
  <2>. SUFFICES ASSUME NEW n \in head, n > least PROVE FALSE
    BY <1>12, <1>14
  <2>1. n \in 0 .. room /\ \A i \in from .. from + n - 1 : history[i]
    OBVIOUS
  <2>2. least = run /\ n > run
    BY <1>12, <1>14, <2>1
  <2>3. from + run \in from .. from + n - 1 /\ e - ((from + run) - from) = e - run
    BY <1>5, <1>7, <1>10, <2>1, <2>2
  <2>4. e - run \in met
    BY <1>15, <2>1, <2>3
  <2>. QED BY <1>10, <2>4
<1>18. Max(head) = least
  <2>1. head \subseteq Int
    OBVIOUS
  <2>. HIDE DEF head
  <2>. QED BY <1>16, <1>17, <2>1, MaxIs
<1>. QED BY <1>1, <1>4, <1>9, <1>11, <1>13, <1>18

-----------------------------------------------------------------------------
(* The sum of a log and its latest day.                                     *)

SumUpTo(log) ==
    CHOOSE upTo : upTo = [d \in 0 .. MaxDay |-> IF d = 0 THEN 0 ELSE upTo[d - 1] + log[d]]

LEMMA SumRecurs ==
    ASSUME NEW log \in Logs
    PROVE  /\ SumUpTo(log)[0] = 0
           /\ \A d \in Days : SumUpTo(log)[d] = SumUpTo(log)[d - 1] + log[d]
           /\ \A d \in 0 .. MaxDay : SumUpTo(log)[d] \in Nat
           /\ TotalOf(log) = SumUpTo(log)[MaxDay]
<1>. DEFINE IsSum(f) == f = [d \in 0 .. MaxDay |-> IF d = 0 THEN 0 ELSE f[d - 1] + log[d]]
            next == [d \in Days |-> [n \in Nat |-> n + log[d]]]
<1>1. \A d \in Days : log[d] \in Nat
  BY DEF Logs
<1>2. next \in [Days -> [Nat -> Nat]]
  BY <1>1
<1>3. \A d \in Days : \A n \in Nat : next[d][n] = n + log[d]
  OBVIOUS
<1>. HIDE DEF next
<1>4. PICK f \in [0 .. MaxDay -> Nat] : f[0] = 0 /\ \A d \in Days : f[d] = next[d][f[d - 1]]
  <2>1. PICK sums, none : sums = Nat /\ none = 0
    OBVIOUS
  <2>2. next \in [Days -> [sums -> sums]] /\ none \in sums
    BY <1>2, <2>1
  <2>3. \E f \in [0 .. MaxDay -> sums] : f[0] = none /\ \A d \in Days : f[d] = next[d][f[d - 1]]
    BY <2>2, PassesExist
  <2>. QED BY <2>1, <2>3
<1>5. \A d \in Days : d \in 0 .. MaxDay /\ d - 1 \in 0 .. MaxDay /\ d # 0
  BY ConstantsAssumption DEF Days
<1>6. \A d \in Days : f[d] = f[d - 1] + log[d]
  BY <1>3, <1>4, <1>5
<1>7. \A d \in 0 .. MaxDay : d = 0 \/ d \in Days
  BY ConstantsAssumption DEF Days
<1>8. IsSum(f)
  BY <1>4, <1>5, <1>6, <1>7
<1>9. SumUpTo(log) = CHOOSE g : IsSum(g)
  BY DEF SumUpTo
<1>. HIDE DEF IsSum
<1>10. IsSum(SumUpTo(log))
  BY <1>8, <1>9
<1>11. 0 \in 0 .. MaxDay
  BY ConstantsAssumption
<1>12. PICK sum : sum = SumUpTo(log)
  OBVIOUS
<1>13. sum[0] = 0 /\ \A d \in Days : sum[d] = sum[d - 1] + log[d]
  BY <1>5, <1>10, <1>11, <1>12 DEF IsSum
<1>14. \A d \in 0 .. MaxDay : sum[d] \in Nat
  <2>. DEFINE S == {d \in 0 .. MaxDay : sum[d] \in Nat}
  <2>1. 0 \in S
    BY <1>11, <1>13
  <2>2. \A d \in Days : d - 1 \in S => d \in S
    BY <1>1, <1>5, <1>13
  <2>3. 0 .. MaxDay \subseteq S
    <3>. HIDE DEF S
    <3>. QED BY <2>1, <2>2, DayByDay
  <2>. QED BY <2>3
<1>15. TotalOf(log) = SumUpTo(log)[MaxDay]
  BY DEF TotalOf, SumUpTo
<1>. QED BY <1>12, <1>13, <1>14, <1>15

LEMMA TotalOfNone == NoLog \in Logs /\ TotalOf(NoLog) = 0
<1>. DEFINE S == {d \in 0 .. MaxDay : SumUpTo(NoLog)[d] = 0}
<1>1. NoLog \in Logs /\ \A d \in Days : NoLog[d] = 0
  BY DEF NoLog, Logs
<1>2. 0 \in S
  BY <1>1, SumRecurs, ConstantsAssumption
<1>3. \A d \in Days : d - 1 \in S => d \in S
  BY <1>1, SumRecurs, ConstantsAssumption DEF Days
<1>4. 0 .. MaxDay \subseteq S
  <2>. HIDE DEF S
  <2>. QED BY <1>2, <1>3, DayByDay
<1>. QED BY <1>1, <1>4, SumRecurs, ConstantsAssumption

\* Another count for a day changes the sum by the difference.
LEMMA TotalOfChanged ==
    ASSUME NEW log \in Logs, NEW day \in Days, NEW n \in Nat
    PROVE  /\ [log EXCEPT ![day] = n] \in Logs
           /\ TotalOf(log) \in Nat /\ TotalOf([log EXCEPT ![day] = n]) \in Nat
           /\ TotalOf([log EXCEPT ![day] = n]) = TotalOf(log) + n - log[day]
<1>1. PICK new : new = [log EXCEPT ![day] = n]
  OBVIOUS
<1>2. /\ new \in Logs /\ new[day] = n /\ log[day] \in Nat
      /\ \A d \in Days : d # day => new[d] = log[d]
  BY <1>1 DEF Logs
<1>3. PICK a, b : a = SumUpTo(log) /\ b = SumUpTo(new)
  OBVIOUS
<1>4. /\ a[0] = 0 /\ b[0] = 0
      /\ \A d \in Days : a[d] = a[d - 1] + log[d] /\ b[d] = b[d - 1] + new[d]
      /\ \A d \in 0 .. MaxDay : a[d] \in Nat /\ b[d] \in Nat
      /\ TotalOf(log) = a[MaxDay] /\ TotalOf(new) = b[MaxDay]
  BY <1>2, <1>3, SumRecurs
<1>5. \A d \in Days : /\ d \in 0 .. MaxDay /\ d - 1 \in 0 .. MaxDay /\ d \in Nat
                      /\ log[d] \in Nat /\ new[d] \in Nat
  BY <1>2, ConstantsAssumption DEF Days, Logs
<1>. DEFINE S == {d \in 0 .. MaxDay : b[d] = IF d < day THEN a[d] ELSE a[d] + n - log[day]}
<1>6. 0 \in S
  BY <1>4, ConstantsAssumption DEF Days
<1>7. ASSUME NEW d \in Days, d - 1 \in S PROVE d \in S
  <2>1. /\ a[d] = a[d - 1] + log[d] /\ b[d] = b[d - 1] + new[d]
        /\ a[d - 1] \in Nat /\ b[d - 1] \in Nat /\ d \in 0 .. MaxDay /\ d \in Nat /\ day \in Nat
        /\ log[d] \in Nat /\ new[d] \in Nat
    BY <1>4, <1>5
  <2>2. b[d - 1] = IF d - 1 < day THEN a[d - 1] ELSE a[d - 1] + n - log[day]
    BY <1>7
  <2>3. CASE d = day
    BY <1>2, <2>1, <2>2, <2>3
  <2>4. CASE d < day
    BY <1>2, <2>1, <2>2, <2>4
  <2>5. CASE d > day
    <3>1. new[d] = log[d] /\ ~(d - 1 < day) /\ ~(d < day)
      BY <1>2, <2>1, <2>5
    <3>. QED BY <1>2, <2>1, <2>2, <3>1
  <2>. QED BY <2>1, <2>3, <2>4, <2>5
<1>8. 0 .. MaxDay \subseteq S
  <2>. HIDE DEF S
  <2>. QED BY <1>6, <1>7, DayByDay
<1>9. b[MaxDay] = a[MaxDay] + n - log[day]
  BY <1>8, ConstantsAssumption DEF Days
<1>10. a[MaxDay] \in Nat /\ b[MaxDay] \in Nat
  BY <1>4, ConstantsAssumption
<1>. QED BY <1>1, <1>2, <1>4, <1>9, <1>10

LEMMA LatestIs ==
    ASSUME NEW log
    PROVE  latestDay(log) \in 0 .. MaxDay
<1>1. PICK days : days = {NoDay} \union {d \in Days : log[d] > 0}
  OBVIOUS
<1>2. days \in SUBSET (0 .. MaxDay) /\ days # {}
  BY <1>1, ConstantsAssumption DEF Days, NoDay
<1>. QED BY <1>1, <1>2, LatestDay DEF latestDay

LEMMA NothingLogged == latestDay(NoLog) = NoDay
<1>1. {NoDay} \union {d \in Days : NoLog[d] > 0} = {NoDay}
  BY DEF NoLog
<1>2. Max({NoDay}) = NoDay
  BY MaxIs DEF NoDay
<1>. QED BY <1>1, <1>2 DEF latestDay

-----------------------------------------------------------------------------
(* The invariant.                                                           *)

\* The counters of a habit fit its log.
Counted(h) ==
    /\ h.totalCompletions = TotalOf(h.completions)
    /\ latestDay(h.completions) # NoDay => h.lastCompletedDay = latestDay(h.completions)
    /\ h.currentStreak <= h.longestStreak

Covered(h) ==
    \A d \in 0 .. MaxDay :
        RunsUpTo(dayMetTarget(h.completions, h.targetPerPeriod))[d] <= h.longestStreak

ClockOk == now \in 3 .. 2 * MaxDay - 1

RequestsOk ==
    /\ api = [c \in Clients |-> api[c]]
    /\ \A c \in Clients :
          /\ api[c].op \in {"complete", "uncomplete"} => api[c].day \in Days
          /\ api[c].op \in {"complete", "uncomplete", "update"} => api[c].today \in Days
          /\ requests = 0 => api[c].op = "none"

ReadsFit == \A c \in Clients : Counted(api[c].read)

\* A copy that is not outdated is what is stored.
ReadsAgree ==
    \A c \in Clients :
        api[c].op \in {"complete", "uncomplete", "update"} /\ api[c].current => api[c].read = habit

IInv ==
    /\ TypeOK /\ ClockOk /\ RequestsOk
    /\ CountersFitLog /\ ReadsFit
    /\ ReadsAgree
    /\ habit.stored /\ ~mixed => Covered(habit)

LEMMA DaysOfClock ==
    ASSUME ClockOk
    PROVE  utcDay \in Days /\ dayKey \in Days
  BY ConstantsAssumption DEF ClockOk, utcDay, dayKey, Days

LEMMA TargetsPositive == Targets \subseteq Nat \ {0} /\ Targets \subseteq Nat /\ Keep \notin Targets
  BY ConstantsAssumption DEF Keep

LEMMA NewHabitEffect ==
    ASSUME NEW target \in Targets
    PROVE  /\ NewHabit(target) \in Habit /\ Counted(NewHabit(target))
           /\ NewHabit(target).completions = NoLog /\ NewHabit(target).targetPerPeriod = target
           /\ NewHabit(target).longestStreak = 0 /\ NewHabit(target).stored
<1>1. NewHabit(target) \in Habit
  BY TotalOfNone, ConstantsAssumption DEF NewHabit, Habit, NoDay
<1>2. Counted(NewHabit(target))
  BY TotalOfNone, NothingLogged DEF NewHabit, Counted
<1>. QED BY <1>1, <1>2 DEF NewHabit

LEMMA NoHabitEffect ==
    /\ NoHabit \in Habit /\ Counted(NoHabit) /\ ~NoHabit.stored
<1>1. PICK least \in Targets : \A t \in Targets : least <= t
  BY LeastNumber, ConstantsAssumption
<1>2. Min(Targets) = least
  <2>1. Targets \subseteq Int
    BY ConstantsAssumption
  <2>. QED BY <1>1, <2>1, MinIs
<1>3. NewHabit(Min(Targets)) \in Habit /\ Counted(NewHabit(Min(Targets)))
  BY <1>1, <1>2, NewHabitEffect
<1>4. PICK new : new = NewHabit(Min(Targets))
  OBVIOUS
<1>5. /\ NoHabit \in Habit /\ ~NoHabit.stored
      /\ NoHabit.totalCompletions = new.totalCompletions /\ NoHabit.completions = new.completions
      /\ NoHabit.lastCompletedDay = new.lastCompletedDay
      /\ NoHabit.currentStreak = new.currentStreak /\ NoHabit.longestStreak = new.longestStreak
  BY <1>3, <1>4 DEF NoHabit, Habit
<1>. QED BY <1>3, <1>4, <1>5 DEF Counted

LEMMA IdleRequestEffect ==
    IdleRequest \in Request /\ IdleRequest.op = "none" /\ IdleRequest.read = NoHabit
  BY NoHabitEffect, ConstantsAssumption DEF IdleRequest, Request, NoDay

LEMMA InitInvariant == Init => IInv
<1>. SUFFICES ASSUME Init PROVE IInv
  OBVIOUS
<1>. USE NoHabitEffect, IdleRequestEffect, ConstantsAssumption
<1>1. \A c \in Clients : api[c] = IdleRequest
  BY DEF Init
<1>2. TypeOK
  <2>1. now = 3 /\ requests = 0 /\ mixed = FALSE
    BY DEF Init
  <2>2. reminder \in [day : 0 .. MaxDay, does : {"nothing", "skip", "notify"}]
    BY DEF Init, NoDay
  <2>3. habit \in Habit /\ \A c \in Clients : api[c] \in Request
    BY <1>1 DEF Init
  <2>4. now \in Nat
    BY <2>1
  <2>5. requests \in 0 .. MaxRequests
    BY <2>1
  <2>6. mixed \in BOOLEAN
    BY <2>1
  <2>. QED BY <2>2, <2>3, <2>4, <2>5, <2>6 DEF TypeOK
<1>3. ClockOk
  BY DEF Init, ClockOk
<1>4. RequestsOk /\ ReadsFit /\ ReadsAgree
  BY <1>1 DEF Init, RequestsOk, ReadsFit, ReadsAgree
<1>5. CountersFitLog /\ ~habit.stored
  BY DEF Init, CountersFitLog, Counted
<1>. QED BY <1>2, <1>3, <1>4, <1>5 DEF IInv

-----------------------------------------------------------------------------
(* The patches.                                                             *)

\* What the patch of a log says of it.
PatchFits(patch, target) ==
    /\ patch.completions \in Logs
    /\ patch.currentStreak \in 0 .. MaxDay /\ patch.longestStreak \in 0 .. MaxDay
    /\ patch.currentStreak <= patch.longestStreak
    /\ patch.totalCompletions \in Nat
    /\ patch.totalCompletions = TotalOf(patch.completions)
    /\ patch.lastCompletedDay = latestDay(patch.completions)
    /\ computeLongestStreak(patch.completions, target) <= patch.longestStreak

LEMMA Recalculated ==
    ASSUME NEW read \in Habit, Counted(read), NEW day \in Days, NEW n \in Nat, NEW today \in Days,
           NEW delta \in Int, delta = n - read.completions[day], NEW log,
           log = [read.completions EXCEPT ![day] = n]
    PROVE  PatchFits([recalculate(read, log, delta, today)
                         EXCEPT !.lastCompletedDay = latestDay(log)],
                     read.targetPerPeriod)
<1>. DEFINE target == read.targetPerPeriod
            current == computeCurrentStreak(log, target, today)
            computed == computeLongestStreak(log, target)
            longest == Max({read.longestStreak, computed})
            total == Max({0, read.totalCompletions + delta})
            patch == [recalculate(read, log, delta, today)
                         EXCEPT !.lastCompletedDay = latestDay(log)]
<1>1. /\ read.completions \in Logs /\ target \in Nat \ {0} /\ read.longestStreak \in 0 .. MaxDay
      /\ read.totalCompletions = TotalOf(read.completions)
  BY TargetsPositive DEF Habit, Counted
<1>2. /\ patch.completions = log /\ patch.currentStreak = current /\ patch.longestStreak = longest
      /\ patch.totalCompletions = total /\ patch.lastCompletedDay = latestDay(log)
  BY DEF recalculate, Habit
<1>3. /\ log \in Logs /\ TotalOf(log) \in Nat /\ TotalOf(read.completions) \in Nat
      /\ TotalOf(log) = TotalOf(read.completions) + n - read.completions[day]
      /\ read.completions[day] \in Nat
  BY <1>1, TotalOfChanged DEF Logs
<1>4. total = TotalOf(log)
  <2>1. read.totalCompletions + delta = TotalOf(log)
    BY <1>1, <1>3
  <2>. QED BY <1>3, <2>1, MaxOfTwo
<1>5. current \in 0 .. MaxDay /\ current <= computed /\ computed \in 0 .. MaxDay
  BY <1>1, CurrentIs, LongestIs
<1>6. longest \in 0 .. MaxDay /\ computed <= longest
  BY <1>1, <1>5, MaxOfTwo, ConstantsAssumption
<1>. HIDE DEF current, computed, longest, total, patch
<1>7. current <= longest
  BY <1>5, <1>6, ConstantsAssumption
<1>8. computed = computeLongestStreak(log, target)
  BY DEF computed
<1>9. PatchFits(patch, target)
  BY <1>2, <1>3, <1>4, <1>5, <1>6, <1>7, <1>8 DEF PatchFits
<1>. QED BY <1>9 DEF patch

LEMMA CompletePatch ==
    ASSUME NEW q \in Request, Counted(q.read), q.day \in Days, q.today \in Days
    PROVE  PatchFits(completePatch(q), q.read.targetPerPeriod)
<1>1. q.read \in Habit /\ q.count \in Nat /\ q.read.completions[q.day] \in Nat
  BY DEF Request, Habit, Logs
<1>2. PICK n \in Nat : n = q.read.completions[q.day] + q.count
  BY <1>1
<1>3. PICK log : log = [q.read.completions EXCEPT ![q.day] = @ + q.count]
  OBVIOUS
<1>4. log = [q.read.completions EXCEPT ![q.day] = n] /\ q.count = n - q.read.completions[q.day]
  BY <1>1, <1>2, <1>3
<1>5. completePatch(q) =
        [recalculate(q.read, log, q.count, q.today) EXCEPT !.lastCompletedDay = latestDay(log)]
  BY <1>3 DEF completePatch
<1>. QED BY <1>1, <1>4, <1>5, Recalculated

LEMMA UncompletePatch ==
    ASSUME NEW q \in Request, Counted(q.read), q.day \in Days, q.today \in Days
    PROVE  PatchFits(uncompletePatch(q), q.read.targetPerPeriod)
<1>1. q.read \in Habit /\ q.count \in Nat /\ q.read.completions[q.day] \in Nat
  BY DEF Request, Habit, Logs
<1>2. PICK removed : removed = Min({q.read.completions[q.day], q.count})
  OBVIOUS
<1>3. removed \in Nat /\ removed <= q.read.completions[q.day]
  BY <1>1, <1>2, MinOfTwo
<1>4. PICK n \in Nat : n = q.read.completions[q.day] - removed
  BY <1>1, <1>3
<1>5. PICK log : log = [q.read.completions EXCEPT ![q.day] = @ - removed]
  OBVIOUS
<1>6. /\ log = [q.read.completions EXCEPT ![q.day] = n]
      /\ -removed \in Int /\ -removed = n - q.read.completions[q.day]
  BY <1>1, <1>3, <1>4, <1>5
<1>7. uncompletePatch(q) =
        [recalculate(q.read, log, -removed, q.today) EXCEPT !.lastCompletedDay = latestDay(log)]
  BY <1>2, <1>5 DEF uncompletePatch
<1>. QED BY <1>1, <1>6, <1>7, Recalculated

-----------------------------------------------------------------------------
(* Steps.                                                                   *)

LEMMA ClockKept ==
    ASSUME ClockOk, UNCHANGED now
    PROVE  ClockOk'
  BY DEF ClockOk

\* A write that fits the habit it makes.
LEMMA WrittenKeeps ==
    ASSUME IInv, NEW c \in Clients, NEW new \in Habit, NEW mixes \in BOOLEAN,
           Written(c, new, mixes), Counted(new),
           new.stored /\ ~mixed /\ ~mixes => Covered(new)
    PROVE  IInv'
<1>1. /\ habit' = new /\ mixed' = (mixed \/ mixes) /\ UNCHANGED <<now, reminder, requests>>
      /\ \A d \in Clients :
            api'[d] = IF d = c THEN IdleRequest
                      ELSE [api[d] EXCEPT !.current = @ /\ ~(api[d].op # "none" /\ new # habit)]
      /\ api' = [d \in Clients |-> api'[d]]
  BY DEF Written
<1>2. /\ \A d \in Clients : api[d] \in Request /\ api[d].current \in BOOLEAN
      /\ mixed \in BOOLEAN
  BY DEF IInv, TypeOK, Request
<1>3. \A d \in Clients \ {c} :
          /\ api'[d] \in Request /\ api'[d].op = api[d].op /\ api'[d].day = api[d].day
          /\ api'[d].today = api[d].today /\ api'[d].read = api[d].read
  <2>. TAKE d \in Clients \ {c}
  <2>1. PICK b : b = (api[d].current /\ ~(api[d].op # "none" /\ new # habit))
    OBVIOUS
  <2>2. b \in BOOLEAN
    BY <2>1
  <2>3. api'[d] = [api[d] EXCEPT !.current = b]
    BY <1>1, <2>1
  <2>4. api[d] \in Request
    BY <1>2
  <2>. QED BY <2>2, <2>3, <2>4 DEF Request
<1>4. \A d \in Clients \ {c} :
          api'[d].current = (api[d].current /\ ~(api[d].op # "none" /\ new # habit))
  <2>. SUFFICES ASSUME NEW d \in Clients \ {c}
                PROVE  api'[d].current = (api[d].current /\ ~(api[d].op # "none" /\ new # habit))
    OBVIOUS
  <2>1. PICK b : b = (api[d].current /\ ~(api[d].op # "none" /\ new # habit))
    OBVIOUS
  <2>2. api'[d] = [api[d] EXCEPT !.current = b]
    BY <1>1, <2>1
  <2>3. [api[d] EXCEPT !.current = b].current = b
    BY <1>2 DEF Request
  <2>. QED BY <2>1, <2>2, <2>3
<1>5. api'[c] = IdleRequest
  BY <1>1
<1>6. \A d \in Clients : api'[d] \in Request
  BY <1>3, <1>5, IdleRequestEffect
<1>7. mixed' \in BOOLEAN
  BY <1>1, <1>2
<1>8. TypeOK'
  BY <1>1, <1>6, <1>7 DEF IInv, TypeOK
<1>9. ClockOk'
  BY <1>1, ClockKept DEF IInv
<1>10. RequestsOk'
  BY <1>1, <1>3, <1>5, IdleRequestEffect DEF IInv, RequestsOk
<1>11. CountersFitLog'
  BY <1>1 DEF CountersFitLog, Counted
<1>12. ReadsFit'
  BY <1>3, <1>5, IdleRequestEffect, NoHabitEffect DEF IInv, ReadsFit, Counted
<1>13. ReadsAgree'
  BY <1>1, <1>3, <1>4, <1>5, IdleRequestEffect, ZenonT(60) DEF IInv, ReadsAgree
<1>14. (habit.stored /\ ~mixed => Covered(habit))'
  <2>1. habit'.stored /\ ~mixed' => Covered(new)
    BY <1>1, <1>2
  <2>. QED BY <1>1, <2>1 DEF Covered
<1>. QED BY <1>8, <1>9, <1>10, <1>11, <1>12, <1>13, <1>14 DEF IInv

\* A patch that fits is written over whatever the habit has become.
LEMMA LogWrittenEffect ==
    ASSUME NEW old \in Habit, Counted(old), NEW patch, NEW target \in Nat \ {0},
           PatchFits(patch, target)
    PROVE  /\ LogWritten(old, patch) \in Habit /\ Counted(LogWritten(old, patch))
           /\ old.targetPerPeriod = target => Covered(LogWritten(old, patch))
<1>. DEFINE new == LogWritten(old, patch)
<1>1. /\ new.stored = old.stored /\ new.targetPerPeriod = old.targetPerPeriod
      /\ new.completions = patch.completions /\ new.currentStreak = patch.currentStreak
      /\ new.longestStreak = patch.longestStreak
      /\ new.totalCompletions = patch.totalCompletions
      /\ new.lastCompletedDay = IF patch.lastCompletedDay = NoDay THEN old.lastCompletedDay
                                ELSE patch.lastCompletedDay
  BY DEF LogWritten, Habit
<1>2. patch.lastCompletedDay \in 0 .. MaxDay
  BY LatestIs DEF PatchFits
<1>3. new \in Habit
  BY <1>2 DEF LogWritten, Habit, PatchFits
<1>. HIDE DEF new
<1>4. Counted(new)
  BY <1>1 DEF Counted, PatchFits
<1>5. ASSUME old.targetPerPeriod = target PROVE Covered(new)
  <2>. DEFINE back == RunsUpTo(dayMetTarget(patch.completions, target))
              longest == computeLongestStreak(patch.completions, target)
  <2>1. \A d \in 0 .. MaxDay : back[d] <= longest /\ back[d] \in 0 .. d
    BY LongestIs, MetDays, RunsAre
  <2>2. longest \in 0 .. MaxDay /\ longest <= patch.longestStreak
    BY LongestIs DEF PatchFits
  <2>3. patch.longestStreak \in 0 .. MaxDay
    BY DEF PatchFits
  <2>. HIDE DEF back, longest
  <2>4. \A d \in 0 .. MaxDay : back[d] <= patch.longestStreak
    BY <2>1, <2>2, <2>3, ConstantsAssumption
  <2>. QED BY <1>1, <1>5, <2>4 DEF Covered, back
<1>. QED BY <1>3, <1>4, <1>5 DEF new

LEMMA CompleteKeeps ==
    ASSUME IInv, NEW c \in Clients, complete(c) \/ uncomplete(c)
    PROVE  IInv'
<1>1. PICK q, patch :
        /\ q = api[c] /\ q.op \in {"complete", "uncomplete"}
        /\ patch = completePatch(q) \/ patch = uncompletePatch(q)
        /\ Written(c, LogWritten(habit, patch), q.read.targetPerPeriod # habit.targetPerPeriod)
  BY DEF complete, uncomplete
<1>2. /\ q \in Request /\ Counted(q.read) /\ q.day \in Days /\ q.today \in Days
      /\ habit \in Habit /\ Counted(habit)
  BY <1>1 DEF IInv, TypeOK, ReadsFit, RequestsOk, CountersFitLog, Counted
<1>3. PatchFits(patch, q.read.targetPerPeriod)
  BY <1>1, <1>2, CompletePatch, UncompletePatch
<1>4. q.read.targetPerPeriod \in Nat \ {0}
  BY <1>2, TargetsPositive DEF Request, Habit
<1>5. PICK new, mixes : /\ new = LogWritten(habit, patch)
                        /\ mixes = (q.read.targetPerPeriod # habit.targetPerPeriod)
  OBVIOUS
<1>6. new \in Habit /\ Counted(new) /\ (~mixes => Covered(new)) /\ mixes \in BOOLEAN
  BY <1>2, <1>3, <1>4, <1>5, LogWrittenEffect
<1>. QED BY <1>1, <1>5, <1>6, WrittenKeeps

LEMMA EditWrittenEffect ==
    ASSUME NEW old \in Habit, Counted(old), NEW q \in Request, q.today \in Days
    PROVE  /\ EditWritten(old, q) \in Habit /\ Counted(EditWritten(old, q))
           /\ Covered(old) /\ (q.target = Keep \/ q.read = old) => Covered(EditWritten(old, q))
<1>. DEFINE edited == Edited(old, q)
            new == EditWritten(old, q)
            current == computeCurrentStreak(q.read.completions, q.target, q.today)
            longest == computeLongestStreak(q.read.completions, q.target)
<1>1. /\ q.read \in Habit /\ q.target \in Targets \union {Keep}
      /\ q.archived \in {"keep", "yes", "no"}
  BY DEF Request
<1>2. /\ edited \in Habit
      /\ edited.completions = old.completions /\ edited.currentStreak = old.currentStreak
      /\ edited.longestStreak = old.longestStreak
      /\ edited.totalCompletions = old.totalCompletions
      /\ edited.lastCompletedDay = old.lastCompletedDay
      /\ edited.targetPerPeriod = IF q.target = Keep THEN old.targetPerPeriod ELSE q.target
  BY <1>1 DEF Edited, Habit
<1>. HIDE DEF edited
<1>3. CASE q.target \in {Keep, q.read.targetPerPeriod}
  <2>1. new = edited
    BY <1>3 DEF EditWritten, edited
  <2>2. Counted(edited)
    BY <1>2 DEF Counted
  <2>3. (q.target = Keep \/ q.read = old) => edited.targetPerPeriod = old.targetPerPeriod
    BY <1>2, <1>3
  <2>4. Covered(old) /\ edited.targetPerPeriod = old.targetPerPeriod => Covered(edited)
    BY <1>2 DEF Covered
  <2>. QED BY <1>2, <2>1, <2>2, <2>3, <2>4
<1>4. CASE q.target \notin {Keep, q.read.targetPerPeriod}
  <2>1. new = [edited EXCEPT !.currentStreak = current, !.longestStreak = longest]
    BY <1>4 DEF EditWritten, edited
  <2>2. q.target \in Nat \ {0} /\ q.target \in Targets
    BY <1>1, <1>4, TargetsPositive
  <2>3. current \in 0 .. MaxDay /\ longest \in 0 .. MaxDay /\ current <= longest
    BY <2>2, CurrentIs, LongestIs
  <2>. HIDE DEF current, longest, new
  <2>4. /\ new \in Habit
        /\ new.completions = old.completions /\ new.currentStreak = current
        /\ new.longestStreak = longest /\ new.totalCompletions = old.totalCompletions
        /\ new.lastCompletedDay = old.lastCompletedDay /\ new.targetPerPeriod = q.target
    BY <1>2, <1>4, <2>1, <2>3 DEF Habit
  <2>5. Counted(new)
    BY <2>3, <2>4 DEF Counted
  <2>6. ASSUME q.read = old PROVE Covered(new)
    <3>1. longest = computeLongestStreak(new.completions, new.targetPerPeriod)
      BY <2>4, <2>6 DEF longest
    <3>2. \A d \in 0 .. MaxDay :
            RunsUpTo(dayMetTarget(new.completions, new.targetPerPeriod))[d] <= longest
      BY <2>2, <2>4, <3>1, LongestIs
    <3>. QED BY <2>4, <3>2 DEF Covered
  <2>. QED BY <1>4, <2>4, <2>5, <2>6 DEF new
<1>. QED BY <1>3, <1>4

LEMMA UpdateKeeps ==
    ASSUME IInv, NEW c \in Clients, update(c)
    PROVE  IInv'
<1>1. PICK q : q = api[c]
  OBVIOUS
<1>2. PICK new, mixes : new = EditWritten(habit, q) /\ mixes = (q.target # Keep /\ ~q.current)
  OBVIOUS
<1>3. q.op = "update" /\ habit.stored /\ Written(c, new, mixes)
  BY <1>1, <1>2 DEF update
<1>4. /\ q \in Request /\ q.today \in Days /\ habit \in Habit /\ Counted(habit)
      /\ q.current => q.read = habit
  BY <1>1, <1>3 DEF IInv, TypeOK, RequestsOk, ReadsAgree, CountersFitLog, Counted
<1>5. /\ new \in Habit /\ Counted(new)
      /\ Covered(habit) /\ (q.target = Keep \/ q.read = habit) => Covered(new)
  BY <1>2, <1>4, EditWrittenEffect
<1>6. ~mixes => q.target = Keep \/ q.read = habit
  BY <1>2, <1>4
<1>7. ~mixed => Covered(habit)
  BY <1>3 DEF IInv
<1>8. mixes \in BOOLEAN
  BY <1>2
<1>. QED BY <1>3, <1>5, <1>6, <1>7, <1>8, WrittenKeeps

LEMMA RemoveKeeps ==
    ASSUME IInv, NEW c \in Clients, remove(c)
    PROVE  IInv'
  BY NoHabitEffect, WrittenKeeps DEF remove

LEMMA CreateKeeps ==
    ASSUME IInv, NEW c \in Clients, create(c)
    PROVE  IInv'
<1>1. PICK target \in Targets : habit' = NewHabit(target)
  BY DEF create
<1>2. requests = 0 /\ requests' = 1 /\ UNCHANGED <<now, api, reminder, mixed>>
  BY DEF create
<1>3. /\ habit' \in Habit /\ Counted(habit') /\ habit'.stored
      /\ habit'.completions = NoLog /\ habit'.targetPerPeriod = target /\ habit'.longestStreak = 0
  BY <1>1, NewHabitEffect
<1>4. \A d \in Clients : api[d].op = "none"
  BY <1>2 DEF IInv, RequestsOk
<1>5. TypeOK'
  BY <1>2, <1>3, ConstantsAssumption DEF IInv, TypeOK
<1>6. ClockOk' /\ RequestsOk' /\ ReadsFit'
  BY <1>2 DEF IInv, ClockOk, RequestsOk, ReadsFit
<1>7. CountersFitLog'
  BY <1>3 DEF CountersFitLog, Counted
<1>8. ReadsAgree'
  BY <1>2, <1>4 DEF ReadsAgree
<1>9. Covered(habit)'
  <2>1. dayMetTarget(NoLog, target) = {}
    BY ConstantsAssumption DEF dayMetTarget, NoLog
  <2>2. \A d \in 0 .. MaxDay : RunsUpTo({})[d] = 0
    BY RunsRecur
  <2>. QED BY <1>3, <2>1, <2>2 DEF Covered
<1>. QED BY <1>5, <1>6, <1>7, <1>8, <1>9 DEF IInv

LEMMA BeginKeeps ==
    ASSUME IInv, NEW c \in Clients, Begin(c)
    PROVE  IInv'
<1>1. PICK q :
        /\ \/ q \in [op : {"complete", "uncomplete"}, day : Days \union {dayKey},
                     count : 1 .. MaxCount, target : {Keep}, archived : {"keep"},
                     today : {utcDay}, read : {habit}, current : {TRUE}]
           \/ q \in [op : {"update"}, day : {NoDay}, count : {0}, target : Targets \union {Keep},
                     archived : {"keep", "yes", "no"}, today : {utcDay}, read : {habit},
                     current : {TRUE}]
           \/ q = [IdleRequest EXCEPT !.op = "remove"]
        /\ api' = [api EXCEPT ![c] = q]
  BY DEF Begin
<1>2. /\ requests < MaxRequests /\ requests' = requests + 1
      /\ UNCHANGED <<now, habit, reminder, mixed>>
  BY DEF Begin
<1>3. utcDay \in Days /\ dayKey \in Days /\ habit \in Habit /\ Counted(habit)
  BY DaysOfClock DEF IInv, TypeOK, CountersFitLog, Counted
<1>4. [IdleRequest EXCEPT !.op = "remove"] \in Request
      /\ [IdleRequest EXCEPT !.op = "remove"].op = "remove"
      /\ [IdleRequest EXCEPT !.op = "remove"].read = NoHabit
  BY IdleRequestEffect DEF Request
<1>5. /\ q \in Request /\ q.op # "none"
      /\ q.op \in {"complete", "uncomplete"} => q.day \in Days
      /\ q.op \in {"complete", "uncomplete", "update"} => q.today \in Days /\ q.read = habit
      /\ Counted(q.read)
  <2>1. CASE q = [IdleRequest EXCEPT !.op = "remove"]
    BY <1>4, <2>1, NoHabitEffect
  <2>2. CASE q \in [op : {"complete", "uncomplete"}, day : Days \union {dayKey},
                    count : 1 .. MaxCount, target : {Keep}, archived : {"keep"},
                    today : {utcDay}, read : {habit}, current : {TRUE}]
    <3>1. /\ q.op \in {"complete", "uncomplete"} /\ q.day \in Days /\ q.today = utcDay
          /\ q.read = habit
      BY <1>3, <2>2
    <3>2. /\ q.day \in 0 .. MaxDay /\ q.count \in Nat /\ q.target = Keep /\ q.archived = "keep"
          /\ q.today \in 0 .. MaxDay
      BY <1>3, <2>2, ConstantsAssumption DEF Days
    <3>3. q.current \in BOOLEAN
      BY <2>2
    <3>4. q = [op |-> q.op, day |-> q.day, count |-> q.count, target |-> q.target,
               archived |-> q.archived, today |-> q.today, read |-> q.read, current |-> q.current]
      BY <2>2
    <3>5. q \in Request
      BY <1>3, <3>1, <3>2, <3>3, <3>4 DEF Request
    <3>. QED BY <1>3, <3>1, <3>5
  <2>3. CASE q \in [op : {"update"}, day : {NoDay}, count : {0}, target : Targets \union {Keep},
                    archived : {"keep", "yes", "no"}, today : {utcDay}, read : {habit},
                    current : {TRUE}]
    <3>1. q.op = "update" /\ q.today = utcDay /\ q.read = habit
      BY <2>3
    <3>2. /\ q.day = 0 /\ q.count = 0 /\ q.target \in Targets \union {Keep}
          /\ q.archived \in {"keep", "yes", "no"} /\ q.today \in 0 .. MaxDay /\ 0 \in 0 .. MaxDay
      BY <1>3, <2>3, ConstantsAssumption DEF Days, NoDay
    <3>3. q.current \in BOOLEAN
      BY <2>3
    <3>4. q = [op |-> q.op, day |-> q.day, count |-> q.count, target |-> q.target,
               archived |-> q.archived, today |-> q.today, read |-> q.read, current |-> q.current]
      BY <2>3
    <3>5. q \in Request
      BY <1>3, <3>1, <3>2, <3>3, <3>4 DEF Request
    <3>. QED BY <1>3, <3>1, <3>5
  <2>. QED BY <1>1, <2>1, <2>2, <2>3
<1>6. /\ api' = [d \in Clients |-> api'[d]]
      /\ \A d \in Clients : api'[d] = IF d = c THEN q ELSE api[d]
  BY <1>1 DEF IInv, RequestsOk
<1>7. requests' \in 0 .. MaxRequests /\ requests' # 0
  BY <1>2, ConstantsAssumption DEF IInv, TypeOK
<1>8. TypeOK'
  BY <1>2, <1>5, <1>6, <1>7 DEF IInv, TypeOK
<1>9. RequestsOk'
  BY <1>5, <1>6, <1>7 DEF IInv, RequestsOk
<1>10. ClockOk'
  BY <1>2, ClockKept DEF IInv
<1>11. CountersFitLog' /\ (habit.stored /\ ~mixed => Covered(habit))'
  BY <1>2 DEF IInv, CountersFitLog, Covered
<1>12. ReadsFit'
  BY <1>5, <1>6 DEF IInv, ReadsFit
<1>13. ReadsAgree'
  BY <1>2, <1>5, <1>6 DEF IInv, ReadsAgree
<1>. QED BY <1>8, <1>9, <1>10, <1>11, <1>12, <1>13 DEF IInv

LEMMA MissedKeeps ==
    ASSUME IInv, NEW c \in Clients, Missed(c)
    PROVE  IInv'
<1>1. /\ UNCHANGED <<now, habit, reminder, mixed, requests>>
      /\ api' = [d \in Clients |-> api'[d]]
      /\ \A d \in Clients : api'[d] = IF d = c THEN IdleRequest ELSE api[d]
  BY DEF Missed, IInv, RequestsOk
<1>2. TypeOK'
  BY <1>1, IdleRequestEffect DEF IInv, TypeOK
<1>3. RequestsOk'
  BY <1>1, IdleRequestEffect DEF IInv, RequestsOk
<1>4. ClockOk'
  BY <1>1, ClockKept DEF IInv
<1>5. CountersFitLog' /\ (habit.stored /\ ~mixed => Covered(habit))'
  BY <1>1 DEF IInv, CountersFitLog, Covered
<1>6. ReadsFit' /\ ReadsAgree'
  BY <1>1, IdleRequestEffect, NoHabitEffect DEF IInv, ReadsFit, ReadsAgree
<1>. QED BY <1>2, <1>3, <1>4, <1>5, <1>6 DEF IInv

LEMMA NextKeeps == IInv /\ [Next]_vars => IInv'
<1>. SUFFICES ASSUME IInv, [Next]_vars PROVE IInv'
  OBVIOUS
<1>1. CASE runHabitReminders
  <2>1. UNCHANGED <<now, habit, api, mixed, requests>>
    BY <1>1 DEF runHabitReminders
  <2>2. reminder' \in [day : 0 .. MaxDay, does : {"nothing", "skip", "notify"}]
    <3>1. dayKey \in 0 .. MaxDay
      BY DaysOfClock, ConstantsAssumption DEF IInv, Days
    <3>. QED BY <1>1, <3>1 DEF runHabitReminders
  <2>3. TypeOK'
    BY <2>1, <2>2 DEF IInv, TypeOK
  <2>. QED BY <2>1, <2>3 DEF IInv, ClockOk, RequestsOk, CountersFitLog, ReadsFit, ReadsAgree,
                             Covered
<1>2. CASE HalfDayPasses
  <2>1. /\ now' = now + 1 /\ now < 2 * MaxDay - 1
        /\ UNCHANGED <<habit, api, reminder, mixed, requests>>
    BY <1>2 DEF HalfDayPasses
  <2>2. ClockOk' /\ now' \in Nat
    BY <2>1, ConstantsAssumption DEF IInv, ClockOk
  <2>3. TypeOK'
    BY <2>1, <2>2 DEF IInv, TypeOK
  <2>. QED BY <2>1, <2>2, <2>3 DEF IInv, RequestsOk, CountersFitLog, ReadsFit, ReadsAgree, Covered
<1>3. CASE UNCHANGED vars
  BY <1>3 DEF vars, IInv, TypeOK, ClockOk, RequestsOk, CountersFitLog, ReadsFit, ReadsAgree, Covered
<1>. QED BY <1>1, <1>2, <1>3, CreateKeeps, BeginKeeps, CompleteKeeps, UpdateKeeps, RemoveKeeps,
            MissedKeeps DEF Next

\* The invariant the theorems follow from.
THEOREM Invariant == Spec => []IInv
  BY InitInvariant, NextKeeps, PTL DEF Spec

\* The document keeps its shape, and no count and no total is ever negative, whatever is
\* logged, withdrawn, edited and removed between the read and the write of a request.
THEOREM TypeCorrect == Spec => []TypeOK
<1>1. IInv => TypeOK
  BY DEF IInv
<1>. QED BY <1>1, Invariant, PTL

\* The counters fit the log, for any number of requests that lose each other's completions.
THEOREM CountersFit == Spec => []CountersFitLog
<1>1. IInv => CountersFitLog
  BY DEF IInv
<1>. QED BY <1>1, Invariant, PTL

\* The longest streak covers every run of the log, for any number of requests, days and
\* targets, until a new target races with another write.
THEOREM LongestStreakCovers == Spec => []LongestCoversLog
<1>1. ASSUME IInv PROVE LongestCoversLog
  <2>. SUFFICES ASSUME habit.stored, ~mixed, NEW a \in Days, NEW b \in Days,
                       a .. b \subseteq dayMetTarget(habit.completions, habit.targetPerPeriod)
                PROVE  habit.longestStreak >= Cardinality(a .. b)
    BY DEF LongestCoversLog
  <2>1. PICK met : met = dayMetTarget(habit.completions, habit.targetPerPeriod)
    OBVIOUS
  <2>2. habit.targetPerPeriod \in Nat \ {0} /\ habit.longestStreak \in Int
    <3>1. habit \in Habit
      BY <1>1 DEF IInv, TypeOK
    <3>2. habit.targetPerPeriod \in Targets /\ habit.longestStreak \in 0 .. MaxDay
      BY <3>1 DEF Habit
    <3>3. habit.longestStreak \in Int
      BY <3>2
    <3>4. habit.targetPerPeriod \in Nat \ {0}
      BY <3>2, TargetsPositive, Zenon
    <3>. QED BY <3>3, <3>4
  <2>3. met \in SUBSET Days
    BY <2>1, <2>2, MetDays
  <2>4. a \in 1 .. MaxDay + 1 /\ b \in 0 .. MaxDay /\ a \in Int /\ b \in Int
    BY ConstantsAssumption DEF Days
  <2>5. Cardinality(a .. b) <= RunsUpTo(met)[b]
    BY <2>1, <2>3, <2>4, RunsAreLongest
  <2>6. RunsUpTo(met)[b] <= habit.longestStreak /\ RunsUpTo(met)[b] \in Int
    BY <1>1, <2>1, <2>3, <2>4, RunsAre DEF IInv, Covered
  <2>7. Cardinality(a .. b) \in Int
    BY <2>4, FS_Interval
  <2>. QED BY <2>2, <2>5, <2>6, <2>7
<1>. QED BY <1>1, Invariant, PTL

\* The three views of a log that a response shows agree, whatever the log, the target, the
\* day and the length of the history.
THEOREM StreakViewsAgree == Spec => []ViewsAgree
<1>1. ASSUME IInv PROVE ViewsAgree
  <2>. DEFINE log == habit.completions
              target == habit.targetPerPeriod
  <2>1. target \in Nat \ {0} /\ utcDay \in Days
    BY <1>1, DaysOfClock, ConstantsAssumption DEF IInv, TypeOK, Habit
  <2>2. /\ computeStats(habit, utcDay).history = buildHistory(log, target, utcDay)
        /\ computeStats(habit, utcDay).currentStreak = computeCurrentStreak(log, target, utcDay)
        /\ computeStats(habit, utcDay).longestStreak = computeLongestStreak(log, target)
    BY DEF computeStats
  <2>3. dayKey = utcDay => (computeStats(habit, utcDay).completedToday
                              = buildHistory(log, target, utcDay)[1])
    <3>. SUFFICES ASSUME dayKey = utcDay
                  PROVE  computeStats(habit, utcDay).completedToday
                           = buildHistory(log, target, utcDay)[1]
      OBVIOUS
    <3>1. computeStats(habit, utcDay).completedToday = (utcDay \in dayMetTarget(log, target))
      BY DEF computeStats
    <3>2. 1 \in 1 .. HISTORY_WINDOW_DAYS /\ utcDay - 1 + 1 = utcDay
      BY <2>1, ConstantsAssumption DEF Days
    <3>3. buildHistory(log, target, utcDay)[1]
            = (utcDay - 1 + 1 \in Days /\ log[utcDay - 1 + 1] >= target)
      BY <3>2 DEF buildHistory
    <3>. QED BY <2>1, <3>1, <3>2, <3>3 DEF dayMetTarget
  <2>. HIDE DEF log, target
  <2>4. computeCurrentStreak(log, target, utcDay) <= computeLongestStreak(log, target)
    BY <2>1, CurrentIs
  <2>5. LET history == buildHistory(log, target, utcDay)
            from == IF history[1] THEN 1 ELSE 2
            head == {n \in 0 .. HISTORY_WINDOW_DAYS + 1 - from :
                       \A i \in from .. from + n - 1 : history[i]} IN
        Min({computeCurrentStreak(log, target, utcDay), HISTORY_WINDOW_DAYS + 1 - from}) = Max(head)
    BY <2>1, CurrentIsHead, ZenonT(60)
  <2>6. computeLongestStreak(log, target) = Max({Cardinality(r[1] .. r[2]) :
          r \in {i \in (1 .. MaxDay + 1) \X (0 .. MaxDay) :
                    i[1] .. i[2] \subseteq dayMetTarget(log, target)}})
    BY <2>1, LongestIsInterval
  <2>. QED BY <2>2, <2>3, <2>4, <2>5, <2>6, Zenon DEF ViewsAgree, log, target
<1>. QED BY <1>1, Invariant, PTL

\* At midnight a streak that includes the day that ends is kept, and one last extended the
\* day before is gone.
THEOREM MidnightKeepsStreak == Spec => StreakSurvivesMidnight
<1>1. ASSUME IInv, IInv', Next, habit.stored, utcDay' # utcDay
      PROVE  LET met == dayMetTarget(habit.completions, habit.targetPerPeriod) IN
             /\ utcDay \in met => StreakOn(utcDay') >= StreakOn(utcDay)
             /\ utcDay \notin met /\ utcDay' \notin met => StreakOn(utcDay') = 0
  <2>1. now' = now + 1
    <3>1. ASSUME UNCHANGED now PROVE FALSE
      BY <1>1, <3>1 DEF utcDay
    <3>. QED BY <1>1, <3>1 DEF Next, create, Begin, complete, uncomplete, update, remove, Missed,
                              Written, runHabitReminders, HalfDayPasses
  <2>2. now \in Nat /\ utcDay \in Days /\ utcDay' \in Days
    <3>1. now \in Nat /\ utcDay \in Days
      BY <1>1, DaysOfClock DEF IInv, TypeOK
    <3>2. PICK later : later = now'
      OBVIOUS
    <3>3. later \in 3 .. 2 * MaxDay - 1 /\ utcDay' = later \div 2
      BY <1>1, <3>2 DEF IInv, ClockOk, utcDay
    <3>4. utcDay' \in Days
      BY <3>3, ConstantsAssumption DEF Days
    <3>. QED BY <3>1, <3>4
  <2>3. utcDay' = utcDay + 1
    BY <1>1, <2>1, <2>2 DEF utcDay
  <2>4. PICK met, yesterday, today :
           /\ met = dayMetTarget(habit.completions, habit.targetPerPeriod)
           /\ yesterday = utcDay /\ today = utcDay'
    OBVIOUS
  <2>5. /\ met \in SUBSET Days
        /\ yesterday \in Days /\ today \in Days /\ today = yesterday + 1
    <3>1. habit.targetPerPeriod \in Nat \ {0}
      BY <1>1, ConstantsAssumption DEF IInv, TypeOK, Habit
    <3>. QED BY <2>2, <2>3, <2>4, <3>1, MetDays
  <2>6. /\ StreakOn(utcDay) = RunsUpTo(met)[IF yesterday \in met THEN yesterday ELSE yesterday - 1]
        /\ StreakOn(utcDay') = RunsUpTo(met)[IF today \in met THEN today ELSE today - 1]
    BY <2>4 DEF StreakOn, computeCurrentStreak
  <2>7. /\ today \in 0 .. MaxDay /\ yesterday \in 0 .. MaxDay /\ today - 1 = yesterday
        /\ yesterday - 1 \in 0 .. MaxDay
    BY <2>5, ConstantsAssumption DEF Days
  <2>8. /\ RunsUpTo(met)[today] = IF today \in met THEN 1 + RunsUpTo(met)[yesterday] ELSE 0
        /\ RunsUpTo(met)[yesterday] \in Nat
        /\ yesterday \notin met => RunsUpTo(met)[yesterday] = 0
    <3>1. \A d \in 0 .. MaxDay : /\ RunsUpTo(met)[d] \in 0 .. d
                                 /\ RunsUpTo(met)[d] = IF d \in met THEN 1 + RunsUpTo(met)[d - 1]
                                                      ELSE 0
      BY <2>5, RunsRecur, RunsAre
    <3>. QED BY <2>7, <3>1, ConstantsAssumption
  <2>9. yesterday \in met => StreakOn(utcDay') >= StreakOn(utcDay)
    BY <2>6, <2>7, <2>8
  <2>10. yesterday \notin met /\ today \notin met => StreakOn(utcDay') = 0
    BY <2>6, <2>7, <2>8
  <2>. QED BY <2>4, <2>9, <2>10
<1>2. IInv /\ IInv' /\ [Next]_vars =>
        [habit.stored /\ utcDay' # utcDay =>
          LET met == dayMetTarget(habit.completions, habit.targetPerPeriod) IN
          /\ utcDay \in met => StreakOn(utcDay') >= StreakOn(utcDay)
          /\ utcDay \notin met /\ utcDay' \notin met => StreakOn(utcDay') = 0]_vars
  BY <1>1
<1>. QED BY <1>2, Invariant, PTL DEF Spec, StreakSurvivesMidnight

=============================================================================
