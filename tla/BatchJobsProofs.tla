---------------------------- MODULE BatchJobsProofs ----------------------------
(***************************************************************************)
(* What holds of the scheduled jobs for every number of users, retries,    *)
(* failures and days.                                                      *)
(*                                                                         *)
(* The users an attempt has still to visit and those it is through with    *)
(* share nobody and leave nobody out (Walk); that is why a completed job   *)
(* has looked at everyone and nobody twice.  Within a user, the subjects   *)
(* still to be told of are those nobody was told of in this attempt, which *)
(* is why nobody is told twice (NudgedOnce).  A warning names a living     *)
(* streak because of what the streak job had computed when it still read   *)
(* the user's days, which is kept until the warning is sent (CopyFits).    *)
(***************************************************************************)
EXTENDS BatchJobs, FiniteSetTheorems, SequenceTheorems, WellFoundedInduction, TLAPS

Walk ==
    /\ job.state = "waiting" => job.attempt < Attempts
    /\ job.state = "active" =>
        /\ job.attempt > 0 /\ job.today \in 1 .. day
        /\ \A u \in Users : u \in job.visited \/ \E i \in DOMAIN job.left : job.left[i] = u
        /\ \A i \in DOMAIN job.left :
            /\ job.left[i] \notin job.visited
            /\ \A k \in DOMAIN job.left : job.left[i] = job.left[k] => i = k
    /\ job.state = "completed" => job.visited = Users
    /\ job.pc \in {"find", "write"} => job.name \in AnalyticsJobs
    /\ \A u \in Users : \A d \in activity[u] : d <= day

\* The attempt has not told the user of the subject, and may still do so.
Owed(u, s) == u \notin job.visited /\ (u = User /\ job.pc = "notify" => s \in job.due)

\* Every attempt but the first was paid for by a failure.
NoticesCounted ==
    \A u \in Users, s \in Subjects :
        /\ notices[u][s] <= 1 + faults
        /\ job.state = "waiting" => notices[u][s] <= faults
        /\ job.state = "active" /\ Owed(u, s) => notices[u][s] <= faults

\* No failure of a user starts a sweep again.
NudgedOnce ==
    job.name \in Sweeps /\ ~job.crashed =>
        \A u \in Users, s \in Subjects :
            /\ notices[u][s] <= 1
            /\ job.state = "waiting" => notices[u][s] = 0
            /\ job.state = "active" /\ Owed(u, s) => notices[u][s] = 0

Alive(copy) ==
    copy.last # NoDay /\ copy.last \in {copy.readOn - 1, copy.readOn} /\ copy.batch = job.today

CopyFits ==
    job.name = "recalculate_streaks" /\ job.state = "active" =>
        /\ job.pc # "read" /\ job.copy.streak > 0 => Alive(job.copy)
        /\ job.pc = "notify" => AtRisk

IInv == TypeOK /\ Walk /\ NoticesCounted /\ NudgedOnce /\ CopyFits /\ WarnedStreakIsAlive

-----------------------------------------------------------------------------
(* The operators the jobs are built from.                                   *)

LEMMA Descent ==
    ASSUME NEW S, NEW R, IsWellFoundedOn(R, Nat), S \subseteq Nat, S # {}
    PROVE  \E x \in S : \A y \in S : <<y, x>> \notin R
  BY WFMin

LEMMA LeastNumber ==
    ASSUME NEW S, S \subseteq Nat, S # {}
    PROVE  \E m \in S : \A n \in S : m <= n
<1>. DEFINE R == OpToRel(<, Nat)
<1>1. IsWellFoundedOn(R, Nat)
  BY NatLessThanWellFounded
<1>2. \A m, n \in Nat : m < n => <<m, n>> \in R
  BY DEF OpToRel
<1>. HIDE DEF R
<1>3. PICK x \in S : \A y \in S : <<y, x>> \notin R
  BY <1>1, Descent
<1>4. \A y \in S : ~(y < x)
  BY <1>2, <1>3
<1>. QED BY <1>4

\* Math.max over some days: it is one of them, and none is later.
LEMMA MaxDays ==
    ASSUME NEW days \in SUBSET Days
    PROVE  /\ LastOf(days) \in {NoDay} \union days /\ LastOf(days) \in 0 .. MaxDay
           /\ \A d \in days : d <= LastOf(days)
<1>. DEFINE all == {NoDay} \union days
            below == {MaxDay - d : d \in all}
<1>1. all \subseteq 0 .. MaxDay /\ MaxDay \in Nat
  BY ConstantsAssumption DEF Days, NoDay
<1>2. below \subseteq Nat /\ below # {}
  BY <1>1
<1>3. PICK m \in below : \A n \in below : m <= n
  BY <1>2, LeastNumber
<1>4. PICK x \in all : m = MaxDay - x
  BY <1>3
<1>5. ASSUME NEW y \in all PROVE x >= y
  <2>1. MaxDay - y \in below
    OBVIOUS
  <2>2. m <= MaxDay - y /\ x \in Int /\ y \in Int
    BY <1>1, <1>3, <2>1
  <2>. QED BY <1>1, <1>4, <2>2
<1>6. Max(all) \in all /\ \A y \in all : Max(all) >= y
  BY <1>4, <1>5 DEF Max
<1>7. LastOf(days) = Max(all)
  BY DEF LastOf
<1>. QED BY <1>1, <1>6, <1>7

\* The recursion of RunsUpTo has a solution: up to any day, and so up to the last.
LEMMA RunsExist ==
    ASSUME NEW days \in SUBSET Days
    PROVE  \E f : f = [d \in -1 .. MaxDay |-> IF d \in days THEN 1 + f[d - 1] ELSE 0]
<1>. DEFINE Solves(f, n) ==
                /\ f = [d \in -1 .. n |-> f[d]]
                /\ \A d \in -1 .. n : f[d] = IF d \in days THEN 1 + f[d - 1] ELSE 0
            unsolved == {n \in Nat : ~\E f : Solves(f, n)}
<1>1. Solves([d \in -1 .. 0 |-> 0], 0)
  BY DEF Days
<1>2. ASSUME NEW n \in Nat, n # 0, NEW g, Solves(g, n - 1)
      PROVE  \E f : Solves(f, n)
  <2>. DEFINE f == [d \in -1 .. n |-> IF d # n THEN g[d]
                                     ELSE IF n \in days THEN 1 + g[n - 1] ELSE 0]
  <2>1. \A d \in -1 .. n : d # n => d \in -1 .. n - 1
    OBVIOUS
  <2>2. \A d \in -1 .. n - 1 : d \in days => d - 1 \in -1 .. n - 1 /\ d - 1 # n /\ d - 1 \in -1 .. n
    BY DEF Days
  <2>3. \A d \in -1 .. n - 1 : f[d] = g[d] /\ d \in -1 .. n
    OBVIOUS
  <2>4. f[n] = IF n \in days THEN 1 + f[n - 1] ELSE 0
    BY <1>2
  <2>5. \A d \in -1 .. n - 1 : f[d] = IF d \in days THEN 1 + f[d - 1] ELSE 0
    BY <1>2, <2>2, <2>3
  <2>6. f = [d \in -1 .. n |-> f[d]]
    OBVIOUS
  <2>. HIDE DEF f
  <2>7. Solves(f, n)
    BY <2>1, <2>4, <2>5, <2>6
  <2>. QED BY <2>7
<1>. HIDE DEF Solves
<1>3. unsolved = {}
  <2>. SUFFICES ASSUME unsolved # {} PROVE FALSE
    OBVIOUS
  <2>1. PICK m \in unsolved : \A n \in unsolved : m <= n
    BY LeastNumber
  <2>2. m \in Nat /\ m # 0 /\ ~\E f : Solves(f, m)
    BY <1>1
  <2>3. m - 1 \in Nat /\ m - 1 \notin unsolved
    <3>. HIDE DEF unsolved
    <3>. QED BY <2>1, <2>2
  <2>4. PICK g : Solves(g, m - 1)
    BY <2>3
  <2>. QED BY <1>2, <2>2, <2>4
<1>4. PICK f : Solves(f, MaxDay)
  BY <1>3, ConstantsAssumption
<1>5. f = [d \in -1 .. MaxDay |-> IF d \in days THEN 1 + f[d - 1] ELSE 0]
  BY <1>4 DEF Solves
<1>. QED BY <1>5

LEMMA RunsUpToDef ==
    ASSUME NEW days \in SUBSET Days
    PROVE  RunsUpTo(days) =
              [d \in -1 .. MaxDay |-> IF d \in days THEN 1 + RunsUpTo(days)[d - 1] ELSE 0]
  BY RunsExist DEF RunsUpTo

\* A run ends with a day on which something was done, and no run is longer than
\* the days up to its end.
LEMMA RunsBounded ==
    ASSUME NEW days \in SUBSET Days
    PROVE  \A d \in 0 .. MaxDay :
              RunsUpTo(days)[d] \in 0 .. d /\ (RunsUpTo(days)[d] > 0 => d \in days)
<1>1. PICK f : /\ f = RunsUpTo(days)
               /\ f = [d \in -1 .. MaxDay |-> IF d \in days THEN 1 + f[d - 1] ELSE 0]
  BY RunsUpToDef
<1>. DEFINE wrong == {d \in Nat : d <= MaxDay /\ f[d] \notin 0 .. d}
<1>2. MaxDay \in Nat /\ days \subseteq 1 .. MaxDay
  BY ConstantsAssumption DEF Days
<1>3. wrong = {}
  <2>. SUFFICES ASSUME wrong # {} PROVE FALSE
    OBVIOUS
  <2>1. PICK m \in wrong : \A n \in wrong : m <= n
    BY LeastNumber
  <2>2. m \in Nat /\ m <= MaxDay /\ f[m] \notin 0 .. m
    OBVIOUS
  <2>3. m \in days
    BY <1>1, <1>2, <2>2
  <2>4. f[m] = 1 + f[m - 1] /\ m - 1 \in Nat /\ m - 1 <= MaxDay
    BY <1>1, <1>2, <2>2, <2>3
  <2>5. m - 1 \notin wrong
    <3>. HIDE DEF wrong
    <3>. QED BY <2>1, <2>2
  <2>. QED BY <2>2, <2>4, <2>5
<1>4. ASSUME NEW d \in 0 .. MaxDay PROVE f[d] \in 0 .. d /\ (f[d] > 0 => d \in days)
  <2>1. f[d] \in 0 .. d
    BY <1>2, <1>3
  <2>2. d \notin days => f[d] = 0
    BY <1>1, <1>2
  <2>. QED BY <2>1, <2>2
<1>. QED BY <1>1, <1>4

\* recalculateStreaks: an active streak ends today or yesterday.
LEMMA StreakFits ==
    ASSUME NEW days \in SUBSET Days, NEW today \in Days, \A d \in days : d <= today
    PROVE  /\ Streak(days, today) \in 0 .. MaxDay
           /\ Streak(days, today) > 0 =>
                LastOf(days) # NoDay /\ LastOf(days) \in {today - 1, today}
<1>1. today \in 1 .. MaxDay /\ MaxDay \in Nat /\ days \subseteq 1 .. MaxDay
  BY ConstantsAssumption DEF Days
<1>2. PICK d \in 0 .. MaxDay : d = IF today \in days THEN today ELSE today - 1
  BY <1>1
<1>3. Streak(days, today) \in 0 .. d /\ (Streak(days, today) > 0 => d \in days)
  BY <1>2, RunsBounded DEF Streak
<1>4. ASSUME d \in days PROVE LastOf(days) # NoDay /\ LastOf(days) \in {today - 1, today}
  <2>1. LastOf(days) >= d /\ LastOf(days) \in 0 .. MaxDay /\ LastOf(days) \in {NoDay} \union days
    BY <1>4, MaxDays
  <2>2. LastOf(days) # NoDay /\ LastOf(days) >= today - 1
    BY <1>1, <1>2, <1>4, <2>1 DEF NoDay
  <2>3. LastOf(days) <= today
    BY <2>1, <2>2
  <2>. QED BY <1>1, <2>1, <2>2, <2>3
<1>. QED BY <1>1, <1>2, <1>3, <1>4

\* listAllUsers: every user once.
LEMMA UsersInSequence ==
    /\ SetToSeq(Users) \in Seq(Users)
    /\ \A u \in Users : \E i \in DOMAIN SetToSeq(Users) : SetToSeq(Users)[i] = u
    /\ \A i, k \in DOMAIN SetToSeq(Users) : SetToSeq(Users)[i] = SetToSeq(Users)[k] => i = k
<1>. DEFINE n == Cardinality(Users)
<1>1. n \in Nat /\ ExistsBijection(1 .. n, Users)
  BY ConstantsAssumption, FS_CardinalityType
<1>2. \E f \in [1 .. n -> Users] : IsInjective(f)
  BY <1>1 DEF ExistsBijection, Bijection, Injection
<1>3. PICK f : f = SetToSeq(Users) /\ f \in [1 .. n -> Users] /\ IsInjective(f)
  BY <1>2 DEF SetToSeq
<1>4. IsFiniteSet(1 .. n) /\ Cardinality(1 .. n) = n
  BY <1>1, FS_Interval
<1>5. f \in Surjection(1 .. n, Users)
  BY <1>3, <1>4, ConstantsAssumption, FS_Injection DEF Injection
<1>6. f \in Seq(Users)
  BY <1>1, <1>3
<1>. QED BY <1>3, <1>5, <1>6 DEF Surjection, IsInjective

-----------------------------------------------------------------------------
(* What a step makes of the job.                                            *)

LEMMA EmptyFits == Empty \in Stats /\ Empty.streak = 0
  BY ConstantsAssumption DEF Empty, Stats, NoDay

LEMMA WaitingFits ==
    ASSUME NEW j \in Jobs
    PROVE  /\ Waiting(j) \in JobState /\ Waiting(j).name = j /\ Waiting(j).state = "waiting"
           /\ Waiting(j).attempt = 0 /\ Waiting(j).pc = "read" /\ ~Waiting(j).crashed
           /\ Waiting(j).visited = {}
<1>1. <<>> \in Seq(Users) /\ NoDay \in 0 .. MaxDay /\ 0 \in 0 .. Attempts
  BY ConstantsAssumption, EmptySeq DEF NoDay
<1>. QED BY <1>1, EmptyFits DEF Waiting, JobState

LEMMA GotoFits ==
    ASSUME TypeOK, NEW pc \in {"find", "write"}, NEW copy \in Stats, Goto(pc, copy)
    PROVE  /\ job' \in JobState /\ job'.pc = pc /\ job'.copy = copy
           /\ job'.name = job.name /\ job'.state = job.state /\ job'.attempt = job.attempt
           /\ job'.left = job.left /\ job'.today = job.today /\ job'.visited = job.visited
           /\ job'.crashed = job.crashed
  BY DEF TypeOK, Goto, JobState

LEMMA TellFits ==
    ASSUME TypeOK, NEW subjects \in SUBSET Subjects, NEW copy \in Stats, Tell(subjects, copy)
    PROVE  /\ job' \in JobState /\ job'.pc = "notify" /\ job'.copy = copy
           /\ job'.due = subjects
           /\ job'.name = job.name /\ job'.state = job.state /\ job'.attempt = job.attempt
           /\ job'.left = job.left /\ job'.today = job.today /\ job'.visited = job.visited
           /\ job'.crashed = job.crashed
  BY DEF TypeOK, Tell, JobState

LEMMA StateFits ==
    ASSUME TypeOK, NEW state \in {"waiting", "completed", "failed"},
           job' = [job EXCEPT !.state = state]
    PROVE  /\ job' \in JobState /\ job'.state = state
           /\ job'.name = job.name /\ job'.attempt = job.attempt /\ job'.left = job.left
           /\ job'.pc = job.pc /\ job'.visited = job.visited /\ job'.crashed = job.crashed
           /\ job'.due = job.due
  BY DEF TypeOK, JobState

\* The walk moves on by one user, and keeps to its plan.
LEMMA NextUserFits ==
    ASSUME TypeOK, Walk, job.state = "active", job.left # <<>>, NextUser
    PROVE  /\ job' \in JobState /\ job'.pc = "read" /\ job'.state = "active"
           /\ job'.name = job.name /\ job'.attempt = job.attempt /\ job'.today = job.today
           /\ job'.crashed = job.crashed
           /\ User \in Users /\ User \notin job.visited
           /\ job'.visited = job.visited \union {User}
           /\ \A u \in Users : u \in job'.visited \/ \E i \in DOMAIN job'.left : job'.left[i] = u
           /\ \A i \in DOMAIN job'.left :
                /\ job'.left[i] \notin job'.visited
                /\ \A k \in DOMAIN job'.left : job'.left[i] = job'.left[k] => i = k
<1>1. job \in JobState /\ job.left \in Seq(Users) /\ job.visited \in SUBSET Users
  BY DEF TypeOK, JobState
<1>2. PICK left \in Seq(Users) : left = job.left /\ left # <<>>
  BY <1>1
<1>3. PICK rest \in Seq(Users) : rest = Tail(left)
  BY <1>2, HeadTailProperties
<1>4. /\ Len(left) \in Nat \ {0} /\ Len(rest) = Len(left) - 1
      /\ DOMAIN left = 1 .. Len(left) /\ DOMAIN rest = 1 .. Len(rest)
      /\ \A i \in 1 .. Len(rest) : rest[i] = left[i + 1]
  BY <1>2, <1>3, HeadTailProperties, LenProperties, EmptySeq
<1>5. User = left[1] /\ User \in Users
  BY <1>2, <1>4 DEF User
<1>6. User \notin job.visited
  BY <1>2, <1>4, <1>5, SMTT(30) DEF Walk
<1>7. /\ job' \in JobState /\ job'.pc = "read" /\ job'.state = "active" /\ job'.left = rest
      /\ job'.name = job.name /\ job'.attempt = job.attempt /\ job'.today = job.today
      /\ job'.crashed = job.crashed /\ job'.visited = job.visited \union {User}
  BY <1>1, <1>2, <1>3, <1>5, EmptyFits DEF NextUser, JobState
<1>8. \A i \in 1 .. Len(left) : i = 1 \/ (i - 1 \in 1 .. Len(rest) /\ left[i] = rest[i - 1])
  BY <1>4
<1>9. ASSUME NEW u \in Users, u \notin job'.visited
      PROVE  \E i \in DOMAIN rest : rest[i] = u
  <2>1. PICK i \in 1 .. Len(left) : left[i] = u
    BY <1>2, <1>4, <1>7, <1>9 DEF Walk
  <2>2. i # 1
    BY <1>5, <1>7, <1>9, <2>1
  <2>. QED BY <1>4, <1>8, <2>1, <2>2
<1>10. ASSUME NEW i \in DOMAIN rest
       PROVE  /\ rest[i] \notin job'.visited
              /\ \A k \in DOMAIN rest : rest[i] = rest[k] => i = k
  <2>1. i + 1 \in DOMAIN left /\ i + 1 # 1 /\ 1 \in DOMAIN left /\ rest[i] = left[i + 1]
    BY <1>4
  <2>2. rest[i] \notin job.visited /\ rest[i] # User
    BY <1>2, <1>5, <2>1 DEF Walk
  <2>3. ASSUME NEW k \in DOMAIN rest, rest[i] = rest[k] PROVE i = k
    <3>1. k + 1 \in DOMAIN left /\ rest[k] = left[k + 1] /\ i \in Int /\ k \in Int
      BY <1>4
    <3>2. i + 1 = k + 1
      BY <1>2, <2>1, <2>3, <3>1 DEF Walk
    <3>. QED BY <3>1, <3>2
  <2>. QED BY <1>7, <2>2, <2>3
<1>. QED BY <1>5, <1>6, <1>7, <1>9, <1>10

-----------------------------------------------------------------------------
(* The invariant is kept.                                                   *)

LEMMA InitInvariant == Init => IInv
<1>. SUFFICES ASSUME Init PROVE IInv
  OBVIOUS
<1>1. PICK j \in Jobs : job = Waiting(j)
  BY DEF Init
<1>2. /\ job \in JobState /\ job.state = "waiting" /\ job.attempt = 0 /\ job.pc = "read"
  BY <1>1, WaitingFits
<1>3. TypeOK
  <2>1. MaxDay \in Nat \ {0} /\ MaxRuns \in Nat \ {0} /\ MaxFaults \in Nat
    BY ConstantsAssumption
  <2>2. day \in Days /\ runs \in 1 .. MaxRuns /\ faults \in 0 .. MaxFaults
    BY <2>1 DEF Init, Days
  <2>3. /\ activity \in [Users -> SUBSET Days]
    BY <2>1 DEF Init, NoDay
  <2>4. analytics \in [AnalyticsJobs -> [Users -> 0 .. MaxDay]]
    BY <2>1 DEF Init, NoDay
  <2>5. notices \in [Users -> [Subjects -> 0 .. MaxFaults + 1]]
    BY <2>1 DEF Init
  <2>6. warned \in Stats
    BY EmptyFits DEF Init
  <2>. QED BY <2>6, <1>2, <2>2, <2>3, <2>4, <2>5 DEF TypeOK
<1>4. Walk /\ CopyFits
  <2>1. \A u \in Users : \A d \in activity[u] : d <= day
    BY DEF Init
  <2>. QED BY <1>2, <2>1, ConstantsAssumption DEF Walk, CopyFits
<1>5. NoticesCounted /\ NudgedOnce
  <2>1. \A u \in Users, s \in Subjects : notices[u][s] = 0
    BY DEF Init
  <2>. QED BY <2>1 DEF Init, NoticesCounted, NudgedOnce
<1>6. WarnedStreakIsAlive
  BY DEF Init, WarnedStreakIsAlive
<1>. QED BY <1>3, <1>4, <1>5, <1>6 DEF IInv

\* A notice more for the user, of a subject the attempt had not told of.
Told(s) == notices' = [notices EXCEPT ![User][s] = @ + 1]

LEMMA ToldFits ==
    ASSUME TypeOK, NoticesCounted, NudgedOnce, Walk, job.state = "active", job.left # <<>>,
           job.pc = "notify", NEW s \in job.due, Told(s)
    PROVE  /\ s \in Subjects /\ User \in Users /\ User \notin job.visited
           /\ \A u \in Users, t \in Subjects :
                /\ notices[u][t] \in Nat /\ notices'[u][t] \in Nat
                /\ u # User \/ t # s => notices'[u][t] = notices[u][t]
           /\ notices'[User][s] = notices[User][s] + 1
           /\ notices[User][s] <= faults
           /\ job.name \in Sweeps /\ ~job.crashed => notices[User][s] = 0
           /\ notices' = [u \in Users |-> [t \in Subjects |-> notices'[u][t]]]
<1>1. /\ job.due \in SUBSET Subjects /\ job.left \in Seq(Users)
      /\ notices \in [Users -> [Subjects -> 0 .. MaxFaults + 1]] /\ MaxFaults \in Nat
  BY ConstantsAssumption DEF TypeOK, JobState
<1>2. PICK user \in Users : user = User
  BY <1>1, HeadTailProperties DEF User
<1>3. user \notin job.visited
  <2>1. 1 \in DOMAIN job.left /\ job.left[1] = user
    BY <1>1, <1>2, HeadTailProperties, LenProperties, EmptySeq DEF User
  <2>. QED BY <2>1 DEF Walk
<1>4. Owed(user, s)
  BY <1>3 DEF Owed
<1>5. notices' = [notices EXCEPT ![user][s] = @ + 1] /\ s \in Subjects
  BY <1>1, <1>2 DEF Told
<1>6. \A u \in Users, t \in Subjects :
          /\ notices[u][t] \in Nat /\ notices'[u][t] \in Nat
          /\ u # user \/ t # s => notices'[u][t] = notices[u][t]
  BY <1>1, <1>5
<1>7. notices'[user][s] = notices[user][s] + 1
  BY <1>1, <1>5
<1>8. notices[user][s] <= faults /\ (job.name \in Sweeps /\ ~job.crashed => notices[user][s] = 0)
  BY <1>2, <1>4, <1>5 DEF NoticesCounted, NudgedOnce
<1>9. notices' = [u \in Users |-> [t \in Subjects |-> notices'[u][t]]]
  BY <1>1, <1>5
<1>. QED BY <1>2, <1>3, <1>5, <1>6, <1>7, <1>8, <1>9

\* A step that goes on to the next user, having told this one of the last subject or not.
LEMMA NextUserStep ==
    ASSUME IInv, job.state = "active", job.left # <<>>, NextUser,
           notices' = notices \/ (job.pc = "notify" /\ \E s \in job.due : Told(s)),
           analytics' \in [AnalyticsJobs -> [Users -> 0 .. MaxDay]],
           faults' \in faults .. MaxFaults, warned' \in Stats, WarnedStreakIsAlive',
           UNCHANGED <<day, activity, runs>>
    PROVE  IInv'
<1>1. /\ faults \in Nat /\ faults' \in 0 .. MaxFaults /\ faults' >= faults /\ MaxFaults \in Nat
  BY ConstantsAssumption DEF IInv, TypeOK
<1>2. /\ job' \in JobState /\ job'.pc = "read" /\ job'.state = "active"
      /\ job'.name = job.name /\ job'.attempt = job.attempt /\ job'.today = job.today
      /\ job'.crashed = job.crashed
      /\ User \in Users /\ User \notin job.visited /\ job'.visited = job.visited \union {User}
      /\ \A u \in Users : u \in job'.visited \/ \E i \in DOMAIN job'.left : job'.left[i] = u
      /\ \A i \in DOMAIN job'.left :
            /\ job'.left[i] \notin job'.visited
            /\ \A k \in DOMAIN job'.left : job'.left[i] = job'.left[k] => i = k
  BY NextUserFits DEF IInv
<1>3. /\ notices' = [u \in Users |-> [t \in Subjects |-> notices'[u][t]]]
      /\ \A u \in Users, t \in Subjects :
            /\ notices[u][t] \in Nat /\ notices'[u][t] \in Nat
            /\ u # User => notices'[u][t] = notices[u][t]
            /\ \/ notices'[u][t] = notices[u][t]
               \/ /\ notices'[u][t] = notices[u][t] + 1 /\ notices[u][t] <= faults
                  /\ job.name \in Sweeps /\ ~job.crashed => notices[u][t] = 0
  <2>1. CASE notices' = notices
    BY <1>1, <2>1 DEF IInv, TypeOK
  <2>2. CASE job.pc = "notify" /\ \E s \in job.due : Told(s)
    <3>1. PICK s \in job.due : Told(s)
      BY <2>2
    <3>. QED BY <2>2, <3>1, ToldFits DEF IInv
  <2>. QED BY <2>1, <2>2
<1>4. \A u \in Users, t \in Subjects : Owed(u, t)' => u # User /\ Owed(u, t)
  BY <1>2 DEF Owed
<1>5. NoticesCounted'
  <2>1. ASSUME NEW u \in Users, NEW t \in Subjects
        PROVE  notices'[u][t] <= 1 + faults' /\ (Owed(u, t)' => notices'[u][t] <= faults')
    <3>1. notices[u][t] <= 1 + faults /\ (Owed(u, t) => notices[u][t] <= faults)
      BY <1>2 DEF IInv, NoticesCounted
    <3>. QED BY <1>1, <1>3, <1>4, <3>1
  <2>. QED BY <1>2, <2>1 DEF NoticesCounted
<1>6. NudgedOnce'
  <2>1. ASSUME NEW u \in Users, NEW t \in Subjects, job.name \in Sweeps /\ ~job.crashed
        PROVE  notices'[u][t] <= 1 /\ (Owed(u, t)' => notices'[u][t] = 0)
    <3>1. notices[u][t] <= 1 /\ (Owed(u, t) => notices[u][t] = 0)
      BY <2>1 DEF IInv, NudgedOnce
    <3>. QED BY <1>3, <1>4, <2>1, <3>1
  <2>. QED BY <1>2, <2>1 DEF NudgedOnce
<1>7. notices' \in [Users -> [Subjects -> 0 .. MaxFaults + 1]]
  <2>1. \A u \in Users, t \in Subjects : notices'[u][t] \in 0 .. MaxFaults + 1
    BY <1>1, <1>3, <1>5 DEF NoticesCounted
  <2>. QED BY <1>3, <2>1
<1>8. TypeOK'
  BY <1>1, <1>2, <1>7 DEF IInv, TypeOK
<1>9. Walk'
  BY <1>2 DEF IInv, Walk
<1>10. CopyFits'
  BY <1>2 DEF CopyFits
<1>. QED BY <1>5, <1>6, <1>8, <1>9, <1>10 DEF IInv

\* The notices stand, and the attempt owes no more than it did.
LEMMA NoticesStand ==
    ASSUME NoticesCounted, NudgedOnce, UNCHANGED <<notices, faults>>,
           job'.state = job.state, job'.name = job.name, job'.crashed = job.crashed,
           \A u \in Users, s \in Subjects : job.state = "active" /\ Owed(u, s)' => Owed(u, s)
    PROVE  NoticesCounted' /\ NudgedOnce'
<1>1. NoticesCounted'
  BY DEF NoticesCounted
<1>2. NudgedOnce'
  BY DEF NudgedOnce
<1>. QED BY <1>1, <1>2

\* A step that goes on with the same user.
LEMMA GotoStep ==
    ASSUME IInv, job.state = "active", NEW pc \in {"find", "write"}, NEW copy \in Stats,
           Goto(pc, copy), job.pc # "notify", job.name \in AnalyticsJobs,
           job.name = "recalculate_streaks" /\ copy.streak > 0 => Alive(copy),
           UNCHANGED <<day, activity, analytics, runs, notices, warned, faults>>
    PROVE  IInv'
<1>1. /\ job' \in JobState /\ job'.pc = pc /\ job'.copy = copy
      /\ job'.name = job.name /\ job'.state = job.state /\ job'.attempt = job.attempt
      /\ job'.left = job.left /\ job'.today = job.today /\ job'.visited = job.visited
      /\ job'.crashed = job.crashed
  BY GotoFits DEF IInv
<1>2. TypeOK'
  BY <1>1 DEF IInv, TypeOK
<1>3. Walk'
  BY <1>1 DEF IInv, Walk
<1>4. \A u \in Users, s \in Subjects : Owed(u, s)' => Owed(u, s)
  BY <1>1 DEF Owed
<1>5. NoticesCounted' /\ NudgedOnce'
  BY <1>1, <1>4, NoticesStand DEF IInv
<1>6. CopyFits'
  BY <1>1 DEF CopyFits, Alive
<1>7. WarnedStreakIsAlive'
  BY DEF IInv, WarnedStreakIsAlive
<1>. QED BY <1>2, <1>3, <1>5, <1>6, <1>7 DEF IInv

\* A step that is going to tell the user of something.
LEMMA TellStep ==
    ASSUME IInv, job.state = "active", NEW subjects \in SUBSET Subjects, NEW copy \in Stats,
           Tell(subjects, copy), job.pc # "notify",
           job.name = "recalculate_streaks" =>
                copy.streak > 0 /\ copy.last # job.today /\ Alive(copy),
           analytics' \in [AnalyticsJobs -> [Users -> 0 .. MaxDay]],
           UNCHANGED <<day, activity, runs, notices, warned, faults>>
    PROVE  IInv'
<1>1. /\ job' \in JobState /\ job'.pc = "notify" /\ job'.copy = copy
      /\ job'.name = job.name /\ job'.state = job.state /\ job'.attempt = job.attempt
      /\ job'.left = job.left /\ job'.today = job.today /\ job'.visited = job.visited
      /\ job'.crashed = job.crashed
  BY TellFits DEF IInv
<1>2. TypeOK'
  BY <1>1 DEF IInv, TypeOK
<1>3. Walk'
  BY <1>1 DEF IInv, Walk
<1>4. \A u \in Users, s \in Subjects : Owed(u, s)' => Owed(u, s)
  BY <1>1 DEF Owed
<1>5. NoticesCounted' /\ NudgedOnce'
  BY <1>1, <1>4, NoticesStand DEF IInv
<1>6. CopyFits'
  BY <1>1 DEF CopyFits, AtRisk, Alive
<1>7. WarnedStreakIsAlive'
  BY DEF IInv, WarnedStreakIsAlive
<1>. QED BY <1>2, <1>3, <1>5, <1>6, <1>7 DEF IInv

\* A failure ends the attempt: that of a user, of the list, or of the worker.
LEMMA EndAttemptStep ==
    ASSUME IInv, job' \in JobState, job'.state \in {"waiting", "failed"},
           job'.state = "waiting" => job'.attempt < Attempts,
           job'.name = job.name, job'.pc = job.pc,
           \/ job.name \in AnalyticsJobs
           \/ job'.crashed
           \/ job.state = "waiting" /\ job'.crashed = job.crashed,
           faults < MaxFaults, faults' = faults + 1,
           UNCHANGED <<day, activity, analytics, runs, notices, warned>>
    PROVE  IInv'
<1>1. faults \in Nat /\ faults' \in 0 .. MaxFaults
  BY ConstantsAssumption DEF IInv, TypeOK
<1>2. TypeOK'
  BY <1>1 DEF IInv, TypeOK
<1>3. Walk'
  BY DEF IInv, Walk
<1>4. \A u \in Users, s \in Subjects : notices[u][s] \in Nat
  BY ConstantsAssumption DEF IInv, TypeOK
<1>5. NoticesCounted'
  BY <1>1, <1>4 DEF IInv, NoticesCounted
<1>6. NudgedOnce'
  <2>1. AnalyticsJobs \intersect Sweeps = {}
    BY DEF AnalyticsJobs, Sweeps
  <2>. QED BY <2>1 DEF IInv, NudgedOnce
<1>7. CopyFits'
  BY DEF CopyFits
<1>8. WarnedStreakIsAlive'
  BY DEF IInv, WarnedStreakIsAlive
<1>. QED BY <1>2, <1>3, <1>5, <1>6, <1>7, <1>8 DEF IInv

-----------------------------------------------------------------------------
(* The steps of a job.                                                      *)

LEMMA ScheduleKeeps ==
    ASSUME IInv, NEW j \in Jobs, Schedule(j)
    PROVE  IInv'
<1>1. /\ job' \in JobState /\ job'.state = "waiting" /\ job'.attempt = 0 /\ job'.pc = "read"
  BY WaitingFits DEF Schedule
<1>2. /\ \A u \in Users, s \in Subjects : notices'[u][s] = 0
      /\ notices' \in [Users -> [Subjects -> 0 .. MaxFaults + 1]]
      /\ faults' = faults /\ faults \in Nat /\ runs' \in 1 .. MaxRuns
  BY ConstantsAssumption DEF Schedule, IInv, TypeOK
<1>3. TypeOK'
  BY <1>1, <1>2 DEF Schedule, IInv, TypeOK, Outside
<1>4. Walk' /\ CopyFits'
  BY <1>1, ConstantsAssumption DEF Schedule, Outside, IInv, Walk, CopyFits
<1>5. NoticesCounted' /\ NudgedOnce'
  BY <1>2 DEF NoticesCounted, NudgedOnce
<1>6. WarnedStreakIsAlive'
  BY DEF Schedule, IInv, WarnedStreakIsAlive
<1>. QED BY <1>3, <1>4, <1>5, <1>6 DEF IInv

LEMMA StartKeeps ==
    ASSUME IInv, Start
    PROVE  IInv'
<1>1. /\ job \in JobState /\ job.name \in Jobs /\ job.attempt \in Nat /\ job.attempt < Attempts
      /\ job.crashed \in BOOLEAN /\ day \in Days /\ Attempts \in Nat /\ MaxDay \in Nat
  BY ConstantsAssumption DEF IInv, TypeOK, Walk, Start, JobState
<1>2. PICK waiting \in JobState : /\ waiting = Waiting(job.name) /\ waiting.name = job.name
                                  /\ waiting.pc = "read" /\ waiting.visited = {}
  BY <1>1, WaitingFits DEF Waiting
<1>3. job' = [waiting EXCEPT !.state = "active", !.attempt = job.attempt + 1,
                  !.left = SetToSeq(Users), !.today = day, !.crashed = job.crashed]
  BY <1>2 DEF Start
<1>4. job.attempt + 1 \in 0 .. Attempts /\ job.attempt + 1 > 0 /\ day \in 0 .. MaxDay /\ day > 0
  BY <1>1 DEF Days
<1>5. /\ job' \in JobState /\ job'.state = "active" /\ job'.attempt = job.attempt + 1
      /\ job'.left = SetToSeq(Users) /\ job'.today = day /\ job'.crashed = job.crashed
      /\ job'.name = job.name /\ job'.pc = "read" /\ job'.visited = {}
  BY <1>1, <1>2, <1>3, <1>4, UsersInSequence DEF JobState
<1>6. UNCHANGED <<day, activity, analytics, runs, notices, warned, faults>>
  BY DEF Start, Outside
<1>7. TypeOK'
  BY <1>5, <1>6 DEF IInv, TypeOK
<1>8. Walk'
  <2>1. /\ \A u \in Users : \E i \in DOMAIN job'.left : job'.left[i] = u
        /\ \A i, k \in DOMAIN job'.left : job'.left[i] = job'.left[k] => i = k
    BY <1>5, UsersInSequence
  <2>2. job'.today \in 1 .. day' /\ job'.attempt > 0
    BY <1>1, <1>4, <1>5, <1>6
  <2>3. \A u \in Users : \A d \in activity'[u] : d <= day'
    BY <1>6 DEF IInv, Walk
  <2>. QED BY <1>5, <2>1, <2>2, <2>3 DEF Walk
<1>9. NoticesCounted'
  BY <1>5, <1>6 DEF Start, IInv, NoticesCounted
<1>10. NudgedOnce'
  BY <1>5, <1>6 DEF Start, IInv, NudgedOnce
<1>11. CopyFits'
  BY <1>5 DEF CopyFits
<1>12. WarnedStreakIsAlive'
  BY <1>6 DEF IInv, WarnedStreakIsAlive
<1>. QED BY <1>7, <1>8, <1>9, <1>10, <1>11, <1>12 DEF IInv

LEMMA DueFits == ASSUME NEW u \in Users PROVE Due(u) \in SUBSET Subjects
  BY DEF Due, Subjects

\* ReadUser: a streak is computed on the day it is read.
LEMMA ReadUserKeeps ==
    ASSUME IInv, ReadUser
    PROVE  IInv'
<1>1. /\ job.state = "active" /\ job.left # <<>> /\ job.pc = "read" /\ job.name \in Jobs
      /\ UNCHANGED <<day, activity, analytics, runs, notices, warned, faults>>
      /\ analytics \in [AnalyticsJobs -> [Users -> 0 .. MaxDay]] /\ warned \in Stats
      /\ faults \in Nat /\ MaxFaults \in Nat /\ faults' \in faults .. MaxFaults
  BY ConstantsAssumption DEF IInv, TypeOK, JobState, ReadUser, At, Outside
<1>2. WarnedStreakIsAlive'
  BY <1>1 DEF IInv, WarnedStreakIsAlive
<1>3. User \in Users
  BY <1>1, HeadTailProperties DEF IInv, TypeOK, JobState, User
<1>4. CASE job.name \in AnalyticsJobs
  <2>1. Goto("find", Computed(User))
    BY <1>4 DEF ReadUser, AnalyticsJobs, Sweeps
  <2>2. PICK days \in SUBSET Days : days = activity[User]
    BY <1>3 DEF IInv, TypeOK
  <2>3. /\ day \in Days /\ day \in 0 .. MaxDay /\ \A d \in days : d <= day
        /\ job.today \in 0 .. MaxDay
    BY <1>1, <1>3, <2>2 DEF IInv, TypeOK, Walk, Days, JobState
  <2>4. PICK streak \in 0 .. MaxDay, last \in 0 .. MaxDay :
            /\ streak = Streak(days, day) /\ last = LastOf(days)
            /\ streak > 0 => last # NoDay /\ last \in {day - 1, day}
    BY <2>3, StreakFits, MaxDays
  <2>5. PICK copy \in Stats :
            /\ copy = Computed(User)
            /\ job.name = "recalculate_streaks" =>
                /\ copy.streak = streak /\ copy.last = last
                /\ copy.readOn = day /\ copy.batch = job.today
    <3>1. CASE job.name = "weekly_report"
      BY <3>1, EmptyFits DEF Computed
    <3>2. CASE job.name # "weekly_report"
      <4>1. Computed(User) =
                [Empty EXCEPT !.streak = streak, !.last = last, !.readOn = day,
                       !.batch = job.today]
        BY <2>2, <2>4, <3>2 DEF Computed
      <4>. QED BY <2>3, <4>1, EmptyFits DEF Stats
    <3>. QED BY <3>1, <3>2
  <2>6. job.name = "recalculate_streaks" /\ copy.streak > 0 => Alive(copy)
    BY <2>4, <2>5 DEF Alive
  <2>7. Goto("find", copy)
    BY <2>1, <2>5
  <2>. QED BY <1>1, <1>4, <2>6, <2>7, GotoStep
<1>5. CASE job.name \notin AnalyticsJobs /\ Due(User) # {}
  <2>1. job.name \in Sweeps
    BY <1>1, <1>5, ConstantsAssumption
  <2>2. Tell(Due(User), Empty)
    BY <1>5, <2>1 DEF ReadUser
  <2>3. job.name # "recalculate_streaks"
    BY <1>5 DEF AnalyticsJobs
  <2>. QED BY <1>1, <1>3, <2>2, <2>3, DueFits, EmptyFits, TellStep
<1>6. CASE job.name \notin AnalyticsJobs /\ Due(User) = {}
  <2>1. NextUser
    BY <1>6 DEF ReadUser
  <2>. QED BY <1>1, <1>2, <2>1, NextUserStep
<1>. QED BY <1>4, <1>5, <1>6

LEMMA FindDocumentKeeps ==
    ASSUME IInv, FindDocument
    PROVE  IInv'
<1>1. /\ job.state = "active" /\ job.left # <<>> /\ job.pc = "find" /\ job.copy \in Stats
      /\ job.name \in AnalyticsJobs
      /\ UNCHANGED <<day, activity, analytics, runs, notices, warned, faults>>
      /\ analytics \in [AnalyticsJobs -> [Users -> 0 .. MaxDay]] /\ day \in 0 .. MaxDay
  BY DEF IInv, TypeOK, Walk, JobState, FindDocument, At, Outside, Days
<1>2. User \in Users
  BY <1>1, HeadTailProperties DEF IInv, TypeOK, JobState, User
<1>3. analytics[job.name][User] \in 0 .. MaxDay
  BY <1>1, <1>2
<1>4. PICK d \in 0 .. MaxDay : Goto("write", [job.copy EXCEPT !.createdAt = d])
  BY <1>1, <1>3 DEF FindDocument
<1>5. PICK copy \in Stats : /\ Goto("write", copy)
                            /\ copy.streak = job.copy.streak /\ copy.last = job.copy.last
                            /\ copy.readOn = job.copy.readOn /\ copy.batch = job.copy.batch
  <2>. DEFINE written(stats) == [stats EXCEPT !.createdAt = d]
  <2>1. \A stats \in Stats :
            /\ written(stats) \in Stats
            /\ written(stats).streak = stats.streak /\ written(stats).last = stats.last
            /\ written(stats).readOn = stats.readOn /\ written(stats).batch = stats.batch
    BY DEF Stats
  <2>. QED BY <1>1, <1>4, <2>1
<1>6. job.name = "recalculate_streaks" /\ copy.streak > 0 => Alive(copy)
  BY <1>1, <1>5 DEF IInv, CopyFits, Alive
<1>. QED BY <1>1, <1>5, <1>6, GotoStep

LEMMA WriteDocumentKeeps ==
    ASSUME IInv, WriteDocument
    PROVE  IInv'
<1>1. /\ job.state = "active" /\ job.left # <<>> /\ job.pc = "write" /\ job.copy \in Stats
      /\ job.name \in AnalyticsJobs /\ job.copy.createdAt \in 0 .. MaxDay
      /\ UNCHANGED <<day, activity, runs, notices, warned, faults>>
      /\ analytics \in [AnalyticsJobs -> [Users -> 0 .. MaxDay]]
      /\ faults \in Nat /\ MaxFaults \in Nat /\ faults' \in faults .. MaxFaults
      /\ warned \in Stats
  BY ConstantsAssumption, SMTT(30)
     DEF IInv, TypeOK, Walk, JobState, Stats, WriteDocument, At, Outside
<1>2. User \in Users
  BY <1>1, HeadTailProperties DEF IInv, TypeOK, JobState, User
<1>3. analytics' \in [AnalyticsJobs -> [Users -> 0 .. MaxDay]]
  <2>1. PICK j \in AnalyticsJobs, u \in Users, d \in 0 .. MaxDay :
            analytics' = [analytics EXCEPT ![j][u] = d]
    BY <1>1, <1>2 DEF WriteDocument
  <2>. QED BY <1>1, <2>1
<1>4. WarnedStreakIsAlive'
  BY <1>1 DEF IInv, WarnedStreakIsAlive
<1>5. CASE job.name = "weekly_report" \/ AtRisk
  <2>1. Tell({Matter}, job.copy) /\ {Matter} \in SUBSET Subjects
    BY <1>5 DEF WriteDocument, Subjects
  <2>2. job.name = "recalculate_streaks" =>
            job.copy.streak > 0 /\ job.copy.last # job.today /\ Alive(job.copy)
    BY <1>1, <1>5 DEF IInv, CopyFits, AtRisk
  <2>. QED BY <1>1, <1>3, <2>1, <2>2, TellStep
<1>6. CASE ~(job.name = "weekly_report" \/ AtRisk)
  <2>1. NextUser
    BY <1>6 DEF WriteDocument
  <2>. QED BY <1>1, <1>3, <1>4, <2>1, NextUserStep
<1>. QED BY <1>5, <1>6

\* Notify, with another subject left to tell the user of.
LEMMA SameUserStep ==
    ASSUME IInv, job.state = "active", job.left # <<>>, job.pc = "notify",
           NEW s \in job.due, Told(s), Tell(job.due \ {s}, job.copy),
           warned' \in Stats, WarnedStreakIsAlive',
           UNCHANGED <<day, activity, analytics, runs, faults>>
    PROVE  IInv'
<1>1. /\ job.due \in SUBSET Subjects /\ job.copy \in Stats /\ job.left \in Seq(Users)
      /\ faults \in 0 .. MaxFaults /\ MaxFaults \in Nat
  BY ConstantsAssumption DEF IInv, TypeOK, JobState
<1>2. /\ job' \in JobState /\ job'.pc = "notify" /\ job'.copy = job.copy
      /\ job'.due = job.due \ {s}
      /\ job'.name = job.name /\ job'.state = job.state /\ job'.attempt = job.attempt
      /\ job'.left = job.left /\ job'.today = job.today /\ job'.visited = job.visited
      /\ job'.crashed = job.crashed
  BY <1>1, TellFits DEF IInv
<1>3. /\ User \in Users /\ s \in Subjects /\ notices'[User][s] = notices[User][s] + 1
      /\ notices[User][s] <= faults
      /\ job.name \in Sweeps /\ ~job.crashed => notices[User][s] = 0
      /\ notices' = [u \in Users |-> [t \in Subjects |-> notices'[u][t]]]
      /\ \A u \in Users, t \in Subjects :
            /\ notices[u][t] \in Nat /\ notices'[u][t] \in Nat
            /\ u # User \/ t # s => notices'[u][t] = notices[u][t]
  BY ToldFits DEF IInv
<1>4. \A u \in Users, t \in Subjects : Owed(u, t)' => Owed(u, t) /\ (u # User \/ t # s)
  BY <1>2 DEF Owed, User
<1>5. NoticesCounted'
  <2>1. ASSUME NEW u \in Users, NEW t \in Subjects
        PROVE  notices'[u][t] <= 1 + faults /\ (Owed(u, t)' => notices'[u][t] <= faults)
    <3>1. notices[u][t] <= 1 + faults /\ (Owed(u, t) => notices[u][t] <= faults)
      BY DEF IInv, NoticesCounted
    <3>2. CASE u # User \/ t # s
      BY <1>3, <1>4, <3>1, <3>2
    <3>3. CASE u = User /\ t = s
      BY <1>1, <1>3, <1>4, <3>3
    <3>. QED BY <3>2, <3>3
  <2>. QED BY <1>2, <2>1 DEF NoticesCounted
<1>6. NudgedOnce'
  <2>1. ASSUME NEW u \in Users, NEW t \in Subjects, job.name \in Sweeps /\ ~job.crashed
        PROVE  notices'[u][t] <= 1 /\ (Owed(u, t)' => notices'[u][t] = 0)
    <3>1. notices[u][t] <= 1 /\ (Owed(u, t) => notices[u][t] = 0)
      BY <2>1 DEF IInv, NudgedOnce
    <3>2. CASE u # User \/ t # s
      BY <1>3, <1>4, <3>1, <3>2
    <3>3. CASE u = User /\ t = s
      BY <1>3, <1>4, <2>1, <3>3
    <3>. QED BY <3>2, <3>3
  <2>. QED BY <1>2, <2>1 DEF NudgedOnce
<1>7. notices' \in [Users -> [Subjects -> 0 .. MaxFaults + 1]]
  <2>1. \A u \in Users, t \in Subjects : notices'[u][t] \in 0 .. MaxFaults + 1
    BY <1>1, <1>3, <1>5 DEF NoticesCounted
  <2>. QED BY <1>3, <2>1
<1>8. TypeOK'
  BY <1>2, <1>7 DEF IInv, TypeOK
<1>9. Walk'
  BY <1>2 DEF IInv, Walk
<1>10. CopyFits'
  BY <1>2 DEF IInv, CopyFits, AtRisk, Alive
<1>. QED BY <1>5, <1>6, <1>8, <1>9, <1>10 DEF IInv

LEMMA NotifyKeeps ==
    ASSUME IInv, Notify
    PROVE  IInv'
<1>1. /\ job.state = "active" /\ job.left # <<>> /\ job.pc = "notify"
      /\ UNCHANGED <<day, activity, analytics, runs, faults>>
      /\ analytics \in [AnalyticsJobs -> [Users -> 0 .. MaxDay]] /\ job.copy \in Stats
      /\ faults \in Nat /\ MaxFaults \in Nat /\ faults' \in faults .. MaxFaults
  BY ConstantsAssumption DEF IInv, TypeOK, JobState, Notify, At, Outside
<1>2. PICK s \in job.due :
          Told(s) /\ IF job.due = {s} THEN NextUser ELSE Tell(job.due \ {s}, job.copy)
  BY DEF Notify, Told
<1>3. warned' \in Stats /\ WarnedStreakIsAlive'
  <2>1. CASE job.name = "recalculate_streaks"
    <3>1. warned' = job.copy
      BY <2>1 DEF Notify
    <3>2. job.copy.streak > 0 /\ Alive(job.copy) /\ job.copy.last # job.today
      BY <1>1, <2>1 DEF IInv, CopyFits, AtRisk
    <3>. QED BY <1>1, <3>1, <3>2 DEF WarnedStreakIsAlive, Alive
  <2>2. CASE job.name # "recalculate_streaks"
    BY <2>2 DEF Notify, IInv, TypeOK, WarnedStreakIsAlive
  <2>. QED BY <2>1, <2>2
<1>4. CASE job.due = {s}
  BY <1>1, <1>2, <1>3, <1>4, NextUserStep
<1>5. CASE job.due # {s}
  BY <1>1, <1>2, <1>3, <1>5, SameUserStep
<1>. QED BY <1>4, <1>5

\* An attempt that is through with its list has looked at every user.
LEMMA FinishKeeps ==
    ASSUME IInv, Finish
    PROVE  IInv'
<1>1. /\ job.state = "active" /\ job.left = <<>> /\ job' = [job EXCEPT !.state = "completed"]
      /\ UNCHANGED <<day, activity, analytics, runs, notices, warned, faults>>
  BY DEF Finish, Outside
<1>2. /\ job' \in JobState /\ job'.state = "completed" /\ job'.name = job.name
      /\ job'.pc = job.pc /\ job'.visited = job.visited /\ job'.crashed = job.crashed
  BY <1>1, StateFits DEF IInv
<1>3. job.visited = Users
  <2>1. DOMAIN job.left = {}
    BY <1>1
  <2>2. \A u \in Users : u \in job.visited
    BY <1>1, <2>1 DEF IInv, Walk
  <2>. QED BY <2>2 DEF IInv, TypeOK, JobState
<1>4. TypeOK'
  BY <1>1, <1>2 DEF IInv, TypeOK
<1>5. Walk'
  BY <1>1, <1>2, <1>3 DEF IInv, Walk
<1>6. NoticesCounted' /\ NudgedOnce'
  BY <1>1, <1>2 DEF IInv, NoticesCounted, NudgedOnce
<1>7. CopyFits'
  BY <1>2 DEF CopyFits
<1>8. WarnedStreakIsAlive'
  BY <1>1 DEF IInv, WarnedStreakIsAlive
<1>. QED BY <1>4, <1>5, <1>6, <1>7, <1>8 DEF IInv

LEMMA StepFailsKeeps ==
    ASSUME IInv, StepFails
    PROVE  IInv'
<1>1. /\ job.state = "active" /\ job.left # <<>>
      /\ faults < MaxFaults /\ faults' = faults + 1
      /\ UNCHANGED <<day, activity, analytics, runs, notices, warned>>
      /\ analytics \in [AnalyticsJobs -> [Users -> 0 .. MaxDay]]
      /\ faults \in Nat /\ MaxFaults \in Nat /\ faults' \in faults .. MaxFaults
  BY ConstantsAssumption DEF IInv, TypeOK, StepFails, At, Fault, Outside
<1>2. CASE job.name \in AnalyticsJobs
  <2>1. PICK state \in {"waiting", "failed"} :
            /\ job' = [job EXCEPT !.state = state]
            /\ state = "waiting" => job.attempt < Attempts
    BY <1>2 DEF StepFails, Abort
  <2>2. /\ job' \in JobState /\ job'.state = state /\ job'.attempt = job.attempt
        /\ job'.name = job.name /\ job'.pc = job.pc
    BY <2>1, StateFits DEF IInv
  <2>. QED BY <1>1, <1>2, <2>1, <2>2, EndAttemptStep
<1>3. CASE job.name \notin AnalyticsJobs
  <2>1. NextUser
    BY <1>3 DEF StepFails
  <2>2. warned' \in Stats /\ WarnedStreakIsAlive'
    BY <1>1 DEF IInv, TypeOK, WarnedStreakIsAlive
  <2>. QED BY <1>1, <2>1, <2>2, NextUserStep
<1>. QED BY <1>2, <1>3

LEMMA ListFailsKeeps ==
    ASSUME IInv, ListFails
    PROVE  IInv'
<1>1. /\ job.state = "waiting" /\ job.attempt < Attempts
      /\ faults < MaxFaults /\ faults' = faults + 1
      /\ UNCHANGED <<day, activity, analytics, runs, notices, warned>>
  BY DEF IInv, Walk, ListFails, Fault, Outside
<1>2. PICK attempt \in 0 .. Attempts, state \in {"waiting", "failed"} :
          /\ job' = [job EXCEPT !.attempt = attempt, !.state = state]
          /\ state = "waiting" => attempt < Attempts
  <2>1. job.attempt \in Nat /\ Attempts \in Nat /\ job.attempt + 1 \in 0 .. Attempts
    BY <1>1, ConstantsAssumption DEF IInv, TypeOK, JobState
  <2>. QED BY <2>1 DEF ListFails
<1>3. /\ job' \in JobState /\ job'.state = state /\ job'.attempt = attempt
      /\ job'.name = job.name /\ job'.pc = job.pc /\ job'.crashed = job.crashed
  BY <1>2 DEF IInv, TypeOK, JobState
<1>. QED BY <1>1, <1>2, <1>3, EndAttemptStep

LEMMA NotifyFailsKeeps ==
    ASSUME IInv, NotifyFails
    PROVE  IInv'
<1>1. /\ job.state = "active" /\ job.left # <<>> /\ NextUser
      /\ UNCHANGED <<day, activity, analytics, runs, notices, warned>>
      /\ analytics \in [AnalyticsJobs -> [Users -> 0 .. MaxDay]]
      /\ faults \in Nat /\ MaxFaults \in Nat /\ faults' \in faults .. MaxFaults
  BY ConstantsAssumption DEF IInv, TypeOK, NotifyFails, At, Fault, Outside
<1>2. warned' \in Stats /\ WarnedStreakIsAlive'
  BY <1>1 DEF IInv, TypeOK, WarnedStreakIsAlive
<1>. QED BY <1>1, <1>2, NextUserStep

LEMMA WorkerCrashesKeeps ==
    ASSUME IInv, WorkerCrashes
    PROVE  IInv'
<1>1. /\ job.state = "active" /\ faults < MaxFaults /\ faults' = faults + 1
      /\ UNCHANGED <<day, activity, analytics, runs, notices, warned>>
  BY DEF WorkerCrashes, Fault, Outside
<1>2. PICK attempt \in 0 .. Attempts :
          /\ job' = [job EXCEPT !.state = "waiting", !.attempt = attempt, !.crashed = TRUE]
          /\ attempt < Attempts
  <2>1. /\ job.attempt \in Int /\ Attempts \in Nat
        /\ job.attempt - 1 \in 0 .. Attempts /\ job.attempt - 1 < Attempts
    BY <1>1, ConstantsAssumption DEF IInv, TypeOK, Walk, JobState
  <2>. QED BY <2>1 DEF WorkerCrashes
<1>3. /\ job' \in JobState /\ job'.state = "waiting" /\ job'.attempt = attempt
      /\ job'.name = job.name /\ job'.pc = job.pc /\ job'.crashed
  BY <1>2 DEF IInv, TypeOK, JobState
<1>. QED BY <1>1, <1>2, <1>3, EndAttemptStep

\* The job and its notices do not depend on the users and the clock.
LEMMA OutsideStep ==
    ASSUME IInv, UNCHANGED <<analytics, runs, job, notices, warned, faults>>
    PROVE  NoticesCounted' /\ NudgedOnce' /\ CopyFits' /\ WarnedStreakIsAlive'
<1>1. \A u \in Users, s \in Subjects : Owed(u, s)' <=> Owed(u, s)
  BY DEF Owed, User
<1>2. NoticesCounted' /\ NudgedOnce'
  BY <1>1, NoticesStand DEF IInv
<1>3. CopyFits' /\ WarnedStreakIsAlive'
  BY DEF IInv, CopyFits, AtRisk, Alive, WarnedStreakIsAlive
<1>. QED BY <1>2, <1>3

LEMMA DoSomethingKeeps ==
    ASSUME IInv, NEW u \in Users, DoSomething(u)
    PROVE  IInv'
<1>1. UNCHANGED <<analytics, runs, job, notices, warned, faults, day>>
  BY DEF DoSomething, Batch
<1>2. /\ activity' \in [Users -> SUBSET Days] /\ day \in Int
      /\ \A v \in Users : \A d \in activity'[v] : d \in activity[v] \/ d = day
  <2>1. PICK days \in SUBSET Days :
            activity' = [activity EXCEPT ![u] = days] /\ days = activity[u] \union {day}
    BY DEF IInv, TypeOK, DoSomething
  <2>. QED BY <2>1 DEF IInv, TypeOK, Days
<1>3. TypeOK'
  BY <1>1, <1>2 DEF IInv, TypeOK
<1>4. Walk'
  <2>1. \A v \in Users : \A d \in activity'[v] : d <= day
    BY <1>2 DEF IInv, Walk
  <2>. QED BY <1>1, <2>1 DEF IInv, Walk
<1>. QED BY <1>1, <1>3, <1>4, OutsideStep DEF IInv

LEMMA MidnightKeeps ==
    ASSUME IInv, Midnight
    PROVE  IInv'
<1>1. UNCHANGED <<activity, analytics, runs, job, notices, warned, faults>>
  BY DEF Midnight, Batch
<1>2. day \in Nat /\ day' = day + 1 /\ day' \in Days
  BY ConstantsAssumption DEF IInv, TypeOK, Midnight, Days
<1>3. TypeOK'
  BY <1>1, <1>2 DEF IInv, TypeOK
<1>4. Walk'
  <2>1. \A u \in Users : \A d \in activity[u] : d \in Int
    BY DEF IInv, TypeOK, Days
  <2>. QED BY <1>1, <1>2, <2>1 DEF IInv, Walk
<1>. QED BY <1>1, <1>3, <1>4, OutsideStep DEF IInv

LEMMA NextInvariant == IInv /\ [Next]_vars => IInv'
<1>. SUFFICES ASSUME IInv, [Next]_vars PROVE IInv'
  OBVIOUS
<1>1. CASE Run
  BY <1>1, StartKeeps, ReadUserKeeps, FindDocumentKeeps, WriteDocumentKeeps, NotifyKeeps,
     FinishKeeps DEF Run
<1>2. CASE Fail
  BY <1>2, ListFailsKeeps, StepFailsKeeps, NotifyFailsKeeps, WorkerCrashesKeeps DEF Fail
<1>3. CASE \E j \in Jobs : Schedule(j)
  BY <1>3, ScheduleKeeps
<1>4. CASE \E u \in Users : DoSomething(u)
  BY <1>4, DoSomethingKeeps
<1>5. CASE Midnight
  BY <1>5, MidnightKeeps
<1>6. CASE UNCHANGED vars
  <2>1. TypeOK' /\ Walk'
    BY <1>6 DEF IInv, TypeOK, Walk, vars
  <2>. QED BY <1>6, <2>1, OutsideStep DEF IInv, vars
<1>. QED BY <1>1, <1>2, <1>3, <1>4, <1>5, <1>6 DEF Next

-----------------------------------------------------------------------------
(* What the scheduled jobs promise.                                         *)

\* The inductive invariant holds of every state a job can reach.
THEOREM Invariant == Spec => []IInv
  BY InitInvariant, NextInvariant, PTL DEF Spec

\* Every variable of the scheduled jobs keeps its type: a streak is no longer than
\* the days there were, and a user gets at most one notice more than there were
\* failures.
THEOREM TypeCorrect == Spec => []TypeOK
<1>1. IInv => TypeOK
  BY DEF IInv
<1>. QED BY <1>1, Invariant, PTL

\* A sweep that has completed has looked at every user, and a sweep that no crash
\* interrupted has told nobody twice of the same habit or matter, whichever users
\* failed, at whichever of their habits, and however often they could not be listed.
THEOREM SweepTellsEachUserOnce == Spec => []SweepTellsEachOnce
<1>1. IInv => SweepTellsEachOnce
  BY DEF IInv, Walk, NudgedOnce, SweepTellsEachOnce
<1>. QED BY <1>1, Invariant, PTL

\* The streak a warning is about was alive on the day the user was read, however often
\* the batch was started again, and had not been kept up on the day of the batch by a
\* user who was read that day.
THEOREM WarnedStreakLives == Spec => []WarnedStreakIsAlive
<1>1. IInv => WarnedStreakIsAlive
  BY DEF IInv
<1>. QED BY <1>1, Invariant, PTL

=============================================================================
