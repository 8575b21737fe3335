---------------------- MODULE MeasuringThreads_proofs ----------------------
(***************************************************************************)
(* Theorems about the two threads of the source that measure:              *)
(*  - BufferTuner, for any rates, any sizes of the buffer and any limit of *)
(*    the applications;                                                    *)
(*  - RetransRate, for any number of connections, peers and intervals.     *)
(* The loops of RetransRate are recursive functions; what they compute is  *)
(* proved by induction, which SetInduction draws from the minimum that a   *)
(* set of natural numbers has.                                             *)
(***************************************************************************)
EXTENDS BufferTuner, RetransRate, Integers, TLAPS, WellFoundedInduction

-----------------------------------------------------------------------------
(* BufferTuner. *)

Searches ==
  [tune : 0 .. 3, applied : BOOLEAN, suggested : 0 .. 4, nothing_done : 0 .. 6,
   max_apply : 0 .. MAX_TUNING_APPLY, highest : Nat, previous : Nat,
   aApplyDefTunBest : Size, best_wmem_val : Size]

(* The commands that s keeps were in bounds when they were made. *)
CommandsInBounds(s) ==
  /\ s.aApplyDefTunBest # Unset => InBounds(s.aApplyDefTunBest)
  /\ s.best_wmem_val # Unset => InBounds(s.best_wmem_val)

(* A change of the size and a suggestion exclude each other: no tick is    *)
(* skipped between a change and the comparison it is judged by.            *)
JudgedAtOnce(s) == s.applied => s.suggested = 0

IInv == TypeOK /\ WmemInBounds /\ JudgedAtOnce(search)

-----------------------------------------------------------------------------
(* The comparison keeps the types, invents no command and does not touch   *)
(* applied and suggested, unless the search is over.                       *)
LEMMA CompareLemma ==
  ASSUME NEW s \in Searches, NEW average \in Nat
  PROVE  /\ Compare(s, average) \in Searches
         /\ CommandsInBounds(s) => CommandsInBounds(Compare(s, average))
         /\ JudgedAtOnce(s) => JudgedAtOnce(Compare(s, average))
  <1> DEFINE c == Compare(s, average)
  <1>1. CASE s.tune = 3 /\ average # 0
    <2>1. c = [s EXCEPT !.tune = 0, !.applied = FALSE, !.nothing_done = 1]
      BY <1>1 DEF Compare
    <2>2. c \in Searches
      <3>1. [s EXCEPT !.tune = 0] \in Searches
        BY DEF Searches
      <3>2. \A t \in Searches : [t EXCEPT !.applied = FALSE] \in Searches
        BY DEF Searches
      <3>3. \A t \in Searches : [t EXCEPT !.nothing_done = 1] \in Searches
        BY DEF Searches
      <3> QED BY <2>1, <3>1, <3>2, <3>3
    <2>3. /\ c.aApplyDefTunBest = s.aApplyDefTunBest
          /\ c.best_wmem_val = s.best_wmem_val
          /\ c.applied = FALSE
      BY <2>1 DEF Searches
    <2> HIDE DEF c
    <2> QED BY <2>2, <2>3 DEF CommandsInBounds, JudgedAtOnce, c
  <1>2. CASE ~ (s.tune = 3 /\ average # 0)
    <2> DEFINE over == Applications(s, average) >= MAX_TUNING_APPLY
               tune == IF over THEN 3
                       ELSE IF s.previous < Highest(s, average) THEN 1 ELSE 2
               apply == IF over THEN Best(s, average) ELSE s.aApplyDefTunBest
               count == IF over THEN 0 ELSE Applications(s, average)
               best == Best(s, average)
               highest == Highest(s, average)
    <2>1. c = [s EXCEPT !.highest = highest, !.previous = average, !.best_wmem_val = best,
                        !.tune = tune, !.aApplyDefTunBest = apply, !.max_apply = count]
      BY <1>2 DEF Compare
    <2>2. tune \in 0 .. 3
      OBVIOUS
    <2>3. best \in {s.aApplyDefTunBest, s.best_wmem_val} /\ apply \in {s.aApplyDefTunBest, s.best_wmem_val}
      BY DEF Best
    <2>4. highest \in Nat
      BY DEF Highest, Searches
    <2>5. count \in 0 .. MAX_TUNING_APPLY
      BY ApplyAssumption DEF Applications, Searches
    <2> HIDE DEF tune, apply, count, best, highest, c
    <2> QED BY <2>1, <2>2, <2>3, <2>4, <2>5 DEF Searches, CommandsInBounds, JudgedAtOnce, c
  <1> QED BY <1>1, <1>2

(* The pause counts within its limits and keeps the commands; where the    *)
(* tick is not skipped it has cleared applied and is at the end of a       *)
(* suggestion.                                                             *)
LEMMA PauseLemma ==
  ASSUME NEW s \in Searches, JudgedAtOnce(s)
  PROVE  /\ Pause(s) \in Searches
         /\ CommandsInBounds(s) => CommandsInBounds(Pause(s))
         /\ ~ Pause(s).applied
         /\ ~ Skips(s) => Pause(s).suggested = 0
  <1>1. CASE s.suggested # 0
    <2>1. Pause(s) = [s EXCEPT !.suggested = IF @ > 3 THEN 0 ELSE @ + 1,
                               !.applied = IF Skips(s) THEN @ ELSE FALSE]
      BY <1>1 DEF Pause
    <2>2. ~ s.applied
      BY <1>1 DEF JudgedAtOnce
    <2>3. Pause(s) = [s EXCEPT !.suggested = IF @ > 3 THEN 0 ELSE @ + 1, !.applied = FALSE]
      BY <2>1, <2>2 DEF Searches
    <2>4. ~ Skips(s) => s.suggested > 3
      BY <1>1 DEF Skips, Searches
    <2>5. Pause(s) \in Searches
      <3>1. [s EXCEPT !.suggested = IF @ > 3 THEN 0 ELSE @ + 1] \in Searches
        BY DEF Searches
      <3>2. \A t \in Searches : [t EXCEPT !.applied = FALSE] \in Searches
        BY DEF Searches
      <3> QED BY <2>3, <3>1, <3>2
    <2>6. /\ Pause(s).aApplyDefTunBest = s.aApplyDefTunBest
          /\ Pause(s).best_wmem_val = s.best_wmem_val
          /\ Pause(s).applied = FALSE
          /\ Pause(s).suggested = IF s.suggested > 3 THEN 0 ELSE s.suggested + 1
      BY <2>3 DEF Searches
    <2> QED BY <2>4, <2>5, <2>6 DEF CommandsInBounds
  <1>2. CASE s.suggested = 0 /\ s.applied
    <2>1. Pause(s) = [s EXCEPT !.applied = FALSE]
      BY <1>2 DEF Pause
    <2> QED BY <1>2, <2>1 DEF Searches, CommandsInBounds
  <1>3. CASE s.suggested = 0 /\ ~ s.applied /\ s.nothing_done # 0
    <2>1. Pause(s) = [s EXCEPT !.nothing_done = IF @ > 5 THEN 0 ELSE @ + 1]
      BY <1>3 DEF Pause
    <2> QED BY <1>3, <2>1 DEF Searches, CommandsInBounds
  <1>4. CASE s.suggested = 0 /\ ~ s.applied /\ s.nothing_done = 0
    <2>1. Pause(s) = s
      BY <1>4 DEF Pause
    <2> QED BY <1>4, <2>1
  <1> QED BY <1>1, <1>2, <1>3, <1>4

(* A command that is in bounds, or none, may be applied. *)
LEMMA ApplyLemma ==
  ASSUME TypeOK, WmemInBounds, UNCHANGED initial,
         NEW s \in Searches, CommandsInBounds(s), s.suggested = 0,
         NEW size \in Size, size # Unset => InBounds(size),
         Apply(s, size)
  PROVE  /\ kmaximum' \in Nat /\ search' \in Searches
         /\ WmemInBounds' /\ JudgedAtOnce(search)'
  <1>1. /\ search' = [s EXCEPT !.aApplyDefTunBest = size, !.applied = TRUE]
        /\ kmaximum' = IF size = Unset THEN kmaximum ELSE size
    BY DEF Apply
  <1>2. /\ search' \in Searches
        /\ search'.aApplyDefTunBest = size
        /\ search'.best_wmem_val = s.best_wmem_val
        /\ search'.suggested = 0
    BY <1>1 DEF Searches
  <1>3. kmaximum' \in Nat
    BY <1>1 DEF TypeOK, Size
  <1>4. \A z : InBounds(z)' <=> InBounds(z)
    BY DEF InBounds
  <1>5. InBounds(kmaximum')
    BY <1>1 DEF WmemInBounds
  <1>6. WmemInBounds'
    BY <1>2, <1>4, <1>5 DEF WmemInBounds, CommandsInBounds, InBounds
  <1>7. JudgedAtOnce(search)'
    BY <1>1, <1>2 DEF JudgedAtOnce
  <1> QED BY <1>2, <1>3, <1>6, <1>7

(* A step that leaves the size alone and whose locals say that it did. *)
LEMMA LeaveLemma ==
  ASSUME TypeOK, WmemInBounds, UNCHANGED <<kmaximum, initial>>,
         NEW s \in Searches, CommandsInBounds(s), ~ s.applied, search' = s
  PROVE  /\ kmaximum' \in Nat /\ search' \in Searches
         /\ WmemInBounds' /\ JudgedAtOnce(search)'
  BY DEF TypeOK, WmemInBounds, InBounds, CommandsInBounds, JudgedAtOnce

(* check_if_bitrate_too_low, called with the locals s after the pause. *)
LEMMA CheckLemma ==
  ASSUME TypeOK, WmemInBounds, UNCHANGED initial,
         NEW s \in Searches, CommandsInBounds(s), ~ s.applied, s.suggested = 0,
         check_if_bitrate_too_low(s)
  PROVE  /\ kmaximum' \in Nat /\ search' \in Searches
         /\ WmemInBounds' /\ JudgedAtOnce(search)'
  <1>1. CASE my_tune_max = 0 /\ search' = s /\ UNCHANGED kmaximum
    BY <1>1, LeaveLemma
  <1>2. ASSUME NothingDone(s)
        PROVE  /\ kmaximum' \in Nat /\ search' \in Searches
               /\ WmemInBounds' /\ JudgedAtOnce(search)'
    <2> DEFINE t == [s EXCEPT !.nothing_done = 1]
    <2>1. t \in Searches /\ CommandsInBounds(t) /\ ~ t.applied
      BY DEF Searches, CommandsInBounds
    <2>2. search' = t /\ UNCHANGED kmaximum
      BY <1>2 DEF NothingDone
    <2> HIDE DEF t
    <2> QED BY <2>1, <2>2, LeaveLemma
  <1>3. CASE kmaximum < my_tune_max /\ gTuningMode /\ s.tune = 1 /\ Apply(s, kmaximum + KTUNING_DELTA)
    <2>1. kmaximum + KTUNING_DELTA \in Size
      BY DEF TypeOK, Size, KTUNING_DELTA
    <2>2. InBounds(kmaximum + KTUNING_DELTA)
      BY <1>3, SizeAssumption DEF TypeOK, WmemInBounds, InBounds, KTUNING_DELTA, LowestToLower
    <2> QED BY <1>3, <2>1, <2>2, ApplyLemma
  <1>4. CASE kmaximum < my_tune_max /\ kmaximum > LowestToLower /\ Apply(s, kmaximum - KTUNING_DELTA)
    <2>1. kmaximum - KTUNING_DELTA \in Size
      BY <1>4 DEF TypeOK, Size, KTUNING_DELTA, LowestToLower
    <2>2. InBounds(kmaximum - KTUNING_DELTA)
      BY <1>4, SizeAssumption DEF TypeOK, InBounds, KTUNING_DELTA, LowestToLower
    <2> QED BY <1>4, <2>1, <2>2, ApplyLemma
  <1>5. CASE Apply(s, s.aApplyDefTunBest)
    <2>1. s.aApplyDefTunBest \in Size
      BY DEF Searches
    <2> QED BY <1>5, <2>1, ApplyLemma DEF CommandsInBounds
  <1>6. CASE search' = [s EXCEPT !.suggested = 1] /\ UNCHANGED kmaximum
    <2> DEFINE t == [s EXCEPT !.suggested = 1]
    <2>1. t \in Searches /\ CommandsInBounds(t) /\ ~ t.applied
      BY DEF Searches, CommandsInBounds
    <2> HIDE DEF t
    <2> QED BY <1>6, <2>1, LeaveLemma DEF t
  <1>7. CASE kmaximum < my_tune_max /\ gTuningMode
             /\ CASE s.tune = 1 -> Apply(s, kmaximum + KTUNING_DELTA)
                  [] s.tune = 2 -> Lower(s)
                  [] s.tune = 3 -> Apply(s, s.aApplyDefTunBest)
                  [] OTHER -> NothingDone(s)
    <2>1. CASE s.tune = 1
      BY <1>3, <1>7, <2>1
    <2>2. CASE s.tune = 2
      BY <1>2, <1>4, <1>7, <2>2 DEF Lower
    <2>3. CASE s.tune = 3
      BY <1>5, <1>7, <2>3
    <2>4. CASE s.tune \notin {1, 2, 3}
      BY <1>2, <1>7, <2>4
    <2> QED BY <2>1, <2>2, <2>3, <2>4
  <1> QED BY <1>1, <1>2, <1>6, <1>7 DEF check_if_bitrate_too_low

-----------------------------------------------------------------------------
(* The inductive invariant holds at the start. *)
LEMMA InitIInv == Init => IInv
  BY RateAssumption, SizeAssumption, ApplyAssumption
     DEF Init, IInv, TypeOK, Size, WmemInBounds, InBounds, JudgedAtOnce

(* A tick compares, pauses and perhaps changes the size. *)
LEMMA TickIInv ==
  ASSUME IInv, NEW average \in Rates, NEW read \in BOOLEAN, Tick(average, read)
  PROVE  IInv'
  <1> DEFINE c == Compare(search, average)
             p == Pause(c)
  <1>1. average \in Nat /\ search \in Searches /\ CommandsInBounds(search) /\ JudgedAtOnce(search)
    BY RateAssumption DEF IInv, TypeOK, Searches, WmemInBounds, CommandsInBounds
  <1>2. c \in Searches /\ CommandsInBounds(c) /\ JudgedAtOnce(c)
    BY <1>1, CompareLemma
  <1>3. p \in Searches /\ CommandsInBounds(p) /\ ~ p.applied /\ (~ Skips(c) => p.suggested = 0)
    BY <1>2, PauseLemma
  <1>4. /\ last' = [rate |-> average, read |-> read]
        /\ UNCHANGED <<gTuningMode, running, initial>>
        /\ \/ search' = p /\ UNCHANGED kmaximum
           \/ ~ Skips(c) /\ check_if_bitrate_too_low(p)
    BY DEF Tick
  <1> HIDE DEF c, p
  <1>5. /\ kmaximum' \in Nat /\ search' \in Searches
        /\ WmemInBounds' /\ JudgedAtOnce(search)'
    <2>1. CASE search' = p /\ UNCHANGED kmaximum
      BY <1>3, <1>4, <2>1, LeaveLemma DEF IInv
    <2>2. CASE ~ Skips(c) /\ check_if_bitrate_too_low(p)
      BY <1>3, <1>4, <2>2, CheckLemma DEF IInv
    <2> QED BY <1>4, <2>1, <2>2
  <1>6. TypeOK'
    BY <1>1, <1>4, <1>5 DEF IInv, TypeOK, Searches
  <1> QED BY <1>5, <1>6 DEF IInv

(* Every step preserves the inductive invariant. *)
LEMMA StepIInv == IInv /\ [Next]_vars => IInv'
  <1> SUFFICES ASSUME IInv, [Next]_vars PROVE IInv'
    OBVIOUS
  <1>1. CASE Ticks
    BY <1>1, TickIInv DEF Ticks
  <1>2. CASE NotWorking
    BY <1>2 DEF IInv, TypeOK, WmemInBounds, InBounds, JudgedAtOnce, NotWorking
  <1>3. ASSUME NEW on \in Commands, SetTuningMode(on) PROVE IInv'
    BY <1>3, CommandAssumption
       DEF IInv, TypeOK, WmemInBounds, InBounds, JudgedAtOnce, SetTuningMode
  <1>4. CASE ApplyRecommended
    <2>1. UNCHANGED <<search, initial>> /\ kmaximum' = my_tune_max /\ initial < my_tune_max
      BY <1>4 DEF ApplyRecommended
    <2>2. InBounds(my_tune_max)
      BY <2>1, SizeAssumption DEF IInv, TypeOK, InBounds, KTUNING_DELTA
    <2>3. WmemInBounds'
      BY <2>1, <2>2 DEF IInv, WmemInBounds, InBounds
    <2>4. TypeOK'
      BY <1>4, SizeAssumption DEF IInv, TypeOK, ApplyRecommended
    <2> QED BY <2>1, <2>3, <2>4 DEF IInv, JudgedAtOnce
  <1>5. CASE UNCHANGED vars
    BY <1>5 DEF IInv, TypeOK, WmemInBounds, InBounds, JudgedAtOnce, vars
  <1> QED BY <1>1, <1>2, <1>3, <1>4, <1>5 DEF Next

(* Every reachable state satisfies the inductive invariant. *)
THEOREM Invariance == Spec => []IInv
  <1>1. Init => IInv
    BY InitIInv
  <1>2. IInv /\ [Next]_vars => IInv'
    BY StepIInv
  <1> QED BY <1>1, <1>2, PTL DEF Spec

(* The state of the search has its types; above all the two pauses and the *)
(* number of applications stay within their limits, whatever the rates do. *)
THEOREM TypeCorrect == Spec => []TypeOK
  <1>1. IInv => TypeOK
    BY DEF IInv
  <1> QED BY <1>1, Invariance, PTL

(* The size in force, and every command the search may repeat, is within   *)
(* the bounds of check_if_bitrate_too_low, also when the operator applies  *)
(* the recommended size in the middle of it.                               *)
THEOREM BuffersInBounds == Spec => []WmemInBounds
  <1>1. IInv => WmemInBounds
    BY DEF IInv
  <1> QED BY <1>1, Invariance, PTL

-----------------------------------------------------------------------------
(* RetransRate: sums. *)

(* Induction over the natural numbers, as a statement about sets. *)
LEMMA SetInduction ==
  ASSUME NEW S, 0 \in S, \A n \in Nat : n \in S => n + 1 \in S
  PROVE  Nat \subseteq S
  <1> DEFINE T == Nat \ S
             R == {ss \in Nat \X Nat : ss[1] < ss[2]}
  <1>1. SUFFICES ASSUME T # {} PROVE FALSE
    OBVIOUS
  <1>2. IsWellFoundedOn(R, Nat)
    BY NatLessThanWellFounded DEF OpToRel
  <1>3. PICK m \in T : \A k \in T : ~ (<<k, m>> \in R)
    <2> HIDE DEF R
    <2> QED BY <1>1, <1>2, WFMin
  <1>4. m \in Nat /\ m # 0 /\ m - 1 \in Nat
    OBVIOUS
  <1>5. <<m - 1, m>> \in R
    BY <1>4
  <1>6. m - 1 \in S
    BY <1>3, <1>4, <1>5
  <1>7. m \in S
    BY <1>4, <1>6
  <1> QED BY <1>3, <1>7

(* s is what the loop of SumUpTo has in its variable after each round. *)
IsSum(s, f, n) == s = [x \in 0 .. n |-> IF x = 0 THEN 0 ELSE s[x - 1] + f[x - 1]]

TheSum(f, n) == CHOOSE s : IsSum(s, f, n)

(* The loop has such a history, for any array. *)
LEMMA SumExists ==
  ASSUME NEW f, NEW n \in Nat
  PROVE  \E s : IsSum(s, f, n)
  <1> DEFINE S == {k \in Nat : \E s : IsSum(s, f, k)}
  <1>1. 0 \in S
    <2> DEFINE s == [x \in 0 .. 0 |-> 0]
    <2>1. s = [x \in 0 .. 0 |-> IF x = 0 THEN 0 ELSE s[x - 1] + f[x - 1]]
      OBVIOUS
    <2> QED BY <2>1 DEF IsSum
  <1>2. ASSUME NEW k \in Nat, k \in S
        PROVE  k + 1 \in S
    <2>1. PICK s : IsSum(s, f, k)
      BY <1>2
    <2> DEFINE t == [x \in 0 .. k + 1 |-> IF x = k + 1 THEN s[k] + f[k] ELSE s[x]]
    <2>2. t = [x \in 0 .. k + 1 |-> IF x = 0 THEN 0 ELSE t[x - 1] + f[x - 1]]
      <3>1. ASSUME NEW x \in 0 .. k + 1
            PROVE  t[x] = IF x = 0 THEN 0 ELSE t[x - 1] + f[x - 1]
        <4>1. CASE x = k + 1
          BY <4>1
        <4>2. CASE x \in 0 .. k
          <5>1. s[x] = IF x = 0 THEN 0 ELSE s[x - 1] + f[x - 1]
            BY <2>1, <4>2 DEF IsSum
          <5> QED BY <4>2, <5>1
        <4> QED BY <4>1, <4>2
      <3>2. \A x \in 0 .. k + 1 : t[x] = IF x = 0 THEN 0 ELSE t[x - 1] + f[x - 1]
        BY <3>1
      <3>3. t = [x \in 0 .. k + 1 |-> t[x]]
        OBVIOUS
      <3> HIDE DEF t
      <3> QED BY <3>2, <3>3, Zenon
    <2> HIDE DEF t
    <2>3. IsSum(t, f, k + 1)
      BY <2>2 DEF IsSum
    <2> QED BY <2>3
  <1> HIDE DEF S
  <1>3. n \in S
    BY <1>1, <1>2, SetInduction
  <1> QED BY <1>3 DEF S

(* SumUpTo is the last value of that history, which starts at zero and     *)
(* adds one element a round.                                               *)
LEMMA SumIsSum ==
  ASSUME NEW f, NEW n \in Nat
  PROVE  /\ SumUpTo(f, n) = TheSum(f, n)[n]
         /\ TheSum(f, n)[0] = 0
         /\ \A x \in 0 .. n : x # 0 => TheSum(f, n)[x] = TheSum(f, n)[x - 1] + f[x - 1]
  <1>1. SumUpTo(f, n) = TheSum(f, n)[n]
    BY DEF SumUpTo, TheSum, IsSum
  <1>2. IsSum(TheSum(f, n), f, n)
    BY SumExists DEF TheSum
  <1> DEFINE s == TheSum(f, n)
  <1> HIDE DEF s
  <1>3. s = [x \in 0 .. n |-> IF x = 0 THEN 0 ELSE s[x - 1] + f[x - 1]]
    BY <1>2 DEF IsSum, s
  <1>4. \A x \in 0 .. n : s[x] = IF x = 0 THEN 0 ELSE s[x - 1] + f[x - 1]
    BY <1>3
  <1>5. s[0] = 0 /\ \A x \in 0 .. n : x # 0 => s[x] = s[x - 1] + f[x - 1]
    BY <1>4
  <1> QED BY <1>1, <1>5 DEF s

(* No round changes what the rounds before have added up. *)
LEMMA SumIsStable ==
  ASSUME NEW f, NEW n \in Nat, NEW m \in Nat, n <= m, NEW k \in 0 .. n
  PROVE  TheSum(f, n)[k] = TheSum(f, m)[k]
  <1> DEFINE s == TheSum(f, n)
             t == TheSum(f, m)
             S == {x \in Nat : x <= n => s[x] = t[x]}
  <1>1. 0 \in S
    BY SumIsSum
  <1>2. ASSUME NEW x \in Nat, x \in S
        PROVE  x + 1 \in S
    <2>1. SUFFICES ASSUME x + 1 <= n PROVE s[x + 1] = t[x + 1]
      OBVIOUS
    <2>2. x + 1 \in 0 .. n /\ x + 1 \in 0 .. m /\ x + 1 # 0 /\ (x + 1) - 1 = x /\ x <= n
      BY <2>1
    <2>3. s[x + 1] = s[x] + f[x] /\ t[x + 1] = t[x] + f[x]
      BY <2>2, SumIsSum
    <2> QED BY <1>2, <2>2, <2>3
  <1> HIDE DEF S
  <1>3. k \in S
    BY <1>1, <1>2, SetInduction
  <1> QED BY <1>3 DEF S

(* The two equations that all else about sums rests on. *)
LEMMA SumEquations ==
  ASSUME NEW f
  PROVE  /\ SumUpTo(f, 0) = 0
         /\ \A n \in Nat : SumUpTo(f, n + 1) = SumUpTo(f, n) + f[n]
  <1>1. SumUpTo(f, 0) = 0
    BY SumIsSum
  <1>2. ASSUME NEW n \in Nat PROVE SumUpTo(f, n + 1) = SumUpTo(f, n) + f[n]
    <2>1. n + 1 \in Nat /\ n + 1 # 0 /\ (n + 1) - 1 = n /\ n + 1 \in 0 .. n + 1 /\ n <= n + 1
      OBVIOUS
    <2>2. TheSum(f, n + 1)[n + 1] = TheSum(f, n + 1)[n] + f[n]
      BY <2>1, SumIsSum
    <2>3. TheSum(f, n + 1)[n] = TheSum(f, n)[n]
      BY <2>1, SumIsStable
    <2> QED BY <2>1, <2>2, <2>3, SumIsSum
  <1> QED BY <1>1, <1>2

(* Sums of naturals are naturals. *)
LEMMA SumIsNatural ==
  ASSUME NEW f, NEW n \in Nat, \A x \in 0 .. n - 1 : f[x] \in Nat
  PROVE  SumUpTo(f, n) \in Nat
  <1> DEFINE S == {k \in Nat : k <= n => SumUpTo(f, k) \in Nat}
  <1>1. 0 \in S
    BY SumEquations
  <1>2. ASSUME NEW k \in Nat, k \in S PROVE k + 1 \in S
    <2>1. SUFFICES ASSUME k + 1 <= n PROVE SumUpTo(f, k + 1) \in Nat
      OBVIOUS
    <2>2. f[k] \in Nat /\ SumUpTo(f, k) \in Nat
      BY <1>2, <2>1
    <2> QED BY <2>2, SumEquations
  <1> HIDE DEF S
  <1>3. n \in S
    BY <1>1, <1>2, SetInduction
  <1> QED BY <1>3 DEF S

(* What is added from one place on grows with what is added. *)
LEMMA SumIsMonotonic ==
  ASSUME NEW f, NEW g, NEW n \in Nat, NEW m \in 0 .. n,
         \A x \in 0 .. n - 1 : f[x] \in Nat /\ g[x] \in Nat /\ f[x] <= g[x]
  PROVE  SumUpTo(f, n) - SumUpTo(f, m) <= SumUpTo(g, n) - SumUpTo(g, m)
  <1> DEFINE S == {k \in Nat : m <= k /\ k <= n =>
                     SumUpTo(f, k) - SumUpTo(f, m) <= SumUpTo(g, k) - SumUpTo(g, m)}
  <1>0. \A k \in 0 .. n : SumUpTo(f, k) \in Nat /\ SumUpTo(g, k) \in Nat
    <2>1. SUFFICES ASSUME NEW k \in 0 .. n
                   PROVE  SumUpTo(f, k) \in Nat /\ SumUpTo(g, k) \in Nat
      OBVIOUS
    <2>2. k \in Nat /\ \A x \in 0 .. k - 1 : f[x] \in Nat /\ g[x] \in Nat
      OBVIOUS
    <2> QED BY <2>2, SumIsNatural
  <1>1. 0 \in S
    BY <1>0
  <1>2. ASSUME NEW k \in Nat, k \in S PROVE k + 1 \in S
    <2>1. SUFFICES ASSUME m <= k + 1, k + 1 <= n
                   PROVE SumUpTo(f, k + 1) - SumUpTo(f, m) <= SumUpTo(g, k + 1) - SumUpTo(g, m)
      OBVIOUS
    <2>2. CASE m = k + 1
      BY <2>2, <1>0, <2>1
    <2>3. CASE m <= k
      <3>1. f[k] \in Nat /\ g[k] \in Nat /\ f[k] <= g[k]
        BY <2>1
      <3>2. SumUpTo(f, k) - SumUpTo(f, m) <= SumUpTo(g, k) - SumUpTo(g, m)
        BY <1>2, <2>1, <2>3
      <3>3. /\ SumUpTo(f, k) \in Nat /\ SumUpTo(g, k) \in Nat
            /\ SumUpTo(f, m) \in Nat /\ SumUpTo(g, m) \in Nat
        BY <1>0, <2>1
      <3>4. /\ SumUpTo(f, k + 1) = SumUpTo(f, k) + f[k]
            /\ SumUpTo(g, k + 1) = SumUpTo(g, k) + g[k]
        BY SumEquations
      <3> QED BY <3>1, <3>2, <3>3, <3>4
    <2> QED BY <2>1, <2>2, <2>3
  <1> HIDE DEF S
  <1>3. n \in S
    BY <1>1, <1>2, SetInduction
  <1> QED BY <1>3 DEF S

(* Nothing added up is nothing. *)
LEMMA SumOfZeros ==
  ASSUME NEW f, NEW n \in Nat, \A x \in 0 .. n - 1 : f[x] = 0
  PROVE  \A k \in 0 .. n : SumUpTo(f, k) = 0
  <1> DEFINE S == {k \in Nat : k <= n => SumUpTo(f, k) = 0}
  <1>1. 0 \in S
    BY SumEquations
  <1>2. ASSUME NEW k \in Nat, k \in S PROVE k + 1 \in S
    BY <1>2, SumEquations
  <1> HIDE DEF S
  <1>3. Nat \subseteq S
    BY <1>1, <1>2, SetInduction
  <1> QED BY <1>3 DEF S

(* One more in one place is one more in the sum. *)
LEMMA SumOfOneMore ==
  ASSUME NEW f, NEW g, NEW n \in Nat, NEW c \in 0 .. n - 1,
         \A x \in 0 .. n - 1 : f[x] \in Nat /\ g[x] = IF x = c THEN f[x] + 1 ELSE f[x]
  PROVE  \A k \in 0 .. n : SumUpTo(g, k) = IF c < k THEN SumUpTo(f, k) + 1 ELSE SumUpTo(f, k)
  <1> DEFINE S == {k \in Nat : k <= n =>
                     SumUpTo(g, k) = IF c < k THEN SumUpTo(f, k) + 1 ELSE SumUpTo(f, k)}
  <1>1. 0 \in S
    BY SumEquations
  <1>2. ASSUME NEW k \in Nat, k \in S PROVE k + 1 \in S
    <2>1. SUFFICES ASSUME k + 1 <= n
                   PROVE  SumUpTo(g, k + 1) =
                            IF c < k + 1 THEN SumUpTo(f, k + 1) + 1 ELSE SumUpTo(f, k + 1)
      OBVIOUS
    <2>2. f[k] \in Nat /\ g[k] = IF k = c THEN f[k] + 1 ELSE f[k]
      BY <2>1
    <2>3. SumUpTo(g, k) = IF c < k THEN SumUpTo(f, k) + 1 ELSE SumUpTo(f, k)
      BY <1>2, <2>1
    <2>4. SumUpTo(f, k) \in Nat
      BY <2>1, SumIsNatural
    <2>5. /\ SumUpTo(f, k + 1) = SumUpTo(f, k) + f[k]
          /\ SumUpTo(g, k + 1) = SumUpTo(g, k) + g[k]
      BY SumEquations
    <2> QED BY <2>2, <2>3, <2>4, <2>5
  <1> HIDE DEF S
  <1>3. Nat \subseteq S
    BY <1>1, <1>2, SetInduction
  <1> QED BY <1>3 DEF S

(* A sum of differences is a difference. *)
LEMMA SumOfDifferences ==
  ASSUME NEW f, NEW h, NEW n \in Nat, NEW m \in 0 .. n,
         \A x \in 0 .. n - 1 : f[x] \in Nat,
         \A x \in m .. n : h[x] \in Int,
         \A x \in m .. n - 1 : f[x] = h[x + 1] - h[x]
  PROVE  SumUpTo(f, n) - SumUpTo(f, m) = h[n] - h[m]
  <1> DEFINE S == {k \in Nat : m <= k /\ k <= n =>
                     SumUpTo(f, k) - SumUpTo(f, m) = h[k] - h[m]}
  <1>0. \A k \in 0 .. n : SumUpTo(f, k) \in Nat
    <2>1. SUFFICES ASSUME NEW k \in 0 .. n PROVE SumUpTo(f, k) \in Nat
      OBVIOUS
    <2>2. k \in Nat /\ \A x \in 0 .. k - 1 : f[x] \in Nat
      OBVIOUS
    <2> QED BY <2>2, SumIsNatural
  <1>1. 0 \in S
    BY <1>0
  <1>2. ASSUME NEW k \in Nat, k \in S PROVE k + 1 \in S
    <2>1. SUFFICES ASSUME m <= k + 1, k + 1 <= n
                   PROVE SumUpTo(f, k + 1) - SumUpTo(f, m) = h[k + 1] - h[m]
      OBVIOUS
    <2>2. CASE m = k + 1
      BY <2>2, <1>0, <2>1
    <2>3. CASE m <= k
      <3>1. f[k] \in Nat /\ h[k] \in Int /\ h[k + 1] \in Int /\ h[m] \in Int
        BY <2>1, <2>3
      <3>2. SumUpTo(f, k) - SumUpTo(f, m) = h[k] - h[m]
        BY <1>2, <2>1, <2>3
      <3>3. SumUpTo(f, k) \in Nat /\ SumUpTo(f, m) \in Nat
        BY <1>0, <2>1
      <3>4. SumUpTo(f, k + 1) = SumUpTo(f, k) + f[k]
        BY SumEquations
      <3>5. f[k] = h[k + 1] - h[k]
        BY <2>1, <2>3
      <3> QED BY <3>1, <3>2, <3>3, <3>4, <3>5
    <2> QED BY <2>1, <2>2, <2>3
  <1> HIDE DEF S
  <1>3. n \in S
    BY <1>1, <1>2, SetInduction
  <1> QED BY <1>3 DEF S

-----------------------------------------------------------------------------
(* RetransRate: the types, and the parts of the invariant. *)

(* ReadLine adds the counters of such a line. *)
Matches(line, p) == line.peer # Nobody /\ line.peer = p
Lines == 0 .. NumConnections - 1

(* What the lines would add now to the sums of a pass, as arrays from zero *)
(* on: the retransmissions, the packets sent for the first time, and the   *)
(* packets of any peer.                                                    *)
RetransTo(t, p) == [x \in Lines |-> IF Matches(t[x + 1], p) THEN t[x + 1].retrans ELSE 0]
FirstSendsTo(t, p) ==
  [x \in Lines |-> IF Matches(t[x + 1], p) THEN t[x + 1].packets - t[x + 1].retrans ELSE 0]
PacketsOf(t) == [x \in Lines |-> t[x + 1].packets]

(* What the lines from x on still add. *)
SumFrom(f, x) == SumUpTo(f, NumConnections) - SumUpTo(f, x)

Reading == pass.at \in {"line", "save"}
FirstSends(counters) == counters.packets - counters.retrans

(* A line without a connection counts nothing, and what is sent again is   *)
(* sent.                                                                   *)
LinesAreConsistent ==
  \A c \in Connections : /\ tcp4[c].retrans <= tcp4[c].packets
                         /\ tcp4[c].peer = Nobody => tcp4[c].packets = 0

(* A pass that reads is at a line. *)
PassIsInLines ==
  /\ pass.at = "line" => pass.line \in Connections
  /\ pass.at = "save" => pass.line = NumConnections + 1
  /\ pass.sum.retrans <= pass.sum.packets

(* Every packet that is or may still be counted in a pass was an event,    *)
(* even if its connection closed and another took its line.                *)
CountersAreBounded ==
  /\ SumUpTo(PacketsOf(tcp4), NumConnections) <= events
  /\ Reading => pass.sum.packets + SumFrom(PacketsOf(tcp4), pass.line - 1) <= events

(* A counter that was at before is not ahead of what the pass will have    *)
(* added up at its end, or of what the lines add up to if none is under    *)
(* way.                                                                    *)
Behind(f, before, now) ==
  IF Reading THEN before <= now + SumFrom(f, pass.line - 1)
             ELSE before <= SumUpTo(f, NumConnections)

(* From the second undisturbed pass on, the totals of the previous pass    *)
(* are behind those of the next, in what was sent again and in what was    *)
(* sent for the first time: then neither difference wraps, and there are   *)
(* at least as many packets as retransmissions.                            *)
PreviousIsBehind ==
  calm >= 2 =>
    /\ Behind(RetransTo(tcp4, aDest_Ip2_Binary), previous.retrans, pass.sum.retrans)
    /\ Behind(FirstSendsTo(tcp4, aDest_Ip2_Binary), FirstSends(previous), FirstSends(pass.sum))

(* From the first undisturbed pass on, what a pass has added up is behind  *)
(* the lines it has read.                                                  *)
PassIsBehind ==
  calm >= 1 /\ Reading =>
    /\ pass.sum.retrans <= SumUpTo(RetransTo(tcp4, aDest_Ip2_Binary), pass.line - 1)
    /\ FirstSends(pass.sum) <= SumUpTo(FirstSendsTo(tcp4, aDest_Ip2_Binary), pass.line - 1)

WindowSize == Window(vRateCount, fRateArrayDone)

(* The history has the totals of the intervals in the window and the one   *)
(* before.                                                                 *)
WindowIsTotals ==
  /\ fRateArrayDone => vRateCount > 0
  /\ Len(totals) = WindowSize + 1
  /\ totals[Len(totals)] = previous

(* The slot of the interval that j others came after, when count slots were *)
(* filled since the ring was at its start.                                  *)
Slot(count, j) == IF j < count THEN count - 1 - j ELSE NUM_RATES_TO_USE + count - 1 - j

(* The intervals since the peer and its connections last changed are the   *)
(* differences of consecutive totals, in the slots they are expected in.   *)
RingIsDifferences ==
  \A j \in 0 .. WindowSize - 1 : j + 2 < calm =>
    /\ ring[Slot(vRateCount, j)].retrans =
         totals[WindowSize - j + 1].retrans - totals[WindowSize - j].retrans
    /\ ring[Slot(vRateCount, j)].packets =
         totals[WindowSize - j + 1].packets - totals[WindowSize - j].packets

LineType == [peer : Peers \cup {Nobody}, retrans : Nat, packets : Nat]

(* The types depend on the bound of the counters: an interval fits an      *)
(* unsigned long.                                                          *)
RateTypeInv == RateTypeOK /\ LinesAreConsistent /\ PassIsInLines /\ CountersAreBounded

(* What a step of the network and of the threads that accept does. *)
GoesOn ==
  /\ tcp4' \in [Connections -> LineType]
  /\ aDest_Ip2_Binary' \in Peers \cup {Nobody}
  /\ vIamASrcDtn' \in BOOLEAN
  /\ events' \in 0 .. MaxEvents /\ events' = events + 1
  /\ UNCHANGED <<pass, previous, ring, vRateCount, fRateArrayDone, rate, totals>>
  /\ calm' = calm \/ calm' = 0
  /\ LinesAreConsistent'
  /\ \A x \in 0 .. NumConnections : SumFrom(PacketsOf(tcp4'), x) <= SumFrom(PacketsOf(tcp4), x) + 1
  /\ calm' # 0 =>
       \A x \in Lines :
         /\ RetransTo(tcp4, aDest_Ip2_Binary)[x] <= RetransTo(tcp4', aDest_Ip2_Binary')[x]
         /\ FirstSendsTo(tcp4, aDest_Ip2_Binary)[x] <= FirstSendsTo(tcp4', aDest_Ip2_Binary')[x]

(* The arrays hold naturals. *)
LEMMA LineTypes ==
  ASSUME NEW t \in [Connections -> LineType], NEW p,
         \A c \in Connections : t[c].retrans <= t[c].packets
  PROVE  \A x \in Lines : /\ RetransTo(t, p)[x] \in Nat
                          /\ FirstSendsTo(t, p)[x] \in Nat
                          /\ PacketsOf(t)[x] \in Nat
  <1>1. SUFFICES ASSUME NEW x \in Lines
                 PROVE  /\ RetransTo(t, p)[x] \in Nat
                        /\ FirstSendsTo(t, p)[x] \in Nat
                        /\ PacketsOf(t)[x] \in Nat
    OBVIOUS
  <1>2. x + 1 \in Connections
    BY ConnectionAssumption DEF Lines, Connections
  <1>3. t[x + 1].retrans \in Nat /\ t[x + 1].packets \in Nat /\ t[x + 1].retrans <= t[x + 1].packets
    BY <1>2 DEF LineType
  <1> QED BY <1>3 DEF RetransTo, FirstSendsTo, PacketsOf

(* A sum of lines grows with the lines, from any line on and up to it. *)
LEMMA SumFromIsMonotonic ==
  ASSUME NEW f, NEW g, \A x \in Lines : f[x] \in Nat /\ g[x] \in Nat /\ f[x] <= g[x],
         NEW x \in 0 .. NumConnections
  PROVE  /\ SumFrom(f, x) \in Int /\ SumFrom(g, x) \in Int
         /\ SumFrom(f, x) <= SumFrom(g, x)
         /\ SumUpTo(f, x) \in Nat /\ SumUpTo(g, x) \in Nat
         /\ SumUpTo(f, x) <= SumUpTo(g, x)
  <1>1. NumConnections \in Nat /\ x \in Nat /\ 0 \in 0 .. x
    BY ConnectionAssumption
  <1>2. \A y \in 0 .. NumConnections - 1 : f[y] \in Nat /\ g[y] \in Nat /\ f[y] <= g[y]
    BY DEF Lines
  <1>3. \A y \in 0 .. x - 1 : f[y] \in Nat /\ g[y] \in Nat /\ f[y] <= g[y]
    BY <1>1, <1>2
  <1>4. SumUpTo(f, NumConnections) - SumUpTo(f, x) <= SumUpTo(g, NumConnections) - SumUpTo(g, x)
    BY <1>1, <1>2, SumIsMonotonic
  <1>5. SumUpTo(f, x) - SumUpTo(f, 0) <= SumUpTo(g, x) - SumUpTo(g, 0)
    BY <1>1, <1>3, SumIsMonotonic
  <1>6. /\ SumUpTo(f, x) \in Nat /\ SumUpTo(g, x) \in Nat
        /\ SumUpTo(f, NumConnections) \in Nat /\ SumUpTo(g, NumConnections) \in Nat
    BY <1>1, <1>2, <1>3, SumIsNatural
  <1>7. SumUpTo(f, 0) = 0 /\ SumUpTo(g, 0) = 0
    BY SumEquations
  <1> QED BY <1>4, <1>5, <1>6, <1>7 DEF SumFrom

(* A step that changes one line adds at most one packet to what is to come. *)
LEMMA OneMorePacket ==
  ASSUME RateTypeInv, tcp4' \in [Connections -> LineType], LinesAreConsistent',
         NEW c \in Connections,
         \A d \in Connections : d # c => tcp4'[d] = tcp4[d],
         tcp4'[c].packets <= tcp4[c].packets + 1
  PROVE  \A x \in 0 .. NumConnections : SumFrom(PacketsOf(tcp4'), x) <= SumFrom(PacketsOf(tcp4), x) + 1
  <1>1. SUFFICES ASSUME NEW x \in 0 .. NumConnections
                 PROVE  SumFrom(PacketsOf(tcp4'), x) <= SumFrom(PacketsOf(tcp4), x) + 1
    OBVIOUS
  <1>0. PICK e \in Lines : e = c - 1
    BY ConnectionAssumption DEF Connections, Lines
  <1> DEFINE f == PacketsOf(tcp4)
             g == PacketsOf(tcp4')
             h == [y \in Lines |-> IF y = e THEN f[y] + 1 ELSE f[y]]
  <1>2. \A y \in Lines : f[y] \in Nat /\ g[y] \in Nat
    BY LineTypes DEF RateTypeInv, RateTypeOK, LineType, LinesAreConsistent
  <1>3. NumConnections \in Nat /\ c \in Int
    BY ConnectionAssumption DEF Connections, Lines
  <1>4. \A y \in Lines : g[y] <= h[y] /\ h[y] \in Nat
    <2>1. SUFFICES ASSUME NEW y \in Lines PROVE g[y] <= h[y] /\ h[y] \in Nat
      OBVIOUS
    <2>2. y + 1 \in Connections /\ (y + 1 = c <=> y = e)
      BY <1>0, <1>3 DEF Lines, Connections
    <2>3. g[y] = tcp4'[y + 1].packets /\ f[y] = tcp4[y + 1].packets
      BY DEF PacketsOf
    <2> HIDE DEF f, g
    <2> QED BY <1>2, <2>2, <2>3
  <1> HIDE DEF f, g
  <1>5. \A k \in 0 .. NumConnections :
          SumUpTo(h, k) = IF e < k THEN SumUpTo(f, k) + 1 ELSE SumUpTo(f, k)
    <2>1. e \in 0 .. NumConnections - 1
      BY <1>0 DEF Lines
    <2>2. \A y \in 0 .. NumConnections - 1 :
            f[y] \in Nat /\ h[y] = IF y = e THEN f[y] + 1 ELSE f[y]
      BY <1>2 DEF Lines
    <2> HIDE DEF h
    <2> QED BY <1>3, <2>1, <2>2, SumOfOneMore, Zenon
  <1> HIDE DEF h
  <1>6. SumFrom(g, x) <= SumFrom(h, x) /\ SumFrom(g, x) \in Int /\ SumFrom(h, x) \in Int
    BY <1>2, <1>4, SumFromIsMonotonic
  <1>7. SumUpTo(f, NumConnections) \in Nat /\ SumUpTo(f, x) \in Nat
    BY <1>2, <1>3, SumFromIsMonotonic
  <1>8. SumFrom(h, x) <= SumFrom(f, x) + 1
    BY <1>0, <1>3, <1>5, <1>7 DEF SumFrom
  <1>9. SumFrom(f, x) \in Int
    BY <1>7 DEF SumFrom
  <1> QED BY <1>6, <1>8, <1>9 DEF f, g

(* Nor does a step that leaves the connections alone. *)
LEMMA NoMorePackets ==
  ASSUME RateTypeInv, tcp4' = tcp4
  PROVE  \A x \in 0 .. NumConnections : SumFrom(PacketsOf(tcp4'), x) <= SumFrom(PacketsOf(tcp4), x) + 1
  <1>1. NumConnections \in Nat
    BY ConnectionAssumption
  <1>2. \A y \in Lines : PacketsOf(tcp4)[y] \in Nat
    BY LineTypes DEF RateTypeInv, RateTypeOK, LineType, LinesAreConsistent
  <1>3. \A x \in 0 .. NumConnections : SumFrom(PacketsOf(tcp4), x) \in Int
    BY <1>1, <1>2, SumFromIsMonotonic
  <1>4. PacketsOf(tcp4') = PacketsOf(tcp4)
    BY DEF PacketsOf
  <1> QED BY <1>3, <1>4

(* What holds of each line of the peer holds of the arrays. *)
LEMMA PerLine ==
  ASSUME NEW t \in [Connections -> LineType], NEW u \in [Connections -> LineType],
         NEW p, NEW q,
         \A c \in Connections : t[c].retrans <= t[c].packets /\ u[c].retrans <= u[c].packets,
         \A c \in Connections : Matches(t[c], p) =>
           /\ Matches(u[c], q)
           /\ t[c].retrans <= u[c].retrans
           /\ t[c].packets - t[c].retrans <= u[c].packets - u[c].retrans
  PROVE  \A x \in Lines : /\ RetransTo(t, p)[x] <= RetransTo(u, q)[x]
                          /\ FirstSendsTo(t, p)[x] <= FirstSendsTo(u, q)[x]
  <1>1. SUFFICES ASSUME NEW x \in Lines
                 PROVE  /\ RetransTo(t, p)[x] <= RetransTo(u, q)[x]
                        /\ FirstSendsTo(t, p)[x] <= FirstSendsTo(u, q)[x]
    OBVIOUS
  <1>2. PICK c \in Connections : c = x + 1
    BY ConnectionAssumption DEF Lines, Connections
  <1>3. /\ RetransTo(t, p)[x] = IF Matches(t[c], p) THEN t[c].retrans ELSE 0
        /\ RetransTo(u, q)[x] = IF Matches(u[c], q) THEN u[c].retrans ELSE 0
        /\ FirstSendsTo(t, p)[x] = IF Matches(t[c], p) THEN t[c].packets - t[c].retrans ELSE 0
        /\ FirstSendsTo(u, q)[x] = IF Matches(u[c], q) THEN u[c].packets - u[c].retrans ELSE 0
    BY <1>2 DEF RetransTo, FirstSendsTo
  <1>4. /\ t[c].retrans \in Nat /\ t[c].packets \in Nat
        /\ u[c].retrans \in Nat /\ u[c].packets \in Nat
    BY DEF LineType
  <1> QED BY <1>3, <1>4

(* A new connection has counted nothing yet. *)
LEMMA OpenGoesOn ==
  ASSUME RateTypeInv, NEW c \in Connections, NEW p \in Peers, Open(c, p)
  PROVE  GoesOn
  <1> USE DEF RateTypeInv
  <1>1. tcp4 \in [Connections -> LineType] /\ aDest_Ip2_Binary \in Peers \cup {Nobody}
        /\ vIamASrcDtn \in BOOLEAN /\ events \in 0 .. MaxEvents /\ calm \in 0 .. Calm
    BY DEF RateTypeOK, LineType
  <1>2. /\ events' \in 0 .. MaxEvents /\ events' = events + 1
        /\ UNCHANGED <<pass, previous, ring, vRateCount, fRateArrayDone, rate, totals>>
        /\ UNCHANGED <<aDest_Ip2_Binary, vIamASrcDtn, calm>>
    BY <1>1, BoundAssumption DEF Open, Happens, ringVars
  <1>3. tcp4[c].peer = Nobody /\ tcp4' = [tcp4 EXCEPT ![c].peer = p]
    BY DEF Open
  <1>4. tcp4[c] \in LineType /\ tcp4[c].packets = 0 /\ tcp4[c].retrans = 0
    BY <1>1, <1>3 DEF LinesAreConsistent, LineType
  <1>5. /\ tcp4' \in [Connections -> LineType]
        /\ tcp4'[c].peer = p /\ tcp4'[c].packets = 0 /\ tcp4'[c].retrans = 0
        /\ \A d \in Connections : d # c => tcp4'[d] = tcp4[d]
    BY <1>1, <1>3, <1>4 DEF LineType
  <1>6. LinesAreConsistent'
    BY <1>4, <1>5, PeerAssumption DEF LinesAreConsistent
  <1>7. \A x \in 0 .. NumConnections : SumFrom(PacketsOf(tcp4'), x) <= SumFrom(PacketsOf(tcp4), x) + 1
    BY <1>4, <1>5, <1>6, OneMorePacket
  <1>8. \A d \in Connections : Matches(tcp4[d], aDest_Ip2_Binary) => d # c
    BY <1>3 DEF Matches
  <1>9. \A x \in Lines :
          /\ RetransTo(tcp4, aDest_Ip2_Binary)[x] <= RetransTo(tcp4', aDest_Ip2_Binary')[x]
          /\ FirstSendsTo(tcp4, aDest_Ip2_Binary)[x] <= FirstSendsTo(tcp4', aDest_Ip2_Binary')[x]
    <2>1. \A d \in Connections :
            tcp4[d].retrans <= tcp4[d].packets /\ tcp4'[d].retrans <= tcp4'[d].packets
      BY <1>6 DEF LinesAreConsistent
    <2>2. \A d \in Connections : Matches(tcp4[d], aDest_Ip2_Binary) =>
            /\ Matches(tcp4'[d], aDest_Ip2_Binary')
            /\ tcp4[d].retrans <= tcp4'[d].retrans
            /\ tcp4[d].packets - tcp4[d].retrans <= tcp4'[d].packets - tcp4'[d].retrans
      BY <1>1, <1>2, <1>5, <1>8 DEF LineType
    <2> QED BY <1>1, <1>5, <2>1, <2>2, PerLine
  <1> QED BY <1>1, <1>2, <1>5, <1>6, <1>7, <1>9 DEF GoesOn

(* A packet makes both counters of its line, or one, larger. *)
LEMMA SendPacketGoesOn ==
  ASSUME RateTypeInv, NEW c \in Connections, NEW again \in BOOLEAN, SendPacket(c, again)
  PROVE  GoesOn
  <1> USE DEF RateTypeInv
  <1>1. tcp4 \in [Connections -> LineType] /\ aDest_Ip2_Binary \in Peers \cup {Nobody}
        /\ vIamASrcDtn \in BOOLEAN /\ events \in 0 .. MaxEvents /\ calm \in 0 .. Calm
    BY DEF RateTypeOK, LineType
  <1>2. /\ events' \in 0 .. MaxEvents /\ events' = events + 1
        /\ UNCHANGED <<pass, previous, ring, vRateCount, fRateArrayDone, rate, totals>>
        /\ UNCHANGED <<aDest_Ip2_Binary, vIamASrcDtn, calm>>
    BY <1>1, BoundAssumption DEF SendPacket, Happens, ringVars
  <1> DEFINE r == IF again THEN tcp4[c].retrans + 1 ELSE tcp4[c].retrans
             l == [tcp4[c] EXCEPT !.packets = tcp4[c].packets + 1, !.retrans = r]
  <1>3. tcp4[c].peer # Nobody /\ tcp4' = [tcp4 EXCEPT ![c] = l]
    BY <1>1 DEF SendPacket
  <1>4. tcp4[c] \in LineType /\ tcp4[c].packets \in Nat /\ tcp4[c].retrans \in Nat
        /\ tcp4[c].retrans <= tcp4[c].packets
    BY <1>1 DEF LinesAreConsistent, LineType
  <1>5. r \in Nat /\ tcp4[c].retrans <= r /\ r <= tcp4[c].retrans + 1
    BY <1>4
  <1>6. l \in LineType /\ l.peer = tcp4[c].peer /\ l.packets = tcp4[c].packets + 1 /\ l.retrans = r
    <2> HIDE DEF r
    <2> DEFINE k == [tcp4[c] EXCEPT !.packets = tcp4[c].packets + 1]
    <2>1. /\ k \in LineType /\ k.peer = tcp4[c].peer /\ k.packets = tcp4[c].packets + 1
          /\ l = [k EXCEPT !.retrans = r]
      BY <1>4 DEF LineType
    <2> HIDE DEF k, l
    <2> QED BY <1>5, <2>1 DEF LineType
  <1> HIDE DEF l, r
  <1>7. /\ tcp4' \in [Connections -> LineType]
        /\ tcp4'[c] = l
        /\ \A d \in Connections : d # c => tcp4'[d] = tcp4[d]
    BY <1>1, <1>3, <1>6
  <1>8. LinesAreConsistent'
    BY <1>3, <1>4, <1>5, <1>6, <1>7 DEF LinesAreConsistent
  <1>9. \A x \in 0 .. NumConnections : SumFrom(PacketsOf(tcp4'), x) <= SumFrom(PacketsOf(tcp4), x) + 1
    <2>1. tcp4'[c].packets <= tcp4[c].packets + 1
      BY <1>4, <1>6, <1>7
    <2> QED BY <1>7, <1>8, <2>1, OneMorePacket
  <1>10. \A x \in Lines :
          /\ RetransTo(tcp4, aDest_Ip2_Binary)[x] <= RetransTo(tcp4', aDest_Ip2_Binary')[x]
          /\ FirstSendsTo(tcp4, aDest_Ip2_Binary)[x] <= FirstSendsTo(tcp4', aDest_Ip2_Binary')[x]
    <2>1. \A d \in Connections :
            tcp4[d].retrans <= tcp4[d].packets /\ tcp4'[d].retrans <= tcp4'[d].packets
      BY <1>8 DEF LinesAreConsistent
    <2>2. ASSUME NEW d \in Connections, Matches(tcp4[d], aDest_Ip2_Binary)
          PROVE  /\ Matches(tcp4'[d], aDest_Ip2_Binary')
                 /\ tcp4[d].retrans <= tcp4'[d].retrans
                 /\ tcp4[d].packets - tcp4[d].retrans <= tcp4'[d].packets - tcp4'[d].retrans
      <3>1. CASE d = c
        BY <1>2, <1>4, <1>5, <1>6, <1>7, <2>2, <3>1 DEF Matches
      <3>2. CASE d # c
        BY <1>1, <1>2, <1>7, <2>2, <3>2 DEF LineType
      <3> QED BY <3>1, <3>2
    <2> QED BY <1>1, <1>7, <2>1, <2>2, PerLine
  <1> QED BY <1>1, <1>2, <1>7, <1>8, <1>9, <1>10 DEF GoesOn

(* A connection to the peer that closes starts the count of undisturbed    *)
(* passes again.                                                           *)
LEMMA CloseGoesOn ==
  ASSUME RateTypeInv, NEW c \in Connections, Close(c)
  PROVE  GoesOn
  <1> USE DEF RateTypeInv
  <1>1. tcp4 \in [Connections -> LineType] /\ aDest_Ip2_Binary \in Peers \cup {Nobody}
        /\ vIamASrcDtn \in BOOLEAN /\ events \in 0 .. MaxEvents /\ calm \in 0 .. Calm
    BY DEF RateTypeOK, LineType
  <1>2. /\ events' \in 0 .. MaxEvents /\ events' = events + 1
        /\ UNCHANGED <<pass, previous, ring, vRateCount, fRateArrayDone, rate, totals>>
        /\ UNCHANGED <<aDest_Ip2_Binary, vIamASrcDtn>>
        /\ calm' = IF tcp4[c].peer = aDest_Ip2_Binary THEN 0 ELSE calm
    BY <1>1, BoundAssumption DEF Close, Happens, ringVars
  <1>3. /\ tcp4' \in [Connections -> LineType]
        /\ tcp4'[c] = NoLine
        /\ \A d \in Connections : d # c => tcp4'[d] = tcp4[d]
    BY <1>1 DEF Close, NoLine, LineType
  <1>4. NoLine.packets = 0 /\ NoLine.retrans = 0
    BY DEF NoLine
  <1>5. LinesAreConsistent'
    BY <1>3, <1>4 DEF LinesAreConsistent
  <1>6. \A x \in 0 .. NumConnections : SumFrom(PacketsOf(tcp4'), x) <= SumFrom(PacketsOf(tcp4), x) + 1
    <2>1. tcp4'[c].packets <= tcp4[c].packets + 1
      BY <1>1, <1>3, <1>4 DEF LineType
    <2> QED BY <1>3, <1>5, <2>1, OneMorePacket
  <1>7. ASSUME calm' # 0
        PROVE \A x \in Lines :
          /\ RetransTo(tcp4, aDest_Ip2_Binary)[x] <= RetransTo(tcp4', aDest_Ip2_Binary')[x]
          /\ FirstSendsTo(tcp4, aDest_Ip2_Binary)[x] <= FirstSendsTo(tcp4', aDest_Ip2_Binary')[x]
    <2>1. \A d \in Connections :
            tcp4[d].retrans <= tcp4[d].packets /\ tcp4'[d].retrans <= tcp4'[d].packets
      BY <1>5 DEF LinesAreConsistent
    <2>2. \A d \in Connections : Matches(tcp4[d], aDest_Ip2_Binary) => d # c
      BY <1>2, <1>7 DEF Matches
    <2>3. \A d \in Connections : Matches(tcp4[d], aDest_Ip2_Binary) =>
            /\ Matches(tcp4'[d], aDest_Ip2_Binary')
            /\ tcp4[d].retrans <= tcp4'[d].retrans
            /\ tcp4[d].packets - tcp4[d].retrans <= tcp4'[d].packets - tcp4'[d].retrans
      BY <1>1, <1>2, <1>3, <2>2 DEF LineType
    <2> QED BY <1>1, <1>3, <2>1, <2>3, PerLine
  <1> QED BY <1>1, <1>2, <1>3, <1>5, <1>6, <1>7 DEF GoesOn

(* So does another peer, unless there was none. *)
LEMMA SetPeerGoesOn ==
  ASSUME RateTypeInv, Happens, tcp4' = tcp4, vIamASrcDtn' \in BOOLEAN,
         UNCHANGED <<pass, ringVars, totals>>,
         \/ \E p \in Peers : SetPeer(p)
         \/ UNCHANGED <<aDest_Ip2_Binary, calm>>
  PROVE  GoesOn
  <1> USE DEF RateTypeInv
  <1>1. tcp4 \in [Connections -> LineType] /\ aDest_Ip2_Binary \in Peers \cup {Nobody}
        /\ events \in 0 .. MaxEvents /\ calm \in 0 .. Calm
    BY DEF RateTypeOK, LineType
  <1>2. /\ events' \in 0 .. MaxEvents /\ events' = events + 1
        /\ UNCHANGED <<pass, previous, ring, vRateCount, fRateArrayDone, rate, totals>>
        /\ aDest_Ip2_Binary' \in Peers \cup {Nobody}
        /\ calm' = calm \/ calm' = 0
        /\ calm' # 0 => aDest_Ip2_Binary \in {aDest_Ip2_Binary', Nobody}
    BY <1>1, BoundAssumption DEF SetPeer, Happens, ringVars
  <1>3. LinesAreConsistent'
    BY DEF LinesAreConsistent
  <1>4. ASSUME calm' # 0
        PROVE \A x \in Lines :
          /\ RetransTo(tcp4, aDest_Ip2_Binary)[x] <= RetransTo(tcp4', aDest_Ip2_Binary')[x]
          /\ FirstSendsTo(tcp4, aDest_Ip2_Binary)[x] <= FirstSendsTo(tcp4', aDest_Ip2_Binary')[x]
    <2>1. \A d \in Connections :
            tcp4[d].retrans <= tcp4[d].packets /\ tcp4'[d].retrans <= tcp4'[d].packets
      BY DEF LinesAreConsistent
    <2>2. \A d \in Connections : Matches(tcp4[d], aDest_Ip2_Binary) =>
            /\ Matches(tcp4'[d], aDest_Ip2_Binary')
            /\ tcp4[d].retrans <= tcp4'[d].retrans
            /\ tcp4[d].packets - tcp4[d].retrans <= tcp4'[d].packets - tcp4'[d].retrans
      BY <1>1, <1>2, <1>4 DEF LineType, Matches
    <2> QED BY <1>1, <2>1, <2>2, PerLine
  <1> QED BY <1>1, <1>2, <1>3, <1>4, NoMorePackets DEF GoesOn

(* All the steps of the network and of the threads that accept. *)
LEMMA NetworkGoesOn ==
  ASSUME RateTypeInv, Network
  PROVE  GoesOn
  <1>1. ASSUME NEW p \in Peers, AcceptPeer(p) \/ AcceptHpnClient(p)
        PROVE  GoesOn
    <2>1. Happens /\ SetPeer(p) /\ tcp4' = tcp4 /\ UNCHANGED <<pass, ringVars, totals>>
      BY <1>1 DEF AcceptPeer, AcceptHpnClient
    <2>2. vIamASrcDtn' \in BOOLEAN
      BY <1>1 DEF AcceptPeer, AcceptHpnClient, RateTypeInv, RateTypeOK
    <2> QED BY <2>1, <2>2, SetPeerGoesOn
  <1>2. ASSUME NoDestinationLeft
        PROVE  GoesOn
    BY <1>2, SetPeerGoesOn DEF NoDestinationLeft
  <1> QED BY <1>1, <1>2, OpenGoesOn, SendPacketGoesOn, CloseGoesOn DEF Network

PassType == [at : {"start", "line", "save", "ended"}, line : Nat, sum : Counters, found : BOOLEAN]
IntervalType == [retrans : 0 .. Word - 1, packets : 0 .. Word - 1]
RateType == [retrans : 0 .. Word - 1, packets : 0 .. Word - 1, count : 1 .. NUM_RATES_TO_USE]

(* The sums of the lines, as naturals. *)
LEMMA SumTypes ==
  ASSUME RateTypeInv
  PROVE  \A x \in 0 .. NumConnections :
           /\ SumUpTo(RetransTo(tcp4, aDest_Ip2_Binary), x) \in Nat
           /\ SumUpTo(FirstSendsTo(tcp4, aDest_Ip2_Binary), x) \in Nat
           /\ SumUpTo(PacketsOf(tcp4), x) \in Nat
           /\ SumFrom(PacketsOf(tcp4), x) \in Nat
           /\ SumFrom(PacketsOf(tcp4), x) <= SumUpTo(PacketsOf(tcp4), NumConnections)
           /\ SumFrom(PacketsOf(tcp4), 0) = SumUpTo(PacketsOf(tcp4), NumConnections)
  <1>1. SUFFICES ASSUME NEW x \in 0 .. NumConnections
                 PROVE  /\ SumUpTo(RetransTo(tcp4, aDest_Ip2_Binary), x) \in Nat
                        /\ SumUpTo(FirstSendsTo(tcp4, aDest_Ip2_Binary), x) \in Nat
                        /\ SumUpTo(PacketsOf(tcp4), x) \in Nat
                        /\ SumFrom(PacketsOf(tcp4), x) \in Nat
                        /\ SumFrom(PacketsOf(tcp4), x) <= SumUpTo(PacketsOf(tcp4), NumConnections)
                        /\ SumFrom(PacketsOf(tcp4), 0) = SumUpTo(PacketsOf(tcp4), NumConnections)
    OBVIOUS
  <1>2. \A y \in Lines : /\ RetransTo(tcp4, aDest_Ip2_Binary)[y] \in Nat
                         /\ FirstSendsTo(tcp4, aDest_Ip2_Binary)[y] \in Nat
                         /\ PacketsOf(tcp4)[y] \in Nat
    BY LineTypes DEF RateTypeInv, RateTypeOK, LineType, LinesAreConsistent
  <1>3. /\ SumUpTo(RetransTo(tcp4, aDest_Ip2_Binary), x) \in Nat
        /\ SumUpTo(FirstSendsTo(tcp4, aDest_Ip2_Binary), x) \in Nat
        /\ SumUpTo(PacketsOf(tcp4), x) \in Nat
    BY <1>2, SumFromIsMonotonic
  <1>4. NumConnections \in Nat /\ SumUpTo(PacketsOf(tcp4), NumConnections) \in Nat
        /\ SumUpTo(PacketsOf(tcp4), 0) = 0
    BY <1>2, SumFromIsMonotonic, SumEquations, ConnectionAssumption
  <1>5. SumUpTo(PacketsOf(tcp4), x) <= SumUpTo(PacketsOf(tcp4), NumConnections)
    <2> DEFINE z == [y \in Lines |-> 0]
    <2>1. \A y \in Lines : z[y] \in Nat /\ z[y] = 0 /\ PacketsOf(tcp4)[y] \in Nat /\ z[y] <= PacketsOf(tcp4)[y]
      BY <1>2
    <2> HIDE DEF z
    <2>2. SumFrom(z, x) <= SumFrom(PacketsOf(tcp4), x) /\ SumFrom(z, x) \in Int
      BY <2>1, SumFromIsMonotonic
    <2>3. 0 <= SumUpTo(z, NumConnections) - SumUpTo(z, x)
      <3>1. \A y \in 0 .. NumConnections - 1 : z[y] \in Nat /\ z[y] = 0
        BY <2>1 DEF Lines
      <3>2. \A k \in 0 .. NumConnections : SumUpTo(z, k) = 0
        BY <1>4, <3>1, SumOfZeros
      <3> QED BY <1>4, <3>2
    <2> QED BY <1>3, <1>4, <2>2, <2>3 DEF SumFrom
  <1> QED BY <1>3, <1>4, <1>5 DEF SumFrom

(* What ReadLine adds is what the line of the connection holds for the peer. *)
LEMMA ReadLineSums ==
  ASSUME RateTypeInv, ReadLine
  PROVE  \E x \in Lines :
    /\ pass.line = x + 1 /\ x \in 0 .. NumConnections /\ x + 1 \in 0 .. NumConnections
    /\ pass'.line - 1 = x + 1 /\ pass.line - 1 = x
    /\ pass' \in PassType
    /\ pass'.at = IF x + 1 = NumConnections THEN "save" ELSE "line"
    /\ pass'.line = x + 2
    /\ pass'.sum.retrans = pass.sum.retrans + RetransTo(tcp4, aDest_Ip2_Binary)[x]
    /\ FirstSends(pass'.sum) = FirstSends(pass.sum) + FirstSendsTo(tcp4, aDest_Ip2_Binary)[x]
    /\ pass'.sum.packets <= pass.sum.packets + PacketsOf(tcp4)[x]
    /\ pass'.sum.retrans <= pass'.sum.packets
    /\ RetransTo(tcp4, aDest_Ip2_Binary)[x] \in Nat
    /\ FirstSendsTo(tcp4, aDest_Ip2_Binary)[x] \in Nat
    /\ PacketsOf(tcp4)[x] \in Nat
    /\ \A f : SumUpTo(f, x + 1) = SumUpTo(f, x) + f[x]
    /\ UNCHANGED <<tcp4, aDest_Ip2_Binary, vIamASrcDtn, previous, ring, vRateCount,
                   fRateArrayDone, rate, events, totals, calm>>
  <1>1. pass.at = "line" /\ pass.line \in Connections
    BY DEF ReadLine, RateTypeInv, PassIsInLines
  <1>2. PICK x \in Lines : pass.line = x + 1
    <2>1. pass.line - 1 \in Lines /\ (pass.line - 1) + 1 = pass.line
      BY <1>1, ConnectionAssumption DEF Connections, Lines
    <2> QED BY <2>1
  <1>3. x \in Nat /\ x \in 0 .. NumConnections /\ x + 1 \in 0 .. NumConnections
        /\ (x + 2 \in Connections <=> x + 1 # NumConnections) /\ pass.line - 1 = x
        /\ pass.line + 1 = x + 2 /\ (x + 2) - 1 = x + 1
    BY <1>2, ConnectionAssumption DEF Lines, Connections
  <1>4. \A f : SumUpTo(f, x + 1) = SumUpTo(f, x) + f[x]
    BY <1>3, SumEquations
  <1>5. RetransTo(tcp4, aDest_Ip2_Binary)[x] \in Nat /\ FirstSendsTo(tcp4, aDest_Ip2_Binary)[x] \in Nat
        /\ PacketsOf(tcp4)[x] \in Nat
    BY LineTypes DEF RateTypeInv, RateTypeOK, LineType, LinesAreConsistent
  <1> DEFINE c == tcp4[x + 1]
             match == Matches(c, aDest_Ip2_Binary)
             sum == IF match THEN [retrans |-> pass.sum.retrans + c.retrans,
                                   packets |-> pass.sum.packets + c.packets]
                             ELSE pass.sum
             at == IF x + 1 = NumConnections THEN "save" ELSE "line"
  <1>6. /\ pass' = [at |-> at, line |-> x + 2, sum |-> sum, found |-> pass.found \/ match]
        /\ UNCHANGED <<tcp4, aDest_Ip2_Binary, vIamASrcDtn, previous, ring, vRateCount,
                       fRateArrayDone, rate, events, totals, calm>>
    BY <1>2, <1>3 DEF ReadLine, ringVars, Matches
  <1>7. /\ c.retrans \in Nat /\ c.packets \in Nat /\ c.retrans <= c.packets
        /\ pass.sum.retrans \in Nat /\ pass.sum.packets \in Nat
        /\ pass.sum \in Counters
        /\ pass.sum.retrans <= pass.sum.packets /\ pass.found \in BOOLEAN
    BY <1>1, <1>2 DEF RateTypeInv, RateTypeOK, LinesAreConsistent, PassIsInLines, Counters
  <1>8. /\ RetransTo(tcp4, aDest_Ip2_Binary)[x] = IF match THEN c.retrans ELSE 0
        /\ FirstSendsTo(tcp4, aDest_Ip2_Binary)[x] = IF match THEN c.packets - c.retrans ELSE 0
        /\ PacketsOf(tcp4)[x] = c.packets
    BY DEF RetransTo, FirstSendsTo, PacketsOf
  <1> HIDE DEF c, match
  <1>9. /\ sum \in Counters
        /\ sum.retrans = pass.sum.retrans + RetransTo(tcp4, aDest_Ip2_Binary)[x]
        /\ FirstSends(sum) = FirstSends(pass.sum) + FirstSendsTo(tcp4, aDest_Ip2_Binary)[x]
        /\ sum.packets <= pass.sum.packets + PacketsOf(tcp4)[x]
        /\ sum.retrans <= sum.packets
    <2>1. CASE match
      BY <2>1, <1>7, <1>8 DEF Counters, FirstSends
    <2>2. CASE ~ match
      BY <2>2, <1>7, <1>8 DEF Counters, FirstSends
    <2> QED BY <2>1, <2>2
  <1>10. match \in BOOLEAN /\ at \in {"save", "line"} /\ x + 2 \in Nat
    BY <1>3 DEF match, Matches
  <1> HIDE DEF sum, at
  <1>11. pass' \in PassType
    <2>1. pass.found \/ match \in BOOLEAN
      BY <1>7, <1>10, Zenon
    <2> QED BY <1>6, <1>9, <1>10, <2>1 DEF PassType
  <1>12. pass'.at = at /\ pass'.line = x + 2 /\ pass'.sum = sum
    BY <1>6
  <1>13. pass'.at = IF x + 1 = NumConnections THEN "save" ELSE "line"
    BY <1>12 DEF at
  <1> QED BY <1>2, <1>3, <1>4, <1>5, <1>6, <1>9, <1>11, <1>12, <1>13

(* The type invariant holds at the start. *)
LEMMA InitRateTypeInv == RateInit => RateTypeInv
  <1> SUFFICES ASSUME RateInit PROVE RateTypeInv
    OBVIOUS
  <1>0. NumConnections \in Nat /\ NUM_RATES_TO_USE \in Nat \ {0} /\ Word \in Nat /\ MaxEvents \in Nat
        /\ MaxEvents < Word /\ Junk \in 0 .. Word - 1
    BY ConnectionAssumption, RingAssumption, WordAssumption, BoundAssumption
  <1>1. RateTypeOK
    <2>1. tcp4 \in [Connections -> [peer : Peers \cup {Nobody}, retrans : Nat, packets : Nat]]
      BY DEF RateInit, NoLine
    <2>2. Zero \in Counters
      BY DEF Zero, Counters
    <2>3. pass \in [at : {"start", "line", "save", "ended"}, line : Nat, sum : Counters,
                    found : BOOLEAN]
      BY <2>2 DEF RateInit
    <2>4. ring \in [Slots -> [retrans : 0 .. Word - 1, packets : 0 .. Word - 1]]
      BY <1>0 DEF RateInit
    <2>5. rate \in [retrans : 0 .. Word - 1, packets : 0 .. Word - 1, count : 1 .. NUM_RATES_TO_USE]
      BY <1>0 DEF RateInit
    <2>6. totals \in Seq(Counters)
      BY <2>2 DEF RateInit
    <2>7. vRateCount \in 0 .. NUM_RATES_TO_USE /\ events \in 0 .. MaxEvents /\ calm \in 0 .. Calm
      BY <1>0 DEF RateInit, Calm
    <2>8. aDest_Ip2_Binary \in Peers \cup {Nobody} /\ vIamASrcDtn \in BOOLEAN
          /\ previous \in Counters /\ fRateArrayDone \in BOOLEAN
      BY <2>2, Zenon DEF RateInit
    <2> QED BY <2>1, <2>3, <2>4, <2>5, <2>6, <2>7, <2>8 DEF RateTypeOK
  <1>2. LinesAreConsistent
    BY DEF RateInit, LinesAreConsistent, NoLine
  <1>3. PassIsInLines
    BY DEF RateInit, PassIsInLines, Zero
  <1>4. CountersAreBounded
    <2>1. ~ Reading /\ events = 0
      BY DEF RateInit, Reading
    <2>2. \A x \in 0 .. NumConnections - 1 : PacketsOf(tcp4)[x] = 0
      BY <1>0 DEF RateInit, PacketsOf, Lines, Connections, NoLine
    <2>3. SumUpTo(PacketsOf(tcp4), NumConnections) = 0
      BY <1>0, <2>2, SumOfZeros
    <2> QED BY <2>1, <2>3 DEF CountersAreBounded
  <1> QED BY <1>1, <1>2, <1>3, <1>4 DEF RateTypeInv

(* The interval that is saved fits an unsigned long, whatever the pass was. *)
LEMMA IntervalFits ==
  ASSUME RateTypeInv, pass.at = "save"
  PROVE  /\ Interval(pass.sum) \in IntervalType
         /\ pass.sum.packets <= events /\ pass.sum.retrans <= events
  <1>0. NumConnections \in Nat /\ Word \in Nat /\ Word > 0 /\ MaxEvents \in Nat /\ MaxEvents < Word
    BY ConnectionAssumption, WordAssumption, BoundAssumption
  <1>1. /\ pass.sum.retrans \in Nat /\ pass.sum.packets \in Nat
        /\ previous.retrans \in Nat /\ previous.packets \in Nat
        /\ events \in 0 .. MaxEvents
        /\ pass.sum.retrans <= pass.sum.packets
        /\ pass.line = NumConnections + 1
    BY DEF RateTypeInv, RateTypeOK, Counters, PassIsInLines
  <1>2. pass.line - 1 \in 0 .. NumConnections
    BY <1>0, <1>1
  <1>3. SumFrom(PacketsOf(tcp4), pass.line - 1) \in Nat
    BY <1>2, SumTypes
  <1>4. pass.sum.packets + SumFrom(PacketsOf(tcp4), pass.line - 1) <= events
    BY DEF RateTypeInv, CountersAreBounded, Reading
  <1>5. pass.sum.packets <= events /\ pass.sum.retrans <= events
    BY <1>1, <1>3, <1>4
  <1>6. Minus(pass.sum.retrans, previous.retrans) \in 0 .. Word - 1
    BY <1>0, <1>1 DEF Minus
  <1>7. pass.sum.packets > previous.packets => pass.sum.packets - previous.packets \in 0 .. Word - 1
    BY <1>0, <1>1, <1>5
  <1> QED BY <1>0, <1>5, <1>6, <1>7 DEF Interval, IntervalType, Zero

(* Save fills a slot of the ring, and the window is not empty. *)
LEMMA SaveTypes ==
  ASSUME RateTypeInv, NEW i \in IntervalType, Save(i)
  PROVE  /\ ring' \in [Slots -> IntervalType]
         /\ vRateCount' \in 1 .. NUM_RATES_TO_USE
         /\ fRateArrayDone' \in BOOLEAN
         /\ Window(vRateCount', fRateArrayDone') \in 1 .. NUM_RATES_TO_USE
  <1>1. NUM_RATES_TO_USE \in Nat \ {0} /\ vRateCount \in 0 .. NUM_RATES_TO_USE
        /\ ring \in [Slots -> IntervalType] /\ fRateArrayDone \in BOOLEAN
    BY RingAssumption DEF RateTypeInv, RateTypeOK, IntervalType
  <1>2. CASE vRateCount < NUM_RATES_TO_USE
    <2>1. /\ ring' = [ring EXCEPT ![vRateCount] = i] /\ vRateCount' = vRateCount + 1
          /\ fRateArrayDone' = fRateArrayDone
      BY <1>2 DEF Save
    <2>2. ring' \in [Slots -> IntervalType] /\ vRateCount' \in 1 .. NUM_RATES_TO_USE
      BY <1>1, <1>2, <2>1 DEF Slots
    <2>3. fRateArrayDone' \in BOOLEAN
      BY <1>1, <2>1, Zenon
    <2> QED BY <1>1, <2>2, <2>3 DEF Window
  <1>3. CASE ~ (vRateCount < NUM_RATES_TO_USE)
    <2>1. ring' = [ring EXCEPT ![0] = i] /\ vRateCount' = 1 /\ fRateArrayDone' = TRUE
      BY <1>3 DEF Save
    <2>2. ring' \in [Slots -> IntervalType] /\ vRateCount' \in 1 .. NUM_RATES_TO_USE
      BY <1>1, <2>1 DEF Slots
    <2>3. fRateArrayDone' \in BOOLEAN
      BY <2>1, Zenon
    <2> QED BY <1>1, <2>2, <2>3 DEF Window
  <1> QED BY <1>2, <1>3

(* The average of a window is of unsigned longs. *)
LEMMA AverageTypes ==
  ASSUME NEW r \in [Slots -> IntervalType], NEW n \in 1 .. NUM_RATES_TO_USE
  PROVE  /\ \A x \in Slots : Retrans(r)[x] \in Nat /\ Packets(r)[x] \in Nat
         /\ SumUpTo(Retrans(r), n) \in Nat /\ SumUpTo(Packets(r), n) \in Nat
         /\ Average(r, n) \in RateType
  <1>1. NUM_RATES_TO_USE \in Nat \ {0} /\ Word \in Nat /\ Word > 0 /\ n \in Nat
    BY RingAssumption, WordAssumption, BoundAssumption
  <1>2. \A x \in Slots : Retrans(r)[x] \in Nat /\ Packets(r)[x] \in Nat
    BY <1>1 DEF Retrans, Packets, IntervalType
  <1>3. \A x \in 0 .. n - 1 : Retrans(r)[x] \in Nat /\ Packets(r)[x] \in Nat
    BY <1>1, <1>2 DEF Slots
  <1>4. SumUpTo(Retrans(r), n) \in Nat /\ SumUpTo(Packets(r), n) \in Nat
    BY <1>1, <1>3, SumIsNatural
  <1>5. SumUpTo(Retrans(r), n) % Word \in 0 .. Word - 1 /\ SumUpTo(Packets(r), n) % Word \in 0 .. Word - 1
    BY <1>1, <1>4
  <1> QED BY <1>2, <1>4, <1>5 DEF Average, RateType

(* The history stays one of counters. *)
LEMMA TotalsTypes ==
  ASSUME NEW T \in Seq(Counters), NEW a \in Counters, T # <<>>
  PROVE  Append(T, a) \in Seq(Counters) /\ Append(Tail(T), a) \in Seq(Counters)
  OBVIOUS

(* Every step preserves the type invariant. *)
LEMMA StepRateTypeInv == RateTypeInv /\ [RateNext]_rateVars => RateTypeInv'
  <1> SUFFICES ASSUME RateTypeInv, [RateNext]_rateVars PROVE RateTypeInv'
    OBVIOUS
  <1>0. NumConnections \in Nat \ {0} /\ NUM_RATES_TO_USE \in Nat \ {0}
    BY ConnectionAssumption, RingAssumption
  <1>t. /\ tcp4 \in [Connections -> LineType]
        /\ aDest_Ip2_Binary \in Peers \cup {Nobody}
        /\ vIamASrcDtn \in BOOLEAN
        /\ pass \in PassType
        /\ previous \in Counters
        /\ ring \in [Slots -> IntervalType]
        /\ vRateCount \in 0 .. NUM_RATES_TO_USE
        /\ fRateArrayDone \in BOOLEAN
        /\ rate \in RateType
        /\ events \in 0 .. MaxEvents
        /\ totals \in Seq(Counters)
        /\ calm \in 0 .. Calm
    BY DEF RateTypeInv, RateTypeOK, LineType, PassType, IntervalType, RateType
  <1>b. /\ SumUpTo(PacketsOf(tcp4), NumConnections) <= events
        /\ Reading => pass.sum.packets + SumFrom(PacketsOf(tcp4), pass.line - 1) <= events
    BY DEF RateTypeInv, CountersAreBounded
  <1>z. Zero \in Counters /\ Zero.retrans = 0 /\ Zero.packets = 0
    BY DEF Zero, Counters
  <1>1. ASSUME GoesOn PROVE RateTypeInv'
    <2>1. RateTypeOK'
      <3>1. /\ tcp4' \in [Connections -> LineType]
            /\ aDest_Ip2_Binary' \in Peers \cup {Nobody}
            /\ vIamASrcDtn' \in BOOLEAN
            /\ events' \in 0 .. MaxEvents
            /\ UNCHANGED <<pass, previous, ring, vRateCount, fRateArrayDone, rate, totals>>
        BY <1>1 DEF GoesOn
      <3>2. calm' \in 0 .. Calm
        BY <1>0, <1>1, <1>t DEF GoesOn, Calm
      <3> QED BY <1>t, <3>1, <3>2 DEF RateTypeOK, LineType, PassType, IntervalType, RateType, Calm
    <2>2. PassIsInLines'
      BY <1>1 DEF GoesOn, PassIsInLines, RateTypeInv
    <2>3. CountersAreBounded'
      <3>1. \A x \in 0 .. NumConnections : SumFrom(PacketsOf(tcp4'), x) <= SumFrom(PacketsOf(tcp4), x) + 1
        BY <1>1 DEF GoesOn
      <3>2. events' = events + 1 /\ pass' = pass /\ LinesAreConsistent'
        BY <1>1 DEF GoesOn
      <3>3. SumUpTo(PacketsOf(tcp4'), NumConnections) \in Nat
        <4>1. \A y \in Lines : PacketsOf(tcp4')[y] \in Nat
          BY <1>1, <3>2, LineTypes DEF GoesOn, LinesAreConsistent
        <4> QED BY <1>0, <4>1, SumFromIsMonotonic
      <3>4. SumFrom(PacketsOf(tcp4'), 0) = SumUpTo(PacketsOf(tcp4'), NumConnections)
        BY <3>3, SumEquations DEF SumFrom
      <3>5. SumFrom(PacketsOf(tcp4), 0) = SumUpTo(PacketsOf(tcp4), NumConnections)
            /\ SumUpTo(PacketsOf(tcp4), NumConnections) \in Nat
        BY <1>0, SumTypes
      <3>6. SumUpTo(PacketsOf(tcp4'), NumConnections) <= events'
        BY <1>0, <1>b, <1>t, <3>1, <3>2, <3>3, <3>4, <3>5
      <3>7. ASSUME Reading
            PROVE  pass.sum.packets + SumFrom(PacketsOf(tcp4'), pass.line - 1) <= events'
        <4>1. pass.line - 1 \in 0 .. NumConnections
          BY <1>0, <3>7 DEF Reading, RateTypeInv, PassIsInLines, Connections
        <4>2. SumFrom(PacketsOf(tcp4), pass.line - 1) \in Nat /\ pass.sum.packets \in Nat
          BY <1>t, <4>1, SumTypes DEF PassType, Counters
        <4>3. SumFrom(PacketsOf(tcp4'), pass.line - 1) \in Int
          <5>1. \A y \in Lines : PacketsOf(tcp4')[y] \in Nat
            BY <1>1, <3>2, LineTypes DEF GoesOn, LinesAreConsistent
          <5> QED BY <4>1, <5>1, SumFromIsMonotonic
        <4> QED BY <1>b, <1>t, <3>1, <3>2, <3>7, <4>1, <4>2, <4>3
      <3> QED BY <3>2, <3>6, <3>7 DEF CountersAreBounded, Reading
    <2> QED BY <1>1, <2>1, <2>2, <2>3 DEF RateTypeInv, GoesOn
  <1>2. ASSUME StartPass PROVE RateTypeInv'
    <2>1. /\ pass' = [at |-> "line", line |-> 1, sum |-> Zero, found |-> FALSE]
          /\ UNCHANGED <<tcp4, aDest_Ip2_Binary, vIamASrcDtn, previous, ring, vRateCount,
                         fRateArrayDone, rate, events, totals, calm>>
      BY <1>2 DEF StartPass, ringVars
    <2>2. pass' \in PassType /\ pass'.line - 1 = 0
      BY <1>z, <2>1 DEF PassType
    <2>3. RateTypeOK'
      BY <1>t, <2>1, <2>2 DEF RateTypeOK, LineType, PassType, IntervalType, RateType, Calm
    <2>4. PassIsInLines'
      BY <1>0, <1>z, <2>1 DEF PassIsInLines, Connections
    <2>5. SumFrom(PacketsOf(tcp4), 0) = SumUpTo(PacketsOf(tcp4), NumConnections)
          /\ SumUpTo(PacketsOf(tcp4), NumConnections) \in Nat
      BY <1>0, SumTypes
    <2>6. CountersAreBounded'
      BY <1>b, <1>t, <1>z, <2>1, <2>2, <2>5 DEF CountersAreBounded
    <2> QED BY <2>1, <2>3, <2>4, <2>6 DEF RateTypeInv, LinesAreConsistent
  <1>3. ASSUME GiveUp PROVE RateTypeInv'
    <2>1. /\ pass' = [pass EXCEPT !.at = "ended"]
          /\ UNCHANGED <<tcp4, aDest_Ip2_Binary, vIamASrcDtn, previous, ring, vRateCount,
                         fRateArrayDone, rate, events, totals, calm>>
      BY <1>3 DEF GiveUp, ringVars
    <2>2. pass' \in PassType /\ pass'.at = "ended" /\ pass'.sum = pass.sum
      BY <1>t, <2>1 DEF PassType
    <2>3. RateTypeOK'
      BY <1>t, <2>1, <2>2 DEF RateTypeOK, LineType, PassType, IntervalType, RateType, Calm
    <2>4. PassIsInLines' /\ CountersAreBounded'
      BY <1>b, <2>1, <2>2 DEF PassIsInLines, CountersAreBounded, Reading, RateTypeInv
    <2> QED BY <2>1, <2>3, <2>4 DEF RateTypeInv, LinesAreConsistent
  <1>4. ASSUME ReadLine PROVE RateTypeInv'
    <2>1. PICK x \in Lines :
      /\ pass.line = x + 1 /\ x \in 0 .. NumConnections /\ x + 1 \in 0 .. NumConnections
      /\ pass'.line - 1 = x + 1 /\ pass.line - 1 = x
      /\ pass' \in PassType
      /\ pass'.at = IF x + 1 = NumConnections THEN "save" ELSE "line"
      /\ pass'.line = x + 2
      /\ pass'.sum.packets <= pass.sum.packets + PacketsOf(tcp4)[x]
      /\ pass'.sum.retrans <= pass'.sum.packets
      /\ PacketsOf(tcp4)[x] \in Nat
      /\ \A f : SumUpTo(f, x + 1) = SumUpTo(f, x) + f[x]
      /\ UNCHANGED <<tcp4, aDest_Ip2_Binary, vIamASrcDtn, previous, ring, vRateCount,
                     fRateArrayDone, rate, events, totals, calm>>
      BY <1>4, ReadLineSums
    <2>2. RateTypeOK'
      BY <1>t, <2>1 DEF RateTypeOK, LineType, PassType, IntervalType, RateType, Calm
    <2>3. PassIsInLines'
      BY <1>0, <2>1 DEF PassIsInLines, Connections, Lines
    <2>4. Reading
      BY <1>4 DEF ReadLine, Reading
    <2>5. SumFrom(PacketsOf(tcp4), x + 1) = SumFrom(PacketsOf(tcp4), x) - PacketsOf(tcp4)[x]
      <3>1. /\ SumUpTo(PacketsOf(tcp4), x) \in Nat /\ SumUpTo(PacketsOf(tcp4), NumConnections) \in Nat
        BY <1>0, <2>1, SumTypes
      <3>2. SumUpTo(PacketsOf(tcp4), x + 1) = SumUpTo(PacketsOf(tcp4), x) + PacketsOf(tcp4)[x]
        BY <2>1
      <3> QED BY <2>1, <3>1, <3>2 DEF SumFrom
    <2>6. SumFrom(PacketsOf(tcp4), x) \in Nat /\ pass.sum.packets \in Nat /\ pass'.sum.packets \in Nat
      BY <1>t, <2>1, SumTypes DEF PassType, Counters
    <2>7. pass'.sum.packets + SumFrom(PacketsOf(tcp4), x + 1) <= events
      <3>1. pass.sum.packets + SumFrom(PacketsOf(tcp4), x) <= events
        BY <1>b, <2>1, <2>4
      <3>2. PacketsOf(tcp4)[x] \in Nat /\ pass'.sum.packets <= pass.sum.packets + PacketsOf(tcp4)[x]
            /\ events \in Nat
        BY <1>t, <2>1
      <3> QED BY <2>5, <2>6, <3>1, <3>2
    <2>8. CountersAreBounded'
      BY <1>b, <2>1, <2>7 DEF CountersAreBounded
    <2> QED BY <2>1, <2>2, <2>3, <2>8 DEF RateTypeInv, LinesAreConsistent
  <1>5. ASSUME FinishUp PROVE RateTypeInv'
    <2>1. pass.at = "save" /\ pass' = [pass EXCEPT !.at = "start"]
          /\ UNCHANGED <<tcp4, aDest_Ip2_Binary, vIamASrcDtn, events>>
          /\ previous' = pass.sum
          /\ Save(Interval(pass.sum))
          /\ rate' = Average(ring', Window(vRateCount', fRateArrayDone'))
      BY <1>5 DEF FinishUp
    <2>2. pass' \in PassType /\ pass'.at = "start" /\ pass'.sum = pass.sum /\ previous' \in Counters
      BY <1>t, <2>1 DEF PassType
    <2>3. /\ ring' \in [Slots -> IntervalType]
          /\ vRateCount' \in 1 .. NUM_RATES_TO_USE
          /\ fRateArrayDone' \in BOOLEAN
          /\ Window(vRateCount', fRateArrayDone') \in 1 .. NUM_RATES_TO_USE
      BY <2>1, IntervalFits, SaveTypes
    <2>4. rate' \in RateType
      BY <2>1, <2>3, AverageTypes
    <2>5. totals' \in Seq(Counters)
      <3>1. pass.sum \in Counters /\ Append(totals, pass.sum) \in Seq(Counters)
        BY <1>t DEF PassType
      <3>2. CASE Len(totals) > NUM_RATES_TO_USE
        <4>1. totals # <<>>
          BY <1>0, <1>t, <3>2
        <4> QED BY <1>5, <1>t, <3>1, <3>2, <4>1 DEF FinishUp
      <3>3. CASE ~ (Len(totals) > NUM_RATES_TO_USE)
        BY <1>5, <3>1, <3>3 DEF FinishUp
      <3> QED BY <3>2, <3>3
    <2>6. calm' \in 0 .. Calm
      BY <1>0, <1>5, <1>t DEF FinishUp, Calm
    <2>7. vRateCount' \in 0 .. NUM_RATES_TO_USE
      BY <1>0, <2>3
    <2>8. RateTypeOK'
      BY <1>t, <2>1, <2>2, <2>3, <2>4, <2>5, <2>6, <2>7
      DEF RateTypeOK, LineType, PassType, IntervalType, RateType, Calm
    <2>9. PassIsInLines' /\ CountersAreBounded'
      BY <1>b, <2>1, <2>2 DEF PassIsInLines, CountersAreBounded, Reading, RateTypeInv
    <2> QED BY <2>1, <2>8, <2>9 DEF RateTypeInv, LinesAreConsistent
  <1>6. ASSUME NoRelevantPackets PROVE RateTypeInv'
    <2>1. pass.at = "save" /\ pass' = [pass EXCEPT !.at = "start"]
          /\ UNCHANGED <<tcp4, aDest_Ip2_Binary, vIamASrcDtn, ring, rate, events>>
          /\ previous' = Zero /\ vRateCount' = 0 /\ fRateArrayDone' = FALSE
          /\ totals' = <<Zero>> /\ calm' = Calm
      BY <1>6 DEF NoRelevantPackets
    <2>2. pass' \in PassType /\ pass'.at = "start" /\ pass'.sum = pass.sum /\ previous' \in Counters
      BY <1>t, <1>z, <2>1 DEF PassType
    <2>3. totals' \in Seq(Counters) /\ calm' \in 0 .. Calm /\ vRateCount' \in 0 .. NUM_RATES_TO_USE
      BY <1>0, <1>z, <2>1 DEF Calm
    <2>4. RateTypeOK'
      BY <1>t, <2>1, <2>2, <2>3 DEF RateTypeOK, LineType, PassType, IntervalType, RateType, Calm
    <2>5. PassIsInLines' /\ CountersAreBounded'
      BY <1>b, <2>1, <2>2 DEF PassIsInLines, CountersAreBounded, Reading, RateTypeInv
    <2> QED BY <2>1, <2>4, <2>5 DEF RateTypeInv, LinesAreConsistent
  <1>7. ASSUME UNCHANGED rateVars PROVE RateTypeInv'
    <2>1. UNCHANGED <<tcp4, aDest_Ip2_Binary, vIamASrcDtn, pass, previous, ring, vRateCount,
                      fRateArrayDone, rate, events, totals, calm>>
      BY <1>7 DEF rateVars, ringVars
    <2>2. RateTypeOK'
      BY <1>t, <2>1 DEF RateTypeOK, LineType, PassType, IntervalType, RateType, Calm
    <2> QED BY <1>b, <2>1, <2>2 DEF RateTypeInv, LinesAreConsistent, PassIsInLines, CountersAreBounded, Reading
  <1> QED BY <1>1, <1>2, <1>3, <1>4, <1>5, <1>6, <1>7, NetworkGoesOn DEF RateNext, Run

(* The state of doRunFindRetransmissionRate has its types: the intervals   *)
(* and their sums fit an unsigned long, and the count stays in the arrays, *)
(* whatever the connections do in the middle of a pass.                    *)
THEOREM RateTypeCorrect == RateSpec => []RateTypeOK
  <1>1. RateTypeInv => RateTypeOK
    BY DEF RateTypeInv
  <1> QED BY InitRateTypeInv, StepRateTypeInv, <1>1, PTL DEF RateSpec

-----------------------------------------------------------------------------
(* RetransRate: the rate. *)

(* The inductive invariant of RateIsGrowth. *)
RateInv ==
  /\ RateTypeInv
  /\ PreviousIsBehind
  /\ PassIsBehind
  /\ WindowIsTotals
  /\ RingIsDifferences
  /\ RateIsGrowth

(* While the lines only grow, what was behind stays behind. *)
LEMMA NetworkKeepsBehind ==
  ASSUME RateTypeInv, GoesOn
  PROVE  /\ PreviousIsBehind => PreviousIsBehind'
         /\ PassIsBehind => PassIsBehind'
  <1> DEFINE r  == RetransTo(tcp4, aDest_Ip2_Binary)
             r2 == RetransTo(tcp4', aDest_Ip2_Binary')
             f  == FirstSendsTo(tcp4, aDest_Ip2_Binary)
             f2 == FirstSendsTo(tcp4', aDest_Ip2_Binary')
  <1>1. /\ pass' = pass /\ previous' = previous /\ LinesAreConsistent' /\ calm \in Nat
        /\ calm' # 0 => calm' = calm
        /\ tcp4 \in [Connections -> LineType] /\ tcp4' \in [Connections -> LineType]
    BY RingAssumption DEF GoesOn, RateTypeInv, RateTypeOK, LineType, Calm
  <1>2. \A x \in Lines : r[x] \in Nat /\ f[x] \in Nat /\ r2[x] \in Nat /\ f2[x] \in Nat
    BY <1>1, LineTypes DEF RateTypeInv, LinesAreConsistent
  <1>3. calm' # 0 => \A x \in Lines : r[x] <= r2[x] /\ f[x] <= f2[x]
    BY DEF GoesOn
  <1>c. /\ previous.retrans \in Nat /\ previous.packets \in Nat
        /\ pass.sum.retrans \in Nat /\ pass.sum.packets \in Nat
        /\ FirstSends(previous) \in Int /\ FirstSends(pass.sum) \in Int
    BY DEF RateTypeInv, RateTypeOK, Counters, FirstSends
  <1>l. NumConnections \in 0 .. NumConnections
        /\ (Reading => pass.line - 1 \in 0 .. NumConnections)
    BY ConnectionAssumption DEF RateTypeInv, PassIsInLines, Reading, Connections
  <1> HIDE DEF r, r2, f, f2
  <1>4. ASSUME calm' # 0, NEW x \in 0 .. NumConnections
        PROVE  /\ SumFrom(r, x) \in Int /\ SumFrom(r2, x) \in Int /\ SumFrom(r, x) <= SumFrom(r2, x)
               /\ SumUpTo(r, x) \in Nat /\ SumUpTo(r2, x) \in Nat /\ SumUpTo(r, x) <= SumUpTo(r2, x)
               /\ SumFrom(f, x) \in Int /\ SumFrom(f2, x) \in Int /\ SumFrom(f, x) <= SumFrom(f2, x)
               /\ SumUpTo(f, x) \in Nat /\ SumUpTo(f2, x) \in Nat /\ SumUpTo(f, x) <= SumUpTo(f2, x)
    BY <1>2, <1>3, <1>4, SumFromIsMonotonic
  <1>5. ASSUME PreviousIsBehind, calm' >= 2
        PROVE  /\ Behind(r2, previous.retrans, pass.sum.retrans)
               /\ Behind(f2, FirstSends(previous), FirstSends(pass.sum))
    <2>1. calm' # 0 /\ calm >= 2
      BY <1>1, <1>5
    <2>2. Behind(r, previous.retrans, pass.sum.retrans) /\ Behind(f, FirstSends(previous), FirstSends(pass.sum))
      BY <1>5, <2>1 DEF PreviousIsBehind, r, f
    <2>3. CASE Reading
      <3> DEFINE x == pass.line - 1
      <3>1. x \in 0 .. NumConnections
        BY <1>l, <2>3
      <3>2. previous.retrans <= pass.sum.retrans + SumFrom(r, x) /\ FirstSends(previous) <= FirstSends(pass.sum) + SumFrom(f, x)
        BY <2>2, <2>3 DEF Behind
      <3> HIDE DEF x
      <3>3. previous.retrans <= pass.sum.retrans + SumFrom(r2, x) /\ FirstSends(previous) <= FirstSends(pass.sum) + SumFrom(f2, x)
        BY <1>4, <1>c, <2>1, <3>1, <3>2
      <3> QED BY <2>3, <3>3 DEF Behind, x
    <2>4. CASE ~ Reading
      BY <1>4, <1>c, <1>l, <2>1, <2>2, <2>4 DEF Behind
    <2> QED BY <2>3, <2>4
  <1>6. ASSUME PassIsBehind, calm' >= 1, Reading
        PROVE  /\ pass.sum.retrans <= SumUpTo(r2, pass.line - 1)
               /\ FirstSends(pass.sum) <= SumUpTo(f2, pass.line - 1)
    <2>1. calm' # 0 /\ calm >= 1
      BY <1>1, <1>6
    <2> DEFINE x == pass.line - 1
    <2>2. x \in 0 .. NumConnections
      BY <1>l, <1>6
    <2>3. pass.sum.retrans <= SumUpTo(r, x) /\ FirstSends(pass.sum) <= SumUpTo(f, x)
      BY <1>6, <2>1 DEF PassIsBehind, r, f
    <2> HIDE DEF x
    <2>4. pass.sum.retrans <= SumUpTo(r2, x) /\ FirstSends(pass.sum) <= SumUpTo(f2, x)
      BY <1>4, <1>c, <2>1, <2>2, <2>3
    <2> QED BY <2>4 DEF x
  <1>7. PreviousIsBehind => PreviousIsBehind'
    BY <1>1, <1>5 DEF PreviousIsBehind, Behind, Reading, FirstSends, r2, f2
  <1>8. PassIsBehind => PassIsBehind'
    BY <1>1, <1>6 DEF PassIsBehind, Reading, FirstSends, r2, f2
  <1> QED BY <1>7, <1>8

(* A line that is read passes from what is to come to what was added. *)
LEMMA ReadLineKeepsBehind ==
  ASSUME RateTypeInv, ReadLine
  PROVE  /\ PreviousIsBehind => PreviousIsBehind'
         /\ PassIsBehind => PassIsBehind'
  <1> DEFINE r == RetransTo(tcp4, aDest_Ip2_Binary)
             f == FirstSendsTo(tcp4, aDest_Ip2_Binary)
  <1>1. PICK x \in Lines :
    /\ pass.line = x + 1 /\ x \in 0 .. NumConnections /\ x + 1 \in 0 .. NumConnections
    /\ pass'.line - 1 = x + 1 /\ pass.line - 1 = x
    /\ pass' \in PassType
    /\ pass'.at = IF x + 1 = NumConnections THEN "save" ELSE "line"
    /\ pass'.sum.retrans = pass.sum.retrans + r[x]
    /\ FirstSends(pass'.sum) = FirstSends(pass.sum) + f[x]
    /\ r[x] \in Nat /\ f[x] \in Nat
    /\ \A g : SumUpTo(g, x + 1) = SumUpTo(g, x) + g[x]
    /\ UNCHANGED <<tcp4, aDest_Ip2_Binary, previous, calm>>
    BY ReadLineSums
  <1>2. NumConnections \in 0 .. NumConnections
    BY ConnectionAssumption
  <1>3. /\ SumUpTo(r, x) \in Nat /\ SumUpTo(f, x) \in Nat
        /\ SumUpTo(r, NumConnections) \in Nat /\ SumUpTo(f, NumConnections) \in Nat
    BY <1>1, <1>2, SumTypes
  <1>4. SumUpTo(r, x + 1) = SumUpTo(r, x) + r[x] /\ SumUpTo(f, x + 1) = SumUpTo(f, x) + f[x]
    BY <1>1
  <1>c. /\ previous.retrans \in Nat /\ pass.sum.retrans \in Nat
        /\ FirstSends(previous) \in Int /\ FirstSends(pass.sum) \in Int
    BY DEF RateTypeInv, RateTypeOK, Counters, FirstSends
  <1>5. Reading /\ Reading'
    BY <1>1 DEF ReadLine, Reading
  <1>6. /\ RetransTo(tcp4, aDest_Ip2_Binary)' = r /\ FirstSendsTo(tcp4, aDest_Ip2_Binary)' = f
    BY <1>1 DEF RetransTo, FirstSendsTo, Matches
  <1> HIDE DEF r, f
  <1>7. ASSUME PreviousIsBehind, calm >= 2
        PROVE  /\ previous.retrans <= pass'.sum.retrans + SumFrom(r, x + 1)
               /\ FirstSends(previous) <= FirstSends(pass'.sum) + SumFrom(f, x + 1)
    <2>1. /\ previous.retrans <= pass.sum.retrans + SumFrom(r, x)
          /\ FirstSends(previous) <= FirstSends(pass.sum) + SumFrom(f, x)
      BY <1>1, <1>5, <1>7 DEF PreviousIsBehind, Behind, r, f
    <2>2. SumFrom(r, x + 1) = SumFrom(r, x) - r[x] /\ SumFrom(f, x + 1) = SumFrom(f, x) - f[x]
          /\ SumFrom(r, x) \in Int /\ SumFrom(f, x) \in Int
      BY <1>1, <1>3, <1>4 DEF SumFrom
    <2> QED BY <1>1, <1>c, <2>1, <2>2
  <1>8. ASSUME PassIsBehind, calm >= 1
        PROVE  /\ pass'.sum.retrans <= SumUpTo(r, x + 1)
               /\ FirstSends(pass'.sum) <= SumUpTo(f, x + 1)
    <2>1. pass.sum.retrans <= SumUpTo(r, x) /\ FirstSends(pass.sum) <= SumUpTo(f, x)
      BY <1>1, <1>5, <1>8 DEF PassIsBehind, r, f
    <2> QED BY <1>1, <1>3, <1>4, <1>c, <2>1
  <1>9. PreviousIsBehind => PreviousIsBehind'
    BY <1>1, <1>5, <1>6, <1>7 DEF PreviousIsBehind, Behind, FirstSends
  <1>10. PassIsBehind => PassIsBehind'
    BY <1>1, <1>5, <1>6, <1>8 DEF PassIsBehind, FirstSends
  <1> QED BY <1>9, <1>10

(* A new pass has everything still to come. *)
LEMMA StartPassKeepsBehind ==
  ASSUME RateTypeInv, StartPass
  PROVE  /\ PreviousIsBehind => PreviousIsBehind'
         /\ PassIsBehind'
  <1> DEFINE r == RetransTo(tcp4, aDest_Ip2_Binary)
             f == FirstSendsTo(tcp4, aDest_Ip2_Binary)
  <1>1. /\ ~ Reading /\ Reading' /\ pass'.line - 1 = 0 /\ pass'.sum = Zero
        /\ UNCHANGED <<tcp4, aDest_Ip2_Binary, previous, calm>>
    BY DEF StartPass, Reading, ringVars
  <1>2. NumConnections \in 0 .. NumConnections
    BY ConnectionAssumption
  <1>3. /\ SumUpTo(r, NumConnections) \in Nat /\ SumUpTo(f, NumConnections) \in Nat
        /\ SumUpTo(r, 0) = 0 /\ SumUpTo(f, 0) = 0
    BY <1>2, SumTypes, SumEquations
  <1>4. Zero.retrans = 0 /\ FirstSends(Zero) = 0
    BY DEF Zero, FirstSends
  <1>5. /\ RetransTo(tcp4, aDest_Ip2_Binary)' = r /\ FirstSendsTo(tcp4, aDest_Ip2_Binary)' = f
    BY <1>1 DEF RetransTo, FirstSendsTo, Matches
  <1>c. previous.retrans \in Nat /\ FirstSends(previous) \in Int
    BY DEF RateTypeInv, RateTypeOK, Counters, FirstSends
  <1> HIDE DEF r, f
  <1>6. SumFrom(r, 0) = SumUpTo(r, NumConnections) /\ SumFrom(f, 0) = SumUpTo(f, NumConnections)
    BY <1>3 DEF SumFrom
  <1>7. PreviousIsBehind => PreviousIsBehind'
    <2>1. ASSUME PreviousIsBehind, calm >= 2
          PROVE  previous.retrans <= 0 + SumFrom(r, 0) /\ FirstSends(previous) <= 0 + SumFrom(f, 0)
      <3>1. previous.retrans <= SumUpTo(r, NumConnections) /\ FirstSends(previous) <= SumUpTo(f, NumConnections)
        BY <1>1, <2>1 DEF PreviousIsBehind, Behind, r, f
      <3> QED BY <1>3, <1>6, <3>1
    <2> QED BY <1>1, <1>4, <1>5, <2>1 DEF PreviousIsBehind, Behind, FirstSends
  <1>8. PassIsBehind'
    BY <1>1, <1>3, <1>4, <1>5 DEF PassIsBehind, FirstSends
  <1> QED BY <1>7, <1>8

(* A pass that ended undisturbed is behind the lines, and the one before   *)
(* behind it: the unsigned difference does not wrap.                       *)
LEMMA CleanInterval ==
  ASSUME RateInv, pass.at = "save", calm >= 2
  PROVE  /\ Interval(pass.sum).retrans = pass.sum.retrans - previous.retrans
         /\ Interval(pass.sum).packets = pass.sum.packets - previous.packets
  <1> DEFINE r == RetransTo(tcp4, aDest_Ip2_Binary)
             f == FirstSendsTo(tcp4, aDest_Ip2_Binary)
  <1>0. Word \in Nat /\ Word > 0 /\ MaxEvents \in Nat /\ MaxEvents < Word
        /\ NumConnections \in 0 .. NumConnections
    BY WordAssumption, BoundAssumption, ConnectionAssumption
  <1>1. pass.line - 1 = NumConnections /\ Reading
    BY ConnectionAssumption DEF RateInv, RateTypeInv, PassIsInLines, Reading
  <1>2. SumFrom(r, NumConnections) = 0 /\ SumFrom(f, NumConnections) = 0
    <2>1. SumUpTo(r, NumConnections) \in Nat /\ SumUpTo(f, NumConnections) \in Nat
      BY <1>0, SumTypes DEF RateInv
    <2> QED BY <2>1 DEF SumFrom
  <1>3. /\ previous.retrans <= pass.sum.retrans + SumFrom(r, NumConnections)
        /\ FirstSends(previous) <= FirstSends(pass.sum) + SumFrom(f, NumConnections)
    BY <1>1 DEF RateInv, PreviousIsBehind, Behind
  <1>c. /\ previous.retrans \in Nat /\ previous.packets \in Nat
        /\ pass.sum.retrans \in Nat /\ pass.sum.packets \in Nat
    BY DEF RateInv, RateTypeInv, RateTypeOK, Counters
  <1> HIDE DEF r, f
  <1>4. previous.retrans <= pass.sum.retrans
    BY <1>2, <1>3, <1>c
  <1>5. previous.packets - previous.retrans <= pass.sum.packets - pass.sum.retrans
    BY <1>2, <1>3, <1>c DEF FirstSends
  <1>6. pass.sum.retrans <= events /\ events \in 0 .. MaxEvents
    BY IntervalFits DEF RateInv, RateTypeInv, RateTypeOK
  <1>7. Minus(pass.sum.retrans, previous.retrans) = pass.sum.retrans - previous.retrans
    <2>1. PICK d \in Nat : d = pass.sum.retrans - previous.retrans
      BY <1>4, <1>c
    <2>2. d \in 0 .. Word - 1 /\ Word + pass.sum.retrans - previous.retrans = Word + d
      BY <1>0, <1>6, <1>c, <2>1
    <2>3. (Word + d) % Word = d
      BY <1>0, <2>2
    <2> QED BY <2>1, <2>2, <2>3 DEF Minus
  <1>8. CASE pass.sum.packets > previous.packets
    BY <1>7, <1>8 DEF Interval
  <1>9. CASE ~ (pass.sum.packets > previous.packets)
    <2>1. pass.sum.packets = previous.packets /\ pass.sum.retrans = previous.retrans
      BY <1>4, <1>5, <1>9, <1>c
    <2> QED BY <1>9, <1>c, <2>1 DEF Interval, Zero
  <1> QED BY <1>8, <1>9

(* A pass that ends becomes the previous one. *)
LEMMA FinishUpKeepsBehind ==
  ASSUME RateInv, FinishUp \/ NoRelevantPackets
  PROVE  PreviousIsBehind' /\ PassIsBehind'
  <1> DEFINE r == RetransTo(tcp4, aDest_Ip2_Binary)
             f == FirstSendsTo(tcp4, aDest_Ip2_Binary)
  <1>0. NumConnections \in 0 .. NumConnections
    BY ConnectionAssumption
  <1>1. /\ pass.at = "save" /\ pass' = [pass EXCEPT !.at = "start"]
        /\ UNCHANGED <<tcp4, aDest_Ip2_Binary>>
    BY DEF FinishUp, NoRelevantPackets
  <1>2. ~ Reading' /\ Reading
    BY <1>1 DEF Reading, RateInv, RateTypeInv, RateTypeOK
  <1>3. pass.line - 1 = NumConnections
    BY <1>1, ConnectionAssumption DEF RateInv, RateTypeInv, PassIsInLines
  <1>4. SumUpTo(r, NumConnections) \in Nat /\ SumUpTo(f, NumConnections) \in Nat
    BY <1>0, SumTypes DEF RateInv
  <1>5. /\ RetransTo(tcp4, aDest_Ip2_Binary)' = r /\ FirstSendsTo(tcp4, aDest_Ip2_Binary)' = f
    BY <1>1 DEF RetransTo, FirstSendsTo, Matches
  <1>6. calm' >= 2 => /\ previous'.retrans <= SumUpTo(r, NumConnections)
                      /\ FirstSends(previous') <= SumUpTo(f, NumConnections)
    <2>1. CASE FinishUp
      <3>1. SUFFICES ASSUME calm' >= 2
                     PROVE  /\ previous'.retrans <= SumUpTo(r, NumConnections)
                            /\ FirstSends(previous') <= SumUpTo(f, NumConnections)
        OBVIOUS
      <3>2. calm >= 1 /\ previous' = pass.sum
        BY <2>1, <3>1, RingAssumption DEF FinishUp, RateInv, RateTypeInv, RateTypeOK, Calm
      <3> QED BY <1>2, <1>3, <3>2 DEF RateInv, PassIsBehind
    <2>2. CASE NoRelevantPackets
      BY <2>2, <1>4 DEF NoRelevantPackets, Zero, FirstSends
    <2> QED BY <2>1, <2>2
  <1> HIDE DEF r, f
  <1>7. PreviousIsBehind'
    BY <1>2, <1>5, <1>6 DEF PreviousIsBehind, Behind, FirstSends
  <1>8. PassIsBehind'
    BY <1>2 DEF PassIsBehind
  <1> QED BY <1>7, <1>8

(* A ring of n intervals holds the differences of consecutive totals. *)
HoldsDifferences(f, T, p, n) ==
  /\ n = NUM_RATES_TO_USE \/ n = p
  /\ \A x \in Slots : f[x] \in Nat
  /\ \A i \in 1 .. n + 1 : T[i] \in Int
  /\ \A j \in 0 .. n - 1 : f[Slot(p, j)] = T[n - j + 1] - T[n - j]

(* The sum over a ring whose slots hold the differences of consecutive     *)
(* totals: the slots up to the newest are one part, those after it another. *)
LEMMA SumOverRing ==
  ASSUME NEW f, NEW T, NEW p \in 1 .. NUM_RATES_TO_USE, NEW n \in 1 .. NUM_RATES_TO_USE,
         HoldsDifferences(f, T, p, n)
  PROVE  SumUpTo(f, n) = T[n + 1] - T[1]
  <1>0. NUM_RATES_TO_USE \in Nat \ {0} /\ n \in Nat /\ p \in Nat /\ p \in 1 .. n
        /\ NUM_RATES_TO_USE \in Nat /\ (n = NUM_RATES_TO_USE \/ n = p)
    BY RingAssumption DEF HoldsDifferences
  <1>1. \A x \in 0 .. n - 1 : f[x] \in Nat
    BY <1>0 DEF Slots, HoldsDifferences
  <1>g. PICK g : g = [x \in 0 .. p |-> T[n - p + x + 1]]
    OBVIOUS
  <1>h. PICK h : h = [x \in p .. n |-> T[x - p + 1]]
    OBVIOUS
  <1>2. \A x \in 0 .. p - 1 : f[x] = g[x + 1] - g[x]
    <2>1. SUFFICES ASSUME NEW x \in 0 .. p - 1 PROVE f[x] = g[x + 1] - g[x]
      OBVIOUS
    <2>2. PICK j \in 0 .. n - 1 : j = p - 1 - x
      BY <1>0
    <2>3. Slot(p, j) = x
      BY <1>0, <2>2 DEF Slot
    <2>4. n - j + 1 = n - p + (x + 1) + 1 /\ n - j = n - p + x + 1
      BY <1>0, <2>2
    <2>5. x \in 0 .. p /\ x + 1 \in 0 .. p
      BY <1>0
    <2>6. f[x] = T[n - p + (x + 1) + 1] - T[n - p + x + 1]
      BY <2>3, <2>4 DEF HoldsDifferences
    <2> QED BY <1>g, <2>5, <2>6
  <1>3. \A x \in p .. n - 1 : f[x] = h[x + 1] - h[x]
    <2>1. SUFFICES ASSUME NEW x \in p .. n - 1 PROVE f[x] = h[x + 1] - h[x]
      OBVIOUS
    <2>2. n = NUM_RATES_TO_USE
      BY <1>0
    <2>3. PICK j \in 0 .. n - 1 : j = n + p - 1 - x
      BY <1>0
    <2>4. Slot(p, j) = x
      BY <1>0, <2>2, <2>3 DEF Slot
    <2>5. n - j + 1 = (x + 1) - p + 1 /\ n - j = x - p + 1
      BY <1>0, <2>3
    <2>6. x \in p .. n /\ x + 1 \in p .. n
      BY <1>0
    <2>7. f[x] = T[(x + 1) - p + 1] - T[x - p + 1]
      BY <2>4, <2>5 DEF HoldsDifferences
    <2> QED BY <1>h, <2>6, <2>7
  <1>4. \A x \in 0 .. p : g[x] \in Int
    <2>1. SUFFICES ASSUME NEW x \in 0 .. p PROVE g[x] \in Int
      OBVIOUS
    <2>2. PICK i \in 1 .. n + 1 : i = n - p + x + 1
      BY <1>0
    <2>3. g[x] = T[i]
      BY <1>g, <2>2
    <2> QED BY <2>3 DEF HoldsDifferences
  <1>5. \A x \in p .. n : h[x] \in Int
    <2>1. SUFFICES ASSUME NEW x \in p .. n PROVE h[x] \in Int
      OBVIOUS
    <2>2. PICK i \in 1 .. n + 1 : i = x - p + 1
      BY <1>0
    <2>3. h[x] = T[i]
      BY <1>h, <2>2
    <2> QED BY <2>3 DEF HoldsDifferences
  <1>6. g[0] = T[n - p + 1] /\ g[p] = T[n + 1] /\ h[p] = T[1] /\ h[n] = T[n - p + 1]
    <2>1. 0 \in 0 .. p /\ p \in 0 .. p /\ n - p + 0 + 1 = n - p + 1 /\ n - p + p + 1 = n + 1
          /\ p \in p .. n /\ n \in p .. n /\ p - p + 1 = 1
      BY <1>0
    <2>2. g[0] = T[n - p + 0 + 1] /\ g[p] = T[n - p + p + 1] /\ h[p] = T[p - p + 1] /\ h[n] = T[n - p + 1]
      BY <1>g, <1>h, <2>1
    <2> QED BY <2>1, <2>2
  <1>7. SumUpTo(f, p) - SumUpTo(f, 0) = g[p] - g[0]
    <2>1. p \in Nat /\ 0 \in 0 .. p /\ \A x \in 0 .. p - 1 : f[x] \in Nat
      BY <1>0, <1>1
    <2> QED BY <1>2, <1>4, <2>1, SumOfDifferences, Zenon
  <1>8. SumUpTo(f, n) - SumUpTo(f, p) = h[n] - h[p]
    <2>1. n \in Nat /\ p \in 0 .. n
      BY <1>0
    <2> QED BY <1>1, <1>3, <1>5, <2>1, SumOfDifferences, Zenon
  <1>9. SumUpTo(f, p) \in Nat /\ SumUpTo(f, n) \in Nat /\ SumUpTo(f, 0) = 0
    <2>1. \A x \in 0 .. p - 1 : f[x] \in Nat
      BY <1>0, <1>1
    <2> QED BY <1>0, <1>1, <2>1, SumIsNatural, SumEquations
  <1>10. g[0] \in Int /\ g[p] \in Int /\ h[p] \in Int /\ h[n] \in Int
    BY <1>0, <1>4, <1>5
  <1> QED BY <1>6, <1>7, <1>8, <1>9, <1>10

(* What FinishUp does to the ring, its count and the totals, in one form   *)
(* for a ring that fills, one that is full and one that starts again.      *)
LEMMA FinishUpShifts ==
  ASSUME RateInv, FinishUp
  PROVE  LET n  == WindowSize
             n2 == Window(vRateCount', fRateArrayDone')
         IN  /\ n \in 0 .. NUM_RATES_TO_USE /\ n2 \in 1 .. NUM_RATES_TO_USE
             /\ n2 = NUM_RATES_TO_USE \/ n2 = vRateCount'
             /\ fRateArrayDone' => vRateCount' > 0
             /\ ring'[Slot(vRateCount', 0)] = Interval(pass.sum)
             /\ \A j \in 1 .. n2 - 1 :
                  /\ j - 1 \in 0 .. n - 1
                  /\ ring'[Slot(vRateCount', j)] = ring[Slot(vRateCount, j - 1)]
             /\ Len(totals') = n2 + 1
             /\ totals'[n2 + 1] = pass.sum
             /\ totals'[n2] = previous
             /\ \A j \in 1 .. n2 - 1 :
                  /\ totals'[n2 - j + 1] = totals[n - (j - 1) + 1]
                  /\ totals'[n2 - j] = totals[n - (j - 1)]
  <1> DEFINE N  == NUM_RATES_TO_USE
             n  == WindowSize
             n2 == Window(vRateCount', fRateArrayDone')
  <1>0. /\ N \in Nat /\ N > 0 /\ vRateCount \in 0 .. N
        /\ ring \in [Slots -> IntervalType] /\ totals \in Seq(Counters)
        /\ pass.sum \in Counters
        /\ fRateArrayDone => vRateCount > 0
        /\ Len(totals) = n + 1 /\ totals[n + 1] = previous
        /\ Slots = 0 .. N - 1
    <2>1. /\ ring \in [Slots -> IntervalType] /\ totals \in Seq(Counters)
          /\ pass.sum \in Counters /\ vRateCount \in 0 .. N
      BY DEF RateInv, RateTypeInv, RateTypeOK, IntervalType
    <2>2. (fRateArrayDone => vRateCount > 0) /\ Len(totals) = n + 1
          /\ totals[Len(totals)] = previous
      BY DEF RateInv, WindowIsTotals
    <2>3. N \in Nat /\ N > 0 /\ Slots = 0 .. N - 1
      BY RingAssumption DEF Slots
    <2> HIDE DEF n, N
    <2> QED BY <2>1, <2>2, <2>3
  <1>1. /\ Save(Interval(pass.sum))
        /\ totals' = IF Len(totals) > N THEN Append(Tail(totals), pass.sum)
                                        ELSE Append(totals, pass.sum)
    BY DEF FinishUp
  <1>2. CASE vRateCount < N
    <2>1. /\ ring' = [ring EXCEPT ![vRateCount] = Interval(pass.sum)]
          /\ vRateCount' = vRateCount + 1 /\ fRateArrayDone' = fRateArrayDone
      BY <1>1, <1>2 DEF Save
    <2>2. CASE fRateArrayDone
      <3>1. n = N /\ n2 = N
        BY <2>1, <2>2 DEF WindowSize, Window
      <3>2. totals' = Append(Tail(totals), pass.sum)
        BY <1>0, <1>1, <3>1
      <3> HIDE DEF n, n2
      <3>3. Slot(vRateCount', 0) = vRateCount /\ vRateCount \in Slots
        BY <1>0, <1>2, <2>1 DEF Slot
      <3>4. \A j \in 1 .. n2 - 1 :
              /\ j - 1 \in 0 .. n - 1
              /\ Slot(vRateCount', j) = Slot(vRateCount, j - 1)
              /\ Slot(vRateCount, j - 1) \in Slots /\ Slot(vRateCount, j - 1) # vRateCount
        BY <1>0, <1>2, <2>1, <2>2, <3>1 DEF Slot
      <3>5. /\ ring'[Slot(vRateCount', 0)] = Interval(pass.sum)
            /\ \A j \in 1 .. n2 - 1 : ring'[Slot(vRateCount', j)] = ring[Slot(vRateCount, j - 1)]
        BY <1>0, <2>1, <3>3, <3>4
      <3>6. /\ Len(totals') = n2 + 1 /\ totals'[n2 + 1] = pass.sum
            /\ \A i \in 1 .. n2 : totals'[i] = totals[i + 1]
        BY <1>0, <3>1, <3>2
      <3>7. totals'[n2] = previous
        BY <1>0, <3>1, <3>6
      <3>8. \A j \in 1 .. n2 - 1 : totals'[n2 - j + 1] = totals[n - (j - 1) + 1]
                                   /\ totals'[n2 - j] = totals[n - (j - 1)]
        BY <1>0, <3>1, <3>6
      <3>9. /\ n \in 0 .. N /\ n2 \in 1 .. N /\ (n2 = N \/ n2 = vRateCount')
            /\ (fRateArrayDone' => vRateCount' > 0)
        BY <1>0, <2>1, <3>1
      <3> QED BY <3>4, <3>5, <3>6, <3>7, <3>8, <3>9 DEF n, n2
    <2>3. CASE ~ fRateArrayDone
      <3>1. n = vRateCount /\ n2 = vRateCount + 1
        BY <2>1, <2>3 DEF WindowSize, Window
      <3>2. totals' = Append(totals, pass.sum)
        BY <1>0, <1>1, <1>2, <3>1
      <3> HIDE DEF n, n2
      <3>3. Slot(vRateCount', 0) = vRateCount /\ vRateCount \in Slots
        BY <1>0, <1>2, <2>1 DEF Slot
      <3>4. \A j \in 1 .. n2 - 1 :
              /\ j - 1 \in 0 .. n - 1
              /\ Slot(vRateCount', j) = Slot(vRateCount, j - 1)
              /\ Slot(vRateCount, j - 1) \in Slots /\ Slot(vRateCount, j - 1) # vRateCount
        BY <1>0, <1>2, <2>1, <3>1 DEF Slot
      <3>5. /\ ring'[Slot(vRateCount', 0)] = Interval(pass.sum)
            /\ \A j \in 1 .. n2 - 1 : ring'[Slot(vRateCount', j)] = ring[Slot(vRateCount, j - 1)]
        BY <1>0, <2>1, <3>3, <3>4
      <3>6. /\ Len(totals') = n2 + 1 /\ totals'[n2 + 1] = pass.sum
            /\ \A i \in 1 .. n2 : totals'[i] = totals[i]
        BY <1>0, <3>1, <3>2
      <3>7. totals'[n2] = previous
        BY <1>0, <3>1, <3>6
      <3>8. \A j \in 1 .. n2 - 1 : totals'[n2 - j + 1] = totals[n - (j - 1) + 1]
                                   /\ totals'[n2 - j] = totals[n - (j - 1)]
        BY <1>0, <3>1, <3>6
      <3>9. /\ n \in 0 .. N /\ n2 \in 1 .. N /\ (n2 = N \/ n2 = vRateCount')
            /\ (fRateArrayDone' => vRateCount' > 0)
        BY <1>0, <1>2, <2>1, <2>3, <3>1
      <3> QED BY <3>4, <3>5, <3>6, <3>7, <3>8, <3>9 DEF n, n2
    <2> QED BY <2>2, <2>3
  <1>3. CASE ~ (vRateCount < N)
    <2>1. /\ ring' = [ring EXCEPT ![0] = Interval(pass.sum)]
          /\ vRateCount' = 1 /\ fRateArrayDone' = TRUE /\ vRateCount = N
      BY <1>0, <1>1, <1>3 DEF Save
    <2>2. n = N /\ n2 = N
      BY <2>1 DEF WindowSize, Window
    <2>3. totals' = Append(Tail(totals), pass.sum)
      BY <1>0, <1>1, <2>2
    <2> HIDE DEF n, n2
    <2>4. Slot(vRateCount', 0) = 0 /\ 0 \in Slots
      BY <1>0, <2>1 DEF Slot
    <2>5. \A j \in 1 .. n2 - 1 :
            /\ j - 1 \in 0 .. n - 1
            /\ Slot(vRateCount', j) = Slot(vRateCount, j - 1)
            /\ Slot(vRateCount, j - 1) \in Slots /\ Slot(vRateCount, j - 1) # 0
      BY <1>0, <2>1, <2>2 DEF Slot
    <2>6. /\ ring'[Slot(vRateCount', 0)] = Interval(pass.sum)
          /\ \A j \in 1 .. n2 - 1 : ring'[Slot(vRateCount', j)] = ring[Slot(vRateCount, j - 1)]
      BY <1>0, <2>1, <2>4, <2>5
    <2>7. /\ Len(totals') = n2 + 1 /\ totals'[n2 + 1] = pass.sum
          /\ \A i \in 1 .. n2 : totals'[i] = totals[i + 1]
      BY <1>0, <2>2, <2>3
    <2>8. totals'[n2] = previous
      BY <1>0, <2>2, <2>7
    <2>9. \A j \in 1 .. n2 - 1 : totals'[n2 - j + 1] = totals[n - (j - 1) + 1]
                                 /\ totals'[n2 - j] = totals[n - (j - 1)]
      BY <1>0, <2>2, <2>7
    <2>10. /\ n \in 0 .. N /\ n2 \in 1 .. N /\ (n2 = N \/ n2 = vRateCount')
           /\ (fRateArrayDone' => vRateCount' > 0)
      BY <1>0, <2>1, <2>2
    <2> QED BY <2>5, <2>6, <2>7, <2>8, <2>9, <2>10 DEF n, n2
  <1> QED BY <1>2, <1>3

(* The new interval is the difference of the last two totals, and the      *)
(* others are where they are expected.                                     *)
LEMMA FinishUpKeepsRing ==
  ASSUME RateInv, FinishUp
  PROVE  WindowIsTotals' /\ RingIsDifferences'
  <1> DEFINE n  == WindowSize
             n2 == Window(vRateCount', fRateArrayDone')
  <1>1. /\ n \in 0 .. NUM_RATES_TO_USE /\ n2 \in 1 .. NUM_RATES_TO_USE
        /\ fRateArrayDone' => vRateCount' > 0
        /\ ring'[Slot(vRateCount', 0)] = Interval(pass.sum)
        /\ \A j \in 1 .. n2 - 1 :
             /\ j - 1 \in 0 .. n - 1
             /\ ring'[Slot(vRateCount', j)] = ring[Slot(vRateCount, j - 1)]
        /\ Len(totals') = n2 + 1
        /\ totals'[n2 + 1] = pass.sum
        /\ totals'[n2] = previous
        /\ \A j \in 1 .. n2 - 1 :
             /\ totals'[n2 - j + 1] = totals[n - (j - 1) + 1]
             /\ totals'[n2 - j] = totals[n - (j - 1)]
    BY FinishUpShifts
  <1>2. previous' = pass.sum /\ pass.at = "save"
    BY DEF FinishUp
  <1>3. calm \in Nat /\ calm' \in Nat /\ NUM_RATES_TO_USE \in Nat
        /\ (calm' = calm + 1 \/ (calm' = calm /\ calm = NUM_RATES_TO_USE + 2))
    <2>1. NUM_RATES_TO_USE \in Nat /\ calm \in 0 .. NUM_RATES_TO_USE + 2
      BY RingAssumption DEF RateInv, RateTypeInv, RateTypeOK, Calm
    <2>2. calm' = IF calm < NUM_RATES_TO_USE + 2 THEN calm + 1 ELSE calm
      BY DEF FinishUp, Calm
    <2> QED BY <2>1, <2>2
  <1>4. WindowSize' = n2
    BY DEF WindowSize
  <1>5. \A j \in 0 .. n - 1 : j + 2 < calm =>
          /\ ring[Slot(vRateCount, j)].retrans = totals[n - j + 1].retrans - totals[n - j].retrans
          /\ ring[Slot(vRateCount, j)].packets = totals[n - j + 1].packets - totals[n - j].packets
    BY DEF RateInv, RingIsDifferences
  <1> HIDE DEF n, n2
  <1>6. WindowIsTotals'
    BY <1>1, <1>2, <1>4 DEF WindowIsTotals
  <1>7. ASSUME NEW j \in 0 .. n2 - 1, j + 2 < calm'
        PROVE  /\ ring'[Slot(vRateCount', j)].retrans = totals'[n2 - j + 1].retrans - totals'[n2 - j].retrans
               /\ ring'[Slot(vRateCount', j)].packets = totals'[n2 - j + 1].packets - totals'[n2 - j].packets
    <2>1. CASE j = 0
      <3>1. calm >= 2
        BY <1>3, <1>7, <2>1
      <3>2. /\ Interval(pass.sum).retrans = pass.sum.retrans - previous.retrans
            /\ Interval(pass.sum).packets = pass.sum.packets - previous.packets
        BY <1>2, <3>1, CleanInterval
      <3>3. n2 - j + 1 = n2 + 1 /\ n2 - j = n2
        BY <1>1, <2>1
      <3>4. totals'[n2 - j + 1] = pass.sum /\ totals'[n2 - j] = previous
            /\ ring'[Slot(vRateCount', j)] = Interval(pass.sum)
        BY <1>1, <2>1, <3>3
      <3> QED BY <3>2, <3>4
    <2>2. CASE j # 0
      <3>1. j \in 1 .. n2 - 1
        BY <1>1, <2>2
      <3>2. PICK i \in 0 .. n - 1 : i = j - 1
        BY <1>1, <3>1
      <3>3. i + 2 < calm
        BY <1>1, <1>3, <1>7, <3>2
      <3>4. /\ ring[Slot(vRateCount, i)].retrans = totals[n - i + 1].retrans - totals[n - i].retrans
            /\ ring[Slot(vRateCount, i)].packets = totals[n - i + 1].packets - totals[n - i].packets
        BY <1>5, <3>3
      <3>5. /\ ring'[Slot(vRateCount', j)] = ring[Slot(vRateCount, i)]
            /\ totals'[n2 - j + 1] = totals[n - i + 1] /\ totals'[n2 - j] = totals[n - i]
        BY <1>1, <3>1, <3>2
      <3> QED BY <3>4, <3>5
    <2> QED BY <2>1, <2>2
  <1>8. RingIsDifferences'
    BY <1>4, <1>7 DEF RingIsDifferences
  <1> QED BY <1>6, <1>8

(* The slot of an interval of the window is one of the ring. *)
LEMMA SlotInRing ==
  ASSUME NEW p \in 1 .. NUM_RATES_TO_USE, NEW n \in 1 .. NUM_RATES_TO_USE,
         n = NUM_RATES_TO_USE \/ n = p, NEW j \in 0 .. n - 1
  PROVE  Slot(p, j) \in Slots
  BY RingAssumption DEF Slot, Slots

(* The average that FinishUp computes is what the totals grew by over the  *)
(* window.                                                                 *)
LEMMA FinishUpKeepsGrowth ==
  ASSUME RateInv, FinishUp
  PROVE  RateIsGrowth'
  <1> DEFINE n2 == Window(vRateCount', fRateArrayDone')
  <1>0. RateTypeInv /\ pass.at = "save" /\ Save(Interval(pass.sum))
        /\ rate' = Average(ring', n2) /\ events \in 0 .. MaxEvents
        /\ pass.sum \in Counters
    BY DEF FinishUp, RateInv, RateTypeInv, RateTypeOK
  <1>1. SUFFICES ASSUME calm' = Calm, vRateCount' > 0
                 PROVE  /\ rate'.retrans = totals'[n2 + 1].retrans - totals'[1].retrans
                        /\ rate'.packets = totals'[n2 + 1].packets - totals'[1].packets
                        /\ rate'.count = n2
    <2>1. Len(totals') = n2 + 1 /\ n2 \in 1 .. NUM_RATES_TO_USE
      BY FinishUpShifts
    <2>2. totals' \in Seq(Counters)
      BY <1>0, StepRateTypeInv DEF RateNext, Run, RateTypeInv, RateTypeOK
    <2>3. Head(totals') = totals'[1] /\ Len(totals') - 1 = n2
      BY <2>1, <2>2, RingAssumption
    <2> HIDE DEF n2
    <2> QED BY <2>1, <2>3 DEF RateIsGrowth, Calm
  <1>2. /\ n2 \in 1 .. NUM_RATES_TO_USE /\ (n2 = NUM_RATES_TO_USE \/ n2 = vRateCount')
        /\ Len(totals') = n2 + 1 /\ totals'[n2 + 1] = pass.sum
    BY FinishUpShifts
  <1>3. ring' \in [Slots -> IntervalType] /\ vRateCount' \in 1 .. NUM_RATES_TO_USE
    BY <1>0, IntervalFits, SaveTypes
  <1>4. totals' \in Seq(Counters)
    BY <1>0, StepRateTypeInv DEF RateNext, Run, RateTypeInv, RateTypeOK
  <1>5. \A j \in 0 .. n2 - 1 :
          /\ ring'[Slot(vRateCount', j)].retrans = totals'[n2 - j + 1].retrans - totals'[n2 - j].retrans
          /\ ring'[Slot(vRateCount', j)].packets = totals'[n2 - j + 1].packets - totals'[n2 - j].packets
    <2>1. \A j \in 0 .. n2 - 1 : j + 2 < calm'
      BY <1>1, <1>2, RingAssumption DEF Calm
    <2>2. WindowSize' = n2
      BY DEF WindowSize
    <2> HIDE DEF n2
    <2> QED BY <2>1, <2>2, FinishUpKeepsRing DEF RingIsDifferences
  <1> HIDE DEF n2
  <1>6. /\ \A x \in Slots : Retrans(ring')[x] \in Nat /\ Packets(ring')[x] \in Nat
        /\ SumUpTo(Retrans(ring'), n2) \in Nat /\ SumUpTo(Packets(ring'), n2) \in Nat
    BY <1>2, <1>3, AverageTypes
  <1>7. \A i \in 1 .. n2 + 1 : totals'[i].retrans \in Nat /\ totals'[i].packets \in Nat
    <2>1. 1 .. n2 + 1 = 1 .. Len(totals')
      BY <1>2
    <2>2. \A i \in 1 .. Len(totals') : totals'[i] \in Counters
      BY <1>4
    <2> QED BY <2>1, <2>2 DEF Counters
  <1>8. \A j \in 0 .. n2 - 1 : Slot(vRateCount', j) \in Slots
    BY <1>2, <1>3, SlotInRing
  <1>s. NUM_RATES_TO_USE \in Nat /\ n2 \in Nat /\ 1 \in 1 .. n2 + 1 /\ n2 + 1 \in 1 .. n2 + 1
        /\ (\A j \in 0 .. n2 - 1 : n2 - j + 1 \in 1 .. n2 + 1 /\ n2 - j \in 1 .. n2 + 1)
    BY <1>2, RingAssumption
  <1>9. PICK R : R = [i \in 1 .. n2 + 1 |-> totals'[i].retrans]
    OBVIOUS
  <1>10. PICK P : P = [i \in 1 .. n2 + 1 |-> totals'[i].packets]
    OBVIOUS
  <1>11. SumUpTo(Retrans(ring'), n2) = R[n2 + 1] - R[1]
    <2>1. \A x \in Slots : Retrans(ring')[x] = ring'[x].retrans
      BY DEF Retrans
    <2>2. HoldsDifferences(Retrans(ring'), R, vRateCount', n2)
      BY <1>2, <1>5, <1>6, <1>7, <1>8, <1>9, <1>s, <2>1 DEF HoldsDifferences
    <2> QED BY <1>2, <1>3, <2>2, SumOverRing
  <1>12. SumUpTo(Packets(ring'), n2) = P[n2 + 1] - P[1]
    <2>1. \A x \in Slots : Packets(ring')[x] = ring'[x].packets
      BY DEF Packets
    <2>2. HoldsDifferences(Packets(ring'), P, vRateCount', n2)
      BY <1>2, <1>5, <1>6, <1>7, <1>8, <1>10, <1>s, <2>1 DEF HoldsDifferences
    <2> QED BY <1>2, <1>3, <2>2, SumOverRing
  <1>13. /\ R[n2 + 1] = pass.sum.retrans /\ P[n2 + 1] = pass.sum.packets
         /\ R[1] = totals'[1].retrans /\ P[1] = totals'[1].packets
         /\ R[1] \in Nat /\ P[1] \in Nat
    BY <1>2, <1>7, <1>9, <1>10, <1>s
  <1>14. /\ pass.sum.retrans \in Nat /\ pass.sum.packets \in Nat
         /\ pass.sum.retrans <= events /\ pass.sum.packets <= events
    BY <1>0, IntervalFits DEF Counters
  <1>15. \A k \in Nat : k <= events => k % Word = k
    BY <1>0, WordAssumption, BoundAssumption
  <1>16. /\ SumUpTo(Retrans(ring'), n2) % Word = SumUpTo(Retrans(ring'), n2)
         /\ SumUpTo(Packets(ring'), n2) % Word = SumUpTo(Packets(ring'), n2)
    <2>1. /\ SumUpTo(Retrans(ring'), n2) <= events /\ SumUpTo(Packets(ring'), n2) <= events
      BY <1>0, <1>11, <1>12, <1>13, <1>14
    <2> QED BY <1>6, <1>15, <2>1
  <1>17. /\ rate'.retrans = SumUpTo(Retrans(ring'), n2) % Word
         /\ rate'.packets = SumUpTo(Packets(ring'), n2) % Word
         /\ rate'.count = n2
    BY <1>0 DEF Average
  <1> QED BY <1>2, <1>11, <1>12, <1>13, <1>16, <1>17

(* The inductive invariant holds at the start. *)
LEMMA InitRateInv == RateInit => RateInv
  <1> SUFFICES ASSUME RateInit PROVE RateInv
    OBVIOUS
  <1>1. RateTypeInv
    BY InitRateTypeInv
  <1>2. ~ Reading /\ previous = Zero /\ vRateCount = 0 /\ fRateArrayDone = FALSE /\ totals = <<Zero>>
    BY DEF RateInit, Reading
  <1>3. NumConnections \in 0 .. NumConnections
    BY ConnectionAssumption
  <1>4. PreviousIsBehind
    <2>1. SumUpTo(RetransTo(tcp4, aDest_Ip2_Binary), NumConnections) \in Nat
          /\ SumUpTo(FirstSendsTo(tcp4, aDest_Ip2_Binary), NumConnections) \in Nat
      BY <1>1, <1>3, SumTypes
    <2>2. Zero.retrans = 0 /\ FirstSends(Zero) = 0
      BY DEF Zero, FirstSends
    <2> QED BY <1>2, <2>1, <2>2 DEF PreviousIsBehind, Behind
  <1>5. PassIsBehind
    BY <1>2 DEF PassIsBehind
  <1>6. WindowSize = 0 /\ Len(totals) = 1 /\ totals[1] = Zero
    BY <1>2 DEF WindowSize, Window
  <1>7. WindowIsTotals
    BY <1>2, <1>6 DEF WindowIsTotals
  <1>8. RingIsDifferences
    BY <1>6 DEF RingIsDifferences
  <1>9. RateIsGrowth
    BY <1>2 DEF RateIsGrowth
  <1> QED BY <1>1, <1>4, <1>5, <1>7, <1>8, <1>9 DEF RateInv

(* Steps that leave the ring and the totals alone. *)
LEMMA RingUntouched ==
  ASSUME RateInv, UNCHANGED <<previous, ring, vRateCount, fRateArrayDone, rate, totals>>,
         calm' = calm \/ calm' = 0
  PROVE  WindowIsTotals' /\ RingIsDifferences' /\ RateIsGrowth'
  <1>1. WindowSize' = WindowSize
    BY DEF WindowSize
  <1>2. WindowIsTotals'
    BY <1>1 DEF RateInv, WindowIsTotals
  <1>3. RingIsDifferences'
    <2>1. CASE calm' = calm
      BY <1>1, <2>1 DEF RateInv, RingIsDifferences
    <2>2. CASE calm' = 0
      <3>1. \A j \in 0 .. WindowSize' - 1 : ~ (j + 2 < calm')
        BY <2>2
      <3> QED BY <3>1 DEF RingIsDifferences
    <2> QED BY <2>1, <2>2
  <1>4. RateIsGrowth'
    <2>1. Calm # 0
      BY RingAssumption DEF Calm
    <2> QED BY <2>1 DEF RateInv, RateIsGrowth, Calm
  <1> QED BY <1>2, <1>3, <1>4

(* Every step preserves the inductive invariant. *)
LEMMA StepRateInv == RateInv /\ [RateNext]_rateVars => RateInv'
  <1> SUFFICES ASSUME RateInv, [RateNext]_rateVars PROVE RateInv'
    OBVIOUS
  <1>0. RateTypeInv /\ RateTypeInv' /\ PreviousIsBehind /\ PassIsBehind
    BY StepRateTypeInv DEF RateInv
  <1>1. ASSUME Network PROVE RateInv'
    <2>1. GoesOn
      BY <1>0, <1>1, NetworkGoesOn
    <2>2. PreviousIsBehind' /\ PassIsBehind'
      BY <1>0, <2>1, NetworkKeepsBehind
    <2>3. WindowIsTotals' /\ RingIsDifferences' /\ RateIsGrowth'
      BY <2>1, RingUntouched DEF GoesOn
    <2> QED BY <1>0, <2>2, <2>3 DEF RateInv
  <1>2. ASSUME StartPass PROVE RateInv'
    <2>1. PreviousIsBehind' /\ PassIsBehind'
      BY <1>0, <1>2, StartPassKeepsBehind
    <2>2. WindowIsTotals' /\ RingIsDifferences' /\ RateIsGrowth'
      BY <1>2, RingUntouched DEF StartPass, ringVars
    <2> QED BY <1>0, <2>1, <2>2 DEF RateInv
  <1>3. ASSUME ReadLine PROVE RateInv'
    <2>1. PreviousIsBehind' /\ PassIsBehind'
      BY <1>0, <1>3, ReadLineKeepsBehind
    <2>2. WindowIsTotals' /\ RingIsDifferences' /\ RateIsGrowth'
      BY <1>3, RingUntouched DEF ReadLine, ringVars
    <2> QED BY <1>0, <2>1, <2>2 DEF RateInv
  <1>4. ASSUME GiveUp PROVE RateInv'
    <2>1. /\ ~ Reading /\ ~ Reading'
          /\ UNCHANGED <<tcp4, aDest_Ip2_Binary, previous, ring, vRateCount,
                         fRateArrayDone, rate, totals, calm>>
      BY <1>4 DEF GiveUp, Reading, ringVars, RateInv, RateTypeInv, RateTypeOK
    <2>2. PreviousIsBehind' /\ PassIsBehind'
      BY <1>0, <2>1 DEF PreviousIsBehind, PassIsBehind, Behind, RetransTo, FirstSendsTo, Matches, FirstSends
    <2>3. WindowIsTotals' /\ RingIsDifferences' /\ RateIsGrowth'
      BY <2>1, RingUntouched
    <2> QED BY <1>0, <2>2, <2>3 DEF RateInv
  <1>5. ASSUME FinishUp PROVE RateInv'
    BY <1>0, <1>5, FinishUpKeepsBehind, FinishUpKeepsRing, FinishUpKeepsGrowth DEF RateInv
  <1>6. ASSUME NoRelevantPackets PROVE RateInv'
    <2>1. PreviousIsBehind' /\ PassIsBehind'
      BY <1>6, FinishUpKeepsBehind
    <2>2. previous' = Zero /\ vRateCount' = 0 /\ fRateArrayDone' = FALSE /\ totals' = <<Zero>>
      BY <1>6 DEF NoRelevantPackets
    <2>3. WindowSize' = 0 /\ Len(totals') = 1 /\ totals'[1] = Zero
      BY <2>2 DEF WindowSize, Window
    <2>4. WindowIsTotals'
      BY <2>2, <2>3 DEF WindowIsTotals
    <2>5. RingIsDifferences'
      BY <2>3 DEF RingIsDifferences
    <2>6. RateIsGrowth'
      BY <2>2 DEF RateIsGrowth
    <2> QED BY <1>0, <2>1, <2>4, <2>5, <2>6 DEF RateInv
  <1>7. ASSUME UNCHANGED rateVars PROVE RateInv'
    <2>1. UNCHANGED <<tcp4, aDest_Ip2_Binary, pass, previous, ring, vRateCount,
                      fRateArrayDone, rate, totals, calm>>
      BY <1>7 DEF rateVars, ringVars
    <2>2. PreviousIsBehind' /\ PassIsBehind'
      BY <1>0, <2>1
      DEF PreviousIsBehind, PassIsBehind, Behind, RetransTo, FirstSendsTo, Matches, FirstSends, Reading
    <2>3. WindowIsTotals' /\ RingIsDifferences' /\ RateIsGrowth'
      BY <2>1, RingUntouched
    <2> QED BY <1>0, <2>2, <2>3 DEF RateInv
  <1> QED BY <1>1, <1>2, <1>3, <1>4, <1>5, <1>6, <1>7 DEF RateNext, Run

(* The retransmission rate is that of the last intervals: while no         *)
(* connection to the peer closed and the peer did not change, the sums it  *)
(* is computed from are what the totals grew by since the pass before the  *)
(* oldest interval. For any number of connections, peers and intervals,    *)
(* and a word that no counter outgrows.                                    *)
THEOREM RateIsOfTheWindow == RateSpec => []RateIsGrowth
  <1>1. RateInv => RateIsGrowth
    BY DEF RateInv
  <1> QED BY InitRateInv, StepRateInv, <1>1, PTL DEF RateSpec

============================================================================
