---------------------------- MODULE BufferTuner ----------------------------
(***************************************************************************)
(* How fDoRunGetThresholds and check_if_bitrate_too_low, in                *)
(* userspace/user_dtn.c, look for the best size of the TCP send buffer:    *)
(* once a second the average transmission rate is compared with the        *)
(* highest one so far, and the maximum of net.ipv4.tcp_wmem is moved up or *)
(* down by KTUNING_DELTA, until no better rate was seen for                *)
(* MAX_TUNING_APPLY changes; then the best command found is run again.     *)
(*                                                                         *)
(* The command in aApplyDefTunBest and the one in best_wmem_val are        *)
(* represented by the size they set.  Both arrays are uninitialised at     *)
(* first; what they hold then is no sysctl command and sets nothing.       *)
(* Rates are in tenths of Gb/s, with tx_jitter added.  Averages above the  *)
(* speed of the device are skipped by the code and are not in Rates.       *)
(***************************************************************************)
EXTENDS Naturals

CONSTANTS
  Rates,              \* averages the link may show
  vGoodBitrateValue,  \* 97% of the speed of the device
  InitialSizes,       \* maxima of net.ipv4.tcp_wmem at the start
  my_tune_max,        \* the maximum that is recommended
  MAX_TUNING_APPLY,
  Commands,           \* the values the operator may give gTuningMode
  Unset               \* the content of an uninitialised command

ASSUME RateAssumption == Rates \subseteq Nat /\ vGoodBitrateValue \in Nat
ASSUME SizeAssumption == InitialSizes \subseteq Nat /\ my_tune_max \in Nat
ASSUME ApplyAssumption == MAX_TUNING_APPLY \in Nat \ {0}
ASSUME CommandAssumption == Commands \subseteq BOOLEAN
ASSUME UnsetAssumption == Unset \notin Nat

VARIABLES
  kmaximum,     \* the maximum of net.ipv4.tcp_wmem
  search,       \* the locals of fDoRunGetThresholds
  gTuningMode,
  running,      \* fDoRunGetThresholds has not returned
  last,         \* the last average, and whether sysctl could be read
  initial       \* history: kmaximum at the start

vars == <<kmaximum, search, gTuningMode, running, last, initial>>

KTUNING_DELTA == 200000
LowestToLower == 600000
OneGigabit    == 10

Size == Nat \cup {Unset}

TypeOK ==
  /\ kmaximum \in Nat
  /\ search \in [tune : 0 .. 3, applied : BOOLEAN, suggested : 0 .. 4, nothing_done : 0 .. 6,
                 max_apply : 0 .. MAX_TUNING_APPLY, highest : Nat, previous : Nat,
                 aApplyDefTunBest : Size, best_wmem_val : Size]
  /\ gTuningMode \in BOOLEAN
  /\ running \in BOOLEAN
  /\ last \in [rate : Nat, read : BOOLEAN]
  /\ initial \in Nat

Init ==
  /\ kmaximum \in InitialSizes
  /\ search = [tune |-> 1, applied |-> FALSE, suggested |-> 0, nothing_done |-> 0,
               max_apply |-> 0, highest |-> 0, previous |-> 0,
               aApplyDefTunBest |-> Unset, best_wmem_val |-> Unset]
  /\ gTuningMode = TRUE
  /\ running = TRUE
  /\ last = [rate |-> 0, read |-> TRUE]
  /\ initial = kmaximum

-----------------------------------------------------------------------------
(* What a tick does to the locals before it looks at the buffer. *)

\* Mutant: only a higher rate is a new best.
IsHigher(s, average) == s.highest < average

\* A rate as high as the highest is a new best, if the last tick changed the size.
IsHigh(s, average) == s.highest <= average

Highest(s, average) == IF IsHigh(s, average) THEN average ELSE s.highest

Best(s, average) ==
  IF IsHigh(s, average) /\ s.applied THEN s.aApplyDefTunBest ELSE s.best_wmem_val

Applications(s, average) ==
  IF ~ s.applied THEN 0 ELSE IF IsHigh(s, average) THEN 1 ELSE s.max_apply + 1

\* Mutant: a search that is over starts again at once.
CompareRestarts(s, average) ==
  LET over == Applications(s, average) >= MAX_TUNING_APPLY
  IN  [s EXCEPT !.highest = Highest(s, average),
                !.previous = average,
                !.best_wmem_val = Best(s, average),
                !.tune = IF over THEN 3
                         ELSE IF s.previous < Highest(s, average) THEN 1 ELSE 2,
                !.aApplyDefTunBest = IF over THEN Best(s, average) ELSE @,
                !.max_apply = IF over THEN 0 ELSE Applications(s, average)]

\* The comparison with the highest and the previous average.  A search that ran
\* out of applications (tune 3) is over after the best command was run.
Compare(s, average) ==
  LET over == Applications(s, average) >= MAX_TUNING_APPLY
  IN  IF s.tune = 3 /\ average # 0
      THEN [s EXCEPT !.tune = 0, !.applied = FALSE, !.nothing_done = 1]
      ELSE [s EXCEPT !.highest = Highest(s, average),
                     !.previous = average,
                     !.best_wmem_val = Best(s, average),
                     !.tune = IF over THEN 3
                              ELSE IF s.previous < Highest(s, average) THEN 1 ELSE 2,
                     !.aApplyDefTunBest = IF over THEN Best(s, average) ELSE @,
                     !.max_apply = IF over THEN 0 ELSE Applications(s, average)]

\* After a suggestion three ticks are skipped, after "nothing done" five.
Skips(s) ==
  \/ s.suggested \in 1 .. 3
  \/ s.suggested = 0 /\ ~ s.applied /\ s.nothing_done \in 1 .. 5

\* Mutant: the pause is not counted to its end.
PauseForever(s) ==
  CASE s.suggested # 0 -> [s EXCEPT !.suggested = @ + 1]
    [] s.suggested = 0 /\ s.applied -> [s EXCEPT !.applied = FALSE]
    [] OTHER -> IF s.nothing_done = 0 THEN s ELSE [s EXCEPT !.nothing_done = @ + 1]

Pause(s) ==
  CASE s.suggested # 0 ->
         [s EXCEPT !.suggested = IF @ > 3 THEN 0 ELSE @ + 1,
                   !.applied = IF Skips(s) THEN @ ELSE FALSE]
    [] s.suggested = 0 /\ s.applied -> [s EXCEPT !.applied = FALSE]
    [] s.suggested = 0 /\ ~ s.applied /\ s.nothing_done # 0 ->
         [s EXCEPT !.nothing_done = IF @ > 5 THEN 0 ELSE @ + 1]
    [] OTHER -> s

-----------------------------------------------------------------------------
(* check_if_bitrate_too_low. *)

\* The command is run; what an uninitialised one does is not known to sysctl.
Apply(s, size) ==
  /\ search' = [s EXCEPT !.aApplyDefTunBest = size, !.applied = TRUE]
  /\ kmaximum' = IF size = Unset THEN kmaximum ELSE size

NothingDone(s) ==
  /\ search' = [s EXCEPT !.nothing_done = 1]
  /\ UNCHANGED kmaximum

\* Mutant: no lower limit.
LowerAnyway(s) ==
  Apply(s, IF kmaximum > KTUNING_DELTA THEN kmaximum - KTUNING_DELTA ELSE 0)

Lower(s) ==
  IF kmaximum > LowestToLower THEN Apply(s, kmaximum - KTUNING_DELTA) ELSE NothingDone(s)

check_if_bitrate_too_low(s) ==
  \/ /\ my_tune_max = 0
     /\ search' = s
     /\ UNCHANGED kmaximum
  \/ /\ my_tune_max # 0
     /\ my_tune_max <= kmaximum
     /\ NothingDone(s)
  \/ /\ kmaximum < my_tune_max
     /\ gTuningMode
     /\ CASE s.tune = 1 -> Apply(s, kmaximum + KTUNING_DELTA)
          [] s.tune = 2 -> Lower(s)
          [] s.tune = 3 -> Apply(s, s.aApplyDefTunBest)
          [] OTHER -> NothingDone(s)
  \/ /\ kmaximum < my_tune_max
     /\ ~ gTuningMode
     /\ search' = [s EXCEPT !.suggested = 1]
     /\ UNCHANGED kmaximum

-----------------------------------------------------------------------------
\* One tick of fDoRunGetThresholds; read says whether sysctl could be read.
Tick(average, read) ==
  LET compared == Compare(search, average)
      paused   == Pause(compared)
  IN  /\ running
      /\ last' = [rate |-> average, read |-> read]
      /\ \/ /\ \/ Skips(compared)
               \/ average < OneGigabit
               \/ average >= vGoodBitrateValue
               \/ ~ read
            /\ search' = paused
            /\ UNCHANGED kmaximum
         \/ /\ ~ Skips(compared)
            /\ average >= OneGigabit
            /\ average < vGoodBitrateValue
            /\ read
            /\ check_if_bitrate_too_low(paused)
      /\ UNCHANGED <<gTuningMode, running, initial>>

\* bpftrace could not be started or wrote nothing: the thread returns.
NotWorking ==
  /\ running
  /\ running' = FALSE
  /\ UNCHANGED <<kmaximum, search, gTuningMode, last, initial>>

\* The command "-l#" of the HTTP interface.
SetTuningMode(on) ==
  /\ gTuningMode' = on
  /\ UNCHANGED <<kmaximum, search, running, last, initial>>

\* The command "-t" of the HTTP interface runs what the assessment at the start
\* saved, which sets the recommended size if a smaller one was found then.
ApplyRecommended ==
  /\ initial < my_tune_max
  /\ kmaximum' = my_tune_max
  /\ UNCHANGED <<search, gTuningMode, running, last, initial>>

Ticks == \E average \in Rates, read \in BOOLEAN : Tick(average, read)

Next ==
  \/ Ticks
  \/ NotWorking
  \/ \E on \in Commands : SetTuningMode(on)
  \/ ApplyRecommended

Spec == Init /\ [][Next]_vars

(* While the thread lives it looks at the link every second. *)
FairSpec == Spec /\ WF_vars(Ticks)

-----------------------------------------------------------------------------
(* The search keeps the buffer within bounds, whatever the rates do, when  *)
(* the command -t changes the size under it, and whichever of its commands *)
(* it repeats at its end: it never goes below the lowest size it lowers    *)
(* to, nor below the size that was found if that is smaller, and never     *)
(* KTUNING_DELTA above the recommended size, unless it was found there.    *)
(* The comparisons are made with the size that is in force, so the command *)
(* that is repeated must have been in bounds.                              *)
InBounds(size) ==
  \/ size = initial
  \/ /\ size >= initial \/ size >= LowestToLower - KTUNING_DELTA
     /\ size <= my_tune_max + KTUNING_DELTA

WmemInBounds ==
  /\ InBounds(kmaximum)
  /\ \A size \in {search.aApplyDefTunBest, search.best_wmem_val} :
       size # Unset => InBounds(size)

Steady(r) == running /\ gTuningMode /\ last = [rate |-> r, read |-> TRUE]
LowRates == {r \in Rates : OneGigabit <= r /\ r < vGoodBitrateValue}

(* The search comes to an end: while a transfer runs at a steady rate that *)
(* is too low, the thread finds again and again that there is nothing to   *)
(* do and pauses, whether it reached a bound or ran out of applications.   *)
SteadySearchEnds ==
  my_tune_max # 0 => \A r \in LowRates : <>[]Steady(r) => []<>(search.nothing_done # 0)

(* An equal rate is a new best and the direction after a best rate is      *)
(* down: a transfer that holds its highest rate loses its buffer, which is *)
(* lowered to the lowest size, unless it is as large as recommended.       *)
SteadyBestShrinks ==
  \A r \in LowRates :
    <>[](Steady(r) /\ search.highest = r)
      => <>[](kmaximum <= LowestToLower \/ kmaximum >= my_tune_max)

=============================================================================
