--------------------------- MODULE PacingControl ---------------------------
(***************************************************************************)
(* How the source DTN, in userspace/user_dtn.c, limits the rate of its     *)
(* network device and lifts the limit again.  The limit is the root qdisc  *)
(* of the device, changed with the command tc; what was done to it is      *)
(* remembered in the shared memory segment shm.  Nothing locks the two.    *)
(*                                                                         *)
(* They are used by child processes, one per message of a destination DTN  *)
(* (fDoQinfoAssessment2, fDoResetPacing2, fDoCleanupResetPacing2), by the  *)
(* idle branch of fDoRunGetThresholds and, when gUseApacheKafka is set, by *)
(* the Kafka consumer (fDoQinfoAssessmentKafka) instead of the children.   *)
(* A child works on what the globals were when it was forked.  The last    *)
(* two are threads of one process and share its globals, among them the    *)
(* buffer sResetPacingBack that shm_read fills and shm_write copies back.  *)
(* A child has that buffer to itself, so for a child shm_read and the      *)
(* decision are one step, and the assignment and shm_write are another.    *)
(*                                                                         *)
(* Rates are in tenths of Gb/s.                                            *)
(***************************************************************************)
EXTENDS Naturals

CONSTANTS
  Children,         \* children that can be alive at once
  Idler,            \* the thread fDoRunGetThresholds
  Kafka,            \* the thread fDoRunKafkaConsume
  Rates,            \* transmission rates the link may show
  Residuals,        \* residual bandwidths a Kafka message may report
  netDeviceSpeed,
  Originals,        \* kinds of the root qdisc before any pacing: "default", and
                    \* "fq" if the NIC recommendations were applied
  Scenarios         \* the sets of events that may happen in a behaviour: "overlap",
                    \* children can overlap, "command", the operator can change
                    \* gTuningMode, and "kafka", the program was started with Kafka

ASSUME ActorAssumption == Idler # Kafka /\ {Idler, Kafka} \cap Children = {}
ASSUME RateAssumption ==
  /\ Rates \subseteq Nat
  /\ Residuals \subseteq Nat
  /\ netDeviceSpeed \in Nat
ASSUME OriginalAssumption == Originals \subseteq {"default", "fq"}
ASSUME ScenarioAssumption == Scenarios \subseteq SUBSET {"overlap", "command", "kafka"}

VARIABLES
  shm,                       \* the segment
  sResetPacingBack,          \* the buffer of the threads
  qdisc,                     \* the root qdisc of the device
  actor,                     \* where each child and thread is, and its decision
  gTuningMode,
  vGlobal_average_tx,        \* vGlobal_average_tx_Gbits_per_sec
  vCanStartEvaluationTimer,
  busy,                      \* the link carries traffic
  events                     \* those of this behaviour

globals == <<gTuningMode, vGlobal_average_tx, vCanStartEvaluationTimer, busy, events>>
vars == <<shm, sResetPacingBack, qdisc, actor, globals>>

gUseApacheKafka == "kafka" \in events

REGULAR_PACING_FLAG_SET == 1
NOPACING_FLAG_SET       == 99
FlagValues == {0, REGULAR_PACING_FLAG_SET, NOPACING_FLAG_SET}

Actors == Children \cup {Idler, Kafka}

Jobs == {"QINFO_hop", "QINFO_retrans", "RESET_PACING", "CLEANUP_RESET_PACING",
         "idle", "kafka"}

(***************************************************************************)
(* The points of an actor: before shm_read ("read") and before the         *)
(* decision; before a tc command ("del" and "add" of the initial setup,    *)
(* "change", "nopacing", and "remove", the del of a reset); before the     *)
(* assignment to sResetPacingBack and before shm_write; and at the end, if *)
(* something is left to do ("average", "timer").                           *)
(***************************************************************************)
Points == {"away", "read", "decide", "del", "add", "change", "nopacing", "remove",
           "assign", "write", "average", "timer"}

Segments == [set : FlagValues, current_pacing : Nat]

TypeOK ==
  /\ shm \in Segments
  /\ sResetPacingBack \in Segments
  /\ qdisc \in [kind : {"default", "fq", "nopacing", "paced"}, rate : Nat]
  /\ actor \in [Actors -> [at : Points, job : Jobs, tuning : BOOLEAN, new : Nat,
                           total : Nat, flag : FlagValues,
                           then : {"end", "remove", "nopacing"}]]
  /\ gTuningMode \in BOOLEAN
  /\ vGlobal_average_tx \in Nat
  /\ vCanStartEvaluationTimer \in BOOLEAN
  /\ busy \in BOOLEAN
  /\ events \in Scenarios

Away == [at |-> "away", job |-> "idle", tuning |-> FALSE, new |-> 0, total |-> 0,
         flag |-> 0, then |-> "end"]

Init ==
  /\ shm = [set |-> 0, current_pacing |-> 0]
  /\ sResetPacingBack = [set |-> 0, current_pacing |-> 0]
  /\ \E k \in Originals : qdisc = [kind |-> k, rate |-> 0]
  /\ actor = [a \in Actors |-> Away]
  /\ gTuningMode = TRUE
  /\ vGlobal_average_tx = 0
  /\ vCanStartEvaluationTimer = TRUE
  /\ busy = FALSE
  /\ events \in Scenarios

GoTo(a, point) == actor' = [actor EXCEPT ![a].at = point]
Begin(a, r) == actor' = [actor EXCEPT ![a] = r]
Finished(a) == Begin(a, IF a = Idler THEN [Away EXCEPT !.at = "average"] ELSE Away)

-----------------------------------------------------------------------------
(* The environment: traffic comes and goes, the operator changes the mode. *)

Traffic ==
  /\ busy' = ~ busy
  /\ UNCHANGED <<shm, sResetPacingBack, qdisc, actor, gTuningMode, vGlobal_average_tx,
                 vCanStartEvaluationTimer, events>>

SetTuningMode(on) ==
  /\ "command" \in events
  /\ gTuningMode' = on
  /\ UNCHANGED <<shm, sResetPacingBack, qdisc, actor, vGlobal_average_tx,
                 vCanStartEvaluationTimer, busy, events>>

-----------------------------------------------------------------------------
(* What makes an actor look at shm. *)

\* Mutant: no lower limit.
PacingValueNoFloor(tx) ==
  LET v == (tx * 9) \div 10 IN IF v > 340 THEN 400 ELSE v

\* vNewPacingValue of fDoQinfoAssessment2, with vMaxPacingRate at its default.
PacingValue(tx) ==
  LET v == (tx * 9) \div 10
  IN  IF v > 340 THEN 400 ELSE IF v < 20 THEN 20 ELSE v

\* A message comes and a child is forked for it.  A QINFO message gets as far
\* as shm if the peer is found, the link transmits, and either it reports a
\* hop delay or the retransmission rate is over its threshold; a RESET_PACING
\* message if the peer is found.  Others change nothing and are left out.
Fork(c, job) ==
  /\ ~ gUseApacheKafka
  /\ actor[c].at = "away"
  /\ "overlap" \in events \/ \A d \in Children : actor[d].at = "away"
  /\ job \in {"QINFO_hop", "QINFO_retrans"} => vGlobal_average_tx # 0
  /\ Begin(c, [Away EXCEPT !.at = "decide", !.job = job, !.tuning = gTuningMode,
                           !.new = IF job \in {"QINFO_hop", "QINFO_retrans"}
                                   THEN PacingValue(vGlobal_average_tx) ELSE 0])
  /\ UNCHANGED <<shm, sResetPacingBack, qdisc, globals>>

\* fDoQinfoAssessmentKafka is called with a residual bandwidth.
KafkaMessage(residual) ==
  /\ gUseApacheKafka
  /\ actor[Kafka].at = "away"
  /\ vGlobal_average_tx # 0
  /\ LET total == vGlobal_average_tx + residual
         v     == (total * 95) \div 100
     IN  Begin(Kafka, [Away EXCEPT !.at = "read", !.job = "kafka",
                                   !.new = IF v > 340 THEN 400 ELSE v,
                                   !.total = total])
  /\ UNCHANGED <<shm, sResetPacingBack, qdisc, globals>>

\* A second with traffic, which may be received only.
BusyTick(r) ==
  /\ busy
  /\ actor[Idler].at = "away"
  /\ vGlobal_average_tx' = r
  /\ UNCHANGED <<shm, sResetPacingBack, qdisc, actor, gTuningMode,
                 vCanStartEvaluationTimer, busy, events>>

\* A second without.
IdleTick ==
  /\ ~ busy
  /\ actor[Idler].at = "away"
  /\ Begin(Idler, [Away EXCEPT !.at = "read", !.job = "idle"])
  /\ UNCHANGED <<shm, sResetPacingBack, qdisc, globals>>

Average ==
  /\ actor[Idler].at = "average"
  /\ vGlobal_average_tx' = 0
  /\ GoTo(Idler, "away")
  /\ UNCHANGED <<shm, sResetPacingBack, qdisc, gTuningMode, vCanStartEvaluationTimer, busy,
                 events>>

-----------------------------------------------------------------------------
(* The decision, from the buffer just read. *)

shm_read(a) ==
  /\ actor[a].at = "read"
  /\ sResetPacingBack' = shm
  /\ GoTo(a, "decide")
  /\ UNCHANGED <<shm, qdisc, globals>>

\* The tc command first, then the flag and the value.
TcFirst(a, command, flag, value) ==
  Begin(a, [Away EXCEPT !.at = command, !.flag = flag, !.new = value,
                        !.total = actor[a].total])

\* The flag first and no value, then the tc command.
FlagFirst(a, flag, command) ==
  Begin(a, [Away EXCEPT !.at = "assign", !.flag = flag, !.then = command])

\* fDoQinfoAssessment2.  Without a hop delay the flag is always the regular one.
DecideQinfo(a, set, new) ==
  CASE set = 0 ->
         TcFirst(a, "del", REGULAR_PACING_FLAG_SET, IF new > 340 THEN 340 ELSE new)
    [] set # 0 /\ new # 400 -> TcFirst(a, "change", REGULAR_PACING_FLAG_SET, new)
    [] set = REGULAR_PACING_FLAG_SET /\ new = 400 ->
         TcFirst(a, "nopacing", IF actor[a].job = "QINFO_hop" THEN NOPACING_FLAG_SET
                                ELSE REGULAR_PACING_FLAG_SET, new)
    [] OTHER -> Finished(a)

\* Mutants: the flag is counted up, and the tc command is forgotten.
ResetCountsUp(a, set) ==
  IF set = REGULAR_PACING_FLAG_SET THEN FlagFirst(a, set + 1, "nopacing") ELSE Finished(a)

ResetFlagOnly(a, set) ==
  IF set = REGULAR_PACING_FLAG_SET THEN FlagFirst(a, NOPACING_FLAG_SET, "end")
                                   ELSE Finished(a)

DecideReset(a, set) ==
  IF set = REGULAR_PACING_FLAG_SET THEN FlagFirst(a, NOPACING_FLAG_SET, "nopacing")
                                   ELSE Finished(a)

\* Mutants: tc runs before the flag is cleared, tc does not run, and a limit
\* that was lifted is taken for one that was removed.
CleanupTcFirst(a, set) == IF set # 0 THEN TcFirst(a, "nopacing", 0, 0) ELSE Finished(a)

CleanupFlagOnly(a, set) == IF set # 0 THEN FlagFirst(a, 0, "end") ELSE Finished(a)

CleanupRegularOnly(a, set) ==
  IF set = REGULAR_PACING_FLAG_SET THEN FlagFirst(a, 0, "remove") ELSE Finished(a)

\* fDoCleanupResetPacing2, and the idle branch of fDoRunGetThresholds.
DecideCleanup(a, set) == IF set # 0 THEN FlagFirst(a, 0, "remove") ELSE Finished(a)

DecideKafka(a, set, current, new) ==
  LET lift   == \/ actor[a].total * 100 >= netDeviceSpeed * 95
                \/ new * 100 >= netDeviceSpeed * 95
      useful == new * 10 >= netDeviceSpeed
  IN  CASE ~ vCanStartEvaluationTimer -> Finished(a)
        [] vCanStartEvaluationTimer /\ lift -> DecideReset(a, set)
        [] vCanStartEvaluationTimer /\ ~ lift /\ useful /\ set = 0 ->
             TcFirst(a, "del", REGULAR_PACING_FLAG_SET, new)
        [] vCanStartEvaluationTimer /\ ~ lift /\ useful /\ set # 0 /\ current * 95 # new * 100 ->
             TcFirst(a, "change", REGULAR_PACING_FLAG_SET, new)
        [] OTHER -> Finished(a)

\* In learning mode every one of them only logs what it would do.
Decide(a) ==
  LET buffer == IF a \in Children THEN shm ELSE sResetPacingBack
      tuning == IF a \in Children THEN actor[a].tuning ELSE gTuningMode
  IN  /\ actor[a].at = "decide"
      /\ CASE ~ tuning -> Finished(a)
           [] tuning /\ actor[a].job \in {"QINFO_hop", "QINFO_retrans"} ->
                DecideQinfo(a, buffer.set, actor[a].new)
           [] tuning /\ actor[a].job = "RESET_PACING" -> DecideReset(a, buffer.set)
           [] tuning /\ actor[a].job \in {"CLEANUP_RESET_PACING", "idle"} ->
                DecideCleanup(a, buffer.set)
           [] tuning /\ actor[a].job = "kafka" ->
                DecideKafka(a, buffer.set, buffer.current_pacing, actor[a].new)
      /\ UNCHANGED <<shm, sResetPacingBack, qdisc, globals>>

-----------------------------------------------------------------------------
(* tc: del leaves the default qdisc, which can be neither changed nor      *)
(* deleted; add fails if there is another one already.                     *)

TcDel == qdisc' = [kind |-> "default", rate |-> 0]
TcAdd(r) ==
  qdisc' = IF qdisc.kind = "default" THEN [kind |-> "paced", rate |-> r] ELSE qdisc
TcChange(r) ==
  qdisc' = IF qdisc.kind # "default" THEN [kind |-> "paced", rate |-> r] ELSE qdisc
TcNopacing ==
  qdisc' = IF qdisc.kind # "default" THEN [kind |-> "nopacing", rate |-> 0] ELSE qdisc

\* The calls of system: the last command of an actor's job ends the job.
SetUp(a) ==
  \/ /\ actor[a].at = "del"
     /\ TcDel
     /\ GoTo(a, "add")
     /\ UNCHANGED <<shm, sResetPacingBack, globals>>
  \/ /\ actor[a].at = "add"
     /\ TcAdd(actor[a].new)
     /\ GoTo(a, "assign")
     /\ UNCHANGED <<shm, sResetPacingBack, globals>>

Change(a) ==
  /\ actor[a].at = "change"
  /\ TcChange(actor[a].new)
  /\ GoTo(a, "assign")
  /\ UNCHANGED <<shm, sResetPacingBack, globals>>

AfterTc(a) ==
  IF actor[a].then = "end" THEN GoTo(a, "assign")
  ELSE IF a = Kafka THEN GoTo(a, "timer") ELSE Finished(a)

Nopacing(a) ==
  /\ actor[a].at = "nopacing"
  /\ TcNopacing
  /\ AfterTc(a)
  /\ UNCHANGED <<shm, sResetPacingBack, globals>>

Remove(a) ==
  /\ actor[a].at = "remove"
  /\ TcDel
  /\ Finished(a)
  /\ UNCHANGED <<shm, sResetPacingBack, globals>>

AfterWrite(a) ==
  IF actor[a].then # "end" THEN GoTo(a, actor[a].then)
  ELSE IF a = Kafka THEN GoTo(a, "timer") ELSE Finished(a)

Result(a) == [set |-> actor[a].flag, current_pacing |-> actor[a].new]

Assign(a) ==
  /\ actor[a].at = "assign"
  /\ a \notin Children
  /\ sResetPacingBack' = Result(a)
  /\ GoTo(a, "write")
  /\ UNCHANGED <<shm, qdisc, globals>>

shm_write(a) ==
  /\ \/ a \in Children /\ actor[a].at = "assign" /\ shm' = Result(a)
     \/ a \notin Children /\ actor[a].at = "write" /\ shm' = sResetPacingBack
  /\ AfterWrite(a)
  /\ UNCHANGED <<sResetPacingBack, qdisc, globals>>

\* The Kafka consumer ends with fStartEvaluationTimer, and the timer expires.
StartEvaluation ==
  /\ actor[Kafka].at = "timer"
  /\ vCanStartEvaluationTimer' = FALSE
  /\ Begin(Kafka, Away)
  /\ UNCHANGED <<shm, sResetPacingBack, qdisc, gTuningMode, vGlobal_average_tx, busy, events>>

EndEvaluation ==
  /\ ~ vCanStartEvaluationTimer
  /\ vCanStartEvaluationTimer' = TRUE
  /\ UNCHANGED <<shm, sResetPacingBack, qdisc, actor, gTuningMode, vGlobal_average_tx, busy,
                 events>>

-----------------------------------------------------------------------------
Step(a) ==
  \/ shm_read(a)
  \/ Decide(a)
  \/ SetUp(a)
  \/ Change(a)
  \/ Nopacing(a)
  \/ Remove(a)
  \/ Assign(a)
  \/ shm_write(a)

Next ==
  \/ Traffic
  \/ \E on \in BOOLEAN : SetTuningMode(on)
  \/ \E c \in Children, job \in Jobs \ {"idle", "kafka"} : Fork(c, job)
  \/ \E residual \in Residuals : KafkaMessage(residual)
  \/ \E r \in Rates : BusyTick(r)
  \/ IdleTick
  \/ Average
  \/ \E a \in Actors : Step(a)
  \/ StartEvaluation
  \/ EndEvaluation

Spec == Init /\ [][Next]_vars

(***************************************************************************)
(* Threads and children keep running, the monitor looks at the link every  *)
(* second and the timer expires.  Messages, traffic and commands are up to *)
(* the environment.                                                        *)
(***************************************************************************)
Fairness ==
  /\ \A a \in Actors : WF_vars(Step(a))
  /\ WF_vars(IdleTick)
  /\ WF_vars(Average)
  /\ WF_vars(StartEvaluation)
  /\ WF_vars(EndEvaluation)

FairSpec == Spec /\ Fairness

-----------------------------------------------------------------------------
(* An actor that is about to make the flag and the qdisc agree again.      *)
SetterAt(a) ==
  actor[a].at \in {"assign", "write"} /\ actor[a].then = "end"
RemoverAt(a) == actor[a].at = "remove"

(* While the device is limited and the shared flag says that it is not, a  *)
(* child or thread is under way that will set the flag or remove the limit. *)
Remembered ==
  qdisc.kind = "paced" /\ shm.set = 0 => \E a \in Actors : SetterAt(a) \/ RemoverAt(a)

(* Pacing is never forgotten without Kafka.  Setters run tc before they    *)
(* write the flag, resetters clear it before they run tc; this holds in    *)
(* either order of their steps, by any number of children and the idle     *)
(* branch.                                                                 *)
PacingIsRemembered == gUseApacheKafka \/ Remembered

(* The consumer writes the segment from a buffer whose flag the idle       *)
(* branch has cleared or read anew since the consumer assigned its own.    *)
LostWrite ==
  /\ actor[Kafka].at = "write" /\ shm' = sResetPacingBack
  /\ actor[Kafka].flag # 0 /\ sResetPacingBack.set = 0

(* With Kafka it is forgotten in one way only: the step that makes the     *)
(* limit and the flag disagree with nobody left to mend it is the          *)
(* consumer's shm_write at the end of the race for sResetPacingBack.  No   *)
(* other order of the two threads' reads, decisions, commands and writes,  *)
(* and no evaluation or change of mode between them, forgets a limit.      *)
OnlyLostWritesForget == [][Remembered /\ ~ Remembered' => LostWrite]_vars

Quiet == \A a \in Actors : actor[a].at \in {"away", "read", "average", "timer"}

(* A flag that says NOPACING is true: a RESET_PACING message that finds it *)
(* may well do nothing.  This needs children that do not overlap, because  *)
(* of two QINFO messages one may lift the limit and the other set it, and  *)
(* their flags may be written in the other order.                          *)
NopacingIsUnlimited ==
  {"overlap", "kafka"} \cap events = {} /\ Quiet /\ shm.set = NOPACING_FLAG_SET
    => qdisc.kind # "paced"

(* A limit is between 2 and 34 Gb/s, however the link's rate and the flag  *)
(* change between a child's fork, its decision and its command.  One that  *)
(* Kafka set is at least a tenth of the speed of the device.               *)
LimitInRange ==
  qdisc.kind = "paced" =>
     IF gUseApacheKafka THEN qdisc.rate * 10 >= netDeviceSpeed
                        ELSE qdisc.rate \in 20 .. 340

(* The pacing will be set back after the transfer is over: when the link   *)
(* stays idle and tuning mode stays on, the limit is removed for good and  *)
(* the flag is clear.                                                      *)
PacingIsSetBack ==
  <>[](~ busy /\ gTuningMode) => <>[](qdisc.kind # "paced" /\ shm.set = 0)

(* The same in either mode, unless the limit has been forgotten, which     *)
(* PacingIsRemembered excludes without Kafka and OnlyLostWritesForget puts *)
(* down to one race with it.                                               *)
SetBackUnlessForgotten == PacingIsSetBack \/ <>[](~ Remembered)

=============================================================================
