------------------------ MODULE PacingControl_proofs ------------------------
(***************************************************************************)
(* Proofs about the pacing of the source DTN, for any number of children   *)
(* and any rates.                                                          *)
(***************************************************************************)
EXTENDS PacingControl, TLAPS

(* What is left to do is consistent: an actor that runs tc first, or that  *)
(* lifts the limit, will write a flag that is not zero; one that clears    *)
(* the flag will remove the qdisc after it.                                *)
PlanInv ==
  \A a \in Actors :
    /\ actor[a].at \in {"del", "add", "change"} => actor[a].then = "end" /\ actor[a].flag # 0
    /\ actor[a].at = "nopacing" => actor[a].flag # 0
    /\ actor[a].at \in {"assign", "write"} => (actor[a].flag = 0 <=> actor[a].then = "remove")
    /\ actor[a].at = "write" => a \notin Children

(* Without Kafka the idle branch has the buffer to itself. *)
BufferInv ==
  /\ actor[Kafka].at = "away"
  /\ \A c \in Children : actor[c].at # "read"
  /\ actor[Idler].at = "write" => sResetPacingBack.set = actor[Idler].flag

IInv == TypeOK /\ PlanInv /\ BufferInv /\ Remembered

-----------------------------------------------------------------------------
(* The record of an actor that has nothing to do is one of the records. *)
Records == [at : Points, job : Jobs, tuning : BOOLEAN, new : Nat, total : Nat,
            flag : FlagValues, then : {"end", "remove", "nopacing"}]

(* The record of an actor that does nothing is well typed. *)
LEMMA AwayLemma == Away \in Records /\ Away.at = "away"
  BY DEF Records, Away, Points, Jobs, FlagValues

(* An actor that has finished is away, the idle branch about to average. *)
LEMMA FinishedLemma ==
  ASSUME NEW a \in Actors, Finished(a)
  PROVE  \E r \in Records : r.at \in {"away", "average"} /\ actor' = [actor EXCEPT ![a] = r]
  <1> DEFINE r == IF a = Idler THEN [Away EXCEPT !.at = "average"] ELSE Away
  <1>1. r \in Records /\ r.at \in {"away", "average"}
    BY DEF Away, Records, Points, Jobs, FlagValues
  <1>2. actor' = [actor EXCEPT ![a] = r]
    BY DEF Finished, Begin
  <1> QED BY <1>1, <1>2

(* The limits that are computed are natural numbers. *)
LEMMA PacingValueLemma == \A tx \in Nat : PacingValue(tx) \in Nat
  <1> TAKE tx \in Nat
  <1>1. (tx * 9) \div 10 \in Nat
    OBVIOUS
  <1> QED BY <1>1 DEF PacingValue

(* What a decision can come to: nothing, a tc command followed by a flag   *)
(* that is not zero, the regular one if the command sets a limit, or a     *)
(* flag followed by the tc command that fits it.                           *)
LEMMA DecideLemma ==
  ASSUME NEW a \in Actors, TypeOK, Decide(a)
  PROVE  \/ Finished(a)
         \/ \E command \in {"del", "change", "nopacing"}, flag \in FlagValues \ {0},
               value \in Nat :
                 /\ command # "nopacing" => flag = REGULAR_PACING_FLAG_SET
                 /\ TcFirst(a, command, flag, value)
         \/ FlagFirst(a, 0, "remove")
         \/ FlagFirst(a, NOPACING_FLAG_SET, "nopacing")
  <1> DEFINE Tc == \E command \in {"del", "change", "nopacing"}, flag \in FlagValues \ {0},
                      value \in Nat :
                        /\ command # "nopacing" => flag = REGULAR_PACING_FLAG_SET
                        /\ TcFirst(a, command, flag, value)
             buffer == IF a \in Children THEN shm ELSE sResetPacingBack
             new == actor[a].new
  <1>1. new \in Nat /\ buffer \in Segments /\ buffer.set \in FlagValues
        /\ buffer.current_pacing \in Nat /\ actor[a].job \in Jobs
    BY DEF TypeOK, Segments
  <1> USE DEF REGULAR_PACING_FLAG_SET, NOPACING_FLAG_SET, FlagValues
  <1>2. ASSUME NEW set \in FlagValues, DecideReset(a, set)
        PROVE  Finished(a) \/ FlagFirst(a, NOPACING_FLAG_SET, "nopacing")
    BY <1>2 DEF DecideReset
  <1>3. ASSUME NEW set \in FlagValues, DecideCleanup(a, set)
        PROVE  Finished(a) \/ FlagFirst(a, 0, "remove")
    BY <1>3 DEF DecideCleanup
  <1>4. ASSUME NEW set \in FlagValues, DecideQinfo(a, set, new)
        PROVE  Finished(a) \/ Tc
    <2>1. \/ Finished(a)
          \/ TcFirst(a, "del", 1, IF new > 340 THEN 340 ELSE new)
          \/ TcFirst(a, "change", 1, new)
          \/ TcFirst(a, "nopacing", 99, new)
          \/ TcFirst(a, "nopacing", 1, new)
      BY <1>4 DEF DecideQinfo
    <2>2. (IF new > 340 THEN 340 ELSE new) \in Nat
      BY <1>1
    <2> QED BY <1>1, <2>1, <2>2
  <1>5. ASSUME NEW set \in FlagValues, NEW current \in Nat,
               DecideKafka(a, set, current, new)
        PROVE  Finished(a) \/ Tc \/ FlagFirst(a, NOPACING_FLAG_SET, "nopacing")
    <2>1. \/ Finished(a)
          \/ DecideReset(a, set)
          \/ TcFirst(a, "del", 1, new)
          \/ TcFirst(a, "change", 1, new)
      BY <1>5 DEF DecideKafka
    <2> QED BY <1>1, <1>2, <2>1
  <1>6. \/ Finished(a)
        \/ DecideQinfo(a, buffer.set, new)
        \/ DecideReset(a, buffer.set)
        \/ DecideCleanup(a, buffer.set)
        \/ DecideKafka(a, buffer.set, buffer.current_pacing, new)
    BY <1>1 DEF Decide, Jobs
  <1> QED BY <1>1, <1>2, <1>3, <1>4, <1>5, <1>6

(* The inductive invariant holds when the segment has just been created. *)
LEMMA InitIInv == Init => IInv
  <1> SUFFICES ASSUME Init PROVE IInv
    OBVIOUS
  <1>1. \A a \in Actors : actor[a] = Away /\ Away.at = "away"
    BY DEF Init, Away
  <1>2. TypeOK
    <2>1. qdisc \in [kind : {"default", "fq", "nopacing", "paced"}, rate : Nat]
      BY OriginalAssumption DEF Init
    <2>2. actor \in [Actors -> Records]
      BY AwayLemma DEF Init
    <2> QED BY <2>1, <2>2 DEF Init, TypeOK, Records, Segments, FlagValues
  <1>3. PlanInv
    BY <1>1 DEF PlanInv
  <1>4. BufferInv
    BY <1>1 DEF BufferInv, Actors
  <1>5. Remembered
    BY OriginalAssumption DEF Init, Remembered
  <1> QED BY <1>2, <1>3, <1>4, <1>5 DEF IInv

(* A step that only moves one actor, between two points where it leaves    *)
(* nobody waiting for it, preserves the inductive invariant.               *)
LEMMA MoveLemma ==
  ASSUME IInv, NEW a \in Actors \ {Kafka}, NEW r \in Records,
         actor' = [actor EXCEPT ![a] = r], UNCHANGED <<shm, sResetPacingBack, qdisc, globals>>,
         actor[a].at \notin {"assign", "write", "remove"},
         r.at \in {"del", "add", "change"} => r.then = "end" /\ r.flag # 0,
         r.at = "nopacing" => r.flag # 0,
         r.at = "assign" => (r.flag = 0 <=> r.then = "remove"),
         r.at # "write", r.at = "read" => a \notin Children
  PROVE  IInv'
  <1> USE ActorAssumption DEF IInv, Actors
  <1>1. TypeOK'
    BY DEF TypeOK, Records, globals
  <1>2. \A b \in Actors : actor'[b] = IF b = a THEN r ELSE actor[b]
    BY DEF TypeOK
  <1>3. PlanInv'
    BY <1>2 DEF PlanInv
  <1>4. BufferInv'
    BY <1>2 DEF BufferInv
  <1>5. Remembered'
    BY <1>2 DEF Remembered, SetterAt, RemoverAt
  <1> QED BY <1>1, <1>3, <1>4, <1>5

(* Each action preserves the inductive invariant. *)
LEMMA NextIInv ==
  ASSUME ~ gUseApacheKafka, IInv, [Next]_vars
  PROVE  IInv'
  <1> USE ActorAssumption, RateAssumption, AwayLemma
  <1> USE DEF IInv, TypeOK, PlanInv, BufferInv, Remembered, SetterAt, RemoverAt,
              Actors, Segments, globals, GoTo, Begin
  <1>1. CASE Traffic
    BY <1>1 DEF Traffic
  <1>2. ASSUME NEW on \in BOOLEAN, SetTuningMode(on) PROVE IInv'
    BY <1>2 DEF SetTuningMode
  <1>3. ASSUME NEW c \in Children, NEW job \in Jobs \ {"idle", "kafka"}, Fork(c, job)
        PROVE IInv'
    <2> DEFINE v == IF job \in {"QINFO_hop", "QINFO_retrans"}
                    THEN PacingValue(vGlobal_average_tx) ELSE 0
               rec == [Away EXCEPT !.at = "decide", !.job = job, !.tuning = gTuningMode,
                                   !.new = v]
    <2>1. v \in Nat
      BY PacingValueLemma
    <2>2. actor' = [actor EXCEPT ![c] = rec] /\ actor[c].at = "away"
      BY <1>3 DEF Fork
    <2>3. rec \in Records /\ rec.at = "decide"
      BY <2>1 DEF Records, Away, Points, FlagValues
    <2> HIDE DEF v, rec
    <2> QED BY <1>3, <2>2, <2>3, MoveLemma DEF Fork
  <1>4. ASSUME NEW r \in Rates, BusyTick(r) PROVE IInv'
    BY <1>4 DEF BusyTick
  <1>5. CASE IdleTick
    <2>1. PICK r \in Records : r.at = "read" /\ actor' = [actor EXCEPT ![Idler] = r]
      BY <1>5 DEF IdleTick, Away, Records, Points, Jobs, FlagValues
    <2> QED BY <1>5, <2>1, MoveLemma DEF IdleTick
  <1>6. CASE Average
    BY <1>6 DEF Average, Points
  <1>7. ASSUME NEW a \in Actors, shm_read(a) PROVE IInv'
    BY <1>7 DEF shm_read, Points
  <1>8. ASSUME NEW a \in Actors, Decide(a) PROVE IInv'
    <2>1. /\ actor[a].at = "decide" /\ a # Kafka
          /\ UNCHANGED <<shm, sResetPacingBack, qdisc, globals>>
      BY <1>8 DEF Decide
    <2>2. CASE Finished(a)
      <3>1. PICK r \in Records : r.at \in {"away", "average"} /\ actor' = [actor EXCEPT ![a] = r]
        BY <2>2, FinishedLemma
      <3> QED BY <2>1, <3>1, MoveLemma
    <2>3. ASSUME NEW command \in {"del", "change", "nopacing"}, NEW flag \in FlagValues \ {0},
                 NEW value \in Nat, TcFirst(a, command, flag, value)
          PROVE  IInv'
      <3>1. PICK r \in Records : /\ r.at \in {"del", "change", "nopacing"}
                                 /\ r.flag # 0 /\ r.then = "end"
                                 /\ actor' = [actor EXCEPT ![a] = r]
        BY <2>3 DEF TcFirst, Away, Records, Points, Jobs
      <3> QED BY <2>1, <3>1, MoveLemma
    <2>4. ASSUME NEW flag \in {0, NOPACING_FLAG_SET}, NEW command \in {"remove", "nopacing"},
                 flag = 0 <=> command = "remove", FlagFirst(a, flag, command)
          PROVE  IInv'
      <3>1. PICK r \in Records : /\ r.at = "assign"
                                 /\ (r.flag = 0 <=> r.then = "remove")
                                 /\ actor' = [actor EXCEPT ![a] = r]
        BY <2>4 DEF FlagFirst, Away, Records, Points, Jobs, FlagValues
      <3> QED BY <2>1, <3>1, MoveLemma
    <2> QED BY <1>8, <2>2, <2>3, <2>4, DecideLemma DEF NOPACING_FLAG_SET
  <1>9. ASSUME NEW a \in Actors, SetUp(a) PROVE IInv'
    BY <1>9 DEF SetUp, TcDel, TcAdd, Points
  <1>10. ASSUME NEW a \in Actors, Change(a) PROVE IInv'
    BY <1>10 DEF Change, TcChange, Points
  <1>11. ASSUME NEW a \in Actors, Nopacing(a) PROVE IInv'
    <2>1. qdisc' \in [kind : {"default", "fq", "nopacing"}, rate : Nat]
      BY <1>11 DEF Nopacing, TcNopacing
    <2>2. CASE actor[a].then = "end"
      BY <1>11, <2>1, <2>2 DEF Nopacing, AfterTc, Points
    <2>3. CASE actor[a].then # "end"
      <3>1. PICK r \in Records : r.at \in {"away", "average"} /\ actor' = [actor EXCEPT ![a] = r]
        <4>1. Finished(a)
          BY <1>11, <2>3 DEF Nopacing, AfterTc
        <4> QED BY <4>1, FinishedLemma
      <3> QED BY <1>11, <2>1, <3>1 DEF Nopacing, Records
    <2> QED BY <2>2, <2>3
  <1>12. ASSUME NEW a \in Actors, Remove(a) PROVE IInv'
    <2>1. PICK r \in Records : r.at \in {"away", "average"} /\ actor' = [actor EXCEPT ![a] = r]
      BY <1>12, FinishedLemma DEF Remove
    <2> QED BY <1>12, <2>1 DEF Remove, TcDel, Records
  <1>13. ASSUME NEW a \in Actors, Assign(a) PROVE IInv'
    BY <1>13 DEF Assign, Result, Points
  <1>14. ASSUME NEW a \in Actors, shm_write(a) PROVE IInv'
    <2>1. shm'.set = actor[a].flag /\ shm' \in Segments /\ actor[a].at \in {"assign", "write"}
      BY <1>14 DEF shm_write, Result
    <2>2. CASE actor[a].then # "end"
      BY <1>14, <2>1, <2>2 DEF shm_write, AfterWrite, Points
    <2>3. CASE actor[a].then = "end"
      <3>1. PICK r \in Records : r.at \in {"away", "average"} /\ actor' = [actor EXCEPT ![a] = r]
        <4>1. Finished(a)
          BY <1>14, <2>1, <2>3 DEF shm_write, AfterWrite
        <4> QED BY <4>1, FinishedLemma
      <3> QED BY <1>14, <2>1, <2>3, <3>1 DEF shm_write, Records
    <2> QED BY <2>2, <2>3
  <1>15. CASE StartEvaluation
    BY <1>15 DEF StartEvaluation
  <1>16. CASE EndEvaluation
    BY <1>16 DEF EndEvaluation
  <1>17. ASSUME NEW residual \in Residuals, KafkaMessage(residual) PROVE IInv'
    BY <1>17 DEF KafkaMessage
  <1>18. CASE UNCHANGED vars
    BY <1>18 DEF vars
  <1> QED
    BY <1>1, <1>2, <1>3, <1>4, <1>5, <1>6, <1>7, <1>8, <1>9, <1>10, <1>11, <1>12, <1>13,
       <1>14, <1>15, <1>16, <1>17, <1>18 DEF Next, Step

(* The mode is that of the start: no step changes it. *)
LEMMA ModeStays == [Next]_vars => (gUseApacheKafka' <=> gUseApacheKafka)
  <1> SUFFICES ASSUME [Next]_vars PROVE events' = events
    BY DEF gUseApacheKafka
  <1>1. CASE UNCHANGED vars
    BY <1>1 DEF vars, globals
  <1>2. CASE Next
    BY <1>2 DEF Next, Traffic, SetTuningMode, Fork, KafkaMessage, BusyTick, IdleTick, Average,
                StartEvaluation, EndEvaluation, Step, shm_read, Decide, SetUp, Change, Nopacing,
                Remove, Assign, shm_write, globals
  <1> QED BY <1>1, <1>2

(* Without Kafka, PacingIsRemembered holds for any number of children: a   *)
(* limit that the shared flag does not show is always about to be flagged  *)
(* or removed by a child or by the idle branch.                            *)
THEOREM PacingRemembered == Spec => []PacingIsRemembered
  <1>1. Init => gUseApacheKafka \/ IInv
    BY InitIInv
  <1>2. (gUseApacheKafka \/ IInv) /\ [Next]_vars => (gUseApacheKafka \/ IInv)'
    BY NextIInv, ModeStays
  <1>3. gUseApacheKafka \/ IInv => PacingIsRemembered
    BY DEF IInv, PacingIsRemembered
  <1> QED BY <1>1, <1>2, <1>3, PTL DEF Spec

-----------------------------------------------------------------------------
(* The limits that are computed from a rate, and 400 for none. *)
QinfoJobs == {"QINFO_hop", "QINFO_retrans"}
Limits == 20 .. 340
LimitsOrNone == Limits \cup {400}

(* What an actor will tell tc is in range: a child carries the value       *)
(* computed at its fork until its decision, and a limit after it.          *)
LimitInv ==
  \A a \in Actors :
    /\ actor[a].at \in {"read", "decide"} =>
         /\ actor[a].job # "kafka"
         /\ actor[a].job \in QinfoJobs => actor[a].new \in LimitsOrNone
    /\ actor[a].at \in {"del", "add", "change"} => actor[a].new \in Limits

PeerLimit == qdisc.kind = "paced" => qdisc.rate \in 20 .. 340

LimitIInv == IInv /\ LimitInv /\ PeerLimit

(* PacingValue is a limit, or the value that stands for no limit. *)
LEMMA PacingValueRange == \A tx \in Nat : PacingValue(tx) \in LimitsOrNone
  <1> TAKE tx \in Nat
  <1>1. (tx * 9) \div 10 \in Nat
    OBVIOUS
  <1> QED BY <1>1 DEF PacingValue, Limits, LimitsOrNone

(* An actor that moves to a record that carries no limit, or one in range, *)
(* preserves LimitInv.                                                     *)
LEMMA MoveLimit ==
  ASSUME TypeOK, LimitInv, NEW a \in Actors, NEW r, actor' = [actor EXCEPT ![a] = r],
         r.at \in {"read", "decide"} =>
            r.job # "kafka" /\ (r.job \in QinfoJobs => r.new \in LimitsOrNone),
         r.at \in {"del", "add", "change"} => r.new \in Limits
  PROVE  LimitInv'
  <1>1. \A b \in Actors : actor'[b] = IF b = a THEN r ELSE actor[b]
    BY DEF TypeOK
  <1> QED BY <1>1 DEF LimitInv

(* A decision leads to a tc command with a limit in range. *)
LEMMA DecideLimit ==
  ASSUME NEW a \in Actors, IInv, LimitInv, Decide(a)
  PROVE  LimitInv'
  <1> DEFINE buffer == IF a \in Children THEN shm ELSE sResetPacingBack
             new == actor[a].new
             job == actor[a].job
  <1>a. TypeOK /\ LimitInv
    BY DEF IInv
  <1>1. /\ new \in Nat /\ job \in Jobs /\ job # "kafka"
        /\ job \in QinfoJobs => new \in LimitsOrNone
    BY DEF IInv, TypeOK, LimitInv, Decide
  <1>2. CASE Finished(a)
    <2>1. PICK r \in Records : r.at \in {"away", "average"} /\ actor' = [actor EXCEPT ![a] = r]
      BY <1>2, FinishedLemma
    <2> QED BY <1>a, <2>1, MoveLimit
  <1>3. ASSUME NEW flag, NEW command, FlagFirst(a, flag, command)
        PROVE  LimitInv'
    <2>1. PICK r : r.at = "assign" /\ actor' = [actor EXCEPT ![a] = r]
      BY <1>3 DEF FlagFirst, Begin, Away
    <2> QED BY <1>a, <2>1, MoveLimit
  <1>4. ASSUME NEW command \in {"del", "change", "nopacing"}, NEW flag, NEW value,
               command # "nopacing" => value \in Limits, TcFirst(a, command, flag, value)
        PROVE  LimitInv'
    <2>1. PICK r : /\ r.at = command /\ r.new = value
                   /\ actor' = [actor EXCEPT ![a] = r]
      BY <1>4 DEF TcFirst, Begin, Away
    <2> QED BY <1>a, <1>4, <2>1, MoveLimit
  <1>5. CASE job \in QinfoJobs /\ DecideQinfo(a, buffer.set, new)
    <2>1. \/ Finished(a)
          \/ TcFirst(a, "del", 1, IF new > 340 THEN 340 ELSE new)
          \/ new # 400 /\ TcFirst(a, "change", 1, new)
          \/ TcFirst(a, "nopacing", 99, new)
          \/ TcFirst(a, "nopacing", 1, new)
      BY <1>5 DEF DecideQinfo, REGULAR_PACING_FLAG_SET, NOPACING_FLAG_SET
    <2>2. /\ (IF new > 340 THEN 340 ELSE new) \in Limits
          /\ new # 400 => new \in Limits
      BY <1>1, <1>5 DEF Limits, LimitsOrNone
    <2> QED BY <1>2, <1>4, <2>1, <2>2
  <1>6. \/ Finished(a)
        \/ job \in QinfoJobs /\ DecideQinfo(a, buffer.set, new)
        \/ DecideReset(a, buffer.set)
        \/ DecideCleanup(a, buffer.set)
    BY <1>1 DEF Decide, Jobs, QinfoJobs
  <1>7. CASE DecideReset(a, buffer.set)
    BY <1>2, <1>3, <1>7 DEF DecideReset
  <1>8. CASE DecideCleanup(a, buffer.set)
    BY <1>2, <1>3, <1>8 DEF DecideCleanup
  <1> QED BY <1>2, <1>5, <1>6, <1>7, <1>8

(* Each action preserves LimitInv and PeerLimit. *)
LEMMA NextLimit ==
  ASSUME ~ gUseApacheKafka, LimitIInv, [Next]_vars
  PROVE  LimitInv' /\ PeerLimit'
  <1> USE ActorAssumption, RateAssumption DEF LimitIInv, IInv, PeerLimit
  <1>a. TypeOK /\ BufferInv
    OBVIOUS
  <1>1. ASSUME UNCHANGED <<actor, qdisc>> PROVE LimitInv' /\ PeerLimit'
    BY <1>1 DEF LimitInv
  <1>2. CASE Traffic \/ (\E on \in BOOLEAN : SetTuningMode(on))
             \/ (\E r \in Rates : BusyTick(r)) \/ EndEvaluation \/ UNCHANGED vars
    BY <1>1, <1>2 DEF Traffic, SetTuningMode, BusyTick, EndEvaluation, vars
  <1>3. ASSUME NEW c \in Children, NEW job \in Jobs \ {"idle", "kafka"}, Fork(c, job)
        PROVE  LimitInv' /\ PeerLimit'
    <2> DEFINE v == IF job \in QinfoJobs THEN PacingValue(vGlobal_average_tx) ELSE 0
               rec == [Away EXCEPT !.at = "decide", !.job = job, !.tuning = gTuningMode,
                                   !.new = v]
    <2>1. job \in QinfoJobs => v \in LimitsOrNone
      BY PacingValueRange DEF TypeOK
    <2>2. /\ actor' = [actor EXCEPT ![c] = rec]
          /\ rec.at = "decide" /\ rec.job = job /\ rec.new = v
      BY <1>3 DEF Fork, Begin, Away, QinfoJobs
    <2> HIDE DEF v, rec
    <2>3. PICK r : /\ actor' = [actor EXCEPT ![c] = r] /\ r.at = "decide" /\ r.job # "kafka"
                   /\ r.job \in QinfoJobs => r.new \in LimitsOrNone
      BY <2>1, <2>2
    <2>4. TypeOK /\ LimitInv /\ c \in Actors
      BY DEF Actors
    <2>5. LimitInv'
      BY <2>3, <2>4, MoveLimit
    <2> QED BY <1>3, <2>5 DEF Fork
  <1>4. CASE IdleTick
    <2>1. PICK r : /\ r.at = "read" /\ r.job = "idle"
                   /\ actor' = [actor EXCEPT ![Idler] = r]
      BY <1>4 DEF IdleTick, Begin, Away
    <2>2. Idler \in Actors /\ qdisc' = qdisc
      BY <1>4 DEF Actors, IdleTick
    <2> QED BY <2>1, <2>2, MoveLimit DEF QinfoJobs
  <1>5. CASE Average
    <2>1. Idler \in Actors /\ qdisc' = qdisc
      BY <1>5 DEF Actors, Average
    <2> QED BY <1>5, <2>1 DEF Average, GoTo, LimitInv, TypeOK
  <1>6. ASSUME NEW a \in Actors, shm_read(a) PROVE LimitInv' /\ PeerLimit'
    BY <1>6 DEF shm_read, GoTo, LimitInv, TypeOK
  <1>7. ASSUME NEW a \in Actors, Decide(a) PROVE LimitInv' /\ PeerLimit'
    BY <1>7, DecideLimit DEF Decide
  <1>8. ASSUME NEW a \in Actors, SetUp(a) PROVE LimitInv' /\ PeerLimit'
    BY <1>8 DEF SetUp, TcDel, TcAdd, GoTo, LimitInv, Limits, TypeOK
  <1>9. ASSUME NEW a \in Actors, Change(a) PROVE LimitInv' /\ PeerLimit'
    BY <1>9 DEF Change, TcChange, GoTo, LimitInv, Limits, TypeOK
  <1>10. ASSUME NEW a \in Actors, Finished(a) PROVE LimitInv'
    <2>1. PICK r \in Records : r.at \in {"away", "average"} /\ actor' = [actor EXCEPT ![a] = r]
      BY <1>10, FinishedLemma
    <2> QED BY <2>1, MoveLimit
  <1>11. ASSUME NEW a \in Actors, NEW point \in {"assign", "write", "timer", "nopacing", "remove"},
                GoTo(a, point)
         PROVE  LimitInv'
    BY <1>11 DEF GoTo, LimitInv, TypeOK
  <1>12. ASSUME NEW a \in Actors, Nopacing(a) PROVE LimitInv' /\ PeerLimit'
    <2>1. LimitInv'
      BY <1>10, <1>11, <1>12 DEF Nopacing, AfterTc
    <2> QED BY <1>12, <2>1 DEF Nopacing, TcNopacing
  <1>13. ASSUME NEW a \in Actors, Remove(a) PROVE LimitInv' /\ PeerLimit'
    BY <1>10, <1>13 DEF Remove, TcDel
  <1>14. ASSUME NEW a \in Actors, Assign(a) PROVE LimitInv' /\ PeerLimit'
    BY <1>11, <1>14 DEF Assign
  <1>15. ASSUME NEW a \in Actors, shm_write(a) PROVE LimitInv' /\ PeerLimit'
    <2>1. actor[a].then \in {"end", "remove", "nopacing"}
      BY DEF TypeOK
    <2> QED BY <1>10, <1>11, <1>15, <2>1 DEF shm_write, AfterWrite
  <1>16. ~ StartEvaluation /\ \A residual \in Residuals : ~ KafkaMessage(residual)
    BY DEF StartEvaluation, KafkaMessage, BufferInv
  <1> QED
    BY <1>2, <1>3, <1>4, <1>5, <1>6, <1>7, <1>8, <1>9, <1>12, <1>13, <1>14, <1>15, <1>16
    DEF Next, Step

(* The limits of the first mode start in range and stay there. *)
LEMMA LimitsOfPeers ==
  /\ Init => LimitIInv
  /\ ~ gUseApacheKafka /\ LimitIInv /\ [Next]_vars => LimitIInv'
  <1>1. Init => LimitIInv
    BY InitIInv, OriginalAssumption DEF Init, Away, LimitIInv, LimitInv, PeerLimit
  <1>2. ~ gUseApacheKafka /\ LimitIInv /\ [Next]_vars => LimitIInv'
    BY NextIInv, NextLimit DEF LimitIInv
  <1> QED BY <1>1, <1>2

-----------------------------------------------------------------------------
(* Who does what: a child that sets a limit will write the regular flag,   *)
(* and the idle branch only clears the flag and removes the qdisc.         *)
RoleInv ==
  /\ \A c \in Children : actor[c].at \in {"del", "add", "change"} =>
                            actor[c].flag = REGULAR_PACING_FLAG_SET
  /\ actor[Idler].at \in {"away", "read", "decide", "assign", "write", "remove", "average"}
  /\ actor[Idler].at \in {"read", "decide"} => actor[Idler].job = "idle"
  /\ actor[Idler].at \in {"assign", "write"} => actor[Idler].flag = 0

(* A child that will make a false NOPACING flag true, or overwrite it. *)
Mending(r) ==
  \/ r.at = "assign" /\ r.flag # NOPACING_FLAG_SET
  \/ r.at = "nopacing"

(* Without overlap one child at most is under way; when it has lifted the  *)
(* limit nobody sets one before it writes NOPACING; and while that flag is *)
(* false the child that made it so is still mending it.                    *)
LiftedInv ==
  "overlap" \notin events =>
    /\ \A c, d \in Children : actor[c].at # "away" /\ actor[d].at # "away" => c = d
    /\ \A c \in Children :
         actor[c].at = "assign" /\ actor[c].then = "end" /\ actor[c].flag = NOPACING_FLAG_SET
           => qdisc.kind # "paced"
    /\ qdisc.kind = "paced" /\ shm.set = NOPACING_FLAG_SET =>
         \E c \in Children : Mending(actor[c])

NopacingIInv == IInv /\ RoleInv /\ LiftedInv

(* What a step of one actor has to respect for LiftedInv. *)
LEMMA LiftedMove ==
  ASSUME TypeOK, LiftedInv, NEW a \in Actors, NEW r, actor' = [actor EXCEPT ![a] = r],
         events' = events,
         a \in Children => \/ actor[a].at # "away"
                           \/ "overlap" \in events
                           \/ \A d \in Children : actor[d].at = "away",
         qdisc'.kind = "paced" =>
            qdisc.kind = "paced" \/ (a \in Children /\ actor[a].at # "away"),
         a \in Children /\ r.at = "assign" /\ r.then = "end" /\ r.flag = NOPACING_FLAG_SET
            => qdisc'.kind # "paced",
         qdisc'.kind = "paced" /\ shm'.set = NOPACING_FLAG_SET =>
            \/ a \in Children /\ Mending(r)
            \/ /\ qdisc.kind = "paced" /\ shm.set = NOPACING_FLAG_SET
               /\ a \in Children => ~ Mending(actor[a])
  PROVE  LiftedInv'
  <1> SUFFICES ASSUME "overlap" \notin events PROVE LiftedInv'
    BY DEF LiftedInv
  <1>1. \A b \in Actors : actor'[b] = IF b = a THEN r ELSE actor[b]
    BY DEF TypeOK
  <1>2. Children \subseteq Actors
    BY DEF Actors
  <1>3. \A c, d \in Children : actor'[c].at # "away" /\ actor'[d].at # "away" => c = d
    BY <1>1, <1>2 DEF LiftedInv
  <1>4. ASSUME NEW c \in Children, actor'[c].at = "assign", actor'[c].then = "end",
               actor'[c].flag = NOPACING_FLAG_SET
        PROVE  qdisc'.kind # "paced"
    <2>1. CASE c = a
      BY <1>1, <1>2, <1>4, <2>1
    <2>2. CASE c # a
      BY <1>1, <1>2, <1>4, <2>2 DEF LiftedInv
    <2> QED BY <2>1, <2>2
  <1>5. ASSUME qdisc'.kind = "paced", shm'.set = NOPACING_FLAG_SET
        PROVE  \E c \in Children : Mending(actor'[c])
    BY <1>1, <1>2, <1>5 DEF LiftedInv
  <1> QED BY <1>3, <1>4, <1>5 DEF LiftedInv, Mending

(* A step of one actor that keeps to its role. *)
LEMMA RoleMove ==
  ASSUME TypeOK, RoleInv, NEW a \in Actors, NEW r, actor' = [actor EXCEPT ![a] = r],
         a \in Children /\ r.at \in {"del", "add", "change"} =>
            r.flag = REGULAR_PACING_FLAG_SET,
         a = Idler =>
            /\ r.at \in {"away", "read", "decide", "assign", "write", "remove", "average"}
            /\ r.at \in {"read", "decide"} => r.job = "idle"
            /\ r.at \in {"assign", "write"} => r.flag = 0
  PROVE  RoleInv'
  <1>1. \A b \in Actors : actor'[b] = IF b = a THEN r ELSE actor[b]
    BY DEF TypeOK
  <1>2. Children \subseteq Actors /\ Idler \in Actors /\ Idler \notin Children
    BY ActorAssumption DEF Actors
  <1> QED BY <1>1, <1>2 DEF RoleInv

(* A step from one point to another keeps the rest of the plan. *)
LEMMA GoToLemma ==
  ASSUME TypeOK, NEW a \in Actors, NEW point, GoTo(a, point)
  PROVE  \E r : /\ actor' = [actor EXCEPT ![a] = r] /\ r.at = point
                /\ r.flag = actor[a].flag /\ r.then = actor[a].then /\ r.job = actor[a].job
  <1> DEFINE r == [actor[a] EXCEPT !.at = point]
  <1>1. actor' = [actor EXCEPT ![a] = r]
    BY DEF GoTo
  <1>2. r.at = point /\ r.flag = actor[a].flag /\ r.then = actor[a].then
        /\ r.job = actor[a].job
    BY DEF TypeOK
  <1> QED BY <1>1, <1>2

(* The end of a job. *)
LEMMA FinishedLift ==
  ASSUME TypeOK, RoleInv, LiftedInv, NEW a \in Actors, Finished(a), actor[a].at # "away",
         events' = events,
         qdisc'.kind = "paced" => qdisc.kind = "paced",
         qdisc'.kind = "paced" /\ shm'.set = NOPACING_FLAG_SET =>
            /\ qdisc.kind = "paced" /\ shm.set = NOPACING_FLAG_SET
            /\ a \in Children => ~ Mending(actor[a])
  PROVE  RoleInv' /\ LiftedInv'
  <1>1. PICK r \in Records : r.at \in {"away", "average"} /\ actor' = [actor EXCEPT ![a] = r]
    BY FinishedLemma
  <1>2. RoleInv'
    BY <1>1, RoleMove
  <1>3. LiftedInv'
    BY <1>1, LiftedMove
  <1> QED BY <1>2, <1>3

(* The plan of an actor that writes the flag first. *)
LEMMA FlagFirstLemma ==
  ASSUME NEW a \in Actors, NEW flag, NEW command, FlagFirst(a, flag, command)
  PROVE  \E r : /\ actor' = [actor EXCEPT ![a] = r]
                /\ r.at = "assign" /\ r.flag = flag /\ r.then = command
  <1> DEFINE r == [Away EXCEPT !.at = "assign", !.flag = flag, !.then = command]
  <1>1. r.at = "assign" /\ r.flag = flag /\ r.then = command
    BY DEF Away
  <1>2. actor' = [actor EXCEPT ![a] = r]
    BY DEF FlagFirst, Begin
  <1> HIDE DEF r
  <1> QED BY <1>1, <1>2

(* The plan of an actor that runs tc first. *)
LEMMA TcFirstLemma ==
  ASSUME NEW a \in Actors, NEW command, NEW flag, NEW value,
         TcFirst(a, command, flag, value)
  PROVE  \E r : actor' = [actor EXCEPT ![a] = r] /\ r.at = command /\ r.flag = flag
  <1> DEFINE r == [Away EXCEPT !.at = command, !.flag = flag, !.new = value,
                               !.total = actor[a].total]
  <1>1. r.at = command /\ r.flag = flag
    BY DEF Away
  <1>2. actor' = [actor EXCEPT ![a] = r]
    BY DEF TcFirst, Begin
  <1> HIDE DEF r
  <1> QED BY <1>1, <1>2

(* A decision: a child's plan fits its role, the idle branch clears. *)
LEMMA DecideLift ==
  ASSUME IInv, RoleInv, LiftedInv, NEW a \in Actors \ {Kafka}, Decide(a)
  PROVE  RoleInv' /\ LiftedInv'
  <1>1. /\ TypeOK /\ actor[a].at = "decide" /\ UNCHANGED <<shm, qdisc, events>>
        /\ ~ Mending(actor[a])
    BY DEF IInv, Decide, globals, Mending
  <1>2. ASSUME Finished(a) PROVE RoleInv' /\ LiftedInv'
    BY <1>1, <1>2, FinishedLift
  <1>3. ASSUME FlagFirst(a, 0, "remove") PROVE RoleInv' /\ LiftedInv'
    <2>1. PICK r : /\ actor' = [actor EXCEPT ![a] = r]
                   /\ r.at = "assign" /\ r.flag = 0 /\ r.then = "remove"
      BY <1>3, FlagFirstLemma
    <2>2. RoleInv'
      BY <1>1, <2>1, RoleMove
    <2>3. LiftedInv'
      BY <1>1, <2>1, LiftedMove
    <2> QED BY <2>2, <2>3
  <1>4. CASE a = Idler
    <2>1. actor[a].job = "idle" /\ a \notin Children
      BY <1>1, <1>4, ActorAssumption DEF RoleInv
    <2>2. Finished(a) \/ DecideCleanup(a, sResetPacingBack.set)
      BY <2>1 DEF Decide
    <2> QED BY <1>2, <1>3, <2>2 DEF DecideCleanup
  <1>5. CASE a \in Children
    <2>0. a # Idler
      BY <1>5, ActorAssumption
    <2>1. ASSUME NEW command \in {"del", "change", "nopacing"}, NEW flag, NEW value,
                 command # "nopacing" => flag = REGULAR_PACING_FLAG_SET,
                 TcFirst(a, command, flag, value)
          PROVE  RoleInv' /\ LiftedInv'
      <3>1. PICK r : /\ actor' = [actor EXCEPT ![a] = r]
                     /\ r.at = command /\ r.flag = flag
        BY <2>1, TcFirstLemma
      <3>2. RoleInv'
        BY <1>1, <2>0, <2>1, <3>1, RoleMove
      <3>3. LiftedInv'
        BY <1>1, <2>1, <3>1, LiftedMove
      <3> QED BY <3>2, <3>3
    <2>2. ASSUME FlagFirst(a, NOPACING_FLAG_SET, "nopacing") PROVE RoleInv' /\ LiftedInv'
      <3>1. PICK r : /\ actor' = [actor EXCEPT ![a] = r]
                     /\ r.at = "assign" /\ r.then = "nopacing"
        BY <2>2, FlagFirstLemma
      <3>2. RoleInv'
        BY <1>1, <2>0, <3>1, RoleMove
      <3>3. LiftedInv'
        BY <1>1, <3>1, LiftedMove
      <3> QED BY <3>2, <3>3
    <2> QED BY <1>1, <1>2, <1>3, <2>1, <2>2, DecideLemma
  <1> QED BY <1>4, <1>5 DEF Actors

(* Each action preserves the roles and LiftedInv. *)
LEMMA NextLifted ==
  ASSUME ~ gUseApacheKafka, NopacingIInv, [Next]_vars
  PROVE  RoleInv' /\ LiftedInv'
  <1>a. /\ IInv /\ TypeOK /\ PlanInv /\ BufferInv /\ RoleInv /\ LiftedInv
        /\ Children \subseteq Actors /\ Idler \in Actors /\ Idler \notin Children
        /\ actor[Kafka].at = "away"
    BY ActorAssumption DEF NopacingIInv, IInv, BufferInv, Actors
  <1>1. ASSUME UNCHANGED <<actor, shm, qdisc, events>> PROVE RoleInv' /\ LiftedInv'
    BY <1>a, <1>1 DEF RoleInv, LiftedInv, Mending
  <1>2. CASE Traffic \/ (\E on \in BOOLEAN : SetTuningMode(on))
             \/ (\E r \in Rates : BusyTick(r)) \/ EndEvaluation \/ UNCHANGED vars
    BY <1>1, <1>2 DEF Traffic, SetTuningMode, BusyTick, EndEvaluation, vars, globals
  <1>3. ASSUME NEW c \in Children, NEW job \in Jobs \ {"idle", "kafka"}, Fork(c, job)
        PROVE  RoleInv' /\ LiftedInv'
    <2>1. PICK r : r.at = "decide" /\ actor' = [actor EXCEPT ![c] = r]
      <3> DEFINE v == IF job \in {"QINFO_hop", "QINFO_retrans"}
                      THEN PacingValue(vGlobal_average_tx) ELSE 0
                 rec == [Away EXCEPT !.at = "decide", !.job = job, !.tuning = gTuningMode,
                                     !.new = v]
      <3>1. actor' = [actor EXCEPT ![c] = rec]
        BY <1>3 DEF Fork, Begin
      <3>2. rec.at = "decide"
        BY DEF Away
      <3> HIDE DEF rec
      <3> QED BY <3>1, <3>2
    <2>2. /\ UNCHANGED <<shm, qdisc, events>> /\ ~ Mending(actor[c])
          /\ "overlap" \in events \/ \A d \in Children : actor[d].at = "away"
      BY <1>3 DEF Fork, globals, Mending
    <2>3. RoleInv'
      BY <1>a, <2>1, RoleMove
    <2>4. LiftedInv'
      BY <1>a, <2>1, <2>2, LiftedMove
    <2> QED BY <2>3, <2>4
  <1>4. CASE IdleTick
    <2>1. PICK r : /\ r.at = "read" /\ r.job = "idle"
                   /\ actor' = [actor EXCEPT ![Idler] = r]
      BY <1>4 DEF IdleTick, Begin, Away
    <2>2. UNCHANGED <<shm, qdisc, events>>
      BY <1>4 DEF IdleTick, globals
    <2>3. RoleInv'
      BY <1>a, <2>1, RoleMove
    <2>4. LiftedInv'
      BY <1>a, <2>1, <2>2, LiftedMove
    <2> QED BY <2>3, <2>4
  <1>5. CASE Average
    <2>1. PICK r : r.at = "away" /\ actor' = [actor EXCEPT ![Idler] = r]
      BY <1>5, <1>a, GoToLemma DEF Average
    <2>2. UNCHANGED <<shm, qdisc, events>>
      BY <1>5 DEF Average
    <2>3. RoleInv'
      BY <1>a, <2>1, RoleMove
    <2>4. LiftedInv'
      BY <1>a, <2>1, <2>2, LiftedMove
    <2> QED BY <2>3, <2>4
  <1>6. ASSUME NEW a \in Actors, Step(a) PROVE RoleInv' /\ LiftedInv'
    <2>0. /\ actor[a].at # "away" /\ a # Kafka /\ events' = events
          /\ a \in Children \/ a = Idler
      BY <1>6, <1>a DEF Step, shm_read, Decide, SetUp, Change, Nopacing, Remove, Assign,
                shm_write, globals, Actors
    <2>1. CASE shm_read(a)
      <3>1. PICK r : /\ r.at = "decide" /\ r.job = actor[a].job
                     /\ actor' = [actor EXCEPT ![a] = r]
        BY <1>a, <2>1, GoToLemma DEF shm_read
      <3>2. UNCHANGED <<shm, qdisc>> /\ ~ Mending(actor[a]) /\ actor[a].at = "read"
        BY <2>1 DEF shm_read, Mending
      <3>3. a = Idler => r.job = "idle"
        BY <1>a, <3>1, <3>2 DEF RoleInv
      <3>4. RoleInv'
        BY <1>a, <3>1, <3>3, RoleMove
      <3>5. LiftedInv'
        BY <1>a, <2>0, <3>1, <3>2, LiftedMove
      <3> QED BY <3>4, <3>5
    <2>2. CASE Decide(a)
      BY <1>a, <2>0, <2>2, DecideLift
    <2>3. CASE SetUp(a) \/ Change(a)
      <3>1. /\ a \in Children /\ actor[a].flag = REGULAR_PACING_FLAG_SET
            /\ shm' = shm /\ ~ Mending(actor[a])
        BY <1>a, <2>0, <2>3 DEF SetUp, Change, RoleInv, Mending
      <3>2. PICK r : /\ actor' = [actor EXCEPT ![a] = r]
                     /\ r.flag = actor[a].flag /\ r.then = actor[a].then
                     /\ \/ r.at = "add" /\ qdisc'.kind # "paced"
                        \/ r.at = "assign"
        <4>1. \/ GoTo(a, "add") /\ qdisc'.kind # "paced"
              \/ GoTo(a, "assign")
          BY <2>3 DEF SetUp, Change, TcDel
        <4> QED BY <1>a, <4>1, GoToLemma
      <3>3. RoleInv'
        BY <1>a, <3>1, <3>2, RoleMove
      <3>4. r.at = "assign" => Mending(r)
        BY <3>1, <3>2 DEF Mending, REGULAR_PACING_FLAG_SET, NOPACING_FLAG_SET
      <3>5. r.flag # NOPACING_FLAG_SET
        BY <3>1, <3>2 DEF REGULAR_PACING_FLAG_SET, NOPACING_FLAG_SET
      <3>6. LiftedInv'
        BY <1>a, <2>0, <3>1, <3>2, <3>4, <3>5, LiftedMove
      <3> QED BY <3>3, <3>6
    <2>4. CASE Nopacing(a)
      <3>1. a \in Children /\ a # Idler /\ qdisc'.kind # "paced"
        BY <1>a, <2>0, <2>4 DEF Nopacing, TcNopacing, RoleInv
      <3>2. CASE Finished(a)
        BY <1>a, <2>0, <3>1, <3>2, FinishedLift
      <3>3. CASE GoTo(a, "assign")
        <4>1. PICK r : r.at = "assign" /\ actor' = [actor EXCEPT ![a] = r]
          BY <1>a, <3>3, GoToLemma
        <4>2. RoleInv'
          BY <1>a, <3>1, <4>1, RoleMove
        <4>3. LiftedInv'
          BY <1>a, <2>0, <3>1, <4>1, LiftedMove
        <4> QED BY <4>2, <4>3
      <3> QED BY <2>0, <2>4, <3>2, <3>3 DEF Nopacing, AfterTc
    <2>5. CASE Remove(a)
      <3>1. Finished(a) /\ qdisc'.kind # "paced"
        BY <2>5 DEF Remove, TcDel
      <3> QED BY <1>a, <2>0, <3>1, FinishedLift
    <2>6. CASE Assign(a)
      <3>1. a = Idler /\ actor[a].at = "assign" /\ UNCHANGED <<shm, qdisc>>
        BY <2>0, <2>6 DEF Assign
      <3>2. PICK r : /\ r.at = "write" /\ r.flag = actor[a].flag
                     /\ actor' = [actor EXCEPT ![a] = r]
        BY <1>a, <2>6, GoToLemma DEF Assign
      <3>3. r.flag = 0
        BY <1>a, <3>1, <3>2 DEF RoleInv
      <3>4. RoleInv'
        BY <1>a, <3>1, <3>2, <3>3, RoleMove
      <3>5. LiftedInv'
        BY <1>a, <2>0, <3>1, <3>2, LiftedMove
      <3> QED BY <3>4, <3>5
    <2>7. CASE shm_write(a)
      <3>1. /\ shm'.set = actor[a].flag /\ qdisc' = qdisc
            /\ actor[a].at \in {"assign", "write"} /\ AfterWrite(a)
            /\ actor[a].then \in {"end", "remove", "nopacing"}
        BY <1>a, <2>0, <2>7 DEF shm_write, Result, BufferInv, TypeOK
      <3>2. CASE a = Idler
        <4>1. shm'.set # NOPACING_FLAG_SET /\ actor[a].then = "remove"
          BY <1>a, <3>1, <3>2 DEF RoleInv, PlanInv, NOPACING_FLAG_SET
        <4>2. PICK r : r.at = "remove" /\ actor' = [actor EXCEPT ![a] = r]
          BY <1>a, <3>1, <4>1, GoToLemma DEF AfterWrite
        <4>3. RoleInv'
          BY <1>a, <3>2, <4>2, RoleMove
        <4>4. LiftedInv'
          BY <1>a, <2>0, <3>1, <3>2, <4>1, <4>2, LiftedMove
        <4> QED BY <4>3, <4>4
      <3>3. CASE a \in Children
        <4>1. actor[a].at = "assign"
          BY <1>a, <3>1, <3>3 DEF PlanInv
        <4>2. CASE actor[a].then = "end"
          <5>1. CASE "overlap" \in events
            <6>1. PICK r \in Records : /\ r.at \in {"away", "average"}
                                       /\ actor' = [actor EXCEPT ![a] = r]
              BY <2>0, <3>1, <4>2, FinishedLemma DEF AfterWrite
            <6>2. RoleInv'
              BY <1>a, <6>1, RoleMove
            <6> QED BY <2>0, <5>1, <6>2 DEF LiftedInv
          <5>2. CASE "overlap" \notin events
            <6>1. shm'.set = NOPACING_FLAG_SET => qdisc'.kind # "paced"
              BY <1>a, <3>1, <3>3, <4>1, <4>2, <5>2 DEF LiftedInv
            <6>2. Finished(a)
              BY <2>0, <3>1, <4>2 DEF AfterWrite
            <6> QED BY <1>a, <2>0, <3>1, <6>1, <6>2, FinishedLift
          <5> QED BY <5>1, <5>2
        <4>3. CASE actor[a].then # "end"
          <5>1. PICK r : r.at = actor[a].then /\ actor' = [actor EXCEPT ![a] = r]
            BY <1>a, <3>1, <4>3, GoToLemma DEF AfterWrite
          <5>2. shm'.set = NOPACING_FLAG_SET => Mending(r)
            <6>1. actor[a].flag = 0 <=> actor[a].then = "remove"
              BY <1>a, <4>1 DEF PlanInv
            <6>2. shm'.set = NOPACING_FLAG_SET => actor[a].then = "nopacing"
              BY <3>1, <4>3, <6>1 DEF NOPACING_FLAG_SET
            <6> QED BY <5>1, <6>2 DEF Mending
          <5>3. RoleInv'
            BY <1>a, <3>1, <3>3, <4>3, <5>1, RoleMove
          <5>4. LiftedInv'
            BY <1>a, <2>0, <3>1, <3>3, <4>3, <5>1, <5>2, LiftedMove
          <5> QED BY <5>3, <5>4
        <4> QED BY <4>2, <4>3
      <3> QED BY <2>0, <3>2, <3>3
    <2> QED BY <1>6, <2>1, <2>2, <2>3, <2>4, <2>5, <2>6, <2>7 DEF Step
  <1>7. ~ StartEvaluation /\ \A residual \in Residuals : ~ KafkaMessage(residual)
    BY <1>a DEF StartEvaluation, KafkaMessage
  <1> QED BY <1>2, <1>3, <1>4, <1>5, <1>6, <1>7 DEF Next

(* Without Kafka and without overlapping children, a flag that says        *)
(* NOPACING is true whenever nobody is at work, for any number of messages *)
(* and rates and wherever the idle branch clears the flag or removes the   *)
(* qdisc between a child's steps.                                          *)
THEOREM NopacingFlagIsTrue == Spec => []NopacingIsUnlimited
  <1>1. Init => NopacingIInv
    <2> SUFFICES ASSUME Init PROVE RoleInv /\ LiftedInv
      BY InitIInv DEF NopacingIInv
    <2>1. /\ \A a \in Actors : actor[a].at = "away"
          /\ Children \subseteq Actors /\ Idler \in Actors
          /\ shm.set = 0
      BY DEF Init, Away, Actors
    <2> QED BY <2>1 DEF RoleInv, LiftedInv, NOPACING_FLAG_SET
  <1>2. (gUseApacheKafka \/ NopacingIInv) /\ [Next]_vars => (gUseApacheKafka \/ NopacingIInv)'
    BY NextIInv, NextLifted, ModeStays DEF NopacingIInv
  <1>3. gUseApacheKafka \/ NopacingIInv => NopacingIsUnlimited
    <2> SUFFICES ASSUME LiftedInv, "overlap" \notin events, Quiet,
                        shm.set = NOPACING_FLAG_SET, qdisc.kind = "paced"
                 PROVE  FALSE
      BY DEF NopacingIInv, NopacingIsUnlimited, gUseApacheKafka
    <2>1. PICK c \in Children : Mending(actor[c])
      BY DEF LiftedInv
    <2> QED BY <2>1 DEF Mending, Quiet, Actors
  <1> QED BY <1>1, <1>2, <1>3, PTL DEF Spec

-----------------------------------------------------------------------------
(* The types are preserved in either mode, by any actor: nothing that the  *)
(* threads and children do to each other's buffer, flag or qdisc is needed *)
(* for it.                                                                 *)

(* The actor's records when one of them changes. *)
LEMMA RecordsMove ==
  ASSUME TypeOK, NEW a \in Actors, NEW r \in Records, actor' = [actor EXCEPT ![a] = r]
  PROVE  actor' \in [Actors -> Records]
  BY DEF TypeOK, Records

(* A step from one point to another leaves a well typed record. *)
LEMMA RecordsGoTo ==
  ASSUME TypeOK, NEW a \in Actors, NEW point \in Points, GoTo(a, point)
  PROVE  actor' \in [Actors -> Records]
  <1>1. actor[a] \in Records
    BY DEF TypeOK, Records
  <1>2. [actor[a] EXCEPT !.at = point] \in Records
    BY <1>1 DEF Records
  <1> QED BY <1>2, RecordsMove DEF GoTo

(* The end of a job leaves a well typed record. *)
LEMMA RecordsFinished ==
  ASSUME TypeOK, NEW a \in Actors, Finished(a)
  PROVE  actor' \in [Actors -> Records]
  BY FinishedLemma, RecordsMove

(* Each action preserves the types. *)
LEMMA TypeStep ==
  ASSUME TypeOK, [Next]_vars
  PROVE  TypeOK'
  <1> USE RateAssumption
  <1> USE DEF globals
  <1>a. /\ shm \in Segments /\ sResetPacingBack \in Segments
        /\ qdisc \in [kind : {"default", "fq", "nopacing", "paced"}, rate : Nat]
        /\ actor \in [Actors -> Records]
        /\ gTuningMode \in BOOLEAN /\ vGlobal_average_tx \in Nat
        /\ vCanStartEvaluationTimer \in BOOLEAN /\ busy \in BOOLEAN /\ events \in Scenarios
    BY DEF TypeOK, Records
  <1>b. Idler \in Actors /\ Kafka \in Actors /\ Children \subseteq Actors
    BY DEF Actors
  <1>c. /\ {"away", "read", "decide", "del", "add", "change", "nopacing", "remove", "assign",
            "write", "average", "timer"} \subseteq Points
    BY DEF Points
  <1>d. \A a \in Actors : /\ actor[a].new \in Nat /\ actor[a].flag \in FlagValues
                          /\ actor[a].total \in Nat /\ actor[a].job \in Jobs
                          /\ actor[a].then \in {"end", "remove", "nopacing"}
    BY <1>a DEF Records
  <1>1. CASE Traffic
    BY <1>1 DEF Traffic, TypeOK
  <1>2. ASSUME NEW on \in BOOLEAN, SetTuningMode(on) PROVE TypeOK'
    BY <1>2 DEF SetTuningMode, TypeOK
  <1>3. ASSUME NEW c \in Children, NEW job \in Jobs \ {"idle", "kafka"}, Fork(c, job)
        PROVE TypeOK'
    <2> DEFINE v == IF job \in {"QINFO_hop", "QINFO_retrans"}
                    THEN PacingValue(vGlobal_average_tx) ELSE 0
               rec == [Away EXCEPT !.at = "decide", !.job = job, !.tuning = gTuningMode,
                                   !.new = v]
    <2>1. v \in Nat
      BY <1>a, PacingValueLemma
    <2>2. actor' = [actor EXCEPT ![c] = rec]
      BY <1>3 DEF Fork, Begin
    <2>3. rec \in Records
      BY <1>a, <2>1 DEF Records, Away, Points, FlagValues
    <2> HIDE DEF v, rec
    <2>4. actor' \in [Actors -> Records]
      BY <1>b, <2>2, <2>3, RecordsMove
    <2> QED BY <1>3, <2>4 DEF Fork, TypeOK, Records
  <1>4. ASSUME NEW residual \in Residuals, KafkaMessage(residual) PROVE TypeOK'
    <2> DEFINE total == vGlobal_average_tx + residual
               v == (total * 95) \div 100
               n == IF v > 340 THEN 400 ELSE v
               rec == [Away EXCEPT !.at = "read", !.job = "kafka", !.new = n,
                                   !.total = total]
    <2>1. total \in Nat
      BY <1>a
    <2> HIDE DEF total
    <2>2. v \in Nat
      BY <2>1
    <2> HIDE DEF v
    <2>3. n \in Nat
      BY <2>2
    <2> HIDE DEF n
    <2>4. actor' = [actor EXCEPT ![Kafka] = rec]
      BY <1>4 DEF KafkaMessage, Begin, total, v, n
    <2>5. rec \in Records
      BY <2>1, <2>3 DEF Records, Away, Points, Jobs, FlagValues
    <2>6. actor' \in [Actors -> Records]
      BY <1>b, <2>4, <2>5, RecordsMove
    <2> QED BY <1>4, <2>6 DEF KafkaMessage, TypeOK, Records
  <1>5. ASSUME NEW r \in Rates, BusyTick(r) PROVE TypeOK'
    BY <1>5 DEF BusyTick, TypeOK
  <1>6. CASE IdleTick
    <2>1. PICK r \in Records : actor' = [actor EXCEPT ![Idler] = r]
      BY <1>6 DEF IdleTick, Begin, Away, Records, Points, Jobs, FlagValues
    <2>2. actor' \in [Actors -> Records]
      BY <1>b, <2>1, RecordsMove
    <2> QED BY <1>6, <2>2 DEF IdleTick, TypeOK, Records
  <1>7. CASE Average
    <2>1. actor' \in [Actors -> Records]
      BY <1>7, <1>b, <1>c, RecordsGoTo DEF Average
    <2> QED BY <1>7, <2>1 DEF Average, TypeOK, Records
  <1>8. ASSUME NEW a \in Actors, shm_read(a) PROVE TypeOK'
    <2>1. actor' \in [Actors -> Records]
      BY <1>8, <1>c, RecordsGoTo DEF shm_read
    <2> QED BY <1>8, <2>1 DEF shm_read, TypeOK, Records
  <1>9. ASSUME NEW a \in Actors, Decide(a) PROVE TypeOK'
    <2>1. ASSUME NEW command \in {"del", "change", "nopacing"}, NEW flag \in FlagValues \ {0},
                 NEW value \in Nat, TcFirst(a, command, flag, value)
          PROVE  actor' \in [Actors -> Records]
      <3>1. PICK r \in Records : actor' = [actor EXCEPT ![a] = r]
        BY <1>d, <2>1 DEF TcFirst, Begin, Away, Records, Points, Jobs
      <3> QED BY <3>1, RecordsMove
    <2>2. ASSUME NEW flag \in FlagValues, NEW command \in {"remove", "nopacing"},
                 FlagFirst(a, flag, command)
          PROVE  actor' \in [Actors -> Records]
      <3>1. PICK r \in Records : actor' = [actor EXCEPT ![a] = r]
        BY <2>2 DEF FlagFirst, Begin, Away, Records, Points, Jobs
      <3> QED BY <3>1, RecordsMove
    <2>3. 0 \in FlagValues /\ NOPACING_FLAG_SET \in FlagValues
      BY DEF FlagValues
    <2>4. actor' \in [Actors -> Records]
      BY <1>9, <2>1, <2>2, <2>3, RecordsFinished, DecideLemma
    <2> QED BY <1>9, <2>4 DEF Decide, TypeOK, Records
  <1>10. ASSUME NEW a \in Actors, SetUp(a) \/ Change(a) PROVE TypeOK'
    <2>1. actor' \in [Actors -> Records]
      BY <1>10, <1>c, RecordsGoTo DEF SetUp, Change
    <2>2. qdisc' \in [kind : {"default", "fq", "nopacing", "paced"}, rate : Nat]
      BY <1>10, <1>a, <1>d DEF SetUp, Change, TcDel, TcAdd, TcChange
    <2> QED BY <1>10, <2>1, <2>2 DEF SetUp, Change, TypeOK, Records
  <1>11. ASSUME NEW a \in Actors, Nopacing(a) \/ Remove(a) PROVE TypeOK'
    <2>1. actor' \in [Actors -> Records]
      BY <1>11, <1>c, RecordsGoTo, RecordsFinished DEF Nopacing, AfterTc, Remove
    <2>2. qdisc' \in [kind : {"default", "fq", "nopacing", "paced"}, rate : Nat]
      BY <1>11, <1>a DEF Nopacing, Remove, TcNopacing, TcDel
    <2> QED BY <1>11, <2>1, <2>2 DEF Nopacing, Remove, TypeOK, Records
  <1>12. ASSUME NEW a \in Actors, Assign(a) PROVE TypeOK'
    <2>1. actor' \in [Actors -> Records]
      BY <1>12, <1>c, RecordsGoTo DEF Assign
    <2>2. sResetPacingBack' \in Segments
      BY <1>12, <1>d DEF Assign, Result, Segments
    <2> QED BY <1>12, <2>1, <2>2 DEF Assign, TypeOK, Records
  <1>13. ASSUME NEW a \in Actors, shm_write(a) PROVE TypeOK'
    <2>1. actor' \in [Actors -> Records]
      <3>1. Finished(a) \/ \E point \in Points : GoTo(a, point)
        BY <1>13, <1>c, <1>d DEF shm_write, AfterWrite
      <3> QED BY <3>1, RecordsGoTo, RecordsFinished
    <2>2. shm' \in Segments
      BY <1>13, <1>a, <1>d DEF shm_write, Result, Segments
    <2> QED BY <1>13, <2>1, <2>2 DEF shm_write, TypeOK, Records
  <1>14. CASE StartEvaluation
    <2>1. actor' \in [Actors -> Records]
      BY <1>14, <1>b, AwayLemma, RecordsMove DEF StartEvaluation, Begin
    <2> QED BY <1>14, <2>1 DEF StartEvaluation, TypeOK, Records
  <1>15. CASE EndEvaluation
    BY <1>15 DEF EndEvaluation, TypeOK
  <1>16. CASE UNCHANGED vars
    BY <1>16 DEF vars, TypeOK
  <1> QED
    BY <1>1, <1>2, <1>3, <1>4, <1>5, <1>6, <1>7, <1>8, <1>9, <1>10, <1>11, <1>12, <1>13,
       <1>14, <1>15, <1>16 DEF Next, Step

(* The types hold, with and without Kafka: the flag is one of its three    *)
(* values, whichever of the children and threads writes it last, and       *)
(* whatever the two threads leave in the buffer they share.                *)
THEOREM PacingTypeCorrect == Spec => []TypeOK
  <1>1. Init => TypeOK
    BY InitIInv DEF IInv
  <1>2. TypeOK /\ [Next]_vars => TypeOK'
    BY TypeStep
  <1> QED BY <1>1, <1>2, PTL DEF Spec

-----------------------------------------------------------------------------
(* With Kafka no child is forked, only the consumer sets limits, and what  *)
(* it is about to set is useful, although the flag and the value it went   *)
(* by may be the idle branch's.                                            *)
Useful(rate) == rate * 10 >= netDeviceSpeed

KafkaInv ==
  /\ \A c \in Children : actor[c].at = "away"
  /\ actor[Idler].at \notin {"del", "add", "change"}
  /\ actor[Idler].at \in {"read", "decide"} => actor[Idler].job = "idle"
  /\ actor[Kafka].at \in {"read", "decide"} => actor[Kafka].job = "kafka"
  /\ actor[Kafka].at \in {"del", "add", "change"} => Useful(actor[Kafka].new)

KafkaLimit == qdisc.kind = "paced" => Useful(qdisc.rate)

KafkaIInv == TypeOK /\ KafkaInv /\ KafkaLimit

(* A step of a thread that keeps to KafkaInv. *)
LEMMA KafkaMove ==
  ASSUME TypeOK, KafkaInv, NEW a \in {Idler, Kafka}, NEW r, actor' = [actor EXCEPT ![a] = r],
         a = Idler => r.at \notin {"del", "add", "change"},
         r.at \in {"read", "decide"} => r.job = (IF a = Idler THEN "idle" ELSE "kafka"),
         a = Kafka /\ r.at \in {"del", "add", "change"} => Useful(r.new)
  PROVE  KafkaInv'
  <1>1. \A b \in Actors : actor'[b] = IF b = a THEN r ELSE actor[b]
    BY DEF TypeOK
  <1>2. /\ Children \subseteq Actors /\ Idler \in Actors /\ Kafka \in Actors
        /\ Idler # Kafka /\ a \notin Children
    BY ActorAssumption DEF Actors
  <1> QED BY <1>1, <1>2 DEF KafkaInv, Useful

(* A step from one point to another keeps the value and the job. *)
LEMMA KafkaGoTo ==
  ASSUME TypeOK, KafkaInv, NEW a \in {Idler, Kafka}, NEW point, GoTo(a, point),
         point = "decide" => actor[a].at = "read",
         point = "add" => actor[a].at = "del",
         point \notin {"read", "del", "change"}
  PROVE  KafkaInv'
  <1> DEFINE r == [actor[a] EXCEPT !.at = point]
  <1>1. a \in Actors
    BY DEF Actors
  <1>2. actor' = [actor EXCEPT ![a] = r]
    BY DEF GoTo
  <1>3. r.at = point /\ r.job = actor[a].job /\ r.new = actor[a].new
    BY <1>1 DEF TypeOK
  <1> HIDE DEF r
  <1>4. a = Idler => r.at \notin {"del", "add", "change"}
    BY <1>3 DEF KafkaInv
  <1>5. r.at \in {"read", "decide"} => r.job = (IF a = Idler THEN "idle" ELSE "kafka")
    BY <1>3 DEF KafkaInv
  <1>6. a = Kafka /\ r.at \in {"del", "add", "change"} => Useful(r.new)
    BY <1>3 DEF KafkaInv
  <1> QED BY <1>2, <1>4, <1>5, <1>6, KafkaMove

(* The end of a thread's job. *)
LEMMA KafkaFinished ==
  ASSUME TypeOK, KafkaInv, NEW a \in {Idler, Kafka}, Finished(a)
  PROVE  KafkaInv'
  <1>1. PICK r \in Records : r.at \in {"away", "average"} /\ actor' = [actor EXCEPT ![a] = r]
    BY FinishedLemma DEF Actors
  <1> QED BY <1>1, KafkaMove

(* A decision of one of the two threads: the idle branch clears the flag,  *)
(* the consumer sets a useful limit or lifts it.                           *)
LEMMA KafkaDecide ==
  ASSUME TypeOK, KafkaInv, NEW a \in {Idler, Kafka}, Decide(a)
  PROVE  KafkaInv'
  <1> DEFINE buffer == IF a \in Children THEN shm ELSE sResetPacingBack
             new == actor[a].new
  <1>1. actor[a].at = "decide" /\ Idler # Kafka
    BY ActorAssumption DEF Decide
  <1>2. ASSUME NEW flag, NEW command, FlagFirst(a, flag, command) PROVE KafkaInv'
    <2>1. PICK r : actor' = [actor EXCEPT ![a] = r] /\ r.at = "assign"
      BY <1>2, FlagFirstLemma DEF Actors
    <2> QED BY <2>1, KafkaMove
  <1>3. CASE a = Idler
    <2>1. actor[a].job = "idle"
      BY <1>1, <1>3 DEF KafkaInv
    <2>2. Finished(a) \/ DecideCleanup(a, buffer.set)
      BY <2>1 DEF Decide
    <2> QED BY <1>2, <2>2, KafkaFinished DEF DecideCleanup
  <1>4. CASE a = Kafka
    <2>1. actor[a].job = "kafka"
      BY <1>1, <1>4 DEF KafkaInv
    <2>2. Finished(a) \/ DecideKafka(a, buffer.set, buffer.current_pacing, new)
      BY <2>1 DEF Decide
    <2>3. \/ Finished(a)
          \/ DecideReset(a, buffer.set)
          \/ /\ Useful(new)
             /\ \E command \in {"del", "change"} :
                  TcFirst(a, command, REGULAR_PACING_FLAG_SET, new)
      BY <2>2 DEF DecideKafka, Useful
    <2>4. ASSUME Useful(new), NEW command \in {"del", "change"},
                 TcFirst(a, command, REGULAR_PACING_FLAG_SET, new)
          PROVE  KafkaInv'
      <3> DEFINE r == [Away EXCEPT !.at = command, !.flag = REGULAR_PACING_FLAG_SET,
                                   !.new = new, !.total = actor[a].total]
      <3>1. actor' = [actor EXCEPT ![a] = r]
        BY <2>4 DEF TcFirst, Begin
      <3>2. r.at = command /\ r.new = new
        BY DEF Away
      <3> HIDE DEF r
      <3> QED BY <1>1, <1>4, <2>4, <3>1, <3>2, KafkaMove
    <2> QED BY <1>2, <2>3, <2>4, KafkaFinished DEF DecideReset
  <1> QED BY <1>3, <1>4

(* Each action preserves KafkaInv and the range of the limit. *)
LEMMA NextKafka ==
  ASSUME gUseApacheKafka, KafkaIInv, [Next]_vars
  PROVE  KafkaInv' /\ KafkaLimit'
  <1>a. /\ TypeOK /\ KafkaInv
        /\ qdisc.kind = "paced" => Useful(qdisc.rate)
        /\ Idler \in {Idler, Kafka} /\ Kafka \in {Idler, Kafka} /\ Idler # Kafka
    BY ActorAssumption DEF KafkaIInv, KafkaLimit, Useful
  <1>b. (qdisc'.kind = "paced" => Useful(qdisc'.rate)) => KafkaLimit'
    BY DEF KafkaLimit, Useful
  <1>1. ASSUME UNCHANGED <<actor, qdisc>> PROVE KafkaInv' /\ KafkaLimit'
    BY <1>a, <1>b, <1>1 DEF KafkaInv
  <1>2. CASE Traffic \/ (\E on \in BOOLEAN : SetTuningMode(on))
             \/ (\E r \in Rates : BusyTick(r)) \/ EndEvaluation \/ UNCHANGED vars
    BY <1>1, <1>2 DEF Traffic, SetTuningMode, BusyTick, EndEvaluation, vars
  <1>3. ASSUME NEW residual \in Residuals, KafkaMessage(residual)
        PROVE  KafkaInv' /\ KafkaLimit'
    <2>1. PICK r : r.at = "read" /\ r.job = "kafka" /\ actor' = [actor EXCEPT ![Kafka] = r]
      <3> DEFINE total == vGlobal_average_tx + residual
                 v == (total * 95) \div 100
                 rec == [Away EXCEPT !.at = "read", !.job = "kafka",
                                     !.new = IF v > 340 THEN 400 ELSE v, !.total = total]
      <3>1. actor' = [actor EXCEPT ![Kafka] = rec]
        BY <1>3 DEF KafkaMessage, Begin
      <3>2. rec.at = "read" /\ rec.job = "kafka"
        BY DEF Away
      <3> HIDE DEF rec
      <3> QED BY <3>1, <3>2
    <2>2. KafkaInv'
      BY <1>a, <2>1, KafkaMove
    <2> QED BY <1>a, <1>b, <1>3, <2>2 DEF KafkaMessage
  <1>4. CASE IdleTick
    <2>1. PICK r : /\ r.at = "read" /\ r.job = "idle"
                   /\ actor' = [actor EXCEPT ![Idler] = r]
      BY <1>4 DEF IdleTick, Begin, Away
    <2>2. KafkaInv'
      BY <1>a, <2>1, KafkaMove
    <2> QED BY <1>a, <1>b, <1>4, <2>2 DEF IdleTick
  <1>5. CASE Average
    BY <1>a, <1>b, <1>5, KafkaGoTo DEF Average
  <1>6. CASE StartEvaluation
    <2>1. KafkaInv'
      BY <1>a, <1>6, AwayLemma, KafkaMove DEF StartEvaluation, Begin
    <2> QED BY <1>a, <1>b, <1>6, <2>1 DEF StartEvaluation
  <1>7. ASSUME NEW a \in Actors, Step(a) PROVE KafkaInv' /\ KafkaLimit'
    <2>0. a \in {Idler, Kafka} /\ a \in Actors
      BY <1>7, <1>a DEF Step, shm_read, Decide, SetUp, Change, Nopacing, Remove, Assign,
                shm_write, KafkaInv, Actors
    <2>1. CASE shm_read(a)
      BY <1>a, <1>b, <2>0, <2>1, KafkaGoTo DEF shm_read
    <2>2. CASE Decide(a)
      <3>1. KafkaInv'
        BY <1>a, <2>0, <2>2, KafkaDecide
      <3> QED BY <1>a, <1>b, <2>2, <3>1 DEF Decide
    <2>3. CASE SetUp(a) \/ Change(a)
      <3>1. KafkaInv'
        BY <1>a, <2>0, <2>3, KafkaGoTo DEF SetUp, Change
      <3>2. Useful(actor[a].new)
        BY <1>a, <2>0, <2>3 DEF SetUp, Change, KafkaInv
      <3>3. qdisc'.kind = "paced" => Useful(qdisc'.rate)
        BY <1>a, <2>3, <3>2 DEF SetUp, Change, TcDel, TcAdd, TcChange
      <3> QED BY <1>b, <3>1, <3>3
    <2>4. CASE Nopacing(a)
      <3>1. KafkaInv'
        BY <1>a, <2>0, <2>4, KafkaGoTo, KafkaFinished DEF Nopacing, AfterTc
      <3> QED BY <1>a, <1>b, <2>4, <3>1 DEF Nopacing, TcNopacing
    <2>5. CASE Remove(a)
      BY <1>a, <1>b, <2>0, <2>5, KafkaFinished DEF Remove, TcDel
    <2>6. CASE Assign(a)
      BY <1>a, <1>b, <2>0, <2>6, KafkaGoTo DEF Assign
    <2>7. CASE shm_write(a)
      <3>1. actor[a].then \in {"end", "remove", "nopacing"}
        BY <1>a, <2>0 DEF TypeOK
      <3>2. KafkaInv'
        BY <1>a, <2>0, <2>7, <3>1, KafkaGoTo, KafkaFinished DEF shm_write, AfterWrite
      <3> QED BY <1>a, <1>b, <2>7, <3>2 DEF shm_write
    <2> QED BY <1>7, <2>1, <2>2, <2>3, <2>4, <2>5, <2>6, <2>7 DEF Step
  <1>8. \A c \in Children, job \in Jobs : ~ Fork(c, job)
    BY DEF Fork
  <1> QED BY <1>2, <1>3, <1>4, <1>5, <1>6, <1>7, <1>8 DEF Next

(* The limits of the second mode start in range and stay there. *)
LEMMA LimitsOfKafka ==
  /\ Init => KafkaIInv
  /\ gUseApacheKafka /\ KafkaIInv /\ [Next]_vars => KafkaIInv'
  <1>1. Init => KafkaIInv
    <2> SUFFICES ASSUME Init PROVE KafkaIInv
      OBVIOUS
    <2>1. TypeOK
      BY InitIInv DEF IInv
    <2>2. /\ \A a \in Actors : actor[a].at = "away"
          /\ Children \subseteq Actors /\ Idler \in Actors /\ Kafka \in Actors
      BY DEF Init, Away, Actors
    <2>3. KafkaLimit
      BY OriginalAssumption DEF Init, KafkaLimit
    <2> QED BY <2>1, <2>2, <2>3 DEF KafkaIInv, KafkaInv
  <1>2. gUseApacheKafka /\ KafkaIInv /\ [Next]_vars => KafkaIInv'
    BY NextKafka, TypeStep DEF KafkaIInv
  <1> QED BY <1>1, <1>2

(* Every limit that tc sets is in range, in either mode, for any rates and *)
(* any number of children: without Kafka between 2 and 34 Gb/s, although   *)
(* the rate of the link, the flag and the mode may change between a        *)
(* child's fork and its command; with Kafka at least a tenth of the speed  *)
(* of the device, although the consumer's decision may be made from a      *)
(* buffer that the idle branch has just overwritten.                       *)
THEOREM LimitsInRange == Spec => []LimitInRange
  <1> DEFINE Inv == (gUseApacheKafka \/ LimitIInv) /\ (~ gUseApacheKafka \/ KafkaIInv)
  <1>1. Init => Inv
    BY LimitsOfPeers, LimitsOfKafka
  <1>2. Inv /\ [Next]_vars => Inv'
    BY LimitsOfPeers, LimitsOfKafka, ModeStays
  <1>3. Inv => LimitInRange
    <2>1. CASE gUseApacheKafka
      BY <2>1 DEF KafkaIInv, KafkaLimit, Useful, LimitInRange
    <2>2. CASE ~ gUseApacheKafka
      BY <2>2 DEF LimitIInv, PeerLimit, LimitInRange
    <2> QED BY <2>1, <2>2
  <1> QED BY <1>1, <1>2, <1>3, PTL DEF Spec

-----------------------------------------------------------------------------
(* How a limit can be forgotten, in either mode. *)

(* What PlanInv says of one actor, and that the idle branch only clears    *)
(* the flag and removes the qdisc.                                         *)
Planned(a, r) ==
  /\ r.at \in {"del", "add", "change"} => r.then = "end" /\ r.flag # 0
  /\ r.at = "nopacing" => r.flag # 0
  /\ r.at \in {"assign", "write"} => (r.flag = 0 <=> r.then = "remove")
  /\ r.at = "write" => a \notin Children
  /\ a = Idler =>
       /\ r.at \in {"away", "read", "decide", "assign", "write", "remove", "average"}
       /\ r.at \in {"read", "decide"} => r.job = "idle"
       /\ r.at \in {"assign", "write"} => r.then = "remove"

AllPlanned == \A a \in Actors : Planned(a, actor[a])

(* One actor moves on as planned. *)
LEMMA PlannedMove ==
  ASSUME TypeOK, AllPlanned, NEW a \in Actors, NEW r, Planned(a, r),
         actor' = [actor EXCEPT ![a] = r]
  PROVE  AllPlanned'
  <1>1. \A b \in Actors : actor'[b] = IF b = a THEN r ELSE actor[b]
    BY DEF TypeOK
  <1> QED BY <1>1 DEF AllPlanned

(* The record after a step from one point to another. *)
LEMMA GoToRecord ==
  ASSUME TypeOK, NEW a \in Actors, NEW point, GoTo(a, point)
  PROVE  \E r : /\ actor' = [actor EXCEPT ![a] = r]
                /\ r.at = point /\ r.then = actor[a].then
                /\ r.flag = actor[a].flag /\ r.job = actor[a].job
  <1> DEFINE r == [actor[a] EXCEPT !.at = point]
  <1>1. actor' = [actor EXCEPT ![a] = r]
    BY DEF GoTo
  <1>2. r.at = point /\ r.then = actor[a].then /\ r.flag = actor[a].flag /\ r.job = actor[a].job
    BY DEF TypeOK
  <1> HIDE DEF r
  <1> QED BY <1>1, <1>2

(* An actor that has finished has nothing planned. *)
LEMMA FinishedPlanned ==
  ASSUME TypeOK, AllPlanned, NEW a \in Actors, Finished(a)
  PROVE  AllPlanned'
  <1>1. PICK r \in Records : r.at \in {"away", "average"} /\ actor' = [actor EXCEPT ![a] = r]
    BY FinishedLemma
  <1>2. CASE r.at = "away" \/ r.at = "average"
    BY <1>1, <1>2, PlannedMove DEF Planned
  <1> QED BY <1>1, <1>2

(* A decision makes a plan. *)
LEMMA DecidePlanned ==
  ASSUME TypeOK, AllPlanned, NEW a \in Actors, Decide(a)
  PROVE  AllPlanned'
  <1>1. a = Idler => Finished(a) \/ FlagFirst(a, 0, "remove")
    <2> SUFFICES ASSUME a = Idler PROVE Finished(a) \/ FlagFirst(a, 0, "remove")
      OBVIOUS
    <2>1. actor[a].job = "idle"
      BY DEF AllPlanned, Planned, Decide
    <2> QED BY <2>1 DEF Decide, DecideCleanup
  <1>2. ASSUME NEW command \in {"del", "change", "nopacing"}, NEW flag \in FlagValues \ {0},
               NEW value \in Nat, TcFirst(a, command, flag, value), a # Idler
        PROVE  AllPlanned'
    <2> DEFINE r == [Away EXCEPT !.at = command, !.flag = flag, !.new = value,
                                 !.total = actor[a].total]
    <2>1. actor' = [actor EXCEPT ![a] = r]
      BY <1>2 DEF TcFirst, Begin
    <2>2. r.at = command /\ r.flag = flag /\ r.then = "end"
      BY DEF Away
    <2> HIDE DEF r
    <2>3. Planned(a, r)
      BY <1>2, <2>2 DEF Planned
    <2> QED BY <2>1, <2>3, PlannedMove
  <1>3. ASSUME NEW flag \in FlagValues, NEW command \in {"remove", "nopacing"},
               flag = 0 <=> command = "remove", FlagFirst(a, flag, command),
               a = Idler => command = "remove"
        PROVE  AllPlanned'
    <2> DEFINE r == [Away EXCEPT !.at = "assign", !.flag = flag, !.then = command]
    <2>1. actor' = [actor EXCEPT ![a] = r]
      BY <1>3 DEF FlagFirst, Begin
    <2>2. r.at = "assign" /\ r.flag = flag /\ r.then = command
      BY DEF Away
    <2> HIDE DEF r
    <2>3. Planned(a, r)
      BY <1>3, <2>2 DEF Planned
    <2> QED BY <2>1, <2>3, PlannedMove
  <1>4. 0 \in FlagValues /\ NOPACING_FLAG_SET \in FlagValues /\ NOPACING_FLAG_SET # 0
    BY DEF FlagValues, NOPACING_FLAG_SET
  <1>5. CASE a = Idler
    BY <1>1, <1>3, <1>4, <1>5, FinishedPlanned
  <1>6. CASE a # Idler
    <2>1. CASE FlagFirst(a, 0, "remove")
      BY <1>3, <1>4, <2>1
    <2>2. CASE FlagFirst(a, NOPACING_FLAG_SET, "nopacing")
      BY <1>3, <1>4, <1>6, <2>2
    <2> QED BY <1>2, <1>6, <2>1, <2>2, FinishedPlanned, DecideLemma
  <1> QED BY <1>5, <1>6

(* Everyone keeps to a plan. *)
LEMMA NextPlanned ==
  ASSUME TypeOK, AllPlanned, [Next]_vars
  PROVE  AllPlanned'
  <1>a. Idler \in Actors /\ Kafka \in Actors /\ Children \subseteq Actors /\ Idler # Kafka
        /\ Idler \notin Children
    BY ActorAssumption DEF Actors
  <1>1. ASSUME UNCHANGED actor PROVE AllPlanned'
    BY <1>1 DEF AllPlanned
  <1>2. CASE Traffic \/ (\E on \in BOOLEAN : SetTuningMode(on))
             \/ (\E r \in Rates : BusyTick(r)) \/ EndEvaluation \/ UNCHANGED vars
    BY <1>1, <1>2 DEF Traffic, SetTuningMode, BusyTick, EndEvaluation, vars
  <1>3. ASSUME NEW c \in Children, NEW job, Fork(c, job) PROVE AllPlanned'
    <2> DEFINE v == IF job \in {"QINFO_hop", "QINFO_retrans"}
                    THEN PacingValue(vGlobal_average_tx) ELSE 0
               r == [Away EXCEPT !.at = "decide", !.job = job, !.tuning = gTuningMode,
                                 !.new = v]
    <2>1. actor' = [actor EXCEPT ![c] = r]
      BY <1>3 DEF Fork, Begin
    <2> HIDE DEF v
    <2>2. r.at = "decide"
      BY DEF Away
    <2> HIDE DEF r
    <2>3. Planned(c, r)
      BY <1>a, <2>2 DEF Planned
    <2> QED BY <1>a, <2>1, <2>3, PlannedMove
  <1>4. ASSUME NEW residual, KafkaMessage(residual) PROVE AllPlanned'
    <2> DEFINE total == vGlobal_average_tx + residual
               v == (total * 95) \div 100
               n == IF v > 340 THEN 400 ELSE v
               r == [Away EXCEPT !.at = "read", !.job = "kafka", !.new = n, !.total = total]
    <2>1. actor' = [actor EXCEPT ![Kafka] = r]
      BY <1>4 DEF KafkaMessage, Begin
    <2> HIDE DEF total, v, n
    <2>2. r.at = "read"
      BY DEF Away
    <2> HIDE DEF r
    <2>3. Planned(Kafka, r)
      BY <1>a, <2>2 DEF Planned
    <2> QED BY <1>a, <2>1, <2>3, PlannedMove
  <1>5. CASE IdleTick
    <2>1. PICK r : r.at = "read" /\ r.job = "idle" /\ actor' = [actor EXCEPT ![Idler] = r]
      BY <1>5 DEF IdleTick, Begin, Away
    <2>2. Planned(Idler, r)
      BY <2>1 DEF Planned
    <2> QED BY <1>a, <2>1, <2>2, PlannedMove
  <1>6. CASE StartEvaluation
    <2>1. Planned(Kafka, Away)
      BY <1>a, AwayLemma DEF Planned
    <2> QED BY <1>a, <1>6, <2>1, PlannedMove DEF StartEvaluation, Begin
  <1>7. ASSUME NEW a \in Actors, NEW point,
               \/ point \in {"away", "timer", "average"}
               \/ point = "decide" /\ actor[a].at = "read"
               \/ point = "add" /\ actor[a].at = "del"
               \/ point = "assign" /\ actor[a].at \in {"add", "change", "nopacing"}
                                   /\ actor[a].then = "end"
               \/ point = "write" /\ actor[a].at = "assign" /\ a \notin Children
               \/ point = "remove"
               \/ point = "nopacing" /\ actor[a].at \in {"assign", "write"}
                                     /\ actor[a].then = "nopacing",
               a = Idler => point # "timer",
               GoTo(a, point)
        PROVE  AllPlanned'
    <2>1. PICK r : /\ actor' = [actor EXCEPT ![a] = r]
                   /\ r.at = point /\ r.then = actor[a].then
                   /\ r.flag = actor[a].flag /\ r.job = actor[a].job
      BY <1>7, GoToRecord
    <2>2. Planned(a, actor[a])
      BY DEF AllPlanned
    <2>3. Planned(a, r)
      BY <1>7, <2>1, <2>2 DEF Planned
    <2> QED BY <2>1, <2>3, PlannedMove
  <1>8. CASE Average
    BY <1>a, <1>7, <1>8 DEF Average
  <1>9. ASSUME NEW a \in Actors, Step(a) PROVE AllPlanned'
    <2>0. Planned(a, actor[a]) /\ actor[a].then \in {"end", "remove", "nopacing"}
      BY DEF AllPlanned, TypeOK
    <2>1. CASE shm_read(a)
      BY <1>7, <2>1 DEF shm_read
    <2>2. CASE Decide(a)
      BY <2>2, DecidePlanned
    <2>3. CASE SetUp(a) \/ Change(a)
      BY <1>7, <2>0, <2>3 DEF SetUp, Change, Planned
    <2>4. CASE Nopacing(a)
      BY <1>a, <1>7, <2>4, FinishedPlanned DEF Nopacing, AfterTc
    <2>5. CASE Remove(a)
      BY <2>5, FinishedPlanned DEF Remove
    <2>6. CASE Assign(a)
      BY <1>7, <2>6 DEF Assign
    <2>7. CASE shm_write(a)
      <3>1. actor[a].at \in {"assign", "write"} /\ AfterWrite(a)
        BY <2>7 DEF shm_write
      <3>2. CASE actor[a].then = "remove"
        BY <1>7, <3>1, <3>2 DEF AfterWrite
      <3>3. CASE actor[a].then = "nopacing"
        BY <1>7, <3>1, <3>3 DEF AfterWrite
      <3>4. CASE actor[a].then = "end"
        BY <1>a, <1>7, <3>1, <3>4, FinishedPlanned DEF AfterWrite
      <3> QED BY <2>0, <3>2, <3>3, <3>4
    <2> QED BY <1>9, <2>1, <2>2, <2>3, <2>4, <2>5, <2>6, <2>7 DEF Step
  <1> QED BY <1>2, <1>3, <1>4, <1>5, <1>6, <1>8, <1>9 DEF Next

(* A step that changes neither flag nor qdisc, of an actor that is not     *)
(* about to write or remove.                                               *)
LEMMA MoveRemembers ==
  ASSUME TypeOK, Remembered, NEW a \in Actors, NEW r,
         actor' = [actor EXCEPT ![a] = r], UNCHANGED <<shm, qdisc>>,
         actor[a].at \notin {"assign", "write", "remove"}
  PROVE  Remembered'
  <1>1. \A b \in Actors : actor'[b] = IF b = a THEN r ELSE actor[b]
    BY DEF TypeOK
  <1> QED BY <1>1 DEF Remembered, SetterAt, RemoverAt

(* A step to the plan's next point, where it is a setter or a remover. *)
LEMMA GoToRemembers ==
  ASSUME TypeOK, NEW a \in Actors, NEW point, GoTo(a, point),
         point = "remove" \/ (point \in {"assign", "write"} /\ actor[a].then = "end")
  PROVE  Remembered'
  <1>1. PICK r : /\ actor' = [actor EXCEPT ![a] = r]
                 /\ r.at = point /\ r.then = actor[a].then
    BY GoToRecord
  <1>2. actor'[a] = r
    BY <1>1 DEF TypeOK
  <1> QED BY <1>1, <1>2 DEF Remembered, SetterAt, RemoverAt

(* No other step forgets a limit. *)
LEMMA NextForgets ==
  ASSUME TypeOK, AllPlanned, Remembered, ~ Remembered', [Next]_vars
  PROVE  LostWrite
  <1>a. Idler \in Actors /\ Kafka \in Actors /\ Children \subseteq Actors
    BY DEF Actors
  <1>b. Remembered /\ ~ Remembered'
    OBVIOUS
  <1>1. CASE Traffic \/ (\E on \in BOOLEAN : SetTuningMode(on))
             \/ (\E r \in Rates : BusyTick(r)) \/ EndEvaluation \/ UNCHANGED vars
    <2>1. UNCHANGED <<shm, qdisc, actor>>
      BY <1>1 DEF Traffic, SetTuningMode, BusyTick, EndEvaluation, vars
    <2> QED BY <1>b, <2>1 DEF Remembered, SetterAt, RemoverAt
  <1>2. CASE \E c \in Children, job \in Jobs : Fork(c, job)
    BY <1>a, <1>b, <1>2, MoveRemembers DEF Fork, Begin
  <1>3. CASE \E residual \in Residuals : KafkaMessage(residual)
    BY <1>a, <1>b, <1>3, MoveRemembers DEF KafkaMessage, Begin
  <1>4. CASE IdleTick \/ Average \/ StartEvaluation
    <2>1. CASE IdleTick
      BY <1>a, <1>b, <2>1, MoveRemembers DEF IdleTick, Begin
    <2>2. CASE Average
      BY <1>a, <1>b, <2>2, MoveRemembers, GoToRecord DEF Average
    <2>3. CASE StartEvaluation
      BY <1>a, <1>b, <2>3, MoveRemembers DEF StartEvaluation, Begin
    <2> QED BY <1>4, <2>1, <2>2, <2>3
  <1>5. ASSUME NEW a \in Actors, Step(a) PROVE LostWrite
    <2>0. Planned(a, actor[a])
      BY DEF AllPlanned
    <2>1. CASE shm_read(a)
      BY <1>b, <2>1, MoveRemembers, GoToRecord DEF shm_read
    <2>2. CASE Decide(a)
      <3>1. \E r : actor' = [actor EXCEPT ![a] = r]
        BY <2>2, DecideLemma DEF Finished, TcFirst, FlagFirst, Begin
      <3> QED BY <1>b, <2>2, <3>1, MoveRemembers DEF Decide
    <2>3. CASE SetUp(a)
      <3>1. CASE actor[a].at = "del"
        BY <1>b, <2>3, <3>1 DEF SetUp, TcDel, Remembered
      <3>2. CASE actor[a].at = "add"
        BY <1>b, <2>0, <2>3, <3>2, GoToRemembers DEF SetUp, Planned
      <3> QED BY <2>3, <3>1, <3>2 DEF SetUp
    <2>4. CASE Change(a)
      BY <1>b, <2>0, <2>4, GoToRemembers DEF Change, Planned
    <2>5. CASE Nopacing(a) \/ Remove(a)
      <3>1. qdisc'.kind # "paced"
        BY <2>5 DEF Nopacing, Remove, TcNopacing, TcDel
      <3> QED BY <1>b, <3>1 DEF Remembered
    <2>6. CASE Assign(a)
      <3>1. UNCHANGED <<shm, qdisc>> /\ actor[a].at = "assign" /\ GoTo(a, "write")
        BY <2>6 DEF Assign
      <3>2. CASE actor[a].then = "end"
        BY <1>b, <3>1, <3>2, GoToRemembers
      <3>3. CASE actor[a].then # "end"
        <4>1. \A b \in Actors : b # a => actor'[b] = actor[b]
          BY <3>1 DEF GoTo, TypeOK
        <4>2. ~ SetterAt(a) /\ ~ RemoverAt(a)
          BY <3>1, <3>3 DEF SetterAt, RemoverAt
        <4> QED BY <1>b, <3>1, <4>1, <4>2 DEF Remembered, SetterAt, RemoverAt
      <3> QED BY <3>2, <3>3
    <2>7. CASE shm_write(a)
      <3>1. actor[a].at \in {"assign", "write"} /\ AfterWrite(a)
        BY <2>7 DEF shm_write
      <3>2. actor[a].then # "remove"
        BY <1>b, <3>1, GoToRemembers DEF AfterWrite
      <3>3. actor[a].flag # 0 /\ a # Idler
        BY <2>0, <3>1, <3>2 DEF Planned
      <3>4. shm'.set = 0
        BY <1>b DEF Remembered
      <3>5. a \notin Children
        BY <2>7, <3>3, <3>4 DEF shm_write, Result
      <3>6. a = Kafka /\ sResetPacingBack.set = 0
        BY <2>7, <3>3, <3>4, <3>5 DEF shm_write, Actors
      <3> QED BY <2>7, <3>3, <3>5, <3>6 DEF LostWrite, shm_write
    <2> QED BY <1>5, <2>1, <2>2, <2>3, <2>4, <2>5, <2>6, <2>7 DEF Step
  <1> QED BY <1>1, <1>2, <1>3, <1>4, <1>5 DEF Next

(* In either mode, whatever the children, the consumer and the idle branch *)
(* do, a limit is forgotten only by a step of the consumer that writes the *)
(* flag zero although it meant to write another, because it shares         *)
(* sResetPacingBack with fDoRunGetThresholds: the race of                  *)
(* PacingControl_kafkarace is the only way.                                *)
THEOREM LimitsForgottenByLostWrites == Spec => OnlyLostWritesForget
  <1>1. Init => TypeOK /\ AllPlanned
    <2> SUFFICES ASSUME Init PROVE AllPlanned
      BY InitIInv DEF IInv
    <2>1. \A a \in Actors : actor[a] = Away
      BY DEF Init
    <2>2. \A a \in Actors : Planned(a, Away)
      BY AwayLemma DEF Planned
    <2> QED BY <2>1, <2>2 DEF AllPlanned
  <1>2. TypeOK /\ AllPlanned /\ [Next]_vars => (TypeOK /\ AllPlanned)'
    BY TypeStep, NextPlanned
  <1>3. TypeOK /\ AllPlanned /\ [Next]_vars => [Remembered /\ ~ Remembered' => LostWrite]_vars
    BY NextForgets
  <1> QED BY <1>1, <1>2, <1>3, PTL DEF Spec, OnlyLostWritesForget

=============================================================================
