---------------------- MODULE CongestionMonitor_proofs ----------------------
(***************************************************************************)
(* Theorems about CongestionMonitor, for any flows, any capacity of the    *)
(* queue and any number of handlers at once.                               *)
(***************************************************************************)
EXTENDS CongestionMonitor, SequenceTheorems, TLAPS

(* When the last message asks to pace, no reset is half done and the flag  *)
(* is set or about to be set.                                              *)
AskedInv == asked = "yes" => ~ ClearPending /\ (vSentPacingOver \/ AboutToFlag)

(* A report below the thresholds has cleared the flag of the queue timers, *)
(* which only sample_func sets.                                            *)
LowInv == sampler.at \in {"check", "reset", "clear"} => ~ vq_TimerIsSet

IInv == TypeOK /\ AskedInv /\ LowInv

SamplerType == [at : {"poll", "record", "check", "reset", "clear"},
                flow : Flows \cup {NoFlow}, level : Levels]

-----------------------------------------------------------------------------
(* The queues. *)

(* A message is sent to a ring that has room for it. *)
LEMMA SendLemma ==
  ASSUME TypeOK, NEW type \in {"QINFO", "RESET_PACING", "CLEANUP_RESET_PACING"},
         NEW src \in Flows \cup {NoFlow}, Send(type, src)
  PROVE  queue' \in Seq(Messages) /\ Len(queue') <= Capacity
  <1> DEFINE m == [type |-> type, src |-> src]
  <1>1. m \in Messages
    BY DEF Messages
  <1>2. queue' = Append(queue, m) /\ Len(queue) < Capacity
    BY DEF Send
  <1> HIDE DEF m
  <1>3. Append(queue, m) \in Seq(Messages) /\ Len(Append(queue, m)) = Len(queue) + 1
    BY <1>1, AppendProperties DEF TypeOK
  <1> QED BY <1>2, <1>3, CapacityAssumption, LenProperties DEF TypeOK

(* What the queue of signals is after a timer has expired, and after the   *)
(* signal at its head was taken.                                           *)
LEMMA SignalTypes ==
  ASSUME TypeOK
  PROVE  /\ \A t \in Timers : Expire(t) => pending' \in Seq(Timers)
         /\ pending # <<>> /\ pending' = Tail(pending) => pending' \in Seq(Timers)
  <1>1. pending \in Seq(Timers)
    BY DEF TypeOK
  <1>2. ASSUME NEW t \in Timers, Expire(t) PROVE pending' \in Seq(Timers)
    <2>1. pending' = pending \/ pending' = Append(pending, t)
      BY <1>2 DEF Expire
    <2> QED BY <1>1, <2>1, AppendProperties
  <1>3. ASSUME pending # <<>>, pending' = Tail(pending) PROVE pending' \in Seq(Timers)
    BY <1>1, <1>3, HeadTailProperties
  <1> QED BY <1>2, <1>3

(* A signal is queued, and only the one at the head is taken. *)
LEMMA SignalsStay ==
  ASSUME TypeOK
  PROVE  /\ UNCHANGED pending => \A t : Queued(t) => Queued(t)'
         /\ \A t : Expire(t) => Queued(t)' /\ (\A u : Queued(u) => Queued(u)')
         /\ pending # <<>> /\ pending' = Tail(pending) =>
              \A t : Queued(t) /\ t # Head(pending) => Queued(t)'
  <1>1. /\ pending \in Seq(Timers)
        /\ Len(pending) \in Nat
        /\ DOMAIN pending = 1 .. Len(pending)
    BY LenProperties DEF TypeOK
  <1>2. UNCHANGED pending => \A t : Queued(t) => Queued(t)'
    BY DEF Queued
  <1>3. ASSUME NEW t, Expire(t) PROVE Queued(t)' /\ (\A u : Queued(u) => Queued(u)')
    <2>1. t \in Timers
      BY <1>3 DEF Expire, TypeOK
    <2>2. CASE Queued(t)
      BY <1>2, <1>3, <2>2 DEF Expire
    <2>3. CASE ~ Queued(t)
      <3>1. pending' = Append(pending, t)
        BY <1>3, <2>3 DEF Expire
      <3>2. /\ DOMAIN pending' = 1 .. Len(pending) + 1
            /\ \A i \in 1 .. Len(pending) : pending'[i] = pending[i]
            /\ pending'[Len(pending) + 1] = t
        BY <1>1, <2>1, <3>1, AppendProperties, LenProperties
      <3>3. Queued(t)'
        <4>1. Len(pending) + 1 \in DOMAIN pending'
          BY <1>1, <3>2
        <4> QED BY <3>2, <4>1 DEF Queued
      <3>4. ASSUME NEW u, Queued(u) PROVE Queued(u)'
        <4>1. PICK i \in 1 .. Len(pending) : pending[i] = u
          BY <1>1, <3>4 DEF Queued
        <4>2. i \in DOMAIN pending' /\ pending'[i] = u
          BY <1>1, <3>2, <4>1
        <4> QED BY <4>2 DEF Queued
      <3> QED BY <3>3, <3>4
    <2> QED BY <2>2, <2>3
  <1>4. ASSUME pending # <<>>, pending' = Tail(pending), NEW t, Queued(t), t # Head(pending)
        PROVE  Queued(t)'
    <2>1. PICK i \in 1 .. Len(pending) : pending[i] = t
      BY <1>1, <1>4 DEF Queued
    <2>2. /\ DOMAIN pending' = 1 .. Len(pending) - 1
          /\ \A j \in 1 .. Len(pending) - 1 : pending'[j] = pending[j + 1]
          /\ Head(pending) = pending[1]
      BY <1>1, <1>4, HeadTailProperties, LenProperties
    <2>3. i - 1 \in 1 .. Len(pending) - 1 /\ (i - 1) + 1 = i
      BY <1>1, <1>4, <2>1, <2>2
    <2>4. i - 1 \in DOMAIN pending' /\ pending'[i - 1] = t
      BY <2>1, <2>2, <2>3
    <2> QED BY <2>4 DEF Queued
  <1> QED BY <1>2, <1>3, <1>4

-----------------------------------------------------------------------------
(* The types. *)

(* The types of the sampler's moves. *)
LEMMA SamplerLemma ==
  ASSUME TypeOK
  PROVE  /\ \A at \in {"poll", "record", "check", "reset", "clear"} :
              [sampler EXCEPT !.at = at] \in SamplerType /\ [sampler EXCEPT !.at = at].at = at
         /\ sampler.flow \in Flows \cup {NoFlow}
         /\ Finish => /\ sampler' \in SamplerType /\ sampler'.at = "poll"
                      /\ src_ip_addr' \in Flows \cup {NoFlow}
  BY DEF TypeOK, SamplerType, Finish

(* sample_func keeps the types. *)
LEMMA SamplerTypes ==
  ASSUME TypeOK, Sample \/ FinishSample
  PROVE  TypeOK'
  <1> USE DEF Timers, QueueTimers, Levels
  <1>1. ASSUME NEW f \in Flows, SampleBoth(f) \/ SampleQueue(f) PROVE TypeOK'
    <2>1. /\ armed' \subseteq Timers
          /\ sampler' \in SamplerType /\ src_ip_addr' \in Flows \cup {NoFlow}
      <3>1. PICK timer \in QueueTimers, level \in Levels : Evaluate(f, level, timer)
        BY <1>1 DEF SampleBoth, SampleQueue
      <3>2. armed \subseteq Timers /\ src_ip_addr \in Flows \cup {NoFlow}
        BY DEF TypeOK
      <3>3. \A at \in {"poll", "record"} : [at |-> at, flow |-> f, level |-> level] \in SamplerType
        BY DEF SamplerType
      <3>4. CASE vq_TimerIsSet
        BY <3>1, <3>2, <3>3, <3>4 DEF Evaluate
      <3>5. CASE ~ vq_TimerIsSet
        <4>1. /\ armed' = armed \cup {timer}
              /\ sampler' = [at |-> "record", flow |-> f, level |-> level]
              /\ UNCHANGED src_ip_addr
          BY <3>1, <3>5 DEF Evaluate
        <4> QED BY <3>2, <3>3, <4>1
      <3> QED BY <3>4, <3>5
    <2>2. UNCHANGED <<pending, flags, sqOCC_TimerID_Data, handler, idler, queue, events, asked>>
      BY <1>1 DEF SampleBoth, SampleQueue
    <2> QED BY <2>1, <2>2 DEF TypeOK, SamplerType, flags
  <1>2. ASSUME NEW f \in Flows, NEW level \in Levels, SampleLow(f, level) PROVE TypeOK'
    <2>1. /\ armed' \subseteq armed /\ vq_TimerIsSet' \in BOOLEAN /\ sampler' \in SamplerType
          /\ UNCHANGED <<pending, vCanStartEvaluationTimer, vSentPacingOver,
                         vUseRetransmissionRate, vTwiceInaRow, sqOCC_TimerID_Data,
                         src_ip_addr, handler, idler, queue, events, asked>>
      BY <1>2 DEF SampleLow, SamplerType
    <2> QED BY <2>1 DEF TypeOK, SamplerType
  <1>3. CASE Record
    <2>1. sampler' \in SamplerType /\ src_ip_addr' \in Flows \cup {NoFlow}
      BY <1>3, SamplerLemma DEF Record
    <2>2. /\ sqOCC_TimerID_Data' \in Flows \cup {NoFlow} /\ vq_TimerIsSet' \in BOOLEAN
          /\ UNCHANGED <<armed, pending, vCanStartEvaluationTimer, vSentPacingOver,
                         vUseRetransmissionRate, vTwiceInaRow, handler, idler, queue,
                         events, asked>>
      BY <1>3, SamplerLemma DEF Record
    <2> QED BY <2>1, <2>2 DEF TypeOK, SamplerType
  <1>4. CASE CheckReset
    <2>1. sampler' \in SamplerType /\ src_ip_addr' \in Flows \cup {NoFlow}
      BY <1>4, SamplerLemma DEF CheckReset, TypeOK
    <2> QED BY <1>4, <2>1 DEF CheckReset, TypeOK, SamplerType, flags
  <1>5. CASE SendResetPacingMsg
    <2>1. queue' \in Seq(Messages) /\ Len(queue') <= Capacity
      BY <1>5, SendLemma, SamplerLemma DEF SendResetPacingMsg
    <2>2. sampler' \in SamplerType /\ asked' \in {"yes", "no", "overtaken"}
      BY <1>5, SamplerLemma DEF SendResetPacingMsg
    <2> QED BY <1>5, <2>1, <2>2 DEF SendResetPacingMsg, TypeOK, SamplerType, flags
  <1>6. CASE ClearSentBySampler
    <2>1. sampler' \in SamplerType /\ src_ip_addr' \in Flows \cup {NoFlow}
      BY <1>6, SamplerLemma DEF ClearSentBySampler
    <2> QED BY <1>6, <2>1 DEF ClearSentBySampler, TypeOK, SamplerType
  <1> QED BY <1>1, <1>2, <1>3, <1>4, <1>5, <1>6 DEF Sample, FinishSample

(* The timers and the handlers keep the types. *)
LEMMA HandlerTypes ==
  ASSUME TypeOK,
         \/ \E t \in Timers : Expire(t)
         \/ \E h \in Handlers : HandlerStep(h)
         \/ qEvaluation_TimerID_Handler
  PROVE  TypeOK'
  <1>1. ASSUME NEW t \in Timers, Expire(t) PROVE TypeOK'
    <2>1. armed' \subseteq armed /\ pending' \in Seq(Timers)
      BY <1>1, SignalTypes DEF Expire
    <2> QED BY <1>1, <2>1 DEF Expire, TypeOK, flags
  <1>2. ASSUME NEW h \in Handlers, StartHandler(h) PROVE TypeOK'
    <2>1. /\ pending' \in Seq(Timers) /\ vq_TimerIsSet' \in BOOLEAN
          /\ handler' \in [Handlers -> {"idle", "check", "send", "arm", "mark"}]
      BY <1>2, SignalTypes DEF StartHandler, TypeOK
    <2> QED BY <1>2, <2>1 DEF StartHandler, TypeOK
  <1>3. ASSUME NEW h \in Handlers,
               NEW to \in {"idle", "check", "send", "arm", "mark"}, MoveHandler(h, to)
        PROVE  handler' \in [Handlers -> {"idle", "check", "send", "arm", "mark"}]
    BY <1>3 DEF MoveHandler, TypeOK
  <1>4. ASSUME NEW h \in Handlers, CheckEvaluation(h) PROVE TypeOK'
    <2>1. handler' \in [Handlers -> {"idle", "check", "send", "arm", "mark"}]
      BY <1>3, <1>4 DEF CheckEvaluation
    <2> QED BY <1>4, <2>1 DEF CheckEvaluation, TypeOK, flags
  <1>5. ASSUME NEW h \in Handlers, SendQinfo(h) PROVE TypeOK'
    <2>1. queue' \in Seq(Messages) /\ Len(queue') <= Capacity
      BY <1>5, SendLemma DEF SendQinfo, TypeOK
    <2>2. /\ handler' \in [Handlers -> {"idle", "check", "send", "arm", "mark"}]
          /\ asked' \in {"yes", "no", "overtaken"}
      BY <1>3, <1>5 DEF SendQinfo
    <2> QED BY <1>5, <2>1, <2>2 DEF SendQinfo, TypeOK, flags
  <1>6. ASSUME NEW h \in Handlers, ArmEvaluation(h) PROVE TypeOK'
    <2>1. /\ handler' \in [Handlers -> {"idle", "check", "send", "arm", "mark"}]
          /\ armed' \subseteq Timers
      BY <1>3, <1>6 DEF ArmEvaluation, Timers, TypeOK
    <2> QED BY <1>6, <2>1 DEF ArmEvaluation, TypeOK, flags
  <1>7. ASSUME NEW h \in Handlers, MarkEvaluation(h) PROVE TypeOK'
    <2>1. /\ handler' \in [Handlers -> {"idle", "check", "send", "arm", "mark"}]
          /\ vCanStartEvaluationTimer' \in BOOLEAN /\ vSentPacingOver' \in BOOLEAN
      BY <1>3, <1>7 DEF MarkEvaluation
    <2> QED BY <1>7, <2>1 DEF MarkEvaluation, TypeOK
  <1>8. CASE qEvaluation_TimerID_Handler
    <2>1. pending' \in Seq(Timers) /\ vCanStartEvaluationTimer' \in BOOLEAN
      BY <1>8, SignalTypes DEF qEvaluation_TimerID_Handler
    <2> QED BY <1>8, <2>1 DEF qEvaluation_TimerID_Handler, TypeOK
  <1> QED BY <1>1, <1>2, <1>4, <1>5, <1>6, <1>7, <1>8 DEF HandlerStep

(* The idle branch, the operator and the sender keep the types. *)
LEMMA OtherTypes ==
  ASSUME TypeOK,
         \/ TrafficTick \/ IdleTick \/ FinishIdle \/ TakeMessage
         \/ \E on \in BOOLEAN : SetUseRetransmissionRate(on)
  PROVE  TypeOK'
  <1>1. CASE TrafficTick
    <2>1. vTwiceInaRow' \in BOOLEAN
      BY <1>1 DEF TrafficTick
    <2> QED BY <1>1, <2>1 DEF TrafficTick, TypeOK
  <1>2. CASE IdleTick
    <2>1. armed' \subseteq armed /\ idler' \in {"off", "evaluation"}
      BY <1>2 DEF IdleTick
    <2> QED BY <1>2, <2>1 DEF IdleTick, TypeOK, flags
  <1>3. CASE ClearTimerIsSet
    BY <1>3 DEF ClearTimerIsSet, TypeOK
  <1>4. CASE IdleEndEvaluation
    <2>1. armed' \subseteq armed /\ idler' \in {"restart", "check"}
      BY <1>4 DEF IdleEndEvaluation
    <2> QED BY <1>4, <2>1 DEF IdleEndEvaluation, TypeOK, flags
  <1>5. CASE SetCanStartEvaluation
    BY <1>5 DEF SetCanStartEvaluation, TypeOK
  <1>6. CASE IdleCheck
    <2>1. /\ vTwiceInaRow' \in BOOLEAN /\ idler' \in {"cleanup", "tick"}
          /\ UNCHANGED <<armed, pending, vq_TimerIsSet, vCanStartEvaluationTimer,
                         vSentPacingOver, vUseRetransmissionRate, sqOCC_TimerID_Data,
                         src_ip_addr, sampler, handler, queue, events, asked>>
      BY <1>6 DEF IdleCheck, TypeOK
    <2> QED BY <2>1 DEF TypeOK
  <1>7. CASE SendResetCleanUpPacingMsg
    <2>1. queue' \in Seq(Messages) /\ Len(queue') <= Capacity
      BY <1>7, SendLemma DEF SendResetCleanUpPacingMsg, TypeOK
    <2> QED BY <1>7, <2>1 DEF SendResetCleanUpPacingMsg, TypeOK, flags
  <1>8. CASE ClearSentByIdler
    BY <1>8 DEF ClearSentByIdler, TypeOK
  <1>9. CASE TakeMessage
    <2>1. queue' \in Seq(Messages) /\ Len(queue') <= Capacity
      BY <1>9, HeadTailProperties, LenProperties, CapacityAssumption DEF TakeMessage, TypeOK
    <2> QED BY <1>9, <2>1 DEF TakeMessage, TypeOK, flags
  <1>10. ASSUME NEW on \in BOOLEAN, SetUseRetransmissionRate(on) PROVE TypeOK'
    BY <1>10 DEF SetUseRetransmissionRate, TypeOK
  <1> QED BY <1>1, <1>2, <1>3, <1>4, <1>5, <1>6, <1>7, <1>8, <1>9, <1>10 DEF FinishIdle

-----------------------------------------------------------------------------
(* What was asked for, and the flag of the queue timers. *)

(* A step that does nothing to what AskedInv and LowInv speak of. *)
LEMMA Untouched ==
  ASSUME AskedInv, LowInv, UNCHANGED <<asked, handler, vSentPacingOver, sampler>>,
         idler' = "clear" => idler = "clear", vq_TimerIsSet' => vq_TimerIsSet
  PROVE  AskedInv' /\ LowInv'
  BY DEF AskedInv, LowInv, ClearPending, AboutToFlag

(* sample_func sends before it clears, and has cleared vq_TimerIsSet. *)
LEMMA SamplerInv ==
  ASSUME TypeOK, AskedInv, LowInv, Sample \/ FinishSample
  PROVE  AskedInv' /\ LowInv'
  <1>1. CASE Sample
    <2>1. /\ sampler'.at \in {"poll", "record", "check"}
          /\ sampler'.at = "check" => ~ vq_TimerIsSet'
          /\ UNCHANGED <<asked, handler, vSentPacingOver, idler>>
      BY <1>1 DEF Sample, SampleBoth, SampleQueue, SampleLow, Evaluate, flags
    <2> QED BY <2>1 DEF AskedInv, LowInv, ClearPending, AboutToFlag
  <1>2. CASE Record
    <2>1. sampler'.at = "poll" /\ UNCHANGED <<asked, handler, vSentPacingOver, idler>>
      BY <1>2, SamplerLemma DEF Record
    <2> QED BY <2>1 DEF AskedInv, LowInv, ClearPending, AboutToFlag
  <1>3. CASE CheckReset
    <2>1. /\ sampler.at = "check" /\ sampler'.at \in {"poll", "reset"}
          /\ UNCHANGED <<asked, handler, vSentPacingOver, idler, vq_TimerIsSet>>
      BY <1>3, SamplerLemma DEF CheckReset, flags
    <2> QED BY <2>1 DEF AskedInv, LowInv, ClearPending, AboutToFlag
  <1>4. CASE SendResetPacingMsg
    <2>1. sampler.at = "reset" /\ asked' = "no" /\ UNCHANGED vq_TimerIsSet
      BY <1>4 DEF SendResetPacingMsg, flags
    <2> QED BY <2>1 DEF AskedInv, LowInv
  <1>5. CASE ClearSentBySampler
    <2>1. sampler.at = "clear" /\ sampler'.at = "poll" /\ UNCHANGED asked
      BY <1>5, SamplerLemma DEF ClearSentBySampler
    <2> QED BY <2>1 DEF AskedInv, LowInv, ClearPending
  <1> QED BY <1>1, <1>2, <1>3, <1>4, <1>5 DEF FinishSample

(* A handler that has sent is about to flag it, however many others run. *)
LEMMA HandlersInv ==
  ASSUME TypeOK, AskedInv, LowInv, NEW h \in Handlers, HandlerStep(h)
  PROVE  AskedInv' /\ LowInv'
  <1>1. /\ UNCHANGED <<sampler, idler>> /\ (vq_TimerIsSet' => vq_TimerIsSet)
        /\ \A g \in Handlers \ {h} : handler'[g] = handler[g]
    BY DEF HandlerStep, StartHandler, CheckEvaluation, SendQinfo, ArmEvaluation,
           MarkEvaluation, MoveHandler, TypeOK, flags
  <1>2. LowInv'
    BY <1>1 DEF LowInv
  <1>3. CASE StartHandler(h) \/ CheckEvaluation(h)
    <2>1. handler[h] \in {"idle", "check"} /\ UNCHANGED <<asked, vSentPacingOver>>
      BY <1>3 DEF StartHandler, CheckEvaluation, flags
    <2>2. AboutToFlag => AboutToFlag'
      BY <1>1, <2>1 DEF AboutToFlag
    <2> QED BY <1>1, <1>2, <2>1, <2>2 DEF AskedInv, ClearPending
  <1>4. CASE SendQinfo(h)
    <2>1. handler'[h] = "arm" /\ (asked' = "yes" => ~ ClearPending)
      BY <1>4 DEF SendQinfo, MoveHandler, TypeOK
    <2> QED BY <1>1, <1>2, <2>1 DEF AskedInv, ClearPending, AboutToFlag
  <1>5. CASE ArmEvaluation(h)
    <2>1. handler'[h] = "mark" /\ UNCHANGED <<asked, vSentPacingOver>>
      BY <1>5 DEF ArmEvaluation, MoveHandler, TypeOK, flags
    <2> QED BY <1>1, <1>2, <2>1 DEF AskedInv, ClearPending, AboutToFlag
  <1>6. CASE MarkEvaluation(h)
    <2>1. vSentPacingOver' /\ UNCHANGED asked
      BY <1>6 DEF MarkEvaluation
    <2> QED BY <1>1, <1>2, <2>1 DEF AskedInv, ClearPending
  <1> QED BY <1>3, <1>4, <1>5, <1>6 DEF HandlerStep

(* The others. *)
LEMMA OthersInv ==
  ASSUME AskedInv, LowInv,
         \/ \E t \in Timers : Expire(t)
         \/ qEvaluation_TimerID_Handler
         \/ TrafficTick \/ IdleTick \/ FinishIdle \/ TakeMessage
         \/ \E on \in BOOLEAN : SetUseRetransmissionRate(on)
  PROVE  AskedInv' /\ LowInv'
  <1>1. CASE SendResetCleanUpPacingMsg
    <2>1. asked' = "no" /\ UNCHANGED <<sampler, vq_TimerIsSet>>
      BY <1>1 DEF SendResetCleanUpPacingMsg, flags
    <2> QED BY <2>1 DEF AskedInv, LowInv
  <1>2. CASE ClearSentByIdler
    <2>1. idler = "clear" /\ UNCHANGED <<asked, sampler, vq_TimerIsSet>>
      BY <1>2 DEF ClearSentByIdler
    <2> QED BY <2>1 DEF AskedInv, LowInv, ClearPending
  <1>3. CASE \/ \E t \in Timers : Expire(t)
             \/ qEvaluation_TimerID_Handler
             \/ TrafficTick \/ IdleTick \/ TakeMessage
             \/ \E on \in BOOLEAN : SetUseRetransmissionRate(on)
             \/ ClearTimerIsSet \/ IdleEndEvaluation \/ SetCanStartEvaluation \/ IdleCheck
    <2>1. /\ UNCHANGED <<asked, handler, vSentPacingOver, sampler>>
          /\ idler' = "clear" => idler = "clear"
          /\ vq_TimerIsSet' => vq_TimerIsSet
      BY <1>3 DEF Expire, qEvaluation_TimerID_Handler, TrafficTick, IdleTick, TakeMessage,
                  SetUseRetransmissionRate, ClearTimerIsSet, IdleEndEvaluation,
                  SetCanStartEvaluation, IdleCheck, flags
    <2> QED BY <2>1, Untouched
  <1> QED BY <1>1, <1>2, <1>3 DEF FinishIdle

-----------------------------------------------------------------------------
(* The inductive invariant holds at the start. *)
LEMMA InitIInv == Init => IInv
  <1> SUFFICES ASSUME Init PROVE IInv
    OBVIOUS
  <1>1. pending \in Seq(Timers) /\ queue \in Seq(Messages) /\ Len(queue) <= Capacity
    BY EmptySeq, CapacityAssumption DEF Init
  <1>2. sampler \in SamplerType /\ sampler.at = "poll"
    BY DEF Init, SamplerType, Levels
  <1>3. TypeOK
    BY <1>1, <1>2 DEF Init, TypeOK, SamplerType
  <1>4. AskedInv /\ LowInv
    BY <1>2 DEF Init, AskedInv, LowInv
  <1> QED BY <1>3, <1>4 DEF IInv

(* Every step preserves the inductive invariant. *)
LEMMA StepIInv == IInv /\ [Next]_vars => IInv'
  <1> SUFFICES ASSUME TypeOK, AskedInv, LowInv, [Next]_vars
               PROVE  TypeOK' /\ AskedInv' /\ LowInv'
    BY DEF IInv
  <1>1. CASE UNCHANGED vars
    <2>1. TypeOK'
      BY <1>1 DEF TypeOK, vars, flags
    <2>2. AskedInv' /\ LowInv'
      BY <1>1, Untouched DEF vars, flags
    <2> QED BY <2>1, <2>2
  <1>2. CASE Next
    <2>1. TypeOK'
      BY <1>2, SamplerTypes, HandlerTypes, OtherTypes DEF Next
    <2>2. AskedInv' /\ LowInv'
      BY <1>2, SamplerInv, HandlersInv, OthersInv DEF Next
    <2> QED BY <2>1, <2>2
  <1> QED BY <1>1, <1>2

(* Every reachable state satisfies the inductive invariant. *)
THEOREM Invariance == Spec => []IInv
  <1> QED BY InitIInv, StepIInv, PTL DEF Spec

(* The flags, the signals and the messages have their types, and the queue *)
(* is never longer than the ring, with any number of handlers at once.     *)
THEOREM TypeCorrect == Spec => []TypeOK
  <1>1. IInv => TypeOK
    BY DEF IInv
  <1> QED BY <1>1, Invariance, PTL

(* When the last message queued asks to pace, vSentPacingOver is set or    *)
(* about to be set, so that a low report or an idle link will call it off: *)
(* with any number of handlers at once, beside sample_func and the idle    *)
(* branch, which both clear the flag after they have sent.                 *)
THEOREM AskedFlagged == Spec => []AskedIsFlagged
  <1>1. IInv => AskedIsFlagged
    BY DEF IInv, AskedInv, AskedIsFlagged
  <1> QED BY <1>1, Invariance, PTL

-----------------------------------------------------------------------------
(* How a flag can lose its timer. *)

LosesFlagTimer == FlagWithoutTimer' /\ ~ FlagWithoutTimer
LosesEvaluation == EvaluationWithoutTimer' /\ ~ EvaluationWithoutTimer

(* A step that keeps every timer armed or its signal queued, and sets no   *)
(* flag.                                                                   *)
LEMMA KeepsTimers ==
  ASSUME \A t \in Timers : t \in armed \/ Queued(t) => t \in armed' \/ Queued(t)',
         vq_TimerIsSet' => vq_TimerIsSet /\ (idler' # "off" => idler # "off"),
         sampler'.at = "poll" => sampler.at = "poll" \/ ~ vq_TimerIsSet',
         ~ vCanStartEvaluationTimer' => ~ vCanStartEvaluationTimer,
         ~ vCanStartEvaluationTimer' /\ idler' # "restart" => idler # "restart"
  PROVE  ~ LosesFlagTimer /\ ~ LosesEvaluation
  BY DEF LosesFlagTimer, LosesEvaluation, FlagWithoutTimer, EvaluationWithoutTimer, Timers,
         QueueTimers

(* The steps that could lose a timer, one by one. *)
LEMMA StepLosesAtFlags ==
  ASSUME IInv, Next
  PROVE  /\ LosesFlagTimer => sampler.at = "record"
         /\ LosesEvaluation => \E h \in Handlers : handler[h] = "mark"
  <1> USE DEF Timers, QueueTimers
  <1>0. TypeOK /\ LowInv
    BY DEF IInv
  <1>1. UNCHANGED pending => \A t : Queued(t) => Queued(t)'
    BY <1>0, SignalsStay
  <1>2. CASE Sample
    <2>1. /\ UNCHANGED <<pending, vCanStartEvaluationTimer, idler>>
          /\ vq_TimerIsSet' => vq_TimerIsSet
          /\ sampler'.at = "poll" => sampler.at = "poll"
          /\ vq_TimerIsSet' => armed \subseteq armed'
          /\ "qEvaluation" \in armed => "qEvaluation" \in armed'
      BY <1>2 DEF Sample, SampleBoth, SampleQueue, SampleLow, Evaluate, TurnedOff, flags
    <2> QED BY <1>1, <2>1 DEF LosesFlagTimer, LosesEvaluation, FlagWithoutTimer,
                              EvaluationWithoutTimer
  <1>3. CASE Record
    <2>1. sampler.at = "record" /\ UNCHANGED <<armed, pending, vCanStartEvaluationTimer, idler>>
      BY <1>3 DEF Record
    <2> QED BY <1>1, <2>1 DEF LosesEvaluation, EvaluationWithoutTimer
  <1>4. CASE CheckReset \/ SendResetPacingMsg \/ ClearSentBySampler
    <2>1. /\ UNCHANGED <<armed, pending, vCanStartEvaluationTimer, vq_TimerIsSet, idler>>
          /\ sampler.at \in {"check", "reset", "clear"}
      BY <1>4 DEF CheckReset, SendResetPacingMsg, ClearSentBySampler, flags
    <2>2. ~ vq_TimerIsSet
      BY <1>0, <2>1 DEF LowInv
    <2> QED BY <1>1, <2>1, <2>2, KeepsTimers
  <1>5. ASSUME NEW t \in Timers, Expire(t) PROVE ~ LosesFlagTimer /\ ~ LosesEvaluation
    <2>1. Queued(t)' /\ (\A u : Queued(u) => Queued(u)')
      BY <1>0, <1>5, SignalsStay
    <2>2. /\ armed' = armed \ {t}
          /\ UNCHANGED <<vCanStartEvaluationTimer, vq_TimerIsSet, idler, sampler>>
      BY <1>5 DEF Expire, flags
    <2>3. \A u \in Timers : u \in armed \/ Queued(u) => u \in armed' \/ Queued(u)'
      BY <2>1, <2>2
    <2> QED BY <2>2, <2>3, KeepsTimers
  <1>6. ASSUME NEW h \in Handlers, StartHandler(h) PROVE ~ LosesFlagTimer /\ ~ LosesEvaluation
    <2>1. /\ pending # <<>> /\ pending' = Tail(pending) /\ Head(pending) # "qEvaluation"
          /\ ~ vq_TimerIsSet' /\ UNCHANGED <<armed, vCanStartEvaluationTimer, idler>>
      BY <1>6 DEF StartHandler
    <2>2. Queued("qEvaluation") => Queued("qEvaluation")'
      BY <1>0, <2>1, SignalsStay
    <2> QED BY <2>1, <2>2 DEF LosesFlagTimer, LosesEvaluation, FlagWithoutTimer,
                              EvaluationWithoutTimer
  <1>7. ASSUME NEW h \in Handlers, CheckEvaluation(h) \/ SendQinfo(h) \/ ArmEvaluation(h)
        PROVE  ~ LosesFlagTimer /\ ~ LosesEvaluation
    <2>1. /\ UNCHANGED <<pending, vCanStartEvaluationTimer, vq_TimerIsSet, idler, sampler>>
          /\ armed \subseteq armed'
      BY <1>7 DEF CheckEvaluation, SendQinfo, ArmEvaluation, flags
    <2> QED BY <1>1, <2>1, KeepsTimers
  <1>8. ASSUME NEW h \in Handlers, MarkEvaluation(h)
        PROVE  ~ LosesFlagTimer /\ handler[h] = "mark"
    <2>1. /\ UNCHANGED <<armed, pending, vq_TimerIsSet, idler, sampler>>
          /\ handler[h] = "mark"
      BY <1>8 DEF MarkEvaluation
    <2> QED BY <1>1, <2>1 DEF LosesFlagTimer, FlagWithoutTimer
  <1>9. CASE qEvaluation_TimerID_Handler
    <2>1. /\ pending # <<>> /\ pending' = Tail(pending) /\ Head(pending) = "qEvaluation"
          /\ vCanStartEvaluationTimer' /\ UNCHANGED <<armed, vq_TimerIsSet, idler, sampler>>
      BY <1>9 DEF qEvaluation_TimerID_Handler
    <2>2. \A t \in QueueTimers : Queued(t) => Queued(t)'
      BY <1>0, <2>1, SignalsStay
    <2> QED BY <2>1, <2>2 DEF LosesFlagTimer, LosesEvaluation, FlagWithoutTimer,
                              EvaluationWithoutTimer
  <1>10. CASE IdleTick
    <2>1. /\ UNCHANGED <<pending, vq_TimerIsSet, vCanStartEvaluationTimer>>
          /\ idler = "tick" /\ (vq_TimerIsSet => idler' = "off")
          /\ "qEvaluation" \in armed => "qEvaluation" \in armed'
      BY <1>10 DEF IdleTick, flags
    <2> QED BY <1>1, <2>1 DEF LosesFlagTimer, LosesEvaluation, FlagWithoutTimer,
                              EvaluationWithoutTimer
  <1>11. CASE IdleEndEvaluation
    <2>1. /\ UNCHANGED <<pending, vq_TimerIsSet, vCanStartEvaluationTimer, sampler>>
          /\ idler = "evaluation" /\ (armed' = armed \/ idler' = "restart")
          /\ \A t \in QueueTimers : t \in armed => t \in armed'
      BY <1>11 DEF IdleEndEvaluation, flags
    <2> QED BY <1>1, <2>1 DEF LosesFlagTimer, LosesEvaluation, FlagWithoutTimer,
                              EvaluationWithoutTimer
  <1>12. CASE ClearTimerIsSet \/ SetCanStartEvaluation
    <2>1. /\ UNCHANGED <<armed, pending, sampler>>
          /\ \/ ~ vq_TimerIsSet' /\ idler = "off" /\ UNCHANGED vCanStartEvaluationTimer
             \/ vCanStartEvaluationTimer' /\ idler = "restart" /\ UNCHANGED vq_TimerIsSet
      BY <1>12 DEF ClearTimerIsSet, SetCanStartEvaluation
    <2> QED BY <1>1, <2>1 DEF LosesFlagTimer, LosesEvaluation, FlagWithoutTimer,
                              EvaluationWithoutTimer
  <1>13. CASE \/ TrafficTick \/ TakeMessage \/ IdleCheck \/ SendResetCleanUpPacingMsg
              \/ ClearSentByIdler \/ \E on \in BOOLEAN : SetUseRetransmissionRate(on)
    <2>1. /\ UNCHANGED <<armed, pending, vq_TimerIsSet, vCanStartEvaluationTimer, sampler>>
          /\ idler' = idler \/ idler \in {"check", "cleanup", "clear"}
      BY <1>13 DEF TrafficTick, TakeMessage, IdleCheck, SendResetCleanUpPacingMsg,
                   ClearSentByIdler, SetUseRetransmissionRate, flags
    <2> QED BY <1>1, <2>1 DEF LosesFlagTimer, LosesEvaluation, FlagWithoutTimer,
                              EvaluationWithoutTimer
  <1> QED BY <1>2, <1>3, <1>4, <1>5, <1>6, <1>7, <1>8, <1>9, <1>10, <1>11, <1>12, <1>13
          DEF Next, FinishSample, HandlerStep, FinishIdle

(* With any number of handlers at once, a flag loses its timer only where  *)
(* it is set after the timer was armed: vq_TimerIsSet = 1 in sample_func   *)
(* and vCanStartEvaluationTimer = 0 in fStartEvaluationTimer.  The         *)
(* exceptions of the liveness properties have no other cause.              *)
THEOREM TimersLostAtFlags == Spec => TimersAreLostAtFlags
  <1>1. IInv /\ [Next]_vars
          => [/\ FlagWithoutTimer' => FlagWithoutTimer \/ sampler.at = "record"
              /\ EvaluationWithoutTimer'
                   => EvaluationWithoutTimer \/ \E h \in Handlers : handler[h] = "mark"]_vars
    BY StepLosesAtFlags DEF LosesFlagTimer, LosesEvaluation
  <1> QED BY <1>1, Invariance, PTL DEF Spec, TimersAreLostAtFlags

=============================================================================
