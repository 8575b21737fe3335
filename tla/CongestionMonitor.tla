------------------------- MODULE CongestionMonitor -------------------------
(***************************************************************************)
(* How the destination DTN decides, in userspace/user_dtn.c, to ask the    *)
(* source to pace and to stop pacing: sample_func (called for every report *)
(* of the INT sink), the one-shot timers qOCC_Hop, qOCC and qEvaluation    *)
(* with their handlers, the idle branch of fDoRunGetThresholds and the     *)
(* command "-r#" of the HTTP interface.  They share plain global flags.    *)
(*                                                                         *)
(* Messages go to the queue of BoundedFifo, which PeerQueue implements.    *)
(* SIGRTMIN signals are queued by the kernel in the order the timers       *)
(* expire, one entry per timer; disarming a timer leaves its queued signal *)
(* alone.  A handler runs concurrently with the other threads.             *)
(*                                                                         *)
(* This is the mode without Kafka: with it the INT sink is not used and    *)
(* there are no reports.                                                   *)
(***************************************************************************)
EXTENDS Naturals, Sequences

CONSTANTS
  Flows,     \* the source addresses of the sampled flows
  NoFlow,    \* the address zero, before anything was recorded
  Handlers,  \* activations of the timer handlers that can be under way at once
  Capacity,  \* messages the queue holds
  Scenarios  \* the sets of events that may happen around it in a behaviour:
             \* "idle", the link can fall idle, "command", the operator can
             \* send the command -r#, and "overlap", handlers run on several
             \* threads at once

ASSUME FlowAssumption == NoFlow \notin Flows
ASSUME CapacityAssumption == Capacity \in Nat \ {0}
ASSUME ScenarioAssumption == Scenarios \subseteq SUBSET {"idle", "command", "overlap"}

VARIABLES
  armed,                     \* the timers that are counting down
  pending,                   \* the queued signals of expired timers
  vq_TimerIsSet,
  vCanStartEvaluationTimer,
  vSentPacingOver,
  vUseRetransmissionRate,
  vTwiceInaRow,
  sqOCC_TimerID_Data,        \* the source that the timer handlers will write to
  src_ip_addr,               \* the source of the last sample
  sampler,                   \* where sample_func is, and its sample
  handler,                   \* where each handler activation is
  idler,                     \* where the idle branch of fDoRunGetThresholds is
  queue,                     \* messages for fDoRunSendMessageToPeer
  events,                    \* those of this behaviour
  asked                      \* history: whether the last message asks to pace, "yes",
                             \* or calls it off, "no"; "overtaken" if it asks and was
                             \* queued between a message that calls it off and the
                             \* assignment that goes with that message

flags == <<vq_TimerIsSet, vCanStartEvaluationTimer, vSentPacingOver,
           vUseRetransmissionRate, vTwiceInaRow>>
vars == <<armed, pending, flags, sqOCC_TimerID_Data, src_ip_addr, sampler, handler,
          idler, queue, events, asked>>

Timers      == {"qOCC_Hop", "qOCC", "qEvaluation"}
QueueTimers == {"qOCC_Hop", "qOCC"}

(* A sample is over both thresholds, over the queue occupancy alone, or    *)
(* neither (a high hop latency alone counts as neither).                   *)
Levels == {"both", "queue", "low"}

Messages == [type : {"QINFO", "RESET_PACING", "CLEANUP_RESET_PACING"},
             src : Flows \cup {NoFlow}]

TypeOK ==
  /\ armed \subseteq Timers
  /\ pending \in Seq(Timers)
  /\ vq_TimerIsSet \in BOOLEAN
  /\ vCanStartEvaluationTimer \in BOOLEAN
  /\ vSentPacingOver \in BOOLEAN
  /\ vUseRetransmissionRate \in BOOLEAN
  /\ vTwiceInaRow \in BOOLEAN
  /\ sqOCC_TimerID_Data \in Flows \cup {NoFlow}
  /\ src_ip_addr \in Flows \cup {NoFlow}
  /\ sampler \in [at : {"poll", "record", "check", "reset", "clear"},
                  flow : Flows \cup {NoFlow}, level : Levels]
  /\ handler \in [Handlers -> {"idle", "check", "send", "arm", "mark"}]
  /\ idler \in {"tick", "off", "evaluation", "restart", "check", "cleanup", "clear"}
  /\ queue \in Seq(Messages)
  /\ Len(queue) <= Capacity
  /\ events \in Scenarios
  /\ asked \in {"yes", "no", "overtaken"}

Init ==
  /\ armed = {}
  /\ pending = <<>>
  /\ vq_TimerIsSet = FALSE
  /\ vCanStartEvaluationTimer = TRUE
  /\ vSentPacingOver = FALSE
  /\ vUseRetransmissionRate = FALSE
  /\ vTwiceInaRow = FALSE
  /\ sqOCC_TimerID_Data = NoFlow
  /\ src_ip_addr = NoFlow
  /\ sampler = [at |-> "poll", flow |-> NoFlow, level |-> "low"]
  /\ handler = [h \in Handlers |-> "idle"]
  /\ idler = "tick"
  /\ queue = <<>>
  /\ events \in Scenarios
  /\ asked = "no"

\* Mutant: it does not wait.
SendUnbounded(type, src) ==
  queue' = Append(queue, [type |-> type, src |-> src])

(* The locked enqueue of the ring: it waits while the ring is full. *)
Send(type, src) ==
  /\ Len(queue) < Capacity
  /\ queue' = Append(queue, [type |-> type, src |-> src])

-----------------------------------------------------------------------------
(* sample_func. *)

\* The report of one hop is handled to its end: src_ip_addr keeps its source.
Finish ==
  /\ sampler' = [sampler EXCEPT !.at = "poll"]
  /\ src_ip_addr' = sampler.flow

\* EvaluateQOcc_and_HopDelay and EvaluateQOccUserInfo start with the timer,
\* unless one is believed to run already.
Evaluate(f, level, timer) ==
  IF vq_TimerIsSet
  THEN /\ sampler' = [at |-> "poll", flow |-> f, level |-> level]
       /\ src_ip_addr' = f
       /\ UNCHANGED armed
  ELSE /\ armed' = armed \cup {timer}
       /\ sampler' = [at |-> "record", flow |-> f, level |-> level]
       /\ UNCHANGED src_ip_addr

SampleBoth(f) ==
  /\ sampler.at = "poll"
  /\ Evaluate(f, "both", "qOCC_Hop")
  /\ UNCHANGED <<pending, flags, sqOCC_TimerID_Data, handler, idler, queue, events, asked>>

SampleQueue(f) ==
  /\ sampler.at = "poll"
  /\ vUseRetransmissionRate
  /\ Evaluate(f, "queue", "qOCC")
  /\ UNCHANGED <<pending, flags, sqOCC_TimerID_Data, handler, idler, queue, events, asked>>

\* They end with the flag and the data of the report.
Record ==
  /\ sampler.at = "record"
  /\ vq_TimerIsSet' = TRUE
  /\ sqOCC_TimerID_Data' = sampler.flow
  /\ Finish
  /\ UNCHANGED <<armed, pending, vCanStartEvaluationTimer, vSentPacingOver,
                 vUseRetransmissionRate, vTwiceInaRow, handler, idler, queue,
                 events, asked>>

\* The timers that a sample below the thresholds turns off.
TurnedOff == IF vUseRetransmissionRate THEN QueueTimers ELSE {"qOCC_Hop"}

SampleLow(f, level) ==
  /\ sampler.at = "poll"
  /\ level = "low" \/ (level = "queue" /\ ~ vUseRetransmissionRate)
  /\ armed' = IF vq_TimerIsSet THEN armed \ TurnedOff ELSE armed
  /\ vq_TimerIsSet' = FALSE
  /\ sampler' = [at |-> "check", flow |-> f, level |-> "low"]
  /\ UNCHANGED <<pending, vCanStartEvaluationTimer, vSentPacingOver,
                 vUseRetransmissionRate, vTwiceInaRow, sqOCC_TimerID_Data, src_ip_addr,
                 handler, idler, queue, events, asked>>

\* Mutant: the second test is the wrong way round.
CheckResetInverted ==
  /\ sampler.at = "check"
  /\ IF vSentPacingOver /\ ~ vCanStartEvaluationTimer
     THEN /\ sampler' = [sampler EXCEPT !.at = "reset"]
          /\ UNCHANGED src_ip_addr
     ELSE Finish
  /\ UNCHANGED <<armed, pending, flags, sqOCC_TimerID_Data, handler, idler, queue,
                 events, asked>>

CheckReset ==
  /\ sampler.at = "check"
  /\ IF vSentPacingOver /\ vCanStartEvaluationTimer
     THEN /\ sampler' = [sampler EXCEPT !.at = "reset"]
          /\ UNCHANGED src_ip_addr
     ELSE Finish
  /\ UNCHANGED <<armed, pending, flags, sqOCC_TimerID_Data, handler, idler, queue,
                 events, asked>>

SendResetPacingMsg ==
  /\ sampler.at = "reset"
  /\ Send("RESET_PACING", sampler.flow)
  /\ asked' = "no"
  /\ sampler' = [sampler EXCEPT !.at = "clear"]
  /\ UNCHANGED <<armed, pending, flags, sqOCC_TimerID_Data, src_ip_addr, handler, idler,
                 events>>

ClearSentBySampler ==
  /\ sampler.at = "clear"
  /\ vSentPacingOver' = FALSE
  /\ Finish
  /\ UNCHANGED <<armed, pending, vq_TimerIsSet, vCanStartEvaluationTimer,
                 vUseRetransmissionRate, vTwiceInaRow, sqOCC_TimerID_Data, handler,
                 idler, queue, events, asked>>

-----------------------------------------------------------------------------
(* The timers and their handlers. *)

Queued(t) == \E i \in DOMAIN pending : pending[i] = t

\* A timer expires and queues its signal, unless it is queued already.
Expire(t) ==
  /\ t \in armed
  /\ armed' = armed \ {t}
  /\ pending' = IF Queued(t) THEN pending ELSE Append(pending, t)
  /\ UNCHANGED <<flags, sqOCC_TimerID_Data, src_ip_addr, sampler, handler, idler, queue,
                 events, asked>>

\* timerHandler starts qOCC_Hop_TimerID_Handler or qOCC_TimerID_Handler.
StartHandler(h) ==
  /\ handler[h] = "idle"
  /\ "overlap" \in events \/ \A g \in Handlers : handler[g] = "idle"
  /\ pending # <<>>
  /\ Head(pending) \in QueueTimers
  /\ pending' = Tail(pending)
  /\ vq_TimerIsSet' = FALSE
  /\ handler' = [handler EXCEPT ![h] = "check"]
  /\ UNCHANGED <<armed, vCanStartEvaluationTimer, vSentPacingOver, vUseRetransmissionRate,
                 vTwiceInaRow, sqOCC_TimerID_Data, src_ip_addr, sampler, idler, queue,
                 events, asked>>

MoveHandler(h, to) == handler' = [handler EXCEPT ![h] = to]

\* Mutant: the test is the wrong way round.
InvertEvaluationCheck(h) ==
  /\ handler[h] = "check"
  /\ MoveHandler(h, IF vCanStartEvaluationTimer THEN "idle" ELSE "send")
  /\ UNCHANGED <<armed, pending, flags, sqOCC_TimerID_Data, src_ip_addr, sampler, idler, queue,
                 events, asked>>

\* Nothing is sent while the evaluation of an earlier message is under way.
CheckEvaluation(h) ==
  /\ handler[h] = "check"
  /\ MoveHandler(h, IF vCanStartEvaluationTimer THEN "send" ELSE "idle")
  /\ UNCHANGED <<armed, pending, flags, sqOCC_TimerID_Data, src_ip_addr, sampler, idler, queue,
                 events, asked>>

\* A message that calls pacing off is queued, and the flag not cleared yet.
ClearPending == sampler.at = "clear" \/ idler = "clear"

SendQinfo(h) ==
  /\ handler[h] = "send"
  /\ Send("QINFO", sqOCC_TimerID_Data)
  /\ asked' = IF ClearPending THEN "overtaken" ELSE "yes"
  /\ MoveHandler(h, "arm")
  /\ UNCHANGED <<armed, pending, flags, sqOCC_TimerID_Data, src_ip_addr, sampler, idler,
                 events>>

\* fStartEvaluationTimer: the timer first, then the flags.
ArmEvaluation(h) ==
  /\ handler[h] = "arm"
  /\ armed' = armed \cup {"qEvaluation"}
  /\ MoveHandler(h, "mark")
  /\ UNCHANGED <<pending, flags, sqOCC_TimerID_Data, src_ip_addr, sampler, idler, queue,
                 events, asked>>

\* Mutant: that a message was sent is not noted.
MarkUnsent(h) ==
  /\ handler[h] = "mark"
  /\ vCanStartEvaluationTimer' = FALSE
  /\ MoveHandler(h, "idle")
  /\ UNCHANGED <<armed, pending, vq_TimerIsSet, vSentPacingOver, vUseRetransmissionRate,
                 vTwiceInaRow, sqOCC_TimerID_Data, src_ip_addr, sampler, idler, queue,
                 events, asked>>

MarkEvaluation(h) ==
  /\ handler[h] = "mark"
  /\ vCanStartEvaluationTimer' = FALSE
  /\ vSentPacingOver' = TRUE
  /\ MoveHandler(h, "idle")
  /\ UNCHANGED <<armed, pending, vq_TimerIsSet, vUseRetransmissionRate, vTwiceInaRow,
                 sqOCC_TimerID_Data, src_ip_addr, sampler, idler, queue, events, asked>>

qEvaluation_TimerID_Handler ==
  /\ \E h \in Handlers : handler[h] = "idle"
  /\ "overlap" \in events \/ \A g \in Handlers : handler[g] = "idle"
  /\ pending # <<>>
  /\ Head(pending) = "qEvaluation"
  /\ pending' = Tail(pending)
  /\ vCanStartEvaluationTimer' = TRUE
  /\ UNCHANGED <<armed, vq_TimerIsSet, vSentPacingOver, vUseRetransmissionRate, vTwiceInaRow,
                 sqOCC_TimerID_Data, src_ip_addr, sampler, handler, idler, queue,
                 events, asked>>

-----------------------------------------------------------------------------
(* fDoRunGetThresholds looks at the link once a second. *)

TrafficTick ==
  /\ idler = "tick"
  /\ vTwiceInaRow' = FALSE
  /\ UNCHANGED <<armed, pending, vq_TimerIsSet, vCanStartEvaluationTimer, vSentPacingOver,
                 vUseRetransmissionRate, sqOCC_TimerID_Data, src_ip_addr, sampler,
                 handler, idler, queue, events, asked>>

\* Nothing was sent or received: the queue timers are turned off ...
IdleTick ==
  /\ "idle" \in events
  /\ idler = "tick"
  /\ armed' = IF vq_TimerIsSet THEN armed \ QueueTimers ELSE armed
  /\ idler' = IF vq_TimerIsSet THEN "off" ELSE "evaluation"
  /\ UNCHANGED <<pending, flags, sqOCC_TimerID_Data, src_ip_addr, sampler, handler, queue,
                 events, asked>>

ClearTimerIsSet ==
  /\ idler = "off"
  /\ vq_TimerIsSet' = FALSE
  /\ idler' = "evaluation"
  /\ UNCHANGED <<armed, pending, vCanStartEvaluationTimer, vSentPacingOver,
                 vUseRetransmissionRate, vTwiceInaRow, sqOCC_TimerID_Data, src_ip_addr,
                 sampler, handler, queue, events, asked>>

\* Mutant: the timer is turned off the first time already, the flag stays.
EndEvaluationAtOnce ==
  /\ idler = "evaluation"
  /\ armed' = IF vCanStartEvaluationTimer THEN armed ELSE armed \ {"qEvaluation"}
  /\ idler' = IF ~ vCanStartEvaluationTimer /\ vTwiceInaRow THEN "restart" ELSE "check"
  /\ UNCHANGED <<pending, flags, sqOCC_TimerID_Data, src_ip_addr, sampler, handler, queue,
                 events, asked>>

\* ... the second time in a row the evaluation timer too ...
IdleEndEvaluation ==
  /\ idler = "evaluation"
  /\ IF ~ vCanStartEvaluationTimer /\ vTwiceInaRow
     THEN armed' = armed \ {"qEvaluation"} /\ idler' = "restart"
     ELSE idler' = "check" /\ UNCHANGED armed
  /\ UNCHANGED <<pending, flags, sqOCC_TimerID_Data, src_ip_addr, sampler, handler, queue,
                 events, asked>>

SetCanStartEvaluation ==
  /\ idler = "restart"
  /\ vCanStartEvaluationTimer' = TRUE
  /\ idler' = "check"
  /\ UNCHANGED <<armed, pending, vq_TimerIsSet, vSentPacingOver, vUseRetransmissionRate,
                 vTwiceInaRow, sqOCC_TimerID_Data, src_ip_addr, sampler, handler, queue,
                 events, asked>>

\* ... and the source is told to clean up if it was told to pace.
IdleCheck ==
  /\ idler = "check"
  /\ IF vSentPacingOver /\ vTwiceInaRow /\ vCanStartEvaluationTimer
     THEN idler' = "cleanup" /\ UNCHANGED vTwiceInaRow
     ELSE idler' = "tick" /\ vTwiceInaRow' = TRUE
  /\ UNCHANGED <<armed, pending, vq_TimerIsSet, vCanStartEvaluationTimer, vSentPacingOver,
                 vUseRetransmissionRate, sqOCC_TimerID_Data, src_ip_addr, sampler,
                 handler, queue, events, asked>>

SendResetCleanUpPacingMsg ==
  /\ idler = "cleanup"
  /\ Send("CLEANUP_RESET_PACING", src_ip_addr)
  /\ asked' = "no"
  /\ idler' = "clear"
  /\ UNCHANGED <<armed, pending, flags, sqOCC_TimerID_Data, src_ip_addr, sampler, handler,
                 events>>

ClearSentByIdler ==
  /\ idler = "clear"
  /\ vSentPacingOver' = FALSE
  /\ vTwiceInaRow' = TRUE
  /\ idler' = "tick"
  /\ UNCHANGED <<armed, pending, vq_TimerIsSet, vCanStartEvaluationTimer,
                 vUseRetransmissionRate, sqOCC_TimerID_Data, src_ip_addr, sampler,
                 handler, queue, events, asked>>

-----------------------------------------------------------------------------
(* The command "-r#" of the HTTP interface. *)
SetUseRetransmissionRate(on) ==
  /\ "command" \in events
  /\ vUseRetransmissionRate' = on
  /\ UNCHANGED <<armed, pending, vq_TimerIsSet, vCanStartEvaluationTimer, vSentPacingOver,
                 vTwiceInaRow, sqOCC_TimerID_Data, src_ip_addr, sampler, handler,
                 idler, queue, events, asked>>

(* fDoRunSendMessageToPeer takes the oldest message. *)
TakeMessage ==
  /\ queue # <<>>
  /\ queue' = Tail(queue)
  /\ UNCHANGED <<armed, pending, flags, sqOCC_TimerID_Data, src_ip_addr, sampler,
                 handler, idler, events, asked>>

-----------------------------------------------------------------------------
Sample ==
  \E f \in Flows : \/ SampleBoth(f)
                   \/ SampleQueue(f)
                   \/ \E level \in Levels : SampleLow(f, level)

FinishSample == Record \/ CheckReset \/ SendResetPacingMsg \/ ClearSentBySampler

HandlerStep(h) ==
  \/ StartHandler(h)
  \/ CheckEvaluation(h)
  \/ SendQinfo(h)
  \/ ArmEvaluation(h)
  \/ MarkEvaluation(h)

FinishIdle ==
  \/ ClearTimerIsSet
  \/ IdleEndEvaluation
  \/ SetCanStartEvaluation
  \/ IdleCheck
  \/ SendResetCleanUpPacingMsg
  \/ ClearSentByIdler

Next ==
  \/ Sample
  \/ FinishSample
  \/ \E t \in Timers : Expire(t)
  \/ \E h \in Handlers : HandlerStep(h)
  \/ qEvaluation_TimerID_Handler
  \/ TrafficTick
  \/ IdleTick
  \/ FinishIdle
  \/ \E on \in BOOLEAN : SetUseRetransmissionRate(on)
  \/ TakeMessage

Spec == Init /\ [][Next]_vars

(***************************************************************************)
(* The sink keeps reporting, armed timers expire, signals are handled, the *)
(* threads run on, and messages are taken (PeerQueue says when).  Idle     *)
(* ticks, levels and commands are up to the environment.                   *)
(***************************************************************************)
Fairness ==
  /\ WF_vars(Sample)
  /\ WF_vars(FinishSample)
  /\ \A t \in Timers : WF_vars(Expire(t))
  /\ \A h \in Handlers : WF_vars(HandlerStep(h))
  /\ WF_vars(qEvaluation_TimerID_Handler)
  /\ WF_vars(FinishIdle)
  /\ WF_vars(TakeMessage)

FairSpec == Spec /\ Fairness

-----------------------------------------------------------------------------
(* The evaluation timer defers action, as readme.txt says of it: while the *)
(* evaluation of one QINFO message counts down, no handler has another one *)
(* sent.  The code breaks it.  The handlers test vCanStartEvaluationTimer  *)
(* before they wait for the ring, and clear it after they have armed the   *)
(* timer, so handlers that overlap both send; and a signal that was queued *)
(* when the idle branch ended its evaluation ends the next one.            *)
DeferredWhileEvaluating ==
  "qEvaluation" \in armed => \A h \in Handlers : handler[h] # "arm"

(* A handler has queued its message and will set vSentPacingOver. *)
AboutToFlag == \E h \in Handlers : handler[h] \in {"arm", "mark"}

(* What was asked for is remembered, so that it can be called off: when    *)
(* the last message queued is a QINFO, vSentPacingOver is set or the       *)
(* handler that queued it is about to set it, whatever other handlers,     *)
(* sample_func and the idle branch do with the flag; unless the message    *)
(* has overtaken the clearing of the flag for an earlier reset.            *)
AskedIsFlagged ==
  asked = "yes" => vSentPacingOver \/ AboutToFlag

(* The flag says that a timer runs, but none does and nobody is left to    *)
(* clear it: the signal was handled before sample_func set the flag.       *)
FlagWithoutTimer ==
  /\ vq_TimerIsSet
  /\ sampler.at = "poll"
  /\ idler # "off"
  /\ \A t \in QueueTimers : t \notin armed /\ ~ Queued(t)

(* The evaluation has no end: its signal was handled before                *)
(* fStartEvaluationTimer cleared the flag.                                 *)
EvaluationWithoutTimer ==
  /\ ~ vCanStartEvaluationTimer
  /\ idler # "restart"
  /\ "qEvaluation" \notin armed /\ ~ Queued("qEvaluation")

(* A flag loses its timer in one way only: it is set, by sample_func or by *)
(* the handler in fStartEvaluationTimer, after the timer that it armed has *)
(* gone already.  Disarming timers on an idle link or for a low report,    *)
(* taking signals, and handlers that overlap never lead to such a state.   *)
TimersAreLostAtFlags ==
  [][/\ FlagWithoutTimer' => FlagWithoutTimer \/ sampler.at = "record"
     /\ EvaluationWithoutTimer'
          => EvaluationWithoutTimer \/ \E h \in Handlers : handler[h] = "mark"]_vars

QinfoSent == \E h \in Handlers : handler[h] = "arm"

(* Congestion that lasts is acted on: if from some time on every report is *)
(* over both thresholds while the link carries traffic, QINFO messages are *)
(* sent again and again, unless a flag has lost its timer.                 *)
LastingCongestionIsReported ==
  <>[](sampler.level = "both" /\ ~ vTwiceInaRow)
    => \/ []<>QinfoSent
       \/ <>[]FlagWithoutTimer
       \/ <>[]EvaluationWithoutTimer

(* Pacing that was asked for is called off: if from some time on every     *)
(* report is below the thresholds, the last QINFO message is followed by a *)
(* RESET_PACING or CLEANUP_RESET_PACING message, unless it was queued      *)
(* between such a message and the assignment vSentPacingOver = 0 that goes *)
(* with it, or the evaluation has lost its timer.                          *)
PacingIsCalledOff ==
  <>[](sampler.level = "low")
    => <>[](asked # "yes") \/ <>[]EvaluationWithoutTimer

=============================================================================
