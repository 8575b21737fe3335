----------------------------- MODULE DtnSystem -----------------------------
(***************************************************************************)
(* A destination DTN and its source DTNs, all running userspace/user_dtn.c *)
(* in tuning mode without Kafka: the decisions of CongestionMonitor, the   *)
(* queue that PeerQueue implements, the thread fDoRunSendMessageToPeer and *)
(* its connections, the listener fDoRunGetMessageFromPeer with one child   *)
(* per message, and what PacingControl does with a message. Here a         *)
(* decision of the destination is one step; at a source the tc command and *)
(* the write of the shared flag are separate steps, in the order each      *)
(* function has them, and what leads to the first of them belongs to it.   *)
(* The modules named look further inside. What this one adds is what lies  *)
(* between them, the messages that get lost, overtake each other or go to  *)
(* another source, children of several messages at work at once, and       *)
(* processes that end and are started again. START messages, which change  *)
(* no pacing, are left out.                                                *)
(***************************************************************************)
EXTENDS Naturals, FiniteSets, Sequences, SequencesExt

CONSTANTS
  Sources,         \* the source DTNs
  Watched,         \* those whose own side is modelled; what a source does is not
                   \* noticed by the others nor by the destination
  Nobody,          \* no source, the address zero
  Capacity,        \* messages the queue holds
  MaxMessages      \* bound: messages queued, under way or at work at once

ASSUME SourceAssumption == Nobody \notin Sources /\ Watched \subseteq Sources
ASSUME BoundAssumption ==
  /\ Capacity \in Nat \ {0}
  /\ MaxMessages \in Nat \ {0}

VARIABLES
  busy,      \* the sources that transmit
  monitor,   \* the flags and timers of the destination
  queue,     \* its messages
  work,      \* for each source the messages sent to it and what their children
             \* have left to do, oldest first
  flag,      \* sResetPacingBack.set in the shared memory of each source
  qdisc,     \* the root qdisc of each source
  removing   \* the sources whose idle branch has cleared the flag and not yet
             \* removed the limit

destination == <<monitor, queue>>
pacing      == <<flag, qdisc>>
source      == <<work, pacing, removing>>
vars == <<busy, destination, source>>

Types == {"QINFO", "RESET_PACING", "CLEANUP_RESET_PACING"}
Messages == [type : Types, to : Sources \cup {Nobody}]

\* What a child has left: all of its message, to write the regular flag or
\* NOPACING_FLAG_SET, to run "tc qdisc change ... nopacing", or "tc qdisc del".
Lefts == {"regular", "nopacing", "change", "del"}
Jobs == [type : Types, left : {"all"} \cup Lefts]

\* qOCC is the source that the armed queue timer will report, evaluating says
\* that qEvaluation is armed, that is, vCanStartEvaluationTimer = 0.
Monitors == [qOCC : Sources \cup {Nobody}, evaluating : BOOLEAN, vSentPacingOver : BOOLEAN,
             vTwiceInaRow : BOOLEAN, src_ip_addr : Sources \cup {Nobody}]

TypeOK ==
  /\ busy \subseteq Sources
  /\ monitor \in Monitors
  /\ queue \in Seq(Messages) /\ Len(queue) <= Capacity
  /\ work \in [Watched -> Seq(Jobs)]
  /\ flag \in [Watched -> {0, 1, 99}]
  /\ qdisc \in [Watched -> {"default", "nopacing", "paced"}]
  /\ removing \subseteq Watched

Started == [qOCC |-> Nobody, evaluating |-> FALSE, vSentPacingOver |-> FALSE,
            vTwiceInaRow |-> FALSE, src_ip_addr |-> Nobody]

Init ==
  /\ busy = {}
  /\ monitor = Started
  /\ queue = <<>>
  /\ work = [s \in Watched |-> <<>>]
  /\ flag = [s \in Watched |-> 0]
  /\ qdisc = [s \in Watched |-> "default"]
  /\ removing = {}

\* Transfers start and end.
Traffic(s) ==
  /\ busy' = IF s \in busy THEN busy \ {s} ELSE busy \cup {s}
  /\ UNCHANGED <<destination, source>>

-----------------------------------------------------------------------------
(* The destination decides. *)

\* There is room for a message in the model, if not in the queue.
UnderWay == UNION {{s} \X DOMAIN work[s] : s \in Watched}
Room == Len(queue) + Cardinality(UnderWay) < MaxMessages

\* Mutant: the ring overwrites what it holds.
PutUnchecked(type, s) ==
  /\ Room
  /\ queue' = Append(queue, [type |-> type, to |-> s])

Put(type, s) ==
  /\ Len(queue) < Capacity
  /\ Room
  /\ queue' = Append(queue, [type |-> type, to |-> s])

HighReport(s) ==
  /\ s \in busy
  /\ monitor' = [monitor EXCEPT !.qOCC = IF @ = Nobody THEN s ELSE @, !.src_ip_addr = s]
  /\ UNCHANGED <<busy, queue, source>>

\* A low report about any source turns the timer off, and resets that source.
LowReport(s) ==
  /\ s \in busy
  /\ IF monitor.vSentPacingOver /\ ~ monitor.evaluating THEN Put("RESET_PACING", s)
                                                        ELSE UNCHANGED queue
  /\ monitor' = [monitor EXCEPT !.qOCC = Nobody, !.src_ip_addr = s,
                                !.vSentPacingOver = @ /\ monitor.evaluating]
  /\ UNCHANGED <<busy, source>>

\* The queue timer expires; nothing is sent while an evaluation is under way.
QueueTimer ==
  /\ monitor.qOCC # Nobody
  /\ IF monitor.evaluating
     THEN /\ monitor' = [monitor EXCEPT !.qOCC = Nobody]
          /\ UNCHANGED queue
     ELSE /\ Put("QINFO", monitor.qOCC)
          /\ monitor' = [monitor EXCEPT !.qOCC = Nobody, !.evaluating = TRUE,
                                        !.vSentPacingOver = TRUE]
  /\ UNCHANGED <<busy, source>>

EvaluationTimer ==
  /\ monitor.evaluating
  /\ monitor' = [monitor EXCEPT !.evaluating = FALSE]
  /\ UNCHANGED <<busy, queue, source>>

\* A second in which the destination's link carried traffic, and one without.
BusyTick ==
  /\ busy # {}
  /\ monitor' = [monitor EXCEPT !.vTwiceInaRow = FALSE]
  /\ UNCHANGED <<busy, queue, source>>

IdleTick ==
  LET evaluating == monitor.evaluating /\ ~ monitor.vTwiceInaRow
      cleanup    == monitor.vSentPacingOver /\ monitor.vTwiceInaRow
  IN  /\ busy = {}
      /\ IF cleanup THEN Put("CLEANUP_RESET_PACING", monitor.src_ip_addr)
                    ELSE UNCHANGED queue
      /\ monitor' = [monitor EXCEPT !.qOCC = Nobody, !.evaluating = evaluating,
                                    !.vSentPacingOver = @ /\ ~ cleanup, !.vTwiceInaRow = TRUE]
      /\ UNCHANGED <<busy, source>>

-----------------------------------------------------------------------------
(* Messages on their way. *)

\* Connected, written and shut down.  read_sock then waits until the child
\* closes the connection, but not for long (readn2): the next message may be
\* sent before this one is handled.
SendMessage ==
  /\ queue # <<>>
  /\ Head(queue).to # Nobody
  /\ IF Head(queue).to \in Watched
     THEN work' = [work EXCEPT ![Head(queue).to] =
                     Append(@, [type |-> Head(queue).type, left |-> "all"])]
     ELSE UNCHANGED work
  /\ queue' = Tail(queue)
  /\ UNCHANGED <<busy, monitor, pacing, removing>>

\* No address or no connection: the message is gone, and the socket is not
\* closed.  Once too many are open there is no descriptor for a socket, and
\* this is what becomes of every message.
CannotConnect ==
  /\ queue # <<>>
  /\ queue' = Tail(queue)
  /\ UNCHANGED <<busy, monitor, source>>

-----------------------------------------------------------------------------
(* The sources act. *)

ShmWrite(s, f) == flag' = [flag EXCEPT ![s] = f]
TcDel(s) == qdisc' = [qdisc EXCEPT ![s] = "default"]
\* What was never set up cannot be changed.
TcChange(s, q) == qdisc' = [qdisc EXCEPT ![s] = IF @ = "default" THEN @ ELSE q]

\* Mutant: a limit that was lifted is the only one to clean up after.
CleanupLiftedOnly(s) == flag[s] = 99 /\ ShmWrite(s, 0)

\* fDoCleanupResetPacing2 and the idle branch clear the flag before they run tc.
Cleanup(s) == flag[s] # 0 /\ ShmWrite(s, 0)

\* The first change that the child of a message makes, and what it has left.
\* fDoQinfoAssessment2 runs tc first: the first limit (del and add), another
\* one, or none for a rate that is high.  The rate is that of the fork, when
\* the source may still have transmitted.
Qinfo(s, left) ==
  /\ \/ flag[s] = 0 /\ left = "regular" /\ qdisc' = [qdisc EXCEPT ![s] = "paced"]
     \/ flag[s] # 0 /\ left = "regular" /\ TcChange(s, "paced")
     \/ flag[s] = 1 /\ left \in {"regular", "nopacing"} /\ TcChange(s, "nopacing")
  /\ UNCHANGED flag

\* fDoResetPacing2 writes the flag first.
ResetPacing(s, left) ==
  /\ flag[s] = 1
  /\ left = "change"
  /\ ShmWrite(s, 99)
  /\ UNCHANGED qdisc

CleanupResetPacing(s, left) == left = "del" /\ Cleanup(s) /\ UNCHANGED qdisc

Begin(s, i, left) ==
  /\ work[s][i].left = "all"
  /\ CASE work[s][i].type = "QINFO" -> Qinfo(s, left)
       [] work[s][i].type = "RESET_PACING" -> ResetPacing(s, left)
       [] work[s][i].type = "CLEANUP_RESET_PACING" -> CleanupResetPacing(s, left)
  /\ work' = [work EXCEPT ![s][i].left = left]
  /\ UNCHANGED <<busy, destination, removing>>

\* The message is done with.
Handled(s, i) == work' = [work EXCEPT ![s] = RemoveAt(@, i)]

\* The child changes nothing: the destination is not in the table (found), the
\* link shows no traffic, the retransmission rate is under its threshold, or
\* the flag says that there is nothing to do.  Or there is no child, because
\* the source could not accept or fork.
Ignore(s, i) ==
  /\ work[s][i].left = "all"
  /\ Handled(s, i)
  /\ UNCHANGED <<busy, destination, pacing, removing>>

\* Mutant: the command that removes the limit is forgotten.
CompleteNoDel(s, left) ==
  CASE left = "regular" -> ShmWrite(s, 1) /\ UNCHANGED qdisc
    [] left = "nopacing" -> ShmWrite(s, 99) /\ UNCHANGED qdisc
    [] left = "change" -> TcChange(s, "nopacing") /\ UNCHANGED flag
    [] left = "del" -> UNCHANGED pacing

Complete(s, left) ==
  CASE left = "regular" -> ShmWrite(s, 1) /\ UNCHANGED qdisc
    [] left = "nopacing" -> ShmWrite(s, 99) /\ UNCHANGED qdisc
    [] left = "change" -> TcChange(s, "nopacing") /\ UNCHANGED flag
    [] left = "del" -> TcDel(s) /\ UNCHANGED flag

\* A child does the rest; if the connection breaks it may have to handle its
\* message again (process_request).  Children run in any order.
End(s, i, again) ==
  /\ work[s][i].left # "all"
  /\ Complete(s, work[s][i].left)
  /\ IF again THEN work' = [work EXCEPT ![s][i].left = "all"] ELSE Handled(s, i)
  /\ UNCHANGED <<busy, destination, removing>>

\* A second without traffic on the source's link removes a limit, in two steps.
SourceIdleTick(s) ==
  /\ s \notin busy \cup removing
  /\ Cleanup(s)
  /\ removing' = removing \cup {s}
  /\ UNCHANGED <<busy, destination, work, qdisc>>

SourceRemove(s) ==
  /\ s \in removing
  /\ TcDel(s)
  /\ removing' = removing \ {s}
  /\ UNCHANGED <<busy, destination, work, flag>>

-----------------------------------------------------------------------------
(* Processes end (sig_int_handler) and are started again (main): the       *)
(* shared memory is a new one, and the qdisc is left as it is.             *)

RestartSource(s) ==
  /\ flag' = [flag EXCEPT ![s] = 0]
  /\ work' = [work EXCEPT ![s] = <<>>]
  /\ removing' = removing \ {s}
  /\ UNCHANGED <<busy, destination, qdisc>>

RestartDestination ==
  /\ monitor' = Started
  /\ queue' = <<>>
  /\ UNCHANGED <<busy, source>>

-----------------------------------------------------------------------------
Report == \E s \in Sources : HighReport(s) \/ LowReport(s)
Tick == BusyTick \/ IdleTick
Sender == SendMessage \/ CannotConnect
Oldest(s) == work[s] # <<>> /\ (Ignore(s, 1) \/ End(s, 1, FALSE))
Idle(s) == SourceIdleTick(s) \/ SourceRemove(s)

Next ==
  \/ \E s \in Sources : Traffic(s)
  \/ Report
  \/ QueueTimer
  \/ EvaluationTimer
  \/ Tick
  \/ Sender
  \/ \E s \in Watched : \E i \in DOMAIN work[s], left \in Lefts : Begin(s, i, left)
  \/ \E s \in Watched : \E i \in DOMAIN work[s] : Ignore(s, i)
  \/ \E s \in Watched : \E i \in DOMAIN work[s], again \in BOOLEAN : End(s, i, again)
  \/ \E s \in Watched : Idle(s)
  \/ \E s \in Watched : RestartSource(s)
  \/ RestartDestination

Spec == Init /\ [][Next]_vars

(***************************************************************************)
(* Reports come while a source transmits, timers expire, both ends look at *)
(* their link every second, the sender sends and children end.  What is    *)
(* reported, and every fault, is up to the environment.                    *)
(***************************************************************************)
Fairness ==
  /\ WF_vars(Report)
  /\ WF_vars(EvaluationTimer)
  /\ WF_vars(QueueTimer)
  /\ WF_vars(Tick)
  /\ WF_vars(Sender)
  /\ \A s \in Watched : WF_vars(Oldest(s)) /\ WF_vars(Idle(s))

FairSpec == Spec /\ Fairness

-----------------------------------------------------------------------------
(* While source s is limited and its flag says that it is not, one of its  *)
(* children will still write the flag, or a child or the idle branch will  *)
(* remove the limit.                                                       *)
Remembered(s) ==
  qdisc[s] = "paced" /\ flag[s] = 0 =>
    \/ s \in removing
    \/ \E i \in DOMAIN work[s] : work[s][i].left \in {"regular", "nopacing", "del"}

(* A source loses track of its limit in one way only: its process ends and *)
(* is started again.  Nothing that happens to messages makes it: lost,     *)
(* repeated or overtaken ones, their children in any number and in any     *)
(* order of their tc commands and writes, the idle branch between them,    *)
(* or a new start of the destination.                                      *)
OnlyRestartsForget ==
  [][\A s \in Watched : Remembered(s) /\ ~ Remembered(s)' => RestartSource(s)]_vars

(* The pacing is set back after the transfer, whatever became of the       *)
(* messages: when a source stays idle its limit goes, though messages are  *)
(* lost, repeated, reordered or sent to others and the destination may     *)
(* have been started again; it stays only if the source has lost track of  *)
(* it, which by OnlyRestartsForget a new start of the source has done.     *)
LimitIsRemoved ==
  \A s \in Watched :
    <>[](s \notin busy) => <>[](qdisc[s] # "paced") \/ <>[](~ Remembered(s))

=============================================================================
