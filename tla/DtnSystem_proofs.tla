-------------------------- MODULE DtnSystem_proofs --------------------------
(***************************************************************************)
(* Theorems about DtnSystem, for any number of sources, any capacity of    *)
(* the queue and any number of messages, children and restarts.            *)
(***************************************************************************)
EXTENDS DtnSystem, SequenceTheorems, TLAPS

(* The types of what the destination keeps, and of what a source keeps. *)
DestinationOK ==
  /\ monitor \in Monitors
  /\ queue \in Seq(Messages) /\ Len(queue) <= Capacity

SourceOK ==
  /\ work \in [Watched -> Seq(Jobs)]
  /\ flag \in [Watched -> {0, 1, 99}]
  /\ qdisc \in [Watched -> {"default", "nopacing", "paced"}]
  /\ removing \subseteq Watched

-----------------------------------------------------------------------------
(* A message is put in a queue that has room for it. *)
LEMMA PutLemma ==
  ASSUME TypeOK, NEW type \in Types, NEW s \in Sources \cup {Nobody}, Put(type, s)
  PROVE  queue' \in Seq(Messages) /\ Len(queue') <= Capacity
  <1> DEFINE m == [type |-> type, to |-> s]
  <1>1. m \in Messages
    BY DEF Messages
  <1>2. queue' = Append(queue, m) /\ Len(queue) < Capacity
    BY DEF Put
  <1> HIDE DEF m
  <1>3. Append(queue, m) \in Seq(Messages) /\ Len(Append(queue, m)) = Len(queue) + 1
    BY <1>1, AppendProperties DEF TypeOK
  <1> QED BY <1>2, <1>3, BoundAssumption, LenProperties DEF TypeOK

(* Without its first message a queue is still one. *)
LEMMA TailLemma ==
  ASSUME TypeOK, queue # <<>>
  PROVE  /\ Head(queue) \in Messages
         /\ Tail(queue) \in Seq(Messages)
         /\ Len(Tail(queue)) <= Capacity
  BY HeadTailProperties, LenProperties, BoundAssumption DEF TypeOK

(* A sequence without one of its elements has all the others. *)
LEMMA RemoveLemma ==
  ASSUME NEW S, NEW q \in Seq(S), NEW i \in DOMAIN q
  PROVE  /\ RemoveAt(q, i) \in Seq(S)
         /\ \A j \in DOMAIN q \ {i} : \E k \in DOMAIN RemoveAt(q, i) : RemoveAt(q, i)[k] = q[j]
  <1> DEFINE a == SubSeq(q, 1, i - 1)
             b == SubSeq(q, i + 1, Len(q))
  <1>1. DOMAIN q = 1 .. Len(q) /\ Len(q) \in Nat /\ i \in 1 .. Len(q)
    BY LenProperties
  <1>2. /\ a \in Seq(S) /\ Len(a) = i - 1
        /\ \A k \in 1 .. i - 1 : a[k] = q[k]
    <2>1. \A k \in 1 .. i - 1 : q[k] \in S
      BY <1>1, ElementOfSeq
    <2> QED BY <1>1, <2>1, SubSeqProperties
  <1>3. /\ b \in Seq(S) /\ Len(b) = Len(q) - i
        /\ \A k \in 1 .. Len(q) - i : b[k] = q[i + k]
    <2>1. \A k \in i + 1 .. Len(q) : q[k] \in S
      BY <1>1, ElementOfSeq
    <2> QED BY <1>1, <2>1, SubSeqProperties
  <1>4. RemoveAt(q, i) = a \o b
    BY DEF RemoveAt
  <1> HIDE DEF a, b
  <1>5. /\ a \o b \in Seq(S)
        /\ Len(a \o b) = Len(a) + Len(b)
        /\ DOMAIN (a \o b) = 1 .. Len(a) + Len(b)
        /\ \A k \in 1 .. Len(a) + Len(b) : (a \o b)[k] = IF k <= Len(a) THEN a[k]
                                                        ELSE b[k - Len(a)]
    <2>1. a \o b \in Seq(S) /\ Len(a \o b) = Len(a) + Len(b)
      BY <1>2, <1>3, ConcatProperties
    <2>2. DOMAIN (a \o b) = 1 .. Len(a) + Len(b)
      BY <2>1, LenProperties
    <2>3. \A k \in 1 .. Len(a) + Len(b) : (a \o b)[k] = IF k <= Len(a) THEN a[k]
                                                        ELSE b[k - Len(a)]
      BY <1>2, <1>3, ConcatProperties
    <2> QED BY <2>1, <2>2, <2>3
  <1>6. ASSUME NEW j \in DOMAIN q \ {i}
        PROVE  \E k \in DOMAIN (a \o b) : (a \o b)[k] = q[j]
    <2>1. CASE j < i
      <3>1. j \in 1 .. Len(a) + Len(b) /\ j <= Len(a) /\ a[j] = q[j]
        BY <1>1, <1>2, <1>3, <2>1
      <3>2. (a \o b)[j] = q[j]
        BY <1>5, <3>1
      <3> QED BY <1>5, <3>1, <3>2
    <2>2. CASE j > i
      <3>0. j \in Int /\ i \in Int /\ j - i \in 1 .. Len(q) - i /\ i + (j - i) = j
        BY <1>1, <2>2
      <3>1. /\ j - 1 \in 1 .. Len(a) + Len(b) /\ ~ (j - 1 <= Len(a))
            /\ (j - 1) - Len(a) = j - i /\ b[j - i] = q[j]
        <4>1. b[j - i] = q[j]
          BY <1>3, <3>0
        <4> QED BY <1>1, <1>2, <1>3, <2>2, <4>1
      <3>2. (a \o b)[j - 1] = q[j]
        BY <1>5, <3>1
      <3> QED BY <1>5, <3>1, <3>2
    <2> QED BY <1>1, <2>1, <2>2
  <1> QED BY <1>4, <1>5, <1>6

(* What is left of a job can be any of the points of a child. *)
LEMMA LeftLemma ==
  ASSUME TypeOK, NEW s \in Watched, NEW i \in DOMAIN work[s], NEW left \in {"all"} \cup Lefts,
         work' = [work EXCEPT ![s][i].left = left]
  PROVE  /\ work' \in [Watched -> Seq(Jobs)]
         /\ i \in DOMAIN work'[s] /\ work'[s][i].left = left
         /\ \A t \in Watched \ {s} : work'[t] = work[t]
  <1>1. work[s] \in Seq(Jobs) /\ DOMAIN work[s] = 1 .. Len(work[s]) /\ work[s][i] \in Jobs
    BY LenProperties, ElementOfSeq DEF TypeOK
  <1> DEFINE j == [work[s][i] EXCEPT !.left = left]
             q == [work[s] EXCEPT ![i] = j]
  <1>2. j \in Jobs /\ j.left = left
    BY <1>1 DEF Jobs
  <1>3. work' = [work EXCEPT ![s] = q]
    BY DEF TypeOK
  <1> HIDE DEF j
  <1>4. q \in Seq(Jobs) /\ q[i] = j /\ i \in DOMAIN q
    BY <1>1, <1>2, ExceptSeq
  <1> HIDE DEF q
  <1> QED BY <1>2, <1>3, <1>4 DEF TypeOK

-----------------------------------------------------------------------------
(* The types of the start. *)
LEMMA InitType == Init => TypeOK
  <1> SUFFICES ASSUME Init PROVE TypeOK
    OBVIOUS
  <1>1. queue \in Seq(Messages) /\ Len(queue) <= Capacity
    BY BoundAssumption, EmptySeq DEF Init
  <1>2. work \in [Watched -> Seq(Jobs)]
    BY EmptySeq DEF Init
  <1>3. monitor \in Monitors
    BY DEF Init, Started, Monitors
  <1> QED BY <1>1, <1>2, <1>3 DEF Init, TypeOK

(* The decisions of the destination: each queues at most one message and   *)
(* leaves the sources alone.                                               *)
Decision ==
  \/ Report \/ QueueTimer \/ EvaluationTimer \/ Tick \/ RestartDestination

LEMMA DecisionType ==
  ASSUME TypeOK, Decision
  PROVE  DestinationOK' /\ UNCHANGED <<busy, source>>
  <1>1. ASSUME UNCHANGED queue PROVE queue' \in Seq(Messages) /\ Len(queue') <= Capacity
    BY <1>1 DEF TypeOK
  <1>2. ASSUME NEW s \in Sources, HighReport(s)
        PROVE  DestinationOK' /\ UNCHANGED <<busy, source>>
    <2>1. monitor' \in Monitors /\ UNCHANGED <<busy, queue, source>>
      BY <1>2 DEF HighReport, TypeOK, Monitors
    <2> QED BY <1>1, <2>1 DEF DestinationOK
  <1>3. ASSUME NEW s \in Sources, LowReport(s)
        PROVE  DestinationOK' /\ UNCHANGED <<busy, source>>
    <2>1. monitor' \in Monitors /\ UNCHANGED <<busy, source>>
      BY <1>3 DEF LowReport, TypeOK, Monitors
    <2>2. queue' \in Seq(Messages) /\ Len(queue') <= Capacity
      <3>1. CASE Put("RESET_PACING", s)
        BY <3>1, PutLemma DEF Types
      <3> QED BY <1>1, <1>3, <3>1 DEF LowReport
    <2> QED BY <2>1, <2>2 DEF DestinationOK
  <1>4. CASE QueueTimer
    <2>1. monitor' \in Monitors /\ UNCHANGED <<busy, source>>
      <3>1. CASE monitor.evaluating
        BY <1>4, <3>1 DEF TypeOK, QueueTimer, Monitors
      <3>2. CASE ~ monitor.evaluating
        <4>1. [monitor EXCEPT !.qOCC = Nobody, !.evaluating = TRUE] \in Monitors
          BY DEF TypeOK, Monitors
        <4>2. \A m \in Monitors : [m EXCEPT !.vSentPacingOver = TRUE] \in Monitors
          BY DEF Monitors
        <4> QED BY <1>4, <3>2, <4>1, <4>2 DEF QueueTimer
      <3> QED BY <3>1, <3>2
    <2>2. queue' \in Seq(Messages) /\ Len(queue') <= Capacity
      <3>1. "QINFO" \in Types /\ monitor.qOCC \in Sources \cup {Nobody}
        BY DEF TypeOK, Monitors, Types
      <3>2. CASE Put("QINFO", monitor.qOCC)
        BY <3>1, <3>2, PutLemma
      <3> QED BY <1>1, <1>4, <3>2 DEF QueueTimer
    <2> QED BY <2>1, <2>2 DEF DestinationOK
  <1>5. CASE EvaluationTimer
    <2>1. monitor' \in Monitors /\ UNCHANGED <<busy, queue, source>>
      BY <1>5 DEF EvaluationTimer, TypeOK, Monitors
    <2> QED BY <1>1, <2>1 DEF DestinationOK
  <1>6. CASE BusyTick
    <2>1. monitor' \in Monitors /\ UNCHANGED <<busy, queue, source>>
      BY <1>6 DEF BusyTick, TypeOK, Monitors
    <2> QED BY <1>1, <2>1 DEF DestinationOK
  <1>7. CASE IdleTick
    <2>1. monitor' \in Monitors /\ UNCHANGED <<busy, source>>
      BY <1>7 DEF IdleTick, TypeOK, Monitors
    <2>2. queue' \in Seq(Messages) /\ Len(queue') <= Capacity
      <3>1. "CLEANUP_RESET_PACING" \in Types /\ monitor.src_ip_addr \in Sources \cup {Nobody}
        BY DEF TypeOK, Monitors, Types
      <3>2. CASE Put("CLEANUP_RESET_PACING", monitor.src_ip_addr)
        BY <3>1, <3>2, PutLemma
      <3> QED BY <1>1, <1>7, <3>2 DEF IdleTick
    <2> QED BY <2>1, <2>2 DEF DestinationOK
  <1>8. CASE RestartDestination
    BY <1>8, BoundAssumption, EmptySeq DEF RestartDestination, DestinationOK, Started, Monitors
  <1> QED BY <1>2, <1>3, <1>4, <1>5, <1>6, <1>7, <1>8 DEF Decision, Report, Tick

(* The sender takes the first message out of the queue and may add it to   *)
(* the work of a source.                                                   *)
LEMMA SenderLemma ==
  ASSUME TypeOK, Sender
  PROVE  /\ DestinationOK' /\ UNCHANGED <<busy, pacing, removing>>
         /\ work' \in [Watched -> Seq(Jobs)]
         /\ \A s \in Watched : \A i \in DOMAIN work[s] :
              i \in DOMAIN work'[s] /\ work'[s][i] = work[s][i]
  <1>1. queue # <<>> /\ queue' = Tail(queue) /\ UNCHANGED <<busy, monitor, pacing, removing>>
    BY DEF Sender, SendMessage, CannotConnect, source
  <1>2. DestinationOK'
    BY <1>1, TailLemma DEF TypeOK, DestinationOK
  <1>3. CASE UNCHANGED work
    BY <1>1, <1>2, <1>3 DEF TypeOK
  <1>4. CASE SendMessage /\ Head(queue).to \in Watched
    <2> DEFINE t == Head(queue).to
               j == [type |-> Head(queue).type, left |-> "all"]
    <2>1. t \in Watched /\ j \in Jobs /\ work[t] \in Seq(Jobs)
      BY <1>1, <1>4, TailLemma DEF Messages, Jobs, TypeOK
    <2>2. work' = [work EXCEPT ![t] = Append(@, j)]
      BY <1>4 DEF SendMessage
    <2> HIDE DEF t, j
    <2>3. /\ Append(work[t], j) \in Seq(Jobs)
          /\ Len(Append(work[t], j)) = Len(work[t]) + 1
          /\ \A i \in 1 .. Len(work[t]) : Append(work[t], j)[i] = work[t][i]
      BY <2>1, AppendProperties
    <2>4. /\ Len(work[t]) \in Nat /\ DOMAIN work[t] = 1 .. Len(work[t])
          /\ DOMAIN Append(work[t], j) = 1 .. Len(work[t]) + 1
      BY <2>1, <2>3, LenProperties
    <2>5. work' \in [Watched -> Seq(Jobs)]
      BY <2>1, <2>2, <2>3 DEF TypeOK
    <2>6. \A s \in Watched : work'[s] = IF s = t THEN Append(work[t], j) ELSE work[s]
      BY <2>1, <2>2 DEF TypeOK
    <2>7. \A i \in DOMAIN work[t] : /\ i \in DOMAIN Append(work[t], j)
                                    /\ Append(work[t], j)[i] = work[t][i]
      BY <2>3, <2>4
    <2> QED BY <1>1, <1>2, <2>5, <2>6, <2>7
  <1> QED BY <1>3, <1>4 DEF Sender, SendMessage, CannotConnect, source

(* A child's first change, and its last. *)
LEMMA BeginType ==
  ASSUME TypeOK, NEW s \in Watched, NEW i \in DOMAIN work[s], NEW left \in Lefts,
         Begin(s, i, left)
  PROVE  /\ SourceOK' /\ UNCHANGED <<busy, destination, removing>>
         /\ \A t \in Watched \ {s} : qdisc'[t] = qdisc[t] /\ flag'[t] = flag[t]
         /\ flag'[s] # 0 \/ left \in {"regular", "nopacing", "del"}
  <1>1. work[s][i] \in Jobs
    BY LenProperties, ElementOfSeq DEF TypeOK
  <1>2. Qinfo(s, left) \/ ResetPacing(s, left) \/ CleanupResetPacing(s, left)
    BY <1>1 DEF Begin, Jobs, Types
  <1>3. work' \in [Watched -> Seq(Jobs)] /\ UNCHANGED <<busy, destination, removing>>
    BY LeftLemma DEF Begin
  <1>4. CASE Qinfo(s, left)
    BY <1>3, <1>4 DEF TypeOK, SourceOK, Qinfo, TcChange
  <1>5. CASE ResetPacing(s, left)
    BY <1>3, <1>5 DEF TypeOK, SourceOK, ResetPacing, ShmWrite
  <1>6. CASE CleanupResetPacing(s, left)
    BY <1>3, <1>6 DEF TypeOK, SourceOK, CleanupResetPacing, Cleanup, ShmWrite
  <1> QED BY <1>2, <1>4, <1>5, <1>6

LEMMA EndType ==
  ASSUME TypeOK, NEW s \in Watched, NEW i \in DOMAIN work[s], NEW again \in BOOLEAN,
         End(s, i, again)
  PROVE  /\ SourceOK' /\ UNCHANGED <<busy, destination, removing>>
         /\ \A t \in Watched \ {s} :
              qdisc'[t] = qdisc[t] /\ flag'[t] = flag[t] /\ work'[t] = work[t]
         /\ flag'[s] # 0 \/ qdisc'[s] # "paced"
  <1>1. work[s] \in Seq(Jobs) /\ work[s][i] \in Jobs /\ work[s][i].left \in Lefts
    <2>1. work[s] \in Seq(Jobs) /\ work[s][i] \in Jobs
      BY LenProperties, ElementOfSeq DEF TypeOK
    <2> QED BY <2>1 DEF End, Jobs
  <1>2. /\ work' \in [Watched -> Seq(Jobs)]
        /\ \A t \in Watched \ {s} : work'[t] = work[t]
    <2>1. CASE again
      BY <2>1, LeftLemma DEF End
    <2>2. CASE ~ again
      <3>1. RemoveAt(work[s], i) \in Seq(Jobs)
        BY <1>1, RemoveLemma
      <3> QED BY <2>2, <3>1 DEF End, Handled, TypeOK
    <2> QED BY <2>1, <2>2
  <1>3. UNCHANGED <<busy, destination, removing>> /\ Complete(s, work[s][i].left)
    BY DEF End
  <1>4. /\ flag' \in [Watched -> {0, 1, 99}]
        /\ qdisc' \in [Watched -> {"default", "nopacing", "paced"}]
        /\ \A t \in Watched \ {s} : qdisc'[t] = qdisc[t] /\ flag'[t] = flag[t]
        /\ flag'[s] # 0 \/ qdisc'[s] # "paced"
    <2>1. CASE work[s][i].left = "regular"
      BY <1>3, <2>1 DEF Complete, ShmWrite, TypeOK
    <2>2. CASE work[s][i].left = "nopacing"
      BY <1>3, <2>2 DEF Complete, ShmWrite, TypeOK
    <2>3. CASE work[s][i].left = "change"
      BY <1>3, <2>3 DEF Complete, TcChange, TypeOK
    <2>4. CASE work[s][i].left = "del"
      BY <1>3, <2>4 DEF Complete, TcDel, TypeOK
    <2> QED BY <1>1, <2>1, <2>2, <2>3, <2>4 DEF Lefts
  <1> QED BY <1>2, <1>3, <1>4 DEF SourceOK, TypeOK

(* A message that changes nothing. *)
LEMMA IgnoreType ==
  ASSUME TypeOK, NEW s \in Watched, NEW i \in DOMAIN work[s], Ignore(s, i)
  PROVE  /\ SourceOK' /\ UNCHANGED <<busy, destination, pacing, removing>>
         /\ \A t \in Watched \ {s} : work'[t] = work[t]
         /\ \A j \in DOMAIN work[s] : work[s][j].left # "all" =>
              \E k \in DOMAIN work'[s] : work'[s][k] = work[s][j]
  <1>1. /\ work[s] \in Seq(Jobs) /\ work[s][i].left = "all"
        /\ work' = [work EXCEPT ![s] = RemoveAt(work[s], i)]
        /\ UNCHANGED <<busy, destination, pacing, removing>>
    BY DEF TypeOK, Ignore, Handled
  <1>2. /\ RemoveAt(work[s], i) \in Seq(Jobs)
        /\ \A j \in DOMAIN work[s] \ {i} :
             \E k \in DOMAIN RemoveAt(work[s], i) : RemoveAt(work[s], i)[k] = work[s][j]
    BY <1>1, RemoveLemma
  <1>3. work'[s] = RemoveAt(work[s], i) /\ \A t \in Watched \ {s} : work'[t] = work[t]
    BY <1>1 DEF TypeOK
  <1>4. SourceOK'
    BY <1>1, <1>2 DEF TypeOK, SourceOK, pacing
  <1> QED BY <1>1, <1>2, <1>3, <1>4

(* The idle branch of a source, and its new start. *)
LEMMA IdleType ==
  ASSUME TypeOK, NEW s \in Watched, Idle(s)
  PROVE  /\ SourceOK' /\ UNCHANGED <<busy, destination, work>>
         /\ \A t \in Watched \ {s} :
              /\ qdisc'[t] = qdisc[t] /\ flag'[t] = flag[t]
              /\ t \in removing' <=> t \in removing
         /\ s \in removing' \/ qdisc'[s] # "paced"
  <1>1. CASE SourceIdleTick(s)
    BY <1>1 DEF SourceIdleTick, Cleanup, ShmWrite, TypeOK, SourceOK
  <1>2. CASE SourceRemove(s)
    BY <1>2 DEF SourceRemove, TcDel, TypeOK, SourceOK
  <1> QED BY <1>1, <1>2 DEF Idle

LEMMA RestartType ==
  ASSUME TypeOK, NEW s \in Watched, RestartSource(s)
  PROVE  /\ SourceOK' /\ UNCHANGED <<busy, destination, qdisc>>
         /\ \A t \in Watched \ {s} :
              /\ flag'[t] = flag[t] /\ work'[t] = work[t]
              /\ t \in removing' <=> t \in removing
  <1>1. work' \in [Watched -> Seq(Jobs)]
    BY EmptySeq DEF TypeOK, RestartSource
  <1> QED BY <1>1 DEF TypeOK, SourceOK, RestartSource

(* Every step preserves the types. *)
LEMMA StepType == TypeOK /\ [Next]_vars => TypeOK'
  <1> SUFFICES ASSUME TypeOK, [Next]_vars PROVE TypeOK'
    OBVIOUS
  <1>a. ASSUME SourceOK', UNCHANGED <<busy, destination>> PROVE TypeOK'
    BY <1>a DEF TypeOK, SourceOK, destination
  <1>1. ASSUME NEW s \in Sources, Traffic(s) PROVE TypeOK'
    BY <1>1 DEF TypeOK, Traffic, destination, source, pacing
  <1>2. CASE Decision
    BY <1>2, DecisionType DEF TypeOK, DestinationOK, source, pacing
  <1>3. CASE Sender
    BY <1>3, SenderLemma DEF TypeOK, DestinationOK, pacing
  <1>4. ASSUME NEW s \in Watched, NEW i \in DOMAIN work[s], NEW left \in Lefts, Begin(s, i, left)
        PROVE  TypeOK'
    BY <1>a, <1>4, BeginType
  <1>5. ASSUME NEW s \in Watched, NEW i \in DOMAIN work[s], Ignore(s, i) PROVE TypeOK'
    BY <1>a, <1>5, IgnoreType
  <1>6. ASSUME NEW s \in Watched, NEW i \in DOMAIN work[s], NEW again \in BOOLEAN, End(s, i, again)
        PROVE  TypeOK'
    BY <1>a, <1>6, EndType
  <1>7. ASSUME NEW s \in Watched, Idle(s) PROVE TypeOK'
    BY <1>a, <1>7, IdleType
  <1>8. ASSUME NEW s \in Watched, RestartSource(s) PROVE TypeOK'
    BY <1>a, <1>8, RestartType
  <1>9. CASE UNCHANGED vars
    BY <1>9 DEF TypeOK, vars, destination, source, pacing
  <1> QED BY <1>1, <1>2, <1>3, <1>4, <1>5, <1>6, <1>7, <1>8, <1>9 DEF Next, Decision

(* The queue, the messages under way, the children at work and the pacing  *)
(* of each source have their types; the queue holds no more than it has    *)
(* room for.                                                               *)
THEOREM TypeCorrect == Spec => []TypeOK
  <1>1. Init => TypeOK
    BY InitType
  <1>2. TypeOK /\ [Next]_vars => TypeOK'
    BY StepType
  <1> QED BY <1>1, <1>2, PTL DEF Spec

-----------------------------------------------------------------------------
(* A source whose pacing is left alone and whose children keep what they   *)
(* have left remembers what it did.                                        *)
LEMMA KeepsRemembering ==
  ASSUME NEW s \in Watched, Remembered(s), qdisc'[s] = qdisc[s], flag'[s] = flag[s],
         s \in removing => s \in removing',
         \A i \in DOMAIN work[s] : work[s][i].left # "all" =>
            \E k \in DOMAIN work'[s] : work'[s][k].left = work[s][i].left
  PROVE  Remembered(s)'
  BY DEF Remembered

(* No step but its own new start makes a source forget. *)
LEMMA StepRemembers ==
  ASSUME TypeOK, [Next]_vars, NEW s \in Watched, Remembered(s), ~ Remembered(s)'
  PROVE  RestartSource(s)
  <1>0. ASSUME UNCHANGED source PROVE FALSE
    BY <1>0, KeepsRemembering DEF source, pacing
  <1>1. ASSUME NEW t \in Sources, Traffic(t) PROVE FALSE
    BY <1>0, <1>1 DEF Traffic
  <1>2. CASE Decision
    BY <1>0, <1>2, DecisionType
  <1>3. CASE Sender
    BY <1>3, SenderLemma, KeepsRemembering DEF pacing
  <1>4. ASSUME NEW t \in Watched, NEW i \in DOMAIN work[t], NEW left \in Lefts, Begin(t, i, left)
        PROVE  FALSE
    <2>1. /\ work' = [work EXCEPT ![t][i].left = left]
          /\ left \in {"all"} \cup Lefts
      BY <1>4 DEF Begin
    <2>2. /\ i \in DOMAIN work'[t] /\ work'[t][i].left = left
          /\ \A u \in Watched \ {t} : work'[u] = work[u]
      BY <2>1, LeftLemma
    <2>3. CASE t = s
      BY <1>4, <2>2, <2>3, BeginType DEF Remembered
    <2>4. CASE t # s
      BY <1>4, <2>2, <2>4, BeginType, KeepsRemembering
    <2> QED BY <2>3, <2>4
  <1>5. ASSUME NEW t \in Watched, NEW i \in DOMAIN work[t], Ignore(t, i) PROVE FALSE
    <2>1. CASE t = s
      BY <1>5, <2>1, IgnoreType, KeepsRemembering DEF pacing
    <2>2. CASE t # s
      BY <1>5, <2>2, IgnoreType, KeepsRemembering DEF pacing
    <2> QED BY <2>1, <2>2
  <1>6. ASSUME NEW t \in Watched, NEW i \in DOMAIN work[t], NEW again \in BOOLEAN, End(t, i, again)
        PROVE  FALSE
    <2>1. CASE t = s
      BY <1>6, <2>1, EndType DEF Remembered
    <2>2. CASE t # s
      BY <1>6, <2>2, EndType, KeepsRemembering
    <2> QED BY <2>1, <2>2
  <1>7. ASSUME NEW t \in Watched, Idle(t) PROVE FALSE
    <2>1. CASE t = s
      BY <1>7, <2>1, IdleType DEF Remembered
    <2>2. CASE t # s
      BY <1>7, <2>2, IdleType, KeepsRemembering
    <2> QED BY <2>1, <2>2
  <1>8. ASSUME NEW t \in Watched, RestartSource(t) PROVE RestartSource(s)
    <2>1. CASE t # s
      BY <1>8, <2>1, RestartType, KeepsRemembering
    <2> QED BY <1>8, <2>1
  <1>9. CASE UNCHANGED vars
    BY <1>0, <1>9 DEF vars
  <1> QED BY <1>1, <1>2, <1>3, <1>4, <1>5, <1>6, <1>7, <1>8, <1>9 DEF Next, Decision

(* For any number of sources, messages and children: no loss, repetition   *)
(* or reordering of messages, no order of the tc commands and flag writes  *)
(* of overlapping children and of the idle branch, and no new start of the *)
(* destination or of another source makes a source forget its limit.       *)
THEOREM LimitsForgottenByRestarts == Spec => OnlyRestartsForget
  <1>1. TypeOK /\ [Next]_vars =>
          [\A s \in Watched : Remembered(s) /\ ~ Remembered(s)' => RestartSource(s)]_vars
    BY StepRemembers
  <1> QED BY <1>1, TypeCorrect, PTL DEF Spec, OnlyRestartsForget

=============================================================================
