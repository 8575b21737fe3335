----------------------------- MODULE PeerQueue -----------------------------
(***************************************************************************)
(* The ring of messages for the source DTN in userspace/user_dtn.c: the    *)
(* array sMsg with its indices sMsgsIn and sMsgsOut, the mutex dtn_mutex   *)
(* and the condition variables full and empty.                             *)
(*                                                                         *)
(* Producers are monitoring threads (sample_func, fDoRunGetThresholds) and *)
(* the handlers of the timers qOCC_Hop and qOCC.  makeTimer asks for a     *)
(* process-directed signal, so a handler runs on top of any thread that    *)
(* does not block it, and suspends that thread until it returns.  The      *)
(* consumer is the thread fDoRunSendMessageToPeer.                         *)
(***************************************************************************)
EXTENDS Integers, FiniteSets, Sequences

CONSTANTS
  Threads,    \* threads other than the consumer, the enqueuing ones and main
  Sender,     \* the thread fDoRunSendMessageToPeer
  Handlers,   \* activations of the timer handlers that can be under way at once
  Msgs,       \* the messages
  NoMsg,      \* the content of a slot never written
  Nobody,     \* the owner of a free mutex, the host of an inactive handler
  BUFFER_SIZE \* SMSGS_BUFFER_SIZE

ASSUME BufferAssumption == BUFFER_SIZE \in Nat \ {0, 1}

ASSUME ContextAssumption ==
  /\ Sender \notin Threads \cup Handlers
  /\ Threads \cap Handlers = {}
  /\ Nobody \notin Threads \cup Handlers \cup {Sender}
  /\ IsFiniteSet(Threads) /\ IsFiniteSet(Handlers)

ASSUME MessageAssumption == NoMsg \notin Msgs

VARIABLES
  sMsg,       \* the slots
  sMsgsIn,    \* index of the next slot to fill
  sMsgsOut,   \* index of the next slot to empty
  dtn_mutex,  \* the context that holds the mutex, or Nobody
  pc,         \* where each context is in its locked section
  host,       \* the thread an active handler interrupts, or Nobody
  offer,      \* the message a producer is about to write
  sMsg2       \* the consumer's copy

vars == <<sMsg, sMsgsIn, sMsgsOut, dtn_mutex, pc, host, offer, sMsg2>>

Producers == Threads \cup Handlers
Contexts  == Producers \cup {Sender}
Slots     == 0 .. (BUFFER_SIZE - 1)

(***************************************************************************)
(* "lock" waits for the mutex before the locked section, "asleep" is in    *)
(* pthread_cond_wait, "woken" waits there for the mutex again.  The other  *)
(* three points are inside the section: before the test of the loop,       *)
(* between the update and the signal, between the signal and the unlock.   *)
(***************************************************************************)
Inside == {"test", "signal", "unlock"}
Points == {"away", "lock", "asleep", "woken"} \cup Inside

TypeOK ==
  /\ sMsg \in [Slots -> Msgs \cup {NoMsg}]
  /\ sMsgsIn \in Slots
  /\ sMsgsOut \in Slots
  /\ dtn_mutex \in Contexts \cup {Nobody}
  /\ pc \in [Contexts -> Points]
  /\ host \in [Handlers -> Threads \cup {Sender, Nobody}]
  /\ offer \in [Producers -> Msgs \cup {NoMsg}]
  /\ sMsg2 \in Msgs \cup {NoMsg}

Init ==
  /\ sMsg = [i \in Slots |-> NoMsg]
  /\ sMsgsIn = 0
  /\ sMsgsOut = 0
  /\ dtn_mutex = Nobody
  /\ pc = [c \in Contexts |-> IF c = Sender THEN "lock" ELSE "away"]
  /\ host = [h \in Handlers |-> Nobody]
  /\ offer = [p \in Producers |-> NoMsg]
  /\ sMsg2 = NoMsg

\* Mutant: the index does not wrap.
NextSlotNoWrap(i) == i + 1

NextSlot(i) == (i + 1) % BUFFER_SIZE
Full  == NextSlot(sMsgsIn) = sMsgsOut
Empty == sMsgsIn = sMsgsOut

\* The context executes instructions: a handler while it is active, a thread
\* while no handler interrupts it.
Runs(c) == IF c \in Handlers THEN host[c] # Nobody
                             ELSE \A h \in Handlers : host[h] # c

GoTo(c, point) == pc' = [pc EXCEPT ![c] = point]

\* pthread_cond_signal on the condition that the contexts in S wait for.
Wake(c, point, S) ==
  LET sleepers == {w \in S : pc[w] = "asleep"}
  IN  IF sleepers = {}
      THEN GoTo(c, point)
      ELSE \E w \in sleepers : pc' = [pc EXCEPT ![c] = point, ![w] = "woken"]

-----------------------------------------------------------------------------
(* A thread comes to the enqueuing code with a message. *)
Enqueue(t) ==
  /\ pc[t] = "away"
  /\ Runs(t)
  /\ \E m \in Msgs : offer' = [offer EXCEPT ![t] = m]
  /\ GoTo(t, "lock")
  /\ UNCHANGED <<sMsg, sMsgsIn, sMsgsOut, dtn_mutex, host, sMsg2>>

(* A timer signal interrupts thread t, and the handler comes to its        *)
(* enqueuing code.  The signal is blocked on t while the handler runs, so  *)
(* a thread hosts one handler at a time.                                   *)
Interrupt(h, t) ==
  /\ host[h] = Nobody
  /\ \A g \in Handlers : host[g] # t
  /\ host' = [host EXCEPT ![h] = t]
  /\ \E m \in Msgs : offer' = [offer EXCEPT ![h] = m]
  /\ GoTo(h, "lock")
  /\ UNCHANGED <<sMsg, sMsgsIn, sMsgsOut, dtn_mutex, sMsg2>>

(* Pthread_mutex_lock, and the end of pthread_cond_wait. *)
Lock(c) ==
  /\ pc[c] \in {"lock", "woken"}
  /\ Runs(c)
  /\ dtn_mutex = Nobody
  /\ dtn_mutex' = c
  /\ GoTo(c, "test")
  /\ UNCHANGED <<sMsg, sMsgsIn, sMsgsOut, host, offer, sMsg2>>

(* pthread_cond_wait gives up the mutex and sleeps. *)
WaitWhile(c, cond) ==
  /\ pc[c] = "test"
  /\ Runs(c)
  /\ cond
  /\ dtn_mutex' = Nobody
  /\ GoTo(c, "asleep")
  /\ UNCHANGED <<sMsg, sMsgsIn, sMsgsOut, host, offer, sMsg2>>

(* A condition wait may also return without a signal. *)
SpuriousWake(c) ==
  /\ pc[c] = "asleep"
  /\ GoTo(c, "woken")
  /\ UNCHANGED <<sMsg, sMsgsIn, sMsgsOut, dtn_mutex, host, offer, sMsg2>>

WaitNotFull(p) == WaitWhile(p, Full)

\* Mutant: the slot is filled whether the ring is full or not.
PutSlotUnchecked(p) ==
  /\ pc[p] = "test"
  /\ Runs(p)
  /\ sMsg' = [sMsg EXCEPT ![sMsgsIn] = offer[p]]
  /\ sMsgsIn' = NextSlot(sMsgsIn)
  /\ GoTo(p, "signal")
  /\ UNCHANGED <<sMsgsOut, dtn_mutex, host, offer, sMsg2>>

PutSlot(p) ==
  /\ pc[p] = "test"
  /\ Runs(p)
  /\ ~ Full
  /\ sMsg' = [sMsg EXCEPT ![sMsgsIn] = offer[p]]
  /\ sMsgsIn' = NextSlot(sMsgsIn)
  /\ GoTo(p, "signal")
  /\ UNCHANGED <<sMsgsOut, dtn_mutex, host, offer, sMsg2>>

\* Mutant: the signal is forgotten.
NoSignalFull(p) ==
  /\ pc[p] = "signal"
  /\ Runs(p)
  /\ GoTo(p, "unlock")
  /\ UNCHANGED <<sMsg, sMsgsIn, sMsgsOut, dtn_mutex, host, offer, sMsg2>>

SignalFull(p) ==
  /\ pc[p] = "signal"
  /\ Runs(p)
  /\ Wake(p, "unlock", {Sender})
  /\ UNCHANGED <<sMsg, sMsgsIn, sMsgsOut, dtn_mutex, host, offer, sMsg2>>

(* The handler returns to the thread it interrupted. *)
ProducerUnlock(p) ==
  /\ pc[p] = "unlock"
  /\ Runs(p)
  /\ dtn_mutex' = Nobody
  /\ GoTo(p, "away")
  /\ host' = IF p \in Handlers THEN [host EXCEPT ![p] = Nobody] ELSE host
  /\ offer' = [offer EXCEPT ![p] = NoMsg]
  /\ UNCHANGED <<sMsg, sMsgsIn, sMsgsOut, sMsg2>>

-----------------------------------------------------------------------------
(* The consumer. *)
WaitNotEmpty == WaitWhile(Sender, Empty)

TakeSlot ==
  /\ pc[Sender] = "test"
  /\ Runs(Sender)
  /\ ~ Empty
  /\ sMsg2' = sMsg[sMsgsOut]
  /\ sMsgsOut' = NextSlot(sMsgsOut)
  /\ GoTo(Sender, "signal")
  /\ UNCHANGED <<sMsg, sMsgsIn, dtn_mutex, host, offer>>

\* Mutant: the signal is forgotten.
NoSignalEmpty ==
  /\ pc[Sender] = "signal"
  /\ Runs(Sender)
  /\ GoTo(Sender, "unlock")
  /\ UNCHANGED <<sMsg, sMsgsIn, sMsgsOut, dtn_mutex, host, offer, sMsg2>>

SignalEmpty ==
  /\ pc[Sender] = "signal"
  /\ Runs(Sender)
  /\ Wake(Sender, "unlock", Producers)
  /\ UNCHANGED <<sMsg, sMsgsIn, sMsgsOut, dtn_mutex, host, offer, sMsg2>>

SenderUnlock ==
  /\ pc[Sender] = "unlock"
  /\ Runs(Sender)
  /\ dtn_mutex' = Nobody
  /\ GoTo(Sender, "away")
  /\ UNCHANGED <<sMsg, sMsgsIn, sMsgsOut, host, offer, sMsg2>>

(* After the unlock the consumer connects to the source DTN, writes its    *)
(* copy and waits for the other end to close; a copy without a source      *)
(* address and a failed connect go back to cli_again instead.  None of     *)
(* the three touches the ring; what becomes of the message is modelled     *)
(* where the network is.                                                   *)
Transmit ==
  /\ pc[Sender] = "away"
  /\ Runs(Sender)
  /\ GoTo(Sender, "lock")
  /\ UNCHANGED <<sMsg, sMsgsIn, sMsgsOut, dtn_mutex, host, offer, sMsg2>>

-----------------------------------------------------------------------------
ProducerStep(p) ==
  \/ Lock(p)
  \/ WaitNotFull(p)
  \/ PutSlot(p)
  \/ SignalFull(p)
  \/ ProducerUnlock(p)

SenderStep ==
  \/ Lock(Sender)
  \/ WaitNotEmpty
  \/ TakeSlot
  \/ SignalEmpty
  \/ SenderUnlock
  \/ Transmit

Next ==
  \/ \E t \in Threads : Enqueue(t)
  \/ \E h \in Handlers, t \in Threads \cup {Sender} : Interrupt(h, t)
  \/ \E p \in Producers : ProducerStep(p)
  \/ SenderStep
  \/ \E c \in Contexts : SpuriousWake(c)

Spec == Init /\ [][Next]_vars

(***************************************************************************)
(* Every thread keeps running, and one that finds the mutex free again and *)
(* again gets it (the kernel queues the waiters of a futex).  When signals *)
(* arrive, and when a thread has something to send, is left open.          *)
(***************************************************************************)
Fairness ==
  /\ \A p \in Producers :
        /\ SF_vars(Lock(p))
        /\ WF_vars(WaitNotFull(p) \/ PutSlot(p) \/ SignalFull(p) \/ ProducerUnlock(p))
  /\ SF_vars(Lock(Sender))
  /\ WF_vars(WaitNotEmpty \/ TakeSlot \/ SignalEmpty \/ SenderUnlock \/ Transmit)

FairSpec == Spec /\ Fairness

-----------------------------------------------------------------------------
(***************************************************************************)
(* The abstract queue: the messages from sMsgsOut up to sMsgsIn, oldest    *)
(* first.                                                                  *)
(***************************************************************************)
Count == (sMsgsIn + BUFFER_SIZE - sMsgsOut) % BUFFER_SIZE

Content == [i \in 1 .. Count |-> sMsg[(sMsgsOut + i - 1) % BUFFER_SIZE]]

Fifo == INSTANCE BoundedFifo WITH queue <- Content, taken <- sMsg2,
                                  Capacity <- BUFFER_SIZE - 1

(* The ring, with its locking, its condition waits that may return at any  *)
(* time and its handlers that interrupt other threads, is a first-in       *)
(* first-out queue of SMSGS_BUFFER_SIZE - 1 messages: no message is lost,  *)
(* overwritten, duplicated or reordered between the code that enqueues it  *)
(* and fDoRunSendMessageToPeer.                                            *)
ImplementsFifo == Fifo!FifoSpec

(* The mutex is held by exactly the context that is inside its locked      *)
(* section.                                                                *)
MutexInv == \A c \in Contexts : pc[c] \in Inside <=> dtn_mutex = c

(* No wake-up is lost on the condition full: when fDoRunSendMessageToPeer  *)
(* sleeps, there is nothing to send, or the producer that wrote it is      *)
(* about to signal.                                                        *)
SenderSleepsOnlyWhenEmpty ==
  pc[Sender] = "asleep" => Empty \/ \E p \in Producers : pc[p] = "signal"

(* No wake-up is lost on the condition empty, although each dequeue wakes  *)
(* one producer only and any other producer may take the free slot first:  *)
(* while a producer sleeps, there are at most as many free slots as        *)
(* producers that were woken and have not looked yet, or are inside, or a  *)
(* signal that is still to come.                                           *)
ProducersSleepOnlyWhenFull ==
  (\E p \in Producers : pc[p] = "asleep") =>
     (BUFFER_SIZE - 1) - Count <=
        Cardinality({c \in Producers : pc[c] \in {"woken", "test"}})
        + (IF pc[Sender] = "signal" THEN 1 ELSE 0)

(***************************************************************************)
(* How the ring can stop: a handler waits for what only the thread it      *)
(* interrupts could do, give back the mutex or empty a slot.               *)
(***************************************************************************)
SelfDeadlock ==
  \E h \in Handlers :
     \/ /\ pc[h] \in {"lock", "woken"}
        /\ dtn_mutex # Nobody
        /\ dtn_mutex = host[h]
     \/ /\ pc[h] \in {"asleep", "woken", "test", "lock"}
        /\ host[h] = Sender
        /\ Full

(* The oldest message is taken eventually, unless a handler blocks the     *)
(* very thread it waits for.                                               *)
DrainsUnlessSelfDeadlock ==
  \A i \in Slots : (sMsgsOut = i /\ ~ Empty) ~> (sMsgsOut # i \/ SelfDeadlock)

(* The oldest message is taken eventually.  The comment on the timers says *)
(* that their expiry "will cause us to send message to peer".              *)
AlwaysDrains ==
  \A i \in Slots : (sMsgsOut = i /\ ~ Empty) ~> (sMsgsOut # i)

=============================================================================
