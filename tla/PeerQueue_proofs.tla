-------------------------- MODULE PeerQueue_proofs --------------------------
(***************************************************************************)
(* Proofs about the message ring, for any finite number of threads and     *)
(* handlers, any messages and any buffer size of at least two.             *)
(***************************************************************************)
EXTENDS PeerQueue, FiniteSetTheorems, SequenceTheorems, TLAPS

(* The inductive invariant.  Besides the types and the mutex it says that  *)
(* a handler is at its enqueuing code exactly while it interrupts some     *)
(* thread, that a producer in its locked section has a message to write,   *)
(* and that the consumer sleeps only when there is nothing to take.        *)
HandlerInv == \A h \in Handlers : host[h] = Nobody <=> pc[h] = "away"
OfferInv   == \A p \in Producers : pc[p] # "away" => offer[p] \in Msgs

IInv == TypeOK /\ MutexInv /\ HandlerInv /\ OfferInv /\ SenderSleepsOnlyWhenEmpty

-----------------------------------------------------------------------------
(* NextSlot stays inside the ring and moves on by one, wrapping at the end. *)
LEMMA NextSlotLemma ==
  \A i \in Slots : /\ NextSlot(i) \in Slots
                   /\ NextSlot(i) = IF i + 1 = BUFFER_SIZE THEN 0 ELSE i + 1
  BY BufferAssumption DEF NextSlot, Slots

(* What a pthread_cond_signal does: the signalling context moves to point, *)
(* at most one sleeper becomes woken, nobody else moves; and somebody is   *)
(* woken if somebody sleeps.                                               *)
LEMMA WakeLemma ==
  ASSUME NEW c \in Contexts, NEW point \in Points, NEW S \in SUBSET Contexts,
         pc \in [Contexts -> Points], pc[c] # "asleep", Wake(c, point, S)
  PROVE  /\ pc' \in [Contexts -> Points]
         /\ pc'[c] = point
         /\ \A d \in Contexts \ {c} :
               pc'[d] = pc[d] \/ (d \in S /\ pc[d] = "asleep" /\ pc'[d] = "woken")
         /\ (\E d \in S : pc[d] = "asleep")
               => \E d \in S : pc[d] = "asleep" /\ pc'[d] = "woken"
  <1> DEFINE sleepers == {w \in S : pc[w] = "asleep"}
  <1>1. CASE sleepers = {}
    <2>1. pc' = [pc EXCEPT ![c] = point]
      BY <1>1 DEF Wake, GoTo
    <2> QED BY <1>1, <2>1
  <1>2. CASE sleepers # {}
    <2>1. PICK w \in sleepers : pc' = [pc EXCEPT ![c] = point, ![w] = "woken"]
      BY <1>2 DEF Wake
    <2>2. w # c /\ w \in Contexts /\ "woken" \in Points
      BY DEF Points
    <2> QED BY <2>1, <2>2
  <1> QED BY <1>1, <1>2

(* The inductive invariant holds of the empty ring. *)
LEMMA InitIInv == Init => IInv
  <1> SUFFICES ASSUME Init PROVE IInv
    OBVIOUS
  <1> USE BufferAssumption, ContextAssumption, MessageAssumption DEF Init
  <1>1. TypeOK
    BY DEF TypeOK, Slots, Points
  <1>2. MutexInv
    BY DEF MutexInv, Contexts, Producers, Inside
  <1>3. HandlerInv
    BY DEF HandlerInv, Contexts, Producers
  <1>4. OfferInv
    BY DEF OfferInv, Contexts, Producers
  <1>5. SenderSleepsOnlyWhenEmpty
    BY DEF SenderSleepsOnlyWhenEmpty, Empty
  <1> QED BY <1>1, <1>2, <1>3, <1>4, <1>5 DEF IInv

(* Each action preserves the inductive invariant. *)
LEMMA NextIInv == IInv /\ [Next]_vars => IInv'
  <1> SUFFICES ASSUME IInv, [Next]_vars PROVE IInv'
    OBVIOUS
  <1> USE BufferAssumption, ContextAssumption, MessageAssumption
  <1> USE DEF IInv, HandlerInv, OfferInv, MutexInv, TypeOK, SenderSleepsOnlyWhenEmpty,
              Empty, Contexts, Producers, Points, Inside
  <1>1. ASSUME NEW t \in Threads, Enqueue(t) PROVE IInv'
    BY <1>1 DEF Enqueue, GoTo
  <1>2. ASSUME NEW h \in Handlers, NEW t \in Threads \cup {Sender}, Interrupt(h, t)
        PROVE IInv'
    BY <1>2 DEF Interrupt, GoTo
  <1>3. ASSUME NEW c \in Contexts, Lock(c) PROVE IInv'
    BY <1>3 DEF Lock, GoTo
  <1>4. ASSUME NEW p \in Producers, WaitNotFull(p) PROVE IInv'
    BY <1>4 DEF WaitNotFull, WaitWhile, GoTo
  <1>5. ASSUME NEW p \in Producers, PutSlot(p) PROVE IInv'
    BY <1>5, NextSlotLemma DEF PutSlot, GoTo
  <1>6. ASSUME NEW p \in Producers, SignalFull(p) PROVE IInv'
    <2>1. Wake(p, "unlock", {Sender}) /\ pc[p] = "signal"
      BY <1>6 DEF SignalFull
    <2>2. /\ pc' \in [Contexts -> Points]
          /\ pc'[p] = "unlock"
          /\ \A d \in Contexts \ {p} : pc'[d] = pc[d] \/ 
                (d = Sender /\ pc[d] = "asleep" /\ pc'[d] = "woken")
          /\ pc[Sender] = "asleep" => pc'[Sender] = "woken"
      BY <2>1, WakeLemma
    <2> QED BY <1>6, <2>2 DEF SignalFull
  <1>7. ASSUME NEW p \in Producers, ProducerUnlock(p) PROVE IInv'
    BY <1>7 DEF ProducerUnlock, GoTo
  <1>8. CASE WaitNotEmpty
    BY <1>8 DEF WaitNotEmpty, WaitWhile, GoTo
  <1>9. CASE TakeSlot
    BY <1>9, NextSlotLemma DEF TakeSlot, GoTo
  <1>10. CASE SignalEmpty
    <2>1. Wake(Sender, "unlock", Producers) /\ pc[Sender] = "signal"
      BY <1>10 DEF SignalEmpty
    <2>2. /\ pc' \in [Contexts -> Points]
          /\ pc'[Sender] = "unlock"
          /\ \A d \in Contexts \ {Sender} : pc'[d] = pc[d] \/ 
                (d \in Producers /\ pc[d] = "asleep" /\ pc'[d] = "woken")
      BY <2>1, WakeLemma
    <2> QED BY <1>10, <2>2 DEF SignalEmpty
  <1>11. CASE SenderUnlock
    BY <1>11 DEF SenderUnlock, GoTo
  <1>12. CASE Transmit
    BY <1>12 DEF Transmit, GoTo
  <1>13. ASSUME NEW c \in Contexts, SpuriousWake(c) PROVE IInv'
    BY <1>13 DEF SpuriousWake, GoTo
  <1>14. CASE UNCHANGED vars
    BY <1>14 DEF vars
  <1> QED
    BY <1>1, <1>2, <1>3, <1>4, <1>5, <1>6, <1>7, <1>8, <1>9, <1>10, <1>11, <1>12,
       <1>13, <1>14 DEF Next, ProducerStep, SenderStep

(* The inductive invariant holds in every reachable state. *)
LEMMA Invariance == Spec => []IInv
  BY InitIInv, NextIInv, PTL DEF Spec

-----------------------------------------------------------------------------
(* The variables of the ring always have their types; in particular no     *)
(* interleaving takes an index of sMsg outside the buffer.                 *)
THEOREM TypeCorrect == Spec => []TypeOK
  BY Invariance, PTL DEF IInv

(* dtn_mutex is held by exactly the thread or handler inside its locked    *)
(* section, wherever handlers interrupt.                                   *)
THEOREM MutualExclusion == Spec => []MutexInv
  BY Invariance, PTL DEF IInv

(* fDoRunSendMessageToPeer never sleeps on a message that nobody will      *)
(* signal.                                                                 *)
THEOREM NoLostWakeup == Spec => []SenderSleepsOnlyWhenEmpty
  BY Invariance, PTL DEF IInv

-----------------------------------------------------------------------------
(* A handler that waits for the thread it interrupts stays so: its host    *)
(* cannot move, and the mutex and the full ring stay as they are.          *)
LEMMA SelfDeadlockStep == IInv /\ [Next]_vars /\ SelfDeadlock => SelfDeadlock'
  <1> SUFFICES ASSUME IInv, [Next]_vars, SelfDeadlock PROVE SelfDeadlock'
    OBVIOUS
  <1> USE BufferAssumption, ContextAssumption
  <1> USE DEF IInv, HandlerInv, MutexInv, TypeOK, Contexts, Producers, Points, Inside
  <1> DEFINE Held(h) == /\ pc[h] \in {"lock", "woken"}
                        /\ dtn_mutex # Nobody
                        /\ dtn_mutex = host[h]
             Stuck(h) == /\ pc[h] \in {"asleep", "woken", "test", "lock"}
                         /\ host[h] = Sender
                         /\ Full
  <1>1. PICK h \in Handlers : Held(h) \/ Stuck(h)
    BY DEF SelfDeadlock
  <1> SUFFICES Held(h)' \/ Stuck(h)'
    BY DEF SelfDeadlock
  <1>2. ~ Runs(host[h]) /\ host[h] \in Threads \cup {Sender}
    BY <1>1 DEF Runs
  <1> HIDE DEF Runs
  <1>3. ASSUME NEW t \in Threads, Enqueue(t) PROVE Held(h)' \/ Stuck(h)'
    BY <1>1, <1>2, <1>3 DEF Enqueue, GoTo, Full
  <1>4. ASSUME NEW g \in Handlers, NEW t \in Threads \cup {Sender}, Interrupt(g, t)
        PROVE Held(h)' \/ Stuck(h)'
    BY <1>1, <1>2, <1>4 DEF Interrupt, GoTo, Full
  <1>5. ASSUME NEW c \in Contexts, Lock(c) PROVE Held(h)' \/ Stuck(h)'
    BY <1>1, <1>2, <1>5 DEF Lock, GoTo, Full
  <1>6. ASSUME NEW p \in Producers, WaitNotFull(p) PROVE Held(h)' \/ Stuck(h)'
    BY <1>1, <1>2, <1>6 DEF WaitNotFull, WaitWhile, GoTo, Full
  <1>7. ASSUME NEW p \in Producers, PutSlot(p) PROVE Held(h)' \/ Stuck(h)'
    BY <1>1, <1>2, <1>7 DEF PutSlot, GoTo
  <1>8. ASSUME NEW p \in Producers, SignalFull(p) PROVE Held(h)' \/ Stuck(h)'
    <2>1. Wake(p, "unlock", {Sender}) /\ pc[p] = "signal"
      BY <1>8 DEF SignalFull
    <2>2. \A d \in Contexts \ {p} : pc'[d] = pc[d] \/ d = Sender
      BY <2>1, WakeLemma
    <2> QED BY <1>1, <1>2, <1>8, <2>2 DEF SignalFull, Full
  <1>9. ASSUME NEW p \in Producers, ProducerUnlock(p) PROVE Held(h)' \/ Stuck(h)'
    BY <1>1, <1>2, <1>9 DEF ProducerUnlock, GoTo, Full
  <1>10. CASE WaitNotEmpty
    BY <1>1, <1>2, <1>10 DEF WaitNotEmpty, WaitWhile, GoTo, Full
  <1>11. CASE TakeSlot
    BY <1>1, <1>2, <1>11 DEF TakeSlot, GoTo
  <1>12. CASE SignalEmpty
    <2>1. Wake(Sender, "unlock", Producers) /\ pc[Sender] = "signal"
      BY <1>12 DEF SignalEmpty
    <2>2. \A d \in Contexts \ {Sender} : pc'[d] = pc[d] \/
             (pc[d] = "asleep" /\ pc'[d] = "woken")
      BY <2>1, WakeLemma
    <2> QED BY <1>1, <1>2, <1>12, <2>2 DEF SignalEmpty, Full
  <1>13. CASE SenderUnlock
    BY <1>1, <1>2, <1>13 DEF SenderUnlock, GoTo, Full
  <1>14. CASE Transmit
    BY <1>1, <1>2, <1>14 DEF Transmit, GoTo, Full
  <1>15. ASSUME NEW c \in Contexts, SpuriousWake(c) PROVE Held(h)' \/ Stuck(h)'
    BY <1>1, <1>2, <1>15 DEF SpuriousWake, GoTo, Full
  <1>16. CASE UNCHANGED vars
    BY <1>1, <1>16 DEF vars, Full
  <1> QED
    BY <1>3, <1>4, <1>5, <1>6, <1>7, <1>8, <1>9, <1>10, <1>11, <1>12, <1>13, <1>14,
       <1>15, <1>16 DEF Next, ProducerStep, SenderStep

(* No step of any thread or handler resolves a self-deadlock of a timer    *)
(* handler.                                                                *)
THEOREM SelfDeadlockForever == Spec => [][SelfDeadlock => SelfDeadlock']_vars
  <1>1. IInv /\ [Next]_vars => [SelfDeadlock => SelfDeadlock']_vars
    BY SelfDeadlockStep
  <1> QED BY <1>1, Invariance, PTL DEF Spec

-----------------------------------------------------------------------------
(* Index arithmetic of the ring, without the modulo operator.              *)
At(out, i) == (out + i - 1) % BUFFER_SIZE

(* The slot of the i-th message, with a case distinction for the wrap. *)
LEMMA IndexLemma ==
  ASSUME NEW out \in Slots, NEW i \in 1 .. BUFFER_SIZE
  PROVE  /\ At(out, i) \in Slots
         /\ At(out, i) = IF out + i - 1 < BUFFER_SIZE THEN out + i - 1
                                                      ELSE out + i - 1 - BUFFER_SIZE
  BY BufferAssumption DEF At, Slots

(* The number of slots from out up to in. *)
Dist(in, out) == (in + BUFFER_SIZE - out) % BUFFER_SIZE

(* The distance, with a case distinction for the wrap. *)
LEMMA DistLemma ==
  ASSUME NEW in \in Slots, NEW out \in Slots
  PROVE  /\ Dist(in, out) = IF in >= out THEN in - out ELSE in - out + BUFFER_SIZE
         /\ Dist(in, out) \in 0 .. (BUFFER_SIZE - 1)
  BY BufferAssumption DEF Dist, Slots

(* The distance when one of the two indices moves on. *)
LEMMA DistStep ==
  ASSUME NEW in \in Slots, NEW out \in Slots
  PROVE  /\ NextSlot(in) # out => Dist(NextSlot(in), out) = Dist(in, out) + 1
         /\ in # out => Dist(in, NextSlot(out)) = Dist(in, out) - 1
         /\ NextSlot(in) = out <=> Dist(in, out) = BUFFER_SIZE - 1
         /\ in = out <=> Dist(in, out) = 0
  <1>1. /\ in \in 0 .. (BUFFER_SIZE - 1) /\ out \in 0 .. (BUFFER_SIZE - 1)
        /\ BUFFER_SIZE \in Nat \ {0, 1}
    BY BufferAssumption DEF Slots
  <1>2. /\ NextSlot(in) \in Slots /\ NextSlot(out) \in Slots
        /\ NextSlot(in) = IF in + 1 = BUFFER_SIZE THEN 0 ELSE in + 1
        /\ NextSlot(out) = IF out + 1 = BUFFER_SIZE THEN 0 ELSE out + 1
    BY NextSlotLemma
  <1>3. Dist(in, out) = IF in >= out THEN in - out ELSE in - out + BUFFER_SIZE
    BY DistLemma
  <1>4. Dist(NextSlot(in), out) = IF NextSlot(in) >= out THEN NextSlot(in) - out
                                  ELSE NextSlot(in) - out + BUFFER_SIZE
    BY <1>2, DistLemma
  <1>5. Dist(in, NextSlot(out)) = IF in >= NextSlot(out) THEN in - NextSlot(out)
                                  ELSE in - NextSlot(out) + BUFFER_SIZE
    BY <1>2, DistLemma
  <1> HIDE DEF Dist, NextSlot
  <1> QED BY <1>1, <1>2, <1>3, <1>4, <1>5

(* The number of messages in the ring, and what full and empty say of it. *)
LEMMA CountLemma ==
  ASSUME sMsgsIn \in Slots, sMsgsOut \in Slots
  PROVE  /\ Count \in 0 .. (BUFFER_SIZE - 1)
         /\ Count = Dist(sMsgsIn, sMsgsOut)
         /\ Full <=> Count = BUFFER_SIZE - 1
         /\ Empty <=> Count = 0
  <1>1. Count = Dist(sMsgsIn, sMsgsOut)
    BY DEF Count, Dist
  <1> QED BY <1>1, DistLemma, DistStep DEF Full, Empty

(* A function on 1 .. n is a sequence of n elements. *)
LEMMA FunctionIsSeq ==
  ASSUME NEW n \in Nat, NEW S, NEW f \in [1 .. n -> S]
  PROVE  f \in Seq(S) /\ Len(f) = n /\ DOMAIN f = 1 .. n
  OBVIOUS

(* Writing the slot at sMsgsIn appends to the abstract queue. *)
LEMMA PutRefines ==
  ASSUME IInv, NEW p \in Producers, PutSlot(p)
  PROVE  Fifo!Put(offer[p]) /\ offer[p] \in Msgs
  <1> USE DEF IInv, TypeOK
  <1>1. /\ sMsgsIn \in Slots /\ sMsgsOut \in Slots /\ BUFFER_SIZE \in Nat \ {0, 1}
        /\ sMsgsIn' = NextSlot(sMsgsIn) /\ sMsgsOut' = sMsgsOut /\ sMsg2' = sMsg2
        /\ sMsg' = [sMsg EXCEPT ![sMsgsIn] = offer[p]]
        /\ ~ Full /\ sMsgsIn' \in Slots
        /\ offer[p] \in Msgs
    BY BufferAssumption, NextSlotLemma DEF PutSlot, OfferInv
  <1>2. /\ Count \in 0 .. (BUFFER_SIZE - 2)
        /\ Count = IF sMsgsIn >= sMsgsOut THEN sMsgsIn - sMsgsOut
                                          ELSE sMsgsIn - sMsgsOut + BUFFER_SIZE
    BY <1>1, CountLemma, DistLemma
  <1>3. Count' = Dist(sMsgsIn', sMsgsOut')
    BY DEF Count, Dist
  <1>4. Count' = Count + 1
    BY <1>1, <1>3, CountLemma, DistStep DEF Full
  <1>5. \A i \in 1 .. Count : At(sMsgsOut, i) \in Slots /\ At(sMsgsOut, i) # sMsgsIn
    <2> TAKE i \in 1 .. Count
    <2>1. i \in 1 .. BUFFER_SIZE
      BY <1>1, <1>2
    <2>2. /\ At(sMsgsOut, i) \in Slots
          /\ At(sMsgsOut, i) = IF sMsgsOut + i - 1 < BUFFER_SIZE THEN sMsgsOut + i - 1
                                ELSE sMsgsOut + i - 1 - BUFFER_SIZE
      BY <1>1, <2>1, IndexLemma
    <2>3. sMsgsIn \in 0 .. (BUFFER_SIZE - 1) /\ sMsgsOut \in 0 .. (BUFFER_SIZE - 1)
      BY <1>1 DEF Slots
    <2> HIDE DEF IInv, TypeOK
    <2> QED BY <1>1, <1>2, <2>2, <2>3
  <1>6. At(sMsgsOut, Count + 1) = sMsgsIn
    <2>1. Count + 1 \in 1 .. BUFFER_SIZE
      BY <1>1, <1>2
    <2> QED BY <1>1, <1>2, <2>1, IndexLemma DEF Slots
  <1>7. Content = [i \in 1 .. Count |-> sMsg[At(sMsgsOut, i)]]
    BY DEF Content, At
  <1>8. Content' = [i \in 1 .. (Count + 1) |-> sMsg'[At(sMsgsOut, i)]]
    BY <1>1, <1>4 DEF Content, At
  <1>9. Len(Content) = Count /\ DOMAIN Content = 1 .. Count
        /\ Content \in Seq(Msgs \cup {NoMsg})
    <2>1. \A i \in 1 .. Count : sMsg[At(sMsgsOut, i)] \in Msgs \cup {NoMsg}
      BY <1>5
    <2>2. Content \in [1 .. Count -> Msgs \cup {NoMsg}]
      BY <1>7, <2>1
    <2>3. Count \in Nat
      BY <1>1, <1>2
    <2> HIDE DEF IInv, TypeOK
    <2> QED BY <2>2, <2>3, FunctionIsSeq
  <1>10. Append(Content, offer[p]) =
           [i \in 1 .. (Count + 1) |-> IF i = Count + 1 THEN offer[p] ELSE Content[i]]
    BY <1>1, <1>2, <1>9
  <1>11. \A i \in 1 .. (Count + 1) :
           sMsg'[At(sMsgsOut, i)] = IF i = Count + 1 THEN offer[p] ELSE Content[i]
    BY <1>1, <1>2, <1>5, <1>6, <1>7
  <1>12. Content' = Append(Content, offer[p])
    BY <1>8, <1>10, <1>11
  <1> QED BY <1>1, <1>2, <1>9, <1>12 DEF Fifo!Put

(* Emptying the slot at sMsgsOut takes the head of the abstract queue. *)
LEMMA TakeRefines ==
  ASSUME IInv, TakeSlot
  PROVE  Fifo!Take
  <1> USE DEF IInv, TypeOK
  <1>1. /\ sMsgsIn \in Slots /\ sMsgsOut \in Slots /\ BUFFER_SIZE \in Nat \ {0, 1}
        /\ sMsgsOut' = NextSlot(sMsgsOut) /\ sMsgsIn' = sMsgsIn /\ sMsg' = sMsg
        /\ sMsg2' = sMsg[sMsgsOut]
        /\ ~ Empty /\ sMsgsOut' \in Slots
    BY BufferAssumption, NextSlotLemma DEF TakeSlot
  <1>2. Count \in 1 .. (BUFFER_SIZE - 1)
    BY <1>1, CountLemma
  <1>3. Count' = Dist(sMsgsIn', sMsgsOut')
    BY DEF Count, Dist
  <1>4. Count' = Count - 1
    BY <1>1, <1>3, CountLemma, DistStep DEF Empty
  <1>5. \A i \in 1 .. (Count - 1) : At(sMsgsOut', i) = At(sMsgsOut, i + 1)
    <2> TAKE i \in 1 .. (Count - 1)
    <2>1. i \in 1 .. BUFFER_SIZE /\ i + 1 \in 1 .. BUFFER_SIZE
      BY <1>1, <1>2
    <2>2. /\ At(sMsgsOut, i + 1) =
                 IF sMsgsOut + (i + 1) - 1 < BUFFER_SIZE THEN sMsgsOut + (i + 1) - 1
                 ELSE sMsgsOut + (i + 1) - 1 - BUFFER_SIZE
          /\ At(sMsgsOut', i) = IF sMsgsOut' + i - 1 < BUFFER_SIZE THEN sMsgsOut' + i - 1
                                ELSE sMsgsOut' + i - 1 - BUFFER_SIZE
      BY <1>1, <2>1, IndexLemma
    <2>3. /\ sMsgsOut' = IF sMsgsOut + 1 = BUFFER_SIZE THEN 0 ELSE sMsgsOut + 1
          /\ sMsgsOut \in 0 .. (BUFFER_SIZE - 1)
      BY <1>1, NextSlotLemma DEF Slots
    <2> HIDE DEF IInv, TypeOK
    <2> QED BY <1>1, <2>1, <2>2, <2>3
  <1>6. At(sMsgsOut, 1) = sMsgsOut /\ \A i \in 1 .. Count : At(sMsgsOut, i) \in Slots
    <2>1. \A i \in 1 .. Count : i \in 1 .. BUFFER_SIZE
      BY <1>1, <1>2
    <2>2. 1 \in 1 .. BUFFER_SIZE
      BY <1>1
    <2> QED BY <1>1, <2>1, <2>2, IndexLemma DEF Slots
  <1>7. Content = [i \in 1 .. Count |-> sMsg[At(sMsgsOut, i)]]
    BY DEF Content, At
  <1>8. Content' = [i \in 1 .. (Count - 1) |-> sMsg[At(sMsgsOut', i)]]
    BY <1>1, <1>4 DEF Content, At
  <1>9. /\ Content \in Seq(Msgs \cup {NoMsg})
        /\ Len(Content) = Count
        /\ Content # <<>>
    <2>1. \A i \in 1 .. Count : sMsg[At(sMsgsOut, i)] \in Msgs \cup {NoMsg}
      BY <1>6
    <2>2. Content \in [1 .. Count -> Msgs \cup {NoMsg}]
      BY <1>7, <2>1
    <2>3. Count \in Nat /\ Count > 0
      BY <1>1, <1>2
    <2> HIDE DEF IInv, TypeOK
    <2>4. Content \in Seq(Msgs \cup {NoMsg}) /\ Len(Content) = Count
      BY <2>2, <2>3, FunctionIsSeq
    <2> QED BY <2>3, <2>4, EmptySeq
  <1>10. Head(Content) = sMsg[sMsgsOut]
    BY <1>2, <1>6, <1>7, <1>9
  <1>11. /\ Tail(Content) \in Seq(Msgs \cup {NoMsg})
         /\ Len(Tail(Content)) = Count - 1
         /\ \A i \in 1 .. (Count - 1) : Tail(Content)[i] = Content[i + 1]
    BY <1>9, HeadTailProperties
  <1>12. /\ Content' \in Seq(Msgs \cup {NoMsg})
         /\ Len(Content') = Count - 1
         /\ \A i \in 1 .. (Count - 1) : Content'[i] = Content[i + 1]
    <2>1. \A i \in 1 .. (Count - 1) : At(sMsgsOut', i) = At(sMsgsOut, i + 1)
                                    /\ At(sMsgsOut, i + 1) \in Slots
      BY <1>2, <1>5, <1>6
    <2> QED BY <1>2, <1>7, <1>8, <2>1
  <1>13. Content' = Tail(Content)
    BY <1>11, <1>12, SeqEqual
  <1> QED BY <1>1, <1>9, <1>10, <1>13 DEF Fifo!Take

(* Every other step leaves the abstract queue alone. *)
LEMMA OtherStutter ==
  ASSUME [Next]_vars
  PROVE  \/ \E p \in Producers : PutSlot(p)
         \/ TakeSlot
         \/ UNCHANGED <<sMsg, sMsgsIn, sMsgsOut, sMsg2>>
  BY DEF Next, ProducerStep, SenderStep, vars, Enqueue, Interrupt, Lock, WaitNotFull,
         WaitWhile, SignalFull, ProducerUnlock, WaitNotEmpty, SignalEmpty, SenderUnlock,
         Transmit, SpuriousWake

(* The locked ring implements the abstract first-in first-out queue: for   *)
(* every number of producing threads and handlers and every buffer size,   *)
(* no message is lost, overwritten, duplicated or reordered.               *)
THEOREM RefinesFifo == Spec => ImplementsFifo
  <1>1. Init => Fifo!FifoInit
    <2> SUFFICES ASSUME Init PROVE Content = <<>> /\ sMsg2 = NoMsg
      BY DEF Fifo!FifoInit
    <2>1. sMsgsIn = 0 /\ sMsgsOut = 0 /\ sMsg2 = NoMsg /\ 0 \in Slots
      BY BufferAssumption DEF Init, Slots
    <2>2. Count = 0
      BY <2>1, CountLemma DEF Empty
    <2> QED BY <2>1, <2>2 DEF Content
  <1>2. IInv /\ [Next]_vars => [Fifo!FifoNext]_(Fifo!fifoVars)
    <2> SUFFICES ASSUME IInv, [Next]_vars PROVE [Fifo!FifoNext]_(Fifo!fifoVars)
      OBVIOUS
    <2>1. ASSUME NEW p \in Producers, PutSlot(p) PROVE Fifo!FifoNext
      BY <2>1, PutRefines DEF Fifo!FifoNext
    <2>2. CASE TakeSlot
      BY <2>2, TakeRefines DEF Fifo!FifoNext
    <2>3. CASE UNCHANGED <<sMsg, sMsgsIn, sMsgsOut, sMsg2>>
      BY <2>3 DEF Fifo!fifoVars, Content, Count
    <2> QED BY <2>1, <2>2, <2>3, OtherStutter
  <1> QED BY <1>1, <1>2, Invariance, PTL DEF Spec, ImplementsFifo, Fifo!FifoSpec

-----------------------------------------------------------------------------
(* The producers that have been woken and have not tested again, or are    *)
(* about to test: each of them may still take a free slot.                 *)
Lookers == {c \in Producers : pc[c] \in {"woken", "test"}}

(* The set of lookers when one context p moves: how its size changes. *)
LEMMA LookersLemma ==
  ASSUME TypeOK, TypeOK'
  PROVE  /\ IsFiniteSet(Lookers) /\ Cardinality(Lookers) \in Nat
         /\ IsFiniteSet(Lookers') /\ Cardinality(Lookers') \in Nat
         /\ Lookers \subseteq Lookers' => Cardinality(Lookers) <= Cardinality(Lookers')
         /\ \A p : Lookers' = Lookers \ {p} /\ p \in Lookers
                     => Cardinality(Lookers') = Cardinality(Lookers) - 1
         /\ \A p : Lookers \cup {p} \subseteq Lookers' /\ p \notin Lookers
                     => Cardinality(Lookers') >= Cardinality(Lookers) + 1
  <1>1. IsFiniteSet(Producers)
    BY ContextAssumption, FS_Union DEF Producers
  <1>2. Lookers \in SUBSET Producers /\ Lookers' \in SUBSET Producers
    BY DEF Lookers
  <1> HIDE DEF Lookers
  <1>3. IsFiniteSet(Lookers) /\ IsFiniteSet(Lookers')
    BY <1>1, <1>2, FS_Subset
  <1>4. Cardinality(Lookers) \in Nat /\ Cardinality(Lookers') \in Nat
    BY <1>3, FS_CardinalityType
  <1>5. Lookers \subseteq Lookers' => Cardinality(Lookers) <= Cardinality(Lookers')
    BY <1>3, FS_Subset
  <1>6. ASSUME NEW p, Lookers' = Lookers \ {p}, p \in Lookers
        PROVE  Cardinality(Lookers') = Cardinality(Lookers) - 1
    BY <1>3, <1>6, FS_RemoveElement
  <1>7. ASSUME NEW p, Lookers \cup {p} \subseteq Lookers', p \notin Lookers
        PROVE  Cardinality(Lookers') >= Cardinality(Lookers) + 1
    <2>1. Cardinality(Lookers \cup {p}) = Cardinality(Lookers) + 1
      BY <1>3, <1>7, FS_AddElement
    <2>2. Cardinality(Lookers \cup {p}) <= Cardinality(Lookers')
      BY <1>3, <1>7, FS_Subset
    <2> QED BY <1>4, <2>1, <2>2
  <1> QED BY <1>3, <1>4, <1>5, <1>6, <1>7

(* A step that writes no index, takes no looker away and neither ends the  *)
(* consumer's signal nor lets the first producer sleep, keeps the bound.   *)
LEMMA QuietStep ==
  ASSUME TypeOK, TypeOK', ProducersSleepOnlyWhenFull,
         UNCHANGED <<sMsgsIn, sMsgsOut>>,
         Lookers \subseteq Lookers',
         pc[Sender] = "signal" => pc'[Sender] = "signal",
         \A p \in Producers : pc'[p] = "asleep" => pc[p] = "asleep"
  PROVE  ProducersSleepOnlyWhenFull'
  <1>1. Count' = Count /\ Count \in Int /\ BUFFER_SIZE \in Int
    BY BufferAssumption, CountLemma DEF Count, TypeOK
  <1>2. /\ Cardinality(Lookers) \in Nat /\ Cardinality(Lookers') \in Nat
        /\ Cardinality(Lookers) <= Cardinality(Lookers')
    BY LookersLemma
  <1>3. SUFFICES ASSUME \E p \in Producers : pc'[p] = "asleep"
        PROVE (BUFFER_SIZE - 1) - Count' <=
                Cardinality(Lookers') + (IF pc'[Sender] = "signal" THEN 1 ELSE 0)
    BY DEF ProducersSleepOnlyWhenFull, Lookers
  <1>4. (BUFFER_SIZE - 1) - Count <=
          Cardinality(Lookers) + (IF pc[Sender] = "signal" THEN 1 ELSE 0)
    BY <1>3 DEF ProducersSleepOnlyWhenFull, Lookers
  <1> HIDE DEF Lookers, Count
  <1> QED BY <1>1, <1>2, <1>4

(* Each action preserves the bound on the free slots. *)
LEMMA SleepersStep ==
  IInv /\ IInv' /\ [Next]_vars /\ ProducersSleepOnlyWhenFull => ProducersSleepOnlyWhenFull'
  <1> SUFFICES ASSUME IInv, IInv', [Next]_vars, ProducersSleepOnlyWhenFull
               PROVE  ProducersSleepOnlyWhenFull'
    OBVIOUS
  <1>a. TypeOK /\ TypeOK' /\ HandlerInv
    BY DEF IInv
  <1>b. pc \in [Contexts -> Points] /\ Sender \notin Producers /\ Sender \in Contexts
        /\ Producers \subseteq Contexts
    BY <1>a, ContextAssumption DEF TypeOK, Producers, Contexts
  <1>c. /\ Count \in 0 .. (BUFFER_SIZE - 1) /\ BUFFER_SIZE \in Nat \ {0, 1}
        /\ Full <=> Count = BUFFER_SIZE - 1
        /\ Count' \in 0 .. (BUFFER_SIZE - 1)
    <2>1. Count \in 0 .. (BUFFER_SIZE - 1) /\ (Full <=> Count = BUFFER_SIZE - 1)
      BY <1>a, CountLemma DEF TypeOK
    <2>2. Count' = Dist(sMsgsIn', sMsgsOut')
      BY DEF Count, Dist
    <2>3. Count' \in 0 .. (BUFFER_SIZE - 1)
      BY <1>a, <2>2, DistLemma DEF TypeOK
    <2> QED BY <2>1, <2>3, BufferAssumption
  <1>d. /\ Cardinality(Lookers) \in Nat /\ Cardinality(Lookers') \in Nat
    BY <1>a, LookersLemma
  <1>1. ASSUME NEW t \in Threads, Enqueue(t) PROVE ProducersSleepOnlyWhenFull'
    <2>1. Lookers \subseteq Lookers'
      BY <1>1, <1>b DEF Enqueue, GoTo, Lookers, Producers
    <2> QED BY <1>1, <1>a, <1>b, <2>1, QuietStep DEF Enqueue, GoTo, Producers
  <1>2. ASSUME NEW h \in Handlers, NEW t \in Threads \cup {Sender}, Interrupt(h, t)
        PROVE ProducersSleepOnlyWhenFull'
    <2>0. pc[h] = "away"
      BY <1>2, <1>a DEF HandlerInv, Interrupt
    <2>1. Lookers \subseteq Lookers'
      BY <1>2, <1>b, <2>0 DEF Interrupt, GoTo, Lookers, Producers
    <2> QED BY <1>2, <1>a, <1>b, <2>0, <2>1, QuietStep DEF Interrupt, GoTo, Producers
  <1>3. ASSUME NEW c \in Contexts, Lock(c) PROVE ProducersSleepOnlyWhenFull'
    <2>1. Lookers \subseteq Lookers'
      BY <1>3, <1>b DEF Lock, GoTo, Lookers
    <2> QED BY <1>3, <1>a, <1>b, <2>1, QuietStep DEF Lock, GoTo
  <1>4. ASSUME NEW p \in Producers, WaitNotFull(p) PROVE ProducersSleepOnlyWhenFull'
    <2>1. Full /\ UNCHANGED <<sMsgsIn, sMsgsOut>>
      BY <1>4 DEF WaitNotFull, WaitWhile
    <2>2. Count' = BUFFER_SIZE - 1
      BY <1>c, <2>1 DEF Count
    <2>3. (BUFFER_SIZE - 1) - Count' <=
             Cardinality(Lookers') + (IF pc'[Sender] = "signal" THEN 1 ELSE 0)
      BY <1>c, <1>d, <2>2
    <2> QED BY <2>3 DEF ProducersSleepOnlyWhenFull, Lookers
  <1>5. ASSUME NEW p \in Producers, PutSlot(p) PROVE ProducersSleepOnlyWhenFull'
    <2>1. /\ sMsgsIn' = NextSlot(sMsgsIn) /\ sMsgsOut' = sMsgsOut /\ ~ Full
          /\ pc[p] = "test" /\ pc' = [pc EXCEPT ![p] = "signal"]
      BY <1>5 DEF PutSlot, GoTo
    <2>2. Count' = Count + 1
      <3>1. Count' = Dist(sMsgsIn', sMsgsOut') /\ Count = Dist(sMsgsIn, sMsgsOut)
        BY DEF Count, Dist
      <3> QED BY <1>a, <2>1, <3>1, DistStep DEF Full, TypeOK
    <2>3. Lookers' = Lookers \ {p} /\ p \in Lookers
      BY <1>b, <2>1 DEF Lookers
    <2>4. Cardinality(Lookers') = Cardinality(Lookers) - 1
      BY <1>a, <2>3, LookersLemma
    <2>5. SUFFICES ASSUME \E q \in Producers : pc'[q] = "asleep"
          PROVE (BUFFER_SIZE - 1) - Count' <=
                  Cardinality(Lookers') + (IF pc'[Sender] = "signal" THEN 1 ELSE 0)
      BY DEF ProducersSleepOnlyWhenFull, Lookers
    <2>6. \E q \in Producers : pc[q] = "asleep"
      BY <1>b, <2>1, <2>5
    <2>7. (BUFFER_SIZE - 1) - Count <=
            Cardinality(Lookers) + (IF pc[Sender] = "signal" THEN 1 ELSE 0)
      BY <2>6 DEF ProducersSleepOnlyWhenFull, Lookers
    <2>8. pc'[Sender] = pc[Sender]
      BY <1>b, <2>1
    <2> HIDE DEF Lookers, Count
    <2> QED BY <1>c, <1>d, <2>2, <2>4, <2>7, <2>8
  <1>6. ASSUME NEW p \in Producers, SignalFull(p) PROVE ProducersSleepOnlyWhenFull'
    <2>1. Wake(p, "unlock", {Sender}) /\ pc[p] = "signal" /\ UNCHANGED <<sMsgsIn, sMsgsOut>>
      BY <1>6 DEF SignalFull
    <2>2. /\ pc'[p] = "unlock"
          /\ \A d \in Contexts \ {p} : pc'[d] = pc[d] \/
                (d = Sender /\ pc[d] = "asleep" /\ pc'[d] = "woken")
      BY <1>b, <2>1, WakeLemma DEF Points, Inside
    <2>3. Lookers \subseteq Lookers'
      BY <1>b, <2>1, <2>2 DEF Lookers
    <2>4. /\ pc[Sender] = "signal" => pc'[Sender] = "signal"
          /\ \A q \in Producers : pc'[q] = "asleep" => pc[q] = "asleep"
      BY <1>b, <2>2
    <2> QED BY <1>a, <2>1, <2>3, <2>4, QuietStep
  <1>7. ASSUME NEW p \in Producers, ProducerUnlock(p) PROVE ProducersSleepOnlyWhenFull'
    <2>1. Lookers \subseteq Lookers'
      BY <1>7, <1>b DEF ProducerUnlock, GoTo, Lookers
    <2> QED BY <1>7, <1>a, <1>b, <2>1, QuietStep DEF ProducerUnlock, GoTo
  <1>8. CASE WaitNotEmpty
    <2>1. Lookers \subseteq Lookers'
      BY <1>8, <1>b DEF WaitNotEmpty, WaitWhile, GoTo, Lookers
    <2> QED BY <1>8, <1>a, <1>b, <2>1, QuietStep DEF WaitNotEmpty, WaitWhile, GoTo
  <1>9. CASE TakeSlot
    <2>1. /\ sMsgsOut' = NextSlot(sMsgsOut) /\ sMsgsIn' = sMsgsIn /\ ~ Empty
          /\ pc[Sender] = "test" /\ pc' = [pc EXCEPT ![Sender] = "signal"]
      BY <1>9 DEF TakeSlot, GoTo
    <2>2. Count' = Count - 1
      <3>1. Count' = Dist(sMsgsIn', sMsgsOut') /\ Count = Dist(sMsgsIn, sMsgsOut)
        BY DEF Count, Dist
      <3> QED BY <1>a, <2>1, <3>1, DistStep DEF Empty, TypeOK
    <2>3. Lookers' = Lookers
      BY <1>b, <2>1 DEF Lookers
    <2>5. SUFFICES ASSUME \E q \in Producers : pc'[q] = "asleep"
          PROVE (BUFFER_SIZE - 1) - Count' <=
                  Cardinality(Lookers') + (IF pc'[Sender] = "signal" THEN 1 ELSE 0)
      BY DEF ProducersSleepOnlyWhenFull, Lookers
    <2>6. \E q \in Producers : pc[q] = "asleep"
      BY <1>b, <2>1, <2>5
    <2>7. (BUFFER_SIZE - 1) - Count <=
            Cardinality(Lookers) + (IF pc[Sender] = "signal" THEN 1 ELSE 0)
      BY <2>6 DEF ProducersSleepOnlyWhenFull, Lookers
    <2>8. pc'[Sender] = "signal" /\ pc[Sender] = "test"
      BY <1>b, <2>1
    <2> HIDE DEF Lookers, Count
    <2> QED BY <1>c, <1>d, <2>2, <2>3, <2>7, <2>8
  <1>10. CASE SignalEmpty
    <2>1. /\ Wake(Sender, "unlock", Producers) /\ pc[Sender] = "signal"
          /\ UNCHANGED <<sMsgsIn, sMsgsOut>>
      BY <1>10 DEF SignalEmpty
    <2>2. /\ pc'[Sender] = "unlock"
          /\ \A d \in Contexts \ {Sender} : pc'[d] = pc[d] \/
                (d \in Producers /\ pc[d] = "asleep" /\ pc'[d] = "woken")
          /\ (\E d \in Producers : pc[d] = "asleep")
                => \E d \in Producers : pc[d] = "asleep" /\ pc'[d] = "woken"
      BY <1>b, <2>1, WakeLemma DEF Points, Inside
    <2>5. SUFFICES ASSUME \E q \in Producers : pc'[q] = "asleep"
          PROVE (BUFFER_SIZE - 1) - Count' <=
                  Cardinality(Lookers') + (IF pc'[Sender] = "signal" THEN 1 ELSE 0)
      BY DEF ProducersSleepOnlyWhenFull, Lookers
    <2>6. PICK w \in Producers : pc[w] = "asleep" /\ pc'[w] = "woken"
      BY <1>b, <2>2, <2>5
    <2>7. (BUFFER_SIZE - 1) - Count <= Cardinality(Lookers) + 1
      BY <2>1, <2>6 DEF ProducersSleepOnlyWhenFull, Lookers
    <2>8. Lookers \cup {w} \subseteq Lookers' /\ w \notin Lookers
      BY <1>b, <2>2, <2>6 DEF Lookers
    <2>9. Cardinality(Lookers') >= Cardinality(Lookers) + 1
      BY <1>a, <2>8, LookersLemma
    <2>10. Count' = Count
      BY <2>1 DEF Count
    <2> HIDE DEF Lookers, Count
    <2> QED BY <1>c, <1>d, <2>2, <2>7, <2>9, <2>10
  <1>11. CASE SenderUnlock
    <2>1. Lookers \subseteq Lookers'
      BY <1>11, <1>b DEF SenderUnlock, GoTo, Lookers
    <2> QED BY <1>11, <1>a, <1>b, <2>1, QuietStep DEF SenderUnlock, GoTo
  <1>12. CASE Transmit
    <2>1. Lookers \subseteq Lookers'
      BY <1>12, <1>b DEF Transmit, GoTo, Lookers
    <2> QED BY <1>12, <1>a, <1>b, <2>1, QuietStep DEF Transmit, GoTo
  <1>13. ASSUME NEW c \in Contexts, SpuriousWake(c) PROVE ProducersSleepOnlyWhenFull'
    <2>1. Lookers \subseteq Lookers'
      BY <1>13, <1>b DEF SpuriousWake, GoTo, Lookers
    <2> QED BY <1>13, <1>a, <1>b, <2>1, QuietStep DEF SpuriousWake, GoTo
  <1>14. CASE UNCHANGED vars
    BY <1>14 DEF vars, ProducersSleepOnlyWhenFull, Count
  <1> QED
    BY <1>1, <1>2, <1>3, <1>4, <1>5, <1>6, <1>7, <1>8, <1>9, <1>10, <1>11, <1>12,
       <1>13, <1>14, <1>b DEF Next, ProducerStep, SenderStep

(* A producer never sleeps on a free slot that nobody is about to look at: *)
(* one pthread_cond_signal per dequeue is enough, however many threads and *)
(* handlers wait and whoever takes the slot first.                         *)
THEOREM NoLostFreeSlot == Spec => []ProducersSleepOnlyWhenFull
  <1>1. Init => ProducersSleepOnlyWhenFull
    BY ContextAssumption DEF Init, ProducersSleepOnlyWhenFull, Contexts, Producers
  <1> QED BY <1>1, SleepersStep, Invariance, PTL DEF Spec
=============================================================================
