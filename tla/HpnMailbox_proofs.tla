------------------------- MODULE HpnMailbox_proofs -------------------------
(***************************************************************************)
(* Theorems about HpnMailbox, for any number of clients and polls and any  *)
(* range of the queue occupancy.                                           *)
(***************************************************************************)
EXTENDS HpnMailbox, TLAPS

(* Polls are numbered upwards: what the clients have is not newer than     *)
(* what the mailbox had last, and that is older than the poll under way.   *)
PollInv ==
  /\ sHpnRetMsg.poll < poll
  /\ sHpnRetMsg2.poll < poll
  /\ \A c \in Clients : sRetMsg[c].poll <= sHpnRetMsg.poll
  /\ \A c \in Clients : sRetMsg2[c].poll <= sHpnRetMsg2.poll

(* An extreme that was set in this poll has its time in its buffer, and    *)
(* the first record in the mailbox has its own time.                       *)
TimeInv ==
  /\ qinfo_min_value # QINFO_START_MIN_VALUE => ctime_buf["min"] = poll
  /\ qinfo_max_value # 0 => ctime_buf["max"] = poll
  /\ sHpnRetMsg.real => sHpnRetMsg.time = sHpnRetMsg.poll

IInv == TypeOK /\ PollInv /\ TimeInv /\ TakenOnce /\ FirstRecordIsWhole

-----------------------------------------------------------------------------
(* The mask leaves an occupancy. *)
LEMMA MaskedType == \A q \in QueueInfos : Masked(q) \in Qinfos
  BY QinfoAssumption DEF Masked, QueueInfos, Qinfos

(* A request is handled at a point of the thread. *)
LEMMA HandlerType == \A o : Handler(o) \in {"test", "shut", "send1", "idle"}
  BY DEF Handler

(* The inductive invariant holds of the empty mailbox. *)
LEMMA InitIInv == Init => IInv
  <1> SUFFICES ASSUME Init PROVE IInv
    OBVIOUS
  <1>1. TypeOK
    <2>1. NoRecord \in Records
      BY DEF NoRecord, Records
    <2>2. QINFO_START_MIN_VALUE \in Qinfos /\ 0 \in Qinfos
      BY QinfoAssumption DEF Qinfos
    <2>3. ctime_buf \in [{"min", "max"} -> Nat]
      BY DEF Init
    <2>4. /\ sRetMsg \in [Clients -> Records]
          /\ sRetMsg2 \in [Clients -> Records]
      BY <2>1 DEF Init
    <2> QED BY <2>1, <2>2, <2>3, <2>4 DEF Init, TypeOK, Points, Conns
  <1>2. PollInv /\ TimeInv /\ TakenOnce /\ FirstRecordIsWhole
    BY QinfoAssumption DEF Init, PollInv, TimeInv, TakenOnce, FirstRecordIsWhole, NoRecord
  <1> QED BY <1>1, <1>2 DEF IInv

-----------------------------------------------------------------------------
(* A report leaves the mailbox alone, and writes a time with its extreme. *)
LEMMA SampleIInv ==
  ASSUME IInv, NEW queue_info \in QueueInfos, NEW newSecond \in BOOLEAN,
         Sample(queue_info, newSecond)
  PROVE  IInv'
  <1>1. TypeOK'
    <2>1. qinfo_min_value' \in Qinfos /\ qinfo_max_value' \in Qinfos
      BY MaskedType DEF IInv, TypeOK, Sample
    <2>2. minLater' \in BOOLEAN
      BY DEF Sample
    <2>3. ctime_buf' \in [{"min", "max"} -> Nat]
      BY DEF IInv, TypeOK, Sample
    <2>4. /\ perf_buffer_poll_start' \in BOOLEAN
          /\ UNCHANGED <<poll, mailboxVars, at, op, errno, localVars, connVars>>
      BY DEF Sample
    <2> QED BY <2>1, <2>2, <2>3, <2>4 DEF IInv, TypeOK, mailboxVars, localVars, connVars
  <1>2. PollInv' /\ TakenOnce' /\ FirstRecordIsWhole'
    BY DEF IInv, PollInv, TakenOnce, FirstRecordIsWhole, Sample, mailboxVars, localVars
  <1>3. TimeInv'
    BY DEF IInv, TypeOK, TimeInv, Sample, mailboxVars
  <1> QED BY <1>1, <1>2, <1>3 DEF IInv

(* A poll puts a record in the mailbox that is newer than all before. *)
LEMMA PublishIInv ==
  ASSUME IInv, Publish
  PROVE  IInv'
  <1> DEFINE first == IF /\ qinfo_min_value # QINFO_START_MIN_VALUE
                         /\ qinfo_max_value = 0 \/ ~ minLater
                      THEN "min" ELSE "max"
  <1>1. /\ sHpnRetMsg' = [poll |-> poll, time |-> ctime_buf[first],
                          real |-> (first = "min" \/ qinfo_max_value # 0)]
        /\ \/ UNCHANGED sHpnRetMsg2
           \/ sHpnRetMsg2' = [poll |-> poll, pts |-> IF first = "min" THEN "max" ELSE "min"]
    BY DEF Publish, Put
  <1>2. /\ hpnretcdone' = TRUE
        /\ poll' = poll + 1
        /\ perf_buffer_poll_start' = TRUE
        /\ qinfo_min_value' = QINFO_START_MIN_VALUE
        /\ qinfo_max_value' = 0
        /\ minLater' = FALSE
        /\ UNCHANGED <<ctime_buf, op, errno, localVars, connVars>>
    BY DEF Publish
  <1>3. at' \in [Clients -> Points]
    BY DEF IInv, TypeOK, Publish, Signal, Sleepers, Points
  <1>4. /\ first \in {"min", "max"}
        /\ first = "min" => qinfo_min_value # QINFO_START_MIN_VALUE
    OBVIOUS
  <1> HIDE DEF first
  <1>5. sHpnRetMsg' \in Records
    BY <1>1, <1>4 DEF IInv, TypeOK, Records
  <1>6. sHpnRetMsg2' \in [poll : Nat, pts : {"null", "min", "max"}]
    BY <1>1 DEF IInv, TypeOK
  <1>7. TypeOK'
    <2>1. QINFO_START_MIN_VALUE \in Qinfos /\ 0 \in Qinfos
      BY QinfoAssumption DEF Qinfos
    <2>2. poll + 1 \in Nat
      BY DEF IInv, TypeOK
    <2> QED BY <1>2, <1>3, <1>5, <1>6, <2>1, <2>2 DEF IInv, TypeOK, localVars, connVars
  <1>8. PollInv'
    BY <1>1, <1>2 DEF IInv, TypeOK, Records, PollInv, localVars
  <1>9. TakenOnce'
    BY <1>1, <1>2 DEF IInv, TypeOK, Records, PollInv, TakenOnce, localVars
  <1>10. TimeInv'
    BY <1>1, <1>2, <1>4 DEF IInv, TimeInv
  <1>11. FirstRecordIsWhole'
    BY <1>2 DEF IInv, FirstRecordIsWhole, localVars
  <1> QED BY <1>7, <1>8, <1>9, <1>10, <1>11 DEF IInv

(* A client takes the records, after which the mailbox offers none. *)
LEMMA TakeIInv ==
  ASSUME IInv, NEW c \in Clients, Take(c)
  PROVE  IInv'
  <1>1. TypeOK'
    <2>1. /\ sRetMsg' \in [Clients -> Records]
          /\ two' \in [Clients -> BOOLEAN]
          /\ sHpnRetMsg2' \in [poll : Nat, pts : {"null", "min", "max"}]
          /\ hpnretcdone' \in BOOLEAN
          /\ at' \in [Clients -> Points]
      BY DEF IInv, TypeOK, Take, Points
    <2>2. sRetMsg2' \in [Clients -> Records]
      BY DEF IInv, TypeOK, Take, Records
    <2> QED BY <2>1, <2>2 DEF IInv, TypeOK, Take, writerVars, connVars
  <1>2. PollInv'
    BY DEF IInv, TypeOK, Records, PollInv, Take, writerVars
  <1>3. TakenOnce'
    BY DEF IInv, TypeOK, TakenOnce, Take
  <1>4. TimeInv'
    BY DEF IInv, TimeInv, Take, writerVars
  <1>5. FirstRecordIsWhole'
    BY DEF IInv, TypeOK, TimeInv, FirstRecordIsWhole, Take
  <1> QED BY <1>1, <1>2, <1>3, <1>4, <1>5 DEF IInv

(* The other steps touch neither the mailbox nor the records taken. *)
LEMMA OtherIInv ==
  ASSUME IInv, TypeOK',
         UNCHANGED <<writerVars, mailboxVars, sRetMsg, sRetMsg2>>
  PROVE  IInv'
  BY DEF IInv, PollInv, TimeInv, TakenOnce, FirstRecordIsWhole, writerVars, mailboxVars

(* They also keep the types. *)
LEMMA OtherType ==
  ASSUME TypeOK, NEW c \in Clients, Step(c) \/ Environment(c), ~ Take(c)
  PROVE  TypeOK' /\ UNCHANGED <<writerVars, mailboxVars, sRetMsg, sRetMsg2>>
  <1> USE DEF TypeOK, Points, Conns, writerVars, mailboxVars, localVars, connVars
  <1>1. CASE ReadRequest(c)
    BY <1>1, HandlerType DEF ReadRequest
  <1>2. CASE ReadError(c)
    BY <1>2, HandlerType DEF ReadError
  <1>3. CASE EndOfInput(c)
    BY <1>3 DEF EndOfInput
  <1>4. CASE Wait(c) \/ Timeout(c) \/ SpuriousWake(c)
    BY <1>4 DEF Wait, Timeout, SpuriousWake
  <1>5. CASE Peek(c)
    BY <1>5 DEF Peek
  <1>6. CASE Send1(c)
    BY <1>6 DEF Send1, Written
  <1>7. CASE Send2(c)
    BY <1>7 DEF Send2, Written
  <1>8. CASE Shutdown(c)
    BY <1>8 DEF Shutdown
  <1>9. CASE Connect(c)
    BY <1>9 DEF Connect
  <1>10. CASE \E o \in Asks[c] : Request(c, o)
    <2>1. PICK o \in Ops : Request(c, o)
      BY <1>10, AsksAssumption
    <2> QED BY <2>1 DEF Request
  <1>11. CASE \E how \in Ends[c] : Hangup(c, how)
    <2>1. PICK how \in {"closed", "reset"} : Hangup(c, how)
      BY <1>11, EndsAssumption
    <2> QED BY <2>1 DEF Hangup
  <1> QED
    BY <1>1, <1>2, <1>3, <1>4, <1>5, <1>6, <1>7, <1>8, <1>9, <1>10, <1>11
    DEF Step, Environment

(* Every step keeps the inductive invariant. *)
LEMMA NextIInv == IInv /\ [Next]_vars => IInv'
  <1> SUFFICES ASSUME IInv, [Next]_vars PROVE IInv'
    OBVIOUS
  <1>1. CASE \E queue_info \in QueueInfos, newSecond \in BOOLEAN :
               Sample(queue_info, newSecond)
    BY <1>1, SampleIInv
  <1>2. CASE Publish
    BY <1>2, PublishIInv
  <1>3. CASE \E c \in Clients : Take(c)
    BY <1>3, TakeIInv
  <1>4. CASE \E c \in Clients : (Step(c) \/ Environment(c)) /\ ~ Take(c)
    BY <1>4, OtherType, OtherIInv DEF IInv
  <1>5. CASE UNCHANGED vars
    <2>1. TypeOK'
      BY <1>5 DEF IInv, TypeOK, vars, writerVars, mailboxVars, localVars, connVars
    <2> QED BY <1>5, <2>1, OtherIInv DEF vars, localVars
  <1> QED BY <1>1, <1>2, <1>3, <1>4, <1>5 DEF Next

-----------------------------------------------------------------------------
(* The types hold: occupancies stay in their width, and a thread is at one *)
(* of its points whatever its client does.                                 *)
THEOREM MailboxTypeCorrect == Spec => []TypeOK
  <1>1. IInv => TypeOK
    BY DEF IInv
  <1> QED BY <1>1, InitIInv, NextIInv, PTL DEF Spec

(* No record is taken twice, by one client or by two. *)
THEOREM RecordsTakenOnce == Spec => []TakenOnce
  <1>1. IInv => TakenOnce
    BY DEF IInv
  <1> QED BY <1>1, InitIInv, NextIInv, PTL DEF Spec

(* The first record has its own time, although polls go on unlocked. *)
THEOREM FirstRecordWhole == Spec => []FirstRecordIsWhole
  <1>1. IInv => FirstRecordIsWhole
    BY DEF IInv
  <1> QED BY <1>1, InitIInv, NextIInv, PTL DEF Spec

-----------------------------------------------------------------------------
(* A client that takes the record, wakes or goes on does not leave a       *)
(* record behind with clients that sleep.                                  *)
LEMMA NextWakeup ==
  ASSUME TypeOK, NoLostWakeup, [Next]_vars
  PROVE  NoLostWakeup'
  <1> USE DEF TypeOK, NoLostWakeup, Sleepers, mailboxVars
  <1>1. CASE \E queue_info \in QueueInfos, newSecond \in BOOLEAN :
               Sample(queue_info, newSecond)
    BY <1>1 DEF Sample
  <1>2. CASE Publish
    BY <1>2 DEF Publish, Signal
  <1>3. ASSUME NEW c \in Clients, Step(c) \/ Environment(c)
        PROVE  NoLostWakeup'
    <2>1. CASE Take(c)
      BY <2>1 DEF Take
    <2>2. CASE Wait(c)
      BY <2>2 DEF Wait
    <2>3. CASE Timeout(c) \/ SpuriousWake(c)
      BY <2>3 DEF Timeout, SpuriousWake
    <2>4. ASSUME at[c] # "test", UNCHANGED hpnretcdone,
                 \E p \in Points \ {"sleep"} : at' = [at EXCEPT ![c] = p]
          PROVE  NoLostWakeup'
      BY <2>4
    <2>5. CASE ReadRequest(c) \/ ReadError(c)
      <3>1. \E p \in Points \ {"sleep"} : at' = [at EXCEPT ![c] = p]
        BY <2>5, HandlerType DEF ReadRequest, ReadError, Points
      <3>2. at[c] # "test" /\ UNCHANGED hpnretcdone
        BY <2>5 DEF ReadRequest, ReadError
      <3> QED BY <3>1, <3>2, <2>4
    <2>6. CASE EndOfInput(c) \/ Shutdown(c) \/ Connect(c)
      <3>1. \E p \in Points \ {"sleep"} : at' = [at EXCEPT ![c] = p]
        BY <2>6 DEF EndOfInput, Shutdown, Connect, Points
      <3>2. at[c] # "test" /\ UNCHANGED hpnretcdone
        BY <2>6 DEF EndOfInput, Shutdown, Connect
      <3> QED BY <3>1, <3>2, <2>4
    <2>7. CASE Peek(c) \/ Send1(c) \/ Send2(c)
      <3>1. \E p \in Points \ {"sleep"} : at' = [at EXCEPT ![c] = p]
        BY <2>7 DEF Peek, Send1, Send2, Points
      <3>2. at[c] # "test" /\ UNCHANGED hpnretcdone
        BY <2>7 DEF Peek, Send1, Send2
      <3> QED BY <3>1, <3>2, <2>4
    <2>8. CASE \/ \E o \in Asks[c] : Request(c, o)
               \/ \E how \in Ends[c] : Hangup(c, how)
      <3>1. UNCHANGED <<at, hpnretcdone>>
        BY <2>8 DEF Request, Hangup
      <3> QED BY <3>1
    <2> QED
      BY <1>3, <2>1, <2>2, <2>3, <2>4, <2>5, <2>6, <2>7, <2>8 DEF Step, Environment
  <1>4. CASE UNCHANGED vars
    BY <1>4 DEF vars
  <1> QED BY <1>1, <1>2, <1>3, <1>4 DEF Next

(* One signal per poll is enough for any number of clients. *)
THEOREM NoWakeupLost == Spec => []NoLostWakeup
  <1>1. Init => NoLostWakeup
    BY DEF Init, NoLostWakeup
  <1> QED BY <1>1, NextWakeup, MailboxTypeCorrect, PTL DEF Spec

-----------------------------------------------------------------------------
(* The second record.  A poll that finds one record only leaves the second *)
(* of an earlier poll in place, and its time is read through a pointer     *)
(* into a buffer that the polls write on.                                  *)

(* What the second record in the mailbox points to is not older than it,   *)
(* and it is not newer than the first.                                     *)
PointerInv ==
  /\ ctime_buf["min"] <= poll /\ ctime_buf["max"] <= poll
  /\ sHpnRetMsg2.poll <= sHpnRetMsg.poll
  /\ sHpnRetMsg2.pts # "null" => /\ 0 < sHpnRetMsg2.poll
                                 /\ sHpnRetMsg2.poll <= ctime_buf[sHpnRetMsg2.pts]

(* A second record that a client has and may send. *)
IsSound(second, first) ==
  /\ second.real
  /\ 0 < second.poll /\ second.poll <= first.poll
  /\ second.poll <= second.time /\ second.time <= poll

(* What READ and READALL send as the second record was put there by a      *)
(* poll, never a blank; it is not newer than the first record taken with   *)
(* it; and its time may be that of a later report, but is never older than *)
(* its own.                                                                *)
SecondRecordIsSound ==
  \A c \in Clients : /\ at[c] = "send2" => two[c]
                     /\ two[c] => IsSound(sRetMsg2[c], sRetMsg[c])

(* A report writes the number of its poll, which is the latest. *)
LEMMA SamplePointer ==
  ASSUME IInv, PointerInv, NEW queue_info \in QueueInfos, NEW newSecond \in BOOLEAN,
         Sample(queue_info, newSecond)
  PROVE  PointerInv'
  <1>1. UNCHANGED <<poll, sHpnRetMsg, sHpnRetMsg2>>
    BY DEF Sample, mailboxVars
  <1>2. /\ poll \in Nat
        /\ ctime_buf["min"] \in Nat /\ ctime_buf["max"] \in Nat
        /\ sHpnRetMsg2.poll \in Nat /\ sHpnRetMsg2.pts \in {"null", "min", "max"}
    BY DEF IInv, TypeOK
  <1>3. /\ ctime_buf'["min"] \in {poll, ctime_buf["min"]}
        /\ ctime_buf'["max"] \in {poll, ctime_buf["max"]}
    BY DEF Sample
  <1>4. sHpnRetMsg2.poll < poll
    BY DEF IInv, PollInv
  <1> QED BY <1>1, <1>2, <1>3, <1>4 DEF PointerInv

(* A second record is put only if both extremes were set in this poll, so  *)
(* that both buffers have its time.                                        *)
LEMMA PublishPointer ==
  ASSUME IInv, PointerInv, Publish
  PROVE  PointerInv'
  <1>1. /\ sHpnRetMsg'.poll = poll
        /\ poll' = poll + 1
        /\ UNCHANGED ctime_buf
    BY DEF Publish, Put
  <1>2. \/ UNCHANGED sHpnRetMsg2
        \/ /\ ctime_buf["min"] = poll /\ ctime_buf["max"] = poll
           /\ sHpnRetMsg2'.poll = poll
           /\ sHpnRetMsg2'.pts \in {"min", "max"}
    BY DEF Publish, Put, IInv, TimeInv
  <1>3. /\ poll \in Nat
        /\ ctime_buf["min"] \in Nat /\ ctime_buf["max"] \in Nat
        /\ sHpnRetMsg2.poll \in Nat /\ sHpnRetMsg.poll \in Nat
        /\ sHpnRetMsg2.poll < poll /\ sHpnRetMsg.poll < poll
    BY DEF IInv, TypeOK, PollInv, Records
  <1> QED BY <1>1, <1>2, <1>3 DEF PointerInv

(* A client that takes the second record reads a time that is not older. *)
LEMMA TakeSound ==
  ASSUME IInv, PointerInv, SecondRecordIsSound, NEW c \in Clients, Take(c)
  PROVE  PointerInv' /\ SecondRecordIsSound'
  <1>1. UNCHANGED <<poll, ctime_buf, sHpnRetMsg>>
    BY DEF Take, writerVars
  <1>2. /\ sHpnRetMsg2'.poll = sHpnRetMsg2.poll
        /\ sHpnRetMsg2'.pts = "null"
    BY DEF Take, IInv, TypeOK
  <1>3. PointerInv'
    BY <1>1, <1>2 DEF PointerInv
  <1>4. ASSUME NEW d \in Clients
        PROVE  /\ at'[d] = "send2" => two'[d]
               /\ two'[d] => IsSound(sRetMsg2[d], sRetMsg[d])'
    <2>1. CASE d # c
      <3>1. /\ at'[d] = at[d] /\ two'[d] = two[d]
            /\ sRetMsg'[d] = sRetMsg[d] /\ sRetMsg2'[d] = sRetMsg2[d]
        BY <2>1 DEF Take, IInv, TypeOK
      <3> QED BY <1>1, <3>1 DEF SecondRecordIsSound, IsSound
    <2>2. CASE d = c
      <3>1. /\ two'[c] = (sHpnRetMsg2.pts # "null")
            /\ at'[c] = "send2" => sHpnRetMsg2.pts # "null"
            /\ sRetMsg'[c] = sHpnRetMsg
        BY DEF Take, IInv, TypeOK
      <3>2. CASE sHpnRetMsg2.pts = "null"
        BY <2>2, <3>1, <3>2
      <3>3. CASE sHpnRetMsg2.pts # "null"
        <4>1. sRetMsg2'[c] = [poll |-> sHpnRetMsg2.poll,
                              time |-> ctime_buf[sHpnRetMsg2.pts], real |-> TRUE]
          BY <3>3 DEF Take, IInv, TypeOK
        <4>2. sHpnRetMsg2.pts \in {"min", "max"}
          BY <3>3 DEF IInv, TypeOK
        <4>3. ctime_buf[sHpnRetMsg2.pts] <= poll
          BY <4>2 DEF PointerInv
        <4>4. IsSound(sRetMsg2[c], sRetMsg[c])'
          BY <1>1, <3>1, <3>3, <4>1, <4>3 DEF IsSound, PointerInv
        <4> QED BY <2>2, <3>1, <3>3, <4>4
      <3> QED BY <3>2, <3>3
    <2> QED BY <2>1, <2>2
  <1> QED BY <1>3, <1>4 DEF SecondRecordIsSound

(* The poll moves on, and no client is sent to its second record. *)
LEMMA PollSound ==
  ASSUME IInv, SecondRecordIsSound, poll' \in {poll, poll + 1},
         UNCHANGED <<sRetMsg, sRetMsg2, two>>,
         \A c \in Clients : at'[c] = "send2" => at[c] = "send2"
  PROVE  SecondRecordIsSound'
  <1> SUFFICES ASSUME NEW c \in Clients
               PROVE  /\ at'[c] = "send2" => two'[c]
                      /\ two'[c] => IsSound(sRetMsg2[c], sRetMsg[c])'
    BY DEF SecondRecordIsSound
  <1>1. at'[c] = "send2" => two'[c]
    BY DEF SecondRecordIsSound
  <1>2. two'[c] => IsSound(sRetMsg2[c], sRetMsg[c])'
    <2>1. poll \in Nat /\ sRetMsg2[c].time \in Nat
      BY DEF IInv, TypeOK, Records
    <2> QED BY <2>1 DEF SecondRecordIsSound, IsSound
  <1> QED BY <1>1, <1>2

(* The other steps of a client go to the second record only if it was      *)
(* taken, and forget it once it was sent.                                  *)
LEMMA OtherSound ==
  ASSUME IInv, SecondRecordIsSound, NEW c \in Clients, Step(c) \/ Environment(c), ~ Take(c)
  PROVE  SecondRecordIsSound'
  <1>1. UNCHANGED <<poll, sRetMsg, sRetMsg2>>
    BY OtherType DEF IInv, writerVars
  <1>2. /\ \A d \in Clients \ {c} : at'[d] = at[d] /\ two'[d] = two[d]
        /\ at'[c] = "send2" => two'[c]
        /\ two'[c] => two[c]
    <2> USE DEF IInv, TypeOK, localVars
    <2>1. CASE ReadRequest(c) \/ ReadError(c)
      BY <2>1, HandlerType DEF ReadRequest, ReadError
    <2>2. CASE EndOfInput(c) \/ Wait(c) \/ Timeout(c) \/ SpuriousWake(c)
      BY <2>2 DEF EndOfInput, Wait, Timeout, SpuriousWake
    <2>3. CASE Peek(c) \/ Shutdown(c) \/ Connect(c)
      BY <2>3 DEF Peek, Shutdown, Connect
    <2>4. CASE Send1(c)
      BY <2>4 DEF Send1
    <2>5. CASE Send2(c)
      BY <2>5 DEF Send2
    <2>6. CASE \/ \E o \in Asks[c] : Request(c, o)
               \/ \E how \in Ends[c] : Hangup(c, how)
      BY <2>6 DEF Request, Hangup, SecondRecordIsSound
    <2> QED BY <2>1, <2>2, <2>3, <2>4, <2>5, <2>6 DEF Step, Environment
  <1> QED BY <1>1, <1>2 DEF SecondRecordIsSound, IsSound

(* Every step keeps both. *)
LEMMA NextSound ==
  ASSUME IInv, PointerInv, SecondRecordIsSound, [Next]_vars
  PROVE  PointerInv' /\ SecondRecordIsSound'
  <1>1. ASSUME NEW queue_info \in QueueInfos, NEW newSecond \in BOOLEAN,
               Sample(queue_info, newSecond)
        PROVE  PointerInv' /\ SecondRecordIsSound'
    <2>1. UNCHANGED <<poll, sRetMsg, sRetMsg2, two, at>>
      BY <1>1 DEF Sample, localVars
    <2> QED BY <1>1, <2>1, SamplePointer, PollSound
  <1>2. CASE Publish
    <2>1. poll' = poll + 1 /\ UNCHANGED <<sRetMsg, sRetMsg2, two>>
      BY <1>2 DEF Publish, localVars
    <2>2. \A c \in Clients : at'[c] = "send2" => at[c] = "send2"
      BY <1>2 DEF Publish, Signal, Sleepers, IInv, TypeOK
    <2> QED BY <1>2, <2>1, <2>2, PublishPointer, PollSound
  <1>3. CASE \E c \in Clients : Take(c)
    BY <1>3, TakeSound
  <1>4. CASE \E c \in Clients : (Step(c) \/ Environment(c)) /\ ~ Take(c)
    <2>1. UNCHANGED <<writerVars, mailboxVars>>
      BY <1>4, OtherType DEF IInv
    <2>2. PointerInv'
      BY <2>1 DEF PointerInv, writerVars, mailboxVars
    <2> QED BY <1>4, <2>2, OtherSound
  <1>5. CASE UNCHANGED vars
    BY <1>5 DEF vars, writerVars, mailboxVars, localVars, PointerInv, SecondRecordIsSound,
                IsSound
  <1> QED BY <1>1, <1>2, <1>3, <1>4, <1>5 DEF Next

(* The second record of fDoHpnRead and fDoHpnReadAll is a record, although *)
(* its pointer outlives its poll.                                          *)
THEOREM SecondRecordSound == Spec => []SecondRecordIsSound
  <1>1. Init => PointerInv /\ SecondRecordIsSound
    BY DEF Init, PointerInv, SecondRecordIsSound, NoRecord
  <1> QED BY <1>1, InitIInv, NextIInv, NextSound, PTL DEF Spec

=============================================================================
