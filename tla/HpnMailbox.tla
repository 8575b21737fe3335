----------------------------- MODULE HpnMailbox -----------------------------
(***************************************************************************)
(* The mailbox for HPN-SSH clients in userspace/user_dtn.c.  After each    *)
(* poll of the perf buffer, fDoRunBpfCollectionPerfEventArray2 puts the    *)
(* reports with the least and the greatest queue occupancy in sHpnRetMsg   *)
(* and sHpnRetMsg2, sets hpnretcdone and signals hpn_ret_cond.  Each       *)
(* client has a connection and a thread, doProcessHpnClientReq, that takes *)
(* what is there on READ, and again and again on READALL.                  *)
(*                                                                         *)
(* Every section under hpn_ret_mutex is one step: they share only what     *)
(* the mutex protects, except for the time of the second record, which is  *)
(* a pointer to a buffer that the poll writes without the mutex.  A record *)
(* is represented by the number of its poll.                               *)
(***************************************************************************)
EXTENDS Naturals

CONSTANTS
  Clients,               \* connections, each made once
  Asks,                  \* the requests that each client may send
  Ends,                  \* how its connection may end, "closed" or "reset"
  QINFO_START_MIN_VALUE, \* 0xFFFFFF, the greatest occupancy a report can show
  MaxPolls               \* bound: the polls with reports

Ops == {"READ", "READALL", "SHUTDOWN", "START", "other"}

ASSUME AsksAssumption == Asks \in [Clients -> SUBSET Ops]
ASSUME EndsAssumption == Ends \in [Clients -> SUBSET {"closed", "reset"}]
ASSUME QinfoAssumption == QINFO_START_MIN_VALUE \in Nat \ {0}
ASSUME PollsAssumption == MaxPolls \in Nat \ {0}

VARIABLES
  \* the perf event loop
  poll,                   \* number of the poll under way
  perf_buffer_poll_start, \* no report in this poll yet
  qinfo_min_value, qinfo_max_value,
  minLater,               \* qinfo_clk_min > qinfo_clk_max
  ctime_buf,              \* the polls of qinfo_ms_ctime_buf_min and _max
  \* the mailbox
  sHpnRetMsg, sHpnRetMsg2, hpnretcdone,
  \* the thread of a client
  at, op, errno, sRetMsg, sRetMsg2, two,
  \* its connection
  request, conn, writeShut

writerVars  == <<poll, perf_buffer_poll_start, qinfo_min_value, qinfo_max_value,
                 minLater, ctime_buf>>
mailboxVars == <<sHpnRetMsg, sHpnRetMsg2, hpnretcdone>>
localVars   == <<sRetMsg, sRetMsg2, two>>
connVars    == <<request, conn, writeShut>>
vars == <<writerVars, mailboxVars, at, op, errno, localVars, connVars>>

Qinfos == 0 .. QINFO_START_MIN_VALUE
QueueInfos == 0 .. (2 * QINFO_START_MIN_VALUE + 1) \* with one more bit
Points == {"none", "idle", "test", "sleep", "peek", "send1", "send2", "shut", "gone"}

(* conn: "closed" after a FIN of the client; "reset" after its RST, with   *)
(* the error yet to be reported; "dead" once it was.                       *)
Conns == {"none", "open", "closed", "reset", "dead"}

(* A record that was copied: its poll, the poll of its time, and whether   *)
(* its occupancy is that of a report.                                      *)
Records  == [poll : Nat, time : Nat, real : BOOLEAN]
NoRecord == [poll |-> 0, time |-> 0, real |-> FALSE]

TypeOK ==
  /\ poll \in Nat
  /\ perf_buffer_poll_start \in BOOLEAN
  /\ qinfo_min_value \in Qinfos
  /\ qinfo_max_value \in Qinfos
  /\ minLater \in BOOLEAN
  /\ ctime_buf \in [{"min", "max"} -> Nat]
  /\ sHpnRetMsg \in Records
  /\ sHpnRetMsg2 \in [poll : Nat, pts : {"null", "min", "max"}]
  /\ hpnretcdone \in BOOLEAN
  /\ at \in [Clients -> Points]
  /\ op \in [Clients -> Ops \cup {"none"}]
  /\ errno \in [Clients -> BOOLEAN]
  /\ sRetMsg \in [Clients -> Records]
  /\ sRetMsg2 \in [Clients -> Records]
  /\ two \in [Clients -> BOOLEAN]
  /\ request \in [Clients -> Ops \cup {"none"}]
  /\ conn \in [Clients -> Conns]
  /\ writeShut \in [Clients -> BOOLEAN]

(* errno: whether it is different from zero.  It is zero in a new thread,  *)
(* and library calls before the first request may set it.                  *)
Init ==
  /\ poll = 1
  /\ perf_buffer_poll_start = TRUE
  /\ qinfo_min_value = QINFO_START_MIN_VALUE
  /\ qinfo_max_value = 0
  /\ minLater = FALSE
  /\ ctime_buf = [e \in {"min", "max"} |-> 0]
  /\ sHpnRetMsg = NoRecord
  /\ sHpnRetMsg2 = [poll |-> 0, pts |-> "null"]
  /\ hpnretcdone = FALSE
  /\ at = [c \in Clients |-> "none"]
  /\ op = [c \in Clients |-> "none"]
  /\ errno \in [Clients -> BOOLEAN]
  /\ sRetMsg = [c \in Clients |-> NoRecord]
  /\ sRetMsg2 = [c \in Clients |-> NoRecord]
  /\ two = [c \in Clients |-> FALSE]
  /\ request = [c \in Clients |-> "none"]
  /\ conn = [c \in Clients |-> "none"]
  /\ writeShut = [c \in Clients |-> FALSE]

-----------------------------------------------------------------------------
(* The perf event loop. *)

\* Mutant: the mask is forgotten.
Unmasked(queue_info) == queue_info

\* queue_info & 0xffffff: the upper bits mean something else.
Masked(queue_info) == queue_info % (QINFO_START_MIN_VALUE + 1)

\* A hop of a report in sample_func.  The first of a poll counts for the
\* minimum only.  newSecond: the clock has moved on since the maximum.
Sample(queue_info, newSecond) ==
  LET Qinfo  == Masked(queue_info)
      lower  == Qinfo < qinfo_min_value
      higher == Qinfo > qinfo_max_value /\ ~ perf_buffer_poll_start
  IN
  /\ poll <= MaxPolls
  /\ qinfo_min_value' = IF lower THEN Qinfo ELSE qinfo_min_value
  /\ qinfo_max_value' = IF higher THEN Qinfo ELSE qinfo_max_value
  /\ minLater' = /\ ~ higher
                 /\ qinfo_max_value # 0
                 /\ minLater \/ (lower /\ newSecond)
  /\ ctime_buf' = [min |-> IF lower THEN poll ELSE ctime_buf["min"],
                   max |-> IF higher THEN poll ELSE ctime_buf["max"]]
  /\ perf_buffer_poll_start' = FALSE
  /\ UNCHANGED <<poll, mailboxVars, at, op, errno, localVars, connVars>>

Sleepers == {c \in Clients : at[c] = "sleep"}

\* Mutant: the signal is forgotten.
NoSignal == UNCHANGED at

\* pthread_cond_signal(&hpn_ret_cond) wakes one client, if any waits.
Signal ==
  IF Sleepers = {} THEN UNCHANGED at
  ELSE \E c \in Sleepers : at' = [at EXCEPT ![c] = "test"]

\* What the poll found is put in the mailbox, over what is there.  With one
\* record only, sHpnRetMsg2 stays as it is.
Put(first, time, real) ==
  /\ sHpnRetMsg' = [poll |-> poll, time |-> time, real |-> real]
  /\ sHpnRetMsg2' =
       IF qinfo_min_value # QINFO_START_MIN_VALUE /\ qinfo_max_value # 0
       THEN [poll |-> poll, pts |-> IF first = "min" THEN "max" ELSE "min"]
       ELSE sHpnRetMsg2

\* The end of a poll with reports, and the start of the next one.
Publish ==
  LET first == IF /\ qinfo_min_value # QINFO_START_MIN_VALUE
                  /\ qinfo_max_value = 0 \/ ~ minLater
               THEN "min" ELSE "max"
  IN
  /\ ~ perf_buffer_poll_start
  /\ Put(first, ctime_buf[first], first = "min" \/ qinfo_max_value # 0)
  /\ hpnretcdone' = TRUE
  /\ Signal
  /\ poll' = poll + 1
  /\ perf_buffer_poll_start' = TRUE
  /\ qinfo_min_value' = QINFO_START_MIN_VALUE
  /\ qinfo_max_value' = 0
  /\ minLater' = FALSE
  /\ UNCHANGED <<ctime_buf, op, errno, localVars, connVars>>

-----------------------------------------------------------------------------
(* The clients. *)

Connect(c) ==
  /\ at[c] = "none"
  /\ at' = [at EXCEPT ![c] = "idle"]
  /\ conn' = [conn EXCEPT ![c] = "open"]
  /\ UNCHANGED <<writerVars, mailboxVars, op, errno, localVars, request, writeShut>>

Request(c, o) ==
  /\ conn[c] = "open"
  /\ request[c] = "none"
  /\ request' = [request EXCEPT ![c] = o]
  /\ UNCHANGED <<writerVars, mailboxVars, at, op, errno, localVars, conn, writeShut>>

\* The client closes its end, or the connection breaks.
Hangup(c, how) ==
  /\ conn[c] = "open"
  /\ conn' = [conn EXCEPT ![c] = how]
  /\ UNCHANGED <<writerVars, mailboxVars, at, op, errno, localVars, request, writeShut>>

-----------------------------------------------------------------------------
(* doProcessHpnClientReq and fDoHpnAssessment. *)

Handler(o) ==
  CASE o \in {"READ", "READALL"} -> "test"
    [] o = "SHUTDOWN"            -> "shut"
    [] o = "START"               -> "send1"
    [] OTHER                     -> "idle"

ReadRequest(c) ==
  /\ at[c] = "idle"
  /\ request[c] # "none"
  /\ op' = [op EXCEPT ![c] = request[c]]
  /\ at' = [at EXCEPT ![c] = Handler(request[c])]
  /\ request' = [request EXCEPT ![c] = "none"]
  /\ UNCHANGED <<writerVars, mailboxVars, errno, localVars, conn, writeShut>>

\* Readn returns -1, which is not zero: the thread goes on with what is in
\* from_cli, the request before or nothing defined.
ReadError(c) ==
  /\ at[c] = "idle"
  /\ request[c] = "none"
  /\ conn[c] = "reset"
  /\ conn' = [conn EXCEPT ![c] = "dead"]
  /\ errno' = [errno EXCEPT ![c] = TRUE]
  /\ \E o \in IF op[c] = "none" THEN Ops ELSE {op[c]} :
        /\ op' = [op EXCEPT ![c] = o]
        /\ at' = [at EXCEPT ![c] = Handler(o)]
  /\ UNCHANGED <<writerVars, mailboxVars, localVars, request, writeShut>>

\* Readn returns 0.
EndOfInput(c) ==
  /\ at[c] = "idle"
  /\ request[c] = "none"
  /\ conn[c] \in {"closed", "dead"}
  /\ at' = [at EXCEPT ![c] = "gone"]
  /\ UNCHANGED <<writerVars, mailboxVars, op, errno, localVars, connVars>>

-----------------------------------------------------------------------------
(* fDoHpnRead and fDoHpnReadAll. *)

\* Mutants: the first time, too, is read through a pointer, as it used to
\* be; and the flag is not cleared.
TakeByPointer(c) ==
  /\ at[c] = "test"
  /\ hpnretcdone
  /\ sRetMsg' = [sRetMsg EXCEPT ![c] = [sHpnRetMsg EXCEPT !.time = ctime_buf["min"]]]
  /\ two' = [two EXCEPT ![c] = sHpnRetMsg2.pts # "null"]
  /\ UNCHANGED sRetMsg2
  /\ sHpnRetMsg2' = [sHpnRetMsg2 EXCEPT !.pts = "null"]
  /\ hpnretcdone' = FALSE
  /\ at' = [at EXCEPT ![c] = "send1"]
  /\ UNCHANGED <<writerVars, sHpnRetMsg, op, errno, connVars>>

TakeAndLeave(c) ==
  /\ at[c] = "test"
  /\ hpnretcdone
  /\ sRetMsg' = [sRetMsg EXCEPT ![c] = sHpnRetMsg]
  /\ two' = [two EXCEPT ![c] = FALSE]
  /\ at' = [at EXCEPT ![c] = "send1"]
  /\ UNCHANGED <<writerVars, mailboxVars, sRetMsg2, op, errno, connVars>>

\* The mailbox is full: both records are copied.  READ sends the second one
\* only, if there are two.
Take(c) ==
  LET pts == sHpnRetMsg2.pts IN
  /\ at[c] = "test"
  /\ hpnretcdone
  /\ sRetMsg' = [sRetMsg EXCEPT ![c] = sHpnRetMsg]
  /\ two' = [two EXCEPT ![c] = pts # "null"]
  /\ sRetMsg2' = IF pts = "null" THEN sRetMsg2
                 ELSE [sRetMsg2 EXCEPT ![c] = [poll |-> sHpnRetMsg2.poll,
                                               time |-> ctime_buf[pts],
                                               real |-> TRUE]]
  /\ sHpnRetMsg2' = [sHpnRetMsg2 EXCEPT !.pts = "null"]
  /\ hpnretcdone' = FALSE
  /\ at' = [at EXCEPT ![c] = IF op[c] = "READ" /\ pts # "null" THEN "send2" ELSE "send1"]
  /\ UNCHANGED <<writerVars, sHpnRetMsg, op, errno, connVars>>

\* Mutant: the flag is not tested before the wait.
WaitFirst(c) ==
  /\ at[c] = "test"
  /\ at' = [at EXCEPT ![c] = "sleep"]
  /\ UNCHANGED <<writerVars, mailboxVars, op, errno, localVars, connVars>>

\* pthread_cond_timedwait.
Wait(c) ==
  /\ at[c] = "test"
  /\ ~ hpnretcdone
  /\ at' = [at EXCEPT ![c] = "sleep"]
  /\ UNCHANGED <<writerVars, mailboxVars, op, errno, localVars, connVars>>

\* The wait ends after five seconds, or without a reason.
Timeout(c) ==
  /\ at[c] = "sleep"
  /\ at' = [at EXCEPT ![c] = "peek"]
  /\ UNCHANGED <<writerVars, mailboxVars, op, errno, localVars, connVars>>

SpuriousWake(c) ==
  /\ at[c] = "sleep"
  /\ at' = [at EXCEPT ![c] = "test"]
  /\ UNCHANGED <<writerVars, mailboxVars, op, errno, localVars, connVars>>

\* Mutant: the end of the connection is not looked for.
PeekAtData(c) ==
  /\ at[c] = "peek"
  /\ at' = [at EXCEPT ![c] = "test"]
  /\ UNCHANGED <<writerVars, mailboxVars, op, errno, localVars, connVars>>

\* After a timeout, recv with MSG_PEEK: 1 if a request waits; -1, with errno,
\* if none does or the connection is reset; 0, and errno as before, at the
\* end of the input.  "Closed" is taken to be errno # 0 and 0.
Peek(c) ==
  LET empty == request[c] = "none"
      ended == empty /\ conn[c] \in {"closed", "dead"}
  IN
  /\ at[c] = "peek"
  /\ at' = [at EXCEPT ![c] = IF ended /\ errno[c] THEN "idle" ELSE "test"]
  /\ errno' = [errno EXCEPT ![c] = errno[c] \/ (empty /\ ~ ended)]
  /\ conn' = [conn EXCEPT ![c] = IF empty /\ @ = "reset" THEN "dead" ELSE @]
  /\ UNCHANGED <<writerVars, mailboxVars, op, localVars, request, writeShut>>

\* Writen.  After a FIN of the client the data is answered by an RST.  On a
\* reset connection the error is not EPIPE, and Writen returns 0.
Written(c, ok) ==
  /\ \/ conn[c] = "open" /\ ~ writeShut[c] /\ ok /\ UNCHANGED conn
     \/ /\ conn[c] = "closed" /\ ~ writeShut[c] /\ ok
        /\ \E after \in {"closed", "dead"} : conn' = [conn EXCEPT ![c] = after]
     \/ conn[c] = "reset" /\ ok /\ conn' = [conn EXCEPT ![c] = "dead"]
     \/ /\ conn[c] = "dead" \/ (conn[c] # "reset" /\ writeShut[c])
        /\ ~ ok
        /\ UNCHANGED conn
  /\ errno' = [errno EXCEPT ![c] = @ \/ ~ ok \/ conn[c] = "reset"]

\* str_cli(sockfd, &sRetMsg), in fDoHpnStart, too.
Send1(c) ==
  /\ at[c] = "send1"
  /\ \E ok \in BOOLEAN :
        /\ Written(c, ok)
        /\ at' = [at EXCEPT ![c] = IF ~ ok \/ op[c] # "READALL" THEN "idle"
                                   ELSE IF two[c] THEN "send2" ELSE "test"]
  /\ UNCHANGED <<writerVars, mailboxVars, op, localVars, request, writeShut>>

\* str_cli(sockfd, &sRetMsg2).
Send2(c) ==
  /\ at[c] = "send2"
  /\ \E ok \in BOOLEAN :
        /\ Written(c, ok)
        /\ at' = [at EXCEPT ![c] = IF ok /\ op[c] = "READALL" THEN "test" ELSE "idle"]
  /\ two' = [two EXCEPT ![c] = FALSE]
  /\ UNCHANGED <<writerVars, mailboxVars, op, sRetMsg, sRetMsg2, request, writeShut>>

\* fDoHpnShutdown: the write side is shut, and read_sock waits for the client
\* to close, 300 ms at most.
Shutdown(c) ==
  /\ at[c] = "shut"
  /\ writeShut' = [writeShut EXCEPT ![c] = @ \/ conn[c] \in {"open", "closed"}]
  /\ at' = [at EXCEPT ![c] = "idle"]
  /\ UNCHANGED <<writerVars, mailboxVars, op, errno, localVars, request, conn>>

-----------------------------------------------------------------------------
Step(c) ==
  \/ ReadRequest(c)
  \/ ReadError(c)
  \/ EndOfInput(c)
  \/ Take(c)
  \/ Wait(c)
  \/ Timeout(c)
  \/ Peek(c)
  \/ Send1(c)
  \/ Send2(c)
  \/ Shutdown(c)

Environment(c) ==
  \/ Connect(c)
  \/ \E o \in Asks[c] : Request(c, o)
  \/ \E how \in Ends[c] : Hangup(c, how)
  \/ SpuriousWake(c)

Next ==
  \/ \E queue_info \in QueueInfos, newSecond \in BOOLEAN : Sample(queue_info, newSecond)
  \/ Publish
  \/ \E c \in Clients : Step(c) \/ Environment(c)

Spec == Init /\ [][Next]_vars

(***************************************************************************)
(* The thread of each client runs on.  The deadline of its waits is        *)
(* computed once, before the loop, so that wakes without a record do not   *)
(* put it off: strong fairness of Timeout.  Reports and clients come and   *)
(* go as they like.                                                        *)
(***************************************************************************)
Fairness == \A c \in Clients : WF_vars(Step(c)) /\ SF_vars(Timeout(c))

FairSpec == Spec /\ Fairness

-----------------------------------------------------------------------------
(* One signal per poll is enough, although several clients wait and any    *)
(* of them, also one that has not waited, may take the record: while there *)
(* is a record and a client waits, another is on its way to take it.       *)
NoLostWakeup ==
  hpnretcdone /\ Sleepers # {} => \E c \in Clients : at[c] = "test"

(* What can be taken from the mailbox has not been taken before by any     *)
(* client: neither the record that hpnretcdone announces, nor the second   *)
(* one, whose pointer is not cleared by a poll that finds one record only. *)
TakenOnce ==
  /\ hpnretcdone => \A c \in Clients : sRetMsg[c].poll < sHpnRetMsg.poll
  /\ sHpnRetMsg2.pts # "null" =>
        \A c \in Clients : sRetMsg2[c].poll < sHpnRetMsg2.poll

(* The time of the first record is that of the report with its occupancy,  *)
(* although the next poll overwrites the buffer before a client takes the  *)
(* record.  Exempt is a poll whose only report shows the occupancy         *)
(* 0xFFFFFF, which is neither a new minimum nor counted for the maximum.   *)
FirstRecordIsWhole ==
  \A c \in Clients : sRetMsg[c].real => sRetMsg[c].time = sRetMsg[c].poll

(* No client waits forever beside a record: it, or another, takes it.      *)
RecordIsTaken ==
  \A c \in Clients :
     ~ <>[](hpnretcdone /\ at[c] \in {"test", "sleep", "peek"})

(* The thread of a client that has gone ends, whatever it was doing,       *)
(* unless its errno stays zero, so that the end of the connection is not   *)
(* recognised, or a request that is not read hides it.                     *)
ClosedIsNoticed ==
  \A c \in Clients :
     <>[](conn[c] \in {"closed", "reset", "dead"})
       => <>(at[c] = "gone") \/ <>[](~ errno[c] \/ request[c] # "none")

=============================================================================
