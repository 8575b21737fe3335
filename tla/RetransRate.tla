---------------------------- MODULE RetransRate ----------------------------
(***************************************************************************)
(* How doRunFindRetransmissionRate, in userspace/user_dtn.c, measures the  *)
(* retransmission rate that decides whether a QINFO message without a hop  *)
(* delay makes the source pace.  Over and over it reads the lines of       *)
(* /sys/fs/bpf/tcp4, one per connection, adds up the counters of those to  *)
(* the peer in the global aDest_Ip2_Binary, and keeps what was added since *)
(* the previous pass in a ring of NUM_RATES_TO_USE intervals.  The threads *)
(* that accept connections set aDest_Ip2_Binary to whoever connected last. *)
(* This is the mode without Kafka.                                         *)
(*                                                                         *)
(* vGlobalRetransmissionRate is represented by the sums it is computed     *)
(* from, vSomeIntRetranTran and vSomeIntPacketsTran, and their number.     *)
(***************************************************************************)
EXTENDS Naturals, Sequences

CONSTANTS
  NumConnections,    \* TCP connections there may be at once
  Peers,             \* the other ends: destination DTNs and HPN-SSH clients
  Nobody,            \* the empty address
  NUM_RATES_TO_USE,
  Word,              \* one more than the largest unsigned long
  Junk,              \* what the uninitialised arrays hold
  MaxEvents          \* bound: what may happen to the connections in a behaviour

ASSUME ConnectionAssumption == NumConnections \in Nat \ {0}
ASSUME PeerAssumption == Nobody \notin Peers
ASSUME RingAssumption == NUM_RATES_TO_USE \in Nat \ {0}
ASSUME BoundAssumption == MaxEvents \in Nat
ASSUME WordAssumption == Word \in Nat /\ MaxEvents < Word /\ Junk \in 0 .. Word - 1

VARIABLES
  tcp4,              \* the connections, with their counters
  aDest_Ip2_Binary,
  vIamASrcDtn,
  pass,              \* where the thread is, the next line, and what it added up
  previous,          \* int_total_retrans and int_packets_sent between passes
  ring,              \* aSaveIntRetrans and aSaveIntPackets
  vRateCount,
  fRateArrayDone,
  rate,              \* vGlobalRetransmissionRate
  events,            \* bound: counts up to MaxEvents
  totals,            \* history: the totals of the passes of the window
  calm               \* history: passes since a connection closed or the peer changed

ringVars == <<previous, ring, vRateCount, fRateArrayDone, rate>>
rateVars == <<tcp4, aDest_Ip2_Binary, vIamASrcDtn, pass, ringVars, events, totals, calm>>

Connections == 1 .. NumConnections   \* in the order of their lines
Slots == 0 .. NUM_RATES_TO_USE - 1
Counters == [retrans : Nat, packets : Nat]
Zero == [retrans |-> 0, packets |-> 0]
NoLine == [peer |-> Nobody, retrans |-> 0, packets |-> 0]

\* After this many undisturbed passes the ring holds nothing older.
Calm == NUM_RATES_TO_USE + 2

RateTypeOK ==
  /\ tcp4 \in [Connections -> [peer : Peers \cup {Nobody}, retrans : Nat, packets : Nat]]
  /\ aDest_Ip2_Binary \in Peers \cup {Nobody}
  /\ vIamASrcDtn \in BOOLEAN
  /\ pass \in [at : {"start", "line", "save", "ended"}, line : Nat, sum : Counters,
               found : BOOLEAN]
  /\ previous \in Counters
  /\ ring \in [Slots -> [retrans : 0 .. Word - 1, packets : 0 .. Word - 1]]
  /\ vRateCount \in 0 .. NUM_RATES_TO_USE
  /\ fRateArrayDone \in BOOLEAN
  /\ rate \in [retrans : 0 .. Word - 1, packets : 0 .. Word - 1, count : 1 .. NUM_RATES_TO_USE]
  /\ events \in 0 .. MaxEvents
  /\ totals \in Seq(Counters)
  /\ calm \in 0 .. Calm

RateInit ==
  /\ tcp4 = [c \in Connections |-> NoLine]
  /\ aDest_Ip2_Binary = Nobody
  /\ vIamASrcDtn = FALSE
  /\ pass = [at |-> "start", line |-> 1, sum |-> Zero, found |-> FALSE]
  /\ previous = Zero
  /\ ring = [x \in Slots |-> [retrans |-> Junk, packets |-> Junk]]
  /\ vRateCount = 0
  /\ fRateArrayDone = FALSE
  /\ rate = [retrans |-> 0, packets |-> 0, count |-> 1]
  /\ events = 0
  /\ totals = <<Zero>>
  /\ calm = Calm

-----------------------------------------------------------------------------
(* The connections and the threads that accept them. *)

Happens == events < MaxEvents /\ events' = events + 1

Open(c, p) ==
  /\ Happens
  /\ tcp4[c].peer = Nobody
  /\ tcp4' = [tcp4 EXCEPT ![c].peer = p]
  /\ UNCHANGED <<aDest_Ip2_Binary, vIamASrcDtn, pass, ringVars, totals, calm>>

\* A packet is sent, for the first time or again.
SendPacket(c, again) ==
  /\ Happens
  /\ tcp4[c].peer # Nobody
  /\ tcp4' = [tcp4 EXCEPT ![c].packets = @ + 1,
                          ![c].retrans = IF again THEN @ + 1 ELSE @]
  /\ UNCHANGED <<aDest_Ip2_Binary, vIamASrcDtn, pass, ringVars, totals, calm>>

Close(c) ==
  /\ Happens
  /\ tcp4[c].peer # Nobody
  /\ tcp4' = [tcp4 EXCEPT ![c] = NoLine]
  /\ calm' = IF tcp4[c].peer = aDest_Ip2_Binary THEN 0 ELSE calm
  /\ UNCHANGED <<aDest_Ip2_Binary, vIamASrcDtn, pass, ringVars, totals>>

SetPeer(p) ==
  /\ aDest_Ip2_Binary' = p
  /\ calm' = IF aDest_Ip2_Binary \in {p, Nobody} THEN calm ELSE 0

\* fDoRunGetMessageFromPeer accepts a message of a destination DTN.
AcceptPeer(p) ==
  /\ Happens
  /\ SetPeer(p)
  /\ vIamASrcDtn' = TRUE
  /\ UNCHANGED <<tcp4, pass, ringVars, totals>>

\* fDoRunGetMessageFromHpnSsh accepts a client.
AcceptHpnClient(p) ==
  /\ Happens
  /\ SetPeer(p)
  /\ UNCHANGED <<tcp4, vIamASrcDtn, pass, ringVars, totals>>

\* The housekeeping handler finds no destination attached any more.
NoDestinationLeft ==
  /\ Happens
  /\ vIamASrcDtn
  /\ vIamASrcDtn' = FALSE
  /\ UNCHANGED <<tcp4, aDest_Ip2_Binary, pass, ringVars, totals, calm>>

-----------------------------------------------------------------------------
(* doRunFindRetransmissionRate. *)

StartPass ==
  /\ pass.at = "start"
  /\ vIamASrcDtn
  /\ pass' = [at |-> "line", line |-> 1, sum |-> Zero, found |-> FALSE]
  /\ UNCHANGED <<tcp4, aDest_Ip2_Binary, vIamASrcDtn, ringVars, events, totals, calm>>

\* popen failed.
GiveUp ==
  /\ pass.at = "start"
  /\ vIamASrcDtn
  /\ pass' = [pass EXCEPT !.at = "ended"]
  /\ UNCHANGED <<tcp4, aDest_Ip2_Binary, vIamASrcDtn, ringVars, events, totals, calm>>

\* The line of a connection, if there is one, and the peer as they are now.
ReadLine ==
  LET c     == tcp4[pass.line]
      match == c.peer # Nobody /\ c.peer = aDest_Ip2_Binary
      next  == IF pass.line + 1 \in Connections THEN "line" ELSE "save"
  IN  /\ pass.at = "line"
      /\ pass' = [at    |-> next,
                  line  |-> pass.line + 1,
                  sum   |-> IF match THEN [retrans |-> pass.sum.retrans + c.retrans,
                                           packets |-> pass.sum.packets + c.packets]
                                     ELSE pass.sum,
                  found |-> pass.found \/ match]
      /\ UNCHANGED <<tcp4, aDest_Ip2_Binary, vIamASrcDtn, ringVars, events, totals, calm>>

\* Unsigned subtraction.
Minus(m, n) == (Word + m - n) % Word

\* Mutant: the counters of the pass, not what was added since the last one.
WholePass(sum) == sum

Interval(sum) ==
  IF sum.packets > previous.packets
  THEN [retrans |-> Minus(sum.retrans, previous.retrans),
        packets |-> sum.packets - previous.packets]
  ELSE Zero

\* Mutant: a full ring starts again at its second slot.
SaveFromSecond(interval) ==
  IF vRateCount < NUM_RATES_TO_USE
  THEN /\ ring' = [ring EXCEPT ![vRateCount] = interval]
       /\ vRateCount' = vRateCount + 1
       /\ UNCHANGED fRateArrayDone
  ELSE /\ ring' = [ring EXCEPT ![1] = interval]
       /\ vRateCount' = 2
       /\ fRateArrayDone' = TRUE

\* Mutant: the count runs on.
SaveCountsOn(interval) ==
  /\ ring' = [ring EXCEPT ![vRateCount % NUM_RATES_TO_USE] = interval]
  /\ vRateCount' = vRateCount + 1
  /\ fRateArrayDone' = (vRateCount >= NUM_RATES_TO_USE)

Save(interval) ==
  IF vRateCount < NUM_RATES_TO_USE
  THEN /\ ring' = [ring EXCEPT ![vRateCount] = interval]
       /\ vRateCount' = vRateCount + 1
       /\ UNCHANGED fRateArrayDone
  ELSE /\ ring' = [ring EXCEPT ![0] = interval]
       /\ vRateCount' = 1
       /\ fRateArrayDone' = TRUE

Window(count, done) == IF done THEN NUM_RATES_TO_USE ELSE count

\* The loop that adds up f[0] to f[n - 1].
SumUpTo(f, n) ==
  LET sum[x \in 0 .. n] == IF x = 0 THEN 0 ELSE sum[x - 1] + f[x - 1]
  IN  sum[n]

Retrans(r) == [x \in Slots |-> r[x].retrans]
Packets(r) == [x \in Slots |-> r[x].packets]

\* vSomeIntTran is 100 * retrans / packets / count.
Average(r, window) ==
  [retrans |-> SumUpTo(Retrans(r), window) % Word,
   packets |-> SumUpTo(Packets(r), window) % Word,
   count   |-> window]

FinishUp ==
  /\ pass.at = "save"
  /\ pass.found
  /\ Save(Interval(pass.sum))
  /\ rate' = Average(ring', Window(vRateCount', fRateArrayDone'))
  /\ previous' = pass.sum
  /\ pass' = [pass EXCEPT !.at = "start"]
  /\ totals' = IF Len(totals) > NUM_RATES_TO_USE THEN Append(Tail(totals), pass.sum)
                                                 ELSE Append(totals, pass.sum)
  /\ calm' = IF calm < Calm THEN calm + 1 ELSE calm
  /\ UNCHANGED <<tcp4, aDest_Ip2_Binary, vIamASrcDtn, events>>

\* No relevant packets: all is reset but the rate.
NoRelevantPackets ==
  /\ pass.at = "save"
  /\ ~ pass.found
  /\ previous' = Zero
  /\ vRateCount' = 0
  /\ fRateArrayDone' = FALSE
  /\ pass' = [pass EXCEPT !.at = "start"]
  /\ totals' = <<Zero>>
  /\ calm' = Calm
  /\ UNCHANGED <<tcp4, aDest_Ip2_Binary, vIamASrcDtn, ring, rate, events>>

-----------------------------------------------------------------------------
Run == StartPass \/ ReadLine \/ FinishUp \/ NoRelevantPackets

Network ==
  \/ \E c \in Connections, p \in Peers : Open(c, p)
  \/ \E c \in Connections, again \in BOOLEAN : SendPacket(c, again)
  \/ \E c \in Connections : Close(c)
  \/ \E p \in Peers : AcceptPeer(p) \/ AcceptHpnClient(p)
  \/ NoDestinationLeft

RateNext == Run \/ GiveUp \/ Network

RateSpec == RateInit /\ [][RateNext]_rateVars

(* The thread keeps running. *)
RateFairSpec == RateSpec /\ WF_rateVars(Run)

-----------------------------------------------------------------------------
(* The rate is what it is said to be, the average over the last            *)
(* NUM_RATES_TO_USE intervals: while no connection to the peer closed and  *)
(* the peer did not change, the sums of the ring are exactly what the      *)
(* totals grew by since the pass before its oldest interval; nothing       *)
(* uninitialised, no interval of an earlier transfer, none twice, none     *)
(* missed, and no wrapped difference, whatever the counters do between two *)
(* lines of one pass.                                                      *)
RateIsGrowth ==
  calm = Calm /\ vRateCount > 0 =>
    LET oldest == Head(totals)
        newest == totals[Len(totals)]
    IN  /\ rate.retrans = newest.retrans - oldest.retrans
        /\ rate.packets = newest.packets - oldest.packets
        /\ rate.count = Len(totals) - 1

\* The thread reads on, and finds the peer.
Watching ==
  /\ vIamASrcDtn
  /\ pass.at # "ended"
  /\ \E c \in Connections : tcp4[c].peer = aDest_Ip2_Binary /\ tcp4[c].peer # Nobody

(* An old rate does not last: when nothing more is sent again to a peer    *)
(* that stays connected, the rate goes down to zero, even after a wrapped  *)
(* difference.  (A rate does last when the connections end: it is not      *)
(* reset with the rest.)                                                   *)
RateFades == <>[]Watching => <>[](rate.retrans = 0)

=============================================================================
