----------------------------- MODULE DtnTables -----------------------------
(***************************************************************************)
(* The tables of attached DTNs in userspace/user_dtn.c: aSrc_Dtn_IPs, with *)
(* the sources of the flows this DTN receives, entered by sample_func; and *)
(* aDest_Dtn_IPs, with the destinations that sent it a message, entered by *)
(* fDoRunGetMessageFromPeer before it forks the child that looks the       *)
(* sender up again.  The handler of the housekeeping timer removes silent  *)
(* entries beside them, and nothing is locked.                             *)
(*                                                                         *)
(* The tables share nothing but the handler, which goes through one after  *)
(* the other, so a behaviour follows one of them; the initial state says   *)
(* which.  Of the time of an entry, last_time_ip, the model keeps whether  *)
(* it is at least vHouseTime ago; a time of zero is.  A thread's steps     *)
(* through the table take less than vHouseTime.                            *)
(***************************************************************************)
EXTENDS Naturals, FiniteSets

CONSTANTS
  Peers,         \* addresses
  NoPeer,        \* the address zero
  NUM_IP,        \* MAX_NUM_IP_ATTACHED
  CounterModulus \* 2^32: the counters are unsigned

ASSUME PeerAssumption == NoPeer \notin Peers /\ IsFiniteSet(Peers)
ASSUME SizeAssumption == NUM_IP \in Nat \ {0} /\ CounterModulus \in Nat \ {0}

VARIABLES
  table,     \* "src" or "dest"
  ip_addr,   \* the address in each slot
  silent,    \* last_time_ip is at least vHouseTime ago
  networks,  \* currently_attached_networks or currently_dest_networks
  role,      \* vIamADestDtn or vIamASrcDtn
  thread,    \* the thread that looks up and enters
  monitor,   \* the slot whose traffic is being measured, or NoSlot
  keeper     \* the housekeeping handler

vars == <<table, ip_addr, silent, networks, role, thread, monitor, keeper>>

Slots    == 0 .. (NUM_IP - 1)
NoSlot   == NUM_IP
Counters == 0 .. (CounterModulus - 1)

ThreadPoints == {"away", "scan", "refresh", "enter1", "enter2", "read", "add", "role",
                 "fork"}
KeeperPoints == {"away", "look", "clear", "read", "sub", "test", "off"}

TypeOK ==
  /\ table \in {"src", "dest"}
  /\ ip_addr \in [Slots -> Peers \cup {NoPeer}]
  /\ silent \in [Slots -> BOOLEAN]
  /\ networks \in Counters
  /\ role \in BOOLEAN
  /\ thread \in [at : ThreadPoints, peer : Peers \cup {NoPeer}, i : Slots,
                 slot : Slots \cup {NoSlot}, copy : Counters]
  /\ monitor \in Slots \cup {NoSlot}
  /\ keeper \in [at : KeeperPoints, i : Slots, copy : Counters]

Init ==
  /\ table \in {"src", "dest"}
  /\ ip_addr = [i \in Slots |-> NoPeer]
  /\ silent = [i \in Slots |-> TRUE]
  /\ networks = 0
  /\ role = FALSE
  /\ thread = [at |-> "away", peer |-> NoPeer, i |-> 0, slot |-> NoSlot, copy |-> 0]
  /\ monitor = NoSlot
  /\ keeper = [at |-> "away", i |-> 0, copy |-> 0]

Attached == {ip_addr[i] : i \in Slots} \ {NoPeer}

-----------------------------------------------------------------------------
(* The thread that looks up and enters. *)

\* A report or a message of a peer comes, and the look-up begins.
Arrive(p) ==
  /\ thread.at = "away"
  /\ thread' = [at |-> "scan", peer |-> p, i |-> 0, slot |-> NoSlot, copy |-> 0]
  /\ UNCHANGED <<table, ip_addr, silent, networks, role, monitor, keeper>>

\* Mutants: the look-up ends at the first free slot, and the last slot is left out.
ScanToFirstFree ==
  /\ thread.at = "scan"
  /\ thread' =
       IF ip_addr[thread.i] = thread.peer
       THEN [thread EXCEPT !.at = "refresh", !.slot = thread.i]
       ELSE IF ip_addr[thread.i] = NoPeer
            THEN [thread EXCEPT !.slot = thread.i, !.at = "enter1"]
            ELSE [thread EXCEPT !.i = thread.i + 1]
  /\ UNCHANGED <<table, ip_addr, silent, networks, role, monitor, keeper>>

ScanAllButLast ==
  LET free == IF thread.slot = NoSlot /\ ip_addr[thread.i] = NoPeer
              THEN thread.i ELSE thread.slot
  IN
  /\ thread.at = "scan"
  /\ thread' =
       IF thread.i = NUM_IP - 1
       THEN [thread EXCEPT !.at = "enter1"]
       ELSE IF ip_addr[thread.i] = thread.peer
            THEN [thread EXCEPT !.at = "refresh", !.slot = thread.i]
            ELSE [thread EXCEPT !.slot = free, !.i = thread.i + 1]
  /\ UNCHANGED <<table, ip_addr, silent, networks, role, monitor, keeper>>

\* One turn of the loop: the address is found, or the first free slot is noted.
Scan ==
  LET free == IF thread.slot = NoSlot /\ ip_addr[thread.i] = NoPeer
              THEN thread.i ELSE thread.slot
  IN
  /\ thread.at = "scan"
  /\ thread' =
       IF ip_addr[thread.i] = thread.peer
       THEN [thread EXCEPT !.at = "refresh", !.slot = thread.i]
       ELSE IF thread.i = NUM_IP - 1
            THEN [thread EXCEPT !.slot = free, !.at = "enter1"]
            ELSE [thread EXCEPT !.slot = free, !.i = thread.i + 1]
  /\ UNCHANGED <<table, ip_addr, silent, networks, role, monitor, keeper>>

\* An address that is known: last_time_ip is set.
Refresh ==
  /\ thread.at = "refresh"
  /\ silent' = [silent EXCEPT ![thread.slot] = FALSE]
  /\ thread' = [thread EXCEPT !.at = "role"]
  /\ UNCHANGED <<table, ip_addr, networks, role, monitor, keeper>>

\* A write to the new entry.  Without a free slot the index is -1, and the
\* table stays as it is.
SetTime    == silent' = IF thread.slot = NoSlot THEN silent
                        ELSE [silent EXCEPT ![thread.slot] = FALSE]
SetAddress == ip_addr' = IF thread.slot = NoSlot THEN ip_addr
                         ELSE [ip_addr EXCEPT ![thread.slot] = thread.peer]

\* A new address: sample_func sets the time before the address,
\* fDoRunGetMessageFromPeer the address before the time.
EnterFirst ==
  /\ thread.at = "enter1"
  /\ IF table = "src" THEN SetTime /\ UNCHANGED ip_addr
                      ELSE SetAddress /\ UNCHANGED silent
  /\ thread' = [thread EXCEPT !.at = "enter2"]
  /\ UNCHANGED <<table, networks, role, monitor, keeper>>

EnterSecond ==
  /\ thread.at = "enter2"
  /\ IF table = "src" THEN SetAddress /\ UNCHANGED silent
                      ELSE SetTime /\ UNCHANGED ip_addr
  /\ thread' = [thread EXCEPT !.at = "read"]
  /\ UNCHANGED <<table, networks, role, monitor, keeper>>

\* The counter is incremented: a read and a write.
ReadNetworks ==
  /\ thread.at = "read"
  /\ thread' = [thread EXCEPT !.at = "add", !.copy = networks]
  /\ UNCHANGED <<table, ip_addr, silent, networks, role, monitor, keeper>>

AddNetwork ==
  /\ thread.at = "add"
  /\ networks' = (thread.copy + 1) % CounterModulus
  /\ thread' = [thread EXCEPT !.at = "role"]
  /\ UNCHANGED <<table, ip_addr, silent, role, monitor, keeper>>

\* sample_func sets the flag only if it finds new_traffic set, and then sends
\* a message (see PeerQueue).  It sets new_traffic itself for a new entry, but
\* the thread that measures the rates sets and clears it at any time, as
\* traffic comes and goes.  The listener always sets its flag, and forks.
SetRole ==
  /\ thread.at = "role"
  /\ role' \in IF table = "src" THEN {role, TRUE} ELSE {TRUE}
  /\ thread' = [thread EXCEPT !.at = IF table = "src" THEN "away" ELSE "fork"]
  /\ UNCHANGED <<table, ip_addr, silent, networks, monitor, keeper>>

Fork ==
  /\ thread.at = "fork"
  /\ thread' = [thread EXCEPT !.at = "away"]
  /\ UNCHANGED <<table, ip_addr, silent, networks, role, monitor, keeper>>

-----------------------------------------------------------------------------
(* fDoRunGetThresholds takes a destination from the table, runs lsof, and  *)
(* sets the time of the slot if there is traffic.  So does the thread that *)
(* finds the retransmission rate.                                          *)
Measure(i) ==
  /\ table = "dest"
  /\ monitor = NoSlot
  /\ role
  /\ ip_addr[i] # NoPeer
  /\ monitor' = i
  /\ UNCHANGED <<table, ip_addr, silent, networks, role, thread, keeper>>

Measured(traffic) ==
  /\ monitor # NoSlot
  /\ silent' = IF traffic THEN [silent EXCEPT ![monitor] = FALSE] ELSE silent
  /\ monitor' = NoSlot
  /\ UNCHANGED <<table, ip_addr, networks, role, thread, keeper>>

\* vHouseTime passes.
Age(i) ==
  /\ thread.at = "away"
  /\ ~ silent[i]
  /\ silent' = [silent EXCEPT ![i] = TRUE]
  /\ UNCHANGED <<table, ip_addr, networks, role, thread, monitor, keeper>>

-----------------------------------------------------------------------------
(* tHouseKeeping_TimerID_Handler. *)

NextEntry ==
  keeper' = IF keeper.i = NUM_IP - 1
            THEN [keeper EXCEPT !.at = "test", !.copy = 0]
            ELSE [keeper EXCEPT !.at = "look", !.i = keeper.i + 1, !.copy = 0]

KeeperStart ==
  /\ keeper.at = "away"
  /\ role
  /\ keeper' = [at |-> "look", i |-> 0, copy |-> 0]
  /\ UNCHANGED <<table, ip_addr, silent, networks, role, thread, monitor>>

\* Mutant: the test of the time is the wrong way round.
KeeperLookFresh ==
  /\ keeper.at = "look"
  /\ IF ip_addr[keeper.i] # NoPeer /\ ~ silent[keeper.i]
     THEN keeper' = [keeper EXCEPT !.at = "clear"]
     ELSE NextEntry
  /\ UNCHANGED <<table, ip_addr, silent, networks, role, thread, monitor>>

KeeperLook ==
  /\ keeper.at = "look"
  /\ IF ip_addr[keeper.i] # NoPeer /\ silent[keeper.i]
     THEN keeper' = [keeper EXCEPT !.at = "clear"]
     ELSE NextEntry
  /\ UNCHANGED <<table, ip_addr, silent, networks, role, thread, monitor>>

\* The entry is set to zero.
KeeperClear ==
  /\ keeper.at = "clear"
  /\ ip_addr' = [ip_addr EXCEPT ![keeper.i] = NoPeer]
  /\ silent' = [silent EXCEPT ![keeper.i] = TRUE]
  /\ keeper' = [keeper EXCEPT !.at = "read"]
  /\ UNCHANGED <<table, networks, role, thread, monitor>>

KeeperRead ==
  /\ keeper.at = "read"
  /\ keeper' = [keeper EXCEPT !.at = "sub", !.copy = networks]
  /\ UNCHANGED <<table, ip_addr, silent, networks, role, thread, monitor>>

\* Mutant: the counter does not stay below 2^32.
KeeperSubUp ==
  /\ keeper.at = "sub"
  /\ networks' = keeper.copy + CounterModulus - 1
  /\ NextEntry
  /\ UNCHANGED <<table, ip_addr, silent, role, thread, monitor>>

KeeperSub ==
  /\ keeper.at = "sub"
  /\ networks' = (keeper.copy + CounterModulus - 1) % CounterModulus
  /\ NextEntry
  /\ UNCHANGED <<table, ip_addr, silent, role, thread, monitor>>

KeeperTest ==
  /\ keeper.at = "test"
  /\ keeper' = [keeper EXCEPT !.at = IF networks = 0 THEN "off" ELSE "away", !.i = 0]
  /\ UNCHANGED <<table, ip_addr, silent, networks, role, thread, monitor>>

KeeperOff ==
  /\ keeper.at = "off"
  /\ role' = FALSE
  /\ keeper' = [keeper EXCEPT !.at = "away"]
  /\ UNCHANGED <<table, ip_addr, silent, networks, thread, monitor>>

-----------------------------------------------------------------------------
ThreadStep ==
  \/ Scan
  \/ Refresh
  \/ EnterFirst
  \/ EnterSecond
  \/ ReadNetworks
  \/ AddNetwork
  \/ SetRole
  \/ Fork

KeeperStep ==
  \/ KeeperStart
  \/ KeeperLook
  \/ KeeperClear
  \/ KeeperRead
  \/ KeeperSub
  \/ KeeperTest
  \/ KeeperOff

Next ==
  \/ \E p \in Peers : Arrive(p)
  \/ ThreadStep
  \/ \E i \in Slots : Measure(i)
  \/ \E traffic \in BOOLEAN : Measured(traffic)
  \/ \E i \in Slots : Age(i)
  \/ KeeperStep

Spec == Init /\ [][Next]_vars

(***************************************************************************)
(* The threads run on, the housekeeping timer is periodic.  Messages, and  *)
(* the silence of a peer, are up to the environment.                       *)
(***************************************************************************)
Fairness == WF_vars(ThreadStep) /\ WF_vars(KeeperStep)

FairSpec == Spec /\ Fairness

-----------------------------------------------------------------------------
(* A peer has one entry at most: although entries go while the look-up is  *)
(* under way, an address is never entered a second time beside its first   *)
(* entry, which would split its counters and its time.                     *)
OneEntryPerPeer ==
  \A i, j \in Slots : ip_addr[i] = ip_addr[j] /\ ip_addr[i] # NoPeer => i = j

(* As long as there are no more peers than slots, the look-up of a new     *)
(* peer ends with a slot, whatever is removed meanwhile: the index that    *)
(* --First_IP_Index_Not_Exist leaves is one of the table, and free.        *)
EntryInTable ==
  Cardinality(Peers) <= NUM_IP /\ thread.at = "enter1" =>
     thread.slot # NoSlot /\ ip_addr[thread.slot] = NoPeer

(* A peer that sends nothing any more and has no traffic is removed,       *)
(* unless the role flag is off and stays off: then the housekeeping        *)
(* handler passes the table over.                                          *)
SilentPeersAreRemoved ==
  \A p \in Peers :
     <>[](/\ thread.at = "away" \/ thread.peer # p
          /\ \A i \in Slots : ip_addr[i] = p => silent[i])
       => <>[](p \notin Attached) \/ <>[](~ role)

=============================================================================
