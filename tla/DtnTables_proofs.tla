-------------------------- MODULE DtnTables_proofs --------------------------
(***************************************************************************)
(* Proofs about the tables of attached DTNs, for any finite number of      *)
(* peers, any number of slots and any width of the counters.               *)
(***************************************************************************)
EXTENDS DtnTables, FiniteSetTheorems, FunctionTheorems, TLAPS

(* Who is under way has a peer. *)
PeerInv == thread.at # "away" => thread.peer \in Peers

(* The peer is in none of the slots that the look-up has passed, because   *)
(* only its own thread enters addresses.                                   *)
PassedInv == thread.at = "scan" => \A j \in Slots : j < thread.i => ip_addr[j] # thread.peer

(* The peer is not in the table when its address is about to be written.   *)
NewInv ==
  (thread.at = "enter1" \/ (thread.at = "enter2" /\ table = "src"))
    => \A j \in Slots : ip_addr[j] # thread.peer

IInv == TypeOK /\ PeerInv /\ PassedInv /\ NewInv /\ OneEntryPerPeer

-----------------------------------------------------------------------------
(* The inductive invariant holds of the empty table. *)
LEMMA InitIInv == Init => IInv
  <1> SUFFICES ASSUME Init PROVE IInv
    OBVIOUS
  <1> USE PeerAssumption, SizeAssumption DEF Init
  <1>1. 0 \in Counters /\ 0 \in Slots /\ NoSlot \in Slots \cup {NoSlot}
    BY DEF Counters, Slots
  <1>2. TypeOK
    BY <1>1 DEF TypeOK, ThreadPoints, KeeperPoints
  <1>3. PeerInv /\ PassedInv /\ NewInv
    BY DEF PeerInv, PassedInv, NewInv
  <1>4. OneEntryPerPeer
    BY DEF OneEntryPerPeer
  <1> QED BY <1>2, <1>3, <1>4 DEF IInv

(* The housekeeping handler goes on to an entry of the table, or to the    *)
(* test of the counter.                                                    *)
LEMMA NextEntryLemma ==
  ASSUME TypeOK, NextEntry
  PROVE  keeper' \in [at : KeeperPoints, i : Slots, copy : Counters]
  <1>1. /\ keeper \in [at : KeeperPoints, i : Slots, copy : Counters]
        /\ keeper.i \in Slots /\ 0 \in Counters
    BY SizeAssumption DEF TypeOK, Counters
  <1>2. keeper.i # NUM_IP - 1 => keeper.i + 1 \in Slots
    BY <1>1, SizeAssumption DEF Slots
  <1> QED BY <1>1, <1>2 DEF NextEntry, KeeperPoints

(* The counters stay within their width. *)
LEMMA CounterLemma ==
  \A n \in Counters : /\ (n + 1) % CounterModulus \in Counters
                      /\ (n + CounterModulus - 1) % CounterModulus \in Counters
  BY SizeAssumption DEF Counters

(* Each action preserves the inductive invariant. *)
LEMMA NextIInv == IInv /\ [Next]_vars => IInv'
  <1> SUFFICES ASSUME IInv, [Next]_vars PROVE IInv'
    OBVIOUS
  <1> USE PeerAssumption, SizeAssumption
  <1> USE DEF IInv, TypeOK, PeerInv, PassedInv, NewInv, OneEntryPerPeer, Slots, NoSlot,
              ThreadPoints, KeeperPoints
  <1>0. 0 \in Counters /\ 0 \in Slots
    BY DEF Counters
  <1>1. ASSUME NEW p \in Peers, Arrive(p) PROVE IInv'
    BY <1>0, <1>1 DEF Arrive
  <1>2. CASE Scan
    <2>1. CASE ip_addr[thread.i] = thread.peer
      BY <1>2, <2>1 DEF Scan
    <2> DEFINE free == IF thread.slot = NoSlot /\ ip_addr[thread.i] = NoPeer
                       THEN thread.i ELSE thread.slot
    <2>a. /\ free \in Slots \cup {NoSlot} /\ thread.i \in Slots
          /\ UNCHANGED <<table, ip_addr, silent, networks, role, monitor, keeper>>
      BY <1>2 DEF Scan
    <2>2. CASE ip_addr[thread.i] # thread.peer /\ thread.i = NUM_IP - 1
      <3>1. thread' = [thread EXCEPT !.slot = free, !.at = "enter1"]
        BY <1>2, <2>2 DEF Scan
      <3>2. thread'.at = "enter1" /\ thread'.peer = thread.peer
        BY <3>1
      <3> HIDE DEF free
      <3>3. TypeOK'
        BY <2>a, <3>1
      <3>4. \A j \in Slots : ip_addr[j] # thread.peer
        BY <1>2, <2>2 DEF Scan
      <3> QED BY <1>2, <2>a, <3>2, <3>3, <3>4 DEF Scan
    <2>3. CASE ip_addr[thread.i] # thread.peer /\ thread.i # NUM_IP - 1
      <3>1. thread' = [thread EXCEPT !.slot = free, !.i = thread.i + 1]
        BY <1>2, <2>3 DEF Scan
      <3>2. /\ thread'.at = "scan" /\ thread'.peer = thread.peer
            /\ thread'.i = thread.i + 1 /\ thread.i + 1 \in Slots
        BY <1>2, <2>a, <2>3, <3>1 DEF Scan
      <3> HIDE DEF free
      <3>3. TypeOK'
        BY <2>a, <3>1, <3>2
      <3>4. PassedInv'
        BY <1>2, <2>a, <2>3, <3>2 DEF Scan
      <3> QED BY <1>2, <2>a, <3>2, <3>3, <3>4 DEF Scan
    <2> QED BY <2>1, <2>2, <2>3
  <1>3. CASE Refresh
    BY <1>3 DEF Refresh
  <1>4. CASE EnterFirst
    <2>1. CASE table = "src"
      BY <1>4, <2>1 DEF EnterFirst, SetTime
    <2>2. CASE table = "dest"
      <3>1. /\ table' = table /\ thread'.at # "enter1" /\ thread'.at # "scan"
            /\ (thread'.at = "enter2" => table = "dest") /\ thread'.peer = thread.peer
        BY <1>4, <2>2 DEF EnterFirst
      <3>2. TypeOK'
        BY <1>4, <2>2 DEF EnterFirst, SetAddress
      <3>3. \A j \in Slots : ip_addr'[j] = IF j = thread.slot THEN thread.peer ELSE ip_addr[j]
        BY <1>4, <2>2 DEF EnterFirst, SetAddress
      <3>4. OneEntryPerPeer'
        BY <1>4, <2>2, <3>3 DEF EnterFirst
      <3> QED BY <1>4, <3>1, <3>2, <3>4 DEF EnterFirst
    <2> QED BY <2>1, <2>2
  <1>5. CASE EnterSecond
    <2>1. CASE table = "src"
      <3>1. /\ table' = table /\ thread'.at # "enter1" /\ thread'.at # "scan"
            /\ (thread'.at = "enter2" => table = "dest") /\ thread'.peer = thread.peer
        BY <1>5, <2>1 DEF EnterSecond
      <3>2. TypeOK'
        BY <1>5, <2>1 DEF EnterSecond, SetAddress
      <3>3. \A j \in Slots : ip_addr'[j] = IF j = thread.slot THEN thread.peer ELSE ip_addr[j]
        BY <1>5, <2>1 DEF EnterSecond, SetAddress
      <3>4. OneEntryPerPeer'
        BY <1>5, <2>1, <3>3 DEF EnterSecond
      <3> QED BY <1>5, <3>1, <3>2, <3>4 DEF EnterSecond
    <2>2. CASE table = "dest"
      BY <1>5, <2>2 DEF EnterSecond, SetTime
    <2> QED BY <2>1, <2>2
  <1>6. CASE ReadNetworks
    BY <1>6 DEF ReadNetworks
  <1>7. CASE AddNetwork
    BY <1>7, CounterLemma DEF AddNetwork
  <1>8. CASE SetRole
    BY <1>8 DEF SetRole
  <1>9. CASE Fork
    BY <1>9 DEF Fork
  <1>10. ASSUME NEW i \in Slots, Measure(i) PROVE IInv'
    BY <1>10 DEF Measure
  <1>11. ASSUME NEW traffic \in BOOLEAN, Measured(traffic) PROVE IInv'
    BY <1>11 DEF Measured
  <1>12. ASSUME NEW i \in Slots, Age(i) PROVE IInv'
    BY <1>12 DEF Age
  <1>13. CASE KeeperStart
    BY <1>0, <1>13 DEF KeeperStart
  <1>14. CASE KeeperLook
    <2>1. keeper' \in [at : KeeperPoints, i : Slots, copy : Counters]
      BY <1>14, NextEntryLemma DEF KeeperLook
    <2> QED BY <1>14, <2>1 DEF KeeperLook
  <1>15. CASE KeeperClear
    BY <1>15 DEF KeeperClear
  <1>16. CASE KeeperRead
    BY <1>16 DEF KeeperRead
  <1>17. CASE KeeperSub
    <2>1. keeper' \in [at : KeeperPoints, i : Slots, copy : Counters]
      BY <1>17, NextEntryLemma DEF KeeperSub
    <2> QED BY <1>17, <2>1, CounterLemma DEF KeeperSub
  <1>18. CASE KeeperTest
    BY <1>0, <1>18 DEF KeeperTest
  <1>19. CASE KeeperOff
    BY <1>19 DEF KeeperOff
  <1>20. CASE UNCHANGED vars
    BY <1>20 DEF vars
  <1> QED
    BY <1>1, <1>2, <1>3, <1>4, <1>5, <1>6, <1>7, <1>8, <1>9, <1>10, <1>11, <1>12, <1>13,
       <1>14, <1>15, <1>16, <1>17, <1>18, <1>19, <1>20
    DEF Next, ThreadStep, KeeperStep

(* The inductive invariant holds in every reachable state. *)
LEMMA Invariance == Spec => []IInv
  BY InitIInv, NextIInv, PTL DEF Spec

(* Type correctness: the indices of the scan and of the housekeeping       *)
(* handler stay in the table and the counters wrap within their width.     *)
THEOREM TablesTypeCorrect == Spec => []TypeOK
  <1>1. IInv => TypeOK
    BY DEF IInv
  <1> QED BY <1>1, Invariance, PTL

(* No peer has two entries, for any number of peers and slots: also when   *)
(* the table is full, and wherever the housekeeping handler interrupts the *)
(* look-up.                                                                *)
THEOREM OneEntry == Spec => []OneEntryPerPeer
  <1>1. IInv => OneEntryPerPeer
    BY DEF IInv
  <1> QED BY <1>1, Invariance, PTL

-----------------------------------------------------------------------------
Looking == thread.at \in {"scan", "enter1"}

(* The slot that the look-up has noted is free and stays so until its      *)
(* address is written, because only its own thread enters addresses.       *)
FreeInv == Looking /\ thread.slot # NoSlot => ip_addr[thread.slot] = NoPeer

(* f is a table the look-up may have begun with: what is there now was     *)
(* there then, every peer had one entry, and the slots that the look-up    *)
(* has passed were taken by other peers.                                   *)
Began(f) ==
  /\ \A i, j \in Slots : f[i] = f[j] /\ f[i] # NoPeer => i = j
  /\ \A j \in Slots : ip_addr[j] = f[j] \/ ip_addr[j] = NoPeer
  /\ \A j \in Slots : thread.at = "enter1" \/ j < thread.i
                        => f[j] # NoPeer /\ f[j] # thread.peer

(* A look-up without a free slot so far began with such a table.  The slots*)
(* it has passed may be free by now: the table of the moment is not enough.*)
BeganInv ==
  Looking /\ thread.slot = NoSlot =>
     \E f \in [Slots -> Peers \cup {NoPeer}] : Began(f)

(* A look-up that found every slot taken saw as many other peers as there  *)
(* are slots.                                                              *)
LEMMA PigeonHole ==
  ASSUME NEW f \in [Slots -> Peers \cup {NoPeer}], NEW p \in Peers,
         \A i, j \in Slots : f[i] = f[j] /\ f[i] # NoPeer => i = j,
         \A j \in Slots : f[j] # NoPeer /\ f[j] # p
  PROVE  ~ (Cardinality(Peers) <= NUM_IP)
  <1>1. f \in [Slots -> Peers \ {p}] /\ \A i, j \in Slots : f[i] = f[j] => i = j
    OBVIOUS
  <1>2. f \in Injection(Slots, Peers \ {p})
    BY <1>1, Fun_IsInj
  <1>3. IsFiniteSet(Peers \ {p}) /\ Cardinality(Peers \ {p}) = Cardinality(Peers) - 1
    BY PeerAssumption, FS_RemoveElement
  <1>4. Cardinality(Slots) <= Cardinality(Peers \ {p})
    BY <1>2, <1>3, FS_Injection
  <1>5. Cardinality(Slots) = NUM_IP
    <2>1. NUM_IP \in Nat \ {0} /\ 0 \in Int /\ NUM_IP - 1 \in Int
      BY SizeAssumption
    <2>2. Cardinality(0 .. (NUM_IP - 1))
            = IF 0 > NUM_IP - 1 THEN 0 ELSE (NUM_IP - 1) - 0 + 1
      BY <2>1, FS_Interval
    <2> QED BY <2>1, <2>2 DEF Slots
  <1>6. Cardinality(Peers) \in Nat /\ NUM_IP \in Nat
    BY PeerAssumption, SizeAssumption, FS_CardinalityType
  <1> QED BY <1>3, <1>4, <1>5, <1>6

(* A step that lets the thread be and only clears slots keeps what is      *)
(* known of the look-up.                                                   *)
LEMMA ClearKeepsLookup ==
  ASSUME TypeOK, FreeInv, BeganInv, thread' = thread,
         \A j \in Slots : ip_addr'[j] = ip_addr[j] \/ ip_addr'[j] = NoPeer
  PROVE  FreeInv' /\ BeganInv'
  <1>1. FreeInv'
    BY DEF FreeInv, Looking, TypeOK
  <1>2. ASSUME Looking, thread.slot = NoSlot
        PROVE  \E f \in [Slots -> Peers \cup {NoPeer}] : Began(f)'
    <2>1. PICK f \in [Slots -> Peers \cup {NoPeer}] : Began(f)
      BY <1>2 DEF BeganInv
    <2>2. Began(f)'
      BY <2>1 DEF Began
    <2> QED BY <2>2
  <1>3. BeganInv'
    BY <1>2 DEF BeganInv, Looking
  <1> QED BY <1>1, <1>3

(* Each action keeps what is known of the look-up. *)
LEMMA LookupStep ==
  IInv /\ [Next]_vars /\ FreeInv /\ BeganInv => FreeInv' /\ BeganInv'
  <1> SUFFICES ASSUME IInv, [Next]_vars, FreeInv, BeganInv PROVE FreeInv' /\ BeganInv'
    OBVIOUS
  <1>t. TypeOK /\ PeerInv /\ OneEntryPerPeer
    BY DEF IInv
  <1>0. /\ thread \in [at : ThreadPoints, peer : Peers \cup {NoPeer}, i : Slots,
                      slot : Slots \cup {NoSlot}, copy : Counters]
        /\ ip_addr \in [Slots -> Peers \cup {NoPeer}]
    BY <1>t DEF TypeOK
  <1>1. ASSUME NEW p \in Peers, Arrive(p) PROVE FreeInv' /\ BeganInv'
    <2>1. /\ thread'.at = "scan" /\ thread'.i = 0 /\ thread'.slot = NoSlot
          /\ ip_addr' = ip_addr
      BY <1>1 DEF Arrive
    <2>2. \A j \in Slots : ~ (j < 0)
      BY SizeAssumption DEF Slots
    <2>3. Began(ip_addr)'
      BY <1>t, <2>1, <2>2 DEF Began, OneEntryPerPeer
    <2>4. BeganInv'
      BY <1>0, <2>1, <2>3 DEF BeganInv
    <2> QED BY <2>1, <2>4 DEF FreeInv
  <1>2. CASE Scan
    <2> DEFINE free == IF thread.slot = NoSlot /\ ip_addr[thread.i] = NoPeer
                       THEN thread.i ELSE thread.slot
    <2>1. /\ thread.at = "scan" /\ ip_addr' = ip_addr
          /\ thread.i \in Slots /\ thread.peer \in Peers
          /\ thread.slot \in Slots \cup {NoSlot}
          /\ NoSlot \notin Slots
      BY <1>0, <1>2, <1>t, SizeAssumption DEF Scan, PeerInv, Slots, NoSlot
    <2>2. CASE ip_addr[thread.i] = thread.peer
      <3>1. thread'.at = "refresh"
        BY <1>0, <1>2, <2>2 DEF Scan
      <3> QED BY <3>1 DEF FreeInv, BeganInv, Looking
    <2>3. CASE ip_addr[thread.i] # thread.peer
      <3>1. /\ thread'.slot = free /\ thread'.peer = thread.peer
            /\ \/ thread'.at = "enter1" /\ thread.i = NUM_IP - 1
               \/ thread'.at = "scan" /\ thread'.i = thread.i + 1
        BY <1>0, <1>2, <2>1, <2>3 DEF Scan
      <3>2. free # NoSlot => ip_addr[free] = NoPeer
        BY <2>1 DEF FreeInv, Looking
      <3>3. FreeInv'
        BY <2>1, <3>1, <3>2 DEF FreeInv
      <3>4. ASSUME free = NoSlot
            PROVE  \E f \in [Slots -> Peers \cup {NoPeer}] : Began(f)'
        <4>1. thread.slot = NoSlot /\ ip_addr[thread.i] # NoPeer
          BY <2>1, <3>4
        <4>2. PICK f \in [Slots -> Peers \cup {NoPeer}] : Began(f)
          BY <2>1, <4>1 DEF BeganInv, Looking
        <4>3. f[thread.i] # NoPeer /\ f[thread.i] # thread.peer
          BY <2>1, <2>3, <4>1, <4>2 DEF Began
        <4>4. \A j \in Slots : j < thread.i => f[j] # NoPeer /\ f[j] # thread.peer
          BY <4>2 DEF Began
        <4>5. \A j \in Slots : thread'.at = "enter1" \/ j < thread'.i
                                 => j < thread.i \/ j = thread.i
          BY <2>1, <3>1, SizeAssumption DEF Slots
        <4>6. Began(f)'
          BY <2>1, <3>1, <4>2, <4>3, <4>4, <4>5 DEF Began
        <4> QED BY <4>6
      <3>5. BeganInv'
        BY <3>1, <3>4 DEF BeganInv
      <3> QED BY <3>3, <3>5
    <2> QED BY <2>2, <2>3
  <1>3. ASSUME Refresh \/ EnterFirst \/ EnterSecond \/ ReadNetworks \/ AddNetwork
                 \/ SetRole \/ Fork
        PROVE  FreeInv' /\ BeganInv'
    <2>1. ~ Looking'
      BY <1>0, <1>3 DEF Looking, Refresh, EnterFirst, EnterSecond, ReadNetworks, AddNetwork,
                 SetRole, Fork
    <2> QED BY <2>1 DEF FreeInv, BeganInv
  <1>4. ASSUME \/ \E i \in Slots : Measure(i) \/ Age(i)
               \/ \E traffic \in BOOLEAN : Measured(traffic)
               \/ KeeperStep
               \/ UNCHANGED vars
        PROVE  FreeInv' /\ BeganInv'
    <2>1. /\ thread' = thread
          /\ \A j \in Slots : ip_addr'[j] = ip_addr[j] \/ ip_addr'[j] = NoPeer
      BY <1>0, <1>4 DEF Measure, Age, Measured, KeeperStep, KeeperStart, KeeperLook,
                 KeeperClear, KeeperRead, KeeperSub, KeeperTest, KeeperOff, vars
    <2> QED BY <1>t, <2>1, ClearKeepsLookup
  <1> QED BY <1>1, <1>2, <1>3, <1>4 DEF Next, ThreadStep

(* As long as there are no more peers than slots, a new peer gets a slot   *)
(* of the table and the slot is free, wherever the housekeeping handler    *)
(* interrupts the look-up: the index is never the -1 of a full table.      *)
THEOREM NewPeersGetASlot == Spec => []EntryInTable
  <1>1. Init => FreeInv /\ BeganInv
    BY DEF Init, FreeInv, BeganInv, Looking
  <1>2. IInv /\ FreeInv /\ BeganInv => EntryInTable
    <2> SUFFICES ASSUME IInv, FreeInv, BeganInv, Cardinality(Peers) <= NUM_IP,
                        thread.at = "enter1"
                 PROVE  thread.slot # NoSlot /\ ip_addr[thread.slot] = NoPeer
      BY DEF EntryInTable
    <2>1. thread.peer \in Peers
      BY DEF IInv, PeerInv
    <2>2. ASSUME thread.slot = NoSlot PROVE FALSE
      <3>1. PICK f \in [Slots -> Peers \cup {NoPeer}] : Began(f)
        BY <2>2 DEF BeganInv, Looking
      <3> QED BY <2>1, <3>1, PigeonHole DEF Began
    <2> QED BY <2>2 DEF FreeInv, Looking
  <1> QED BY <1>1, <1>2, LookupStep, Invariance, PTL DEF Spec
=============================================================================
