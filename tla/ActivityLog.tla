---------------------------- MODULE ActivityLog ----------------------------
(***************************************************************************)
(* The log of tuning activities of userspace/user_dtn.c: sFlowCounters     *)
(* keeps, for each of the last NUM_OF_FLOWS_TO_KEEP_TRACK_OF flows, a ring *)
(* of MAX_TUNING_ACTIVITIES_PER_FLOW texts.  record_activity enters one;   *)
(* it is called by the handlers of the queue timers and by the thread      *)
(* fDoRunGetThresholds, which also starts a new flow when the link begins  *)
(* to receive; the HTTP request "-pc" lists them all.  Nothing is locked,  *)
(* so every access to the counters is a step of its own.                   *)
(*                                                                         *)
(* A text is represented by its number, 0 is an empty one.                 *)
(***************************************************************************)
EXTENDS Naturals, Sequences, SequencesExt

CONSTANTS
  Handlers,                        \* activations of the timer handlers
  Tuner,                           \* the thread fDoRunGetThresholds
  MAX_TUNING_ACTIVITIES_PER_FLOW,
  NUM_OF_FLOWS_TO_KEEP_TRACK_OF,
  MaxRecords,                      \* bound: activities in a behaviour
  MaxFlows                         \* bound: flows in a behaviour

ASSUME ActorAssumption == Tuner \notin Handlers
ASSUME SizeAssumption ==
  /\ MAX_TUNING_ACTIVITIES_PER_FLOW \in Nat \ {0}
  /\ NUM_OF_FLOWS_TO_KEEP_TRACK_OF \in Nat \ {0}
ASSUME BoundAssumption == MaxRecords \in Nat /\ MaxFlows \in Nat

VARIABLES
  sFlowCounters,
  vFlowCount,
  vFlowCountWrapped,
  writer,              \* where each caller of record_activity is, and its text
  flow,                \* where the tracking of flows is
  vFirstTimeThru,
  rx_traffic,
  myCount,
  flows,               \* bound: counts up to MaxFlows
  recorded,            \* history: the texts recorded for each entry's flow
  raced                \* history: two of them have been at it at once

vars == <<sFlowCounters, vFlowCount, vFlowCountWrapped, writer, flow, vFirstTimeThru,
          rx_traffic, myCount, flows, recorded, raced>>

Actors == Handlers \cup {Tuner}
Entries == 0 .. NUM_OF_FLOWS_TO_KEEP_TRACK_OF - 1
Places == 0 .. MAX_TUNING_ACTIVITIES_PER_FLOW - 1
Texts == 0 .. MaxRecords

Empty == [num_tuning_activities |-> 0, gFlowCountUsed |-> FALSE,
          what_was_done |-> [i \in Places |-> 0]]

TypeOK ==
  /\ sFlowCounters \in [Entries -> [num_tuning_activities : Nat, gFlowCountUsed : BOOLEAN,
                                    what_was_done : [Places -> Texts]]]
  /\ vFlowCount \in 0 .. NUM_OF_FLOWS_TO_KEEP_TRACK_OF
  /\ vFlowCountWrapped \in BOOLEAN
  /\ writer \in [Actors -> [at : {"idle", "text", "used", "count", "recycle"}, text : Texts]]
  /\ flow \in {"same", "new", "wrap", "number", "clear"}
  /\ vFirstTimeThru \in BOOLEAN
  /\ rx_traffic \in BOOLEAN
  /\ myCount \in Texts
  /\ flows \in 0 .. MaxFlows
  /\ recorded \in [Entries -> Seq(Texts)]
  /\ raced \in BOOLEAN

Init ==
  /\ sFlowCounters = [f \in Entries |-> Empty]
  /\ vFlowCount = 0
  /\ vFlowCountWrapped = FALSE
  /\ writer = [a \in Actors |-> [at |-> "idle", text |-> 0]]
  /\ flow = "same"
  /\ vFirstTimeThru = TRUE
  /\ rx_traffic = FALSE
  /\ myCount = 0
  /\ flows = 0
  /\ recorded = [f \in Entries |-> <<>>]
  /\ raced = FALSE

-----------------------------------------------------------------------------
(* record_activity. *)

Busy(a) == writer[a].at # "idle"
Move(a, to) == writer' = [writer EXCEPT ![a].at = to]

\* While vFlowCount is one too large the accesses miss the array.
Update(f, entry) ==
  sFlowCounters' = IF f \in Entries THEN [sFlowCounters EXCEPT ![f] = entry]
                                    ELSE sFlowCounters

Current == IF vFlowCount \in Entries THEN sFlowCounters[vFlowCount] ELSE Empty

\* The thread itself tracks flows at another time.
StartRecord(a) ==
  /\ ~ Busy(a)
  /\ a = Tuner => flow = "same"
  /\ myCount < MaxRecords
  /\ myCount' = myCount + 1
  /\ writer' = [writer EXCEPT ![a] = [at |-> "text", text |-> myCount + 1]]
  /\ raced' = (raced \/ flow # "same" \/ \E b \in Actors : Busy(b))
  /\ UNCHANGED <<sFlowCounters, vFlowCount, vFlowCountWrapped, flow, vFirstTimeThru,
                 rx_traffic, flows, recorded>>

\* A place outside the entry is outside the modelled memory.
WriteText(a) ==
  LET i == Current.num_tuning_activities
  IN  /\ writer[a].at = "text"
      /\ Update(vFlowCount,
                IF i \in Places THEN [Current EXCEPT !.what_was_done[i] = writer[a].text]
                                ELSE Current)
      /\ Move(a, "used")
      /\ UNCHANGED <<vFlowCount, vFlowCountWrapped, flow, vFirstTimeThru, rx_traffic,
                     myCount, flows, recorded, raced>>

SetUsed(a) ==
  /\ writer[a].at = "used"
  /\ Update(vFlowCount, [Current EXCEPT !.gFlowCountUsed = TRUE])
  /\ Move(a, "count")
  /\ UNCHANGED <<vFlowCount, vFlowCountWrapped, flow, vFirstTimeThru, rx_traffic,
                 myCount, flows, recorded, raced>>

Count(a) ==
  /\ writer[a].at = "count"
  /\ Update(vFlowCount, [Current EXCEPT !.num_tuning_activities = @ + 1])
  /\ Move(a, "recycle")
  /\ recorded' = IF vFlowCount \in Entries
                 THEN [recorded EXCEPT ![vFlowCount] = Append(@, writer[a].text)]
                 ELSE recorded
  /\ UNCHANGED <<vFlowCount, vFlowCountWrapped, flow, vFirstTimeThru, rx_traffic,
                 myCount, flows, raced>>

\* Mutant: one too many.
RecycleLate(a) ==
  /\ writer[a].at = "recycle"
  /\ Update(vFlowCount,
            IF Current.num_tuning_activities > MAX_TUNING_ACTIVITIES_PER_FLOW
            THEN [Current EXCEPT !.num_tuning_activities = 0] ELSE Current)
  /\ Move(a, "idle")
  /\ UNCHANGED <<vFlowCount, vFlowCountWrapped, flow, vFirstTimeThru, rx_traffic,
                 myCount, flows, recorded, raced>>

Recycle(a) ==
  /\ writer[a].at = "recycle"
  /\ Update(vFlowCount,
            IF Current.num_tuning_activities = MAX_TUNING_ACTIVITIES_PER_FLOW
            THEN [Current EXCEPT !.num_tuning_activities = 0] ELSE Current)
  /\ Move(a, "idle")
  /\ UNCHANGED <<vFlowCount, vFlowCountWrapped, flow, vFirstTimeThru, rx_traffic,
                 myCount, flows, recorded, raced>>

-----------------------------------------------------------------------------
(* The tracking of flows at the end of a tick of fDoRunGetThresholds. *)

StopsReceiving ==
  /\ flow = "same"
  /\ ~ Busy(Tuner)
  /\ rx_traffic
  /\ rx_traffic' = FALSE
  /\ UNCHANGED <<sFlowCounters, vFlowCount, vFlowCountWrapped, writer, flow,
                 vFirstTimeThru, myCount, flows, recorded, raced>>

StartsReceiving ==
  /\ flow = "same"
  /\ ~ Busy(Tuner)
  /\ ~ rx_traffic
  /\ flows < MaxFlows
  /\ flows' = flows + 1
  /\ rx_traffic' = TRUE
  /\ vFirstTimeThru' = FALSE
  /\ flow' = IF vFirstTimeThru THEN "same" ELSE "new"
  /\ raced' = (raced \/ (~ vFirstTimeThru /\ \E a \in Actors : Busy(a)))
  /\ UNCHANGED <<sFlowCounters, vFlowCount, vFlowCountWrapped, writer, myCount, recorded>>

NewFlow ==
  /\ flow = "new"
  /\ vFlowCount' = vFlowCount + 1
  /\ flow' = IF vFlowCount + 1 = NUM_OF_FLOWS_TO_KEEP_TRACK_OF THEN "wrap" ELSE "number"
  /\ UNCHANGED <<sFlowCounters, vFlowCountWrapped, writer, vFirstTimeThru, rx_traffic,
                 myCount, flows, recorded, raced>>

WrapFlow ==
  /\ flow = "wrap"
  /\ vFlowCountWrapped' = TRUE
  /\ vFlowCount' = 0
  /\ flow' = "number"
  /\ UNCHANGED <<sFlowCounters, writer, vFirstTimeThru, rx_traffic, myCount, flows,
                 recorded, raced>>

ClearNumber ==
  /\ flow = "number"
  /\ Update(vFlowCount, [Current EXCEPT !.num_tuning_activities = 0])
  /\ recorded' = [recorded EXCEPT ![vFlowCount] = <<>>]
  /\ flow' = "clear"
  /\ UNCHANGED <<vFlowCount, vFlowCountWrapped, writer, vFirstTimeThru, rx_traffic,
                 myCount, flows, raced>>

\* Mutant: the entry is still marked as used.
KeepUsed ==
  /\ flow = "clear"
  /\ flow' = "same"
  /\ UNCHANGED <<sFlowCounters, vFlowCount, vFlowCountWrapped, writer, vFirstTimeThru,
                 rx_traffic, myCount, flows, recorded, raced>>

ClearUsed ==
  /\ flow = "clear"
  /\ Update(vFlowCount, [Current EXCEPT !.gFlowCountUsed = FALSE])
  /\ flow' = "same"
  /\ UNCHANGED <<vFlowCount, vFlowCountWrapped, writer, vFirstTimeThru, rx_traffic,
                 myCount, flows, recorded, raced>>

-----------------------------------------------------------------------------
Record(a) == StartRecord(a) \/ WriteText(a) \/ SetUsed(a) \/ Count(a) \/ Recycle(a)
TrackFlows ==
  StopsReceiving \/ StartsReceiving \/ NewFlow \/ WrapFlow \/ ClearNumber \/ ClearUsed

Next == TrackFlows \/ \E a \in Actors : Record(a)

Spec == Init /\ [][Next]_vars

-----------------------------------------------------------------------------
(* The request "-pc". *)

\* An entry that is used and counts none is taken for a full one.
NumActivities(entry) ==
  IF entry.num_tuning_activities = 0 /\ entry.gFlowCountUsed
  THEN MAX_TUNING_ACTIVITIES_PER_FLOW ELSE entry.num_tuning_activities

LoopMax == IF vFlowCountWrapped THEN NUM_OF_FLOWS_TO_KEEP_TRACK_OF ELSE vFlowCount + 1

Listed(f) ==
  [i \in 1 .. NumActivities(sFlowCounters[f]) |-> sFlowCounters[f].what_was_done[i - 1]]

Settled == flow = "same" /\ \A a \in Actors : ~ Busy(a)

(* The listing tells the truth: as long as record_activity was never       *)
(* called while another call or a change of flow was under way, it shows   *)
(* for every flow that is still kept the most recent activities of that    *)
(* flow, in their order, none of an earlier flow in the same entry, and at *)
(* least one if there was any; and a flow it does not show had none.       *)
ListingIsRecent ==
  ~ raced /\ Settled =>
    \A f \in Entries :
      /\ IsSuffix(Listed(f), recorded[f])
      /\ recorded[f] # <<>> => Listed(f) # <<>> /\ f < LoopMax

(* Whoever starts to record will write inside the table: the current flow  *)
(* is one of those kept and its next place is one of its places, as long   *)
(* as no two calls and no call and a change of flow overlapped.            *)
PlaceInTable ==
  ~ raced /\ (\E a \in Actors : writer[a].at = "text") =>
    vFlowCount \in Entries /\ Current.num_tuning_activities \in Places

=============================================================================
