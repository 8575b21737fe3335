------------------------- MODULE ActivityLog_proofs -------------------------
(***************************************************************************)
(* Theorems about ActivityLog, for any number of handlers and any size of  *)
(* the table.                                                              *)
(***************************************************************************)
EXTENDS ActivityLog, SequenceTheorems, TLAPS

Num(f)  == sFlowCounters[f].num_tuning_activities
Used(f) == sFlowCounters[f].gFlowCountUsed
What(f) == sFlowCounters[f].what_was_done

(* The flow that is counted is one of those kept, except between the two   *)
(* steps in which its number wraps.                                        *)
FlowInv ==
  IF flow = "wrap" THEN vFlowCount = NUM_OF_FLOWS_TO_KEEP_TRACK_OF
                   ELSE vFlowCount \in Entries

(* Without a race, one at a time. *)
AloneInv ==
  /\ \A a, b \in Actors : Busy(a) /\ Busy(b) => a = b
  /\ flow # "same" => \A a \in Actors : ~ Busy(a)

(* The first n places of entry f hold the last n texts of its flow. *)
Holds(f, n) ==
  /\ n <= Len(recorded[f])
  /\ \A i \in 0 .. n - 1 : What(f)[i] = recorded[f][Len(recorded[f]) - n + 1 + i]

(* Entry f is in the hands of somebody. *)
InHand(f) == f = vFlowCount /\ (flow = "clear" \/ \E a \in Actors : Busy(a))

(* What every entry satisfies: a count that is full is reset before the    *)
(* next text, the places that are counted are the last texts, and if none  *)
(* is counted and the entry was used, all places are.                      *)
EntryInv(f) ==
  /\ Num(f) <= MAX_TUNING_ACTIVITIES_PER_FLOW
  /\ Num(f) = MAX_TUNING_ACTIVITIES_PER_FLOW
       => f = vFlowCount /\ \E a \in Actors : writer[a].at = "recycle"
  /\ Holds(f, Num(f))
  /\ Num(f) = 0 /\ Used(f) /\ ~ InHand(f) => Holds(f, MAX_TUNING_ACTIVITIES_PER_FLOW)
  /\ recorded[f] # <<>> => Used(f) /\ (vFlowCountWrapped \/ f <= vFlowCount)

(* What a writer has done so far. *)
WriterInv(a) ==
  /\ writer[a].at \in {"used", "count"} => What(vFlowCount)[Num(vFlowCount)] = writer[a].text
  /\ writer[a].at \in {"count", "recycle"} => Used(vFlowCount)
  /\ writer[a].at = "recycle" => Num(vFlowCount) > 0

(* While the thread clears an entry, no text is recorded for it. *)
ClearInv == flow = "clear" => recorded[vFlowCount] = <<>>

LogInv ==
  ~ raced => /\ AloneInv
             /\ ClearInv
             /\ \A f \in Entries : EntryInv(f)
             /\ \A a \in Actors : WriterInv(a)

IInv == TypeOK /\ FlowInv /\ LogInv

Points == {"idle", "text", "used", "count", "recycle"}

EntryType == [num_tuning_activities : Nat, gFlowCountUsed : BOOLEAN,
              what_was_done : [Places -> Texts]]

-----------------------------------------------------------------------------
(* What the actions write is an entry, and which parts of it they change. *)
LEMMA EntryLemma ==
  ASSUME NEW e \in EntryType, NEW n \in Nat, NEW u \in BOOLEAN, NEW i \in Places, NEW t \in Texts
  PROVE  /\ [e EXCEPT !.num_tuning_activities = n] \in EntryType
         /\ [e EXCEPT !.num_tuning_activities = n].num_tuning_activities = n
         /\ [e EXCEPT !.num_tuning_activities = n].gFlowCountUsed = e.gFlowCountUsed
         /\ [e EXCEPT !.num_tuning_activities = n].what_was_done = e.what_was_done
         /\ [e EXCEPT !.gFlowCountUsed = u] \in EntryType
         /\ [e EXCEPT !.gFlowCountUsed = u].num_tuning_activities = e.num_tuning_activities
         /\ [e EXCEPT !.gFlowCountUsed = u].gFlowCountUsed = u
         /\ [e EXCEPT !.gFlowCountUsed = u].what_was_done = e.what_was_done
         /\ [e EXCEPT !.what_was_done[i] = t] \in EntryType
         /\ [e EXCEPT !.what_was_done[i] = t].num_tuning_activities = e.num_tuning_activities
         /\ [e EXCEPT !.what_was_done[i] = t].gFlowCountUsed = e.gFlowCountUsed
         /\ [e EXCEPT !.what_was_done[i] = t].what_was_done = [e.what_was_done EXCEPT ![i] = t]
  BY DEF EntryType

(* The current entry, or the memory beside the table. *)
LEMMA CurrentLemma ==
  ASSUME TypeOK
  PROVE  /\ Current \in EntryType
         /\ vFlowCount \in Entries => Current = sFlowCounters[vFlowCount]
  <1>1. Empty \in EntryType
    <2>1. 0 \in Texts
      BY BoundAssumption DEF Texts
    <2> QED BY <2>1 DEF Empty, EntryType
  <1> QED BY <1>1 DEF Current, TypeOK, EntryType

(* An update changes one entry at most. *)
LEMMA UpdateLemma ==
  ASSUME TypeOK, NEW e \in EntryType, Update(vFlowCount, e)
  PROVE  /\ sFlowCounters' \in [Entries -> EntryType]
         /\ vFlowCount \in Entries => sFlowCounters'[vFlowCount] = e
         /\ \A f \in Entries : f # vFlowCount => sFlowCounters'[f] = sFlowCounters[f]
  <1>1. sFlowCounters \in [Entries -> EntryType]
    BY DEF TypeOK, EntryType
  <1> QED BY <1>1 DEF Update

(* A move changes the place of one writer. *)
LEMMA MoveLemma ==
  ASSUME TypeOK, NEW a \in Actors, NEW to \in Points, Move(a, to)
  PROVE  /\ writer' \in [Actors -> [at : Points, text : Texts]]
         /\ \A b \in Actors : writer'[b].at = IF b = a THEN to ELSE writer[b].at
         /\ \A b \in Actors : writer'[b].text = writer[b].text
  <1>1. writer \in [Actors -> [at : Points, text : Texts]]
    BY DEF TypeOK, Points
  <1>2. writer' = [writer EXCEPT ![a] = [writer[a] EXCEPT !.at = to]]
    BY <1>1 DEF Move
  <1>3. [writer[a] EXCEPT !.at = to] \in [at : Points, text : Texts]
    BY <1>1
  <1> QED BY <1>1, <1>2, <1>3

-----------------------------------------------------------------------------
(* Types. *)

(* The state at the start has its types. *)
LEMMA InitTypeOK == Init => TypeOK /\ FlowInv
  <1> SUFFICES ASSUME Init PROVE TypeOK /\ FlowInv
    OBVIOUS
  <1>1. 0 \in Texts /\ 0 \in Entries
    BY BoundAssumption, SizeAssumption DEF Texts, Entries
  <1>2. sFlowCounters \in [Entries -> EntryType]
    BY <1>1 DEF Init, Empty, EntryType
  <1>3. writer \in [Actors -> [at : Points, text : Texts]]
    BY <1>1 DEF Init, Points
  <1>4. recorded \in [Entries -> Seq(Texts)]
    BY EmptySeq DEF Init
  <1>5. vFlowCount \in 0 .. NUM_OF_FLOWS_TO_KEEP_TRACK_OF /\ flows \in 0 .. MaxFlows
    BY BoundAssumption, SizeAssumption DEF Init
  <1> QED BY <1>1, <1>2, <1>3, <1>4, <1>5 DEF Init, TypeOK, FlowInv, EntryType, Points

(* The steps of record_activity keep the types. *)
LEMMA RecordTypeOK ==
  ASSUME TypeOK, FlowInv, NEW a \in Actors, Record(a)
  PROVE  TypeOK' /\ FlowInv'
  <1> USE DEF Points
  <1>1. CASE StartRecord(a)
    <2>1. myCount + 1 \in Texts
      BY <1>1, BoundAssumption DEF StartRecord, TypeOK, Texts
    <2>2. writer' \in [Actors -> [at : Points, text : Texts]]
      BY <1>1, <2>1 DEF StartRecord, TypeOK
    <2>3. raced' \in BOOLEAN
      BY <1>1 DEF StartRecord
    <2> QED BY <1>1, <2>1, <2>2, <2>3 DEF StartRecord, TypeOK, FlowInv
  <1>2. CASE WriteText(a)
    <2> DEFINE i == Current.num_tuning_activities
               e == IF i \in Places THEN [Current EXCEPT !.what_was_done[i] = writer[a].text]
                                    ELSE Current
    <2>1. writer[a].text \in Texts
      BY DEF TypeOK
    <2>2. e \in EntryType
      BY <2>1, CurrentLemma, EntryLemma
    <2>3. Update(vFlowCount, e) /\ Move(a, "used")
      BY <1>2 DEF WriteText
    <2> HIDE DEF e
    <2>4. sFlowCounters' \in [Entries -> EntryType]
      BY <2>2, <2>3, UpdateLemma
    <2>5. writer' \in [Actors -> [at : Points, text : Texts]]
      BY <2>3, MoveLemma
    <2> QED BY <1>2, <2>4, <2>5 DEF WriteText, TypeOK, FlowInv, EntryType
  <1>3. CASE SetUsed(a)
    <2> DEFINE e == [Current EXCEPT !.gFlowCountUsed = TRUE]
    <2>2. e \in EntryType
      BY CurrentLemma DEF EntryType
    <2>3. Update(vFlowCount, e) /\ Move(a, "count")
      BY <1>3 DEF SetUsed
    <2> HIDE DEF e
    <2>4. sFlowCounters' \in [Entries -> EntryType]
      BY <2>2, <2>3, UpdateLemma
    <2>5. writer' \in [Actors -> [at : Points, text : Texts]]
      BY <2>3, MoveLemma
    <2> QED BY <1>3, <2>4, <2>5 DEF SetUsed, TypeOK, FlowInv, EntryType
  <1>4. CASE Count(a)
    <2> DEFINE e == [Current EXCEPT !.num_tuning_activities = @ + 1]
    <2>2. e \in EntryType
      BY CurrentLemma DEF EntryType
    <2>3. Update(vFlowCount, e) /\ Move(a, "recycle")
      BY <1>4 DEF Count
    <2> HIDE DEF e
    <2>4. sFlowCounters' \in [Entries -> EntryType]
      BY <2>2, <2>3, UpdateLemma
    <2>5. writer' \in [Actors -> [at : Points, text : Texts]]
      BY <2>3, MoveLemma
    <2>6. recorded' \in [Entries -> Seq(Texts)]
      BY <1>4, AppendProperties DEF Count, TypeOK
    <2> QED BY <1>4, <2>4, <2>5, <2>6 DEF Count, TypeOK, FlowInv, EntryType
  <1>5. CASE Recycle(a)
    <2> DEFINE e == IF Current.num_tuning_activities = MAX_TUNING_ACTIVITIES_PER_FLOW
                    THEN [Current EXCEPT !.num_tuning_activities = 0] ELSE Current
    <2>2. e \in EntryType
      BY CurrentLemma DEF EntryType
    <2>3. Update(vFlowCount, e) /\ Move(a, "idle")
      BY <1>5 DEF Recycle
    <2> HIDE DEF e
    <2>4. sFlowCounters' \in [Entries -> EntryType]
      BY <2>2, <2>3, UpdateLemma
    <2>5. writer' \in [Actors -> [at : Points, text : Texts]]
      BY <2>3, MoveLemma
    <2> QED BY <1>5, <2>4, <2>5 DEF Recycle, TypeOK, FlowInv, EntryType
  <1> QED BY <1>1, <1>2, <1>3, <1>4, <1>5 DEF Record

(* The steps of the tracking of flows keep the types. *)
LEMMA TrackFlowsTypeOK ==
  ASSUME TypeOK, FlowInv, TrackFlows
  PROVE  TypeOK' /\ FlowInv'
  <1>1. CASE StopsReceiving
    BY <1>1 DEF StopsReceiving, TypeOK, FlowInv
  <1>2. CASE StartsReceiving
    <2>1. raced' \in BOOLEAN /\ flow' \in {"same", "new"} /\ flow = "same"
      BY <1>2 DEF StartsReceiving
    <2>2. flows' \in 0 .. MaxFlows
      BY <1>2, BoundAssumption DEF StartsReceiving, TypeOK
    <2> QED BY <1>2, <2>1, <2>2 DEF StartsReceiving, TypeOK, FlowInv
  <1>3. CASE NewFlow
    <2>1. vFlowCount \in Entries
      BY <1>3 DEF NewFlow, FlowInv
    <2>2. vFlowCount' \in 0 .. NUM_OF_FLOWS_TO_KEEP_TRACK_OF /\ FlowInv'
      BY <1>3, <2>1, SizeAssumption DEF NewFlow, Entries, FlowInv
    <2> QED BY <1>3, <2>2 DEF NewFlow, TypeOK
  <1>4. CASE WrapFlow
    BY <1>4, SizeAssumption DEF WrapFlow, TypeOK, FlowInv, Entries
  <1>5. CASE ClearNumber
    <2> DEFINE e == [Current EXCEPT !.num_tuning_activities = 0]
    <2>1. e \in EntryType
      BY CurrentLemma DEF EntryType
    <2>2. Update(vFlowCount, e)
      BY <1>5 DEF ClearNumber
    <2> HIDE DEF e
    <2>3. sFlowCounters' \in [Entries -> EntryType]
      BY <2>1, <2>2, UpdateLemma
    <2>4. recorded' \in [Entries -> Seq(Texts)]
      BY <1>5, EmptySeq DEF ClearNumber, TypeOK
    <2> QED BY <1>5, <2>3, <2>4 DEF ClearNumber, TypeOK, FlowInv, EntryType
  <1>6. CASE ClearUsed
    <2> DEFINE e == [Current EXCEPT !.gFlowCountUsed = FALSE]
    <2>1. e \in EntryType
      BY CurrentLemma DEF EntryType
    <2>2. Update(vFlowCount, e)
      BY <1>6 DEF ClearUsed
    <2> HIDE DEF e
    <2>3. sFlowCounters' \in [Entries -> EntryType]
      BY <2>1, <2>2, UpdateLemma
    <2> QED BY <1>6, <2>3 DEF ClearUsed, TypeOK, FlowInv, EntryType
  <1> QED BY <1>1, <1>2, <1>3, <1>4, <1>5, <1>6 DEF TrackFlows

-----------------------------------------------------------------------------
(* The log, as long as nothing has raced. *)

(* A writer that is under way without a race is alone, the flow does not   *)
(* change, and the current entry has a free place unless the writer is     *)
(* about to recycle it.                                                    *)
LEMMA WriterLemma ==
  ASSUME IInv, ~ raced, NEW a \in Actors, Busy(a)
  PROVE  /\ \A b \in Actors : Busy(b) => b = a
         /\ flow = "same"
         /\ vFlowCount \in Entries
         /\ Current = sFlowCounters[vFlowCount]
         /\ Num(vFlowCount) \in Nat
         /\ writer[a].at # "recycle" => Num(vFlowCount) \in Places
  <1>1. /\ \A b \in Actors : Busy(b) => b = a
        /\ flow = "same"
    BY DEF IInv, LogInv, AloneInv
  <1>2. vFlowCount \in Entries
    BY <1>1 DEF IInv, FlowInv
  <1>3. Current = sFlowCounters[vFlowCount] /\ Num(vFlowCount) \in Nat
    BY <1>2, CurrentLemma DEF IInv, EntryType, Num
  <1>4. ASSUME writer[a].at # "recycle" PROVE Num(vFlowCount) \in Places
    <2>1. \A b \in Actors : writer[b].at # "recycle"
      BY <1>1, <1>4 DEF Busy
    <2>2. EntryInv(vFlowCount)
      BY <1>2 DEF IInv, LogInv
    <2> QED BY <1>3, <2>1, <2>2, SizeAssumption DEF EntryInv, Places
  <1> QED BY <1>1, <1>2, <1>3, <1>4

(* An entry that is neither the current one nor touched stays as it is. *)
LEMMA OtherLemma ==
  ASSUME NEW f \in Entries, f # vFlowCount, EntryInv(f), UNCHANGED <<vFlowCount, vFlowCountWrapped>>,
         sFlowCounters'[f] = sFlowCounters[f], recorded'[f] = recorded[f]
  PROVE  EntryInv(f)'
  BY DEF EntryInv, Holds, InHand, Num, Used, What

(* A step in which writer a, alone, goes on and changes only the current   *)
(* entry: what is to be shown is that this entry is right, and a knows.    *)
LEMMA AloneLemma ==
  ASSUME IInv, ~ raced, NEW a \in Actors, Busy(a), NEW to \in Points, Move(a, to),
         NEW e \in EntryType, Update(vFlowCount, e),
         UNCHANGED <<vFlowCount, vFlowCountWrapped, flow, raced>>,
         \A f \in Entries : f # vFlowCount => recorded'[f] = recorded[f],
         EntryInv(vFlowCount)', WriterInv(a)'
  PROVE  LogInv'
  <1>1. /\ \A b \in Actors : Busy(b) => b = a
        /\ flow = "same"
    BY WriterLemma
  <1>2. /\ \A b \in Actors : writer'[b].at = IF b = a THEN to ELSE writer[b].at
    BY MoveLemma DEF IInv
  <1>3. AloneInv' /\ ClearInv'
    BY <1>1, <1>2 DEF AloneInv, ClearInv, Busy
  <1>4. ASSUME NEW f \in Entries PROVE EntryInv(f)'
    <2>1. CASE f = vFlowCount
      BY <2>1
    <2>2. CASE f # vFlowCount
      <3>1. sFlowCounters'[f] = sFlowCounters[f]
        BY <2>2, UpdateLemma DEF IInv
      <3>2. EntryInv(f)
        BY DEF IInv, LogInv
      <3> QED BY <2>2, <3>1, <3>2, OtherLemma
    <2> QED BY <2>1, <2>2
  <1>5. ASSUME NEW b \in Actors PROVE WriterInv(b)'
    <2>1. CASE b = a
      BY <2>1
    <2>2. CASE b # a
      <3>1. writer'[b].at = "idle"
        BY <1>1, <1>2, <2>2 DEF Busy
      <3> QED BY <3>1 DEF WriterInv
    <2> QED BY <2>1, <2>2
  <1> QED BY <1>3, <1>4, <1>5 DEF LogInv

(* record_activity begins. *)
LEMMA StartRecordLogInv ==
  ASSUME IInv, NEW a \in Actors, StartRecord(a)
  PROVE  LogInv'
  <1> SUFFICES ASSUME ~ raced' PROVE LogInv'
    BY DEF LogInv
  <1>1. ~ raced /\ flow = "same" /\ \A b \in Actors : ~ Busy(b)
    BY DEF StartRecord
  <1>2. \A b \in Actors : writer'[b].at = IF b = a THEN "text" ELSE "idle"
    BY <1>1 DEF StartRecord, IInv, TypeOK, Busy
  <1>3. AloneInv' /\ ClearInv' /\ \A b \in Actors : WriterInv(b)'
    BY <1>1, <1>2 DEF AloneInv, ClearInv, WriterInv, Busy, StartRecord
  <1>4. ASSUME NEW f \in Entries PROVE EntryInv(f)'
    <2>1. EntryInv(f) /\ ~ InHand(f) /\ Num(f) # MAX_TUNING_ACTIVITIES_PER_FLOW
      BY <1>1 DEF IInv, LogInv, InHand, EntryInv, Busy
    <2>2. UNCHANGED <<sFlowCounters, recorded, vFlowCount, vFlowCountWrapped>>
      BY DEF StartRecord
    <2> QED BY <2>1, <2>2 DEF EntryInv, Holds, Num, Used, What
  <1> QED BY <1>3, <1>4 DEF LogInv

(* The text is written behind those that are counted. *)
LEMMA WriteTextLogInv ==
  ASSUME IInv, NEW a \in Actors, WriteText(a)
  PROVE  LogInv'
  <1> SUFFICES ASSUME ~ raced' PROVE LogInv'
    BY DEF LogInv
  <1>1. ~ raced /\ Busy(a) /\ writer[a].at = "text"
    BY DEF WriteText, Busy
  <1>2. /\ vFlowCount \in Entries
        /\ Current = sFlowCounters[vFlowCount]
        /\ Num(vFlowCount) \in Places
    BY <1>1, WriterLemma
  <1>3. Current \in EntryType /\ writer[a].text \in Texts
    BY CurrentLemma DEF IInv, TypeOK
  <1> DEFINE n == Num(vFlowCount)
             e == [Current EXCEPT !.what_was_done[n] = writer[a].text]
  <1>4. Update(vFlowCount, e) /\ Move(a, "used")
    BY <1>2 DEF WriteText, Num
  <1>5. /\ e \in EntryType
        /\ e.num_tuning_activities = n
        /\ e.gFlowCountUsed = Used(vFlowCount)
        /\ e.what_was_done = [What(vFlowCount) EXCEPT ![n] = writer[a].text]
        /\ What(vFlowCount) \in [Places -> Texts]
    BY <1>2, <1>3, EntryLemma DEF Num, Used, What, EntryType
  <1> HIDE DEF e
  <1>6. /\ sFlowCounters'[vFlowCount] = e
        /\ \A b \in Actors : writer'[b].at = IF b = a THEN "used" ELSE writer[b].at
        /\ \A b \in Actors : writer'[b].text = writer[b].text
        /\ UNCHANGED <<vFlowCount, vFlowCountWrapped, flow, raced, recorded>>
    BY <1>2, <1>4, <1>5, UpdateLemma, MoveLemma DEF IInv, WriteText, Points
  <1>7. EntryInv(vFlowCount)'
    <2>1. EntryInv(vFlowCount)
      BY <1>1, <1>2 DEF IInv, LogInv
    <2>2. /\ Num(vFlowCount)' = n
          /\ Used(vFlowCount)' = Used(vFlowCount)
          /\ What(vFlowCount)' = [What(vFlowCount) EXCEPT ![n] = writer[a].text]
      BY <1>5, <1>6 DEF Num, Used, What
    <2>3. InHand(vFlowCount)'
      BY <1>6 DEF InHand, Busy
    <2>4. Holds(vFlowCount, Num(vFlowCount))'
      <3>1. \A i \in 0 .. n - 1 : What(vFlowCount)'[i] = What(vFlowCount)[i]
        BY <1>2, <1>5, <2>2, SizeAssumption DEF Places
      <3>2. Holds(vFlowCount, n)
        BY <2>1 DEF EntryInv
      <3> QED BY <1>6, <2>2, <3>1, <3>2 DEF Holds
    <2>5. n < MAX_TUNING_ACTIVITIES_PER_FLOW
      BY <1>2, SizeAssumption DEF Places
    <2>6. recorded[vFlowCount] # <<>>
            => Used(vFlowCount) /\ (vFlowCountWrapped \/ vFlowCount <= vFlowCount)
      BY <2>1 DEF EntryInv
    <2> QED BY <1>6, <2>2, <2>3, <2>4, <2>5, <2>6, <1>2, SizeAssumption DEF EntryInv, Places
  <1>8. WriterInv(a)'
    BY <1>2, <1>5, <1>6 DEF WriterInv, Num, What
  <1> QED BY <1>1, <1>4, <1>5, <1>6, <1>7, <1>8, AloneLemma DEF Points

(* The entry is marked as used. *)
LEMMA SetUsedLogInv ==
  ASSUME IInv, NEW a \in Actors, SetUsed(a)
  PROVE  LogInv'
  <1> SUFFICES ASSUME ~ raced' PROVE LogInv'
    BY DEF LogInv
  <1>1. ~ raced /\ Busy(a) /\ writer[a].at = "used"
    BY DEF SetUsed, Busy
  <1>2. /\ vFlowCount \in Entries
        /\ Current = sFlowCounters[vFlowCount]
        /\ Num(vFlowCount) \in Places
    BY <1>1, WriterLemma
  <1> DEFINE e == [Current EXCEPT !.gFlowCountUsed = TRUE]
  <1>4. Update(vFlowCount, e) /\ Move(a, "count")
    BY DEF SetUsed
  <1>5. /\ e \in EntryType
        /\ e.num_tuning_activities = Num(vFlowCount)
        /\ e.gFlowCountUsed = TRUE
        /\ e.what_was_done = What(vFlowCount)
    BY <1>2, CurrentLemma DEF Num, What, EntryType, IInv
  <1> HIDE DEF e
  <1>6. /\ sFlowCounters'[vFlowCount] = e
        /\ \A b \in Actors : writer'[b].at = IF b = a THEN "count" ELSE writer[b].at
        /\ \A b \in Actors : writer'[b].text = writer[b].text
        /\ UNCHANGED <<vFlowCount, vFlowCountWrapped, flow, raced, recorded>>
    BY <1>2, <1>4, <1>5, UpdateLemma, MoveLemma DEF IInv, SetUsed, Points
  <1>7. EntryInv(vFlowCount)'
    <2>1. EntryInv(vFlowCount)
      BY <1>1, <1>2 DEF IInv, LogInv
    <2>2. /\ Num(vFlowCount)' = Num(vFlowCount)
          /\ Used(vFlowCount)'
          /\ What(vFlowCount)' = What(vFlowCount)
      BY <1>5, <1>6 DEF Num, Used, What
    <2>3. InHand(vFlowCount)'
      BY <1>6 DEF InHand, Busy
    <2>4. Num(vFlowCount) < MAX_TUNING_ACTIVITIES_PER_FLOW
      BY <1>2, SizeAssumption DEF Places
    <2>5. Holds(vFlowCount, Num(vFlowCount))'
      BY <1>6, <2>1, <2>2 DEF EntryInv, Holds
    <2>6. recorded[vFlowCount] # <<>>
            => Used(vFlowCount) /\ (vFlowCountWrapped \/ vFlowCount <= vFlowCount)
      BY <2>1 DEF EntryInv
    <2> QED BY <1>2, <1>6, <2>2, <2>3, <2>4, <2>5, <2>6, SizeAssumption DEF EntryInv, Places
  <1>8. WriterInv(a)'
    <2>1. WriterInv(a)
      BY <1>1 DEF IInv, LogInv
    <2> QED BY <1>1, <1>5, <1>6, <2>1 DEF WriterInv, Num, What, Used
  <1> QED BY <1>1, <1>4, <1>5, <1>6, <1>7, <1>8, AloneLemma DEF Points

(* The text is counted; from here on it is recorded. *)
LEMMA CountLogInv ==
  ASSUME IInv, NEW a \in Actors, Count(a)
  PROVE  LogInv'
  <1> SUFFICES ASSUME ~ raced' PROVE LogInv'
    BY DEF LogInv
  <1>1. ~ raced /\ Busy(a) /\ writer[a].at = "count"
    BY DEF Count, Busy
  <1>2. /\ vFlowCount \in Entries
        /\ Current = sFlowCounters[vFlowCount]
        /\ Num(vFlowCount) \in Places
    BY <1>1, WriterLemma
  <1> DEFINE n == Num(vFlowCount)
             r == recorded[vFlowCount]
             e == [Current EXCEPT !.num_tuning_activities = @ + 1]
  <1>3. n \in Nat /\ n < MAX_TUNING_ACTIVITIES_PER_FLOW
    BY <1>2, SizeAssumption DEF Places
  <1>4. Update(vFlowCount, e) /\ Move(a, "recycle")
    BY DEF Count
  <1>5. /\ e \in EntryType
        /\ e.num_tuning_activities = n + 1
        /\ e.gFlowCountUsed = Used(vFlowCount)
        /\ e.what_was_done = What(vFlowCount)
    BY <1>2, CurrentLemma DEF Num, What, Used, EntryType, IInv
  <1> HIDE DEF e
  <1>6. /\ sFlowCounters'[vFlowCount] = e
        /\ \A b \in Actors : writer'[b].at = IF b = a THEN "recycle" ELSE writer[b].at
        /\ UNCHANGED <<vFlowCount, vFlowCountWrapped, flow, raced>>
    BY <1>2, <1>4, <1>5, UpdateLemma, MoveLemma DEF IInv, Count, Points
  <1>7. /\ r \in Seq(Texts) /\ writer[a].text \in Texts
        /\ recorded'[vFlowCount] = Append(r, writer[a].text)
        /\ \A f \in Entries : f # vFlowCount => recorded'[f] = recorded[f]
    BY <1>2 DEF Count, IInv, TypeOK
  <1>8. /\ Len(r) \in Nat
        /\ Len(recorded'[vFlowCount]) = Len(r) + 1
        /\ \A i \in 1 .. Len(r) : recorded'[vFlowCount][i] = r[i]
        /\ recorded'[vFlowCount][Len(r) + 1] = writer[a].text
    BY <1>7, AppendProperties, LenProperties
  <1>9. /\ Num(vFlowCount)' = n + 1
        /\ Used(vFlowCount)' = Used(vFlowCount)
        /\ What(vFlowCount)' = What(vFlowCount)
    BY <1>5, <1>6 DEF Num, Used, What
  <1>10. What(vFlowCount)[n] = writer[a].text /\ Used(vFlowCount)
    BY <1>1 DEF IInv, LogInv, WriterInv
  <1>11. EntryInv(vFlowCount)
    BY <1>1, <1>2 DEF IInv, LogInv
  <1>12. Holds(vFlowCount, n)
    BY <1>11 DEF EntryInv
  <1> HIDE DEF n, r
  <1>13. Holds(vFlowCount, Num(vFlowCount))'
    <2>1. /\ n <= Len(r)
          /\ \A i \in 0 .. n - 1 : What(vFlowCount)[i] = r[Len(r) - n + 1 + i]
      BY <1>12 DEF Holds, r
    <2>2. ASSUME NEW i \in 0 .. n
          PROVE  What(vFlowCount)[i] = recorded'[vFlowCount][Len(r) - n + 1 + i]
      <3>1. CASE i = n
        BY <1>3, <1>8, <1>10, <3>1
      <3>2. CASE i < n
        <4>1. i \in 0 .. n - 1 /\ Len(r) - n + 1 + i \in 1 .. Len(r)
          BY <1>3, <1>8, <2>1, <3>2
        <4> QED BY <1>8, <2>1, <4>1
      <3> QED BY <1>3, <3>1, <3>2
    <2> SUFFICES /\ n + 1 <= Len(recorded'[vFlowCount])
                 /\ \A i \in 0 .. (n + 1) - 1 :
                      What(vFlowCount)[i]
                        = recorded'[vFlowCount][Len(recorded'[vFlowCount]) - (n + 1) + 1 + i]
      BY <1>6, <1>9 DEF Holds
    <2>3. n + 1 <= Len(recorded'[vFlowCount])
      BY <1>3, <1>8, <2>1
    <2>4. /\ (n + 1) - 1 = n
          /\ \A i \in 0 .. n :
               Len(recorded'[vFlowCount]) - (n + 1) + 1 + i = Len(r) - n + 1 + i
      BY <1>3, <1>8
    <2> QED BY <2>2, <2>3, <2>4
  <1>14. EntryInv(vFlowCount)'
    <2>1. writer'[a].at = "recycle"
      BY <1>6
    <2>2. InHand(vFlowCount)'
      BY <1>6, <2>1 DEF InHand, Busy
    <2>3. n + 1 <= MAX_TUNING_ACTIVITIES_PER_FLOW /\ n + 1 # 0
      BY <1>3, SizeAssumption
    <2>4. vFlowCount <= vFlowCount
      BY <1>2 DEF Entries
    <2> QED BY <1>6, <1>9, <1>10, <1>13, <2>1, <2>2, <2>3, <2>4 DEF EntryInv
  <1>15. WriterInv(a)'
    BY <1>3, <1>6, <1>9, <1>10 DEF WriterInv
  <1> QED BY <1>1, <1>4, <1>5, <1>6, <1>7, <1>14, <1>15, AloneLemma DEF Points

(* A full entry begins at its first place again; all its places are texts. *)
LEMMA RecycleLogInv ==
  ASSUME IInv, NEW a \in Actors, Recycle(a)
  PROVE  LogInv'
  <1> SUFFICES ASSUME ~ raced' PROVE LogInv'
    BY DEF LogInv
  <1>1. ~ raced /\ Busy(a) /\ writer[a].at = "recycle"
    BY DEF Recycle, Busy
  <1>2. /\ vFlowCount \in Entries
        /\ Current = sFlowCounters[vFlowCount]
        /\ Num(vFlowCount) \in Nat
    BY <1>1, WriterLemma
  <1> DEFINE full == Num(vFlowCount) = MAX_TUNING_ACTIVITIES_PER_FLOW
             e == IF full THEN [Current EXCEPT !.num_tuning_activities = 0] ELSE Current
  <1>3. Update(vFlowCount, e) /\ Move(a, "idle")
    BY <1>2 DEF Recycle, Num
  <1>4. /\ e \in EntryType
        /\ e.num_tuning_activities = IF full THEN 0 ELSE Num(vFlowCount)
        /\ e.gFlowCountUsed = Used(vFlowCount)
        /\ e.what_was_done = What(vFlowCount)
    BY <1>2, CurrentLemma DEF Num, What, Used, EntryType, IInv
  <1> HIDE DEF e
  <1>5. /\ sFlowCounters'[vFlowCount] = e
        /\ \A b \in Actors : writer'[b].at = IF b = a THEN "idle" ELSE writer[b].at
        /\ UNCHANGED <<vFlowCount, vFlowCountWrapped, flow, raced, recorded>>
    BY <1>2, <1>3, <1>4, UpdateLemma, MoveLemma DEF IInv, Recycle, Points
  <1>6. /\ Num(vFlowCount)' = IF full THEN 0 ELSE Num(vFlowCount)
        /\ Used(vFlowCount)' = Used(vFlowCount)
        /\ What(vFlowCount)' = What(vFlowCount)
    BY <1>4, <1>5 DEF Num, Used, What
  <1>7. EntryInv(vFlowCount) /\ Used(vFlowCount) /\ Num(vFlowCount) > 0
    BY <1>1, <1>2 DEF IInv, LogInv, WriterInv
  <1>8. /\ Num(vFlowCount) <= MAX_TUNING_ACTIVITIES_PER_FLOW
        /\ Holds(vFlowCount, Num(vFlowCount))
        /\ recorded[vFlowCount] # <<>> => vFlowCountWrapped \/ vFlowCount <= vFlowCount
    BY <1>7 DEF EntryInv
  <1>9. EntryInv(vFlowCount)'
    <2>1. CASE full
      <3>1. Num(vFlowCount)' = 0
        BY <1>6, <2>1
      <3>2. Holds(vFlowCount, MAX_TUNING_ACTIVITIES_PER_FLOW)'
        BY <1>5, <1>6, <1>8, <2>1 DEF Holds
      <3>3. Holds(vFlowCount, 0)'
        <4>1. Len(recorded[vFlowCount]) \in Nat
          BY <1>2, LenProperties DEF IInv, TypeOK
        <4> QED BY <1>5, <4>1 DEF Holds
      <3> QED BY <1>5, <1>6, <1>7, <1>8, <3>1, <3>2, <3>3, SizeAssumption DEF EntryInv
    <2>2. CASE ~ full
      <3>1. Num(vFlowCount)' = Num(vFlowCount)
        BY <1>6, <2>2
      <3>2. Holds(vFlowCount, Num(vFlowCount))'
        BY <1>5, <1>6, <1>8, <3>1 DEF Holds
      <3> QED BY <1>2, <1>5, <1>6, <1>7, <1>8, <2>2, <3>1, <3>2, SizeAssumption DEF EntryInv
    <2> QED BY <2>1, <2>2
  <1>10. WriterInv(a)'
    BY <1>5 DEF WriterInv
  <1> QED BY <1>1, <1>3, <1>4, <1>5, <1>9, <1>10, AloneLemma DEF Points

-----------------------------------------------------------------------------
(* While the flow changes, nobody writes and no entry is full. *)
LEMMA FlowLemma ==
  ASSUME IInv, ~ raced, flow # "same"
  PROVE  /\ \A a \in Actors : writer[a].at = "idle"
         /\ \A f \in Entries : EntryInv(f) /\ Num(f) # MAX_TUNING_ACTIVITIES_PER_FLOW
  BY DEF IInv, LogInv, AloneInv, EntryInv, Busy

(* The rest of the invariant when nobody writes. *)
LEMMA QuietLemma ==
  ASSUME \A a \in Actors : writer[a].at = "idle", UNCHANGED writer, ClearInv',
         \A f \in Entries : EntryInv(f)'
  PROVE  LogInv'
  BY DEF LogInv, AloneInv, WriterInv, Busy

(* Receiving begins: without a race nobody writes when a new flow begins. *)
LEMMA StartsReceivingLogInv ==
  ASSUME IInv, StartsReceiving
  PROVE  LogInv'
  <1> SUFFICES ASSUME ~ raced' PROVE LogInv'
    BY DEF LogInv
  <1>1. /\ ~ raced /\ flow = "same"
        /\ flow' # "same" => flow' = "new" /\ \A a \in Actors : ~ Busy(a)
        /\ UNCHANGED <<sFlowCounters, vFlowCount, vFlowCountWrapped, writer, recorded>>
        /\ flow' # "clear"
    BY DEF StartsReceiving
  <1>2. AloneInv' /\ ClearInv'
    BY <1>1 DEF IInv, LogInv, AloneInv, ClearInv, Busy
  <1>3. \A f \in Entries : EntryInv(f)'
    BY <1>1 DEF IInv, LogInv, EntryInv, Holds, InHand, Busy, Num, Used, What
  <1>4. \A a \in Actors : WriterInv(a)'
    BY <1>1 DEF IInv, LogInv, WriterInv, Num, Used, What
  <1> QED BY <1>2, <1>3, <1>4 DEF LogInv

(* The number of the flow moves, in one step or in two. *)
LEMMA NewFlowLogInv ==
  ASSUME IInv, NewFlow \/ WrapFlow
  PROVE  LogInv'
  <1> SUFFICES ASSUME ~ raced' PROVE LogInv'
    BY DEF LogInv
  <1>1. /\ ~ raced /\ flow \in {"new", "wrap"} /\ flow' \in {"wrap", "number"}
        /\ UNCHANGED <<sFlowCounters, writer, recorded>>
    BY DEF NewFlow, WrapFlow
  <1>2. /\ \A a \in Actors : writer[a].at = "idle"
        /\ \A f \in Entries : EntryInv(f) /\ Num(f) # MAX_TUNING_ACTIVITIES_PER_FLOW
    BY <1>1, FlowLemma
  <1>3. ASSUME NEW f \in Entries PROVE EntryInv(f)'
    <2>1. ~ InHand(f)
      BY <1>1, <1>2 DEF InHand, Busy
    <2>2. recorded[f] # <<>> => Used(f) /\ (vFlowCountWrapped' \/ f <= vFlowCount')
      <3>1. recorded[f] # <<>> => Used(f) /\ (vFlowCountWrapped \/ f <= vFlowCount)
        BY <1>2 DEF EntryInv
      <3>2. CASE NewFlow
        BY <3>1, <3>2 DEF NewFlow, IInv, TypeOK, Entries
      <3>3. CASE WrapFlow
        BY <3>1, <3>3 DEF WrapFlow
      <3> QED BY <3>2, <3>3
    <2> QED BY <1>1, <1>2, <2>1, <2>2 DEF EntryInv, Holds, Num, Used, What
  <1>4. ClearInv'
    BY <1>1 DEF ClearInv
  <1> QED BY <1>1, <1>2, <1>3, <1>4, QuietLemma

(* The count of the new flow is cleared, and nothing is recorded for it. *)
LEMMA ClearNumberLogInv ==
  ASSUME IInv, ClearNumber
  PROVE  LogInv'
  <1> SUFFICES ASSUME ~ raced' PROVE LogInv'
    BY DEF LogInv
  <1>1. /\ ~ raced /\ flow = "number" /\ flow' = "clear"
        /\ UNCHANGED <<vFlowCount, vFlowCountWrapped, writer>>
        /\ recorded' = [recorded EXCEPT ![vFlowCount] = <<>>]
    BY DEF ClearNumber
  <1>2. vFlowCount \in Entries /\ recorded \in [Entries -> Seq(Texts)]
    BY <1>1 DEF IInv, FlowInv, TypeOK
  <1>3. /\ \A a \in Actors : writer[a].at = "idle"
        /\ \A f \in Entries : EntryInv(f) /\ Num(f) # MAX_TUNING_ACTIVITIES_PER_FLOW
    BY <1>1, FlowLemma
  <1> DEFINE e == [Current EXCEPT !.num_tuning_activities = 0]
  <1>4. e \in EntryType /\ e.num_tuning_activities = 0
    BY CurrentLemma DEF IInv, EntryType
  <1>5. Update(vFlowCount, e)
    BY DEF ClearNumber
  <1> HIDE DEF e
  <1>6. /\ sFlowCounters'[vFlowCount] = e
        /\ \A f \in Entries : f # vFlowCount => sFlowCounters'[f] = sFlowCounters[f]
    BY <1>2, <1>4, <1>5, UpdateLemma DEF IInv
  <1>7. recorded'[vFlowCount] = <<>>
    BY <1>1, <1>2
  <1>8. ClearInv'
    BY <1>1, <1>7 DEF ClearInv
  <1>9. ASSUME NEW f \in Entries PROVE EntryInv(f)'
    <2>1. CASE f = vFlowCount
      <3>1. Num(f)' = 0 /\ InHand(f)' /\ recorded'[f] = <<>>
        BY <1>1, <1>4, <1>6, <1>7, <2>1 DEF Num, InHand
      <3>2. Holds(f, 0)'
        BY <3>1 DEF Holds
      <3> QED BY <3>1, <3>2, SizeAssumption DEF EntryInv
    <2>2. CASE f # vFlowCount
      <3>1. recorded'[f] = recorded[f]
        BY <1>1, <1>2, <2>2
      <3> QED BY <1>1, <1>3, <1>6, <2>2, <3>1, OtherLemma
    <2> QED BY <2>1, <2>2
  <1> QED BY <1>1, <1>3, <1>8, <1>9, QuietLemma

(* The mark of the new flow is cleared. *)
LEMMA ClearUsedLogInv ==
  ASSUME IInv, ClearUsed
  PROVE  LogInv'
  <1> SUFFICES ASSUME ~ raced' PROVE LogInv'
    BY DEF LogInv
  <1>1. /\ ~ raced /\ flow = "clear" /\ flow' = "same"
        /\ UNCHANGED <<vFlowCount, vFlowCountWrapped, writer, recorded>>
    BY DEF ClearUsed
  <1>2. vFlowCount \in Entries /\ recorded[vFlowCount] = <<>>
    BY <1>1 DEF IInv, FlowInv, LogInv, ClearInv
  <1>3. /\ \A a \in Actors : writer[a].at = "idle"
        /\ \A f \in Entries : EntryInv(f) /\ Num(f) # MAX_TUNING_ACTIVITIES_PER_FLOW
    BY <1>1, FlowLemma
  <1> DEFINE e == [Current EXCEPT !.gFlowCountUsed = FALSE]
  <1>4. /\ e \in EntryType
        /\ e.num_tuning_activities = Num(vFlowCount)
        /\ e.what_was_done = What(vFlowCount)
        /\ e.gFlowCountUsed = FALSE
    BY <1>2, CurrentLemma DEF IInv, EntryType, Num, What
  <1>5. Update(vFlowCount, e)
    BY DEF ClearUsed
  <1> HIDE DEF e
  <1>6. /\ sFlowCounters'[vFlowCount] = e
        /\ \A f \in Entries : f # vFlowCount => sFlowCounters'[f] = sFlowCounters[f]
    BY <1>2, <1>4, <1>5, UpdateLemma DEF IInv
  <1>7. ClearInv'
    BY <1>1 DEF ClearInv
  <1>8. ASSUME NEW f \in Entries PROVE EntryInv(f)'
    <2>1. CASE f = vFlowCount
      <3>1. Num(f)' = Num(f) /\ What(f)' = What(f) /\ ~ Used(f)' /\ recorded'[f] = <<>>
        BY <1>1, <1>2, <1>4, <1>6, <2>1 DEF Num, What, Used
      <3>2. Holds(f, Num(f))'
        BY <1>1, <1>3, <3>1 DEF EntryInv, Holds
      <3> QED BY <1>3, <3>1, <3>2 DEF EntryInv
    <2>2. CASE f # vFlowCount
      BY <1>1, <1>3, <1>6, <2>2, OtherLemma
    <2> QED BY <2>1, <2>2
  <1> QED BY <1>1, <1>3, <1>7, <1>8, QuietLemma

-----------------------------------------------------------------------------
(* The inductive invariant holds of the empty log. *)
LEMMA InitIInv == Init => IInv
  <1> SUFFICES ASSUME Init PROVE IInv
    OBVIOUS
  <1>1. AloneInv /\ ClearInv /\ \A a \in Actors : WriterInv(a)
    BY DEF Init, AloneInv, ClearInv, WriterInv, Busy
  <1>2. ASSUME NEW f \in Entries PROVE EntryInv(f)
    <2>1. Num(f) = 0 /\ ~ Used(f) /\ recorded[f] = <<>>
      BY DEF Init, Empty, Num, Used
    <2>2. Holds(f, 0)
      BY <2>1 DEF Holds
    <2> QED BY <2>1, <2>2, SizeAssumption DEF EntryInv
  <1> QED BY <1>1, <1>2, InitTypeOK DEF IInv, LogInv

(* Every step preserves the inductive invariant. *)
LEMMA StepIInv == IInv /\ [Next]_vars => IInv'
  <1> SUFFICES ASSUME IInv, [Next]_vars PROVE IInv'
    OBVIOUS
  <1>1. CASE TrackFlows
    <2>1. TypeOK' /\ FlowInv'
      BY <1>1, TrackFlowsTypeOK DEF IInv
    <2>2. LogInv'
      <3>1. CASE StopsReceiving
        BY <3>1 DEF StopsReceiving, IInv, LogInv, AloneInv, ClearInv, EntryInv, WriterInv, Holds,
                    InHand, Busy, Num, Used, What
      <3> QED BY <1>1, <3>1, StartsReceivingLogInv, NewFlowLogInv, ClearNumberLogInv,
                 ClearUsedLogInv DEF TrackFlows
    <2> QED BY <2>1, <2>2 DEF IInv
  <1>2. ASSUME NEW a \in Actors, Record(a) PROVE IInv'
    <2>1. TypeOK' /\ FlowInv'
      BY <1>2, RecordTypeOK DEF IInv
    <2>2. LogInv'
      BY <1>2, StartRecordLogInv, WriteTextLogInv, SetUsedLogInv, CountLogInv, RecycleLogInv
         DEF Record
    <2> QED BY <2>1, <2>2 DEF IInv
  <1>3. CASE UNCHANGED vars
    <2>1. TypeOK' /\ FlowInv'
      BY <1>3 DEF IInv, TypeOK, FlowInv, vars
    <2>2. LogInv'
      BY <1>3 DEF vars, IInv, LogInv, AloneInv, ClearInv, EntryInv, WriterInv, Holds,
                  InHand, Busy, Num, Used, What
    <2> QED BY <2>1, <2>2 DEF IInv
  <1> QED BY <1>1, <1>2, <1>3 DEF Next

(* Every reachable state satisfies the inductive invariant. *)
THEOREM Invariance == Spec => []IInv
  <1>1. Init => IInv
    BY InitIInv
  <1>2. IInv /\ [Next]_vars => IInv'
    BY StepIInv
  <1> QED BY <1>1, <1>2, PTL DEF Spec

(* The counters and the texts have their types, races or none. *)
THEOREM TypeCorrect == Spec => []TypeOK
  <1>1. IInv => TypeOK
    BY DEF IInv
  <1> QED BY <1>1, Invariance, PTL

(* Without a race record_activity writes inside the table. *)
THEOREM WritesStayInTable == Spec => []PlaceInTable
  <1>1. IInv => PlaceInTable
    <2> SUFFICES ASSUME IInv, ~ raced, NEW a \in Actors, writer[a].at = "text"
                 PROVE  vFlowCount \in Entries /\ Current.num_tuning_activities \in Places
      BY DEF PlaceInTable
    <2> QED BY WriterLemma DEF Busy, Num
  <1> QED BY <1>1, Invariance, PTL

(* What a suffix is. *)
LEMMA SuffixLemma ==
  ASSUME NEW S, NEW s \in Seq(S), NEW t \in Seq(S), Len(s) <= Len(t),
         \A i \in 1 .. Len(s) : s[i] = t[Len(t) - Len(s) + i]
  PROVE  IsSuffix(s, t)
  <1>1. Len(s) \in Nat /\ Len(t) \in Nat
    BY LenProperties
  <1>2. /\ Reverse(s) \in Seq(S) /\ Len(Reverse(s)) = Len(s)
        /\ \A i \in 1 .. Len(s) : Reverse(s)[i] = s[(Len(s) - i) + 1]
    BY <1>1 DEF Reverse
  <1>3. /\ Reverse(t) \in Seq(S) /\ Len(Reverse(t)) = Len(t)
        /\ \A i \in 1 .. Len(t) : Reverse(t)[i] = t[(Len(t) - i) + 1]
    BY <1>1 DEF Reverse
  <1>4. \A i \in 1 .. Len(s) : Reverse(s)[i] = Reverse(t)[i]
    <2> SUFFICES ASSUME NEW i \in 1 .. Len(s) PROVE Reverse(s)[i] = Reverse(t)[i]
      OBVIOUS
    <2>1. /\ (Len(s) - i) + 1 \in 1 .. Len(s)
          /\ Len(t) - Len(s) + ((Len(s) - i) + 1) = (Len(t) - i) + 1
          /\ i \in 1 .. Len(t)
      BY <1>1
    <2> QED BY <1>2, <1>3, <2>1
  <1> HIDE DEF Reverse
  <1> DEFINE x == SubSeq(Reverse(s), 1, Len(s))
             y == SubSeq(Reverse(t), 1, Len(s))
  <1>5. /\ x \in Seq(S) /\ Len(x) = Len(s)
        /\ \A i \in 1 .. Len(s) : x[i] = Reverse(s)[i]
    BY <1>1, <1>2, SubSeqProperties, ElementOfSeq
  <1>6. /\ y \in Seq(S) /\ Len(y) = Len(s)
        /\ \A i \in 1 .. Len(s) : y[i] = Reverse(t)[i]
    BY <1>1, <1>3, SubSeqProperties, ElementOfSeq
  <1> HIDE DEF x, y
  <1>7. x = y
    BY <1>4, <1>5, <1>6, SeqEqual
  <1> QED BY <1>2, <1>3, <1>7 DEF IsSuffix, IsPrefix, x, y

(* Without a race, and whenever nobody is at it, the request "-pc" lists   *)
(* for each flow that is kept its most recent activities in their order,   *)
(* nothing of the flow that had the entry before, and it leaves out no     *)
(* flow that had any.                                                      *)
THEOREM ListingsAreRecent == Spec => []ListingIsRecent
  <1>1. IInv => ListingIsRecent
    <2> SUFFICES ASSUME IInv, ~ raced, Settled, NEW f \in Entries
                 PROVE  /\ IsSuffix(Listed(f), recorded[f])
                        /\ recorded[f] # <<>> => Listed(f) # <<>> /\ f < LoopMax
      BY DEF ListingIsRecent
    <2>1. EntryInv(f) /\ ~ InHand(f)
      BY DEF IInv, LogInv, InHand, Settled
    <2> DEFINE k == NumActivities(sFlowCounters[f])
               r == recorded[f]
    <2>2. sFlowCounters[f] \in EntryType /\ r \in Seq(Texts) /\ Len(r) \in Nat
      BY LenProperties DEF IInv, TypeOK, EntryType
    <2>3. /\ k \in 0 .. MAX_TUNING_ACTIVITIES_PER_FLOW
          /\ Holds(f, k)
          /\ Used(f) => k # 0
      BY <2>1, <2>2, SizeAssumption DEF NumActivities, EntryInv, EntryType, Num, Used
    <2> HIDE DEF k
    <2>4. Listed(f) = [i \in 1 .. k |-> What(f)[i - 1]]
      BY DEF Listed, What, k
    <2>5. \A i \in 1 .. k : What(f)[i - 1] \in Texts
      BY <2>2, <2>3, SizeAssumption DEF What, EntryType, Places
    <2>6. Listed(f) \in Seq(Texts) /\ Len(Listed(f)) = k
      BY <2>3, <2>4, <2>5, SizeAssumption
    <2>7. \A i \in 1 .. k : Listed(f)[i] = r[Len(r) - k + i]
      <3> SUFFICES ASSUME NEW i \in 1 .. k PROVE Listed(f)[i] = r[Len(r) - k + i]
        OBVIOUS
      <3>1. i - 1 \in 0 .. k - 1 /\ Len(r) - k + 1 + (i - 1) = Len(r) - k + i
        BY <2>2, <2>3, SizeAssumption
      <3> QED BY <2>3, <2>4, <3>1 DEF Holds
    <2>8. IsSuffix(Listed(f), r)
      BY <2>2, <2>3, <2>6, <2>7, SuffixLemma DEF Holds
    <2>9. ASSUME r # <<>> PROVE Listed(f) # <<>> /\ f < LoopMax
      <3>1. Used(f) /\ (vFlowCountWrapped \/ f <= vFlowCount)
        BY <2>1, <2>9 DEF EntryInv
      <3>2. Listed(f) # <<>>
        BY <2>3, <2>6, <3>1, EmptySeq
      <3>3. f < LoopMax
        BY <3>1, SizeAssumption DEF LoopMax, Entries, IInv, TypeOK
      <3> QED BY <3>2, <3>3
    <2> QED BY <2>8, <2>9
  <1> QED BY <1>1, Invariance, PTL

=============================================================================
