-------------------------- MODULE DailyTrips_proofs --------------------------
(***************************************************************************)
(* Proofs about DailyTrips, for any calls, slots and bounds.               *)
(***************************************************************************)
EXTENDS DailyTrips, TLAPS

\* The seed stays within the calendar, and misses only at an offset of its window.
SeedInv ==
    /\ seedDay + Window <= LastDay
    /\ \A s \in Slots : seedMiss[s] => seedAt[s] \in Offsets

\* A row of another slot than its id says was changed by an admin.
OwnSlotInv == \A i \in Ids : Exists(i) /\ row[i].slot # i[2] => i \in touched

\* Row i is one that the last look of writer w was for.
LookedFor(w, i) ==
    IF w \in Calls
    THEN /\ pc[w] \in {"read", "insert"} /\ row[i].day = day[w]
         /\ slot[w] = None \/ row[i].slot = slot[w]
    ELSE seedMiss[w] /\ row[i].day = seedDay + seedAt[w] /\ row[i].slot = w

\* A writer that is about to write saw no active row of what it writes, except for
\* those written since and those an admin changed.
SeenInv ==
    \A w \in Writers, i \in Ids :
        Active(i) /\ LookedFor(w, i) => i \in missed[w] \cup touched

IInv == TypeOK /\ SeedInv /\ OwnSlotInv /\ SeenInv /\ DuplicateNeedsRace

\* Writers are calls or slots of the seed, never both.
LEMMA TwoKinds ==
    /\ \A s \in Slots : s \notin Calls /\ s \in Writers
    /\ \A c \in Calls : c \in Writers
  BY CallAssumption DEF Writers

\* History keeps its type.
LEMMA WroteType ==
    ASSUME TypeOK, NEW w \in Writers, NEW I \in SUBSET Ids, Wrote(w, I)
    PROVE  missed' \in [Writers -> SUBSET Ids] /\ missedBy' \in [Ids -> SUBSET Ids]
  BY DEF Wrote, TypeOK

\* A call that ends keeps its variables' types, and looks for nothing any more.
LEMMA EndsType ==
    ASSUME TypeOK, NEW c \in Calls, Ends(c)
    PROVE  /\ pc' \in [Calls -> {"idle", "read", "insert", "done"}] /\ day' \in [Calls -> Days]
           /\ slot' \in [Calls -> Slots \cup {None}] /\ wanted' \in [Calls -> SUBSET Slots]
           /\ pc'[c] = "done"
           /\ \A d \in Calls \ {c} : pc'[d] = pc[d] /\ day'[d] = day[d] /\ slot'[d] = slot[d]
  <1>1. 0 \in Days
    BY BoundAssumption DEF Days
  <1>2. QED
    BY <1>1 DEF Ends, TypeOK

\* The steps of calls that only look.
LEMMA LookStepType ==
    ASSUME TypeOK, NEW c \in Calls,
           \/ \E d \in Days : CountNone(c, d) \/ (\E s \in Slots : CreateRead(c, s, d))
           \/ \E plan \in SUBSET Slots : ReadPlan(c, plan)
           \/ Fails(c)
    PROVE  TypeOK'
  <1>1. ASSUME NEW d \in Days, CountNone(c, d) PROVE TypeOK'
    <2>1. Ends(c) \/ (/\ pc' = [pc EXCEPT ![c] = "read"] /\ day' = [day EXCEPT ![c] = d]
                      /\ UNCHANGED <<slot, wanted>>)
      BY <1>1 DEF CountNone
    <2>2. /\ pc' \in [Calls -> {"idle", "read", "insert", "done"}] /\ day' \in [Calls -> Days]
          /\ slot' \in [Calls -> Slots \cup {None}] /\ wanted' \in [Calls -> SUBSET Slots]
      BY <2>1, EndsType DEF TypeOK
    <2>3. QED
      BY <1>1, <2>2 DEF CountNone, Looks, seed, TypeOK
  <1>2. ASSUME NEW d \in Days, NEW s \in Slots, CreateRead(c, s, d) PROVE TypeOK'
    <2>1. Ends(c) \/ (/\ pc' = [pc EXCEPT ![c] = "insert"] /\ day' = [day EXCEPT ![c] = d]
                      /\ slot' = [slot EXCEPT ![c] = s] /\ UNCHANGED wanted)
      BY <1>2 DEF CreateRead
    <2>2. /\ pc' \in [Calls -> {"idle", "read", "insert", "done"}] /\ day' \in [Calls -> Days]
          /\ slot' \in [Calls -> Slots \cup {None}] /\ wanted' \in [Calls -> SUBSET Slots]
      BY <2>1, EndsType DEF TypeOK
    <2>3. QED
      BY <1>2, <2>2 DEF CreateRead, Looks, seed, TypeOK
  <1>3. ASSUME NEW plan \in SUBSET Slots, ReadPlan(c, plan) PROVE TypeOK'
    <2>1. Ends(c) \/ (/\ pc' = [pc EXCEPT ![c] = "insert"] /\ wanted' = [wanted EXCEPT ![c] = plan]
                      /\ UNCHANGED <<day, slot>>)
      BY <1>3 DEF ReadPlan
    <2>2. /\ pc' \in [Calls -> {"idle", "read", "insert", "done"}] /\ day' \in [Calls -> Days]
          /\ slot' \in [Calls -> Slots \cup {None}] /\ wanted' \in [Calls -> SUBSET Slots]
      BY <2>1, EndsType DEF TypeOK
    <2>3. QED
      BY <1>3, <2>2 DEF ReadPlan, seed, history, TypeOK
  <1>4. CASE Fails(c)
    BY <1>4, EndsType DEF Fails, Looks, seed, TypeOK
  <1>5. QED
    BY <1>1, <1>2, <1>3, <1>4

\* The three steps that plant rows, and what they have in common: writer w plants
\* the rows I for its day, each of a slot of its own, and then looks for nothing.
Plants(w, I) ==
    /\ Wrote(w, I)
    /\ \A i \in Ids \ I : row'[i] = row[i] /\ (i \in touched => i \in touched')
    /\ \A i, j \in I : row'[i].slot = row'[j].slot => i = j
    /\ \A i \in I : \/ i \in touched'
                   \/ \A j \in Ids : (/\ Active(j) /\ row[j].slot = row'[i].slot
                                       /\ row[j].day = row'[i].day) => LookedFor(w, j)
    /\ \A i \in Ids : ~LookedFor(w, i)'
    /\ \A v \in Writers \ {w}, i \in Ids :
          LookedFor(v, i)' => /\ Looking(v) /\ TargetDay(v) = row'[i].day
                              /\ row'[i] = row[i] => LookedFor(v, i)

\* Whoever is about to write for the same day misses the new rows.
LEMMA PlantsSeen ==
    ASSUME TypeOK, SeenInv, NEW w \in Writers, NEW I \in SUBSET Ids, Plants(w, I)
    PROVE  SeenInv'
  <1> SUFFICES ASSUME NEW v \in Writers, NEW i \in Ids, Active(i)', LookedFor(v, i)'
               PROVE  i \in missed'[v] \cup touched'
    BY DEF SeenInv
  <1>1. v # w
    BY DEF Plants
  <1>2. /\ Looking(v) /\ TargetDay(v) = row'[i].day
        /\ row'[i] = row[i] => LookedFor(v, i)
    BY <1>1 DEF Plants, LookedFor
  <1>3. missed'[v] = missed[v] \cup {j \in I : row'[j].day = TargetDay(v)}
    BY <1>1, <1>2 DEF Plants, Wrote
  <1>4. CASE i \in I
    BY <1>2, <1>3, <1>4
  <1>5. CASE i \notin I
    <2>1. row'[i] = row[i] /\ Active(i)
      BY <1>5 DEF Plants, Active, Exists
    <2>2. i \in missed[v] \cup touched
      BY <1>2, <2>1 DEF SeenInv
    <2>3. QED
      BY <1>3, <1>5, <2>2 DEF Plants
  <1>6. QED
    BY <1>4, <1>5

\* A new row that doubles another one was written by someone who missed that one.
LEMMA PlantsNoDuplicate ==
    ASSUME TypeOK, SeenInv, DuplicateNeedsRace, NEW w \in Writers, NEW I \in SUBSET Ids, Plants(w, I)
    PROVE  DuplicateNeedsRace'
  <1>1. \A i \in Ids \ I : row'[i] = row[i] /\ missedBy'[i] = missedBy[i] \ I
    BY DEF Plants, Wrote
  <1>2. \A i \in I : missedBy'[i] = {j \in missed[w] : row[j].slot = row'[i].slot}
    BY DEF Plants, Wrote
  <1>3. ASSUME NEW i \in I, NEW j \in Ids, i # j, Active(i)', Active(j)',
               row'[j].slot = row'[i].slot, row'[j].day = row'[i].day
        PROVE  i \in touched' \/ j \in touched' \/ j \in missedBy'[i]
    <2>1. j \notin I
      BY <1>3 DEF Plants
    <2>2. row'[j] = row[j] /\ Active(j)
      BY <1>3, <2>1 DEF Plants, Active, Exists
    <2>3. i \in touched' \/ LookedFor(w, j)
      BY <1>3, <2>2 DEF Plants
    <2>4. i \in touched' \/ j \in missed[w] \/ j \in touched
      BY <2>2, <2>3 DEF SeenInv
    <2>5. QED
      BY <1>2, <1>3, <2>1, <2>2, <2>4 DEF Plants
  <1>4. ASSUME NEW i \in Ids \ I, NEW j \in Ids \ I, i # j, Active(i)', Active(j)',
               row'[j].slot = row'[i].slot, row'[j].day = row'[i].day
        PROVE  i \in touched' \/ j \in touched' \/ i \in missedBy'[j] \/ j \in missedBy'[i]
    <2>1. Active(i) /\ Active(j) /\ On(j, row[i].slot, row[i].day)
      BY <1>1, <1>4 DEF Active, Exists, On
    <2>2. i \in touched \/ j \in touched \/ i \in missedBy[j] \/ j \in missedBy[i]
      BY <1>4, <2>1 DEF DuplicateNeedsRace
    <2>3. QED
      BY <1>1, <1>4, <2>2 DEF Plants
  <1>5. QED
    BY <1>3, <1>4 DEF DuplicateNeedsRace, On

\* A search that is about to generate trips saw no active one of its day.
LEMMA GeneratePlants ==
    ASSUME TypeOK, SeenInv, NEW c \in Calls, Generate(c)
    PROVE  Plants(c, {c} \X wanted[c])
  <1> DEFINE I == {c} \X wanted[c]
  <1>1. /\ pc[c] = "insert" /\ slot[c] = None /\ Wrote(c, I) /\ Ends(c)
        /\ row' = [i \in Ids |-> IF i \in I
                     THEN [slot |-> i[2], day |-> day[c], status |-> "ACTIVE"] ELSE row[i]]
        /\ UNCHANGED <<seedDay, seedAt, seedMiss, touched>>
    BY DEF Generate, seed
  <1>2. I \subseteq Ids
    BY DEF TypeOK, Ids
  <1>3. \A i \in I : row'[i].slot = i[2] /\ row'[i].day = day[c]
    BY <1>1, <1>2
  <1>4. \A i, j \in I : row'[i].slot = row'[j].slot => i = j
    BY <1>3
  <1>5. \A i \in I, j \in Ids : row[j].day = row'[i].day => LookedFor(c, j)
    BY <1>1, <1>3 DEF LookedFor
  <1>6. \A i \in Ids : ~LookedFor(c, i)'
    BY <1>1, EndsType DEF LookedFor
  <1>7. ASSUME NEW v \in Writers \ {c}, NEW i \in Ids, LookedFor(v, i)'
        PROVE  /\ Looking(v) /\ TargetDay(v) = row'[i].day
               /\ row'[i] = row[i] => LookedFor(v, i)
    BY <1>1, <1>7, EndsType DEF LookedFor, Looking, TargetDay
  <1>8. \A i \in Ids \ I : row'[i] = row[i]
    BY <1>1
  <1>9. QED
    BY <1>1, <1>4, <1>5, <1>6, <1>7, <1>8 DEF Plants

\* Generated trips are trips.
LEMMA GenerateType ==
    ASSUME TypeOK, NEW c \in Calls, Generate(c)
    PROVE  TypeOK'
  <1>1. {c} \X wanted[c] \in SUBSET Ids
    BY DEF TypeOK, Ids
  <1>2. missed' \in [Writers -> SUBSET Ids] /\ missedBy' \in [Ids -> SUBSET Ids]
    BY <1>1, TwoKinds, WroteType DEF Generate
  <1>3. row' \in [Ids -> Trips \cup {None}]
    BY DEF Generate, TypeOK, Trips, Ids, Statuses
  <1>4. QED
    BY <1>2, <1>3, EndsType DEF Generate, TypeOK, seed

\* An admin's creation saw no active trip of its coach, day and time.
LEMMA CreatePlants ==
    ASSUME TypeOK, SeenInv, NEW c \in Calls, NEW status \in Statuses, Create(c, status)
    PROVE  Plants(c, {<<c, slot[c]>>}) /\ TypeOK'
  <1> DEFINE new == <<c, slot[c]>>
  <1>1. /\ pc[c] = "insert" /\ slot[c] # None /\ Wrote(c, {new}) /\ Ends(c)
        /\ row' = [row EXCEPT ![new] = [slot |-> slot[c], day |-> day[c], status |-> status]]
        /\ UNCHANGED <<seedDay, seedAt, seedMiss, touched, disturbed>>
    BY DEF Create, seed
  <1>2. new \in Ids /\ slot[c] \in Slots /\ day[c] \in Days
    BY <1>1 DEF TypeOK, Ids
  <1>3. /\ row'[new] = [slot |-> slot[c], day |-> day[c], status |-> status]
        /\ \A i \in Ids \ {new} : row'[i] = row[i]
    BY <1>1, <1>2 DEF TypeOK
  <1>4. \A j \in Ids : row[j].day = row'[new].day /\ row[j].slot = row'[new].slot => LookedFor(c, j)
    BY <1>1, <1>3 DEF LookedFor
  <1>5. \A i \in Ids : ~LookedFor(c, i)'
    BY <1>1, EndsType DEF LookedFor
  <1>6. ASSUME NEW v \in Writers \ {c}, NEW i \in Ids, LookedFor(v, i)'
        PROVE  /\ Looking(v) /\ TargetDay(v) = row'[i].day
               /\ row'[i] = row[i] => LookedFor(v, i)
    BY <1>1, <1>6, EndsType DEF LookedFor, Looking, TargetDay
  <1>7. Plants(c, {new})
    BY <1>1, <1>3, <1>4, <1>5, <1>6 DEF Plants
  <1>8. missed' \in [Writers -> SUBSET Ids] /\ missedBy' \in [Ids -> SUBSET Ids]
    BY <1>1, <1>2, TwoKinds, WroteType
  <1>9. row' \in [Ids -> Trips \cup {None}]
    BY <1>2, <1>3, <1>1 DEF TypeOK, Trips
  <1>10. QED
    BY <1>1, <1>7, <1>8, <1>9, EndsType DEF TypeOK

\* The upsert by the seed puts one row on the day it has come to, in the slot it
\* stands for or in the one the row has had.
LEMMA UpsertPlace ==
    ASSUME IInv, NEW s \in Slots, SeedUpsert(s)
    PROVE  LET i == <<seedAt[s], s>> IN
           /\ i \in Ids /\ seedAt[s] \in Offsets
           /\ row'[i] \in Trips /\ row'[i].day = seedDay + seedAt[s]
           /\ row'[i].slot = s \/ (Exists(i) /\ row'[i].slot = row[i].slot)
           /\ \A j \in Ids \ {i} : row'[j] = row[j]
           /\ row' \in [Ids -> Trips \cup {None}]
  <1> DEFINE i == <<seedAt[s], s>>
             d == seedDay + seedAt[s]
  <1>1. /\ seedMiss[s]
        /\ \/ row' = [row EXCEPT ![i] = [slot |-> s, day |-> d, status |-> "ACTIVE"]]
           \/ /\ Exists(i)
              /\ \E t \in {s, row[i].slot} :
                    row' = [row EXCEPT ![i] = [slot |-> t, day |-> d, status |-> row[i].status]]
    BY DEF SeedUpsert
  <1>2. i \in Ids /\ seedAt[s] \in Offsets /\ seedDay + seedAt[s] \in Days
    BY <1>1, BoundAssumption DEF IInv, SeedInv, TypeOK, Ids, Offsets, Days
  <1>3. CASE row' = [row EXCEPT ![i] = [slot |-> s, day |-> d, status |-> "ACTIVE"]]
    BY <1>2, <1>3 DEF IInv, TypeOK, Trips, Statuses
  <1>4. ASSUME Exists(i), NEW t \in {s, row[i].slot},
               row' = [row EXCEPT ![i] = [slot |-> t, day |-> d, status |-> row[i].status]]
        PROVE  /\ row'[i] \in Trips /\ row'[i].day = seedDay + seedAt[s]
               /\ row'[i].slot = s \/ row'[i].slot = row[i].slot
               /\ \A j \in Ids \ {i} : row'[j] = row[j]
               /\ row' \in [Ids -> Trips \cup {None}]
    <2>1. row[i] \in Trips
      BY <1>2, <1>4 DEF IInv, TypeOK, Exists
    <2>2. QED
      BY <1>2, <1>4, <2>1 DEF IInv, TypeOK, Trips
  <1>5. QED
    BY <1>1, <1>2, <1>3, <1>4

\* The seed saw no trip of its slot and day; a row it moves is one of its own, or
\* one that an admin changed.
LEMMA UpsertPlants ==
    ASSUME IInv, NEW s \in Slots, SeedUpsert(s)
    PROVE  Plants(s, {<<seedAt[s], s>>}) /\ TypeOK'
  <1> DEFINE i == <<seedAt[s], s>>
  <1>1. /\ seedMiss[s] /\ Wrote(s, {i}) /\ SeedGoesOn(s)
        /\ touched' = IF row'[i].slot = s THEN touched \ {i} ELSE touched
        /\ UNCHANGED <<pc, day, slot, wanted, seedDay, disturbed>>
    BY DEF SeedUpsert, local
  <1>2. s \in Writers /\ s \notin Calls
    BY TwoKinds
  <1>3. /\ i \in Ids /\ seedAt[s] \in Offsets
        /\ row'[i] \in Trips /\ row'[i].day = seedDay + seedAt[s]
        /\ row'[i].slot = s \/ (Exists(i) /\ row'[i].slot = row[i].slot)
        /\ \A j \in Ids \ {i} : row'[j] = row[j]
        /\ row' \in [Ids -> Trips \cup {None}]
    BY UpsertPlace
  <1>4. row'[i].slot # s => i \in touched'
    BY <1>1, <1>2, <1>3 DEF IInv, OwnSlotInv
  <1>5. \A j \in Ids : (/\ row[j].slot = s /\ row[j].day = row'[i].day) => LookedFor(s, j)
    BY <1>1, <1>2, <1>3 DEF LookedFor
  <1>6. /\ seedMiss' = [seedMiss EXCEPT ![s] = FALSE] /\ seedAt' = [seedAt EXCEPT ![s] = @ + 1]
        /\ seedMiss' \in [Slots -> BOOLEAN] /\ seedAt' \in [Slots -> 0..(Window + 1)]
    BY <1>1, <1>3, BoundAssumption DEF SeedGoesOn, IInv, TypeOK, Offsets
  <1>7. \A j \in Ids : ~LookedFor(s, j)'
    BY <1>2, <1>6 DEF LookedFor, IInv, TypeOK
  <1>8. ASSUME NEW v \in Writers \ {s}, NEW j \in Ids, LookedFor(v, j)'
        PROVE  /\ Looking(v) /\ TargetDay(v) = row'[j].day
               /\ row'[j] = row[j] => LookedFor(v, j)
    BY <1>1, <1>6, <1>8 DEF LookedFor, Looking, TargetDay, Writers, IInv, TypeOK
  <1>9. Plants(s, {i})
    BY <1>1, <1>3, <1>4, <1>5, <1>7, <1>8 DEF Plants
  <1>10. missed' \in [Writers -> SUBSET Ids] /\ missedBy' \in [Ids -> SUBSET Ids]
    BY <1>1, <1>2, <1>3, WroteType DEF IInv
  <1>11. QED
    BY <1>1, <1>3, <1>6, <1>9, <1>10 DEF IInv, TypeOK

\* After a planting step rows still tell their slot by their id, or were touched.
LEMMA StepPlants ==
    ASSUME IInv, [Next]_vars,
           \/ \E c \in Calls : Generate(c) \/ \E status \in Statuses : Create(c, status)
           \/ \E s \in Slots : SeedUpsert(s)
    PROVE  IInv'
  <1>1. ASSUME NEW w \in Writers, NEW I \in SUBSET Ids, Plants(w, I) PROVE SeenInv' /\ DuplicateNeedsRace'
    BY <1>1, PlantsSeen, PlantsNoDuplicate DEF IInv
  <1>2. ASSUME NEW c \in Calls, Generate(c) PROVE IInv'
    <2>1. {c} \X wanted[c] \in SUBSET Ids /\ c \in Writers
      BY TwoKinds DEF IInv, TypeOK, Ids
    <2>2. SeenInv' /\ DuplicateNeedsRace' /\ TypeOK'
      BY <1>1, <1>2, <2>1, GeneratePlants, GenerateType DEF IInv
    <2>3. SeedInv'
      BY <1>2 DEF Generate, seed, IInv, SeedInv
    <2>4. OwnSlotInv'
      BY <1>2 DEF Generate, IInv, OwnSlotInv, Exists
    <2>5. QED
      BY <2>2, <2>3, <2>4 DEF IInv
  <1>3. ASSUME NEW c \in Calls, NEW status \in Statuses, Create(c, status) PROVE IInv'
    <2>1. {<<c, slot[c]>>} \in SUBSET Ids /\ c \in Writers
      BY <1>3, TwoKinds DEF Create, IInv, TypeOK, Ids
    <2>2. SeenInv' /\ DuplicateNeedsRace' /\ TypeOK'
      BY <1>1, <1>3, <2>1, CreatePlants DEF IInv
    <2>3. SeedInv'
      BY <1>3 DEF Create, seed, IInv, SeedInv
    <2>4. OwnSlotInv'
      BY <1>3 DEF Create, IInv, OwnSlotInv, Exists, TypeOK
    <2>5. QED
      BY <2>2, <2>3, <2>4 DEF IInv
  <1>4. ASSUME NEW s \in Slots, SeedUpsert(s) PROVE IInv'
    <2>1. <<seedAt[s], s>> \in Ids /\ s \in Writers
      <3>1. seedAt[s] \in Offsets
        BY <1>4 DEF SeedUpsert, IInv, SeedInv
      <3>2. QED
        BY <3>1, TwoKinds DEF Ids
    <2>2. SeenInv' /\ DuplicateNeedsRace' /\ TypeOK'
      BY <1>1, <1>4, <2>1, UpsertPlants DEF IInv
    <2>3. SeedInv'
      BY <1>4 DEF SeedUpsert, SeedGoesOn, IInv, SeedInv, TypeOK
    <2>4. /\ \A i \in Ids \ {<<seedAt[s], s>>} : row'[i] = row[i]
          /\ touched' = IF row'[<<seedAt[s], s>>].slot = s THEN touched \ {<<seedAt[s], s>>} ELSE touched
          /\ row'[<<seedAt[s], s>>].slot # s => <<seedAt[s], s>> \in touched'
      <3>1. Plants(s, {<<seedAt[s], s>>})
        BY <1>4, UpsertPlants
      <3>2. \A i \in Ids \ {<<seedAt[s], s>>} : row'[i] = row[i]
        BY <3>1 DEF Plants
      <3>3. row'[<<seedAt[s], s>>].slot # s =>
              Exists(<<seedAt[s], s>>) /\ row'[<<seedAt[s], s>>].slot = row[<<seedAt[s], s>>].slot
        BY <1>4, <2>1 DEF SeedUpsert, IInv, TypeOK
      <3>4. QED
        BY <1>4, <2>1, <3>2, <3>3 DEF SeedUpsert, IInv, OwnSlotInv
    <2>5. OwnSlotInv'
      BY <2>1, <2>4 DEF IInv, OwnSlotInv, Exists
    <2>6. QED
      BY <2>2, <2>3, <2>5 DEF IInv
  <1>5. QED
    BY <1>2, <1>3, <1>4

\* Steps that neither plant nor change rows: a writer comes to look, and sees what
\* there is, or stops looking.
LEMMA StepLooks ==
    ASSUME IInv, TypeOK', SeedInv', UNCHANGED <<row, touched, missedBy>>,
           \A w \in Writers, i \in Ids :
               Active(i) /\ LookedFor(w, i)' /\ i \notin touched
                   => LookedFor(w, i) /\ missed'[w] = missed[w]
    PROVE  IInv'
  <1>1. SeenInv'
    <2> SUFFICES ASSUME NEW w \in Writers, NEW i \in Ids, Active(i)', LookedFor(w, i)', i \notin touched'
                 PROVE  i \in missed'[w]
      BY DEF SeenInv
    <2>1. Active(i) /\ i \notin touched
      BY DEF Active, Exists
    <2>2. LookedFor(w, i) /\ missed'[w] = missed[w]
      BY <2>1 DEF LookedFor
    <2>3. QED
      BY <2>1, <2>2 DEF IInv, SeenInv
  <1>2. OwnSlotInv' /\ DuplicateNeedsRace'
    BY DEF IInv, OwnSlotInv, DuplicateNeedsRace, Exists, Active, On
  <1>3. QED
    BY <1>1, <1>2 DEF IInv

\* The looks of searches and creations.
LEMMA StepCallLooks ==
    ASSUME IInv, NEW c \in Calls,
           \/ \E d \in Days : CountNone(c, d) \/ (\E s \in Slots : CreateRead(c, s, d))
           \/ \E plan \in SUBSET Slots : ReadPlan(c, plan)
           \/ Fails(c)
    PROVE  IInv'
  <1>1. TypeOK' /\ UNCHANGED <<row, touched, missedBy, seedDay, seedAt, seedMiss>>
    BY LookStepType DEF IInv, CountNone, CreateRead, ReadPlan, Fails, seed, history
  <1>2. SeedInv'
    BY <1>1 DEF IInv, SeedInv
  <1>3. /\ \A d \in Calls \ {c} : pc'[d] = pc[d] /\ day'[d] = day[d] /\ slot'[d] = slot[d]
        /\ \A w \in Writers \ {c} : missed'[w] = missed[w]
    BY DEF CountNone, CreateRead, ReadPlan, Fails, Ends, Looks, history, IInv, TypeOK
  <1>4. \A w \in Writers \ {c}, i \in Ids : LookedFor(w, i)' => LookedFor(w, i)
    BY <1>1, <1>3 DEF LookedFor
  <1>5. ASSUME NEW i \in Ids, Active(i), LookedFor(c, i)'
        PROVE  LookedFor(c, i) /\ missed'[c] = missed[c]
    <2>1. pc'[c] # "done" /\ row'[i].day = day'[c] /\ (slot'[c] = None \/ row'[i].slot = slot'[c])
      BY <1>5 DEF LookedFor
    <2>2. ~Ends(c)
      BY <2>1, EndsType DEF IInv
    <2>3. ASSUME NEW d \in Days, CountNone(c, d) PROVE FALSE
      BY <1>1, <1>5, <2>1, <2>2, <2>3 DEF CountNone, IInv, TypeOK
    <2>4. ASSUME NEW d \in Days, NEW s \in Slots, CreateRead(c, s, d) PROVE FALSE
      <3>1. day'[c] = d /\ slot'[c] = s /\ s # None
        BY <2>2, <2>4, CallAssumption DEF CreateRead, IInv, TypeOK
      <3>2. row[i].day = d /\ row[i].slot = s
        BY <1>1, <2>1, <3>1
      <3>3. QED
        BY <1>5, <2>2, <2>4, <3>2 DEF CreateRead, Active
    <2>5. ASSUME NEW plan \in SUBSET Slots, ReadPlan(c, plan)
          PROVE  LookedFor(c, i) /\ missed'[c] = missed[c]
      BY <1>1, <2>1, <2>2, <2>5 DEF ReadPlan, LookedFor, history
    <2>6. CASE Fails(c)
      BY <2>2, <2>6 DEF Fails
    <2>7. QED
      BY <2>3, <2>4, <2>5, <2>6
  <1>6. QED
    BY <1>1, <1>2, <1>3, <1>4, <1>5, StepLooks

\* The look of the seed.
LEMMA StepSeedFind ==
    ASSUME IInv, NEW s \in Slots, SeedFind(s)
    PROVE  IInv'
  <1>1. /\ seedAt[s] \in Offsets /\ missed' = [missed EXCEPT ![s] = {}]
        /\ UNCHANGED <<row, pc, day, slot, wanted, seedDay, touched, missedBy, disturbed>>
        /\ \/ SeedGoesOn(s)
           \/ /\ ~\E i \in Ids : On(i, s, seedDay + seedAt[s])
              /\ seedMiss' = [seedMiss EXCEPT ![s] = TRUE] /\ UNCHANGED seedAt
    BY DEF SeedFind, Looks, local
  <1>2. s \in Writers /\ s \notin Calls
    BY TwoKinds
  <1>3. TypeOK' /\ SeedInv'
    <2>1. CASE SeedGoesOn(s)
      <3>1. seedAt[s] + 1 \in 0..(Window + 1)
        BY <1>1, BoundAssumption DEF Offsets
      <3>2. QED
        BY <1>1, <2>1, <3>1 DEF SeedGoesOn, IInv, SeedInv, TypeOK
    <2>2. CASE seedMiss' = [seedMiss EXCEPT ![s] = TRUE] /\ UNCHANGED seedAt
      BY <1>1, <2>2 DEF IInv, SeedInv, TypeOK
    <2>3. QED
      BY <1>1, <2>1, <2>2
  <1>4. /\ \A w \in Writers \ {s} : missed'[w] = missed[w]
        /\ \A w \in Slots \ {s} : seedMiss'[w] = seedMiss[w] /\ seedAt'[w] = seedAt[w]
    BY <1>1 DEF SeedGoesOn, IInv, TypeOK
  <1>5. \A w \in Writers \ {s}, i \in Ids : LookedFor(w, i)' => LookedFor(w, i)
    BY <1>1, <1>4 DEF LookedFor, Writers
  <1>6. ASSUME NEW i \in Ids, Active(i), LookedFor(s, i)' PROVE FALSE
    <2>1. CASE SeedGoesOn(s)
      BY <1>2, <1>6, <2>1 DEF SeedGoesOn, LookedFor, IInv, TypeOK
    <2>2. CASE /\ ~\E j \in Ids : On(j, s, seedDay + seedAt[s])
               /\ UNCHANGED seedAt
      BY <1>1, <1>2, <1>6, <2>2 DEF LookedFor, On, Active
    <2>3. QED
      BY <1>1, <2>1, <2>2
  <1>7. QED
    BY <1>1, <1>3, <1>4, <1>5, <1>6, StepLooks

\* A run of the seed forgets what an earlier one saw.
LEMMA StepSeedStart ==
    ASSUME IInv, NEW d \in Days, SeedStart(d)
    PROVE  IInv'
  <1>1. /\ d + Window <= LastDay /\ seedDay' = d
        /\ disturbed' = (disturbed \/ d # seedDay)
        /\ seedAt' = [s \in Slots |-> 0] /\ seedMiss' = [s \in Slots |-> FALSE]
        /\ missed' = [w \in Writers |-> IF w \in Slots THEN {} ELSE missed[w]]
        /\ UNCHANGED <<row, pc, day, slot, wanted, touched, missedBy>>
    BY DEF SeedStart, local
  <1>2. disturbed' \in BOOLEAN
    BY <1>1 DEF IInv, TypeOK
  <1>3. TypeOK' /\ SeedInv'
    BY <1>1, <1>2, BoundAssumption DEF IInv, SeedInv, TypeOK
  <1>4. \A w \in Writers, i \in Ids : LookedFor(w, i)' => w \in Calls /\ LookedFor(w, i)
    BY <1>1 DEF LookedFor, Writers
  <1>5. \A w \in Calls : missed'[w] = missed[w]
    BY <1>1, CallAssumption DEF Writers
  <1>6. QED
    BY <1>1, <1>3, <1>4, <1>5, StepLooks

\* The admin's unchecked changes: a row that is changed is touched, and a removed
\* one is forgotten.
LEMMA StepAdmin ==
    ASSUME IInv, NEW i \in Ids, Remove(i) \/ \E t \in Trips : Update(i, t)
    PROVE  IInv'
  <1>1. ASSUME NEW t \in Trips, Update(i, t) PROVE IInv'
    <2>1. /\ row' = [row EXCEPT ![i] = t] /\ touched' = touched \cup {i} /\ disturbed' = TRUE
          /\ UNCHANGED <<pc, day, slot, wanted, seedDay, seedAt, seedMiss, missed, missedBy>>
      BY <1>1 DEF Update, local, seed
    <2>2. TypeOK' /\ SeedInv'
      BY <2>1 DEF IInv, SeedInv, TypeOK
    <2>3. \A j \in Ids \ {i} : row'[j] = row[j]
      BY <2>1 DEF IInv, TypeOK
    <2>4. OwnSlotInv'
      BY <2>1, <2>3 DEF IInv, OwnSlotInv, Exists
    <2>5. SeenInv'
      BY <2>1, <2>3 DEF IInv, SeenInv, LookedFor, Active, Exists
    <2>6. DuplicateNeedsRace'
      BY <2>1, <2>3 DEF IInv, DuplicateNeedsRace, Active, Exists, On
    <2>7. QED
      BY <2>2, <2>4, <2>5, <2>6 DEF IInv
  <1>2. CASE Remove(i)
    <2>1. /\ row' = [row EXCEPT ![i] = None] /\ touched' = touched \ {i} /\ disturbed' = TRUE
          /\ missed' = [w \in Writers |-> missed[w] \ {i}]
          /\ missedBy' = [j \in Ids |-> IF j = i THEN {} ELSE missedBy[j] \ {i}]
          /\ UNCHANGED <<pc, day, slot, wanted, seedDay, seedAt, seedMiss>>
      BY <1>2 DEF Remove, Forgets, local, seed
    <2>2. TypeOK' /\ SeedInv'
      BY <2>1 DEF IInv, SeedInv, TypeOK
    <2>3. ~Exists(i)' /\ \A j \in Ids \ {i} : row'[j] = row[j]
      BY <2>1 DEF IInv, TypeOK, Exists
    <2>4. OwnSlotInv'
      BY <2>1, <2>3 DEF IInv, OwnSlotInv, Exists
    <2>5. SeenInv'
      BY <2>1, <2>3 DEF IInv, SeenInv, LookedFor, Active, Exists
    <2>6. DuplicateNeedsRace'
      BY <2>1, <2>3 DEF IInv, DuplicateNeedsRace, Active, Exists, On
    <2>7. QED
      BY <2>2, <2>4, <2>5, <2>6 DEF IInv
  <1>3. QED
    BY <1>1, <1>2

\* Every step keeps the invariant.
LEMMA Inductive == IInv /\ [Next]_vars => IInv'
  <1> SUFFICES ASSUME IInv, [Next]_vars PROVE IInv'
    OBVIOUS
  <1>1. ASSUME NEW c \in Calls, CallStep(c) PROVE IInv'
    BY <1>1, StepPlants, StepCallLooks DEF CallStep
  <1>2. ASSUME NEW s \in Slots, SeedFind(s) \/ SeedUpsert(s) PROVE IInv'
    BY <1>2, StepPlants, StepSeedFind
  <1>3. CASE UNCHANGED vars
    BY <1>3 DEF vars, local, seed, history, IInv, TypeOK, SeedInv, OwnSlotInv, SeenInv,
                DuplicateNeedsRace, LookedFor, Active, Exists, On
  <1>4. QED
    BY <1>1, <1>2, <1>3, StepSeedStart, StepAdmin DEF Next

\* The empty timetable satisfies it.
LEMMA InitIInv == Init => IInv
  <1> SUFFICES ASSUME Init PROVE IInv
    OBVIOUS
  <1>1. 0 \in Days /\ 0 \in 0..(Window + 1)
    BY BoundAssumption DEF Days
  <1>2. TypeOK
    BY <1>1 DEF Init, TypeOK
  <1>3. SeedInv
    BY BoundAssumption DEF Init, SeedInv
  <1>4. OwnSlotInv /\ SeenInv /\ DuplicateNeedsRace
    BY DEF Init, OwnSlotInv, SeenInv, DuplicateNeedsRace, Exists, Active
  <1>5. QED
    BY <1>2, <1>3, <1>4 DEF IInv

\* The inductive invariant holds in every reachable state.
THEOREM Invariance == Spec => []IInv
  BY InitIInv, Inductive, PTL DEF Spec

\* Every variable keeps its type: trips stay within the calendar and have ids of
\* the call or the seed run that planted them.
THEOREM TypeCorrect == Spec => []TypeOK
  <1>1. IInv => TypeOK
    BY DEF IInv
  <1>2. QED
    BY Invariance, <1>1, PTL

\* For any number of searches, creations, slots and seed runs: two active trips of
\* one slot on one day take two writers that overlapped, or an admin's update.
THEOREM Duplicates == Spec => []DuplicateNeedsRace
  <1>1. IInv => DuplicateNeedsRace
    BY DEF IInv
  <1>2. QED
    BY Invariance, <1>1, PTL

-----------------------------------------------------------------------------
(* The seed leaves no day without a trip *)

\* Left undisturbed, a call writes rows that are not there yet, and the rows that
\* bear an offset are those the seed has planted at that offset.
PlantedInv ==
    ~disturbed =>
        /\ \A c \in Calls, s \in Slots : pc[c] # "done" => ~Exists(<<c, s>>)
        /\ \A o \in Offsets, s \in Slots :
              Exists(<<o, s>>) => On(<<o, s>>, s, seedDay + o)

CInv == IInv /\ PlantedInv /\ SeedCovers

\* Steps that keep every row there is, and let the seed go on only over trips.
LEMMA KeepsCover ==
    ASSUME CInv, UNCHANGED <<seedDay, disturbed>>,
           ~disturbed => \A i \in Ids : Exists(i) => row'[i] = row[i],
           \A o \in Offsets, s \in Slots : row'[<<o, s>>] = row[<<o, s>>],
           \A c \in Calls : pc'[c] # "done" =>
               pc[c] # "done" /\ \A s \in Slots : row'[<<c, s>>] = row[<<c, s>>],
           \A s \in Slots, o \in Offsets : o < seedAt'[s] =>
               o < seedAt[s] \/ \E i \in Ids : On(i, s, seedDay + o)
    PROVE  PlantedInv' /\ SeedCovers'
  <1> SUFFICES ASSUME ~disturbed PROVE PlantedInv' /\ SeedCovers'
    BY DEF PlantedInv, SeedCovers
  <1>1. PlantedInv'
    BY DEF CInv, PlantedInv, Exists, On
  <1>2. ASSUME NEW s \in Slots, NEW o \in Offsets, o < seedAt'[s]
        PROVE  \E i \in Ids : On(i, s, seedDay + o)'
    <2>1. PICK i \in Ids : On(i, s, seedDay + o)
      BY <1>2 DEF CInv, SeedCovers
    <2>2. On(i, s, seedDay + o)'
      BY <2>1 DEF On, Exists
    <2>3. QED
      BY <2>2
  <1>3. QED
    BY <1>1, <1>2 DEF SeedCovers, On, Exists

\* Calls write rows of their own, once.
LEMMA CallCovers ==
    ASSUME CInv, NEW c \in Calls, CallStep(c)
    PROVE  PlantedInv' /\ SeedCovers'
  <1>1. CASE \/ \E d \in Days : CountNone(c, d) \/ (\E s \in Slots : CreateRead(c, s, d))
             \/ \E plan \in SUBSET Slots : ReadPlan(c, plan)
             \/ Fails(c)
    <2>1. /\ UNCHANGED <<row, seedDay, seedAt, disturbed>> /\ pc[c] # "done"
          /\ \A d \in Calls \ {c} : pc'[d] = pc[d]
      BY <1>1 DEF CountNone, CreateRead, ReadPlan, Fails, Ends, seed, history, CInv, IInv, TypeOK
    <2>2. QED
      BY <2>1, KeepsCover
  <1>2. CASE Generate(c) \/ \E status \in Statuses : Create(c, status)
    <2>1. /\ UNCHANGED <<seedDay, seedAt, disturbed>> /\ pc[c] = "insert" /\ Ends(c)
          /\ \A i \in Ids : i \notin {c} \X Slots => row'[i] = row[i]
      <3>1. CASE Generate(c)
        <4>1. \A i \in Ids : i \in {c} \X wanted[c] => i \in {c} \X Slots
          BY DEF CInv, IInv, TypeOK
        <4>2. QED
          BY <3>1, <4>1 DEF Generate, seed
      <3>2. ASSUME NEW status \in Statuses, Create(c, status) PROVE  <2>1
        <4>1. slot[c] \in Slots
          BY <3>2 DEF Create, CInv, IInv, TypeOK
        <4>2. QED
          BY <3>2, <4>1 DEF Create, seed, CInv, IInv, TypeOK
      <3>3. QED
        BY <1>2, <3>1, <3>2
    <2>2. pc'[c] = "done" /\ \A d \in Calls \ {c} : pc'[d] = pc[d]
      BY <2>1, EndsType DEF CInv, IInv
    <2>3. \A o \in Offsets, s \in Slots : <<o, s>> \in Ids /\ <<o, s>> \notin {c} \X Slots
      BY CallAssumption DEF Ids
    <2>4. \A d \in Calls \ {c}, s \in Slots : <<d, s>> \in Ids /\ <<d, s>> \notin {c} \X Slots
      BY DEF Ids
    <2>5. ~disturbed => \A i \in Ids : Exists(i) => row'[i] = row[i]
      BY <2>1 DEF CInv, PlantedInv
    <2>6. QED
      BY <2>1, <2>2, <2>3, <2>4, <2>5, KeepsCover
  <1>3. QED
    BY <1>1, <1>2 DEF CallStep

\* The seed goes on only where it has found a trip, ...
LEMMA FindCovers ==
    ASSUME CInv, NEW s \in Slots, SeedFind(s)
    PROVE  PlantedInv' /\ SeedCovers'
  <1>1. /\ seedAt[s] \in Offsets
        /\ UNCHANGED <<row, pc, seedDay, disturbed>>
        /\ \/ /\ \E i \in Ids : On(i, s, seedDay + seedAt[s])
              /\ seedAt' = [seedAt EXCEPT ![s] = @ + 1]
           \/ UNCHANGED seedAt
    BY DEF SeedFind, SeedGoesOn, local
  <1>2. ASSUME NEW t \in Slots, NEW o \in Offsets, o < seedAt'[t]
        PROVE  o < seedAt[t] \/ \E i \in Ids : On(i, t, seedDay + o)
    <2>1. o < seedAt[s] + 1 => o < seedAt[s] \/ o = seedAt[s]
      BY <1>1, BoundAssumption DEF Offsets
    <2>2. QED
      BY <1>1, <1>2, <2>1 DEF CInv, IInv, TypeOK
  <1>3. QED
    BY <1>1, <1>2, KeepsCover

\* ... or has planted one, and moves no row of another day.
LEMMA UpsertCovers ==
    ASSUME CInv, NEW s \in Slots, SeedUpsert(s)
    PROVE  PlantedInv' /\ SeedCovers'
  <1> DEFINE i == <<seedAt[s], s>>
  <1>1. /\ seedAt[s] \in Offsets /\ i \in Ids
        /\ \A j \in Ids \ {i} : row'[j] = row[j]
        /\ row'[i] \in Trips /\ row'[i].day = seedDay + seedAt[s]
        /\ row'[i].slot = s \/ (Exists(i) /\ row'[i].slot = row[i].slot)
    BY UpsertPlace DEF CInv
  <1>2. UNCHANGED <<pc, seedDay, disturbed>> /\ seedAt' = [seedAt EXCEPT ![s] = @ + 1]
    BY DEF SeedUpsert, SeedGoesOn, local
  <1> SUFFICES ASSUME ~disturbed PROVE PlantedInv' /\ SeedCovers'
    BY <1>2 DEF PlantedInv, SeedCovers
  <1>3. Exists(i) => On(i, s, seedDay + seedAt[s])
    BY <1>1 DEF CInv, PlantedInv
  <1>4. row'[i] # None /\ row'[i].slot = s /\ row'[i].day = seedDay + seedAt[s]
    BY <1>1, <1>3, CallAssumption DEF On
  <1>5. PlantedInv'
    <2>1. \A c \in Calls, t \in Slots : <<c, t>> \in Ids /\ <<c, t>> # i
      BY <1>1, CallAssumption DEF Ids
    <2>2. \A o \in Offsets, t \in Slots :
              <<o, t>> \in Ids /\ (<<o, t>> = i => o = seedAt[s] /\ t = s)
      BY DEF Ids
    <2>3. QED
      BY <1>1, <1>2, <1>4, <2>1, <2>2 DEF CInv, PlantedInv, Exists, On
  <1>6. ASSUME NEW t \in Slots, NEW o \in Offsets, o < seedAt'[t]
        PROVE  \E j \in Ids : On(j, t, seedDay + o)'
    <2>1. CASE t = s /\ o = seedAt[s]
      <3>1. On(<<o, s>>, s, seedDay + o)'
        BY <1>2, <1>4, <2>1 DEF On, Exists
      <3>2. QED
        BY <1>1, <2>1, <3>1
    <2>2. CASE ~(t = s /\ o = seedAt[s])
      <3>1. o < seedAt[t]
        <4>1. CASE t # s
          BY <1>2, <1>6, <4>1 DEF CInv, IInv, TypeOK
        <4>2. CASE t = s
          <5>1. o < seedAt[s] + 1 /\ o # seedAt[s]
            BY <1>2, <1>6, <2>2, <4>2 DEF CInv, IInv, TypeOK
          <5>2. QED
            BY <1>1, <4>2, <5>1, BoundAssumption DEF Offsets
        <4>3. QED
          BY <4>1, <4>2
      <3>2. PICK j \in Ids : On(j, t, seedDay + o)
        BY <3>1 DEF CInv, SeedCovers
      <3>3. CASE j = i
        <4>1. t = s /\ seedDay + o = seedDay + seedAt[s]
          BY <1>3, <3>2, <3>3 DEF On
        <4>2. seedDay \in Int /\ seedAt[s] \in Int /\ o \in Int
          BY <1>1, BoundAssumption DEF Offsets, Days, CInv, IInv, TypeOK
        <4>3. o = seedAt[s]
          BY <4>1, <4>2
        <4>4. QED
          BY <2>2, <4>1, <4>3
      <3>4. CASE j # i
        <4>1. On(j, t, seedDay + o)'
          BY <1>1, <1>2, <3>2, <3>4 DEF On, Exists
        <4>2. QED
          BY <4>1
      <3>5. QED
        BY <3>3, <3>4
    <2>3. QED
      BY <2>1, <2>2
  <1>7. QED
    BY <1>2, <1>5, <1>6 DEF SeedCovers, On, Exists

\* A run that begins on the same day has gone through nothing yet.
LEMMA StartCovers ==
    ASSUME CInv, NEW d \in Days, SeedStart(d)
    PROVE  PlantedInv' /\ SeedCovers'
  <1>1. /\ ~disturbed' => ~disturbed /\ seedDay' = seedDay
        /\ seedAt' = [s \in Slots |-> 0] /\ UNCHANGED <<row, pc>>
    BY DEF SeedStart, local
  <1>2. PlantedInv'
    BY <1>1 DEF CInv, PlantedInv, Exists, On
  <1>3. SeedCovers'
    BY <1>1, BoundAssumption DEF SeedCovers, Offsets
  <1>4. QED
    BY <1>2, <1>3

\* Every step keeps it.
LEMMA CoverInductive == CInv /\ [Next]_vars => CInv'
  <1> SUFFICES ASSUME CInv, [Next]_vars PROVE PlantedInv' /\ SeedCovers'
    BY Inductive DEF CInv
  <1>1. ASSUME NEW i \in Ids, Remove(i) \/ \E t \in Trips : Update(i, t)
        PROVE  PlantedInv' /\ SeedCovers'
    <2>1. disturbed'
      BY <1>1 DEF Remove, Forgets, Update
    <2>2. QED
      BY <2>1 DEF PlantedInv, SeedCovers
  <1>2. CASE UNCHANGED vars
    BY <1>2 DEF vars, local, seed, history, CInv, PlantedInv, SeedCovers, Exists, On
  <1>3. QED
    BY <1>1, <1>2, CallCovers, FindCovers, UpsertCovers, StartCovers DEF Next

\* A run of the seed that has gone through all days of a slot has left none of them
\* without a trip, for any window and calendar, after any number of runs cut off
\* and any searches, when all runs began on one day and no admin interfered.
THEOREM SeedLeavesNoGap == Spec => []SeedCovers
  <1>1. Init => CInv
    <2> SUFFICES ASSUME Init PROVE CInv
      OBVIOUS
    <2>1. \A i \in Ids : ~Exists(i)
      BY DEF Init, Exists
    <2>2. \A c \in Calls \cup Offsets, s \in Slots : <<c, s>> \in Ids
      BY DEF Ids
    <2>3. PlantedInv
      BY <2>1, <2>2 DEF PlantedInv
    <2>4. SeedCovers
      BY BoundAssumption DEF Init, SeedCovers, Offsets
    <2>5. QED
      BY <2>3, <2>4, InitIInv DEF CInv
  <1>2. CInv => SeedCovers
    BY DEF CInv
  <1>3. QED
    BY <1>1, <1>2, CoverInductive, PTL DEF Spec

=============================================================================
