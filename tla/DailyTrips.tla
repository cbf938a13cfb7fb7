----------------------------- MODULE DailyTrips -----------------------------
(***************************************************************************)
(* The schedules table (src/src/schedules/schedules.service.ts): trips     *)
(* that a search generates for a day without any, trips an admin creates,  *)
(* changes, cancels or removes, and trips the seed script plants           *)
(* (src/prisma/seed.ts).                                                   *)
(*                                                                         *)
(* Every writer looks first and writes after another await, no writer uses *)
(* a transaction, and no unique key covers coach, day and time.  A slot is *)
(* an entry of the daily timetable: a route, a coach and a departure time. *)
(* The seed names its rows after the distance from the day on which it     *)
(* runs, so a run on a later day meets rows that were planted for another. *)
(***************************************************************************)
EXTENDS Integers, FiniteSets

CONSTANTS
    Calls,       \* searches and creations
    Slots,       \* the scheduleMatrix
    Departure,   \* Departure[s]: the coach and the time of slot s
    Window,      \* the seed plants days today .. today + Window
    LastDay,     \* bound of the model: the calendar
    MaxTouched,  \* bound of the model: rows that an admin has changed
    None         \* no row, or no slot

Offsets == 0..Window
Days == 0..LastDay
Ids == (Calls \cup Offsets) \X Slots    \* a call makes at most one row per slot
Statuses == {"ACTIVE", "INACTIVE", "CANCELLED"}   \* INACTIVE also for COMPLETED
Trips == [slot : Slots, day : Days, status : Statuses]

ASSUME CallAssumption ==
    Calls \cap (Offsets \cup Slots) = {} /\ None \notin Trips \cup Slots
ASSUME BoundAssumption == Window \in Nat /\ LastDay \in Nat /\ Window <= LastDay

VARIABLES
    row,       \* row[i]: the schedule with id i
    pc,        \* pc[c]: where call c stands
    day,       \* day[c]: the day searched for, or given to create
    slot,      \* slot[c]: the slot given to create, None in a search
    wanted,    \* wanted[c]: the slots of the routes and coaches c has read
    seedDay,   \* the day on which the latest run of the seed began
    seedAt,    \* seedAt[s]: the offset at which that run stands for slot s
    seedMiss,  \* seedMiss[s]: it has found no trip there
    touched,   \* history: rows that an admin changed after their creation
    missed,    \* history: missed[w]: rows written since writer w looked
    missedBy,  \* history: missedBy[i]: those rows when i was written
    disturbed  \* history: an admin changed or removed rows, or the seed ran on two days

Writers == Calls \cup Slots     \* the seed is one writer per slot

seed == <<seedDay, seedAt, seedMiss>>
local == <<pc, day, slot, wanted>>
history == <<touched, missed, missedBy, disturbed>>
vars == <<row, local, seed, history>>

TypeOK ==
    /\ row \in [Ids -> Trips \cup {None}]
    /\ pc \in [Calls -> {"idle", "read", "insert", "done"}]
    /\ day \in [Calls -> Days]
    /\ slot \in [Calls -> Slots \cup {None}]
    /\ wanted \in [Calls -> SUBSET Slots]
    /\ seedDay \in Days
    /\ seedAt \in [Slots -> 0..(Window + 1)]
    /\ seedMiss \in [Slots -> BOOLEAN]
    /\ touched \subseteq Ids
    /\ missed \in [Writers -> SUBSET Ids]
    /\ missedBy \in [Ids -> SUBSET Ids]
    /\ disturbed \in BOOLEAN

Init ==
    /\ row = [i \in Ids |-> None]
    /\ pc = [c \in Calls |-> "idle"]
    /\ day = [c \in Calls |-> 0]
    /\ slot = [c \in Calls |-> None]
    /\ wanted = [c \in Calls |-> {}]
    /\ seedDay = 0
    /\ seedAt = [s \in Slots |-> 0]
    /\ seedMiss = [s \in Slots |-> FALSE]
    /\ touched = {}
    /\ missed = [w \in Writers |-> {}]
    /\ missedBy = [i \in Ids |-> {}]
    /\ disturbed = FALSE

Exists(i) == row[i] # None
Active(i) == Exists(i) /\ row[i].status = "ACTIVE"
On(i, s, d) == Exists(i) /\ row[i].slot = s /\ row[i].day = d

\* History: writer w looks now; it has missed whatever is written from here on.
Looks(w) == missed' = [missed EXCEPT ![w] = {}]

Looking(w) == IF w \in Calls THEN pc[w] \in {"read", "insert"} ELSE seedMiss[w]
TargetDay(w) == IF w \in Calls THEN day[w] ELSE seedDay + seedAt[w]

\* History: writer w has written the rows I, unseen by those about to write for
\* the same day.
Wrote(w, I) ==
    /\ missed' = [v \in Writers |->
          IF v = w \/ ~Looking(v) THEN {}
          ELSE missed[v] \cup {i \in I : row'[i].day = TargetDay(v)}]
    /\ missedBy' = [i \in Ids |->
          IF i \in I THEN {j \in missed[w] : row[j].slot = row'[i].slot}
          ELSE missedBy[i] \ I]

\* A call is over: nothing it has read is used again.
Ends(c) ==
    /\ pc' = [pc EXCEPT ![c] = "done"]
    /\ day' = [day EXCEPT ![c] = 0]
    /\ slot' = [slot EXCEPT ![c] = None]
    /\ wanted' = [wanted EXCEPT ![c] = {}]

-----------------------------------------------------------------------------
(* ensureDailySchedulesForDate, called by every search for a day *)

\* Faulty: the count looks at the first day only.
CountFirstDay(c, d) ==
    /\ pc[c] = "idle"
    /\ IF \E i \in Ids : Active(i) /\ row[i].day = 0
       THEN Ends(c)
       ELSE /\ pc' = [pc EXCEPT ![c] = "read"]
            /\ day' = [day EXCEPT ![c] = d]
            /\ UNCHANGED <<slot, wanted>>
    /\ Looks(c)
    /\ UNCHANGED <<row, seed, touched, missedBy, disturbed>>

\* The count of active schedules of day d; if there are any, nothing is made.
CountNone(c, d) ==
    /\ pc[c] = "idle"
    /\ IF \E i \in Ids : Active(i) /\ row[i].day = d
       THEN Ends(c)
       ELSE /\ pc' = [pc EXCEPT ![c] = "read"]
            /\ day' = [day EXCEPT ![c] = d]
            /\ UNCHANGED <<slot, wanted>>
    /\ Looks(c)
    /\ UNCHANGED <<row, seed, touched, missedBy, disturbed>>

\* The routes and coaches that are active at this moment give the slots to make.
ReadPlan(c, plan) ==
    /\ pc[c] = "read"
    /\ IF plan = {}
       THEN Ends(c)
       ELSE /\ pc' = [pc EXCEPT ![c] = "insert"]
            /\ wanted' = [wanted EXCEPT ![c] = plan]
            /\ UNCHANGED <<day, slot>>
    /\ UNCHANGED <<row, seed, history>>

\* createMany, one statement; skipDuplicates has no key to skip by.
Generate(c) ==
    /\ pc[c] = "insert" /\ slot[c] = None
    /\ row' = [i \in Ids |-> IF i \in {c} \X wanted[c]
                 THEN [slot |-> i[2], day |-> day[c], status |-> "ACTIVE"]
                 ELSE row[i]]
    /\ Wrote(c, {c} \X wanted[c])
    /\ Ends(c)
    /\ UNCHANGED <<seed, touched, disturbed>>

-----------------------------------------------------------------------------
(* create, update, cancel, remove: the admin's calls *)

\* The duplicate check: coach, day and time of a schedule that is not cancelled.
CreateRead(c, s, d) ==
    /\ pc[c] = "idle"
    /\ IF \E i \in Ids : /\ Exists(i) /\ row[i].day = d
                         /\ Departure[row[i].slot] = Departure[s]
                         /\ row[i].status # "CANCELLED"
       THEN Ends(c)
       ELSE /\ pc' = [pc EXCEPT ![c] = "insert"]
            /\ slot' = [slot EXCEPT ![c] = s]
            /\ day' = [day EXCEPT ![c] = d]
            /\ UNCHANGED wanted
    /\ Looks(c)
    /\ UNCHANGED <<row, seed, touched, missedBy, disturbed>>

Create(c, status) ==
    /\ pc[c] = "insert" /\ slot[c] # None
    /\ row' = [row EXCEPT ![<<c, slot[c]>>] =
                 [slot |-> slot[c], day |-> day[c], status |-> status]]
    /\ Wrote(c, {<<c, slot[c]>>})
    /\ Ends(c)
    /\ UNCHANGED <<seed, touched, disturbed>>

\* update writes any columns without the check that create makes.  cancel is
\* the update of the status alone.
Update(i, t) ==
    /\ Exists(i) /\ Cardinality(touched \cup {i}) <= MaxTouched
    /\ row' = [row EXCEPT ![i] = t]
    /\ touched' = touched \cup {i}
    /\ disturbed' = TRUE
    /\ UNCHANGED <<local, seed, missed, missedBy>>

\* History: row i is no more, and its id may be used again.
Forgets(i) ==
    /\ touched' = touched \ {i}
    /\ missed' = [w \in Writers |-> missed[w] \ {i}]
    /\ missedBy' = [j \in Ids |-> IF j = i THEN {} ELSE missedBy[j] \ {i}]
    /\ disturbed' = TRUE

\* remove, the end of hardRemove, and the removal of a route, row by row; all
\* may be refused because of bookings.
Remove(i) ==
    /\ Exists(i)
    /\ row' = [row EXCEPT ![i] = None]
    /\ Forgets(i)
    /\ UNCHANGED <<local, seed>>

-----------------------------------------------------------------------------
(* The seed script: for each day and slot, find and then upsert *)

\* A run begins on day d, or begins again after an earlier one ended or died.
SeedStart(d) ==
    /\ d >= seedDay /\ d + Window <= LastDay
    /\ seedDay' = d
    /\ disturbed' = (disturbed \/ d # seedDay)
    /\ seedAt' = [s \in Slots |-> 0]
    /\ seedMiss' = [s \in Slots |-> FALSE]
    /\ missed' = [w \in Writers |-> IF w \in Slots THEN {} ELSE missed[w]]
    /\ UNCHANGED <<row, local, touched, missedBy>>

SeedGoesOn(s) ==
    /\ seedAt' = [seedAt EXCEPT ![s] = @ + 1]
    /\ seedMiss' = [seedMiss EXCEPT ![s] = FALSE]

\* Faulty: a trip of any day counts as the trip of this one.
SeedFindAnyDay(s) ==
    /\ seedAt[s] \in Offsets /\ ~seedMiss[s]
    /\ IF \E i \in Ids : Exists(i) /\ row[i].slot = s
       THEN SeedGoesOn(s)
       ELSE seedMiss' = [seedMiss EXCEPT ![s] = TRUE] /\ UNCHANGED seedAt
    /\ Looks(s)
    /\ UNCHANGED <<row, local, seedDay, touched, missedBy, disturbed>>

\* A trip of this slot on this day, whatever its status and id, is left alone.
SeedFind(s) ==
    /\ seedAt[s] \in Offsets /\ ~seedMiss[s]
    /\ IF \E i \in Ids : On(i, s, seedDay + seedAt[s])
       THEN SeedGoesOn(s)
       ELSE seedMiss' = [seedMiss EXCEPT ![s] = TRUE] /\ UNCHANGED seedAt
    /\ Looks(s)
    /\ UNCHANGED <<row, local, seedDay, touched, missedBy, disturbed>>

\* The upsert by id.  A row that has the id is moved to the new day: its time is
\* reset to that of the slot, its route, coach and status are not.
SeedUpsert(s) ==
    LET i == <<seedAt[s], s>>
        d == seedDay + seedAt[s]
    IN
    /\ seedMiss[s]
    /\ \/ /\ ~Exists(i)
          /\ row' = [row EXCEPT ![i] = [slot |-> s, day |-> d, status |-> "ACTIVE"]]
       \/ /\ Exists(i)
          /\ \E t \in {s, row[i].slot} :
                row' = [row EXCEPT ![i] = [slot |-> t, day |-> d, status |-> row[i].status]]
    /\ touched' = IF row'[i].slot = s THEN touched \ {i} ELSE touched
    /\ Wrote(s, {i})
    /\ SeedGoesOn(s)
    /\ UNCHANGED <<local, seedDay, disturbed>>

-----------------------------------------------------------------------------
\* A search swallows every error; any call may die with the process.
Fails(c) ==
    /\ pc[c] \in {"read", "insert"}
    /\ Ends(c)
    /\ Looks(c)
    /\ UNCHANGED <<row, seed, touched, missedBy, disturbed>>

CallStep(c) ==
    \/ \E d \in Days : CountNone(c, d) \/ (\E s \in Slots : CreateRead(c, s, d))
    \/ \E plan \in SUBSET Slots : ReadPlan(c, plan)
    \/ \E status \in Statuses : Create(c, status)
    \/ Generate(c) \/ Fails(c)

Next ==
    \/ \E c \in Calls : CallStep(c)
    \/ \E i \in Ids : Remove(i) \/ \E t \in Trips : Update(i, t)
    \/ \E s \in Slots : SeedFind(s) \/ SeedUpsert(s)
    \/ \E d \in Days : SeedStart(d)

Spec == Init /\ [][Next]_vars

-----------------------------------------------------------------------------
\* Two active trips of one slot on one day (what the checks of create and of the
\* search are there to prevent) take two writers of which one had looked before
\* the other wrote, or an admin's unchecked update of one of the two.  Neither
\* restarts and moves of the seed nor changing routes and coaches add a case.
DuplicateNeedsRace ==
    \A i, j \in Ids :
        (i # j /\ Active(i) /\ Active(j) /\ On(j, row[i].slot, row[i].day))
            => \/ i \in touched \/ j \in touched
               \/ i \in missedBy[j] \/ j \in missedBy[i]

\* When a run of the seed has gone through all days of a slot, every one of them
\* has a trip, also when earlier runs died half-way and searches generated trips
\* meanwhile -- provided that all runs began on one day and no admin interfered.
\* (A run on a later day moves rows instead of adding them and leaves gaps.)
SeedCovers ==
    ~disturbed =>
        \A s \in Slots : \A o \in Offsets :
              o < seedAt[s] => \E i \in Ids : On(i, s, seedDay + o)

=============================================================================
