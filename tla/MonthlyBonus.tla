---------------------------- MODULE MonthlyBonus ----------------------------
(***************************************************************************)
(* The monthly sales bonus of counter agents: processMonthlySalesBonuses   *)
(* (src/src/counter-agent/counter-agent.service.ts), which every dashboard *)
(* read starts on the first day of a month for the month before, and which *)
(* an admin starts for any month at any time.                              *)
(*                                                                         *)
(* A run counts, looks for a bonus and issues one in separate statements,  *)
(* agent by agent.  No key keeps two bonuses of one agent and month apart: *)
(* the month stands in the notes.  Bookings are sold, cancelled, deleted,  *)
(* and revived by a late payment, meanwhile and afterwards.                *)
(***************************************************************************)
EXTENDS Integers, Sequences, SequencesExt, FiniteSets, FiniteSetsExt

CONSTANTS
    Agents, Runs,
    AgentBookings, \* bookings that agents make
    Seats,       \* numbers of seats of a booking, 0 among them
    Tiers,       \* TIERS, a sequence of targets and bonuses
    LastMonth,   \* bound of the model: the calendar
    NoRow        \* no row of the table

Months == 1..LastMonth

ASSUME TierAssumption ==
    /\ Tiers \in Seq([target : Nat \ {0}, bonus : Nat])
    /\ \A i, j \in DOMAIN Tiers : i < j => /\ Tiers[j].target < Tiers[i].target
                                           /\ Tiers[j].bonus < Tiers[i].bonus
ASSUME BonusAssumption ==
    /\ Seats \subseteq Nat /\ LastMonth \in Nat \ {0}
    /\ IsFiniteSet(Agents) /\ IsFiniteSet(AgentBookings)

VARIABLES
    month,    \* the calendar month
    booking,  \* booking[b]: whose it is, of which month, its seats, whether it counts
    stage,    \* stage[r]: where run r stands
    period,   \* period[r]: the month r is about
    todo,     \* todo[r]: the agents r has still to go through
    sold,     \* sold[r]: the tickets r has counted for the first of them
    bonus,    \* bonus[<<r, a>>]: the commission row with r's bonus for a
    missed,   \* history: missed[r]: bonuses issued since r looked for one
    missedBy, \* history: missedBy[i]: those when bonus i was issued
    early,    \* history: the runs that began before their month was over
    grown     \* history: agents and months whose count grew after the month

local == <<stage, period, todo, sold, early>>
bonusVars == <<month, booking, local, bonus, missed, missedBy, grown>>

Issues == Runs \X Agents

BonusInit ==
    /\ month = 1
    /\ booking = [b \in AgentBookings |-> NoRow]
    /\ stage = [r \in Runs |-> "idle"]
    /\ period = [r \in Runs |-> 1]
    /\ todo = [r \in Runs |-> <<>>]
    /\ sold = [r \in Runs |-> 0]
    /\ bonus = [i \in Issues |-> NoRow]
    /\ missed = [r \in Runs |-> {}]
    /\ missedBy = [i \in Issues |-> {}]
    /\ early = {}
    /\ grown = {}

\* Tickets sold by a in month m; a booking without seats counts as one.
Tickets(a, m) ==
    SumFunction([b \in {x \in AgentBookings :
                          /\ booking[x] # NoRow /\ booking[x].counts
                          /\ booking[x].agent = a /\ booking[x].month = m}
                    |-> IF booking[b].seats > 0 THEN booking[b].seats ELSE 1])

\* Faulty: a target must be exceeded.
TierBeyond(n) == SelectInSeq(Tiers, LAMBDA t : n > t.target)

\* TIERS.find: the first tier whose target is reached; 0 when there is none.
TierOf(n) == SelectInSeq(Tiers, LAMBDA t : n >= t.target)

-----------------------------------------------------------------------------
(* processMonthlySalesBonuses *)

\* The month to settle, and the agents that are active, in some order.
Begin(r, m) ==
    /\ stage[r] = "idle"
    /\ period' = [period EXCEPT ![r] = m]
    /\ \E A \in SUBSET Agents : \E s \in SetToSeqs(A) :
          /\ todo' = [todo EXCEPT ![r] = s]
          /\ stage' = [stage EXCEPT ![r] = IF A = {} THEN "done" ELSE "count"]
    /\ early' = IF m < month THEN early ELSE early \cup {r}
    /\ UNCHANGED <<month, booking, sold, bonus, missed, missedBy, grown>>

\* On the first day of a month a dashboard settles the month before; an admin
\* settles whatever month is asked for.
Trigger(r) == month > 1 /\ Begin(r, month - 1)
AdminRun(r) == \E m \in Months : Begin(r, m)

\* The next agent, or the end.
NextAgent(r) ==
    /\ todo' = [todo EXCEPT ![r] = Tail(@)]
    /\ sold' = [sold EXCEPT ![r] = 0]
    /\ stage' = [stage EXCEPT ![r] = IF Tail(todo[r]) = <<>> THEN "done" ELSE "count"]

Count(r) ==
    /\ stage[r] = "count"
    /\ LET n == Tickets(Head(todo[r]), period[r]) IN
       IF TierOf(n) = 0
       THEN NextAgent(r)
       ELSE /\ sold' = [sold EXCEPT ![r] = n]
            /\ stage' = [stage EXCEPT ![r] = "find"]
            /\ UNCHANGED todo
    /\ UNCHANGED <<month, booking, period, early, bonus, missed, missedBy, grown>>

Issued(a, m) == \E r \in Runs : bonus[<<r, a>>] # NoRow /\ bonus[<<r, a>>].month = m

\* Faulty: only bonuses of this tier are looked for.
FindSameTier(r) ==
    /\ stage[r] = "find"
    /\ LET a == Head(todo[r]) IN
       IF \E q \in Runs : /\ bonus[<<q, a>>] # NoRow /\ bonus[<<q, a>>].month = period[r]
                          /\ bonus[<<q, a>>].tier = Tiers[TierOf(sold[r])]
       THEN NextAgent(r)
       ELSE stage' = [stage EXCEPT ![r] = "issue"] /\ UNCHANGED <<todo, sold>>
    /\ missed' = [missed EXCEPT ![r] = {}]
    /\ UNCHANGED <<month, booking, period, early, bonus, missedBy, grown>>

\* A bonus whose notes name the month: ALREADY_ISSUED, of whatever tier.
FindBonus(r) ==
    /\ stage[r] = "find"
    /\ IF Issued(Head(todo[r]), period[r])
       THEN NextAgent(r)
       ELSE stage' = [stage EXCEPT ![r] = "issue"] /\ UNCHANGED <<todo, sold>>
    /\ missed' = [missed EXCEPT ![r] = {}]
    /\ UNCHANGED <<month, booking, period, early, bonus, missedBy, grown>>

\* The commission row; the notification that follows always fails and is caught.
Issue(r) ==
    LET i == <<r, Head(todo[r])>> IN
    /\ stage[r] = "issue"
    /\ bonus' = [bonus EXCEPT ![i] =
                   [month |-> period[r], tier |-> Tiers[TierOf(sold[r])]]]
    /\ NextAgent(r)
    /\ missed' = [q \in Runs |-> IF q # r /\ stage[q] = "issue" THEN missed[q] \cup {i} ELSE {}]
    /\ missedBy' = [missedBy EXCEPT ![i] = missed[r]]
    /\ UNCHANGED <<month, booking, period, early, grown>>

Dies(r) ==
    /\ stage[r] \in {"count", "find", "issue"}
    /\ stage' = [stage EXCEPT ![r] = "done"]
    /\ todo' = [todo EXCEPT ![r] = <<>>]
    /\ sold' = [sold EXCEPT ![r] = 0]
    /\ missed' = [missed EXCEPT ![r] = {}]
    /\ UNCHANGED <<month, booking, period, early, bonus, missedBy, grown>>

-----------------------------------------------------------------------------
(* Bookings and the calendar *)

Sell(b, a, n) ==
    /\ booking[b] = NoRow
    /\ booking' = [booking EXCEPT ![b] =
                     [agent |-> a, month |-> month, seats |-> n, counts |-> TRUE]]
    /\ UNCHANGED <<month, local, bonus, missed, missedBy, grown>>

\* Cancelled, expired, or deleted (which leaves bonuses alone: they name no
\* booking, and the booking is then never revived).
Lapse(b) ==
    /\ booking[b] # NoRow /\ booking[b].counts
    /\ booking' = [booking EXCEPT ![b].counts = FALSE]
    /\ UNCHANGED <<month, local, bonus, missed, missedBy, grown>>

\* A payment for an expired or cancelled booking: it counts for its old month.
Revive(b) ==
    /\ booking[b] # NoRow /\ ~booking[b].counts
    /\ booking' = [booking EXCEPT ![b].counts = TRUE]
    /\ grown' = IF booking[b].month < month
                THEN grown \cup {<<booking[b].agent, booking[b].month>>} ELSE grown
    /\ UNCHANGED <<month, local, bonus, missed, missedBy>>

MonthEnds ==
    /\ month < LastMonth
    /\ month' = month + 1
    /\ UNCHANGED <<booking, local, bonus, missed, missedBy, grown>>

RunStep(r) ==
    Trigger(r) \/ AdminRun(r) \/ Count(r) \/ FindBonus(r) \/ Issue(r) \/ Dies(r)

SaleStep(b) ==
    \/ \E a \in Agents, n \in Seats : Sell(b, a, n)
    \/ Lapse(b) \/ Revive(b)

BonusNext ==
    \/ \E r \in Runs : RunStep(r)
    \/ \E b \in AgentBookings : SaleStep(b)
    \/ MonthEnds

BonusSpec == BonusInit /\ [][BonusNext]_bonusVars

-----------------------------------------------------------------------------
\* An agent gets two bonuses for a month only if the two runs overlapped: each
\* had looked for a bonus before the other issued its own.  Runs before the end
\* of the month, deaths half-way and later counts add no case.
OneBonusPerMonth ==
    \A i, j \in Issues :
        (i # j /\ i[2] = j[2] /\ bonus[i] # NoRow /\ bonus[j] # NoRow
               /\ bonus[i].month = bonus[j].month)
            => i \in missedBy[j] \/ j \in missedBy[i]

\* A bonus issued once the month was over is the highest the agent's tickets of
\* that month still reach: cancellations only make it too high, and only bookings
\* that were revived after the month can make it too low.
BonusCoversMonth ==
    \A i \in Issues :
        (bonus[i] # NoRow /\ i[1] \notin early /\ <<i[2], bonus[i].month>> \notin grown)
            => \A t \in ToSet(Tiers) :
                  t.target <= Tickets(i[2], bonus[i].month) => t.bonus <= bonus[i].tier.bonus

=============================================================================
