--------------------------- MODULE Amounts_proofs ---------------------------
(***************************************************************************)
(* Proofs about MonthlyBonus, for any agents, bookings, runs and tiers, and*)
(* about Pricing, for any fares, coupons and bookings.  Both add up numbers*)
(* over a finite set; what their sums do is proved here first.             *)
(***************************************************************************)
EXTENDS Pricing, MonthlyBonus, FiniteSetTheorems, SequenceTheorems,
        WellFoundedInduction, TLAPS

-----------------------------------------------------------------------------
(* Sums over finite sets *)

\* The element of s that a fold of the community modules takes first.
Pick(s) == CHOOSE x \in s : TRUE

\* g sums w over every subset of S.
IsSum(w, S, g) ==
    g = [s \in SUBSET S |-> IF s = {} THEN 0 ELSE w[Pick(s)] + g[s \ {Pick(s)}]]

\* What is picked from a set is one of its elements.
LEMMA PickIn == \A s : s # {} => Pick(s) \in s
  BY DEF Pick

\* Of a set of finite sets one holds no other.
LEMMA Smallest ==
    ASSUME NEW D, IsFiniteSet(D), NEW T \in SUBSET SUBSET D, T # {}
    PROVE  \E s \in T : \A t \in T : t \subseteq s => t = s
  <1>1. /\ IsWellFoundedOn(StrictSubsetOrdering(D), SUBSET D)
    BY FS_StrictSubsetOrderingWellFounded, FS_FiniteSubsetsOfFinite
  <1>2. PICK s \in T : \A t \in T : ~(<<t, s>> \in StrictSubsetOrdering(D))
    BY <1>1, WFMin
  <1>3. QED
    BY <1>2 DEF StrictSubsetOrdering

\* There is one such g, ...
LEMMA SumUnique ==
    ASSUME NEW S, IsFiniteSet(S), NEW w, NEW g, NEW h, IsSum(w, S, g), IsSum(w, S, h)
    PROVE  g = h
  <1> DEFINE T == {s \in SUBSET S : g[s] # h[s]}
  <1>1. CASE T = {}
    <2>1. g = [s \in SUBSET S |-> g[s]] /\ h = [s \in SUBSET S |-> h[s]]
      BY DEF IsSum
    <2>2. QED
      BY <1>1, <2>1
  <1>2. CASE T # {}
    <2>1. PICK s \in T : \A t \in T : t \subseteq s => t = s
      <3> HIDE DEF T
      <3>1. T \in SUBSET SUBSET S
        BY DEF T
      <3>2. QED
        BY <1>2, <3>1, Smallest
    <2>2. s # {}
      BY <2>1 DEF IsSum
    <2>3. s \ {Pick(s)} \in SUBSET S /\ s \ {Pick(s)} \notin T
      BY <2>1, <2>2, PickIn
    <2>4. g[s] = h[s]
      BY <2>2, <2>3 DEF IsSum
    <2>5. QED
      BY <2>4
  <1>3. QED
    BY <1>1, <1>2

\* A sum over the subsets of S is one over the subsets of each of them.
LEMMA SumRestricts ==
    ASSUME NEW S, NEW w, NEW g, IsSum(w, S, g), NEW s \in SUBSET S
    PROVE  IsSum(w, s, [t \in SUBSET s |-> g[t]])
  <1> DEFINE h == [t \in SUBSET s |-> g[t]]
  <1>1. ASSUME NEW t \in SUBSET s
        PROVE  h[t] = IF t = {} THEN 0 ELSE w[Pick(t)] + h[t \ {Pick(t)}]
    <2>1. g[t] = IF t = {} THEN 0 ELSE w[Pick(t)] + g[t \ {Pick(t)}]
      BY DEF IsSum
    <2>2. QED
      BY <2>1
  <1>2. QED
    BY <1>1 DEF IsSum

\* ... and there is at least one, ...
LEMMA SumExists ==
    ASSUME NEW S, IsFiniteSet(S), NEW w
    PROVE  \E g : IsSum(w, S, g)
  <1> DEFINE T == {s \in SUBSET S : ~ \E g : IsSum(w, s, g)}
             G(s) == CHOOSE g : IsSum(w, s, g)
  <1>1. SUFFICES ASSUME T # {} PROVE FALSE
    OBVIOUS
  <1>2. PICK s \in T : \A t \in T : t \subseteq s => t = s
    <2> HIDE DEF T
    <2>1. T \in SUBSET SUBSET S
      BY DEF T
    <2>2. QED
      BY <1>1, <2>1, Smallest
  <1> DEFINE h == [t \in SUBSET s |-> IF t = {} THEN 0
                                      ELSE w[Pick(t)] + G(t \ {Pick(t)})[t \ {Pick(t)}]]
  <1>3. ASSUME NEW t \in SUBSET s, t # s
        PROVE  IsSum(w, t, G(t))
    <2>1. \E g : IsSum(w, t, g)
      BY <1>2, <1>3
    <2>2. QED
      BY <2>1
  <1>4. ASSUME NEW t \in SUBSET s, t # s
        PROVE  h[t] = G(t)[t]
    <2>1. CASE t = {}
      <3>1. IsSum(w, t, G(t))
        BY <1>3, <1>4
      <3>2. G(t)[t] = 0
        BY <2>1, <3>1 DEF IsSum
      <3>3. QED
        BY <2>1, <3>2
    <2>2. CASE t # {}
      <3> DEFINE u == t \ {Pick(t)}
      <3>1. u \in SUBSET t /\ u # s /\ u \in SUBSET s /\ IsFiniteSet(u)
        BY <2>2, PickIn, <1>2, FS_Subset
      <3>2. IsSum(w, t, G(t)) /\ IsSum(w, u, G(u))
        BY <1>3, <1>4, <3>1
      <3>3. IsSum(w, u, [v \in SUBSET u |-> G(t)[v]])
        BY <3>1, <3>2, SumRestricts
      <3>4. G(u) = [v \in SUBSET u |-> G(t)[v]]
        BY <3>1, <3>2, <3>3, SumUnique
      <3>5. G(t)[t] = w[Pick(t)] + G(t)[u]
        BY <2>2, <3>2 DEF IsSum
      <3>6. h[t] = w[Pick(t)] + G(u)[u]
        BY <2>2
      <3>7. G(u)[u] = G(t)[u]
        BY <3>4
      <3>8. QED
        BY <3>5, <3>6, <3>7
    <2>3. QED
      BY <2>1, <2>2
  <1>5. ASSUME NEW t \in SUBSET s
        PROVE  h[t] = IF t = {} THEN 0 ELSE w[Pick(t)] + h[t \ {Pick(t)}]
    <2>1. CASE t = {}
      BY <2>1
    <2>2. CASE t # {}
      <3>1. t \ {Pick(t)} \in SUBSET s /\ t \ {Pick(t)} # s
        BY <2>2, PickIn
      <3>2. h[t \ {Pick(t)}] = G(t \ {Pick(t)})[t \ {Pick(t)}]
        BY <3>1, <1>4
      <3>3. QED
        BY <2>2, <3>2
    <2>3. QED
      BY <2>1, <2>2
  <1>6. IsSum(w, s, h)
    <2> DEFINE k == [t \in SUBSET s |-> IF t = {} THEN 0 ELSE w[Pick(t)] + h[t \ {Pick(t)}]]
    <2>1. h = k
      <3>1. h = [t \in SUBSET s |-> h[t]]
        OBVIOUS
      <3> HIDE DEF h
      <3>2. QED
        BY <1>5, <3>1
    <2>2. QED
      BY <2>1 DEF IsSum
  <1>7. QED
    BY <1>2, <1>6

\* ... which is what the fold computes.
LEMMA SumIs ==
    ASSUME NEW S, IsFiniteSet(S), NEW w, NEW g, IsSum(w, S, g)
    PROVE  SumFunctionOnSet(w, S) = g[S]
  <1> DEFINE it == CHOOSE it : it = [s \in SUBSET S |->
                      IF s = {} THEN 0
                      ELSE LET x == CHOOSE x \in s : TRUE IN w[x] + it[s \ {x}]]
  <1>1. IsSum(w, S, it)
    BY DEF IsSum, Pick
  <1>2. SumFunctionOnSet(w, S) = it[S]
    BY DEF SumFunctionOnSet, FoldFunctionOnSet, MapThenFoldSet
  <1>3. QED
    BY <1>1, <1>2, SumUnique

\* The sum of a set is that of one element and the rest, whichever element.
LEMMA SumStep ==
    ASSUME NEW D, IsFiniteSet(D), NEW w \in [D -> Int], NEW S \in SUBSET D
    PROVE  /\ SumFunctionOnSet(w, S) \in Int
           /\ S = {} => SumFunctionOnSet(w, S) = 0
           /\ \A x \in S : SumFunctionOnSet(w, S) = w[x] + SumFunctionOnSet(w, S \ {x})
  <1> DEFINE F(s) == SumFunctionOnSet(w, s)
  <1>1. F({}) = 0
    <2>1. IsFiniteSet({})
      BY FS_EmptySet
    <2>2. PICK g : IsSum(w, {}, g)
      BY <2>1, SumExists
    <2>3. g[{}] = 0
      BY <2>2 DEF IsSum
    <2>4. QED
      BY <2>1, <2>2, <2>3, SumIs
  <1>2. ASSUME NEW s \in SUBSET D, s # {}
        PROVE  F(s) = w[Pick(s)] + F(s \ {Pick(s)})
    <2> DEFINE u == s \ {Pick(s)}
    <2>1. IsFiniteSet(s) /\ IsFiniteSet(u) /\ u \in SUBSET s
      BY FS_Subset
    <2>2. PICK g : IsSum(w, s, g)
      BY <2>1, SumExists
    <2>3. F(s) = g[s]
      BY <2>1, <2>2, SumIs
    <2>4. F(u) = g[u]
      <3> DEFINE h == [t \in SUBSET u |-> g[t]]
      <3>1. IsSum(w, u, h)
        <4> HIDE DEF u
        <4>1. QED
          BY <2>1, <2>2, SumRestricts
      <3>2. F(u) = h[u]
        BY <2>1, <3>1, SumIs
      <3>3. QED
        BY <3>2
    <2>5. g[s] = w[Pick(s)] + g[u]
      BY <1>2, <2>2 DEF IsSum
    <2>6. QED
      BY <2>3, <2>4, <2>5
  <1> DEFINE Good(s) == F(s) \in Int /\ \A x \in s : F(s) = w[x] + F(s \ {x})
             T == {s \in SUBSET D : ~Good(s)}
  <1> HIDE DEF F
  <1>3. ASSUME T # {} PROVE FALSE
    <2>1. PICK s \in T : \A t \in T : t \subseteq s => t = s
      <3> HIDE DEF T
      <3>1. T \in SUBSET SUBSET D
        BY DEF T
      <3>2. QED
        BY <1>3, <3>1, Smallest
    <2>2. s # {} /\ s \in SUBSET D
      <3>1. Good({})
        BY <1>1
      <3>2. QED
        BY <2>1, <3>1
    <2> DEFINE p == Pick(s)
    <2>3. p \in s /\ p \in D
      BY <2>2, PickIn
    <2>4. ASSUME NEW x \in s PROVE Good(s \ {x})
      <3>1. s \ {x} \in SUBSET D /\ s \ {x} # s
        BY <2>2
      <3>2. QED
        BY <2>1, <3>1
    <2>5. F(s) = w[p] + F(s \ {p}) /\ F(s \ {p}) \in Int
      BY <1>2, <2>2, <2>3, <2>4
    <2>6. F(s) \in Int
      BY <2>3, <2>5
    <2>7. ASSUME NEW x \in s, x # p PROVE F(s) = w[x] + F(s \ {x})
      <3> DEFINE u == (s \ {p}) \ {x}
      <3>1. u = (s \ {x}) \ {p}
        OBVIOUS
      <3>2. F(s \ {p}) = w[x] + F(u)
        BY <2>3, <2>4, <2>7
      <3>3. F(s \ {x}) = w[p] + F(u) /\ F(s \ {x}) \in Int
        BY <2>3, <2>4, <2>7, <3>1
      <3>4. F(u) \in Int
        <4>1. u \in SUBSET D /\ u # s /\ u \subseteq s
          BY <2>2, <2>3
        <4>2. QED
          BY <2>1, <4>1
      <3>5. w[x] \in Int /\ w[p] \in Int
        BY <2>2, <2>3
      <3> HIDE DEF u, p
      <3>6. QED
        BY <2>5, <3>2, <3>3, <3>4, <3>5
    <2>8. Good(s)
      BY <2>5, <2>6, <2>7
    <2>9. QED
      BY <2>1, <2>8
  <1>4. Good(S)
    BY <1>3
  <1>5. QED
    BY <1>1, <1>4 DEF F

\* Fewer and smaller summands make a smaller sum.
LEMMA SumMonotone ==
    ASSUME NEW D, IsFiniteSet(D), NEW C \in SUBSET D,
           NEW v \in [C -> Nat], NEW w \in [D -> Nat], \A x \in C : v[x] <= w[x]
    PROVE  SumFunction(v) <= SumFunction(w)
  <1> DEFINE F(s) == SumFunctionOnSet(v, s \cap C)
             G(s) == SumFunctionOnSet(w, s)
             T == {s \in SUBSET D : ~(F(s) <= G(s))}
  <1>1. v \in [C -> Int] /\ w \in [D -> Int] /\ IsFiniteSet(C)
    BY FS_Subset
  <1>2. ASSUME NEW s \in SUBSET D
        PROVE  /\ F(s) \in Int /\ G(s) \in Int
               /\ s = {} => F(s) = 0 /\ G(s) = 0
               /\ \A x \in s : G(s) = w[x] + G(s \ {x})
               /\ \A x \in s \cap C : F(s) = v[x] + F(s \ {x})
               /\ \A x \in s \ C : F(s) = F(s \ {x})
    <2>1. s \cap C \in SUBSET C
      OBVIOUS
    <2>2. \A x \in s \cap C : (s \cap C) \ {x} = (s \ {x}) \cap C
      OBVIOUS
    <2>3. \A x \in s \ C : s \cap C = (s \ {x}) \cap C
      OBVIOUS
    <2>4. F(s) \in Int /\ (s \cap C = {} => F(s) = 0)
          /\ \A x \in s \cap C : F(s) = v[x] + SumFunctionOnSet(v, (s \cap C) \ {x})
      BY <1>1, <2>1, SumStep
    <2>5. G(s) \in Int /\ (s = {} => G(s) = 0) /\ \A x \in s : G(s) = w[x] + G(s \ {x})
      BY <1>1, SumStep
    <2>6. QED
      BY <2>2, <2>3, <2>4, <2>5
  <1> HIDE DEF F, G
  <1>3. ASSUME T # {} PROVE FALSE
    <2>1. PICK s \in T : \A t \in T : t \subseteq s => t = s
      <3> HIDE DEF T
      <3>1. T \in SUBSET SUBSET D
        BY DEF T
      <3>2. QED
        BY <1>3, <3>1, Smallest
    <2>2. s \in SUBSET D /\ ~(F(s) <= G(s)) /\ s # {}
      BY <1>2, <2>1
    <2>3. PICK x \in s : TRUE
      BY <2>2
    <2> DEFINE u == s \ {x}
    <2>4. u \in SUBSET D /\ F(u) <= G(u)
      <3>1. u \in SUBSET D /\ u # s /\ u \subseteq s
        BY <2>2, <2>3
      <3>2. QED
        BY <2>1, <3>1
    <2>5. F(u) \in Int /\ G(u) \in Int /\ G(s) = w[x] + G(u) /\ w[x] \in Nat
      BY <1>2, <2>2, <2>4
    <2> HIDE DEF u
    <2>6. CASE x \in C
      <3>1. F(s) = v[x] + F(u) /\ v[x] \in Nat /\ v[x] <= w[x]
        BY <1>2, <2>2, <2>6 DEF u
      <3>2. QED
        BY <2>2, <2>4, <2>5, <3>1
    <2>7. CASE x \notin C
      <3>1. F(s) = F(u)
        BY <1>2, <2>2, <2>7 DEF u
      <3>2. QED
        BY <2>2, <2>4, <2>5, <3>1
    <2>8. QED
      BY <2>6, <2>7
  <1>4. F(D) <= G(D)
    BY <1>3
  <1>5. DOMAIN v = C /\ DOMAIN w = D /\ D \cap C = C
    OBVIOUS
  <1>6. QED
    BY <1>4, <1>5 DEF F, G, SumFunction

\* The sum of a function into the naturals is a natural number.
LEMMA SumNat ==
    ASSUME NEW D, IsFiniteSet(D), NEW w \in [D -> Nat]
    PROVE  SumFunction(w) \in Nat
  <1> DEFINE e == [x \in {} |-> 0]
  <1>1. w \in [D -> Int] /\ DOMAIN w = D /\ e \in [{} -> Nat] /\ e \in [{} -> Int] /\ DOMAIN e = {}
    OBVIOUS
  <1>2. SumFunction(w) \in Int
    BY <1>1, SumStep DEF SumFunction
  <1>3. SumFunction(e) = 0
    BY <1>1, FS_EmptySet, SumStep DEF SumFunction
  <1>4. SumFunction(e) <= SumFunction(w)
    <2> HIDE DEF e
    <2>1. QED
      BY <1>1, SumMonotone
  <1>5. QED
    BY <1>2, <1>3, <1>4
-----------------------------------------------------------------------------
(* Monthly bonuses *)

\* What the steps of a run need to know of the variables: each is a function.
Shape ==
    /\ month \in Months
    /\ stage \in [Runs -> {"idle", "count", "find", "issue", "done"}]
    /\ period \in [Runs -> Months]
    /\ todo \in [Runs -> Seq(Agents)]
    /\ DOMAIN bonus = Issues /\ bonus = [i \in Issues |-> bonus[i]]
    /\ missed \in [Runs -> SUBSET Issues]
    /\ missedBy = [i \in Issues |-> missedBy[i]]

\* A run has something to do until it is done.
BusyInv == \A r \in Runs : stage[r] \in {"count", "find", "issue"} => todo[r] # <<>>

\* Whatever bonus its agent has for its month, a run about to issue one missed it.
MissedInv ==
    \A r \in Runs : stage[r] = "issue" =>
        \A i \in Issues : (/\ i[2] = Head(todo[r])
                           /\ bonus[i] # NoRow /\ bonus[i].month = period[r]) => i \in missed[r]

BonusIInv == Shape /\ BusyInv /\ MissedInv /\ OneBonusPerMonth

\* The agent of a run that is busy.
LEMMA HeadTail ==
    ASSUME Shape, BusyInv, NEW r \in Runs, stage[r] \in {"count", "find", "issue"}
    PROVE  Head(todo[r]) \in Agents /\ Tail(todo[r]) \in Seq(Agents)
  BY DEF Shape, BusyInv

\* After an agent comes the next, or the end.
LEMMA Advance ==
    ASSUME Shape, BusyInv, NEW r \in Runs, stage[r] \in {"count", "find", "issue"}, NextAgent(r)
    PROVE  /\ stage' \in [Runs -> {"idle", "count", "find", "issue", "done"}]
           /\ todo' \in [Runs -> Seq(Agents)]
           /\ BusyInv'
           /\ stage'[r] # "issue"
           /\ \A q \in Runs \ {r} : stage'[q] = stage[q] /\ todo'[q] = todo[q]
  <1>1. Tail(todo[r]) \in Seq(Agents)
    BY HeadTail
  <1>2. QED
    BY <1>1 DEF NextAgent, Shape, BusyInv

\* Steps that leave the rows of bonuses alone.
LEMMA KeepsBonuses ==
    ASSUME BonusIInv, Shape', UNCHANGED <<bonus, missedBy>>,
           \A q \in Runs : stage'[q] = "issue" =>
               stage[q] = "issue" /\ todo'[q] = todo[q] /\ period'[q] = period[q] /\ missed'[q] = missed[q]
    PROVE  MissedInv' /\ OneBonusPerMonth'
  BY DEF BonusIInv, MissedInv, OneBonusPerMonth

\* A run begins.
LEMMA StepBegin ==
    ASSUME BonusIInv, NEW r \in Runs, NEW m \in Months, Begin(r, m)
    PROVE  BonusIInv'
  <1>1. PICK A \in SUBSET Agents : \E s \in SetToSeqs(A) :
          /\ todo' = [todo EXCEPT ![r] = s]
          /\ stage' = [stage EXCEPT ![r] = IF A = {} THEN "done" ELSE "count"]
    BY DEF Begin
  <1>2. PICK s \in SetToSeqs(A) :
          /\ todo' = [todo EXCEPT ![r] = s]
          /\ stage' = [stage EXCEPT ![r] = IF A = {} THEN "done" ELSE "count"]
    BY <1>1
  <1>3. s \in Seq(Agents) /\ (A # {} => s # <<>>)
    <2>1. IsFiniteSet(A) /\ Cardinality(A) \in Nat /\ (Cardinality(A) = 0 <=> A = {})
      BY BonusAssumption, FS_Subset, FS_CardinalityType, FS_EmptySet
    <2>2. s \in [1..Cardinality(A) -> A]
      BY <1>2 DEF SetToSeqs
    <2>3. s \in [1..Cardinality(A) -> Agents]
      BY <2>2
    <2>4. s \in Seq(Agents) /\ Len(s) = Cardinality(A)
      BY <2>1, <2>3, SeqDef, LenProperties
    <2>5. QED
      BY <2>1, <2>4, EmptySeq
  <1>4. /\ stage[r] = "idle" /\ period' = [period EXCEPT ![r] = m]
        /\ UNCHANGED <<month, bonus, missed, missedBy>>
    BY DEF Begin
  <1>5. Shape'
    BY <1>2, <1>3, <1>4 DEF BonusIInv, Shape
  <1>6. BusyInv'
    BY <1>2, <1>3, <1>4 DEF BonusIInv, Shape, BusyInv
  <1>7. \A q \in Runs : stage'[q] = "issue" =>
          stage[q] = "issue" /\ todo'[q] = todo[q] /\ period'[q] = period[q]
    BY <1>2, <1>4 DEF BonusIInv, Shape
  <1>8. QED
    BY <1>4, <1>5, <1>6, <1>7, KeepsBonuses DEF BonusIInv

\* A count leads to a look, or to the next agent.
LEMMA StepCount ==
    ASSUME BonusIInv, NEW r \in Runs, Count(r)
    PROVE  BonusIInv'
  <1>1. /\ stage[r] = "count" /\ UNCHANGED <<month, period, bonus, missed, missedBy>>
        /\ NextAgent(r) \/ (stage' = [stage EXCEPT ![r] = "find"] /\ UNCHANGED todo)
    BY DEF Count
  <1>2. CASE NextAgent(r)
    <2>1. /\ Shape' /\ BusyInv' /\ stage'[r] # "issue"
          /\ \A q \in Runs \ {r} : stage'[q] = stage[q] /\ todo'[q] = todo[q]
      BY <1>1, <1>2, Advance DEF BonusIInv, Shape
    <2>2. QED
      BY <1>1, <2>1, KeepsBonuses DEF BonusIInv
  <1>3. CASE stage' = [stage EXCEPT ![r] = "find"] /\ UNCHANGED todo
    <2>1. Shape' /\ BusyInv'
      BY <1>1, <1>3 DEF BonusIInv, Shape, BusyInv
    <2>2. \A q \in Runs : stage'[q] = "issue" => stage[q] = "issue"
      BY <1>3 DEF BonusIInv, Shape
    <2>3. QED
      BY <1>1, <1>3, <2>1, <2>2, KeepsBonuses DEF BonusIInv
  <1>4. QED
    BY <1>1, <1>2, <1>3

\* The only step that makes a run ready to issue: it has missed nothing yet.
LEMMA StepFind ==
    ASSUME BonusIInv, NEW r \in Runs, FindBonus(r)
    PROVE  BonusIInv'
  <1>1. /\ stage[r] = "find" /\ UNCHANGED <<month, period, bonus, missedBy>>
        /\ missed' = [missed EXCEPT ![r] = {}]
        /\ \/ NextAgent(r)
           \/ /\ ~Issued(Head(todo[r]), period[r])
              /\ stage' = [stage EXCEPT ![r] = "issue"] /\ UNCHANGED todo
    BY DEF FindBonus
  <1>2. \A q \in Runs \ {r} : missed'[q] = missed[q]
    BY <1>1 DEF BonusIInv, Shape
  <1>3. CASE NextAgent(r)
    <2>1. /\ Shape' /\ BusyInv' /\ stage'[r] # "issue"
          /\ \A q \in Runs \ {r} : stage'[q] = stage[q] /\ todo'[q] = todo[q]
      BY <1>1, <1>3, Advance DEF BonusIInv, Shape
    <2>2. QED
      BY <1>1, <1>2, <2>1, KeepsBonuses DEF BonusIInv
  <1>4. CASE /\ ~Issued(Head(todo[r]), period[r])
             /\ stage' = [stage EXCEPT ![r] = "issue"] /\ UNCHANGED todo
    <2>1. Shape' /\ BusyInv'
      BY <1>1, <1>4 DEF BonusIInv, Shape, BusyInv
    <2>2. \A i \in Issues : i[2] = Head(todo[r]) /\ bonus[i] # NoRow => bonus[i].month # period[r]
      BY <1>4 DEF Issued, Issues
    <2>3. \A q \in Runs \ {r} : stage'[q] = stage[q]
      BY <1>4 DEF BonusIInv, Shape
    <2>4. MissedInv'
      BY <1>1, <1>2, <1>4, <2>2, <2>3 DEF BonusIInv, MissedInv
    <2>5. OneBonusPerMonth'
      BY <1>1 DEF BonusIInv, OneBonusPerMonth
    <2>6. QED
      BY <2>1, <2>4, <2>5 DEF BonusIInv
  <1>5. QED
    BY <1>1, <1>3, <1>4

\* The bonus is new to every other run that is about to issue one, and has missed
\* those of its agent and month that came since its own look.
LEMMA StepIssue ==
    ASSUME BonusIInv, NEW r \in Runs, Issue(r)
    PROVE  BonusIInv'
  <1> DEFINE i == <<r, Head(todo[r])>>
  <1>1. /\ stage[r] = "issue" /\ NextAgent(r) /\ UNCHANGED <<month, period>>
        /\ bonus' = [bonus EXCEPT ![i] =
                       [month |-> period[r], tier |-> Tiers[TierOf(sold[r])]]]
        /\ missed' = [q \in Runs |-> IF q # r /\ stage[q] = "issue" THEN missed[q] \cup {i} ELSE {}]
        /\ missedBy' = [missedBy EXCEPT ![i] = missed[r]]
    BY DEF Issue
  <1>2. i \in Issues
    BY <1>1, HeadTail DEF BonusIInv, Issues
  <1>3. /\ BusyInv' /\ stage'[r] # "issue"
        /\ stage' \in [Runs -> {"idle", "count", "find", "issue", "done"}]
        /\ todo' \in [Runs -> Seq(Agents)]
        /\ \A q \in Runs \ {r} : stage'[q] = stage[q] /\ todo'[q] = todo[q]
    BY <1>1, Advance DEF BonusIInv
  <1>4. missed' \in [Runs -> SUBSET Issues]
    BY <1>1, <1>2 DEF BonusIInv, Shape
  <1>5. Shape'
    BY <1>1, <1>3, <1>4 DEF BonusIInv, Shape
  <1>6. /\ bonus'[i].month = period[r] /\ \A j \in Issues \ {i} : bonus'[j] = bonus[j]
        /\ missedBy'[i] = missed[r] /\ \A j \in Issues \ {i} : missedBy'[j] = missedBy[j]
    BY <1>1, <1>2 DEF BonusIInv, Shape
  <1>7. MissedInv'
    <2> SUFFICES ASSUME NEW q \in Runs, stage'[q] = "issue", NEW j \in Issues,
                        j[2] = Head(todo'[q]), bonus'[j] # NoRow, bonus'[j].month = period'[q]
                 PROVE  j \in missed'[q]
      BY DEF MissedInv
    <2>1. q # r /\ stage[q] = "issue" /\ missed'[q] = missed[q] \cup {i}
      BY <1>1, <1>3
    <2>2. CASE j = i
      BY <2>1, <2>2
    <2>3. CASE j # i
      BY <1>1, <1>3, <1>6, <2>1, <2>3 DEF BonusIInv, MissedInv
    <2>4. QED
      BY <2>2, <2>3
  <1>8. OneBonusPerMonth'
    <2>1. ASSUME NEW j \in Issues \ {i}, j[2] = i[2], bonus'[j] # NoRow,
                 bonus'[j].month = bonus'[i].month
          PROVE  j \in missedBy'[i]
      BY <1>1, <1>6, <2>1 DEF BonusIInv, MissedInv
    <2>2. QED
      BY <1>6, <2>1 DEF BonusIInv, OneBonusPerMonth
  <1>9. QED
    BY <1>3, <1>5, <1>7, <1>8 DEF BonusIInv

\* A run that dies issues nothing.
LEMMA StepDies ==
    ASSUME BonusIInv, NEW r \in Runs, Dies(r)
    PROVE  BonusIInv'
  <1>1. /\ stage' = [stage EXCEPT ![r] = "done"] /\ todo' = [todo EXCEPT ![r] = <<>>]
        /\ missed' = [missed EXCEPT ![r] = {}] /\ UNCHANGED <<month, period, bonus, missedBy>>
    BY DEF Dies
  <1>2. Shape' /\ BusyInv'
    BY <1>1 DEF BonusIInv, Shape, BusyInv
  <1>3. \A q \in Runs : stage'[q] = "issue" =>
          stage[q] = "issue" /\ todo'[q] = todo[q] /\ missed'[q] = missed[q]
    BY <1>1 DEF BonusIInv, Shape
  <1>4. QED
    BY <1>1, <1>2, <1>3, KeepsBonuses DEF BonusIInv

\* Every step keeps the invariant.
LEMMA Inductive == BonusIInv /\ [BonusNext]_bonusVars => BonusIInv'
  <1> SUFFICES ASSUME BonusIInv, [BonusNext]_bonusVars PROVE BonusIInv'
    OBVIOUS
  <1>1. ASSUME NEW r \in Runs, RunStep(r) PROVE BonusIInv'
    <2>1. CASE Trigger(r)
      <3>1. Begin(r, month - 1) /\ month - 1 \in Months
        BY <2>1, BonusAssumption DEF Trigger, BonusIInv, Shape, Months
      <3>2. QED
        BY <3>1, StepBegin
    <2>2. CASE AdminRun(r)
      BY <2>2, StepBegin DEF AdminRun
    <2>3. QED
      BY <1>1, <2>1, <2>2, StepCount, StepFind, StepIssue, StepDies DEF RunStep
  <1>2. CASE UNCHANGED <<month, stage, period, todo, bonus, missed, missedBy>>
    BY <1>2 DEF BonusIInv, Shape, BusyInv, MissedInv, OneBonusPerMonth
  <1>3. CASE MonthEnds
    <2>1. month' \in Months
      BY <1>3, BonusAssumption DEF MonthEnds, BonusIInv, Shape, Months
    <2>2. QED
      BY <1>3, <2>1 DEF MonthEnds, local, BonusIInv, Shape, BusyInv, MissedInv, OneBonusPerMonth
  <1>4. QED
    BY <1>1, <1>2, <1>3 DEF BonusNext, SaleStep, Sell, Lapse, Revive, bonusVars, local

\* No run has begun.
LEMMA InitBonusIInv == BonusInit => BonusIInv
  <1> SUFFICES ASSUME BonusInit PROVE BonusIInv
    OBVIOUS
  <1>1. 1 \in Months
    BY BonusAssumption DEF Months
  <1>2. Shape
    BY <1>1 DEF BonusInit, Shape
  <1>3. BusyInv /\ MissedInv
    BY DEF BonusInit, BusyInv, MissedInv
  <1>4. OneBonusPerMonth
    BY DEF BonusInit, OneBonusPerMonth
  <1>5. QED
    BY <1>2, <1>3, <1>4 DEF BonusIInv

\* The inductive invariant holds in every reachable state.
THEOREM Invariance == BonusSpec => []BonusIInv
  BY InitBonusIInv, Inductive, PTL DEF BonusSpec

\* For any number of agents, bookings and runs: two bonuses of one agent and month
\* take two runs of processMonthlySalesBonuses that overlapped.
THEOREM OneBonus == BonusSpec => []OneBonusPerMonth
  <1>1. BonusIInv => OneBonusPerMonth
    BY DEF BonusIInv
  <1>2. QED
    BY Invariance, <1>1, PTL

-----------------------------------------------------------------------------
(* Whether a bonus is high enough *)

\* The bookings of agents are of the calendar so far.
BookingInv ==
    /\ booking \in [AgentBookings ->
          {NoRow} \cup [agent : Agents, month : Months, seats : Nat, counts : BOOLEAN]]
    /\ \A b \in AgentBookings : booking[b] # NoRow => booking[b].month <= month

\* A run that did not begin early is about a month that is over.
OverInv == \A r \in Runs : stage[r] # "idle" /\ r \notin early => period[r] < month

\* What a run has counted reaches a tier, and is no less than what would be counted
\* now, unless a booking of the month was revived.
Counted(r) ==
    /\ sold[r] \in Nat /\ TierOf(sold[r]) # 0
    /\ (r \notin early /\ <<Head(todo[r]), period[r]>> \notin grown)
          => Tickets(Head(todo[r]), period[r]) <= sold[r]

CountInv ==
    /\ DOMAIN sold = Runs
    /\ \A r \in Runs : stage[r] \in {"find", "issue"} => Counted(r)

\* A bonus is for the month its run is about.
RowInv ==
    \A i \in Issues : bonus[i] # NoRow =>
        stage[i[1]] # "idle" /\ bonus[i].month = period[i[1]]

CoverIInv == BookingInv /\ OverInv /\ CountInv /\ RowInv /\ BonusCoversMonth

\* Of the natural numbers in a set one is the least.
LEMMA LeastNumber ==
    ASSUME NEW S \in SUBSET Nat, S # {}
    PROVE  Min(S) \in S /\ \A n \in S : Min(S) <= n
  <1> DEFINE R == OpToRel(<, Nat)
  <1>0. /\ IsWellFoundedOn(R, Nat)
        /\ \A m, n \in Nat : n < m => <<n, m>> \in R
    BY NatLessThanWellFounded, Zenon DEF OpToRel
  <1> HIDE DEF R
  <1>1. PICK m \in S : \A n \in S : ~(<<n, m>> \in R)
    BY <1>0, WFMin
  <1>2. ASSUME NEW n \in S PROVE m <= n
    <2>1. n \in Nat /\ m \in Nat
      OBVIOUS
    <2>2. ~(n < m)
      BY <1>0, <1>1, <2>1
    <2>3. QED
      BY <2>1, <2>2
  <1>3. QED
    BY <1>2 DEF Min

\* What a tier is.
LEMMA TierType ==
    ASSUME NEW k \in DOMAIN Tiers
    PROVE  Tiers[k] \in [target : Nat \ {0}, bonus : Nat]
  <1> DEFINE R == [target : Nat \ {0}, bonus : Nat]
  <1>1. Tiers \in Seq(R)
    BY TierAssumption
  <1> HIDE DEF R
  <1>2. k \in 1..Len(Tiers)
    BY <1>1
  <1>3. Tiers[k] \in R
    BY <1>1, <1>2, ElementOfSeq
  <1>4. QED
    BY <1>3 DEF R

\* TIERS.find gives the highest bonus whose target is reached.
LEMMA TierFound ==
    ASSUME NEW n \in Nat
    PROVE  /\ TierOf(n) # 0 => TierOf(n) \in DOMAIN Tiers /\ n >= Tiers[TierOf(n)].target
           /\ \A t \in ToSet(Tiers) : n >= t.target
                  => TierOf(n) # 0 /\ t.bonus <= Tiers[TierOf(n)].bonus
  <1> DEFINE I == {i \in 1..Len(Tiers) : n >= Tiers[i].target}
  <1>1. DOMAIN Tiers = 1..Len(Tiers) /\ Len(Tiers) \in Nat
    BY TierAssumption
  <1>2. TierOf(n) = IF I # {} THEN Min(I) ELSE 0
    BY DEF TierOf, SelectInSeq
  <1>3. I \in SUBSET Nat
    BY <1>1
  <1>4. I # {} => TierOf(n) \in I /\ \A i \in I : TierOf(n) <= i
    <2> HIDE DEF I
    <2>1. QED
      BY <1>2, <1>3, LeastNumber
  <1>5. ASSUME NEW t \in ToSet(Tiers), n >= t.target
        PROVE  TierOf(n) # 0 /\ t.bonus <= Tiers[TierOf(n)].bonus
    <2>1. PICK j \in DOMAIN Tiers : t = Tiers[j]
      BY DEF ToSet
    <2>2. j \in I
      BY <1>1, <1>5, <2>1
    <2>3. TierOf(n) \in I /\ TierOf(n) <= j
      BY <1>4, <2>2
    <2>4. TierOf(n) \in DOMAIN Tiers /\ TierOf(n) # 0
      BY <1>1, <2>3
    <2>5. /\ Tiers[j].bonus \in Nat /\ Tiers[TierOf(n)].bonus \in Nat
          /\ TierOf(n) < j => Tiers[j].bonus < Tiers[TierOf(n)].bonus
      <3>1. Tiers[j].bonus \in Nat /\ Tiers[TierOf(n)].bonus \in Nat
        BY <2>1, <2>4, TierType
      <3>2. TierOf(n) < j => Tiers[j].bonus < Tiers[TierOf(n)].bonus
        BY <2>1, <2>4, TierAssumption
      <3>3. QED
        BY <3>1, <3>2
    <2>6. CASE TierOf(n) = j
      BY <2>1, <2>4, <2>5, <2>6
    <2>7. CASE TierOf(n) < j
      BY <2>1, <2>4, <2>5, <2>7
    <2>8. QED
      BY <1>1, <2>1, <2>3, <2>4, <2>6, <2>7
  <1>6. TierOf(n) # 0 => TierOf(n) \in I
    BY <1>2, <1>4
  <1>7. QED
    BY <1>1, <1>5, <1>6

\* The bookings that count for agent a and month m.
Mine(a, m) == {x \in AgentBookings : /\ booking[x] # NoRow /\ booking[x].counts
                                     /\ booking[x].agent = a /\ booking[x].month = m}

\* The agent's tickets of the month have not become more.
NoMore(a, m) ==
    Tickets(a, m) \in Nat /\ Tickets(a, m)' \in Nat /\ Tickets(a, m)' <= Tickets(a, m)

\* A count shrinks when no booking is added to it and none gets more seats.
LEMMA TicketsShrink ==
    ASSUME BookingInv, BookingInv', NEW a \in Agents, NEW m \in Months,
           \A b \in AgentBookings :
               (/\ booking'[b] # NoRow /\ booking'[b].counts
                /\ booking'[b].agent = a /\ booking'[b].month = m)
                   => /\ booking[b] # NoRow /\ booking[b].counts
                      /\ booking[b].agent = a /\ booking[b].month = m
                      /\ booking[b].seats = booking'[b].seats
    PROVE  NoMore(a, m)
  <1> DEFINE C == {x \in AgentBookings : /\ booking'[x] # NoRow /\ booking'[x].counts
                                         /\ booking'[x].agent = a /\ booking'[x].month = m}
             D == Mine(a, m)
             v == [b \in C |-> IF booking'[b].seats > 0 THEN booking'[b].seats ELSE 1]
             w == [b \in D |-> IF booking[b].seats > 0 THEN booking[b].seats ELSE 1]
  <1>1. IsFiniteSet(D)
    BY BonusAssumption, FS_Subset DEF Mine
  <1>2. C \in SUBSET D
    BY DEF Mine
  <1>3. v \in [C -> Nat] /\ w \in [D -> Nat]
    BY DEF BookingInv, Mine
  <1>4. \A x \in C : v[x] <= w[x]
    <2>1. \A x \in C : x \in D /\ v[x] = w[x]
      BY DEF Mine
    <2> HIDE DEF v, w, C, D
    <2>2. QED
      BY <1>2, <1>3, <2>1
  <1>5. Tickets(a, m)' = SumFunction(v) /\ Tickets(a, m) = SumFunction(w)
    BY DEF Tickets, Mine
  <1>6. /\ SumFunction(v) \in Nat /\ SumFunction(w) \in Nat
        /\ SumFunction(v) <= SumFunction(w)
    <2> HIDE DEF v, w, C, D
    <2>1. IsFiniteSet(C)
      BY <1>1, <1>2, FS_Subset
    <2>2. QED
      BY <1>1, <1>2, <1>3, <1>4, <2>1, SumNat, SumMonotone
  <1>7. QED
    BY <1>5, <1>6 DEF NoMore

\* What bookings and the calendar do to the counts: a count of a month that is over
\* grows only with a booking that is revived.
LEMMA CountsOfThePast ==
    ASSUME BonusIInv, BookingInv, [BonusNext]_bonusVars
    PROVE  /\ BookingInv' /\ month <= month' /\ grown \subseteq grown'
           /\ \A a \in Agents, m \in Months : m < month /\ <<a, m>> \notin grown'
                 => NoMore(a, m)
  <1>1. month \in Months /\ Months \subseteq Nat
    BY BonusAssumption DEF BonusIInv, Shape, Months
  <1>2. CASE booking' = booking /\ grown' = grown /\ (month' = month \/ MonthEnds)
    <2>1. month' \in Nat /\ month <= month'
      BY <1>1, <1>2 DEF MonthEnds
    <2>2. BookingInv'
      <3>1. \A b \in AgentBookings : booking[b] # NoRow =>
               booking[b].month \in Nat /\ booking[b].month <= month
        BY <1>1 DEF BookingInv
      <3>2. \A b \in AgentBookings : booking'[b] # NoRow => booking'[b].month <= month'
        BY <1>1, <1>2, <2>1, <3>1
      <3>3. QED
        BY <1>2, <3>2 DEF BookingInv
    <2>3. QED
      BY <1>2, <2>1, <2>2, TicketsShrink
  <1>3. ASSUME NEW b \in AgentBookings, NEW a \in Agents, NEW n \in Seats, Sell(b, a, n)
        PROVE  /\ BookingInv' /\ month <= month' /\ grown \subseteq grown'
               /\ \A c \in Agents, m \in Months : m < month /\ <<c, m>> \notin grown'
                     => NoMore(c, m)
    <2>1. /\ booking' = [booking EXCEPT ![b] = [agent |-> a, month |-> month,
                                                seats |-> n, counts |-> TRUE]]
          /\ month' = month /\ grown' = grown
      BY <1>3 DEF Sell
    <2>2. BookingInv'
      BY <1>1, <2>1, BonusAssumption DEF BookingInv
    <2>3. booking'[b].month = month /\ \A x \in AgentBookings \ {b} : booking'[x] = booking[x]
      BY <2>1 DEF BookingInv
    <2>4. \A c \in Agents, m \in Months : m < month => NoMore(c, m)
      BY <1>1, <2>2, <2>3, TicketsShrink
    <2>5. QED
      BY <1>1, <2>1, <2>2, <2>4
  <1>4. ASSUME NEW b \in AgentBookings, Lapse(b)
        PROVE  /\ BookingInv' /\ month <= month' /\ grown \subseteq grown'
               /\ \A c \in Agents, m \in Months : m < month /\ <<c, m>> \notin grown'
                     => NoMore(c, m)
    <2>1. /\ booking' = [booking EXCEPT ![b].counts = FALSE] /\ booking[b] # NoRow
          /\ month' = month /\ grown' = grown
      BY <1>4 DEF Lapse
    <2>2. BookingInv'
      BY <1>1, <2>1 DEF BookingInv
    <2>3. /\ ~booking'[b].counts
          /\ \A x \in AgentBookings \ {b} : booking'[x] = booking[x]
      BY <2>1 DEF BookingInv
    <2>4. \A c \in Agents, m \in Months : m < month => NoMore(c, m)
      BY <2>2, <2>3, TicketsShrink
    <2>5. QED
      BY <1>1, <2>1, <2>2, <2>4
  <1>5. ASSUME NEW b \in AgentBookings, Revive(b)
        PROVE  /\ BookingInv' /\ month <= month' /\ grown \subseteq grown'
               /\ \A c \in Agents, m \in Months : m < month /\ <<c, m>> \notin grown'
                     => NoMore(c, m)
    <2>1. /\ booking' = [booking EXCEPT ![b].counts = TRUE] /\ booking[b] # NoRow
          /\ month' = month
          /\ grown' = IF booking[b].month < month
                      THEN grown \cup {<<booking[b].agent, booking[b].month>>} ELSE grown
      BY <1>5 DEF Revive
    <2>2. BookingInv'
      BY <1>1, <2>1 DEF BookingInv
    <2>3. /\ booking'[b].month = booking[b].month /\ booking'[b].agent = booking[b].agent
          /\ \A x \in AgentBookings \ {b} : booking'[x] = booking[x]
      BY <2>1 DEF BookingInv
    <2>4. \A c \in Agents, m \in Months : m < month /\ <<c, m>> \notin grown'
                     => NoMore(c, m)
      BY <2>1, <2>2, <2>3, TicketsShrink
    <2>5. QED
      BY <1>1, <2>1, <2>2, <2>4
  <1>6. QED
    BY <1>2, <1>3, <1>4, <1>5
       DEF BonusNext, SaleStep, RunStep, Trigger, AdminRun, Begin, Count, FindBonus, Issue,
           Dies, MonthEnds, bonusVars, local


\* Steps that are of no run keep what runs and their bonuses know.
LEMMA CoverOutside ==
    ASSUME BonusIInv, BonusIInv', CoverIInv, BookingInv',
           month <= month', grown \subseteq grown',
           UNCHANGED <<stage, period, todo, sold, bonus, early>>,
           \A a \in Agents, m \in Months : m < month /\ <<a, m>> \notin grown'
                 => NoMore(a, m)
    PROVE  CoverIInv'
  <1>1. /\ month \in Nat /\ month' \in Nat /\ Months \subseteq Nat
        /\ \A r \in Runs : period[r] \in Months
    BY BonusAssumption DEF BonusIInv, Shape, Months
  <1>2. OverInv'
    <2>1. ASSUME NEW r \in Runs, stage[r] # "idle" /\ r \notin early PROVE period[r] < month'
      <3>1. period[r] < month /\ period[r] \in Nat
        BY <1>1, <2>1 DEF CoverIInv, OverInv
      <3>2. QED
        BY <1>1, <3>1
    <2>2. QED
      BY <2>1 DEF OverInv
  <1>3. CountInv'
    <2> SUFFICES ASSUME NEW r \in Runs, stage[r] \in {"find", "issue"}
                 PROVE  /\ sold[r] \in Nat /\ TierOf(sold[r]) # 0
                        /\ (r \notin early /\ <<Head(todo[r]), period[r]>> \notin grown')
                              => Tickets(Head(todo[r]), period[r])' <= sold[r]
      BY DEF CoverIInv, CountInv, Counted
    <2>1. /\ sold[r] \in Nat /\ TierOf(sold[r]) # 0
          /\ (r \notin early /\ <<Head(todo[r]), period[r]>> \notin grown)
                => Tickets(Head(todo[r]), period[r]) <= sold[r]
      BY DEF CoverIInv, CountInv, Counted
    <2>2. Head(todo[r]) \in Agents /\ period[r] \in Months
      BY <1>1, HeadTail DEF BonusIInv
    <2>3. r \notin early => period[r] < month
      BY DEF CoverIInv, OverInv
    <2>4. PICK a \in Agents, m \in Months : a = Head(todo[r]) /\ m = period[r]
      BY <2>2
    <2>5. ASSUME r \notin early, <<a, m>> \notin grown'
          PROVE  Tickets(a, m)' <= sold[r]
      <3>1. NoMore(a, m) /\ Tickets(a, m) <= sold[r]
        BY <2>1, <2>3, <2>4, <2>5
      <3>2. QED
        BY <2>1, <3>1 DEF NoMore
    <2>6. Tickets(Head(todo[r]), period[r])' = Tickets(a, m)'
      BY <2>4
    <2>7. QED
      BY <2>1, <2>4, <2>5, <2>6
  <1>4. RowInv'
    BY DEF CoverIInv, RowInv
  <1>5. BonusCoversMonth'
    <2> SUFFICES ASSUME NEW i \in Issues, bonus[i] # NoRow, i[1] \notin early,
                        <<i[2], bonus[i].month>> \notin grown', NEW t \in ToSet(Tiers),
                        (t.target <= Tickets(i[2], bonus[i].month))'
                 PROVE  t.bonus <= bonus[i].tier.bonus
      BY DEF BonusCoversMonth
    <2>1. i[1] \in Runs /\ i[2] \in Agents
      BY DEF Issues
    <2>2. bonus[i].month \in Months /\ bonus[i].month < month
      BY <1>1, <2>1 DEF CoverIInv, RowInv, OverInv
    <2>3. PICK a \in Agents, m \in Months : a = i[2] /\ m = bonus[i].month
      BY <2>1, <2>2
    <2>4. NoMore(a, m) /\ t.target <= Tickets(a, m)'
      BY <2>2, <2>3
    <2>5. t.target \in Nat
      BY TierType DEF ToSet
    <2>6. t.target <= Tickets(a, m)
      BY <2>4, <2>5 DEF NoMore
    <2>7. QED
      BY <2>3, <2>6 DEF CoverIInv, BonusCoversMonth
  <1>6. QED
    BY <1>2, <1>3, <1>4, <1>5 DEF CoverIInv

\* A run's step leaves bookings, and so the counts, as they are.
LEMMA CountsStay ==
    ASSUME UNCHANGED booking, NEW a, NEW m
    PROVE  Tickets(a, m)' = Tickets(a, m)
  BY DEF Tickets

\* So does a run's count, until the run counts again.
LEMMA SameCount ==
    ASSUME UNCHANGED <<booking, grown>>, NEW q \in Runs, Counted(q),
           todo'[q] = todo[q], sold'[q] = sold[q], period'[q] = period[q],
           q \in early => q \in early'
    PROVE  Counted(q)'
  <1>1. Tickets(Head(todo[q]), period[q])' = Tickets(Head(todo[q]), period[q])
    BY DEF Tickets
  <1>2. QED
    BY <1>1 DEF Counted

\* Steps that issue no bonus.
LEMMA CoverWithoutIssue ==
    ASSUME CoverIInv, UNCHANGED <<month, booking, bonus, grown>>, BonusIInv, BonusIInv',
           \A q \in Runs : /\ stage[q] # "idle" => stage'[q] # "idle" /\ period'[q] = period[q]
                                                   /\ (q \in early => q \in early')
                           /\ stage'[q] # "idle" /\ q \notin early' => period'[q] < month,
           CountInv'
    PROVE  CoverIInv'
  <1>1. BookingInv'
    BY DEF CoverIInv, BookingInv
  <1>2. OverInv'
    BY DEF OverInv
  <1>3. RowInv'
    BY DEF CoverIInv, RowInv, Issues
  <1>4. BonusCoversMonth'
    <2> SUFFICES ASSUME NEW i \in Issues, bonus[i] # NoRow, i[1] \notin early',
                        <<i[2], bonus[i].month>> \notin grown, NEW t \in ToSet(Tiers),
                        (t.target <= Tickets(i[2], bonus[i].month))'
                 PROVE  t.bonus <= bonus[i].tier.bonus
      BY DEF BonusCoversMonth
    <2>1. i[1] \in Runs /\ i[1] \notin early
      BY DEF CoverIInv, RowInv, Issues
    <2>2. Tickets(i[2], bonus[i].month)' = Tickets(i[2], bonus[i].month)
      BY DEF Tickets
    <2>3. QED
      BY <2>1, <2>2 DEF CoverIInv, BonusCoversMonth
  <1>5. QED
    BY <1>1, <1>2, <1>3, <1>4 DEF CoverIInv


\* The steps of a run that issue no bonus.
LEMMA CoverRun ==
    ASSUME BonusIInv, BonusIInv', CoverIInv, NEW r \in Runs, RunStep(r), ~Issue(r)
    PROVE  CoverIInv'
  <1>1. /\ month \in Nat /\ Months \subseteq Nat /\ period \in [Runs -> Months]
        /\ stage \in [Runs -> {"idle", "count", "find", "issue", "done"}]
        /\ todo \in [Runs -> Seq(Agents)] /\ month \in Months
    BY BonusAssumption DEF BonusIInv, Shape, Months
  <1>2. UNCHANGED <<month, booking, bonus, grown>>
    BY DEF RunStep, Trigger, AdminRun, Begin, Count, FindBonus, Dies
  <1>3. ASSUME NEW m \in Months, Begin(r, m)
        PROVE  CoverIInv'
    <2>1. /\ stage[r] = "idle" /\ \A q \in Runs \ {r} : stage'[q] = stage[q]
          /\ \A q \in Runs \ {r} : todo'[q] = todo[q] /\ period'[q] = period[q]
          /\ sold' = sold /\ stage'[r] \in {"done", "count"} /\ period'[r] = m
          /\ early' = IF m < month THEN early ELSE early \cup {r}
      BY <1>1, <1>3 DEF Begin
    <2>2. CountInv'
      BY <1>2, <2>1, SameCount DEF CoverIInv, CountInv
    <2>3. \A q \in Runs :
             /\ stage[q] # "idle" => stage'[q] # "idle" /\ period'[q] = period[q]
             /\ q \in early => q \in early'
             /\ stage'[q] # "idle" /\ q \notin early' => period'[q] < month
      BY <1>1, <2>1 DEF CoverIInv, OverInv
    <2>4. QED
      BY <1>2, <2>2, <2>3, CoverWithoutIssue
  <1>4. ASSUME UNCHANGED <<period, early>>, stage[r] # "idle", stage'[r] # "idle",
               DOMAIN sold' = DOMAIN sold,
               \A q \in Runs \ {r} :
                   stage'[q] = stage[q] /\ todo'[q] = todo[q] /\ sold'[q] = sold[q],
               stage'[r] \in {"find", "issue"} => Counted(r)'
        PROVE  CoverIInv'
    <2>1. CountInv'
      BY <1>2, <1>4, SameCount DEF CoverIInv, CountInv
    <2>2. \A q \in Runs :
             /\ stage[q] # "idle" => stage'[q] # "idle" /\ period'[q] = period[q]
             /\ q \in early => q \in early'
             /\ stage'[q] # "idle" /\ q \notin early' => period'[q] < month
      BY <1>4 DEF CoverIInv, OverInv
    <2>3. QED
      BY <1>2, <2>1, <2>2, CoverWithoutIssue
  <1>5. ASSUME NextAgent(r), UNCHANGED <<period, early>>, stage[r] # "idle"
        PROVE  CoverIInv'
    <2>1. /\ stage'[r] \in {"done", "count"} /\ DOMAIN sold' = DOMAIN sold
          /\ \A q \in Runs \ {r} :
                   stage'[q] = stage[q] /\ todo'[q] = todo[q] /\ sold'[q] = sold[q]
      BY <1>1, <1>5 DEF NextAgent
    <2>2. QED
      BY <1>4, <1>5, <2>1
  <1>6. CASE Count(r)
    <2> DEFINE n == Tickets(Head(todo[r]), period[r])
    <2>1. /\ stage[r] = "count" /\ UNCHANGED <<period, early>>
          /\ \/ NextAgent(r)
             \/ /\ TierOf(n) # 0 /\ sold' = [sold EXCEPT ![r] = n]
                /\ stage' = [stage EXCEPT ![r] = "find"] /\ UNCHANGED todo
      BY <1>6 DEF Count
    <2>2. CASE /\ TierOf(n) # 0 /\ sold' = [sold EXCEPT ![r] = n]
               /\ stage' = [stage EXCEPT ![r] = "find"] /\ UNCHANGED todo
      <3>1. n \in Nat
        <4>1. PICK a \in Agents, m \in Months : a = Head(todo[r]) /\ m = period[r]
          BY <1>1, <2>1, HeadTail DEF BonusIInv
        <4>2. BookingInv /\ BookingInv'
          BY <1>2 DEF CoverIInv, BookingInv
        <4>3. NoMore(a, m)
          BY <1>2, <4>2, TicketsShrink
        <4>4. QED
          BY <4>1, <4>3 DEF NoMore
      <3>2. n <= n
        BY <3>1
      <3>3. Tickets(Head(todo[r]), period[r])' = n
        BY <1>2, <2>1, <2>2 DEF Tickets
      <3>4. sold'[r] = n
        BY <2>2 DEF CoverIInv, CountInv
      <3>5. Counted(r)'
        BY <2>2, <3>1, <3>2, <3>3, <3>4 DEF Counted
      <3>6. stage'[r] # "idle" /\ DOMAIN sold' = DOMAIN sold /\ \A q \in Runs \ {r} :
                   stage'[q] = stage[q] /\ todo'[q] = todo[q] /\ sold'[q] = sold[q]
        BY <1>1, <2>2
      <3>7. QED
        BY <1>4, <2>1, <3>5, <3>6
    <2>3. QED
      BY <1>5, <2>1, <2>2
  <1>7. CASE FindBonus(r)
    <2>1. /\ stage[r] = "find" /\ UNCHANGED <<period, early>>
          /\ NextAgent(r) \/ (stage' = [stage EXCEPT ![r] = "issue"] /\ UNCHANGED <<todo, sold>>)
      BY <1>7 DEF FindBonus
    <2>2. CASE stage' = [stage EXCEPT ![r] = "issue"] /\ UNCHANGED <<todo, sold>>
      <3>1. Counted(r)'
        BY <1>2, <2>1, <2>2, SameCount DEF CoverIInv, CountInv
      <3>2. stage'[r] # "idle" /\ \A q \in Runs \ {r} : stage'[q] = stage[q]
        BY <1>1, <2>2
      <3>3. QED
        BY <1>4, <2>1, <2>2, <3>1, <3>2
    <2>3. QED
      BY <1>5, <2>1, <2>2
  <1>8. CASE Dies(r)
    <2>1. /\ UNCHANGED <<period, early>> /\ stage[r] # "idle" /\ stage'[r] = "done"
          /\ DOMAIN sold' = DOMAIN sold
          /\ \A q \in Runs \ {r} :
                   stage'[q] = stage[q] /\ todo'[q] = todo[q] /\ sold'[q] = sold[q]
      BY <1>1, <1>8 DEF Dies
    <2>2. QED
      BY <1>4, <2>1
  <1>9. CASE Trigger(r)
    <2>1. Begin(r, month - 1) /\ month - 1 \in Months
      BY <1>9, BonusAssumption DEF Trigger, BonusIInv, Shape, Months
    <2>2. QED
      BY <1>3, <2>1
  <1>10. CASE AdminRun(r)
    BY <1>3, <1>10 DEF AdminRun
  <1>11. QED
    BY <1>6, <1>7, <1>8, <1>9, <1>10 DEF RunStep

\* A bonus is issued for a count that was no less than it would be now.
LEMMA CoverIssue ==
    ASSUME BonusIInv, BonusIInv', CoverIInv, NEW r \in Runs, Issue(r)
    PROVE  CoverIInv'
  <1> DEFINE a == Head(todo[r])
             i == <<r, a>>
             k == TierOf(sold[r])
  <1>1. /\ stage[r] = "issue" /\ NextAgent(r)
        /\ UNCHANGED <<month, booking, period, early, grown>>
        /\ bonus' = [bonus EXCEPT ![i] = [month |-> period[r], tier |-> Tiers[k]]]
    BY DEF Issue
  <1>2. /\ a \in Agents /\ i \in Issues /\ period[r] \in Months
        /\ month \in Nat /\ Months \subseteq Nat
    BY <1>1, HeadTail, BonusAssumption DEF BonusIInv, Shape, Issues, Months
  <1>3. /\ bonus'[i].month = period[r] /\ bonus'[i].tier = Tiers[k]
        /\ \A j \in Issues \ {i} : bonus'[j] = bonus[j]
    BY <1>1, <1>2 DEF BonusIInv, Shape
  <1>4. /\ stage'[r] \in {"done", "count"} /\ DOMAIN sold' = DOMAIN sold
        /\ \A q \in Runs \ {r} :
              stage'[q] = stage[q] /\ todo'[q] = todo[q] /\ sold'[q] = sold[q]
    BY <1>1 DEF NextAgent, BonusIInv, Shape
  <1>5. Counted(r)
    BY <1>1 DEF CoverIInv, CountInv
  <1>6. BookingInv'
    BY <1>1 DEF CoverIInv, BookingInv
  <1>7. OverInv'
    BY <1>1, <1>4 DEF CoverIInv, OverInv
  <1>8. CountInv'
    BY <1>1, <1>4, SameCount DEF CoverIInv, CountInv
  <1>9. RowInv'
    <2>1. ASSUME NEW j \in Issues, bonus'[j] # NoRow
          PROVE  stage'[j[1]] # "idle" /\ bonus'[j].month = period[j[1]]
      <3>1. CASE j = i
        BY <1>3, <1>4, <3>1
      <3>2. CASE j # i
        BY <1>3, <1>4, <2>1, <3>2 DEF CoverIInv, RowInv, Issues
      <3>3. QED
        BY <3>1, <3>2
    <2>2. QED
      BY <1>1, <2>1 DEF RowInv
  <1>10. ASSUME r \notin early, <<a, period[r]>> \notin grown, NEW t \in ToSet(Tiers),
                t.target <= Tickets(a, period[r])
         PROVE  t.bonus <= Tiers[k].bonus
    <2>1. Tickets(a, period[r]) <= sold[r] /\ sold[r] \in Nat
      BY <1>5, <1>10 DEF Counted
    <2>2. Tickets(a, period[r]) \in Nat
      <3>1. PICK b \in Agents, m \in Months : b = a /\ m = period[r]
        BY <1>2
      <3>2. NoMore(b, m)
        BY <1>1, <1>6, TicketsShrink DEF CoverIInv
      <3>3. QED
        BY <3>1, <3>2 DEF NoMore
    <2>3. t.target \in Nat
      BY TierType DEF ToSet
    <2>4. sold[r] >= t.target
      BY <1>10, <2>1, <2>2, <2>3
    <2>5. QED
      BY <2>1, <2>4, TierFound
  <1>11. BonusCoversMonth'
    <2> SUFFICES ASSUME NEW j \in Issues, bonus'[j] # NoRow, j[1] \notin early,
                        <<j[2], bonus'[j].month>> \notin grown, NEW t \in ToSet(Tiers),
                        (t.target <= Tickets(j[2], bonus[j].month))'
                 PROVE  t.bonus <= bonus'[j].tier.bonus
      BY <1>1 DEF BonusCoversMonth
    <2>1. Tickets(j[2], bonus[j].month)' = Tickets(j[2], bonus'[j].month)
      BY <1>1 DEF Tickets
    <2>2. CASE j = i
      BY <1>3, <1>10, <2>1, <2>2
    <2>3. CASE j # i
      BY <1>3, <2>1, <2>3 DEF CoverIInv, BonusCoversMonth
    <2>4. QED
      BY <2>2, <2>3
  <1>12. QED
    BY <1>6, <1>7, <1>8, <1>9, <1>11 DEF CoverIInv

\* Every step keeps the invariant.
LEMMA CoverInductive ==
    ASSUME BonusIInv, BonusIInv', CoverIInv, [BonusNext]_bonusVars
    PROVE  CoverIInv'
  <1>1. ASSUME NEW r \in Runs, RunStep(r) PROVE CoverIInv'
    BY <1>1, CoverRun, CoverIssue
  <1>2. CASE UNCHANGED <<stage, period, todo, sold, bonus, early>>
    BY <1>2, CountsOfThePast, CoverOutside DEF CoverIInv
  <1>3. QED
    BY <1>1, <1>2
       DEF BonusNext, SaleStep, Sell, Lapse, Revive, MonthEnds, bonusVars, local

\* Nothing is sold, counted or issued yet.
LEMMA CoverInit ==
    ASSUME BonusInit
    PROVE  CoverIInv
  <1>1. BookingInv /\ OverInv /\ CountInv
    BY DEF BonusInit, BookingInv, OverInv, CountInv
  <1>2. RowInv
    BY DEF BonusInit, RowInv
  <1>3. BonusCoversMonth
    BY DEF BonusInit, BonusCoversMonth
  <1>4. QED
    BY <1>1, <1>2, <1>3 DEF CoverIInv

\* For any number of agents, bookings and runs, any tiers and any calendar: a bonus
\* issued once its month was over is the highest one that the agent's tickets of the
\* month still reach, unless a booking of that month was revived afterwards.
THEOREM BonusCovers == BonusSpec => []BonusCoversMonth
  <1>1. BonusInit => CoverIInv
    BY CoverInit
  <1>2. BonusIInv /\ BonusIInv' /\ CoverIInv /\ [BonusNext]_bonusVars => CoverIInv'
    BY CoverInductive
  <1>3. CoverIInv => BonusCoversMonth
    BY DEF CoverIInv
  <1>4. QED
    BY Invariance, <1>1, <1>2, <1>3, PTL DEF BonusSpec

-----------------------------------------------------------------------------
(* What a booking costs *)

Stages == {"idle", "page", "coupon", "fares", "made", "deleted"}
PricedFares == [fare : Fares \cup {None}, amount : Nat]
Pages == [trip : Trips, fare : Fares \cup {None}, amount : Nat]

\* What the steps need to know of the variables.
PricingShape ==
    /\ fare \in [Fares -> FareRows \cup {None}]
    /\ trip \in Trips \cup {None}
    /\ coupon \in Coupons \cup {None}
    /\ usedCount \in Nat
    /\ usages \in SUBSET Bookings /\ raced \in SUBSET Bookings
    /\ IsFiniteSet(usages) /\ Cardinality(usages) <= usedCount
    /\ pc \in [Bookings -> Stages]
    /\ shown \in [Bookings -> Pages \cup {None}]
    /\ given \in [Bookings -> Fares \cup {None}]
    /\ schedule \in [Bookings -> Trips \cup {None}]
    /\ discount \in [Bookings -> Coupons \cup {None}]
    /\ seatFares \in [Bookings -> Seq(PricedFares)]
    /\ DOMAIN bill = Bookings /\ DOMAIN refund = Bookings
    /\ moved \in [Bookings -> BOOLEAN]
    /\ plain \in [Bookings -> BOOLEAN]

\* A bill is that of the fares and the coupon which the booking still has, and a
\* cancellation splits it.
BillInv ==
    \A b \in Bookings :
        /\ bill[b] # None => pc[b] = "made"
        /\ refund[b] # None => pc[b] = "made"
        /\ pc[b] = "made" =>
              /\ bill[b] = Billed(b)
              /\ refund[b] # None =>
                    refund[b].chargeAmount + refund[b].refundAmount = bill[b].netAmount

\* Of trip t only fare f can be charged to a call that names none.
OnlyFare(t, f) ==
    f \in Own(OnRoute(t)) /\ (OnRoute(t) = {f} \/ OfType(t, t.coachType) = {f})

\* A page is open from the look at it to the booking; as long as the fares are what
\* they were, it shows the only fare that the call can be charged.
PageInv ==
    \A b \in Bookings :
        /\ shown[b] # None => pc[b] \in {"page", "coupon", "fares"}
        /\ pc[b] \in {"coupon", "fares"} => schedule[b] # None
        /\ pc[b] \in {"idle", "page", "coupon"} => discount[b] = None /\ seatFares[b] = <<>>
        /\ (~moved[b] /\ shown[b] # None /\ shown[b].fare # None) =>
              /\ shown[b].fare \in Active
              /\ shown[b].amount = fare[shown[b].fare].amount
              /\ plain[b] => OnlyFare(shown[b].trip, shown[b].fare)

\* Who has validated the coupon and overlooked no other use has still room for one.
RoomInv ==
    (~lowered /\ coupon # None /\ coupon.maxUses > 0) =>
        \A b \in Bookings \ raced :
            pc[b] = "fares" /\ discount[b] # None => usedCount < coupon.maxUses

PricingIInv == PricingShape /\ BillInv /\ PageInv /\ PricedAsShown /\ RoomInv /\ CouponLimit

\* What a fare is.
LEMMA FareType ==
    ASSUME PricingShape, NEW f \in Active
    PROVE  f \in Fares /\ f # None /\ fare[f].amount \in Nat
  BY AmountAssumption DEF PricingShape, Active

\* What is found for a seat.
LEMMA PricedType ==
    ASSUME PricingShape, NEW b \in Bookings, schedule[b] # None, NEW f \in Active \cup {None}
    PROVE  Priced(b, f) \in PricedFares
  <1>1. CASE f = None
    <2>1. schedule[b].route \in Routes
      BY DEF PricingShape, Routes
    <2>2. QED
      BY <1>1, <2>1, AmountAssumption DEF Priced, PricedFares
  <1>2. CASE f # None
    BY <1>2, FareType DEF Priced, PricedFares
  <1>3. QED
    BY <1>1, <1>2

\* Whatever the rules choose is an active fare.
LEMMA ChosenActive ==
    /\ \A t, view : Shown(t, view) \subseteq Active
    /\ \A b \in Bookings : Charged(b) \subseteq Active
    /\ \A t : OnRoute(t) \subseteq Active
  BY DEF Shown, Charged, Latest, Dearest, OfType, OnRoute, Own

\* The fares of a booking add up to a natural number.
LEMMA TotalNat ==
    ASSUME PricingShape, NEW b \in Bookings
    PROVE  Total(b) \in Nat
  <1> DEFINE s == seatFares[b]
             w == [i \in DOMAIN s |-> s[i].amount]
  <1>1. s \in Seq(PricedFares)
    BY DEF PricingShape
  <1>2. Len(s) \in Nat /\ DOMAIN s = 1..Len(s)
    <2> HIDE DEF s
    <2>1. QED
      BY <1>1
  <1>3. IsFiniteSet(DOMAIN s)
    BY <1>2, FS_Interval
  <1>4. w \in [DOMAIN s -> Nat]
    <2>1. ASSUME NEW i \in DOMAIN s PROVE s[i].amount \in Nat
      <3>1. s[i] \in PricedFares
        <4> HIDE DEF s
        <4>1. QED
          BY <1>1, <1>2, ElementOfSeq
      <3>2. QED
        BY <3>1 DEF PricedFares
    <2>2. QED
      BY <2>1
  <1>5. Total(b) = SumFunction(w)
    BY DEF Total
  <1>6. QED
    <2> HIDE DEF w, s
    <2>1. QED
      BY <1>3, <1>4, <1>5, SumNat

\* The exact discount is a natural number of hundredths of a cent.
LEMMA DeductionNat ==
    ASSUME PricingShape, NEW b \in Bookings
    PROVE  Deduction(b) \in Nat
  <1>1. \A m, n \in Nat : m * n \in Nat
    OBVIOUS
  <1>2. discount[b] = None \/ (discount[b] \in Coupons /\ discount[b].value \in Nat)
    BY AmountAssumption DEF PricingShape
  <1>3. Total(b) \in Nat
    BY TotalNat
  <1>4. QED
    BY <1>1, <1>2, <1>3 DEF Deduction

\* Rounding the discount and the rest apart gains at most a cent, at half a cent.
LEMMA RoundedApart ==
    ASSUME NEW t \in Nat, NEW d \in Nat
    PROVE  LET over == Rounded(d, 100) + Rounded(t * 100 - d, 100) - t IN
           over \in {0, 1} /\ (over = 1 => d % 100 = 50)
  BY DEF Rounded

\* What is rounded is an integer.
LEMMA RoundedInt ==
    ASSUME NEW n \in Int
    PROVE  Rounded(n, 100) \in Int
  BY DEF Rounded

\* The row's amounts.
LEMMA BilledType ==
    ASSUME PricingShape, NEW b \in Bookings
    PROVE  /\ Billed(b).totalAmount = Total(b)
           /\ Billed(b).netAmount \in Int
           /\ LET over == Billed(b).discountAmount + Billed(b).netAmount - Billed(b).totalAmount IN
              over \in {0, 1} /\ (over = 1 => Deduction(b) % 100 = 50)
  <1> DEFINE t == Total(b)
             d == Deduction(b)
  <1>1. t \in Nat /\ d \in Nat
    BY TotalNat, DeductionNat
  <1>2. t * 100 - d \in Int
    BY <1>1
  <1>3. Billed(b) = [totalAmount |-> t, discountAmount |-> Rounded(d, 100),
                     netAmount |-> Rounded(t * 100 - d, 100)]
    BY DEF Billed
  <1>4. /\ Billed(b).totalAmount = t /\ Billed(b).discountAmount = Rounded(d, 100)
        /\ Billed(b).netAmount = Rounded(t * 100 - d, 100)
    BY <1>3
  <1>5. Rounded(t * 100 - d, 100) \in Int
    BY <1>2, RoundedInt
  <1> DEFINE over == Rounded(d, 100) + Rounded(t * 100 - d, 100) - t
  <1>6. over \in {0, 1} /\ (over = 1 => d % 100 = 50)
    BY <1>1, RoundedApart
  <1> HIDE DEF t, d
  <1>7. QED
    BY <1>4, <1>5, <1>6 DEF t, d

\* The amounts of a bill agree.
LEMMA BillsAgree ==
    ASSUME PricingShape, BillInv
    PROVE  AmountsAgree
  <1> SUFFICES ASSUME NEW b \in Bookings, bill[b] # None
               PROVE  /\ bill[b].totalAmount = Total(b)
                      /\ LET over == bill[b].discountAmount + bill[b].netAmount
                                     - bill[b].totalAmount IN
                         over \in {0, 1} /\ (over = 1 => Deduction(b) % 100 = 50)
                      /\ refund[b] # None =>
                            refund[b].chargeAmount + refund[b].refundAmount = bill[b].netAmount
    BY DEF AmountsAgree
  <1>1. bill[b] = Billed(b)
    BY DEF BillInv
  <1>2. QED
    BY <1>1, BilledType DEF BillInv


-----------------------------------------------------------------------------
(* What a step keeps of it *)

\* Bills stay as they are until their booking is made or deleted.
LEMMA BillsKept ==
    ASSUME BillInv,
           \A b \in Bookings :
               /\ bill'[b] = bill[b] /\ refund'[b] = refund[b]
               /\ pc'[b] = "made" <=> pc[b] = "made"
               /\ pc[b] = "made" => seatFares'[b] = seatFares[b] /\ discount'[b] = discount[b]
    PROVE  BillInv'
  <1>1. ASSUME NEW b \in Bookings, pc[b] = "made"
        PROVE  Billed(b)' = Billed(b)
    BY <1>1 DEF Billed, Total, Deduction
  <1>2. QED
    BY <1>1 DEF BillInv

\* The choice of a fare depends on the fares alone.
LEMMA SameChoice ==
    ASSUME UNCHANGED fare
    PROVE  /\ Active' = Active
           /\ \A t, f : OnlyFare(t, f)' <=> OnlyFare(t, f)
  BY DEF Active, OnlyFare, OnRoute, OfType, Own

\* Open pages stay as they are while fares do.
LEMMA PagesKept ==
    ASSUME PageInv, PricedAsShown, UNCHANGED fare,
           \A b \in Bookings :
               /\ shown'[b] = shown[b] /\ moved'[b] = moved[b] /\ plain'[b] = plain[b]
               /\ given'[b] = given[b] /\ schedule'[b] = schedule[b]
               /\ shown[b] # None => seatFares'[b] = seatFares[b]
               /\ pc[b] \in {"page", "coupon", "fares"} => pc'[b] \in {"page", "coupon", "fares"}
               /\ pc'[b] \in {"coupon", "fares"} => pc[b] \in {"coupon", "fares"}
               /\ pc'[b] \in {"idle", "page", "coupon"} => discount'[b] = None /\ seatFares'[b] = <<>>
    PROVE  PageInv' /\ PricedAsShown'
  <1>1. PageInv'
    BY SameChoice DEF PageInv
  <1>2. PricedAsShown'
    BY DEF PricedAsShown
  <1>3. QED
    BY <1>1, <1>2

\* Fares move: no open page is what was shown any more.
LEMMA PagesMoved ==
    ASSUME PricingShape, PageInv, FaresMoved,
           UNCHANGED <<pc, shown, given, schedule, discount, seatFares, plain>>
    PROVE  PageInv' /\ PricedAsShown'
  <1>1. \A b \in Bookings : shown[b] # None => moved'[b]
    BY DEF FaresMoved, PageInv
  <1>2. PageInv'
    BY <1>1 DEF PageInv
  <1>3. PricedAsShown'
    BY <1>1 DEF PricedAsShown
  <1>4. QED
    BY <1>2, <1>3

\* The coupon's count and limit stay as they are.
LEMMA CouponKept ==
    ASSUME RoomInv, CouponLimit, UNCHANGED <<coupon, usedCount, raced, lowered>>,
           Cardinality(usages') <= usedCount,
           \A b \in Bookings :
               /\ pc'[b] = "fares" /\ discount'[b] # None => pc[b] = "fares" /\ discount[b] # None
               /\ pc[b] \in {"made", "deleted"} => pc'[b] \in {"made", "deleted"},
           raced \in SUBSET Bookings
    PROVE  RoomInv' /\ CouponLimit'
  <1>1. RoomInv'
    BY DEF RoomInv
  <1>2. CouponLimit'
    BY DEF CouponLimit
  <1>3. QED
    BY <1>1, <1>2

-----------------------------------------------------------------------------
(* The steps of a booking *)

\* A page is opened.
LEMMA StepLook ==
    ASSUME PricingIInv, NEW b \in Bookings, NEW view \in Views, Look(b, view)
    PROVE  PricingIInv'
  <1>1. PICK f \in IF Shown(trip, view) = {} THEN {None} ELSE Shown(trip, view) :
          /\ shown' = [shown EXCEPT ![b] =
                [trip |-> trip, fare |-> f, amount |-> IF f = None THEN 0 ELSE fare[f].amount]]
          /\ plain' = [plain EXCEPT ![b] = NoChoice(trip, view, f)]
    BY DEF Look
  <1>2. /\ pc[b] = "idle" /\ trip # None /\ pc' = [pc EXCEPT ![b] = "page"]
        /\ UNCHANGED <<fare, trip, coupon, given, schedule, discount, seatFares, usedCount, usages,
                       bill, refund, moved, raced, lowered>>
    BY DEF Look, Goto, rates, rows
  <1>3. PricingShape /\ BillInv /\ PageInv /\ PricedAsShown /\ RoomInv /\ CouponLimit
    BY DEF PricingIInv
  <1>4. f \in Active \cup {None} /\ f \in Fares \cup {None}
    BY <1>1, <1>3, ChosenActive, FareType
  <1>5. shown'[b] = [trip |-> trip, fare |-> f, amount |-> IF f = None THEN 0 ELSE fare[f].amount]
    BY <1>1, <1>3 DEF PricingShape
  <1>6. shown'[b] \in Pages
    <2>1. f # None => fare[f].amount \in Nat
      BY <1>3, <1>4, FareType
    <2>2. trip \in Trips
      BY <1>2, <1>3 DEF PricingShape
    <2>3. QED
      BY <1>4, <1>5, <2>1, <2>2 DEF Pages
  <1>7. shown' \in [Bookings -> Pages \cup {None}]
    BY <1>1, <1>3, <1>6 DEF PricingShape
  <1>8. NoChoice(trip, view, f) \in BOOLEAN
    BY DEF NoChoice
  <1>9. PricingShape'
    BY <1>1, <1>2, <1>3, <1>7, <1>8 DEF PricingShape, Stages
  <1>10. BillInv'
    BY <1>2, <1>3, BillsKept DEF PricingShape
  <1>11. RoomInv' /\ CouponLimit'
    BY <1>2, <1>3, CouponKept DEF PricingShape
  <1>12. f # None => f \in Active /\ (plain'[b] => OnlyFare(trip, f))
    BY <1>1, <1>3, <1>4 DEF PricingShape, NoChoice, OnlyFare
  <1>13. \A c \in Bookings \ {b} : shown'[c] = shown[c] /\ plain'[c] = plain[c] /\ pc'[c] = pc[c]
    BY <1>1, <1>2, <1>3 DEF PricingShape
  <1>14. discount[b] = None /\ seatFares[b] = <<>> /\ pc'[b] = "page"
    BY <1>2, <1>3 DEF PageInv, PricingShape
  <1>15. PageInv'
    <2>1. ASSUME NEW c \in Bookings
          PROVE  (/\ shown[c] # None => pc[c] \in {"page", "coupon", "fares"}
                  /\ pc[c] \in {"coupon", "fares"} => schedule[c] # None
                  /\ pc[c] \in {"idle", "page", "coupon"} => discount[c] = None /\ seatFares[c] = <<>>
                  /\ (~moved[c] /\ shown[c] # None /\ shown[c].fare # None) =>
                        /\ shown[c].fare \in Active
                        /\ shown[c].amount = fare[shown[c].fare].amount
                        /\ plain[c] => OnlyFare(shown[c].trip, shown[c].fare))'
      <3>1. CASE c = b
        <4>1. /\ shown'[b].trip = trip /\ shown'[b].fare = f
              /\ f # None => shown'[b].amount = fare[f].amount
          BY <1>5
        <4>2. QED
          BY <1>2, <1>12, <1>14, <3>1, <4>1, SameChoice
      <3>2. CASE c # b
        BY <1>2, <1>3, <1>13, <3>2, SameChoice DEF PageInv
      <3>3. QED
        BY <3>1, <3>2
    <2>2. QED
      BY <2>1 DEF PageInv
  <1>16. PricedAsShown'
    BY <1>2, <1>3, <1>13, <1>14 DEF PricedAsShown, ToSet
  <1>17. QED
    BY <1>9, <1>10, <1>11, <1>15, <1>16 DEF PricingIInv

\* The call has read the trip.
LEMMA StepRead ==
    ASSUME PricingIInv, NEW b \in Bookings, NEW f \in Fares \cup {None}, ReadSchedule(b, f)
    PROVE  PricingIInv'
  <1>1. /\ pc[b] = "page" /\ trip # None /\ pc' = [pc EXCEPT ![b] = "coupon"]
        /\ given' = [given EXCEPT ![b] = f] /\ schedule' = [schedule EXCEPT ![b] = trip]
        /\ UNCHANGED <<fare, trip, coupon, shown, discount, seatFares, usedCount, usages,
                       bill, refund, moved, plain, raced, lowered>>
    BY DEF ReadSchedule, Goto, rates, rows, history
  <1>2. PricingShape /\ BillInv /\ PageInv /\ PricedAsShown /\ RoomInv /\ CouponLimit
    BY DEF PricingIInv
  <1>3. PricingShape'
    BY <1>1, <1>2 DEF PricingShape, Stages
  <1>4. BillInv'
    BY <1>1, <1>2, BillsKept DEF PricingShape
  <1>5. RoomInv' /\ CouponLimit'
    BY <1>1, <1>2, CouponKept DEF PricingShape
  <1>6. /\ pc'[b] = "coupon" /\ schedule'[b] = trip /\ discount[b] = None /\ seatFares[b] = <<>>
        /\ \A c \in Bookings \ {b} :
              pc'[c] = pc[c] /\ given'[c] = given[c] /\ schedule'[c] = schedule[c]
    BY <1>1, <1>2 DEF PricingShape, PageInv
  <1>7. PageInv'
    BY <1>1, <1>2, <1>6, SameChoice DEF PageInv
  <1>8. PricedAsShown'
    BY <1>1, <1>2, <1>6 DEF PricedAsShown, ToSet
  <1>9. QED
    BY <1>3, <1>4, <1>5, <1>7, <1>8 DEF PricingIInv

\* A call without a coupon, or with one that has room for it.
LEMMA StepValidate ==
    ASSUME PricingIInv, NEW b \in Bookings, ValidateDiscount(b)
    PROVE  PricingIInv'
  <1>1. /\ pc[b] = "coupon" /\ pc' = [pc EXCEPT ![b] = "fares"]
        /\ UNCHANGED <<fare, trip, coupon, shown, given, schedule, seatFares, usedCount, usages,
                       bill, refund, moved, plain, raced, lowered>>
        /\ \/ UNCHANGED discount
           \/ /\ coupon # None /\ (coupon.maxUses = 0 \/ usedCount < coupon.maxUses)
              /\ discount' = [discount EXCEPT ![b] = coupon]
    BY DEF ValidateDiscount, Goto, rates, rows, history
  <1>2. PricingShape /\ BillInv /\ PageInv /\ PricedAsShown /\ RoomInv /\ CouponLimit
    BY DEF PricingIInv
  <1>3. PricingShape'
    BY <1>1, <1>2 DEF PricingShape, Stages
  <1>4. /\ pc'[b] = "fares"
        /\ \A c \in Bookings \ {b} : pc'[c] = pc[c] /\ discount'[c] = discount[c]
    BY <1>1, <1>2 DEF PricingShape
  <1>5. BillInv'
    BY <1>1, <1>2, <1>4, BillsKept
  <1>6. PageInv' /\ PricedAsShown'
    <2>1. \A c \in Bookings :
             pc'[c] \in {"idle", "page", "coupon"} => discount'[c] = None /\ seatFares'[c] = <<>>
      BY <1>1, <1>2, <1>4 DEF PageInv
    <2>2. QED
      BY <1>1, <1>2, <1>4, <2>1, PagesKept
  <1>7. discount'[b] # None => coupon # None /\ (coupon.maxUses = 0 \/ usedCount < coupon.maxUses)
    BY <1>1, <1>2 DEF PageInv
  <1>8. RoomInv'
    BY <1>1, <1>2, <1>4, <1>7 DEF RoomInv
  <1>9. CouponLimit'
    BY <1>1, <1>2, <1>4 DEF CouponLimit, PricingShape
  <1>10. QED
    BY <1>3, <1>5, <1>6, <1>8, <1>9 DEF PricingIInv

\* The page's fare is the one that PricedAsShown speaks of.
PageHolds(b) ==
    /\ ~moved[b] /\ shown[b] # None /\ shown[b].fare # None
    /\ \/ given[b] = shown[b].fare
       \/ given[b] = None /\ plain[b] /\ schedule[b] = shown[b].trip

\* Then it is what a seat is charged.
LEMMA ChargedIsShown ==
    ASSUME PricingShape, PageInv, NEW b \in Bookings, PageHolds(b)
    PROVE  Charged(b) = {shown[b].fare} /\ Priced(b, shown[b].fare).amount = shown[b].amount
  <1> DEFINE g == shown[b].fare
             t == schedule[b]
  <1>1. g \in Active /\ g # None /\ shown[b].amount = fare[g].amount /\ None \notin Active
    BY FareType DEF PageInv, PageHolds
  <1>2. Charged(b) = {g}
    <2>1. CASE given[b] = g
      BY <1>1, <2>1 DEF Charged
    <2>2. CASE given[b] # g
      <3>1. given[b] \notin Active /\ OnlyFare(t, g)
        BY <1>1, <2>2 DEF PageInv, PageHolds
      <3>2. Latest({g}) = {g} /\ Dearest({g}) = {g}
        <4>1. fare[g].from \in Nat /\ fare[g].amount \in Nat
          BY <1>1, AmountAssumption DEF PricingShape, Active
        <4>2. QED
          BY <4>1 DEF Latest, Dearest
      <3>3. CASE g \in OfType(t, t.coachType)
        <4>1. Own(OfType(t, t.coachType)) = {g}
          BY <3>1, <3>3 DEF OnlyFare, OfType, Own
        <4>2. QED
          BY <3>1, <3>2, <4>1 DEF Charged
      <3>4. CASE g \notin OfType(t, t.coachType)
        <4>1. OnRoute(t) = {g} /\ Own(OnRoute(t)) = {g}
          BY <3>1, <3>4 DEF OnlyFare, Own
        <4>2. Own(OfType(t, t.coachType)) = {}
          BY <3>4, <4>1 DEF OfType, Own
        <4>3. QED
          BY <3>1, <3>2, <4>1, <4>2 DEF Charged
      <3>5. QED
        BY <3>3, <3>4
    <2>3. QED
      BY <2>1, <2>2
  <1>3. QED
    BY <1>1, <1>2 DEF Priced

\* One more seat has its fare.
LEMMA StepSeatFare ==
    ASSUME PricingIInv, NEW b \in Bookings, SeatFare(b)
    PROVE  PricingIInv'
  <1>1. PICK f \in IF Charged(b) = {} THEN {None} ELSE Charged(b) :
          seatFares' = [seatFares EXCEPT ![b] = Append(@, Priced(b, f))]
    BY DEF SeatFare
  <1>2. /\ pc[b] = "fares"
        /\ UNCHANGED <<fare, trip, coupon, pc, shown, given, schedule, discount, usedCount, usages,
                       bill, refund, moved, plain, raced, lowered>>
    BY DEF SeatFare, rates, rows, history
  <1>3. PricingShape /\ BillInv /\ PageInv /\ PricedAsShown /\ RoomInv /\ CouponLimit
    BY DEF PricingIInv
  <1>4. Priced(b, f) \in PricedFares
    <2>1. schedule[b] # None
      BY <1>2, <1>3 DEF PageInv
    <2>2. QED
      BY <1>1, <1>3, <2>1, ChosenActive, PricedType
  <1>5. seatFares' \in [Bookings -> Seq(PricedFares)]
    <2>1. seatFares[b] \in Seq(PricedFares) /\ seatFares \in [Bookings -> Seq(PricedFares)]
      BY <1>3 DEF PricingShape
    <2>2. Append(seatFares[b], Priced(b, f)) \in Seq(PricedFares)
      BY <1>4, <2>1, AppendProperties
    <2>3. QED
      BY <1>1, <2>1, <2>2
  <1>6. PricingShape'
    BY <1>2, <1>3, <1>5 DEF PricingShape
  <1>7. \A c \in Bookings \ {b} : seatFares'[c] = seatFares[c]
    BY <1>1, <1>3 DEF PricingShape
  <1>8. BillInv'
    BY <1>2, <1>3, <1>7, BillsKept
  <1>9. RoomInv' /\ CouponLimit'
    BY <1>2, <1>3, CouponKept DEF PricingShape
  <1>10. PageInv'
    BY <1>2, <1>3, <1>7, SameChoice DEF PageInv
  <1>11. PricedAsShown'
    <2> SUFFICES ASSUME NEW c \in Bookings, PageHolds(c), NEW s \in ToSet(seatFares'[c])
                 PROVE  s.amount = shown[c].amount
      BY <1>2 DEF PricedAsShown, PageHolds
    <2>1. CASE s \in ToSet(seatFares[c])
      BY <1>3, <2>1 DEF PricedAsShown, PageHolds
    <2>2. CASE s \notin ToSet(seatFares[c])
      <3>1. c = b
        BY <1>7, <2>2
      <3>2. s = Priced(b, f)
        <4> DEFINE old == seatFares[b]
        <4>1. old \in Seq(PricedFares) /\ seatFares'[b] = Append(old, Priced(b, f))
          BY <1>1, <1>3 DEF PricingShape
        <4>2. PICK i \in DOMAIN Append(old, Priced(b, f)) : s = Append(old, Priced(b, f))[i]
          BY <3>1, <4>1 DEF ToSet
        <4>3. s \notin {old[j] : j \in DOMAIN old}
          BY <2>2, <3>1 DEF ToSet
        <4> HIDE DEF old
        <4>4. QED
          BY <1>4, <4>1, <4>2, <4>3, AppendProperties
      <3>3. QED
        BY <1>1, <1>3, <3>1, <3>2, ChargedIsShown
    <2>3. QED
      BY <2>1, <2>2
  <1>12. QED
    BY <1>6, <1>8, <1>9, <1>10, <1>11 DEF PricingIInv

\* The booking is made.
LEMMA StepInsert ==
    ASSUME PricingIInv, NEW b \in Bookings, Insert(b)
    PROVE  PricingIInv'
  <1>1. /\ pc[b] = "fares" /\ pc' = [pc EXCEPT ![b] = "made"]
        /\ bill' = [bill EXCEPT ![b] = Billed(b)]
        /\ shown' = [shown EXCEPT ![b] = None] /\ given' = [given EXCEPT ![b] = None]
        /\ schedule' = [schedule EXCEPT ![b] = None]
        /\ moved' = [moved EXCEPT ![b] = FALSE] /\ plain' = [plain EXCEPT ![b] = FALSE]
        /\ UNCHANGED <<fare, trip, coupon, discount, seatFares, refund, lowered>>
        /\ \/ discount[b] = None /\ UNCHANGED <<usages, usedCount, raced>>
           \/ /\ discount[b] # None /\ usages' = usages \cup {b} /\ usedCount' = usedCount + 1
              /\ raced' = raced \cup {c \in Bookings \ {b} : pc[c] = "fares" /\ discount[c] # None}
    BY DEF Insert, Goto, Leaves, rates
  <1>2. PricingShape /\ BillInv /\ PageInv /\ PricedAsShown /\ RoomInv /\ CouponLimit
    BY DEF PricingIInv
  <1>3. IsFiniteSet(usages') /\ Cardinality(usages') <= usedCount' /\ usedCount' \in Nat
    <2>1. /\ IsFiniteSet(usages) /\ Cardinality(usages) \in Nat /\ usedCount \in Nat
          /\ Cardinality(usages) <= usedCount
      BY <1>2, FS_CardinalityType DEF PricingShape
    <2>2. /\ IsFiniteSet(usages \cup {b})
          /\ Cardinality(usages \cup {b}) \in {Cardinality(usages), Cardinality(usages) + 1}
      BY <2>1, FS_AddElement
    <2>3. CASE UNCHANGED <<usages, usedCount>>
      BY <2>1, <2>3
    <2>4. CASE usages' = usages \cup {b} /\ usedCount' = usedCount + 1
      <3>1. IsFiniteSet(usages') /\ Cardinality(usages') \in {Cardinality(usages), Cardinality(usages) + 1}
        BY <2>2, <2>4
      <3>2. QED
        BY <2>1, <2>4, <3>1
    <2>5. QED
      BY <1>1, <2>3, <2>4
  <1>4. PricingShape'
    BY <1>1, <1>2, <1>3 DEF PricingShape, Stages
  <1>5. /\ pc'[b] = "made" /\ bill'[b] = Billed(b) /\ shown'[b] = None
        /\ \A c \in Bookings \ {b} :
              /\ pc'[c] = pc[c] /\ bill'[c] = bill[c] /\ shown'[c] = shown[c]
              /\ given'[c] = given[c] /\ schedule'[c] = schedule[c]
              /\ moved'[c] = moved[c] /\ plain'[c] = plain[c]
    BY <1>1, <1>2 DEF PricingShape
  <1>6. BillInv'
    <2>1. \A c \in Bookings : Billed(c)' = Billed(c)
      BY <1>1 DEF Billed, Total, Deduction
    <2>2. refund[b] = None
      BY <1>1, <1>2 DEF BillInv
    <2>3. QED
      BY <1>1, <1>2, <1>5, <2>1, <2>2 DEF BillInv
  <1>7. PageInv'
    BY <1>1, <1>2, <1>5, SameChoice DEF PageInv
  <1>8. PricedAsShown'
    BY <1>1, <1>2, <1>5 DEF PricedAsShown
  <1>9. RoomInv'
    BY <1>1, <1>2, <1>5 DEF RoomInv
  <1>10. CouponLimit'
    <2> SUFFICES ASSUME coupon # None, coupon.maxUses > 0, usedCount' > coupon.maxUses, ~lowered
                 PROVE  \E c \in raced' : pc'[c] \in {"made", "deleted"}
      BY <1>1, <1>3 DEF CouponLimit
    <2>1. CASE usedCount > coupon.maxUses
      <3>1. PICK c \in raced : pc[c] \in {"made", "deleted"}
        BY <1>2, <2>1 DEF CouponLimit
      <3>2. c \in raced' /\ c # b /\ c \in Bookings
        BY <1>1, <1>2, <3>1 DEF PricingShape
      <3>3. QED
        BY <1>5, <3>1, <3>2
    <2>2. CASE ~(usedCount > coupon.maxUses)
      <3>1. discount[b] # None /\ usedCount' = usedCount + 1
        BY <1>1, <2>2
      <3>2. coupon.maxUses \in Nat /\ usedCount \in Nat
        BY <1>2, AmountAssumption DEF PricingShape
      <3>3. ~(usedCount < coupon.maxUses)
        BY <3>1, <3>2
      <3>4. b \in raced
        BY <1>1, <1>2, <3>1, <3>3 DEF RoomInv
      <3>5. QED
        BY <1>1, <1>5, <3>4
    <2>3. QED
      BY <2>1, <2>2
  <1>11. QED
    BY <1>4, <1>6, <1>7, <1>8, <1>9, <1>10 DEF PricingIInv

\* The fee and the refund divide the net amount.
LEMMA StepCancel ==
    ASSUME PricingIInv, NEW b \in Bookings, Cancel(b)
    PROVE  PricingIInv'
  <1>1. PICK percentage \in {0, 20} : refund' = [refund EXCEPT ![b] = Fee(b, percentage)]
    BY DEF Cancel
  <1>2. /\ pc[b] = "made"
        /\ UNCHANGED <<fare, trip, coupon, pc, shown, given, schedule, discount, seatFares, usedCount,
                       usages, bill,
                       moved, plain, raced, lowered>>
    BY DEF Cancel, rates, call, history
  <1>3. PricingShape /\ BillInv /\ PageInv /\ PricedAsShown /\ RoomInv /\ CouponLimit
    BY DEF PricingIInv
  <1>4. PricingShape'
    BY <1>1, <1>2, <1>3 DEF PricingShape
  <1>5. refund'[b].chargeAmount + refund'[b].refundAmount = bill[b].netAmount
    <2> DEFINE net == bill[b].netAmount
               charge == Rounded(net * percentage, 100)
    <2>1. net \in Int
      BY <1>2, <1>3, BilledType DEF BillInv
    <2>2. net * percentage \in Int
      BY <2>1
    <2>3. charge \in Int
      <3> HIDE DEF net
      <3>1. QED
        BY <2>2, RoundedInt
    <2>4. refund'[b] = [chargeAmount |-> charge, refundAmount |-> net - charge]
      BY <1>1, <1>3 DEF PricingShape, Fee
    <2> HIDE DEF charge
    <2>5. QED
      BY <2>1, <2>3, <2>4
  <1>6. \A c \in Bookings \ {b} : refund'[c] = refund[c]
    BY <1>1, <1>3 DEF PricingShape
  <1>7. BillInv'
    <2>1. \A c \in Bookings : Billed(c)' = Billed(c)
      BY <1>2 DEF Billed, Total, Deduction
    <2>2. QED
      BY <1>2, <1>3, <1>5, <1>6, <2>1 DEF BillInv
  <1>8. PageInv' /\ PricedAsShown'
    <2>1. \A c \in Bookings :
             pc'[c] \in {"idle", "page", "coupon"} => discount'[c] = None /\ seatFares'[c] = <<>>
      BY <1>2, <1>3 DEF PageInv
    <2>2. QED
      BY <1>2, <1>3, <2>1, PagesKept
  <1>9. RoomInv' /\ CouponLimit'
    BY <1>2, <1>3, CouponKept DEF PricingShape
  <1>10. QED
    BY <1>4, <1>7, <1>8, <1>9 DEF PricingIInv

\* The booking goes, its use of the coupon stays counted.
LEMMA StepDelete ==
    ASSUME PricingIInv, NEW b \in Bookings, DeleteBooking(b)
    PROVE  PricingIInv'
  <1>1. /\ pc[b] = "made" /\ pc' = [pc EXCEPT ![b] = "deleted"]
        /\ usages' = usages \ {b}
        /\ bill' = [bill EXCEPT ![b] = None] /\ refund' = [refund EXCEPT ![b] = None]
        /\ discount' = [discount EXCEPT ![b] = None]
        /\ seatFares' = [seatFares EXCEPT ![b] = <<>>]
        /\ UNCHANGED <<fare, trip, coupon, shown, given, schedule, usedCount, moved, plain, raced,
                       lowered>>
    BY DEF DeleteBooking, Goto, rates, history
  <1>2. PricingShape /\ BillInv /\ PageInv /\ PricedAsShown /\ RoomInv /\ CouponLimit
    BY DEF PricingIInv
  <1>3. IsFiniteSet(usages') /\ Cardinality(usages') <= usedCount
    <2>1. /\ IsFiniteSet(usages) /\ Cardinality(usages) \in Nat /\ usedCount \in Nat
          /\ Cardinality(usages) <= usedCount
      BY <1>2, FS_CardinalityType DEF PricingShape
    <2>2. /\ IsFiniteSet(usages \ {b}) /\ Cardinality(usages \ {b}) \in Nat
          /\ Cardinality(usages \ {b}) <= Cardinality(usages)
      BY <2>1, FS_Subset, FS_CardinalityType
    <2>3. QED
      BY <1>1, <2>1, <2>2
  <1>4. seatFares' \in [Bookings -> Seq(PricedFares)]
    <2>1. <<>> \in Seq(PricedFares) /\ seatFares \in [Bookings -> Seq(PricedFares)]
      BY <1>2, EmptySeq DEF PricingShape
    <2>2. QED
      BY <1>1, <2>1
  <1>5. PricingShape'
    BY <1>1, <1>2, <1>3, <1>4 DEF PricingShape, Stages
  <1>6. /\ pc'[b] = "deleted" /\ bill'[b] = None /\ refund'[b] = None /\ discount'[b] = None
        /\ seatFares'[b] = <<>>
        /\ \A c \in Bookings \ {b} :
              /\ pc'[c] = pc[c] /\ bill'[c] = bill[c] /\ refund'[c] = refund[c]
              /\ discount'[c] = discount[c] /\ seatFares'[c] = seatFares[c]
    BY <1>1, <1>2 DEF PricingShape
  <1>7. BillInv'
    <2>1. \A c \in Bookings \ {b} : Billed(c)' = Billed(c)
      BY <1>6 DEF Billed, Total, Deduction
    <2>2. QED
      BY <1>2, <1>6, <2>1 DEF BillInv
  <1>8. PageInv' /\ PricedAsShown'
    <2>1. shown[b] = None
      BY <1>1, <1>2 DEF PageInv
    <2>2. \A c \in Bookings :
             /\ pc'[c] \in {"idle", "page", "coupon"} => discount'[c] = None /\ seatFares'[c] = <<>>
             /\ pc[c] \in {"page", "coupon", "fares"} => pc'[c] \in {"page", "coupon", "fares"}
             /\ pc'[c] \in {"coupon", "fares"} => pc[c] \in {"coupon", "fares"}
      BY <1>1, <1>2, <1>6 DEF PageInv
    <2>3. QED
      BY <1>1, <1>2, <1>6, <2>1, <2>2, PagesKept
  <1>9. RoomInv' /\ CouponLimit'
    BY <1>1, <1>2, <1>3, <1>6, CouponKept DEF PricingShape
  <1>10. QED
    BY <1>5, <1>7, <1>8, <1>9 DEF PricingIInv

-----------------------------------------------------------------------------
(* The admin's steps *)

\* Whatever becomes of the fares.
LEMMA StepFares ==
    ASSUME PricingIInv, FaresMoved, fare' \in [Fares -> FareRows \cup {None}],
           trip' \in Trips \cup {None},
           UNCHANGED <<coupon, call, rows, plain, raced, lowered>>
    PROVE  PricingIInv'
  <1>1. PricingShape /\ BillInv /\ PageInv /\ PricedAsShown /\ RoomInv /\ CouponLimit
    BY DEF PricingIInv
  <1>2. moved' \in [Bookings -> BOOLEAN]
    BY <1>1 DEF FaresMoved, PricingShape
  <1>3. PricingShape'
    BY <1>1, <1>2 DEF PricingShape, call, rows
  <1>4. BillInv'
    BY <1>1, BillsKept DEF call, rows
  <1>5. PageInv' /\ PricedAsShown'
    BY <1>1, PagesMoved DEF call
  <1>6. RoomInv' /\ CouponLimit'
    BY <1>1, CouponKept DEF call, rows, PricingShape
  <1>7. QED
    BY <1>3, <1>4, <1>5, <1>6 DEF PricingIInv

\* Whatever becomes of the coupon.
LEMMA StepCoupon ==
    ASSUME PricingIInv, NEW c \in Coupons \cup {None}, ChangeCoupon(c)
    PROVE  PricingIInv'
  <1>1. coupon' = c /\ lowered' /\ UNCHANGED <<fare, trip, call, rows, moved, plain, raced>>
    BY DEF ChangeCoupon
  <1>2. PricingShape /\ BillInv /\ PageInv /\ PricedAsShown /\ RoomInv /\ CouponLimit
    BY DEF PricingIInv
  <1>3. PricingShape'
    BY <1>1, <1>2 DEF PricingShape, call, rows
  <1>4. BillInv'
    BY <1>1, <1>2, BillsKept DEF call, rows
  <1>5. PageInv' /\ PricedAsShown'
    <2>1. \A b \in Bookings :
             pc'[b] \in {"idle", "page", "coupon"} => discount'[b] = None /\ seatFares'[b] = <<>>
      BY <1>1, <1>2 DEF PageInv, call
    <2>2. QED
      BY <1>1, <1>2, <2>1, PagesKept DEF call
  <1>6. RoomInv' /\ CouponLimit'
    BY <1>1, <1>2 DEF RoomInv, CouponLimit, rows
  <1>7. QED
    BY <1>3, <1>4, <1>5, <1>6 DEF PricingIInv

\* The trip is moved to another route or coach.
LEMMA StepTrip ==
    ASSUME PricingIInv, NEW t \in Trips, ChangeTrip(t)
    PROVE  PricingIInv'
  <1>1. trip' = t /\ UNCHANGED <<fare, coupon, call, rows, history>>
    BY DEF ChangeTrip
  <1>2. PricingShape /\ BillInv /\ PageInv /\ PricedAsShown /\ RoomInv /\ CouponLimit
    BY DEF PricingIInv
  <1>3. PricingShape'
    BY <1>1, <1>2 DEF PricingShape, call, rows, history
  <1>4. BillInv'
    BY <1>1, <1>2, BillsKept DEF call, rows
  <1>5. PageInv' /\ PricedAsShown'
    <2>1. \A b \in Bookings :
             pc'[b] \in {"idle", "page", "coupon"} => discount'[b] = None /\ seatFares'[b] = <<>>
      BY <1>1, <1>2 DEF PageInv, call
    <2>2. QED
      BY <1>1, <1>2, <2>1, PagesKept DEF call, history
  <1>6. RoomInv' /\ CouponLimit'
    BY <1>1, <1>2, CouponKept DEF call, rows, history, PricingShape
  <1>7. QED
    BY <1>3, <1>4, <1>5, <1>6 DEF PricingIInv

\* Every step keeps the invariant.
LEMMA PricingInductive == PricingIInv /\ [Next]_vars => PricingIInv'
  <1> SUFFICES ASSUME PricingIInv, [Next]_vars PROVE PricingIInv'
    OBVIOUS
  <1>1. ASSUME NEW b \in Bookings, BookingStep(b) PROVE PricingIInv'
    BY <1>1, StepLook, StepRead, StepValidate, StepSeatFare, StepInsert, StepCancel, StepDelete
       DEF BookingStep
  <1>2. ASSUME NEW f \in Fares, NEW r \in FareRows \cup {None}, ChangeFare(f, r)
        PROVE  PricingIInv'
    <2>1. fare' \in [Fares -> FareRows \cup {None}] /\ trip' \in Trips \cup {None}
      BY <1>2 DEF ChangeFare, PricingIInv, PricingShape
    <2>2. QED
      BY <1>2, <2>1, StepFares DEF ChangeFare
  <1>3. ASSUME NEW r \in Routes, RemoveRoute(r) PROVE PricingIInv'
    <2>1. fare' \in [Fares -> FareRows \cup {None}] /\ trip' \in Trips \cup {None}
      BY <1>3 DEF RemoveRoute, PricingIInv, PricingShape
    <2>2. QED
      BY <1>3, <2>1, StepFares DEF RemoveRoute
  <1>4. CASE UNCHANGED vars
    <2>1. PricingShape' /\ RoomInv' /\ CouponLimit'
      BY <1>4 DEF vars, rates, call, rows, history, PricingIInv, PricingShape, RoomInv, CouponLimit
    <2>2. BillInv'
      BY <1>4, BillsKept DEF vars, call, rows, PricingIInv
    <2>3. \A b \in Bookings :
             pc'[b] \in {"idle", "page", "coupon"} => discount'[b] = None /\ seatFares'[b] = <<>>
      BY <1>4 DEF vars, call, PricingIInv, PageInv
    <2>4. PageInv' /\ PricedAsShown'
      BY <1>4, <2>3, PagesKept DEF vars, rates, call, history, PricingIInv
    <2>5. QED
      BY <2>1, <2>2, <2>4 DEF PricingIInv
  <1>5. QED
    BY <1>1, <1>2, <1>3, <1>4, StepCoupon, StepTrip DEF Next, AdminStep

\* Nothing is shown, charged or used yet.
LEMMA PricingInit ==
    ASSUME Init
    PROVE  PricingIInv
  <1>1. PricingShape
    <2>1. fare \in [Fares -> FareRows \cup {None}]
      BY DEF Init
    <2>2. seatFares \in [Bookings -> Seq(PricedFares)]
      BY EmptySeq DEF Init
    <2>3. IsFiniteSet(usages) /\ Cardinality(usages) = 0
      BY FS_EmptySet DEF Init
    <2>4. QED
      BY <2>1, <2>2, <2>3 DEF Init, PricingShape, Stages
  <1>2. BillInv /\ PageInv /\ PricedAsShown /\ RoomInv
    BY DEF Init, BillInv, PageInv, PricedAsShown, RoomInv
  <1>3. CouponLimit
    <2>1. coupon.maxUses \in Nat /\ Cardinality(usages) = 0
      BY AmountAssumption, FS_EmptySet DEF Init
    <2>2. QED
      BY <2>1 DEF Init, CouponLimit
  <1>4. QED
    BY <1>1, <1>2, <1>3 DEF PricingIInv

\* The inductive invariant holds in every reachable state.
THEOREM PricingInvariance == Spec => []PricingIInv
  BY PricingInit, PricingInductive, PTL DEF Spec

\* For any fares, coupons and bookings, and any changes of them: the amounts in the
\* rows of a booking and of its cancellation fit together.
THEOREM Amounts == Spec => []AmountsAgree
  <1>1. PricingIInv => AmountsAgree
    BY BillsAgree DEF PricingIInv
  <1>2. QED
    BY PricingInvariance, <1>1, PTL

\* For any fares of any companies, any trips and seats: as long as fares have not
\* changed the customer pays what the page said, wherever the trip has moved if the
\* call names the page's fare, and else if the trip is what it was and the page left
\* no choice of a fare.
THEOREM PagePrice == Spec => []PricedAsShown
  <1>1. PricingIInv => PricedAsShown
    BY DEF PricingIInv
  <1>2. QED
    BY PricingInvariance, <1>1, PTL

\* For any number of bookings: a coupon is used beyond its limit only by bookings that
\* had validated it before another use was counted, or after a change of the coupon.
THEOREM Coupon == Spec => []CouponLimit
  <1>1. PricingIInv => CouponLimit
    BY DEF PricingIInv
  <1>2. QED
    BY PricingInvariance, <1>1, PTL

=============================================================================
