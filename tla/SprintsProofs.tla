---------------------------- MODULE SprintsProofs ----------------------------
(***************************************************************************)
(* Safety of Planning for every set of tickets, and the types of           *)
(* SprintLifecycle and Planning as MCSprints puts the two side by side. A  *)
(* ticket is at risk for at least two of three reasons, and MoreReasons    *)
(* compares the reasons of one day with those of the next.                 *)
(***************************************************************************)
EXTENDS MCSprints, SprintLifecycleProofs, Integers, FiniteSetTheorems

-----------------------------------------------------------------------------
(* Planning                                                                 *)

LEMMA PlanInitHolds == ASSUME Plan!LengthOK, Plan!Init PROVE Plan!TypeOK
BY DEF Plan!LengthOK, Plan!Init, Plan!TypeOK, Plan!Row, Plan!Column, Plan!Earliest, Plan!Terminal,
       Plan!Age, Plan!StaleDays

LEMMA RowFields ==
    ASSUME NEW k \in Plan!Row
    PROVE  /\ k.column \in Plan!Column /\ k.assigned \in BOOLEAN /\ k.age \in 0 .. 3
           /\ k.planned \in BOOLEAN /\ k.live \in BOOLEAN
BY DEF Plan!Row, Plan!Age, Plan!StaleDays

\* Days as they are counted.
LEMMA Days ==
    /\ \A n \in 0 .. 3 : LET m == IF n = 3 THEN n ELSE n + 1 IN m \in 0 .. 3 /\ n <= m
    /\ \A n \in -1 .. 3 : LET m == IF n = -1 THEN n ELSE n - 1 IN m \in -1 .. 3 /\ m <= n
OBVIOUS

LEMMA DaysLeftRange == Plan!DaysLeft = -1 .. 3
<1>1. Plan!LastDay = -1
  BY DEF Plan!LastDay
<1>2. Plan!RunwayDays + 1 = 3
  BY DEF Plan!RunwayDays
<1> QED
  BY <1>1, <1>2 DEF Plan!DaysLeft

LEMMA RowWrites ==
    ASSUME NEW k \in Plan!Row
    PROVE  /\ [k EXCEPT !.age = 0] \in Plan!Row
           /\ [k EXCEPT !.planned = FALSE] \in Plan!Row
           /\ [k EXCEPT !.planned = FALSE, !.age = 0]
                = [[k EXCEPT !.planned = FALSE] EXCEPT !.age = 0]
<1>1. 0 \in Plan!Age
  BY DEF Plan!Age, Plan!StaleDays
<1> QED
  BY <1>1 DEF Plan!Row

LEMMA TouchKeeps ==
    ASSUME Plan!TypeOK, NEW t \in PlanTicket, NEW k \in Plan!Row, Plan!Touch(t, k),
           UNCHANGED planSprint
    PROVE  Plan!TypeOK'
BY RowWrites DEF Plan!Touch, Plan!TypeOK

LEMMA PlanNextKeeps == ASSUME Plan!TypeOK, [Plan!Next]_(Plan!vars) PROVE Plan!TypeOK'
<1>1. ASSUME NEW t \in PlanTicket, Plan!PatchTicket(t) PROVE Plan!TypeOK'
  <2>1. PICK c \in Plan!Column, a \in BOOLEAN, p \in BOOLEAN :
          Plan!Touch(t, [planTicket[t] EXCEPT !.column = c, !.assigned = a, !.planned = p])
    BY <1>1 DEF Plan!PatchTicket
  <2>2. [planTicket[t] EXCEPT !.column = c, !.assigned = a, !.planned = p] \in Plan!Row
    BY DEF Plan!TypeOK, Plan!Row
  <2> QED
    BY <1>1, <2>1, <2>2, TouchKeeps DEF Plan!PatchTicket
<1>2. ASSUME NEW t \in PlanTicket, Plan!FlagTicket(t) PROVE Plan!TypeOK'
  <2>1. [planTicket[t] EXCEPT !.live = ~@] \in Plan!Row
    BY DEF Plan!TypeOK, Plan!Row
  <2> QED
    BY <1>2, <2>1, TouchKeeps DEF Plan!FlagTicket
<1>3. ASSUME NEW t \in PlanTicket, Plan!WorkerWrite(t) PROVE Plan!TypeOK'
  BY <1>3, TouchKeeps DEF Plan!WorkerWrite, Plan!TypeOK
<1>4. ASSUME NEW n \in Plan!DaysLeft, Plan!MoveEnd(n) PROVE Plan!TypeOK'
  BY <1>4 DEF Plan!MoveEnd, Plan!TypeOK
<1>5. ASSUME Plan!Start PROVE Plan!TypeOK'
  BY <1>5 DEF Plan!Start, Plan!TypeOK
<1>6. ASSUME Plan!Complete PROVE Plan!TypeOK'
  <2> DEFINE unfinished == {t \in Plan!Planned : planTicket[t].column # Plan!Terminal}
  <2>1. unfinished \subseteq PlanTicket
    BY DEF Plan!Planned
  <2>2. /\ planSprint' = [planSprint EXCEPT !.status = "completed", !.returned = unfinished]
        /\ planTicket' = [t \in PlanTicket |->
             IF t \in unfinished THEN [planTicket[t] EXCEPT !.planned = FALSE, !.age = 0]
             ELSE planTicket[t]]
    BY <1>6 DEF Plan!Complete
  <2> HIDE DEF unfinished
  <2>3. ASSUME NEW k \in Plan!Row PROVE [k EXCEPT !.planned = FALSE, !.age = 0] \in Plan!Row
    BY <2>3, RowWrites
  <2> QED
    BY <2>1, <2>2, <2>3 DEF Plan!TypeOK
<1>7. ASSUME Plan!NextDay PROVE Plan!TypeOK'
  <2>1. \A k \in Plan!Row : [k EXCEPT !.age = IF @ = Plan!StaleDays THEN @ ELSE @ + 1] \in Plan!Row
    BY DEF Plan!Row, Plan!Age, Plan!StaleDays
  <2>2. IF planSprint.left = Plan!LastDay THEN planSprint.left \in Plan!DaysLeft
        ELSE planSprint.left - 1 \in Plan!DaysLeft
    BY DEF Plan!TypeOK, Plan!DaysLeft, Plan!LastDay, Plan!RunwayDays
  <2>3. planSprint' = [planSprint EXCEPT !.left = IF @ = Plan!LastDay THEN @ ELSE @ - 1]
    BY <1>7 DEF Plan!NextDay
  <2>4. planTicket' = [t \in PlanTicket |->
          [planTicket[t] EXCEPT !.age = IF @ = Plan!StaleDays THEN @ ELSE @ + 1]]
    BY <1>7 DEF Plan!NextDay
  <2>5. planTicket' \in [PlanTicket -> Plan!Row]
    BY <2>1, <2>4 DEF Plan!TypeOK
  <2> QED
    BY <2>2, <2>3, <2>5 DEF Plan!TypeOK
<1>8. CASE UNCHANGED Plan!vars
  BY <1>8 DEF Plan!vars, Plan!TypeOK
<1> QED
  BY <1>1, <1>2, <1>3, <1>4, <1>5, <1>6, <1>7, <1>8 DEF Plan!Next

\* The two counts are of one set of tickets.
LEMMA SameMarks == ASSUME Plan!TypeOK PROVE Plan!CountIsOfMarks
<1> DEFINE marks == {t \in PlanTicket : planTicket[t].live /\ Plan!Mark(t) = "at risk"}
<1>1. CASE planSprint.status = "active"
  <2>1. {t \in Plan!Planned : Plan!AtRisk(planTicket[t], planSprint.left)} = marks
    BY <1>1 DEF Plan!Planned, Plan!Mark
  <2> QED
    BY <1>1, <2>1 DEF Plan!AtRiskCount, Plan!CountIsOfMarks
<1>2. CASE planSprint.status # "active"
  <2>1. marks = {}
    BY <1>2 DEF Plan!Mark
  <2>2. Plan!Cardinality({}) = 0
    <3>1. Cardinality({}) = 0
      BY FS_EmptySet
    <3> QED
      BY <3>1 DEF Plan!Cardinality, Cardinality
  <2> QED
    BY <1>2, <2>1, <2>2 DEF Plan!AtRiskCount, Plan!CountIsOfMarks
<1> QED
  BY <1>1, <1>2

\* Of three reasons, more hold when each that held still does.
LEMMA MoreReasons ==
    ASSUME NEW k \in Plan!Row, NEW m \in Plan!Row, NEW x \in Plan!DaysLeft, NEW y \in Plan!DaysLeft,
           k.column = m.column, k.assigned = m.assigned, k.age <= m.age, y <= x,
           Plan!AtRisk(k, x)
    PROVE  Plan!AtRisk(m, y)
<1> DEFINE reasons(n, d) == {i \in 1 .. 3 : <<Plan!Unowned(n), Plan!Stale(n), Plan!LowRunway(d)>>[i]}
<1>1. /\ Plan!Unowned(k) => Plan!Unowned(m)
      /\ Plan!Stale(k) => Plan!Stale(m)
      /\ Plan!LowRunway(x) => Plan!LowRunway(y)
  BY RowFields DEF Plan!Unowned, Plan!Stale, Plan!LowRunway, Plan!DaysLeft, Plan!LastDay,
                   Plan!RunwayDays, Plan!StaleDays
<1>2. \A a, b, c \in BOOLEAN, i \in 1 .. 3 :
        <<a, b, c>>[i] <=> (i = 1 /\ a) \/ (i = 2 /\ b) \/ (i = 3 /\ c)
  OBVIOUS
<1>3. /\ Plan!Unowned(k) \in BOOLEAN /\ Plan!Stale(k) \in BOOLEAN /\ Plan!LowRunway(x) \in BOOLEAN
      /\ Plan!Unowned(m) \in BOOLEAN /\ Plan!Stale(m) \in BOOLEAN /\ Plan!LowRunway(y) \in BOOLEAN
  BY DEF Plan!Unowned, Plan!Stale, Plan!LowRunway
<1>4. reasons(k, x) \subseteq reasons(m, y)
  BY <1>1, <1>2, <1>3
<1>5. IsFiniteSet(1 .. 3) /\ reasons(m, y) \subseteq 1 .. 3
  <2>1. IsFiniteSet(1 .. 3)
    BY FS_Interval, 1 \in Int, 3 \in Int
  <2>2. reasons(m, y) \subseteq 1 .. 3
    OBVIOUS
  <2> QED
    BY <2>1, <2>2
<1>6. /\ IsFiniteSet(reasons(m, y)) /\ IsFiniteSet(reasons(k, x))
      /\ Cardinality(reasons(k, x)) <= Cardinality(reasons(m, y))
      /\ Cardinality(reasons(k, x)) \in Nat /\ Cardinality(reasons(m, y)) \in Nat
  <2> HIDE DEF reasons
  <2> QED
    BY <1>4, <1>5, FS_Subset, FS_CardinalityType
<1>7. k.column # Plan!Terminal /\ Plan!Cardinality(reasons(k, x)) >= Plan!Threshold
  BY DEF Plan!AtRisk
<1>8. /\ Plan!Cardinality(reasons(k, x)) = Cardinality(reasons(k, x))
      /\ Plan!Cardinality(reasons(m, y)) = Cardinality(reasons(m, y))
  <2> HIDE DEF reasons
  <2> QED
    BY DEF Plan!Cardinality, Cardinality
<1>9. Plan!Cardinality(reasons(m, y)) >= Plan!Threshold
  <2> HIDE DEF reasons
  <2> QED
    BY <1>6, <1>7, <1>8 DEF Plan!Threshold
<1> QED
  BY <1>7, <1>9 DEF Plan!AtRisk

LEMMA DayKeepsMarks ==
    ASSUME Plan!TypeOK, Plan!NextDay, NEW t \in PlanTicket, Plan!Mark(t) = "at risk"
    PROVE  Plan!Mark(t)' = "at risk"
<1> DEFINE k == planTicket[t]
           m == planTicket'[t]
<1>1. /\ planSprint.status = "active" /\ k.planned /\ Plan!AtRisk(k, planSprint.left)
  BY DEF Plan!Mark
<1>2. planSprint' = [planSprint EXCEPT !.left = IF @ = Plan!LastDay THEN @ ELSE @ - 1]
  BY DEF Plan!NextDay
<1>3. /\ planSprint.left \in Plan!DaysLeft /\ planSprint'.left \in Plan!DaysLeft
      /\ planSprint'.left <= planSprint.left /\ planSprint'.status = "active"
  <2>1. /\ planSprint'.left = IF planSprint.left = -1 THEN planSprint.left ELSE planSprint.left - 1
        /\ planSprint'.status = planSprint.status /\ planSprint.left \in Plan!DaysLeft
    BY <1>2 DEF Plan!TypeOK, Plan!LastDay
  <2> QED
    BY <1>1, <2>1, DaysLeftRange, Days
<1>4. k \in Plan!Row /\ m = [k EXCEPT !.age = IF @ = Plan!StaleDays THEN @ ELSE @ + 1]
  BY DEF Plan!NextDay, Plan!TypeOK
<1> HIDE DEF k, m
<1>5. /\ m \in Plan!Row /\ m.column = k.column /\ m.assigned = k.assigned /\ k.age <= m.age
      /\ m.planned = k.planned
  <2>1. k.age \in 0 .. 3
    BY <1>4, RowFields
  <2> DEFINE age == IF k.age = 3 THEN k.age ELSE k.age + 1
  <2>2. m = [k EXCEPT !.age = age]
    BY <1>4 DEF Plan!StaleDays
  <2> HIDE DEF age
  <2>3. age \in 0 .. 3 /\ k.age <= age
    BY <2>1, Days DEF age
  <2> QED
    BY <1>4, <2>2, <2>3 DEF Plan!Row, Plan!Age, Plan!StaleDays
<1>6. Plan!AtRisk(m, planSprint'.left)
  BY <1>1, <1>3, <1>4, <1>5, MoreReasons
<1>7. m.planned
  BY <1>1, <1>5
<1> QED
  BY <1>3, <1>6, <1>7 DEF m, Plan!Mark

-----------------------------------------------------------------------------
(* Points. They are the elements of a finite set, a ticket having as many   *)
(* elements of its own as it has points.                                    *)

Units(S) == UNION {{t} \X (1 .. Points[t]) : t \in S}

\* Planning's finite sets and their sizes are those of the library's theorems.
LEMMA SameFinite == \A S : Plan!IsFiniteSet(S) <=> IsFiniteSet(S)
BY DEF Plan!IsFiniteSet, IsFiniteSet

LEMMA SameSize == \A S : Plan!Cardinality(S) = Cardinality(S)
BY DEF Plan!Cardinality, Cardinality

LEMMA PointsAreUnits == \A S : Plan!PointsOf(S) = Cardinality(Units(S))
BY SameSize DEF Plan!PointsOf, Units

LEMMA UnitsFinite == ASSUME Plan!PointsOK, NEW S \in SUBSET PlanTicket PROVE IsFiniteSet(Units(S))
<1> DEFINE F == [t \in S |-> {t} \X (1 .. Points[t])]
           parts == {{t} \X (1 .. Points[t]) : t \in S}
<1>1. IsFiniteSet(S)
  BY FS_Subset, SameFinite DEF Plan!PointsOK
<1>2. F \in Surjection(S, parts)
  BY DEF Surjection
<1>3. IsFiniteSet(parts)
  BY <1>1, <1>2, FS_Surjection DEF ExistsSurjection
<1>4. ASSUME NEW t \in S PROVE IsFiniteSet({t} \X (1 .. Points[t]))
  <2>1. Points[t] \in Int
    BY DEF Plan!PointsOK
  <2>2. IsFiniteSet(1 .. Points[t])
    BY <2>1, FS_Interval
  <2>3. IsFiniteSet({t})
    BY FS_Singleton
  <2> QED
    BY <2>2, <2>3, FS_Product
<1> QED
  BY <1>3, <1>4, FS_UNION DEF Units

\* The points of two parts of a plan add up.
LEMMA PointsAdd ==
    ASSUME Plan!PointsOK, NEW S \in SUBSET PlanTicket, NEW T \in SUBSET S
    PROVE  Plan!PointsOf(S \ T) + Plan!PointsOf(T) = Plan!PointsOf(S)
<1>1. Units(S) = Units(S \ T) \cup Units(T)
  BY DEF Units
<1>2. Units(S \ T) \cap Units(T) = {}
  BY DEF Units
<1>3. IsFiniteSet(Units(S \ T)) /\ IsFiniteSet(Units(T))
  BY UnitsFinite
<1>4. Cardinality(Units(S \ T)) \in Nat /\ Cardinality(Units(T)) \in Nat
  BY <1>3, FS_CardinalityType
<1>5. Cardinality(Units(S)) = Cardinality(Units(S \ T)) + Cardinality(Units(T)) - Cardinality({})
  BY <1>1, <1>2, <1>3, FS_Union
<1> QED
  BY <1>4, <1>5, FS_EmptySet, PointsAreUnits

\* A completion splits the plan into what it returns and what stays.
LEMMA CompletionSplits ==
    ASSUME Plan!PointsOK, Plan!TypeOK, Plan!Complete
    PROVE  Plan!PointsPlanned' = Plan!TotalPoints
<1> DEFINE unfinished == {t \in Plan!Planned : planTicket[t].column # Plan!Terminal}
<1>1. /\ planSprint'.returned = unfinished
      /\ planTicket' = [t \in PlanTicket |->
           IF t \in unfinished THEN [planTicket[t] EXCEPT !.planned = FALSE, !.age = 0]
           ELSE planTicket[t]]
  BY DEF Plan!Complete, Plan!TypeOK
<1>2. unfinished \subseteq Plan!Planned /\ Plan!Planned \subseteq PlanTicket
  BY DEF Plan!Planned
<1> HIDE DEF unfinished
<1>3. \A t \in PlanTicket : t \notin unfinished => planTicket'[t] = planTicket[t]
  BY <1>1
<1>4. Plan!Planned' = Plan!Planned \ unfinished
  <2>1. ASSUME NEW t \in unfinished PROVE ~planTicket'[t].planned
    <3>1. t \in PlanTicket /\ planTicket[t] \in Plan!Row
      BY <1>2 DEF Plan!TypeOK
    <3>2. planTicket'[t] = [planTicket[t] EXCEPT !.planned = FALSE, !.age = 0]
      BY <1>1, <3>1
    <3> QED
      BY <3>1, <3>2 DEF Plan!Row
  <2> QED
    BY <1>2, <1>3, <2>1 DEF Plan!Planned
<1>5. Plan!PointsPlanned' = Plan!PointsOf(Plan!Planned') + Plan!PointsOf(planSprint'.returned)
  BY DEF Plan!PointsPlanned, Plan!TotalPoints, Plan!PointsOf
<1> QED
  BY <1>1, <1>2, <1>4, <1>5, PointsAdd DEF Plan!PointsPlanned, Plan!TotalPoints

-----------------------------------------------------------------------------
(* The two side by side.                                                    *)

PartsNext == SprintsMove \/ PlanMoves
PartsInv == TypeOK /\ Plan!TypeOK

\* A step of the two is a step, or none, of each.
LEMMA PartsSteps == [PartsNext]_allVars => [Next]_vars /\ [Plan!Next]_(Plan!vars)
BY DEF PartsNext, SprintsMove, PlanMoves, allVars, planVars, Plan!vars

LEMMA PartsInvHolds == ASSUME Plan!LengthOK PROVE PartsSpec => []PartsInv
<1>1. PartsInit => PartsInv
  BY InitTypeOK, PlanInitHolds DEF PartsInit, PartsInv
<1>2. PartsInv /\ [PartsNext]_allVars => PartsInv'
  BY PartsSteps, NextTypeOK, PlanNextKeeps DEF PartsInv
<1> QED
  BY <1>1, <1>2, PTL DEF PartsSpec, PartsNext

\* The variables of both modules always have their types; days until the end of
\* a sprint stay within what the rules tell apart.
THEOREM SprintsTypes == ASSUME Plan!LengthOK, Plan!PointsOK PROVE PartsSpec => []TypesOK
<1>1. PartsInv => TypesOK
  BY DEF PartsInv, TypesOK
<1> QED
  BY <1>1, PartsInvHolds, PTL

\* For any number of tickets, whatever is patched, deleted, restored or moved:
\* the count in the sprint's response is the number of marks on its board.
\* sprints.py:171-200, tickets.py:283-319.
THEOREM CountIsOfMarksHolds == ASSUME Plan!LengthOK PROVE PartsSpec => []CountIsOfMarks
<1>1. PartsInv => CountIsOfMarks
  BY SameMarks DEF PartsInv, CountIsOfMarks
<1> QED
  BY <1>1, PartsInvHolds, PTL

\* For any number of tickets, a day that passes takes no mark away, not even
\* the day after the sprint's end. at_risk.py:76-80 and :163-230.
THEOREM RiskOutlivesTheDayHolds ==
    ASSUME Plan!LengthOK PROVE PartsSpec => RiskOutlivesTheDay
<1>1. PartsInv /\ [PartsNext]_allVars
        => [Plan!NextDay =>
              \A t \in PlanTicket : Plan!Mark(t) = "at risk" => Plan!Mark(t)' = "at risk"]_(Plan!vars)
  BY DayKeepsMarks DEF PartsInv
<1> QED
  BY <1>1, PartsInvHolds, PTL DEF PartsSpec, PartsNext, RiskOutlivesTheDay, Plan!RiskOutlivesTheDay

\* For any number of tickets of any size, a completion changes no points: what
\* it returns and what stays in the sprint add up to the plan of the moment
\* before. sprints.py:152-168, sprint_retro_context.py:33-47.
THEOREM CompletionKeepsPointsHolds ==
    ASSUME Plan!LengthOK, Plan!PointsOK PROVE PartsSpec => CompletionKeepsPoints
<1>1. PartsInv /\ [PartsNext]_allVars
        => [planSprint.status = "active" /\ planSprint'.status = "completed"
              => Plan!PointsPlanned' = Plan!TotalPoints]_(Plan!vars)
  <2> SUFFICES ASSUME Plan!TypeOK, Plan!Next,
                      planSprint.status = "active", planSprint'.status = "completed"
               PROVE  Plan!PointsPlanned' = Plan!TotalPoints
    BY PartsSteps DEF PartsInv, Plan!vars
  <2>1. Plan!Complete
    BY DEF Plan!Next, Plan!TypeOK, Plan!Start, Plan!NextDay, Plan!MoveEnd, Plan!PatchTicket,
           Plan!FlagTicket, Plan!WorkerWrite
  <2> QED
    BY <2>1, CompletionSplits
<1> QED
  BY <1>1, PartsInvHolds, PTL DEF PartsSpec, PartsNext, CompletionKeepsPoints, Plan!CompletionKeepsPoints
=============================================================================
