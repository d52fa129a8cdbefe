---------------------------- MODULE BudgetProofs ----------------------------
(* Proofs about the token budget, for every number of callers, every limit *)
(* and reserve, and any clock.                                             *)
EXTENDS Budget, FiniteSetTheorems, TLAPS

-----------------------------------------------------------------------------
(* Arithmetic.                                                             *)

\* A product grows with its first factor.
LEMMA ProductGrows ==
    ASSUME NEW a \in Nat, NEW b \in Nat, NEW m \in Nat, a <= b
    PROVE  a * m \in Nat /\ b * m \in Nat /\ a * m <= b * m
<1>1. PICK k \in Nat : b = a + k
    BY SMT
<1>2. b * m = a * m + k * m
    BY <1>1, SMT
<1>3. k * m \in Nat /\ a * m \in Nat
    BY <1>1, SMT
<1>4. QED BY <1>2, <1>3, SMT

\* One less of a positive factor.
LEMMA ProductOneLess ==
    ASSUME NEW a \in Nat, NEW m \in Nat, a > 0
    PROVE  (a - 1) * m = a * m - m
BY SMT

\* A later moment is on the same or on a later day.
LEMMA DaysFollow ==
    ASSUME NEW a \in Nat, NEW b \in Nat, NEW n \in Nat \ {0}, a <= b
    PROVE  a \div n \in Nat /\ b \div n \in Nat /\ a \div n <= b \div n
<1>1. a \div n \in Nat /\ b \div n \in Nat
    BY SMT
<1>2. a = n * (a \div n) + (a % n) /\ b = n * (b \div n) + (b % n)
    BY SMT
<1>3. a % n \in 0 .. n - 1 /\ b % n \in 0 .. n - 1
    BY SMT
<1>4. SUFFICES ASSUME b \div n + 1 <= a \div n PROVE FALSE
    BY <1>1, SMT
<1>5. (b \div n + 1) * n <= (a \div n) * n
    BY <1>1, <1>4, ProductGrows
<1>6. (b \div n + 1) * n = n * (b \div n) + n /\ (a \div n) * n = n * (a \div n)
    BY <1>1, SMT
<1>7. QED BY <1>1, <1>2, <1>3, <1>5, <1>6, SMT

-----------------------------------------------------------------------------
(* The inductive invariant.                                                *)

\* The calls that will be booked on d, unless midnight comes first.
Pending(d) ==
    {c \in Callers : \/ calls[c].at = "booking" /\ calls[c].day = d
                     \/ calls[c].at = "calling" /\ d = Today}

\* No row is made ahead of its day.
NoRowAhead == \A d \in Days : d > Today => days[d] = Null

\* What the pending calls can still use fits into the excess.
RoomLeft(d) ==
    days[d] # Null =>
        days[d].used + Cardinality(Pending(d)) * MaxUsage
            <= days[d].limit + Cardinality(Callers) * MaxUsage

IInv ==
    /\ TypeOK
    /\ NoRowAhead
    /\ \A d \in Days : RoomLeft(d)

\* Today is one of the days of the table.
LEMMA TodayIsADay ==
    ASSUME clock \in 0 .. MaxClock
    PROVE  Today \in Days /\ Today \in Nat
<1>1. clock \in Nat /\ MaxClock \in Nat /\ DayLength \in Nat \ {0} /\ clock <= MaxClock
    BY BudgetAssumption
<1>2. /\ clock \div DayLength \in Nat /\ MaxClock \div DayLength \in Nat
      /\ clock \div DayLength <= MaxClock \div DayLength
    BY <1>1, DaysFollow
<1>3. QED BY <1>2 DEF Today, Days

\* The pending calls of a day are finitely many, at most all of them.
LEMMA PendingBounded ==
    ASSUME NEW d
    PROVE  /\ IsFiniteSet(Pending(d))
           /\ Cardinality(Pending(d)) \in Nat
           /\ Cardinality(Callers) \in Nat
           /\ Cardinality(Pending(d)) <= Cardinality(Callers)
           /\ Cardinality(Pending(d)) * MaxUsage \in Nat
           /\ Cardinality(Callers) * MaxUsage \in Nat
           /\ Cardinality(Pending(d)) * MaxUsage <= Cardinality(Callers) * MaxUsage
<1>1. IsFiniteSet(Callers) /\ MaxUsage \in Nat
    BY BudgetAssumption
<1>2. Pending(d) \in SUBSET Callers
    BY DEF Pending
<1>3. IsFiniteSet(Pending(d)) /\ Cardinality(Pending(d)) <= Cardinality(Callers)
    BY <1>1, <1>2, FS_Subset
<1>4. Cardinality(Pending(d)) \in Nat /\ Cardinality(Callers) \in Nat
    BY <1>1, <1>3, FS_CardinalityType
<1>5. QED BY <1>1, <1>3, <1>4, ProductGrows

\* The same of the calls pending after a step.
LEMMA PendingBoundedPrime ==
    ASSUME NEW d
    PROVE  /\ IsFiniteSet(Pending(d)')
           /\ Cardinality(Pending(d)') \in Nat
           /\ Cardinality(Pending(d)') <= Cardinality(Callers)
           /\ Cardinality(Pending(d)') * MaxUsage \in Nat
           /\ Cardinality(Pending(d)') * MaxUsage <= Cardinality(Callers) * MaxUsage
<1>1. IsFiniteSet(Callers) /\ MaxUsage \in Nat
    BY BudgetAssumption
<1>2. Pending(d)' \in SUBSET Callers
    BY DEF Pending
<1>3. IsFiniteSet(Pending(d)') /\ Cardinality(Pending(d)') <= Cardinality(Callers)
    BY <1>1, <1>2, FS_Subset
<1>4. Cardinality(Pending(d)') \in Nat /\ Cardinality(Callers) \in Nat
    BY <1>1, <1>3, FS_CardinalityType
<1>5. QED BY <1>1, <1>3, <1>4, ProductGrows

\* Fewer pending calls need no more room.
LEMMA FewerPending ==
    ASSUME NEW d, Pending(d)' \subseteq Pending(d)
    PROVE  Cardinality(Pending(d)') * MaxUsage <= Cardinality(Pending(d)) * MaxUsage
<1>1. IsFiniteSet(Pending(d)) /\ Cardinality(Pending(d)) \in Nat /\ Cardinality(Pending(d)') \in Nat
    BY PendingBounded, PendingBoundedPrime
<1>2. Cardinality(Pending(d)') <= Cardinality(Pending(d))
    BY <1>1, FS_Subset
<1>3. QED BY <1>1, <1>2, BudgetAssumption, ProductGrows

-----------------------------------------------------------------------------
(* Types.                                                                  *)

LEMMA InitTyped == BudgetInit => TypeOK
<1> SUFFICES ASSUME BudgetInit PROVE TypeOK
    OBVIOUS
<1> USE DEF BudgetInit
<1>1. clock \in 0 .. MaxClock
    BY BudgetAssumption
<1>2. NoCall \in CallType
    BY DEF CallType
<1>3. \A c \in Callers : calls[c] = NoCall /\ calls[c].at # "booking"
    BY DEF NoCall
<1>4. QED BY <1>1, <1>2, <1>3 DEF TypeOK

\* Making a row keeps the table's type and every row that is there.
LEMMA EnsuredTable ==
    ASSUME TypeOK, NEW day \in Days
    PROVE  LET table == EnsureDayRow(days, day)
           IN  /\ table \in [Days -> Row \cup {Null}]
               /\ table[day] # Null /\ table[day] \in Row
               /\ \A d \in Days : days[d] # Null => table[d] = days[d]
               /\ \A d \in Days : d # day => table[d] = days[d]
               /\ days[day] = Null => table[day].used = 0 /\ ~table[day].exhausted
<1> DEFINE row == [used |-> 0, limit |-> config.dailyTokenLimit, exhausted |-> FALSE]
<1>1. config.dailyTokenLimit \in Nat
    BY BudgetAssumption DEF TypeOK
<1>2. row \in Row /\ Null \notin Row
    BY <1>1, BudgetAssumption DEF Row
<1>3. days \in [Days -> Row \cup {Null}]
    BY DEF TypeOK
<1>4. CASE days[day] # Null
    BY <1>2, <1>3, <1>4 DEF EnsureDayRow
<1>5. CASE days[day] = Null
    <2>1. EnsureDayRow(days, day) = [days EXCEPT ![day] = row]
        BY <1>5 DEF EnsureDayRow
    <2>2. row.used = 0 /\ row.exhausted = FALSE
        OBVIOUS
    <2> HIDE DEF row
    <2>3. QED BY <1>2, <1>3, <1>5, <2>1, <2>2
<1>6. QED BY <1>4, <1>5

\* A booking keeps the type of a row and its limit, adds the usage and marks exhaustion.
LEMMA BookedRow ==
    ASSUME NEW row \in Row, NEW usage \in Nat
    PROVE  /\ Booked(row, usage) \in Row
           /\ Booked(row, usage).used = row.used + usage
           /\ Booked(row, usage).limit = row.limit
           /\ Booked(row, usage).exhausted = (row.exhausted \/ row.used + usage >= row.limit)
<1>1. row.used \in Nat /\ row.limit \in Nat /\ row.exhausted \in BOOLEAN /\ row.used + usage \in Nat
    BY DEF Row
<1>2. (row.exhausted \/ row.used + usage >= row.limit) \in BOOLEAN
    OBVIOUS
<1> DEFINE used == row.used + usage
           mark == row.exhausted \/ row.used + usage >= row.limit
<1>3. Booked(row, usage) = [row EXCEPT !.used = used, !.exhausted = mark]
    BY Zenon DEF Booked
<1>4. used \in Nat /\ mark \in BOOLEAN
    BY <1>1, <1>2
<1> HIDE DEF used, mark
<1>5. Booked(row, usage) \in Row
    BY <1>3, <1>4 DEF Row
<1>6. /\ Booked(row, usage).used = used
      /\ Booked(row, usage).limit = row.limit
      /\ Booked(row, usage).exhausted = mark
    BY <1>3, <1>4 DEF Row
<1>7. QED BY <1>5, <1>6 DEF used, mark

\* Every step keeps the types, and a call being booked has the row of its day.
LEMMA StepTyped == TypeOK /\ [BudgetNext]_budgetVars => TypeOK'
<1> SUFFICES ASSUME TypeOK, [BudgetNext]_budgetVars PROVE TypeOK'
    OBVIOUS
<1>1. /\ config \in Configs
      /\ clock \in 0 .. MaxClock
      /\ days \in [Days -> Row \cup {Null}]
      /\ calls \in [Callers -> CallType]
      /\ background \in [Days -> Nat]
      /\ \A c \in Callers : calls[c].at = "booking" => calls[c].day \in Days /\ days[calls[c].day] # Null
    BY DEF TypeOK
<1>2. Today \in Days
    BY <1>1, TodayIsADay
<1>3. NoCall \in CallType /\ NoCall.at = "idle" /\ "idle" # "booking"
    BY DEF NoCall, CallType
<1>4. Null \notin Row
    BY BudgetAssumption DEF Row
<1>5. ASSUME NEW c \in Callers, NEW prov \in Provenances, NEW estimate \in Estimates,
             CanSpend(c, prov, estimate)
      PROVE  TypeOK'
    <2> DEFINE called == [at |-> "calling", prov |-> prov, day |-> Null]
    <2>1. /\ EnsureDayRow(days, Today) \in [Days -> Row \cup {Null}]
          /\ \A d \in Days : days[d] # Null => EnsureDayRow(days, Today)[d] = days[d]
        BY <1>2, EnsuredTable
    <2>2. called \in CallType /\ called.at # "booking"
        BY DEF CallType
    <2>3. /\ days' = EnsureDayRow(days, Today)
          /\ calls' = calls \/ calls' = [calls EXCEPT ![c] = called]
          /\ UNCHANGED <<config, clock, background>>
        BY <1>5 DEF CanSpend
    <2> HIDE DEF called
    <2>4. calls' \in [Callers -> CallType]
        BY <1>1, <2>2, <2>3
    <2>5. \A k \in Callers : calls'[k].at = "booking" => calls'[k].day \in Days /\ days'[calls'[k].day] # Null
        <3> SUFFICES ASSUME NEW k \in Callers, calls'[k].at = "booking"
                     PROVE  calls'[k].day \in Days /\ days'[calls'[k].day] # Null
            OBVIOUS
        <3>1. calls'[k] = calls[k]
            BY <1>1, <2>2, <2>3
        <3>2. QED BY <1>1, <2>1, <2>3, <3>1
    <2>6. QED BY <1>1, <2>1, <2>3, <2>4, <2>5 DEF TypeOK
<1>6. ASSUME NEW c \in Callers, RecordDay(c)
      PROVE  TypeOK'
    <2>1. /\ EnsureDayRow(days, Today) \in [Days -> Row \cup {Null}]
          /\ EnsureDayRow(days, Today)[Today] # Null
          /\ \A d \in Days : days[d] # Null => EnsureDayRow(days, Today)[d] = days[d]
        BY <1>2, EnsuredTable
    <2>2. /\ calls[c].at = "calling"
          /\ days' = EnsureDayRow(days, Today)
          /\ calls' = [calls EXCEPT ![c].at = "booking", ![c].day = Today]
          /\ UNCHANGED <<config, clock, background>>
        BY <1>6 DEF RecordDay
    <2>3. calls[c] \in [at : {"calling", "booking"}, prov : Provenances, day : Days \cup {Null}]
        BY <1>1, <1>3, <2>2 DEF CallType
    <2>4. /\ calls'[c] = [at |-> "booking", prov |-> calls[c].prov, day |-> Today]
          /\ \A k \in Callers : k # c => calls'[k] = calls[k]
        BY <1>1, <2>2, <2>3
    <2>5. calls'[c] \in CallType
        BY <1>2, <2>3, <2>4 DEF CallType
    <2>6. calls' \in [Callers -> CallType]
        BY <1>1, <2>2, <2>4, <2>5
    <2>7. \A k \in Callers : calls'[k].at = "booking" => calls'[k].day \in Days /\ days'[calls'[k].day] # Null
        BY <1>1, <1>2, <2>1, <2>2, <2>4
    <2>8. QED BY <1>1, <2>1, <2>2, <2>6, <2>7 DEF TypeOK
<1>7. ASSUME NEW c \in Callers, NEW usage \in 0 .. MaxUsage, RecordUsage(c, usage)
      PROVE  TypeOK'
    <2> DEFINE day == calls[c].day
    <2>1. /\ calls[c].at = "booking"
          /\ days' = [days EXCEPT ![day] = Booked(days[day], usage)]
          /\ background' = [background EXCEPT ![day] =
                IF calls[c].prov = "scheduler" THEN background[day] + usage ELSE background[day]]
          /\ calls' = [calls EXCEPT ![c] = NoCall]
          /\ UNCHANGED <<config, clock>>
        BY <1>7 DEF RecordUsage
    <2>2. day \in Days /\ days[day] \in Row
        BY <1>1, <2>1
    <2>3. usage \in Nat
        BY BudgetAssumption
    <2>4. Booked(days[day], usage) \in Row
        BY <2>2, <2>3, BookedRow
    <2>5. background' \in [Days -> Nat]
        BY <1>1, <2>1, <2>2, <2>3
    <2> HIDE DEF day
    <2>6. days' \in [Days -> Row \cup {Null}] /\ \A d \in Days : days[d] # Null => days'[d] # Null
        BY <1>1, <1>4, <2>1, <2>2, <2>4
    <2>7. calls' \in [Callers -> CallType]
        BY <1>1, <1>3, <2>1
    <2>8. \A k \in Callers : calls'[k].at = "booking" => calls'[k].day \in Days /\ days'[calls'[k].day] # Null
        <3> SUFFICES ASSUME NEW k \in Callers, calls'[k].at = "booking"
                     PROVE  calls'[k].day \in Days /\ days'[calls'[k].day] # Null
            OBVIOUS
        <3>1. calls'[k] = calls[k]
            BY <1>1, <1>3, <2>1
        <3>2. QED BY <1>1, <2>6, <3>1
    <2>9. QED BY <1>1, <2>1, <2>5, <2>6, <2>7, <2>8 DEF TypeOK
<1>8. ASSUME NEW c \in Callers, CallFails(c)
      PROVE  TypeOK'
    <2>1. calls' = [calls EXCEPT ![c] = NoCall] /\ UNCHANGED <<config, clock, days, background>>
        BY <1>8 DEF CallFails
    <2>2. calls' \in [Callers -> CallType]
        BY <1>1, <1>3, <2>1
    <2>3. \A k \in Callers : calls'[k].at = "booking" => calls'[k] = calls[k]
        BY <1>1, <1>3, <2>1
    <2>4. QED BY <1>1, <2>1, <2>2, <2>3 DEF TypeOK
<1>9. ASSUME NEW new \in Configs, Restart(new)
      PROVE  TypeOK'
    BY <1>1, <1>9 DEF Restart, TypeOK
<1>10. CASE Tick
    BY <1>1, <1>10, BudgetAssumption DEF Tick, TypeOK
<1>11. CASE UNCHANGED budgetVars
    BY <1>1, <1>11 DEF budgetVars, TypeOK
<1>12. QED BY <1>5, <1>6, <1>7, <1>8, <1>9, <1>10, <1>11 DEF BudgetNext

-----------------------------------------------------------------------------
(* The room left for the pending calls.                                    *)

\* Every step but the clock's leaves the day as it is.
LEMMA TodayStays ==
    ASSUME UNCHANGED clock
    PROVE  Today' = Today
BY DEF Today

\* The clock only takes the day forward.
LEMMA TodayFollows ==
    ASSUME TypeOK, Tick
    PROVE  Today' \in Nat /\ Today <= Today'
<1>1. clock \in Nat /\ clock + 1 \in Nat /\ clock' = clock + 1 /\ DayLength \in Nat \ {0}
    BY BudgetAssumption DEF TypeOK, Tick
<1>2. clock \div DayLength \in Nat /\ (clock + 1) \div DayLength \in Nat
      /\ clock \div DayLength <= (clock + 1) \div DayLength
    BY <1>1, DaysFollow
<1>3. QED BY <1>1, <1>2 DEF Today

\* A row that canSpend or recordUsage makes is the one of today.
LEMMA StepRowsPast == TypeOK /\ NoRowAhead /\ [BudgetNext]_budgetVars => NoRowAhead'
<1> SUFFICES ASSUME TypeOK, NoRowAhead, [BudgetNext]_budgetVars, NEW d \in Days, d > Today'
             PROVE  days'[d] = Null
    BY DEF NoRowAhead, Days
<1>1. Today \in Days /\ Today \in Nat /\ d \in Int
    BY TodayIsADay DEF TypeOK, Days
<1>2. ASSUME d > Today PROVE days[d] = Null /\ d # Today
    BY <1>1, <1>2 DEF NoRowAhead
<1>3. ASSUME NEW c \in Callers, NEW prov \in Provenances, NEW estimate \in Estimates,
             CanSpend(c, prov, estimate)
      PROVE  days'[d] = Null
    <2>1. Today' = Today /\ days' = EnsureDayRow(days, Today)
        BY <1>3, TodayStays DEF CanSpend
    <2>2. QED BY <1>1, <1>2, <2>1, EnsuredTable
<1>4. ASSUME NEW c \in Callers, RecordDay(c)
      PROVE  days'[d] = Null
    <2>1. Today' = Today /\ days' = EnsureDayRow(days, Today)
        BY <1>4, TodayStays DEF RecordDay
    <2>2. QED BY <1>1, <1>2, <2>1, EnsuredTable
<1>5. ASSUME NEW c \in Callers, NEW usage \in 0 .. MaxUsage, RecordUsage(c, usage)
      PROVE  days'[d] = Null
    <2>1. /\ Today' = Today
          /\ days' = [days EXCEPT ![calls[c].day] = Booked(days[calls[c].day], usage)]
          /\ days[calls[c].day] # Null
          /\ days \in [Days -> Row \cup {Null}]
        BY <1>5, TodayStays DEF RecordUsage, TypeOK
    <2>2. d # calls[c].day
        BY <1>2, <2>1
    <2>3. QED BY <1>2, <2>1, <2>2
<1>6. CASE Tick
    <2>1. days' = days /\ d > Today
        BY <1>1, <1>6, TodayFollows DEF Tick
    <2>2. QED BY <1>2, <2>1
<1>7. ASSUME UNCHANGED <<clock, days>>
      PROVE  days'[d] = Null
    BY <1>2, <1>7, TodayStays
<1>8. QED BY <1>3, <1>4, <1>5, <1>6, <1>7 DEF BudgetNext, CallFails, Restart, budgetVars

\* What the check lets through leaves the tokens of the day within the limit.
LEMMA AllowedWithinLimit ==
    ASSUME TypeOK, NEW prov, NEW row \in Row, NEW estimate \in Estimates,
           Allowed(prov, row, estimate)
    PROVE  row.used <= row.limit
<1>1. /\ row.used \in Nat /\ row.limit \in Nat
      /\ config.reserveForOwner \in Nat /\ estimate \in Nat
    BY BudgetAssumption DEF Row, TypeOK
<1>2. SchedulerCap(row) \in Nat /\ SchedulerCap(row) <= row.limit
    BY <1>1 DEF SchedulerCap, Max0
<1>3. QED BY <1>1, <1>2 DEF Allowed

\* A row whose tokens are within the limit has room for any number of pending calls.
LEMMA RoomWithinLimit ==
    ASSUME NEW d, days'[d] \in Row, days'[d].used <= days'[d].limit
    PROVE  RoomLeft(d)'
<1>1. days'[d].used \in Nat /\ days'[d].limit \in Nat
    BY DEF Row
<1>2. /\ Cardinality(Pending(d)') * MaxUsage \in Nat
      /\ Cardinality(Callers) * MaxUsage \in Nat
      /\ Cardinality(Pending(d)') * MaxUsage <= Cardinality(Callers) * MaxUsage
    BY PendingBounded, PendingBoundedPrime
<1>3. QED BY <1>1, <1>2 DEF RoomLeft

\* With the same row and no more pending calls, the room stays.
LEMMA RoomStays ==
    ASSUME NEW d, RoomLeft(d), days'[d] = days[d], days[d] \in Row \cup {Null},
           Pending(d)' \subseteq Pending(d)
    PROVE  RoomLeft(d)'
<1> SUFFICES ASSUME days[d] # Null
             PROVE  days'[d].used + Cardinality(Pending(d)') * MaxUsage
                        <= days'[d].limit + Cardinality(Callers) * MaxUsage
    BY DEF RoomLeft
<1>1. days[d].used \in Nat /\ days[d].limit \in Nat
    BY DEF Row
<1>2. Cardinality(Pending(d)') * MaxUsage <= Cardinality(Pending(d)) * MaxUsage
    BY FewerPending
<1>3. days[d].used + Cardinality(Pending(d)) * MaxUsage
          <= days[d].limit + Cardinality(Callers) * MaxUsage
    BY DEF RoomLeft
<1>4. /\ Cardinality(Pending(d)') * MaxUsage \in Nat /\ Cardinality(Pending(d)) * MaxUsage \in Nat
      /\ Cardinality(Callers) * MaxUsage \in Nat
    BY PendingBounded, PendingBoundedPrime
<1>5. QED BY <1>1, <1>2, <1>3, <1>4

\* Every step keeps room for the calls that are pending after it.
LEMMA StepRoom == IInv /\ [BudgetNext]_budgetVars => \A d \in Days : RoomLeft(d)'
<1> SUFFICES ASSUME IInv, [BudgetNext]_budgetVars, NEW d \in Days PROVE RoomLeft(d)'
    OBVIOUS
<1>1. /\ TypeOK
      /\ days \in [Days -> Row \cup {Null}]
      /\ calls \in [Callers -> CallType]
      /\ NoRowAhead
      /\ RoomLeft(d)
      /\ days[d] \in Row \cup {Null}
      /\ Null \notin Row
    BY BudgetAssumption DEF IInv, TypeOK, Row
<1>2. Today \in Days /\ Today \in Nat
    BY <1>1, TodayIsADay DEF TypeOK
<1>3. NoCall.at = "idle"
    BY DEF NoCall
<1>4. ASSUME NEW c \in Callers, NEW prov \in Provenances, NEW estimate \in Estimates,
             CanSpend(c, prov, estimate)
      PROVE  RoomLeft(d)'
    <2> DEFINE table == EnsureDayRow(days, Today)
               called == [at |-> "calling", prov |-> prov, day |-> Null]
    <2>1. /\ calls[c].at = "idle"
          /\ days' = table
          /\ calls' = IF Allowed(prov, table[Today], estimate)
                      THEN [calls EXCEPT ![c] = called] ELSE calls
          /\ Today' = Today
        BY <1>4, TodayStays DEF CanSpend
    <2>2. called.at = "calling"
        OBVIOUS
    <2>3. /\ table[Today] \in Row
          /\ days[d] # Null => table[d] = days[d]
          /\ d # Today => table[d] = days[d]
          /\ days[Today] = Null => table[Today].used = 0
        BY <1>1, <1>2, EnsuredTable
    <2> HIDE DEF called, table
    <2>4. CASE d # Today
        <3>1. Pending(d)' \subseteq Pending(d)
            BY <1>1, <2>1, <2>2, <2>4 DEF Pending
        <3>2. QED BY <1>1, <2>1, <2>3, <2>4, <3>1, RoomStays
    <2>5. CASE d = Today /\ days[d] = Null
        <3>1. days'[d] \in Row /\ days'[d].used = 0 /\ days'[d].limit \in Nat
            BY <2>1, <2>3, <2>5 DEF Row
        <3>2. QED BY <3>1, RoomWithinLimit
    <2>6. CASE d = Today /\ days[d] # Null /\ Allowed(prov, table[Today], estimate)
        <3>1. days'[d] \in Row /\ days'[d].used <= days'[d].limit
            BY <1>1, <2>1, <2>3, <2>6, AllowedWithinLimit
        <3>2. QED BY <3>1, RoomWithinLimit
    <2>7. CASE d = Today /\ days[d] # Null /\ ~Allowed(prov, table[Today], estimate)
        <3>1. calls' = calls /\ days'[d] = days[d]
            BY <2>1, <2>3, <2>7
        <3>2. Pending(d)' \subseteq Pending(d)
            BY <2>1, <3>1 DEF Pending
        <3>3. QED BY <1>1, <3>1, <3>2, RoomStays
    <2>8. QED BY <2>4, <2>5, <2>6, <2>7
<1>5. ASSUME NEW c \in Callers, RecordDay(c)
      PROVE  RoomLeft(d)'
    <2>1. /\ calls[c].at = "calling"
          /\ days' = EnsureDayRow(days, Today)
          /\ calls' = [calls EXCEPT ![c].at = "booking", ![c].day = Today]
          /\ Today' = Today
        BY <1>5, TodayStays DEF RecordDay
    <2>2. calls[c] \in [at : {"calling", "booking"}, prov : Provenances, day : Days \cup {Null}]
        BY <1>1, <1>3, <2>1 DEF CallType
    <2>3. /\ calls'[c].at = "booking" /\ calls'[c].day = Today
          /\ \A k \in Callers : k # c => calls'[k] = calls[k]
        BY <1>1, <2>1, <2>2
    <2>4. Pending(d)' \subseteq Pending(d)
        BY <2>1, <2>3 DEF Pending
    <2>5. /\ days'[Today] \in Row
          /\ days[d] # Null => days'[d] = days[d]
          /\ d # Today => days'[d] = days[d]
          /\ days[Today] = Null => days'[Today].used = 0
        BY <1>1, <1>2, <2>1, EnsuredTable
    <2>6. CASE d = Today /\ days[d] = Null
        <3>1. days'[d] \in Row /\ days'[d].used = 0 /\ days'[d].limit \in Nat
            BY <2>5, <2>6 DEF Row
        <3>2. QED BY <3>1, RoomWithinLimit
    <2>7. CASE d # Today \/ days[d] # Null
        BY <1>1, <2>4, <2>5, <2>7, RoomStays
    <2>8. QED BY <2>6, <2>7
<1>6. ASSUME NEW c \in Callers, NEW usage \in 0 .. MaxUsage, RecordUsage(c, usage)
      PROVE  RoomLeft(d)'
    <2> DEFINE day == calls[c].day
    <2>1. /\ calls[c].at = "booking"
          /\ days' = [days EXCEPT ![day] = Booked(days[day], usage)]
          /\ calls' = [calls EXCEPT ![c] = NoCall]
          /\ Today' = Today
        BY <1>6, TodayStays DEF RecordUsage
    <2>2. day \in Days /\ days[day] \in Row
        BY <1>1, <2>1 DEF TypeOK
    <2>3. usage \in Nat /\ usage <= MaxUsage /\ MaxUsage \in Nat
        BY BudgetAssumption
    <2>4. Pending(d)' = Pending(d) \ {c}
        BY <1>1, <1>3, <2>1 DEF Pending
    <2>5. CASE d # day
        <3>1. days'[d] = days[d] /\ Pending(d)' \subseteq Pending(d)
            BY <1>1, <2>1, <2>4, <2>5
        <3>2. QED BY <1>1, <3>1, RoomStays
    <2>6. CASE d = day
        <3>1. days'[d] = Booked(days[d], usage)
            BY <1>1, <2>1, <2>6
        <3>2. /\ days'[d].used = days[d].used + usage
              /\ days'[d].limit = days[d].limit
              /\ days[d].used \in Nat /\ days[d].limit \in Nat
              /\ days[d] # Null
            <4>1. days[d] \in Row /\ days[d] # Null
                BY <1>1, <2>2, <2>6
            <4>2. Booked(days[d], usage).used = days[d].used + usage
                  /\ Booked(days[d], usage).limit = days[d].limit
                BY <2>3, <4>1, BookedRow
            <4>3. QED BY <3>1, <4>1, <4>2 DEF Row
        <3>3. c \in Pending(d)
            BY <2>1, <2>6 DEF Pending
        <3> DEFINE k == Cardinality(Pending(d))
                   k1 == Cardinality(Pending(d)')
                   all == Cardinality(Callers) * MaxUsage
        <3>4. k \in Nat /\ k1 \in Nat /\ all \in Nat /\ IsFiniteSet(Pending(d))
            BY PendingBounded, PendingBoundedPrime
        <3>5. k1 = k - 1
            BY <2>4, <3>3, <3>4, FS_RemoveElement
        <3>6. days[d].used + k * MaxUsage <= days[d].limit + all
            BY <1>1, <3>2 DEF RoomLeft
        <3>7. days'[d].used + k1 * MaxUsage <= days'[d].limit + all
            <4> HIDE DEF k, k1, all
            <4>1. k1 * MaxUsage = k * MaxUsage - MaxUsage /\ k * MaxUsage \in Nat
                BY <2>3, <3>4, <3>5, ProductOneLess, ProductGrows
            <4>2. QED BY <2>3, <3>2, <3>4, <3>6, <4>1
        <3>8. QED BY <3>7 DEF RoomLeft
    <2>7. QED BY <2>5, <2>6
<1>7. ASSUME NEW c \in Callers, CallFails(c)
      PROVE  RoomLeft(d)'
    <2>1. calls' = [calls EXCEPT ![c] = NoCall] /\ days' = days /\ Today' = Today
        BY <1>7, TodayStays DEF CallFails
    <2>2. Pending(d)' \subseteq Pending(d)
        BY <1>1, <1>3, <2>1 DEF Pending
    <2>3. QED BY <1>1, <2>1, <2>2, RoomStays
<1>8. CASE Tick
    <2>1. days' = days /\ calls' = calls /\ Today' \in Nat /\ Today <= Today'
        BY <1>1, <1>8, TodayFollows DEF Tick
    <2>2. CASE d > Today
        BY <1>1, <2>1, <2>2 DEF NoRowAhead, RoomLeft
    <2>3. CASE d <= Today
        <3>1. d \in Int
            BY DEF Days
        <3>2. d = Today' => d = Today
            BY <1>2, <2>1, <2>3, <3>1
        <3>3. Pending(d)' \subseteq Pending(d)
            BY <2>1, <3>2 DEF Pending
        <3>4. QED BY <1>1, <2>1, <3>3, RoomStays
    <2>4. QED BY <1>2, <2>2, <2>3 DEF Days
<1>9. ASSUME UNCHANGED <<clock, days, calls>>
      PROVE  RoomLeft(d)'
    <2>1. Pending(d)' \subseteq Pending(d)
        BY <1>9, TodayStays DEF Pending
    <2>2. QED BY <1>1, <1>9, <2>1, RoomStays
<1>10. QED BY <1>4, <1>5, <1>6, <1>7, <1>8, <1>9 DEF BudgetNext, Restart, budgetVars

-----------------------------------------------------------------------------
(* Exhaustion.                                                             *)

\* What exhausted_at says of one row.
RowMarked(row) ==
    /\ row.exhausted => row.used >= row.limit
    /\ row.used > 0 /\ row.used >= row.limit => row.exhausted

\* A booking that is judged by the tokens it leaves keeps the mark right.
LEMMA BookedMarked ==
    ASSUME NEW row \in Row, NEW usage \in Nat, RowMarked(row)
    PROVE  RowMarked(Booked(row, usage))
<1>1. row.used \in Nat /\ row.limit \in Nat
    BY DEF Row
<1>2. /\ Booked(row, usage).used = row.used + usage
      /\ Booked(row, usage).limit = row.limit
      /\ Booked(row, usage).exhausted <=> (row.exhausted \/ row.used + usage >= row.limit)
    BY BookedRow
<1>3. row.exhausted => row.used >= row.limit
    BY DEF RowMarked
<1>4. QED BY <1>1, <1>2, <1>3 DEF RowMarked

\* Every step keeps exhausted_at in line with the tokens of every day.
LEMMA StepMarked == TypeOK /\ ExhaustedMarked /\ [BudgetNext]_budgetVars => ExhaustedMarked'
<1> SUFFICES ASSUME TypeOK, ExhaustedMarked, [BudgetNext]_budgetVars, NEW d \in Days, days'[d] # Null
             PROVE  RowMarked(days'[d])
    BY DEF ExhaustedMarked, RowMarked, Days
<1>1. days \in [Days -> Row \cup {Null}] /\ Today \in Days
    BY TodayIsADay DEF TypeOK
<1>2. ASSUME days[d] # Null PROVE RowMarked(days[d])
    BY <1>2 DEF ExhaustedMarked, RowMarked
<1>3. ASSUME days' = EnsureDayRow(days, Today)
      PROVE  RowMarked(days'[d])
    <2>1. CASE days[d] # Null
        BY <1>1, <1>2, <1>3, <2>1, EnsuredTable
    <2>2. CASE days[d] = Null
        <3>1. days'[d].used = 0 /\ ~days'[d].exhausted
            BY <1>1, <1>3, <2>2, EnsuredTable
        <3>2. QED BY <3>1 DEF RowMarked
    <2>3. QED BY <2>1, <2>2
<1>4. ASSUME NEW c \in Callers, NEW usage \in 0 .. MaxUsage, RecordUsage(c, usage)
      PROVE  RowMarked(days'[d])
    <2>1. /\ days' = [days EXCEPT ![calls[c].day] = Booked(days[calls[c].day], usage)]
          /\ calls[c].day \in Days /\ days[calls[c].day] # Null
          /\ usage \in Nat
        BY <1>4, BudgetAssumption DEF RecordUsage, TypeOK
    <2>2. CASE d = calls[c].day
        <3>1. days'[d] = Booked(days[d], usage) /\ days[d] \in Row
            BY <1>1, <2>1, <2>2
        <3>2. QED BY <1>2, <2>1, <2>2, <3>1, BookedMarked
    <2>3. CASE d # calls[c].day
        BY <1>1, <1>2, <2>1, <2>3
    <2>4. QED BY <2>2, <2>3
<1>5. ASSUME UNCHANGED days
      PROVE  RowMarked(days'[d])
    BY <1>2, <1>5
<1>6. QED
    BY <1>3, <1>4, <1>5 DEF BudgetNext, CanSpend, RecordDay, CallFails, Restart, Tick, budgetVars

-----------------------------------------------------------------------------
(* Theorems.                                                               *)

LEMMA InitInv == BudgetInit => IInv
<1> SUFFICES ASSUME BudgetInit PROVE IInv
    OBVIOUS
<1>1. \A d \in Days : days[d] = Null
    BY DEF BudgetInit
<1>2. QED BY <1>1, InitTyped DEF IInv, NoRowAhead, RoomLeft

\* Every step preserves the invariant.
LEMMA StepInv == IInv /\ [BudgetNext]_budgetVars => IInv'
BY StepTyped, StepRowsPast, StepRoom DEF IInv, Days

\* The variables keep their types, and a booking always finds the row of its day.
THEOREM TypeCorrect == BudgetSpec => []TypeOK
<1>1. QED BY InitTyped, StepTyped, PTL DEF BudgetSpec

\* However the calls, midnight and restarts interleave, a day exceeds its limit by at
\* most one call's usage for each call that can be under way.
THEOREM OvershootIsBounded == BudgetSpec => []OvershootBounded
<1>1. IInv => OvershootBounded
    <2> SUFFICES ASSUME IInv, NEW d \in Days, days[d] # Null
                 PROVE  days[d].used <= days[d].limit + Cardinality(Callers) * MaxUsage
        BY DEF OvershootBounded
    <2>1. days[d].used \in Nat /\ days[d].limit \in Nat
        BY DEF IInv, TypeOK, Row
    <2>2. days[d].used + Cardinality(Pending(d)) * MaxUsage
              <= days[d].limit + Cardinality(Callers) * MaxUsage
        BY DEF IInv, RoomLeft
    <2>3. /\ Cardinality(Pending(d)) * MaxUsage \in Nat
          /\ Cardinality(Callers) * MaxUsage \in Nat
        BY PendingBounded
    <2>4. QED BY <2>1, <2>2, <2>3
<1>2. QED BY <1>1, InitInv, StepInv, PTL DEF BudgetSpec

\* exhausted_at is set exactly from the booking on that reaches the limit.
THEOREM ExhaustionIsMarked == BudgetSpec => []ExhaustedMarked
<1>1. BudgetInit => ExhaustedMarked
    BY DEF BudgetInit, ExhaustedMarked
<1>2. QED BY <1>1, InitTyped, StepTyped, StepMarked, PTL DEF BudgetSpec

\* No step, a restart with another limit included, changes a day but by adding tokens.
THEOREM DayStaysFixed == BudgetSpec => DayIsFixed
<1> DEFINE Kept == \A d \in Days : days[d] # Null =>
                       /\ days'[d] # Null
                       /\ days'[d].limit = days[d].limit
                       /\ days'[d].used >= days[d].used
                       /\ days[d].exhausted => days'[d].exhausted
<1>1. TypeOK /\ [BudgetNext]_budgetVars => Kept
    <2> SUFFICES ASSUME TypeOK, [BudgetNext]_budgetVars, NEW d \in Days, days[d] # Null
                 PROVE  /\ days'[d] # Null
                        /\ days'[d].limit = days[d].limit
                        /\ days'[d].used >= days[d].used
                        /\ days[d].exhausted => days'[d].exhausted
        OBVIOUS
    <2>1. /\ days \in [Days -> Row \cup {Null}] /\ Today \in Days
          /\ days[d] \in Row /\ days[d].used \in Nat /\ days[d].limit \in Nat
        BY TodayIsADay DEF TypeOK, Row
    <2>2. CASE days' = days
        BY <2>1, <2>2
    <2>3. CASE days' = EnsureDayRow(days, Today)
        <3>1. days'[d] = days[d]
            BY <2>1, <2>3, EnsuredTable
        <3>2. QED BY <2>1, <3>1
    <2>4. ASSUME NEW c \in Callers, NEW usage \in 0 .. MaxUsage, RecordUsage(c, usage)
          PROVE  /\ days'[d] # Null
                 /\ days'[d].limit = days[d].limit
                 /\ days'[d].used >= days[d].used
                 /\ days[d].exhausted => days'[d].exhausted
        <3>1. days' = [days EXCEPT ![calls[c].day] = Booked(days[calls[c].day], usage)]
            BY <2>4 DEF RecordUsage
        <3>2. usage \in Nat /\ Null \notin Row
            BY BudgetAssumption DEF Row
        <3>3. CASE d # calls[c].day
            BY <2>1, <3>1, <3>3
        <3>4. CASE d = calls[c].day
            <4>1. days'[d] = Booked(days[d], usage)
                BY <2>1, <3>1, <3>4
            <4>2. /\ Booked(days[d], usage) \in Row
                  /\ Booked(days[d], usage).used = days[d].used + usage
                  /\ Booked(days[d], usage).limit = days[d].limit
                  /\ days[d].exhausted => Booked(days[d], usage).exhausted
                BY <2>1, <3>2, BookedRow
            <4>3. QED BY <2>1, <3>2, <4>1, <4>2
        <3>5. QED BY <3>3, <3>4
    <2>5. QED
        BY <2>2, <2>3, <2>4 DEF BudgetNext, CanSpend, RecordDay, CallFails, Restart, Tick, budgetVars
<1>2. TypeOK /\ [BudgetNext]_budgetVars => [Kept]_budgetVars
    BY <1>1
<1>3. QED BY <1>2, InitTyped, StepTyped, PTL DEF BudgetSpec, DayIsFixed
=============================================================================
