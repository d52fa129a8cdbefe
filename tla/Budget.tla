------------------------------- MODULE Budget -------------------------------
(***************************************************************************)
(* The daily token budget of packages/llm-router/budget/engine.ts: one row *)
(* a day in budget_daily, a check before an LLM call (canSpend) and a      *)
(* booking after it (recordUsage).  The call itself is awaited in between, *)
(* so that checks and bookings of several calls interleave, over midnight  *)
(* and over a restart with another configuration as well.  The callers are *)
(* not in the repository: a call is checked, made and booked.              *)
(***************************************************************************)
EXTENDS Integers, FiniteSets

CONSTANTS
    Callers,     \* the LLM calls that may be under way together
    Estimates,   \* the estimates canSpend is asked about
    MaxUsage,    \* the most tokens one call uses
    Configs,     \* BudgetEngineOptions: dailyTokenLimit and reserveForOwner
    DayLength,   \* clock units in a UTC day
    Null,        \* SQL NULL, no row
    MaxClock     \* bound: clock

Provenances == {"owner", "scheduler", "system"}

ASSUME BudgetAssumption ==
    /\ IsFiniteSet(Callers)
    /\ Estimates \subseteq Nat
    /\ {MaxUsage, MaxClock} \subseteq Nat
    /\ DayLength \in Nat \ {0}
    /\ Configs \subseteq [dailyTokenLimit : Nat, reserveForOwner : Nat]
    /\ Null \notin [used : Nat, limit : Nat, exhausted : BOOLEAN] /\ Null \notin Nat

VARIABLES
    config,      \* the options of the running engine
    clock,       \* Date.now()
    days,        \* budget_daily: day to row, Null when there is none
    calls,       \* where each call stands
    background   \* the tokens of the scheduler's calls booked on each day

budgetVars == <<config, clock, days, calls, background>>

Days == 0 .. (MaxClock \div DayLength)
Today == clock \div DayLength

Max0(n) == IF n < 0 THEN 0 ELSE n

-----------------------------------------------------------------------------

\* Fault: a restart brings the limit of the new configuration.
EnsureDayRowUpsert(table, day) ==
    [table EXCEPT ![day] = IF @ = Null
        THEN [used |-> 0, limit |-> config.dailyTokenLimit, exhausted |-> FALSE]
        ELSE [@ EXCEPT !.limit = config.dailyTokenLimit]]

\* ensureDayRow: the limit is the one of the engine that sees the day first.
EnsureDayRow(table, day) ==
    IF table[day] # Null THEN table
    ELSE [table EXCEPT ![day] = [used |-> 0, limit |-> config.dailyTokenLimit, exhausted |-> FALSE]]

SchedulerCap(row) == Max0(row.limit - config.reserveForOwner)

\* Fault: the owner's calls are never refused.
AllowedToOwner(prov, row, estimate) ==
    \/ prov = "owner"
    \/ prov = "scheduler" /\ row.used + estimate <= SchedulerCap(row)

\* canSpend, of the row that status() has just read.
Allowed(prov, row, estimate) ==
    \/ prov = "owner" /\ row.used + estimate <= row.limit
    \/ prov = "scheduler" /\ row.used + estimate <= SchedulerCap(row)

NoCall == [at |-> "idle", prov |-> Null, day |-> Null]

BudgetInit ==
    /\ config \in Configs
    /\ clock = 0
    /\ days = [d \in Days |-> Null]
    /\ calls = [c \in Callers |-> NoCall]
    /\ background = [d \in Days |-> 0]

\* canSpend makes the row of the day, whatever it answers.
CanSpend(c, prov, estimate) ==
    LET table == EnsureDayRow(days, Today)
    IN  /\ calls[c].at = "idle"
        /\ days' = table
        /\ calls' = IF Allowed(prov, table[Today], estimate)
                    THEN [calls EXCEPT ![c] = [at |-> "calling", prov |-> prov, day |-> Null]]
                    ELSE calls
        /\ UNCHANGED <<config, clock, background>>

\* Fault: recordUsage relies on the row that canSpend made.
RecordDayUnensured(c) ==
    /\ calls[c].at = "calling"
    /\ calls' = [calls EXCEPT ![c].at = "booking", ![c].day = Today]
    /\ UNCHANGED <<config, clock, days, background>>

\* recordUsage up to its first statement: the usage belongs to the day it is booked.
RecordDay(c) ==
    /\ calls[c].at = "calling"
    /\ days' = EnsureDayRow(days, Today)
    /\ calls' = [calls EXCEPT ![c].at = "booking", ![c].day = Today]
    /\ UNCHANGED <<config, clock, background>>

\* Fault: exhaustion is judged by the tokens used before this call.
BookedLate(row, usage) ==
    [row EXCEPT !.used = @ + usage, !.exhausted = @ \/ row.used >= row.limit]

\* The UPDATE: exhausted_at is set once, by the booking that reaches the limit.
Booked(row, usage) ==
    [row EXCEPT !.used = @ + usage, !.exhausted = @ \/ row.used + usage >= row.limit]

RecordUsage(c, usage) ==
    LET day == calls[c].day
    IN  /\ calls[c].at = "booking"
        /\ days' = [days EXCEPT ![day] = Booked(@, usage)]
        /\ background' = [background EXCEPT ![day] = IF calls[c].prov = "scheduler" THEN @ + usage ELSE @]
        /\ calls' = [calls EXCEPT ![c] = NoCall]
        /\ UNCHANGED <<config, clock>>

\* The LLM call fails, or its process dies: nothing is booked.
CallFails(c) ==
    /\ calls[c].at # "idle"
    /\ calls' = [calls EXCEPT ![c] = NoCall]
    /\ UNCHANGED <<config, clock, days, background>>

\* Another configuration takes effect with a restart; other processes go on.
Restart(new) ==
    /\ config # new
    /\ config' = new
    /\ UNCHANGED <<clock, days, calls, background>>

Tick ==
    /\ clock < MaxClock
    /\ clock' = clock + 1
    /\ UNCHANGED <<config, days, calls, background>>

BudgetNext ==
    \/ \E c \in Callers :
        \/ \E prov \in Provenances, estimate \in Estimates : CanSpend(c, prov, estimate)
        \/ RecordDay(c)
        \/ \E usage \in 0 .. MaxUsage : RecordUsage(c, usage)
        \/ CallFails(c)
    \/ \E new \in Configs : Restart(new)
    \/ Tick

BudgetSpec == BudgetInit /\ [][BudgetNext]_budgetVars

-----------------------------------------------------------------------------
(* Properties.                                                             *)

Row == [used : Nat, limit : Nat, exhausted : BOOLEAN]

CallType == [at : {"calling", "booking"}, prov : Provenances, day : Days \cup {Null}] \cup {NoCall}

\* Every variable has its type, and a call that is being booked has its day's row.
TypeOK ==
    /\ config \in Configs
    /\ clock \in 0 .. MaxClock
    /\ days \in [Days -> Row \cup {Null}]
    /\ calls \in [Callers -> CallType]
    /\ background \in [Days -> Nat]
    /\ \A c \in Callers : calls[c].at = "booking" => calls[c].day \in Days /\ days[calls[c].day] # Null

UnderWay == {c \in Callers : calls[c].at # "idle"}

\* The check before and the booking after a call do not keep a day within its limit
\* when calls overlap, but the excess is at most one call's usage for every call
\* that can be under way at once, on the day after midnight and after a restart too.
OvershootBounded ==
    \A d \in Days : days[d] # Null =>
        days[d].used <= days[d].limit + Cardinality(Callers) * MaxUsage

\* exhausted_at says what the tokens say: set when a booking reached the limit.
ExhaustedMarked ==
    \A d \in Days : days[d] # Null =>
        /\ days[d].exhausted => days[d].used >= days[d].limit
        /\ days[d].used > 0 /\ days[d].used >= days[d].limit => days[d].exhausted

\* Within a day the limit stays, tokens only add up and exhaustion is final, whatever
\* configuration a restart brings.
DayIsFixed ==
    [][\A d \in Days : days[d] # Null =>
          /\ days'[d] # Null
          /\ days'[d].limit = days[d].limit
          /\ days'[d].used >= days[d].used
          /\ days[d].exhausted => days'[d].exhausted]_budgetVars

\* engine.ts on backgroundBlocked: the scheduler cannot spend once its pool is
\* exhausted, so that its calls leave the owner's reserve alone.
ReserveKept ==
    \A d \in Days : days[d] # Null =>
        background[d] <= Max0(days[d].limit - config.reserveForOwner)
=============================================================================
