--------------------------- MODULE MCAutomations ---------------------------
(***************************************************************************)
(* What an organization sets up once and runs from then on, for TLC: the   *)
(* definition of an automation and its generation sweep (Schedules), one   *)
(* occurrence and its leases (Leases), the instants a rule names           *)
(* (Calendar), and the catalog that the gateway routes by (Catalog).  They *)
(* write different columns and every guard reads its own, so TLC explores  *)
(* one of them at a time: `part` is chosen once and the others keep their  *)
(* initial state.                                                          *)
(***************************************************************************)
EXTENDS Schedules, Leases, Catalog

CONSTANTS
    r1, r2, q1, q2, x1, x2, x3,
    DayLength, WeekLength, Reach, BatchSize, WindowSize, Candidates, SearchDays,
    Unscheduled, LastUnit

VARIABLES
    hour, rule, zone, since, cursor, next, ran, skipped, named,     \* Calendar
    part

MCInstants == [r \in Rules |-> {1, 2}]
\* Daylight saving removes one instant of the second revision.
MCSkipped == [r \in Rules |-> IF r = r2 THEN {2} ELSE {}]
MCKeeps == [r \in Rules |-> 1]
MCConfigs == {x1, x2, x3}

\* A year of three days: a month of two and a month of one.
MCMonths == <<2, 1>>
Unrestricted == [anchor |-> 0, months |-> {1, 2}, monthDays |-> {1, 2}, weekdays |-> {0, 1, 2}]
OneTime == [kind |-> "one_time", at |-> 5, keeps |-> 1] @@ Unrestricted
Cron(times, dst) ==
    [kind |-> "cron", times |-> times, dst |-> dst, mode |-> "or", keeps |-> 3] @@ Unrestricted
Interval(unit, every, anchor, keeps) ==
    [Unrestricted EXCEPT !.anchor = anchor]
        @@ [kind |-> "interval", unit |-> unit, every |-> every, keeps |-> keeps]

\* Rules of every kind: without restriction, on some days, in months that may
\* lack the day, and an elapsed rule that is sparse (Candidates).
MCRules ==
    {OneTime, Cron({1, 2}, "run_both"), Cron({1, 2}, "run_first"), Cron({1, 2}, "skip_duplicate"),
     [Cron({0}, "run_both") EXCEPT !.monthDays = {1}, !.weekdays = {0, 1}],
     [Cron({0}, "run_both") EXCEPT !.monthDays = {1}, !.weekdays = {0, 1}, !.mode = "and"],
     Interval("hours", 2, 1, 1),
     [Interval("minutes", 1, 0, 3) EXCEPT !.weekdays = {0, 1}],
     [Interval("minutes", 1, 0, 3) EXCEPT !.months = {2}],
     Interval("days", 1, 6, 3), [Interval("days", 1, 6, 3) EXCEPT !.weekdays = {1}],
     Interval("weeks", 1, 6, 3), Interval("months", 1, 7, 3), Interval("years", 1, 3, 3)}

\* No transition, clocks that spring forward, clocks that fall back.
MCZones ==
    {[offset |-> 0, transitions |-> <<>>],
     [offset |-> 0, transitions |-> <<[at |-> 9, offset |-> 1]>>],
     [offset |-> 1, transitions |-> <<[at |-> 9, offset |-> 0]>>]}

C == INSTANCE Calendar
       WITH ScheduleRules <- MCRules, Zones <- MCZones, MonthLengths <- MCMonths

calendarVars == <<hour, rule, zone, since, cursor, next, ran, skipped, named>>
allVars == <<vars, leaseVars, calendarVars, catalogVars, part>>

\* The parts that stand still start in one state.  The configurations are
\* interchangeable: the first and the second to be published are x1 and x2.
MCInit ==
    /\ Init /\ LeaseInit /\ C!Init /\ CatalogInit
    /\ part \in {"definition", "occurrence", "calendar", "catalog"}
    /\ part # "occurrence" => binding = "rejected"
    /\ part # "definition" => def.rule = r1 /\ ~ repaired
    /\ part # "calendar" => hour = LastUnit /\ rule = OneTime /\ zone.offset = 1
    /\ part # "catalog" => published = NoRoute /\ item["policy"].state = "absent"
    /\ \A n \in DOMAIN versions : versions[n].config = IF n = 3 THEN x2 ELSE x1

\* The requests are interchangeable too: the first to arrive is q1.
InTurn == request'[q2] # Idle => request'[q1] # Idle

MCNext ==
    \/ part = "definition" /\ Next /\ InTurn /\ UNCHANGED <<leaseVars, calendarVars, catalogVars, part>>
    \/ part = "occurrence" /\ LeaseNext /\ UNCHANGED <<vars, calendarVars, catalogVars, part>>
    \/ part = "calendar" /\ C!Next /\ UNCHANGED <<vars, leaseVars, catalogVars, part>>
    \/ part = "catalog" /\ CatalogNext /\ UNCHANGED <<vars, leaseVars, calendarVars, part>>

\* A definition that does not move is absent, and no sweep waits for it.
MCSpec == MCInit /\ [][MCNext]_allVars /\ Fairness

\* With the sweep of the leases, for the claim about occurrences.
MCLeaseSpec ==
    /\ MCInit /\ [][MCNext]_allVars
    /\ part = "occurrence" => LeaseFairness

MCTypeOK == TypeOK /\ LeaseTypeOK /\ C!CalendarTypeOK /\ CatalogTypeOK
SlotsAreRight == C!SlotsAreRight
NextIsFirst == C!NextIsFirst
=============================================================================
