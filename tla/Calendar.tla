------------------------------ MODULE Calendar ------------------------------
(***************************************************************************)
(* Which instants a schedule names, and which of them the generation sweep *)
(* turns into occurrences: apps/api/src/modules/automations/schedule.rs    *)
(* (zones, cron and interval enumeration) under plan_due_occurrences and   *)
(* plan_next_run of apps/api/src/jobs/automations.rs.                      *)
(*                                                                         *)
(* Time is counted in units, days have DayLength of them, and a year is a  *)
(* row of months of a few days each: the algorithms are those of the code, *)
(* the calendar is a small one without leap years.  Module Schedules takes *)
(* up the races of sweeps and requests; here one sweep runs at a time.     *)
(***************************************************************************)
EXTENDS Integers, Sequences, FiniteSets, SequencesExt

CONSTANTS
    ScheduleRules,  \* the rules to choose from, records as the rule kinds need them
    Zones,          \* resolved zones: [offset, transitions]
    DayLength,      \* SECONDS_PER_DAY
    WeekLength,     \* 7
    MonthLengths,   \* days_in_month, a sequence of the months of a year
    Reach,          \* MAX_UTC_OFFSET_SECONDS
    BatchSize,      \* MAX_NEXT_INSTANTS
    WindowSize,     \* MAX_WINDOW_INSTANTS
    Candidates,     \* MAX_SCHEDULE_CANDIDATES
    SearchDays,     \* MAX_CRON_SEARCH_DAYS
    Unscheduled,    \* next_run_at is NULL
    LastUnit        \* bound: time passes from 0 to LastUnit

VARIABLES
    hour,       \* server time
    rule,       \* the schedule revision
    zone,       \* the zone stored with it
    since,      \* history: when the cursor was started (creation, edit, resume)
    cursor,     \* schedule_cursor_at
    next,       \* next_run_at
    ran,        \* instants with an occurrence that may be dispatched
    skipped,    \* instants whose occurrence was persisted as skipped
    named       \* history: the instants the rule names

calendarVars == <<hour, rule, zone, since, cursor, next, ran, skipped, named>>

-----------------------------------------------------------------------------
(* Civil dates.                                                            *)
YearMonths == Len(MonthLengths)
DaysBefore ==
    [m \in 1..YearMonths + 1 |-> FoldSeq(LAMBDA n, sum : n + sum, 0, SubSeq(MonthLengths, 1, m - 1))]
YearDays == DaysBefore[YearMonths + 1]

DayOf(local) == local \div DayLength
TimeOfDay(local) == local % DayLength
YearOf(day) == day \div YearDays
DayOfYear(day) == day % YearDays
\* civil_from_days
MonthOf(day) ==
    CHOOSE m \in 1..YearMonths :
        DaysBefore[m] <= DayOfYear(day) /\ DayOfYear(day) < DaysBefore[m + 1]
MonthDayOf(day) == DayOfYear(day) - DaysBefore[MonthOf(day)] + 1
\* days_from_civil
DayAt(year, month, monthDay) == year * YearDays + DaysBefore[month] + monthDay - 1
WeekdayOf(day) == day % WeekLength

-----------------------------------------------------------------------------
(* Zones.                                                                  *)
OffsetAt(z, utc) ==
    LET past == {i \in DOMAIN z.transitions : z.transitions[i].at <= utc}
    IN  IF past = {} THEN z.offset ELSE z.transitions[Max(past)].offset

ToLocal(z, utc) == utc + OffsetAt(z, utc)

\* resolve_local: the offsets well before and well after the slot, kept when
\* they round-trip.  None: the time is missing.  Two: it is repeated.
ResolveLocal(z, local) ==
    {utc \in {local - OffsetAt(z, local - Reach), local - OffsetAt(z, local + Reach)} :
        ToLocal(z, utc) = local}

-----------------------------------------------------------------------------
(* Rules.                                                                  *)
IsElapsed(r)  == r.kind = "interval" /\ r.unit \in {"minutes", "hours"}
IsCalendar(r) == r.kind = "interval" /\ ~IsElapsed(r)

\* selectors_allow, with an absent selector standing for every value.
SelectorsAllow(r, day) ==
    MonthOf(day) \in r.months /\ MonthDayOf(day) \in r.monthDays /\ WeekdayOf(day) \in r.weekdays

\* matches_date: in mode "or" a full field does not restrict the other one.
MatchesDate(r, day) ==
    LET dom == MonthDayOf(day) \in r.monthDays
        dow == WeekdayOf(day) \in r.weekdays
        domFull == (1..Max(ToSet(MonthLengths))) \subseteq r.monthDays
        dowFull == (0..WeekLength - 1) \subseteq r.weekdays
    IN  /\ MonthOf(day) \in r.months
        /\ IF r.mode = "and" \/ domFull \/ dowFull THEN dom /\ dow ELSE dom \/ dow

\* The calendar period a day falls in, and how many periods make a step.
Period(r, day) ==
    CASE r.unit \in {"days", "weeks"} -> day
      [] r.unit = "months" -> YearOf(day) * YearMonths + MonthOf(day) - 1
      [] r.unit = "years" -> YearOf(day)
Step(r) == IF r.unit = "weeks" THEN r.every * WeekLength ELSE r.every

\* calendar_slot: the day of period p that corresponds to the anchor's, a
\* set without elements when the month is too short.
SlotDays(r, p, anchorDay) ==
    LET month == IF r.unit = "months" THEN (p % YearMonths) + 1 ELSE MonthOf(anchorDay)
        year == IF r.unit = "months" THEN p \div YearMonths ELSE p
        monthDay == MonthDayOf(anchorDay)
    IN  IF r.unit \in {"days", "weeks"} THEN {p}
        ELSE IF monthDay > MonthLengths[month] THEN {}
        ELSE {DayAt(year, month, monthDay)}

-----------------------------------------------------------------------------
(* Enumeration: the next slots strictly after an instant.                  *)
Due(utc)     == [at |-> utc, due |-> TRUE]
Declined(utc) == [at |-> utc, due |-> FALSE]

\* Numbers in ascending order.
Ascending(S) == [i \in 1..Cardinality(S) |-> CHOOSE n \in S : Cardinality({m \in S : m < n}) = i - 1]

\* push_resolved: a missing time is declined under the number of its local
\* time, a repeated one runs first and then as its policy says.
Resolved(z, local, dst, after) ==
    LET hits == ResolveLocal(z, local)
        second == CASE dst = "run_both" -> <<Due(Max(hits))>>
                    [] dst = "skip_duplicate" -> <<Declined(Max(hits))>>
                    [] dst = "run_first" -> <<>>
        slots == CASE hits = {} -> <<Declined(local)>>
                   [] Cardinality(hits) = 1 -> <<Due(Max(hits))>>
                   [] OTHER -> <<Due(Min(hits))>> \o second
    IN  SelectSeq(slots, LAMBDA slot : slot.at > after)

\* The loops of generate_cron and generate_interval: local times one by one,
\* until the batch is full.
Collect(z, locals, dst, after) ==
    FoldLeft(LAMBDA out, local : IF Len(out) >= BatchSize THEN out
                                 ELSE out \o Resolved(z, local, dst, after),
             <<>>, locals)

\* generate_cron.  The candidate budget exceeds what its day scan can spend.
CronBatch(r, z, after) ==
    LET start == ToLocal(z, after)
        locals == {d * DayLength + t : d \in DayOf(start)..DayOf(start) + SearchDays - 1, t \in r.times}
    IN  Collect(z, Ascending({l \in locals : l > start /\ MatchesDate(r, DayOf(l))}),
                r.dst, after)

\* generate_interval, minutes and hours.
ElapsedBatch(r, z, after) ==
    LET first == (after - r.anchor) \div r.every + 1
        slots == [i \in 1..Candidates |-> r.anchor + (first + i - 1) * r.every]
        selected == SelectSeq(slots, LAMBDA u : SelectorsAllow(r, DayOf(ToLocal(z, u))))
    IN  [i \in 1..Min({BatchSize, Len(selected)}) |-> Due(selected[i])]

\* generate_interval, days to years: from the step after the one that `after`
\* lies in, and without the selectors.
CalendarBatch(r, z, after) ==
    LET anchorLocal == ToLocal(z, r.anchor)
        anchorDay == DayOf(anchorLocal)
        first == (Period(r, DayOf(ToLocal(z, after))) - Period(r, anchorDay)) \div Step(r) + 1
        days == [i \in 1..Candidates |->
                     SlotDays(r, Period(r, anchorDay) + (first + i - 1) * Step(r), anchorDay)]
        dated == SelectSeq(days, LAMBDA d : d # {})
    IN  Collect(z, [i \in DOMAIN dated |-> Max(dated[i]) * DayLength + TimeOfDay(anchorLocal)],
                "skip_duplicate", after)

\* next_due_instants
NextDueInstants(r, z, after) ==
    CASE r.kind = "one_time" -> IF r.at > after THEN <<Due(r.at)>> ELSE <<>>
      [] r.kind = "cron" -> CronBatch(r, z, after)
      [] IsElapsed(r) -> ElapsedBatch(r, z, after)
      [] IsCalendar(r) -> CalendarBatch(r, z, after)

\* next_due_instant, plan_next_run
NextRun(r, z, after) ==
    LET due == SelectSeq(NextDueInstants(r, z, after), LAMBDA slot : slot.due)
    IN  IF due = <<>> THEN Unscheduled ELSE Head(due).at

-----------------------------------------------------------------------------
(* plan_due_occurrences.                                                   *)

\* Variant for the sensitivity runs: slots past `now` are taken too.
TakenWhole(batch, now, room) == SubSeq(batch, 1, Min({room, Len(batch)}))
\* What a batch adds: up to the first slot past `now`, while there is room.
Taken(batch, now, room) ==
    LET late == {i \in DOMAIN batch : batch[i].at > now}
        upTo == IF late = {} THEN Len(batch) ELSE Min(late) - 1
    IN  SubSeq(batch, 1, Min({room, upTo}))

\* The batches between `from` and `now`, the present one among them, gathered
\* in `instants`.
RECURSIVE Scan(_, _, _, _, _, _)
Scan(r, z, from, batch, now, instants) ==
    LET taken == Taken(batch, now, WindowSize - Len(instants))
        last == batch[Len(batch)].at
    IN  IF batch = <<>> \/ taken = <<>> \/ last <= from \/ last >= now THEN instants \o taken
        ELSE Scan(r, z, last, NextDueInstants(r, z, last), now, instants \o taken)

\* The newest `keeps` of the due slots, and every declined one.
Kept(instants, keeps) ==
    LET due == SelectSeq(instants, LAMBDA slot : slot.due)
    IN  [due |-> {due[i].at : i \in Max({1, Len(due) - keeps + 1})..Len(due)},
         declined |-> {slot.at : slot \in {s \in ToSet(instants) : ~s.due}}]

Plan(r, z, from, now) ==
    Kept(Scan(r, z, from, NextDueInstants(r, z, from), now, <<>>), r.keeps)

-----------------------------------------------------------------------------
(* What a rule names, said without the enumeration.                        *)
\* The second pass of a local time that the clocks repeat.
SecondPass(z, utc) == \E v \in utc - 2 * Reach .. utc - 1 : ToLocal(z, v) = ToLocal(z, utc)

IsSlot(r, z, utc) ==
    LET local == ToLocal(z, utc)
        anchorLocal == ToLocal(z, r.anchor)
        day == DayOf(local)
        anchorDay == DayOf(anchorLocal)
    IN  CASE r.kind = "one_time" -> utc = r.at
          [] r.kind = "cron" ->
                 /\ MatchesDate(r, day) /\ TimeOfDay(local) \in r.times
                 /\ SecondPass(z, utc) => r.dst = "run_both"
          [] IsElapsed(r) -> (utc - r.anchor) % r.every = 0
          [] IsCalendar(r) ->
                 /\ TimeOfDay(local) = TimeOfDay(anchorLocal)
                 /\ (Period(r, day) - Period(r, anchorDay)) % Step(r) = 0
                 /\ r.unit \in {"months", "years"} => MonthDayOf(day) = MonthDayOf(anchorDay)
                 /\ r.unit = "years" => MonthOf(day) = MonthOf(anchorDay)
                 /\ ~SecondPass(z, utc)

Selected(r, z, utc) == r.kind = "interval" => SelectorsAllow(r, DayOf(ToLocal(z, utc)))

\* Far enough to see the slot after the last unit.
Horizon == LastUnit + YearDays * DayLength

Slots(r, z) == {u \in 0..Horizon : IsSlot(r, z, u) /\ (IsElapsed(r) => Selected(r, z, u))}

-----------------------------------------------------------------------------
\* create_automation, or an edit or a resume, at any time.
Init ==
    /\ hour \in 0..LastUnit
    /\ rule \in ScheduleRules /\ zone \in Zones
    /\ since = hour /\ cursor = hour
    /\ next = NextRun(rule, zone, hour)
    /\ ran = {} /\ skipped = {}
    /\ named = Slots(rule, zone)

\* generate_for_automation.  Rows are inserted in the order of their instants,
\* declined ones first, and an instant that has a row keeps it.
Sweep ==
    /\ next # Unscheduled /\ next <= hour
    /\ \E plan \in {Plan(rule, zone, cursor, hour)} :
           /\ skipped' = skipped \cup (plan.declined \ ran)
           /\ ran' = ran \cup (plan.due \ skipped')
    /\ cursor' = hour
    /\ next' = NextRun(rule, zone, hour)
    /\ UNCHANGED <<hour, rule, zone, since, named>>

Tick ==
    /\ hour < LastUnit
    /\ hour' = hour + 1
    /\ UNCHANGED <<rule, zone, since, cursor, next, ran, skipped, named>>

Next == Sweep \/ Tick

Spec == Init /\ [][Next]_calendarVars

-----------------------------------------------------------------------------
\* A calendar step that has begun is passed over, whatever is left of it.
PassedOver(r, z, from, utc) ==
    LET index(u) == (Period(r, DayOf(ToLocal(z, u))) - Period(r, DayOf(ToLocal(z, r.anchor)))) \div Step(r)
    IN  IsCalendar(r) /\ index(utc) = index(from)

\* The slots after `from` that a sweep can see.
InSight(from) == {u \in named : u > from /\ ~PassedOver(rule, zone, from, u)}

\* Selectors that leave more steps in a row without a slot than are tried.
Sparse(r, z) ==
    /\ IsElapsed(r)
    /\ \E first \in 0..Horizon : \A i \in 0..Candidates - 1 : ~Selected(r, z, first + i * r.every)

Oldest(n, S) == {u \in S : Cardinality({v \in S : v < u}) < n}
Newest(n, S) == {u \in S : Cardinality({v \in S : v > u}) < n}

CalendarTypeOK ==
    /\ hour \in 0..LastUnit /\ rule \in ScheduleRules /\ zone \in Zones
    /\ since \in 0..hour /\ cursor \in since..hour
    /\ next = Unscheduled \/ next > cursor
    /\ \A u \in ran : since < u /\ u <= cursor

\* Nothing runs that the rule does not name: no missing local time, no second
\* pass unless the policy asks for both, no date that a month lacks, and, but
\* for calendar units, no day that the selectors exclude.
RunsAreNamed == ran \subseteq named

\* In a zone without transitions a sweep runs the newest slots of the oldest
\* WindowSize ones in sight, and the next run is the first one in sight: the
\* batches neither lose nor repeat a slot.
WindowIsKept ==
    cursor' # cursor /\ zone.transitions = <<>> /\ ~Sparse(rule, zone) =>
        LET seen == {u \in InSight(cursor) : u <= cursor'}
            ahead == InSight(cursor')
        IN  /\ ran' = ran \cup Newest(rule.keeps, Oldest(WindowSize, seen))
            /\ ahead # {} => next' = Min(ahead)

\* What schedule.rs promises of a sweep: the slots that run are the rule's, and
\* the newest of those in sight, batch by batch.
SlotsAreRight == [][RunsAreNamed' /\ WindowIsKept]_calendarVars

\* schedule.rs: "The first due instant strictly after `after_utc`", with
\* selectors "applied uniformly to elapsed and calendar units".
NextIsFirst ==
    LET ahead == {u \in named : u > cursor /\ Selected(rule, zone, u)}
    IN  next = IF ahead = {} THEN Unscheduled ELSE Min(ahead)
=============================================================================
