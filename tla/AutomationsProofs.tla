-------------------------- MODULE AutomationsProofs --------------------------
(***************************************************************************)
(* Theorems about Schedules and Leases, for any rules, requests, sweeps    *)
(* and devices.                                                            *)
(***************************************************************************)
EXTENDS Schedules, Leases, FiniteSetTheorems, WellFoundedInduction, TLAPS

-----------------------------------------------------------------------------
(***************************************************************************)
(* Schedules, without its bounds: the next run of a rule first.            *)
(***************************************************************************)
\* The well-ordering of the instants: intervals from 0 are ordered by strict
\* inclusion, which is well-founded.
LEMMA LeastExists ==
    ASSUME NEW S \in SUBSET Nat, S # {}
    PROVE  \E i \in S : \A j \in S : i <= j
<1>1. PICK n \in S : TRUE
  OBVIOUS
<1> DEFINE Less == StrictSubsetOrdering(0 .. n)
           T == {X \in SUBSET (0 .. n) : \E i \in S : X = 0 .. i}
<1>2. IsFiniteSet(0 .. n)
  BY FS_Interval
<1>3. IsWellFoundedOn(Less, FiniteSubsetsOf(0 .. n))
  BY FS_StrictSubsetOrderingWellFounded
<1>4. T \subseteq FiniteSubsetsOf(0 .. n)
  BY <1>2, FS_Subset DEF FiniteSubsetsOf
<1>5. 0 .. n \in T
  OBVIOUS
<1>6. PICK X \in T : \A Y \in T : ~ (<<Y, X>> \in Less)
  <2> HIDE DEF Less, T
  <2> QED
    BY <1>3, <1>4, <1>5, WFMin
<1>7. PICK i \in S : X = 0 .. i
  BY <1>6
<1>8. ASSUME NEW j \in S, j < i PROVE FALSE
  <2>1. 0 .. j \in SUBSET (0 .. n)
    BY <1>6, <1>7, <1>8
  <2>2. 0 .. j \in T
    BY <2>1
  <2>3. 0 .. j # 0 .. i /\ 0 .. j \subseteq 0 .. i
    <3>1. i \in 0 .. i /\ i \notin 0 .. j
      BY <1>8
    <3> QED
      BY <1>8, <3>1
  <2>4. <<0 .. j, 0 .. i>> \in Less
    BY <2>1, <2>3, <1>6, <1>7 DEF StrictSubsetOrdering
  <2> QED
    BY <2>2, <2>4, <1>6, <1>7
<1> QED
  BY <1>7, <1>8

\* plan_next_run yields an instant of the rule after t, or none.
LEMMA NextRunType ==
    ASSUME NEW r \in Rules, NEW t
    PROVE  NextRun(r, t) \in Stamps
<1> DEFINE Later == {i \in Instants[r] \ Skipped[r] : i > t}
<1>1. CASE Later = {}
  BY <1>1 DEF NextRun, Stamps
<1>2. CASE Later # {}
  <2>1. Later \in SUBSET Nat
    BY ScheduleParameters
  <2>2. \E i \in Later : \A j \in Later : i <= j
    BY <1>2, <2>1, LeastExists
  <2>3. (CHOOSE i \in Later : \A j \in Later : i <= j) \in Later
    BY <2>2
  <2> QED
    BY <1>2, <2>1, <2>3 DEF NextRun, Stamps
<1> QED
  BY <1>1, <1>2

\* A pass plans instants of its window only.
LEMMA PlannedInWindow ==
    ASSUME NEW r \in Rules, NEW from, NEW to
    PROVE  Planned(r, from, to) \subseteq {i \in Nat : from < i /\ i <= to}
BY ScheduleParameters DEF Planned, Kept, Due, Window

-----------------------------------------------------------------------------
(***************************************************************************)
(* The inductive invariant.  It says what an invocation that is between    *)
(* its two database calls still knows of the row: a request whose version  *)
(* is the current one knows the cursor and (unless it edits it) the rule,  *)
(* and was not received before the last cursor; a sweep whose cursor is    *)
(* the current one knows the rule, unless a tie lets two cursors be equal. *)
(***************************************************************************)
Pending(q) == request[q].phase = "write"
Current(q) == Pending(q) /\ request[q].version = def.version

RequestsKnow ==
    \A q \in Requests : Pending(q) =>
        /\ request[q].at <= clock
        /\ request[q].version <= def.version
        /\ request[q].version = def.version =>
               /\ request[q].cursor = def.cursor
               /\ def.status # "deleted"
               /\ request[q].kind # "reschedule" => request[q].rule = def.rule
               /\ last <= request[q].at

SweepsKnow ==
    \A s \in Sweepers : sweep[s].phase = "planned" =>
        /\ sweep[s].cursor # Never
        /\ sweep[s].cursor <= sweep[s].now /\ sweep[s].now <= clock
        /\ sweep[s].cursor <= last
        /\ ~ tie /\ def.cursor = sweep[s].cursor => sweep[s].rule = def.rule

CursorKnows ==
    /\ restarted <= last /\ last <= clock
    /\ def.cursor # Never => def.cursor = last
    /\ def.status = "active" => def.cursor # Never

\* Before the creation there is nothing to read.
NotYet ==
    def.status = "absent" =>
        /\ def.cursor = Never /\ slots = {} /\ manual = {}
        /\ \A q \in Requests : ~ Pending(q)
        /\ \A s \in Sweepers : sweep[s].phase # "planned"

IndInv ==
    /\ TypeOK /\ RequestsKnow /\ SweepsKnow /\ CursorKnows /\ NotYet
    /\ NothingWithoutRepair /\ NoInstantStranded

-----------------------------------------------------------------------------
\* What TypeOK says of an invocation between its two database calls.
LEMMA RequestType ==
    ASSUME TypeOK, NEW q \in Requests, Pending(q)
    PROVE  request[q] \in [phase : {"write"}, kind : Kinds, rule : Rules, at : Nat,
                           cursor : Stamps, version : Nat]
BY DEF TypeOK, Pending, Idle, Done

\* The same of a pass of the generator.
LEMMA SweepType ==
    ASSUME TypeOK, NEW s \in Sweepers, sweep[s].phase = "planned"
    PROVE  sweep[s] \in [phase : {"planned"}, now : Nat, rule : Rules, cursor : Stamps]
BY DEF TypeOK, Idle

\* A row, as the function that its updates are updates of.
LEMMA RowIsFunction ==
    ASSUME NEW row \in Rows
    PROVE  row \in [{"status", "rule", "cursor", "next", "version"} ->
                      Statuses \cup Rules \cup Stamps \cup Nat]
BY DEF Rows

\* Where something is being done to the definition, there is one.
LEMMA DefinitionExists ==
    ASSUME IndInv, \/ \E q \in Requests : Pending(q)
                   \/ \E s \in Sweepers : sweep[s].phase = "planned"
    PROVE  def.status # "absent" /\ repaired
BY DEF IndInv, NotYet, NothingWithoutRepair, TypeOK

-----------------------------------------------------------------------------
\* It holds before the definition is created.
LEMMA InitIndInv == Init => IndInv
<1> SUFFICES ASSUME Init PROVE IndInv
  OBVIOUS
<1>1. PICK r \in Rules :
        def = [status |-> "absent", rule |-> r, cursor |-> Never, next |-> Never, version |-> 0]
  BY DEF Init
<1>2. def \in Rows /\ def.status = "absent" /\ def.cursor = Never
  BY <1>1 DEF Rows, Stamps, Statuses
<1>3. /\ clock = 0 /\ slots = {} /\ skips = {} /\ manual = {} /\ restarted = 0 /\ last = 0
      /\ repaired \in BOOLEAN /\ orgActive = TRUE /\ tie = FALSE
      /\ request = [q \in Requests |-> Idle] /\ sweep = [s \in Sweepers |-> Idle]
  BY DEF Init
<1>4. TypeOK
  BY <1>2, <1>3 DEF TypeOK
<1>5. RequestsKnow /\ SweepsKnow /\ NotYet
  BY <1>2, <1>3 DEF RequestsKnow, SweepsKnow, NotYet, Pending, Idle
<1>6. CursorKnows /\ NothingWithoutRepair /\ NoInstantStranded
  BY <1>2, <1>3 DEF CursorKnows, NothingWithoutRepair, NoInstantStranded
<1> QED
  BY <1>4, <1>5, <1>6 DEF IndInv

\* create_automation, where the INSERT is repaired: nobody has read the row.
LEMMA CreateIndInv == ASSUME IndInv, NEW t \in 0 .. clock, Create(t) PROVE IndInv'
<1>1. /\ clock \in Nat /\ def \in Rows /\ t \in Nat /\ t <= clock /\ t # Never
      /\ def.status = "absent" /\ repaired
  BY ScheduleParameters DEF Create, IndInv, TypeOK
<1>2. NextRun(def.rule, t) \in Stamps
  BY <1>1, NextRunType DEF Rows
<1>3. /\ def' \in Rows /\ def'.status = "active" /\ def'.cursor = t /\ def'.rule = def.rule
      /\ def'.next = NextRun(def.rule, t)
  <2>1. def' = [status |-> "active", rule |-> def.rule, cursor |-> t,
                next |-> NextRun(def.rule, t), version |-> 1]
    BY <1>1, RowIsFunction DEF Create
  <2> QED
    BY <1>1, <1>2, <2>1 DEF Rows, Stamps, Statuses
<1>4. /\ restarted' = t /\ last' = t
      /\ UNCHANGED <<repaired, clock, orgActive, slots, skips, manual, request, sweep, lost, tie>>
  BY DEF Create
<1>5. /\ \A q \in Requests : ~ Pending(q)
      /\ \A s \in Sweepers : sweep[s].phase # "planned"
  BY <1>1 DEF IndInv, NotYet
<1>6. TypeOK'
  BY <1>1, <1>3, <1>4 DEF IndInv, TypeOK
<1>7. RequestsKnow' /\ SweepsKnow' /\ NotYet'
  BY <1>3, <1>4, <1>5 DEF RequestsKnow, SweepsKnow, NotYet, Pending
<1>8. CursorKnows' /\ NothingWithoutRepair'
  BY <1>1, <1>3, <1>4 DEF CursorKnows, NothingWithoutRepair
<1>9. NoInstantStranded'
  BY <1>2, <1>3, <1>4 DEF NoInstantStranded, Stamps
<1> QED
  BY <1>6, <1>7, <1>8, <1>9 DEF IndInv

\* Nothing that is not the definition moves, apart from the request served.
Served(q) ==
    /\ request' = [request EXCEPT ![q] = Done]
    /\ UNCHANGED <<repaired, clock, orgActive, slots, skips, sweep>>
    /\ manual' \in {manual, manual \cup {q}}

\* A request that writes the definition leaves every other invocation without
\* knowledge of it, provided that a cursor that a sweep has read is not taken
\* up again with another rule.
LEMMA RequestWrites ==
    ASSUME IndInv, NEW q \in Requests, Pending(q), Served(q),
           def' \in Rows, def'.version > def.version, def'.status # "absent",
           restarted' \in Nat, last' \in Nat, tie' \in BOOLEAN, tie => tie',
           restarted' <= last', last <= last', last' <= clock,
           def'.status = "deleted" => def'.next = Never,
           def'.cursor # Never => def'.cursor = last',
           def'.status = "active" => def'.cursor # Never,
           \A s \in Sweepers :
               sweep[s].phase = "planned" /\ ~ tie' /\ def'.cursor = sweep[s].cursor =>
                   sweep[s].rule = def'.rule,
           NoInstantStranded'
    PROVE  IndInv'
<1>1. TypeOK'
  BY DEF IndInv, TypeOK, Served, Rows
<1>2. \A p \in Requests : Pending(p)' => Pending(p) /\ request'[p] = request[p]
  BY DEF IndInv, TypeOK, Served, Pending, Done
<1>3. RequestsKnow'
  <2> SUFFICES ASSUME NEW p \in Requests, Pending(p)'
               PROVE  /\ request'[p].at <= clock'
                      /\ request'[p].version <= def'.version
                      /\ request'[p].version # def'.version
    BY DEF RequestsKnow
  <2>1. Pending(p) /\ request'[p] = request[p]
    BY <1>2
  <2>2. request[p].version \in Nat /\ def.version \in Nat /\ def'.version \in Nat
    BY <2>1, RequestType DEF IndInv, TypeOK, Rows
  <2> QED
    BY <2>1, <2>2 DEF IndInv, RequestsKnow, Served
<1>4. SweepsKnow'
  <2> SUFFICES ASSUME NEW s \in Sweepers, sweep[s].phase = "planned"
               PROVE  sweep[s].cursor <= last'
    BY DEF IndInv, SweepsKnow, Served
  <2>1. sweep[s].cursor \in Nat /\ sweep[s].cursor <= last /\ last \in Nat
    BY SweepType DEF IndInv, SweepsKnow, TypeOK, Stamps
  <2> QED
    BY <2>1
<1>5. CursorKnows'
  BY DEF CursorKnows, Served
<1>6. NotYet' /\ NothingWithoutRepair'
  BY DefinitionExists DEF NotYet, NothingWithoutRepair, Served
<1> QED
  BY <1>1, <1>3, <1>4, <1>5, <1>6 DEF IndInv

\* patch_automation without a schedule.
LEMMA PatchIndInv == ASSUME IndInv, NEW q \in Requests, Patch(q) PROVE IndInv'
<1>1. Pending(q) /\ Served(q) /\ def.status # "absent"
  BY DefinitionExists DEF Patch, Finishing, Finish, Pending, Served
<1>2. def \in Rows /\ def' = [def EXCEPT !.version = @ + 1]
  BY DEF Patch, IndInv, TypeOK
<1>3. def' \in Rows /\ def'.version > def.version /\ def'.cursor = def.cursor
      /\ def'.rule = def.rule /\ def'.status = def.status /\ def'.next = def.next
  BY <1>2 DEF Rows
<1>4. /\ restarted' = restarted /\ last' = last /\ tie' = tie
      /\ restarted \in Nat /\ last \in Nat /\ tie \in BOOLEAN
  BY DEF Patch, past, IndInv, TypeOK
<1>5. NoInstantStranded'
  BY <1>3, <1>4 DEF IndInv, NoInstantStranded
<1>6. /\ def.status = "deleted" => def.next = Never
      /\ restarted <= last /\ last <= clock
      /\ def.cursor # Never => def.cursor = last
      /\ def.status = "active" => def.cursor # Never
  BY DEF IndInv, TypeOK, CursorKnows
<1>7. \A s \in Sweepers :
          sweep[s].phase = "planned" /\ ~ tie /\ def.cursor = sweep[s].cursor =>
              sweep[s].rule = def.rule
  BY DEF IndInv, SweepsKnow
<1> QED
  BY <1>1, <1>3, <1>4, <1>5, <1>6, <1>7, RequestWrites

\* What an edit or a resume knows: it is not older than the last cursor, and
\* if it is younger, no sweep has read a cursor like the one it writes.
LEMMA RestartKnows ==
    ASSUME IndInv, NEW q \in Requests, Current(q), Restart(request[q].at)
    PROVE  /\ request[q].at \in Nat /\ request[q].at <= clock /\ request[q].at # Never
           /\ last \in Nat /\ last <= request[q].at
           /\ restarted' = request[q].at /\ last' = request[q].at
           /\ tie' \in BOOLEAN /\ (tie => tie')
           /\ \A s \in Sweepers :
                  sweep[s].phase = "planned" /\ ~ tie' => sweep[s].cursor # request[q].at
<1> DEFINE at == request[q].at
<1>1. at \in Nat /\ at <= clock /\ at # Never /\ last \in Nat /\ last <= at
  BY RequestType, ScheduleParameters DEF IndInv, TypeOK, RequestsKnow, Current
<1>2. restarted' = at /\ last' = at /\ tie' = (tie \/ at <= last)
  BY DEF Restart
<1> HIDE DEF at
<1>3. ASSUME NEW s \in Sweepers, sweep[s].phase = "planned", ~ tie'
      PROVE  sweep[s].cursor # at
  <2>1. sweep[s].cursor \in Nat /\ sweep[s].cursor <= last
    BY <1>3, SweepType DEF IndInv, SweepsKnow, Stamps
  <2> QED
    BY <2>1, <1>1, <1>2, <1>3
<1>4. tie' \in BOOLEAN /\ (tie => tie')
  BY <1>2 DEF IndInv, TypeOK
<1> QED
  BY <1>1, <1>2, <1>3, <1>4 DEF at

\* patch_automation with a schedule.  The version it asserted is that of the
\* cursor it read, so its compare-and-set cannot miss.
LEMMA RescheduleIndInv == ASSUME IndInv, NEW q \in Requests, Reschedule(q) PROVE IndInv'
<1> DEFINE at == request[q].at
           r == request[q].rule
           next == NextRun(r, at)
<1>1. Pending(q) /\ Served(q) /\ Current(q) /\ def.status # "absent"
  BY DefinitionExists DEF Reschedule, Finishing, Finish, Pending, Served, VersionHolds, Current
<1>2. r \in Rules /\ next \in Stamps
      /\ def.cursor = request[q].cursor /\ def.status # "deleted"
  BY <1>1, RequestType, NextRunType DEF IndInv, RequestsKnow, Current
<1>3. /\ Restart(at)
      /\ def' = [def EXCEPT !.rule = r, !.version = @ + 1 + 1, !.cursor = at,
                             !.next = IF next = Never THEN @ ELSE next]
  BY <1>2 DEF Reschedule, IndInv, TypeOK, Rows
<1>4. def \in Rows
  BY DEF IndInv, TypeOK
<1>5. /\ at \in Nat /\ at <= clock /\ at # Never /\ last \in Nat /\ last <= at
      /\ restarted' = at /\ last' = at /\ tie' \in BOOLEAN /\ (tie => tie')
      /\ \A s \in Sweepers : sweep[s].phase = "planned" /\ ~ tie' => sweep[s].cursor # at
  BY <1>1, <1>3, RestartKnows
<1>6. def' \in Rows /\ def'.version > def.version /\ def'.cursor = at
      /\ def'.rule = r /\ def'.status = def.status
      /\ def'.next = IF next = Never THEN def.next ELSE next
  <2> HIDE DEF at, r, next
  <2>1. def' = [status |-> def.status, rule |-> r, cursor |-> at,
                next |-> IF next = Never THEN def.next ELSE next,
                version |-> def.version + 1 + 1]
    BY <1>3, <1>4, RowIsFunction
  <2>2. def.version + 1 + 1 \in Nat /\ def.version + 1 + 1 > def.version
    BY <1>4 DEF Rows
  <2> QED
    BY <1>2, <1>4, <1>5, <2>1, <2>2 DEF Rows, Stamps
<1>7. NoInstantStranded'
  BY <1>2, <1>5, <1>6 DEF NoInstantStranded, Stamps
<1>8. at <= at
  BY <1>5
<1> QED
  BY <1>1, <1>2, <1>5, <1>6, <1>7, <1>8, RequestWrites

\* pause_automation clears the cursor and next_run_at, resume starts anew.
LEMMA PauseIndInv == ASSUME IndInv, NEW q \in Requests, Pause(q) PROVE IndInv'
<1>1. Pending(q) /\ Served(q)
  BY DEF Pause, Finishing, Finish, Pending, Served
<1>2. /\ def \in Rows /\ restarted \in Nat /\ last \in Nat /\ tie \in BOOLEAN
      /\ restarted' = restarted /\ last' = last /\ tie' = tie
      /\ restarted <= last /\ last <= clock
  BY DEF Pause, past, IndInv, TypeOK, CursorKnows
<1>3. def' \in Rows /\ def'.version > def.version /\ def'.cursor = Never
      /\ def'.status = "paused"
  <2>1. def' = [status |-> "paused", rule |-> def.rule, cursor |-> Never, next |-> Never,
                version |-> def.version + 1]
    BY <1>2, RowIsFunction DEF Pause
  <2>2. def.version + 1 \in Nat /\ def.version + 1 > def.version
    BY <1>2 DEF Rows
  <2> QED
    BY <1>2, <2>1, <2>2 DEF Rows, Stamps, Statuses
<1>4. NoInstantStranded'
  BY <1>3 DEF NoInstantStranded
<1>5. \A s \in Sweepers : sweep[s].phase = "planned" => sweep[s].cursor # Never
  BY DEF IndInv, SweepsKnow
<1> QED
  BY <1>1, <1>2, <1>3, <1>4, <1>5, RequestWrites

\* resume_automation restarts the cursor at the instant of the request.
LEMMA ResumeIndInv == ASSUME IndInv, NEW q \in Requests, Resume(q) PROVE IndInv'
<1> DEFINE at == request[q].at
<1>1. Pending(q) /\ Served(q) /\ Current(q) /\ Restart(at)
  BY DEF Resume, Finishing, Finish, Pending, Served, VersionHolds, Current
<1>2. request[q].rule = def.rule
  BY <1>1 DEF IndInv, RequestsKnow, Current, Resume
<1>3. def \in Rows /\ NextRun(def.rule, at) \in Stamps
  BY NextRunType DEF IndInv, TypeOK, Rows
<1>4. /\ at \in Nat /\ at <= clock /\ at # Never /\ last \in Nat /\ last <= at
      /\ restarted' = at /\ last' = at /\ tie' \in BOOLEAN /\ (tie => tie')
      /\ \A s \in Sweepers : sweep[s].phase = "planned" /\ ~ tie' => sweep[s].cursor # at
  BY <1>1, RestartKnows
<1>5. def' \in Rows /\ def'.version > def.version /\ def'.cursor = at
      /\ def'.status = "active" /\ def'.rule = def.rule /\ def'.next = NextRun(def.rule, at)
  <2>1. def' = [status |-> "active", rule |-> def.rule, cursor |-> at,
                next |-> NextRun(def.rule, at), version |-> def.version + 1]
    BY <1>2, <1>3, RowIsFunction DEF Resume
  <2>2. def.version + 1 \in Nat /\ def.version + 1 > def.version
    BY <1>3 DEF Rows
  <2> HIDE DEF at
  <2> QED
    BY <1>2, <1>3, <1>4, <2>1, <2>2 DEF Rows, Stamps, Statuses
<1>6. NoInstantStranded'
  BY <1>3, <1>5 DEF NoInstantStranded, Stamps
<1>7. at <= at
  BY <1>4
<1> QED
  BY <1>1, <1>4, <1>5, <1>6, <1>7, RequestWrites

\* delete_automation: a row that nobody selects again.
LEMMA DeleteIndInv == ASSUME IndInv, NEW q \in Requests, Delete(q) PROVE IndInv'
<1>1. Pending(q) /\ Served(q)
  BY DEF Delete, Finishing, Finish, Pending, Served
<1>2. /\ def \in Rows /\ restarted \in Nat /\ last \in Nat /\ tie \in BOOLEAN
      /\ restarted' = restarted /\ last' = last /\ tie' = tie
      /\ restarted <= last /\ last <= clock /\ (def.cursor # Never => def.cursor = last)
  BY DEF Delete, past, IndInv, TypeOK, CursorKnows
<1>3. def' \in Rows /\ def'.version > def.version /\ def'.cursor = def.cursor
      /\ def'.rule = def.rule /\ def'.status = "deleted" /\ def'.next = Never
  <2>1. def' = [status |-> "deleted", rule |-> def.rule, cursor |-> def.cursor,
                next |-> Never, version |-> def.version + 1]
    BY <1>2, RowIsFunction DEF Delete
  <2>2. def.version + 1 \in Nat /\ def.version + 1 > def.version
    BY <1>2 DEF Rows
  <2> QED
    BY <1>2, <2>1, <2>2 DEF Rows, Stamps, Statuses
<1>4. NoInstantStranded'
  BY <1>3 DEF NoInstantStranded
<1>5. \A s \in Sweepers :
          sweep[s].phase = "planned" /\ ~ tie /\ def.cursor = sweep[s].cursor =>
              sweep[s].rule = def.rule
  BY DEF IndInv, SweepsKnow
<1> QED
  BY <1>1, <1>2, <1>3, <1>4, <1>5, RequestWrites

\* A request that arrives knows the row it has just read.
LEMMA ArriveIndInv ==
    ASSUME IndInv, NEW q \in Requests, NEW kind \in Kinds, NEW r \in Rules, Arrive(q, kind, r)
    PROVE  IndInv'
<1> DEFINE new == [phase |-> "write", kind |-> kind, rule |-> r, at |-> clock,
                   cursor |-> def.cursor, version |-> def.version]
<1>1. request' = [request EXCEPT ![q] = new] /\ def.status \notin {"absent", "deleted"}
      /\ (kind # "reschedule" => r = def.rule)
  BY DEF Arrive, Acceptable
<1>2. UNCHANGED <<repaired, clock, orgActive, def, slots, skips, manual, sweep,
                  restarted, last, tie>>
  BY DEF Arrive, past
<1>3. def \in Rows /\ clock \in Nat
  BY DEF IndInv, TypeOK
<1>4. TypeOK'
  BY <1>1, <1>2, <1>3 DEF IndInv, TypeOK, Rows
<1>5. /\ new.at = clock /\ new.version = def.version /\ new.cursor = def.cursor
      /\ new.kind = kind /\ new.rule = r
  OBVIOUS
<1> HIDE DEF new
<1>6. \A p \in Requests : request'[p] = new \/ request'[p] = request[p]
  BY <1>1 DEF IndInv, TypeOK
<1>7. RequestsKnow'
  <2> SUFFICES ASSUME NEW p \in Requests, Pending(p)'
               PROVE  /\ request'[p].at <= clock
                      /\ request'[p].version <= def.version
                      /\ request'[p].version = def.version =>
                             /\ request'[p].cursor = def.cursor
                             /\ def.status # "deleted"
                             /\ request'[p].kind # "reschedule" => request'[p].rule = def.rule
                             /\ last <= request'[p].at
    BY <1>2 DEF RequestsKnow
  <2>1. CASE request'[p] = request[p]
    BY <2>1 DEF IndInv, RequestsKnow, Pending
  <2>2. CASE request'[p] = new
    BY <2>2, <1>1, <1>3, <1>5 DEF IndInv, CursorKnows, Rows
  <2> QED
    BY <2>1, <2>2, <1>6
<1>8. SweepsKnow' /\ CursorKnows' /\ NotYet' /\ NothingWithoutRepair' /\ NoInstantStranded'
  BY <1>1, <1>2 DEF IndInv, SweepsKnow, CursorKnows, NotYet, NothingWithoutRepair,
     NoInstantStranded
<1> QED
  BY <1>4, <1>7, <1>8 DEF IndInv

\* run_now and a refused request leave the definition as it is.
LEMMA ServedIndInv ==
    ASSUME IndInv, NEW q \in Requests, Pending(q), Served(q), UNCHANGED <<def, past>>
    PROVE  IndInv'
<1>1. UNCHANGED <<def, restarted, last, tie>>
  BY DEF past
<1>2. TypeOK'
  BY <1>1 DEF IndInv, TypeOK, Served
<1>3. \A p \in Requests : Pending(p)' => Pending(p) /\ request'[p] = request[p]
  BY DEF IndInv, TypeOK, Served, Pending, Done
<1>4. RequestsKnow'
  BY <1>1, <1>3 DEF IndInv, RequestsKnow, Served
<1>5. NotYet' /\ NothingWithoutRepair'
  BY <1>1, DefinitionExists DEF NotYet, NothingWithoutRepair, Served
<1>6. SweepsKnow' /\ CursorKnows' /\ NoInstantStranded'
  BY <1>1 DEF IndInv, SweepsKnow, CursorKnows, NoInstantStranded, Served
<1> QED
  BY <1>2, <1>4, <1>5, <1>6 DEF IndInv

\* A pass that starts has read the row it plans from.
LEMMA SweepBeginIndInv == ASSUME IndInv, NEW s \in Sweepers, SweepBegin(s) PROVE IndInv'
<1> DEFINE new == [phase |-> "planned", now |-> clock, rule |-> def.rule,
                   cursor |-> def.cursor]
<1>1. sweep' = [sweep EXCEPT ![s] = new] /\ def.status = "active"
  BY DEF SweepBegin, Selected
<1>2. UNCHANGED <<repaired, clock, orgActive, def, slots, skips, manual, request,
                  restarted, last, tie>>
  BY DEF SweepBegin, past
<1>3. def \in Rows /\ clock \in Nat /\ last \in Nat
  BY DEF IndInv, TypeOK
<1>4. TypeOK'
  BY <1>1, <1>2, <1>3 DEF IndInv, TypeOK, Rows
<1>5. new.now = clock /\ new.rule = def.rule /\ new.cursor = def.cursor
  OBVIOUS
<1> HIDE DEF new
<1>6. \A z \in Sweepers : sweep'[z] = new \/ sweep'[z] = sweep[z]
  BY <1>1 DEF IndInv, TypeOK
<1>7. def.cursor # Never /\ def.cursor = last /\ last <= clock
  BY <1>1 DEF IndInv, CursorKnows
<1>8. /\ RequestsKnow' /\ CursorKnows' /\ NotYet' /\ NothingWithoutRepair'
      /\ NoInstantStranded'
  BY <1>1, <1>2 DEF IndInv, RequestsKnow, CursorKnows, NotYet, NothingWithoutRepair,
     NoInstantStranded, Pending
<1>9. SweepsKnow'
  <2> SUFFICES ASSUME NEW z \in Sweepers, sweep'[z].phase = "planned"
               PROVE  /\ sweep'[z].cursor # Never
                      /\ sweep'[z].cursor <= sweep'[z].now /\ sweep'[z].now <= clock
                      /\ sweep'[z].cursor <= last
                      /\ ~ tie /\ def.cursor = sweep'[z].cursor => sweep'[z].rule = def.rule
    BY <1>2 DEF SweepsKnow
  <2>1. CASE sweep'[z] = sweep[z]
    BY <2>1 DEF IndInv, SweepsKnow
  <2>2. CASE sweep'[z] = new
    BY <2>2, <1>3, <1>5, <1>7
  <2> QED
    BY <2>1, <2>2, <1>6
<1> QED
  BY <1>4, <1>8, <1>9 DEF IndInv

\* A sweep whose cursor is the current one starts from the last cursor, and
\* generates with the current rule unless there was a tie.
LEMMA SweepCommitKnows ==
    ASSUME IndInv, NEW s \in Sweepers, SweepCommit(s)
    PROVE  /\ sweep[s].phase = "planned" /\ sweep[s].now \in Nat /\ sweep[s].now <= clock
           /\ sweep[s].rule \in Rules
           /\ def.cursor \in Nat /\ sweep[s].cursor = def.cursor
           /\ def.cursor = last /\ def.cursor <= sweep[s].now
           /\ (~ tie => sweep[s].rule = def.rule) /\ def.status = "active"
<1>1. sweep[s].phase = "planned" /\ CursorHolds(s)
  BY DEF SweepCommit
<1> QED
  BY <1>1, SweepType DEF CursorHolds, IndInv, SweepsKnow, CursorKnows, TypeOK, Rows, Stamps

\* The batch of generate_for_automation: occurrences, cursor and next_run_at
\* move together, from the cursor the pass has read.
LEMMA SweepCommitIndInv == ASSUME IndInv, NEW s \in Sweepers, SweepCommit(s) PROVE IndInv'
<1> DEFINE to == sweep[s].now
           r == sweep[s].rule
<1>1. /\ sweep[s].phase = "planned" /\ to \in Nat /\ to <= clock /\ to # Never /\ r \in Rules
      /\ def.cursor \in Nat /\ sweep[s].cursor = def.cursor /\ def.cursor <= to
      /\ def.cursor = last /\ (~ tie => r = def.rule) /\ def.status = "active"
  BY SweepCommitKnows, ScheduleParameters
<1>2. PICK new : /\ new = {<<r, i>> : i \in Planned(r, sweep[s].cursor, to)} \ slots
                 /\ slots' = slots \cup new
                 /\ skips' = skips \cup {o \in new : o[2] \in Skipped[o[1]]}
                 /\ def' = [def EXCEPT !.cursor = to, !.next = NextRun(r, to),
                                       !.version = @ + 1]
  BY DEF SweepCommit
<1>3. /\ sweep' = [sweep EXCEPT ![s] = Idle] /\ last' = to
      /\ UNCHANGED <<repaired, clock, orgActive, manual, request, restarted, tie>>
  BY DEF SweepCommit
<1>4. def \in Rows /\ NextRun(r, to) \in Stamps /\ def.version \in Nat
  BY <1>1, NextRunType DEF IndInv, TypeOK, Rows
<1>5. /\ def' \in Rows /\ def'.version = def.version + 1 /\ def'.cursor = to
      /\ def'.rule = def.rule /\ def'.status = "active" /\ def'.next = NextRun(r, to)
  <2>1. def' = [status |-> def.status, rule |-> def.rule, cursor |-> to,
                next |-> NextRun(r, to), version |-> def.version + 1]
    BY <1>2, <1>4, RowIsFunction
  <2> HIDE DEF to, r
  <2> QED
    BY <1>1, <1>4, <2>1 DEF Rows, Stamps
<1>6. new \subseteq Rules \X Nat
  BY <1>1, <1>2, PlannedInWindow
<1> HIDE DEF to, r
<1>7. \A z \in Sweepers : sweep'[z].phase = "planned" => sweep'[z] = sweep[z]
  BY <1>3 DEF IndInv, TypeOK, Idle
<1>8. TypeOK'
  <2>1. slots' \subseteq Rules \X Nat /\ skips' \subseteq slots'
    BY <1>2, <1>6 DEF IndInv, TypeOK
  <2>2. \A z \in Sweepers : sweep'[z] \in
               {Idle} \cup [phase : {"planned"}, now : Nat, rule : Rules, cursor : Stamps]
    BY <1>3 DEF IndInv, TypeOK
  <2> QED
    BY <1>1, <1>3, <1>5, <2>1, <2>2 DEF IndInv, TypeOK
<1>9. \A q \in Requests : Pending(q)' => Pending(q) /\ request'[q] = request[q]
                                         /\ request[q].version <= def.version
                                         /\ request[q].version \in Nat
  BY <1>3, RequestType DEF Pending, IndInv, RequestsKnow
<1>10. RequestsKnow'
  BY <1>3, <1>4, <1>5, <1>9 DEF IndInv, RequestsKnow
<1>11. SweepsKnow'
  <2> SUFFICES ASSUME NEW z \in Sweepers, sweep'[z].phase = "planned"
               PROVE  /\ sweep'[z].cursor # Never
                      /\ sweep'[z].cursor <= sweep'[z].now /\ sweep'[z].now <= clock
                      /\ sweep'[z].cursor <= to
                      /\ ~ tie /\ to = sweep'[z].cursor => sweep'[z].rule = def.rule
    BY <1>3, <1>5 DEF SweepsKnow
  <2>1. sweep'[z] = sweep[z] /\ sweep[z].phase = "planned"
    BY <1>7
  <2>2. sweep[z].cursor \in Nat /\ sweep[z].cursor <= def.cursor
    BY <2>1, <1>1, SweepType DEF IndInv, SweepsKnow, Stamps
  <2>3. ~ tie /\ to = sweep[z].cursor => sweep[z].rule = def.rule
    BY <2>1, <2>2, <1>1 DEF IndInv, SweepsKnow
  <2> QED
    BY <2>1, <2>2, <2>3, <1>1 DEF IndInv, SweepsKnow
<1>12. CursorKnows'
  <2>1. restarted \in Nat /\ restarted <= def.cursor
    BY <1>1 DEF IndInv, TypeOK, CursorKnows
  <2> QED
    BY <2>1, <1>1, <1>3, <1>5 DEF CursorKnows
<1>13. NotYet' /\ NothingWithoutRepair'
  BY <1>1, <1>3, <1>5, DefinitionExists DEF NotYet, NothingWithoutRepair
<1>14. NoInstantStranded'
  BY <1>1, <1>3, <1>4, <1>5 DEF NoInstantStranded, Stamps
<1> QED
  BY <1>8, <1>10, <1>11, <1>12, <1>13, <1>14 DEF IndInv

\* A refused or lost sweep writes nothing.
LEMMA SweepEndsIndInv ==
    ASSUME IndInv, NEW s \in Sweepers, sweep' = [sweep EXCEPT ![s] = Idle],
           UNCHANGED <<repaired, clock, orgActive, def, slots, skips, manual, request, past>>
    PROVE  IndInv'
<1>1. \A z \in Sweepers : sweep'[z].phase = "planned" => sweep'[z] = sweep[z]
  BY DEF IndInv, TypeOK, Idle
<1>2. UNCHANGED <<restarted, last, tie>>
  BY DEF past
<1>3. TypeOK'
  BY <1>2 DEF IndInv, TypeOK
<1>4. SweepsKnow'
  BY <1>1, <1>2 DEF IndInv, SweepsKnow
<1>5. NotYet'
  BY <1>1 DEF IndInv, NotYet, Pending
<1>6. RequestsKnow' /\ CursorKnows' /\ NothingWithoutRepair' /\ NoInstantStranded'
  BY <1>2 DEF IndInv, RequestsKnow, CursorKnows, NothingWithoutRepair, NoInstantStranded,
     Pending
<1> QED
  BY <1>3, <1>4, <1>5, <1>6 DEF IndInv

\* Time passes, or the organization's state changes: what was known stays so.
LEMMA WorldIndInv == ASSUME IndInv, Tick \/ Lifecycle PROVE IndInv'
<1>1. /\ clock \in Nat /\ clock' \in Nat /\ clock <= clock' /\ orgActive' \in BOOLEAN
      /\ UNCHANGED <<repaired, def, slots, skips, manual, request, sweep, restarted, last, tie>>
  <2>1. clock \in Nat /\ orgActive \in BOOLEAN
    BY DEF IndInv, TypeOK
  <2>2. CASE Tick
    BY <2>1, <2>2 DEF Tick, past
  <2>3. CASE Lifecycle
    BY <2>1, <2>3 DEF Lifecycle, past
  <2> QED
    BY <2>2, <2>3
<1>2. TypeOK'
  BY <1>1 DEF IndInv, TypeOK
<1>3. RequestsKnow'
  <2> SUFFICES ASSUME NEW q \in Requests, Pending(q)
               PROVE  request[q].at <= clock'
    BY <1>1 DEF IndInv, RequestsKnow, Pending
  <2>1. request[q].at \in Nat /\ request[q].at <= clock
    BY RequestType DEF IndInv, RequestsKnow
  <2> QED
    BY <1>1, <2>1
<1>4. SweepsKnow'
  <2> SUFFICES ASSUME NEW s \in Sweepers, sweep[s].phase = "planned"
               PROVE  sweep[s].now <= clock'
    BY <1>1 DEF IndInv, SweepsKnow
  <2>1. sweep[s].now \in Nat /\ sweep[s].now <= clock
    BY SweepType DEF IndInv, SweepsKnow
  <2> QED
    BY <1>1, <2>1
<1>5. CursorKnows'
  BY <1>1 DEF IndInv, CursorKnows, TypeOK
<1>6. NotYet' /\ NothingWithoutRepair' /\ NoInstantStranded'
  BY <1>1 DEF IndInv, NotYet, NothingWithoutRepair, NoInstantStranded, Pending
<1> QED
  BY <1>2, <1>3, <1>4, <1>5, <1>6 DEF IndInv

\* Every step keeps it.
LEMMA NextIndInv == IndInv /\ [Next]_vars => IndInv'
<1> SUFFICES ASSUME IndInv, [Next]_vars PROVE IndInv'
  OBVIOUS
<1>1. ASSUME NEW q \in Requests, NEW kind \in Kinds, NEW r \in Rules, Arrive(q, kind, r)
      PROVE  IndInv'
  BY <1>1, ArriveIndInv
<1>2. ASSUME NEW q \in Requests, Handle(q) PROVE IndInv'
  <2>1. CASE RunNow(q) \/ Refused(q)
    <3>1. Pending(q) /\ Served(q) /\ UNCHANGED <<def, past>>
      BY <2>1 DEF RunNow, Refused, Finish, Finishing, Pending, Served
    <3> QED
      BY <3>1, ServedIndInv
  <2> QED
    BY <1>2, <2>1, PatchIndInv, RescheduleIndInv, PauseIndInv, ResumeIndInv, DeleteIndInv
    DEF Handle
<1>3. ASSUME NEW s \in Sweepers, Generate(s) PROVE IndInv'
  <2>1. CASE SweepRefused(s) \/ SweepLost(s)
    BY <2>1, SweepEndsIndInv DEF SweepRefused, SweepLost
  <2> QED
    BY <1>3, <2>1, SweepBeginIndInv, SweepCommitIndInv DEF Generate
<1>4. CASE Tick \/ Lifecycle
  BY <1>4, WorldIndInv
<1>5. ASSUME NEW t \in 0 .. clock, Create(t) PROVE IndInv'
  BY <1>5, CreateIndInv
<1>6. CASE UNCHANGED vars
  BY <1>6 DEF vars, past, IndInv, TypeOK, RequestsKnow, SweepsKnow, CursorKnows, NotYet,
     NothingWithoutRepair, NoInstantStranded, Pending
<1> QED
  BY <1>1, <1>2, <1>3, <1>4, <1>5, <1>6 DEF Next

-----------------------------------------------------------------------------
(***************************************************************************)
(* What follows from it.                                                   *)
(***************************************************************************)
\* The inductive invariant holds in every reachable state: the row, the rule's
\* history and what every invocation has read of them fit together.
THEOREM SpecIndInv == Spec => []IndInv
<1>1. Init => IndInv
  BY InitIndInv
<1>2. IndInv /\ [Next]_vars => IndInv'
  BY NextIndInv
<1> QED
  BY <1>1, <1>2, PTL DEF Spec

\* With INSERT_AUTOMATION_SQL as it stands no definition and no occurrence
\* ever comes to be, whatever is asked of create_automation.
THEOREM NothingIsCreated == Spec => []NothingWithoutRepair
<1>1. IndInv => NothingWithoutRepair
  BY DEF IndInv
<1> QED
  BY <1>1, SpecIndInv, PTL

\* The rows and invocations of the automation keep their types (0011's CHECK
\* constraints, and the locals of the handlers).
THEOREM SchedulesTypeCorrect == Spec => []TypeOK
<1>1. IndInv => TypeOK
  BY DEF IndInv
<1> QED
  BY <1>1, SpecIndInv, PTL

\* No due instant leaves the sight of the sweep's query: next_run_at of an
\* active automation is never past the first instant after its cursor, unless
\* there was a tie.
THEOREM NextRunInSight == Spec => []NoInstantStranded
<1>1. IndInv => NoInstantStranded
  BY DEF IndInv
<1> QED
  BY <1>1, SpecIndInv, PTL

\* The requests that leave the cursor alone or write the instant they were
\* received at.
LEMMA HandleCursor ==
    ASSUME IndInv, NEW q \in Requests, Handle(q)
    PROVE  \/ def'.cursor \in {def.cursor, Never}
           \/ def'.cursor = request[q].at /\ Current(q)
<1>1. def \in [{"status", "rule", "cursor", "next", "version"} ->
                  Statuses \cup Rules \cup Stamps \cup Nat]
  BY RowIsFunction DEF IndInv, TypeOK
<1>2. CASE Patch(q)
  BY <1>1, <1>2 DEF Patch
<1>3. CASE Reschedule(q)
  <2>1. Current(q)
    BY <1>3 DEF Reschedule, Finishing, VersionHolds, Current, Pending
  <2>2. def'.cursor \in {def.cursor, request[q].at}
    BY <1>1, <1>3 DEF Reschedule
  <2> QED
    BY <2>1, <2>2
<1>4. CASE Pause(q)
  BY <1>1, <1>4 DEF Pause
<1>5. CASE Resume(q)
  BY <1>1, <1>5 DEF Resume, Finishing, VersionHolds, Current, Pending
<1>6. CASE Delete(q)
  BY <1>1, <1>6 DEF Delete
<1>7. CASE RunNow(q) \/ Refused(q)
  BY <1>7 DEF RunNow, Refused
<1> QED
  BY <1>2, <1>3, <1>4, <1>5, <1>6, <1>7 DEF Handle

\* The cursor a sweep commits.
LEMMA SweepCursor ==
    ASSUME IndInv, NEW s \in Sweepers, SweepCommit(s)
    PROVE  def'.cursor = sweep[s].now
<1>1. def \in [{"status", "rule", "cursor", "next", "version"} ->
                  Statuses \cup Rules \cup Stamps \cup Nat]
  BY RowIsFunction DEF IndInv, TypeOK
<1> QED
  BY <1>1 DEF SweepCommit

\* The authoritative cursor of an automation never moves back, however the
\* batches of requests and sweeps interleave (advance_cursor_statement,
\* set_cursor_statement and the guards before them).
THEOREM CursorIsMonotone == Spec => CursorNeverRewinds
<1>1. ASSUME IndInv, [Next]_vars, def.cursor # Never, def'.cursor # Never
      PROVE  def'.cursor >= def.cursor
  <2> USE <1>1
  <2>1. def.cursor \in Nat /\ def.cursor = last
    BY DEF IndInv, TypeOK, Rows, Stamps, CursorKnows
  <2>2. ASSUME NEW q \in Requests, Handle(q) PROVE def'.cursor >= def.cursor
    <3>1. CASE def'.cursor \in {def.cursor, Never}
      BY <2>1, <3>1
    <3>2. CASE def'.cursor = request[q].at /\ Current(q)
      <4>1. request[q].at \in Nat /\ last <= request[q].at
        BY <3>2, RequestType DEF Current, IndInv, RequestsKnow
      <4> QED
        BY <2>1, <3>2, <4>1
    <3> QED
      BY <2>2, <3>1, <3>2, HandleCursor
  <2>3. ASSUME NEW s \in Sweepers, Generate(s) PROVE def'.cursor >= def.cursor
    <3>1. CASE SweepCommit(s)
      BY <2>1, <3>1, SweepCommitKnows, SweepCursor
    <3>2. CASE UNCHANGED def
      BY <2>1, <3>2
    <3> QED
      BY <2>3, <3>1, <3>2 DEF Generate, SweepBegin, SweepRefused, SweepLost
  <2>4. CASE UNCHANGED def
    BY <2>1, <2>4
  <2>5. ASSUME NEW t \in 0 .. clock, Create(t) PROVE FALSE
    BY <2>5 DEF Create, IndInv, NotYet
  <2> QED
    BY <2>2, <2>3, <2>4, <2>5 DEF Next, Arrive, Tick, Lifecycle, vars
<1>2. IndInv /\ [Next]_vars =>
          [def.cursor # Never /\ def'.cursor # Never => def'.cursor >= def.cursor]_vars
  BY <1>1
<1> QED
  BY <1>2, SpecIndInv, PTL DEF Spec, CursorNeverRewinds

\* A pass that loses its race writes nothing, and one that wins persists only
\* instants after the creation or the last restart of the cursor, already due,
\* of the revision in force or, after a tie, of the one it planned by
\* (generate_for_automation, assert_schedule_cursor_statement).
THEOREM NothingBackfilled == Spec => NoBackfill
<1> DEFINE Step == \A o \in slots' \ slots :
               /\ o[1] = def.rule \/ tie
               /\ restarted < o[2] /\ o[2] <= clock /\ def.status = "active"
<1>1. ASSUME IndInv, [Next]_vars PROVE Step
  <2> USE <1>1
  <2>1. ASSUME NEW s \in Sweepers, SweepCommit(s) PROVE Step
    <3>1. /\ sweep[s].now \in Nat /\ sweep[s].now <= clock /\ sweep[s].rule \in Rules
          /\ def.cursor \in Nat /\ sweep[s].cursor = def.cursor /\ def.cursor = last
          /\ (~ tie => sweep[s].rule = def.rule) /\ def.status = "active"
      BY <2>1, SweepCommitKnows
    <3>2. clock \in Nat /\ restarted \in Nat /\ restarted <= def.cursor
      BY <3>1 DEF IndInv, TypeOK, CursorKnows
    <3>3. slots' \ slots \subseteq
              {<<sweep[s].rule, i>> : i \in Planned(sweep[s].rule, def.cursor, sweep[s].now)}
      BY <2>1, <3>1 DEF SweepCommit
    <3>4. ASSUME NEW o \in slots' \ slots
          PROVE  (o[1] = def.rule \/ tie) /\ restarted < o[2] /\ o[2] <= clock
      <4>1. PICK i \in Planned(sweep[s].rule, def.cursor, sweep[s].now) :
                o = <<sweep[s].rule, i>>
        BY <3>3
      <4>2. i \in Nat /\ def.cursor < i /\ i <= sweep[s].now
        BY <3>1, <4>1, PlannedInWindow
      <4>3. o[1] = def.rule \/ tie
        BY <3>1, <4>1
      <4>4. restarted < o[2] /\ o[2] <= clock
        BY <3>1, <3>2, <4>1, <4>2
      <4> QED
        BY <4>3, <4>4
    <3> QED
      BY <3>1, <3>4
  <2>2. CASE UNCHANGED slots
    BY <2>2
  <2> QED
    BY <2>1, <2>2 DEF Next, Create, Arrive, Tick, Lifecycle, vars, Handle, Generate, Patch,
       Reschedule, Pause, Resume, Delete, RunNow, Refused, SweepBegin, SweepRefused, SweepLost
<1>2. IndInv /\ [Next]_vars => [Step]_vars
  BY <1>1
<1> QED
  BY <1>2, SpecIndInv, PTL DEF Spec, NoBackfill

-----------------------------------------------------------------------------
(***************************************************************************)
(* Leases, for any devices and any bounds.                                 *)
(***************************************************************************)
\* What an invocation has read of the occurrence: a state that is not final,
\* as the tests of every handler and the sweep's query ask for.
Seen(ops) ==
    [op : ops, at : 0 .. LeaseTime, state : States \ Terminal, version : 1 .. (MaxVersion - 1)]
CallsKnow ==
    /\ call \in [Devices -> {None} \cup Seen(Ops)]
    /\ expiring \in {None} \cup Seen({"expire"})

\* A lease row is made once, for the device that is told so, and it stays
\* active: nothing in the code can end it.
LeaseKnows ==
    /\ \/ lease = NoLease /\ granted = {}
       \/ lease.state = "active" /\ granted = {lease.holder}
    /\ occ.state \in {"leased", "started"} => lease.state = "active"

\* assert_run_link_absent_statement lets no start through.
NothingStarts == runs = {} /\ occ.state # "started"

LeaseInv == LeaseTypeOK /\ CallsKnow /\ LeaseKnows /\ NothingStarts

LEMMA LeaseInitially == LeaseInit => LeaseInv
<1> SUFFICES ASSUME LeaseInit PROVE LeaseInv
  OBVIOUS
<1>1. LeaseTypeOK
  BY LeaseConstants DEF LeaseInit, LeaseTypeOK, States
<1>2. CallsKnow
  BY DEF LeaseInit, CallsKnow
<1>3. LeaseKnows /\ NothingStarts
  BY DEF LeaseInit, LeaseKnows, NothingStarts
<1> QED
  BY <1>1, <1>2, <1>3 DEF LeaseInv

\* A compare-and-set on what an invocation has read.
LEMMA TransitionKeeps ==
    ASSUME LeaseInv, NEW ops, NEW seen \in Seen(ops), NEW next \in States, Transition(seen, next)
    PROVE  /\ occ' \in [state : States, version : 1 .. MaxVersion]
           /\ occ' = occ \/ (occ'.state = next /\ occ.state = seen.state)
BY LeaseConstants DEF Transition, Unmoved, LeaseInv, LeaseTypeOK, Seen

LEMMA LeaseStep == LeaseInv /\ [LeaseNext]_leaseVars => LeaseInv'
<1> SUFFICES ASSUME LeaseInv, [LeaseNext]_leaseVars
             PROVE  LeaseInv'
  OBVIOUS
<1> USE LeaseConstants
<1> USE DEF LeaseInv
<1>1. ASSUME NEW d \in Devices, NEW op \in Ops, Begin(d, op)
      PROVE  LeaseInv'
  <2>1. occ.state \notin Terminal
    BY <1>1 DEF Begin, Accepts, Ops, Terminal
  <2>2. [op |-> op, at |-> now, state |-> occ.state, version |-> occ.version] \in Seen(Ops)
    BY <1>1, <2>1 DEF Begin, LeaseTypeOK, Seen
  <2>3. CallsKnow'
    BY <1>1, <2>2 DEF Begin, CallsKnow
  <2> QED
    BY <1>1, <2>3 DEF Begin, LeaseTypeOK, LeaseKnows, NothingStarts
<1>2. ASSUME NEW d \in Devices, Claim(d)
      PROVE  LeaseInv'
  <2>1. call[d] \in Seen(Ops)
    BY <1>2 DEF Claim, CallsKnow, None
  <2>2. CallsKnow'
    BY <1>2 DEF Claim, Close, CallsKnow
  <2>3. CASE Claimable(d)
    <3>1. lease = NoLease /\ occ.version = call[d].version
      BY <2>3 DEF Claimable, Unmoved
    <3>2. LeaseTypeOK'
      BY <1>2, <2>1, <2>3, <3>1 DEF Claim, LeaseTypeOK, Seen, Record, States
    <3>3. LeaseKnows'
      BY <1>2, <2>3, <3>1 DEF Claim, LeaseKnows, NoLease
    <3>4. NothingStarts'
      BY <1>2, <2>3 DEF Claim, NothingStarts
    <3> QED
      BY <2>2, <3>2, <3>3, <3>4
  <2>4. CASE ~Claimable(d)
    BY <1>2, <2>2, <2>4 DEF Claim, LeaseTypeOK, LeaseKnows, NothingStarts
  <2> QED
    BY <2>3, <2>4
<1>3. ASSUME NEW d \in Devices, Renew(d)
      PROVE  LeaseInv'
  <2>1. call[d] \in Seen(Ops)
    BY <1>3 DEF Renew, CallsKnow, None
  <2>2. CallsKnow'
    BY <1>3 DEF Renew, Close, CallsKnow
  <2>3. /\ occ' \in [state : States, version : 1 .. MaxVersion]
        /\ occ' = occ \/ occ'.state = occ.state
    <3>1. CASE occ' = occ
      BY <3>1 DEF LeaseTypeOK
    <3>2. CASE occ' # occ
      <4>1. Transition(call[d], call[d].state) /\ call[d].state \in States
        BY <1>3, <2>1, <3>2 DEF Renew, Seen
      <4> QED
        BY <2>1, <4>1, TransitionKeeps
    <3> QED
      BY <3>1, <3>2
  <2> QED
    BY <1>3, <2>2, <2>3 DEF Renew, LeaseTypeOK, LeaseKnows, NothingStarts
<1>4. ASSUME NEW d \in Devices, Start(d)
      PROVE  LeaseInv'
  <2>1. CallsKnow'
    BY <1>4 DEF Start, Close, CallsKnow
  <2>2. ~LinkGuardHolds
    BY DEF LinkGuardHolds, NothingStarts
  <2> QED
    BY <1>4, <2>1, <2>2 DEF Start, LeaseTypeOK, LeaseKnows, NothingStarts
<1>5. ASSUME NEW d \in Devices, Settle(d)
      PROVE  LeaseInv'
  <2>1. call[d] \in Seen(Ops)
    BY <1>5 DEF Settle, CallsKnow, None
  <2>2. CallsKnow'
    BY <1>5 DEF Settle, Close, CallsKnow
  <2>3. /\ occ' \in [state : States, version : 1 .. MaxVersion]
        /\ occ' = occ \/ occ'.state = "failed"
    BY <1>5, <2>1, TransitionKeeps DEF Settle, LeaseTypeOK, States, Terminal
  <2> QED
    BY <1>5, <2>2, <2>3 DEF Settle, Record, LeaseTypeOK, LeaseKnows, NothingStarts
<1>6. ASSUME NEW d \in Devices, Release(d)
      PROVE  LeaseInv'
  <2>1. call[d] \in Seen(Ops)
    BY <1>6 DEF Release, CallsKnow, None
  <2>2. CallsKnow'
    BY <1>6 DEF Release, Close, CallsKnow
  <2>3. /\ occ' \in [state : States, version : 1 .. MaxVersion]
        /\ occ' = occ \/ occ'.state = "pending"
    BY <1>6, <2>1, TransitionKeeps DEF Release, LeaseTypeOK, States, Terminal
  <2> QED
    BY <1>6, <2>2, <2>3 DEF Release, Record, LeaseTypeOK, LeaseKnows, NothingStarts
<1>7. ASSUME ExpiryBegin
      PROVE  LeaseInv'
  <2>1. [op |-> "expire", at |-> now, state |-> occ.state, version |-> occ.version] \in Seen({"expire"})
    BY <1>7 DEF ExpiryBegin, Expired, LeaseTypeOK, Seen, States, Terminal
  <2>2. CallsKnow'
    BY <1>7, <2>1 DEF ExpiryBegin, CallsKnow
  <2> QED
    BY <1>7, <2>2 DEF ExpiryBegin, LeaseTypeOK, LeaseKnows, NothingStarts
<1>8. ASSUME ExpiryCommit
      PROVE  LeaseInv'
  <2>1. expiring \in Seen({"expire"})
    BY <1>8 DEF ExpiryCommit, CallsKnow
  <2>2. CallsKnow'
    BY <1>8 DEF ExpiryCommit, CallsKnow
  <2>3. AfterExpiry(expiring) \in {"ambiguous", "pending"}
    BY DEF AfterExpiry
  <2>4. /\ occ' \in [state : States, version : 1 .. MaxVersion]
        /\ occ' = occ \/ occ'.state \in {"ambiguous", "pending"}
    BY <1>8, <2>1, <2>3, TransitionKeeps DEF ExpiryCommit, LeaseTypeOK, States, Terminal
  <2> QED
    BY <1>8, <2>2, <2>4 DEF ExpiryCommit, Record, LeaseTypeOK, LeaseKnows, NothingStarts
<1>9. ASSUME Pass
      PROVE  LeaseInv'
  <2>1. now' \in 0 .. LeaseTime
    BY <1>9 DEF Pass, LeaseTypeOK
  <2>2. LeaseTypeOK'
    BY <1>9, <2>1 DEF Pass, LeaseTypeOK
  <2>3. CallsKnow'
    BY <1>9 DEF Pass, CallsKnow
  <2> QED
    BY <1>9, <2>2, <2>3 DEF Pass, LeaseKnows, NothingStarts
<1>10. ASSUME UNCHANGED leaseVars
       PROVE  LeaseInv'
  BY <1>10 DEF leaseVars, LeaseTypeOK, CallsKnow, LeaseKnows, NothingStarts
<1> QED
  BY <1>1, <1>2, <1>3, <1>4, <1>5, <1>6, <1>7, <1>8, <1>9, <1>10 DEF LeaseNext, Serve

LEMMA LeaseInvariant == LeaseSpec => []LeaseInv
BY LeaseInitially, LeaseStep, PTL DEF LeaseSpec

\* The rows of an occurrence and of its lease keep their types.
THEOREM LeasesTypeCorrect == LeaseSpec => []LeaseTypeOK
<1>1. LeaseInv => LeaseTypeOK
  BY DEF LeaseInv
<1> QED
  BY <1>1, LeaseInvariant, PTL

\* One device at most is ever told that it holds the occurrence.
THEOREM OneHolderAlways == LeaseSpec => []OneHolder
<1>1. LeaseInv => OneHolder
  <2> SUFFICES ASSUME LeaseInv PROVE OneHolder
    OBVIOUS
  <2>1. Cardinality(granted) <= 1
    <3>1. granted = {} \/ granted = {lease.holder}
      BY DEF LeaseInv, LeaseKnows
    <3>2. Cardinality({}) = 0 /\ Cardinality({lease.holder}) = 1
      BY FS_EmptySet, FS_Singleton
    <3> QED
      BY <3>1, <3>2
  <2> QED
    BY <2>1 DEF LeaseInv, LeaseKnows, OneHolder, NoLease
<1> QED
  BY <1>1, LeaseInvariant, PTL

\* No start is ever committed and no run linked to an occurrence, for the guard
\* of the batch asks for the link that the batch is there to make.
THEOREM NoOccurrenceStarts == LeaseSpec => []NothingStarts
<1>1. LeaseInv => NothingStarts
  BY DEF LeaseInv
<1> QED
  BY <1>1, LeaseInvariant, PTL

\* A settled occurrence stays settled, whatever was read before.
THEOREM SettledAlwaysStays == LeaseSpec => SettledStays
<1>1. LeaseInv /\ [LeaseNext]_leaseVars =>
          [occ.state \in Terminal => occ' = occ]_leaseVars
  <2> SUFFICES ASSUME LeaseInv, LeaseNext, occ.state \in Terminal
               PROVE  occ' = occ
    BY DEF LeaseInv
  <2>1. \A d \in Devices : call[d] # None => call[d] \in Seen(Ops)
    BY DEF LeaseInv, CallsKnow
  <2>2. \A d \in Devices : call[d] # None => ~Unmoved(call[d])
    BY <2>1 DEF Seen, Unmoved
  <2>3. expiring # None => ~Unmoved(expiring)
    BY DEF LeaseInv, CallsKnow, Seen, Unmoved
  <2> QED
    BY <2>2, <2>3 DEF LeaseNext, Serve, Begin, Claim, Claimable, Renew, Start, Settle, Release,
       ExpiryBegin, ExpiryCommit, Transition, Pass, None
<1> QED
  BY <1>1, LeaseInvariant, PTL DEF LeaseSpec, SettledStays

\* What a step may do once the occurrence has been claimed: nothing to the
\* lease and to who was told of it; and if the database rejects the malformed
\* lease updates, nothing to the occurrence either.
ClaimedStep ==
    lease.state = "active" =>
        /\ lease' = lease /\ granted' = granted
        /\ binding = "rejected" => UNCHANGED <<binding, occ, attempts, runs>>

\* Why an expired lease is never offered again (run lease_expired): whichever
\* way the database takes the lease updates, a lease never ends and no second
\* device is ever given the occurrence; if it rejects them, the occurrence is
\* stuck as it was claimed.
THEOREM ClaimedIsStuck == LeaseSpec => [][ClaimedStep]_leaseVars
<1>1. LeaseInv /\ [LeaseNext]_leaseVars => [ClaimedStep]_leaseVars
  <2> SUFFICES ASSUME LeaseInv, LeaseNext, lease.state = "active"
               PROVE  /\ lease' = lease /\ granted' = granted
                      /\ binding = "rejected" => UNCHANGED <<binding, occ, attempts, runs>>
    BY DEF ClaimedStep
  <2>1. lease # NoLease /\ runs = {}
    BY DEF LeaseInv, NothingStarts, NoLease
  <2> USE <2>1
  <2>2. ASSUME NEW d \in Devices, NEW op \in Ops, Begin(d, op)
        PROVE  UNCHANGED <<binding, occ, lease, attempts, runs, granted>>
    BY <2>2 DEF Begin
  <2>3. ASSUME NEW d \in Devices, Claim(d)
        PROVE  UNCHANGED <<binding, occ, lease, attempts, runs, granted>>
    BY <2>3 DEF Claim, Claimable
  <2>4. ASSUME NEW d \in Devices, Start(d)
        PROVE  UNCHANGED <<binding, occ, lease, attempts, runs, granted>>
    BY <2>4 DEF Start, LinkGuardHolds
  <2>5. ASSUME NEW d \in Devices, Renew(d) \/ Settle(d) \/ Release(d)
        PROVE  /\ UNCHANGED <<binding, lease, runs, granted>>
               /\ binding = "rejected" => UNCHANGED <<occ, attempts>>
    BY <2>5 DEF Renew, Settle, Release, LeaseUpdateRuns
  <2>6. ASSUME ExpiryBegin \/ Pass
        PROVE  UNCHANGED <<binding, occ, lease, attempts, runs, granted>>
    BY <2>6 DEF ExpiryBegin, Pass
  <2>7. ASSUME ExpiryCommit
        PROVE  /\ UNCHANGED <<binding, lease, runs, granted>>
               /\ binding = "rejected" => UNCHANGED <<occ, attempts>>
    BY <2>7 DEF ExpiryCommit, LeaseUpdateRuns
  <2> QED
    BY <2>2, <2>3, <2>4, <2>5, <2>6, <2>7 DEF LeaseNext, Serve
<1> QED
  BY <1>1, LeaseInvariant, PTL DEF LeaseSpec
=============================================================================
