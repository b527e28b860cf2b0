---------------------------- MODULE CronSchedule -----------------------------
(***************************************************************************)
(* The next run of a cron expression (internal/cron/schedule.go, Next): a  *)
(* search that jumps over the months, days and hours that do not match,    *)
(* over a local time with one change of its offset to UTC.                 *)
(*                                                                         *)
(* An instant is a count of minutes, and the wall clock shows the count of *)
(* minutes since the calendar's start that its hands and date stand for:   *)
(* the two differ by the offset.  A forward change leaves a gap of wall    *)
(* minutes that do not exist, a backward one repeats some.  Which instant  *)
(* Go's time.Date gives for such a minute depends on the zone: it tries    *)
(* the offset in force at the wall time read as UTC, which is the one of   *)
(* after the change east of Greenwich and of before it west.               *)
(* The length of hours, days, weeks, months is a parameter.                *)
(***************************************************************************)
EXTENDS Integers, Sequences, FiniteSetsExt

Seqs == INSTANCE SequencesExt

CONSTANTS
  Months,          \* the calendar: its months in order
  MinutesPerHour, HoursPerDay, DaysPerWeek,
  SearchYears,     \* nextSearchYears
  Expressions,     \* parsed expressions: the set of values of each field
  Zones,           \* local times: an instant, the change of the offset then, which reading
  Afters           \* the instants that are searched from

ASSUME CalendarAssumption ==
  /\ \A i \in DOMAIN Months : Months[i] \in [year : Nat, month : Nat, days : Nat \ {0}]
  /\ {MinutesPerHour, HoursPerDay, DaysPerWeek} \subseteq Nat \ {0}
  /\ SearchYears \in Nat

-----------------------------------------------------------------------------
(* The calendar and the clock.                                             *)

MinutesPerDay == HoursPerDay * MinutesPerHour

Days == Seqs!FlattenSeq([i \in DOMAIN Months |->
          [d \in 1..Months[i].days |->
             [year |-> Months[i].year, month |-> Months[i].month, day |-> d]]])

\* A calendar has a day, and its years never go back.  That the concatenation is
\* a sequence of days follows from CalendarAssumption, by induction on Months.
ASSUME DaysAssumption ==
  /\ Days \in Seq([year : Nat, month : Nat, day : Nat]) /\ Days # <<>>
  /\ \A i, j \in DOMAIN Days : i <= j => Days[i].year <= Days[j].year

\* What follows the calendar is a year too late for any search.
Beyond == [year |-> Days[Len(Days)].year + SearchYears + 1, month |-> 1, day |-> 1]

Wall(z, i) == IF i < z.at THEN i ELSE i + z.shift

DayNumber(w) == w \div MinutesPerDay
DateOf(w) == IF DayNumber(w) < Len(Days) THEN Days[DayNumber(w) + 1] ELSE Beyond
Hour(w)    == (w % MinutesPerDay) \div MinutesPerHour
Minute(w)  == w % MinutesPerHour
Weekday(w) == DayNumber(w) % DaysPerWeek

\* time.Date: an instant at which the wall clock shows w.  If there are two,
\* or none and the offset before and after the change give two readings, the
\* later east of Greenwich and the earlier west of it.
Date(z, w) ==
  LET readings == {w, w - z.shift}
      exact == {i \in readings : Wall(z, i) = w}
      candidates == IF exact = {} THEN readings ELSE exact
  IN  IF z.east THEN Max(candidates) ELSE Min(candidates)

ASSUME InputAssumption ==
  /\ \A e \in Expressions : {e.domStar, e.dowStar} \subseteq BOOLEAN
  /\ \A z \in Zones : z.at \in Nat /\ z.shift \in Int /\ z.shift >= -z.at /\ z.east \in BOOLEAN
  /\ Afters \subseteq Nat
  /\ \A z \in Zones, a \in Afters : DayNumber(Wall(z, a)) < Len(Days)

VARIABLES
  schedule,  \* the expression
  zone,      \* the location of after
  after,     \* the minute the search is for a later instant than
  aligned,   \* after has no seconds
  t,         \* the candidate
  result     \* "searching", "found" at t, or "none"

searchVars == <<schedule, zone, after, aligned, t, result>>

-----------------------------------------------------------------------------
(* The expression.                                                         *)

\* Vixie semantics: day of month or day of week, when both are restricted.
DayMatches(e, w) ==
  LET dom == DateOf(w).day \in e.dom
      dow == Weekday(w) \in e.dow
  IN  CASE e.domStar /\ e.dowStar -> TRUE
        [] e.domStar /\ ~e.dowStar -> dow
        [] ~e.domStar /\ e.dowStar -> dom
        [] OTHER -> dom \/ dow

Matches(e, w) ==
  /\ DateOf(w).month \in e.month
  /\ DayMatches(e, w)
  /\ Hour(w) \in e.hour
  /\ Minute(w) \in e.minute

\* Only an aligned after collapses the second instant of its own wall minute.
Repeated(z, i) == aligned /\ Wall(z, i) = Wall(z, after)

-----------------------------------------------------------------------------
(* The search.                                                             *)

SearchInit ==
  /\ schedule \in Expressions /\ zone \in Zones
  /\ after \in Afters /\ aligned \in BOOLEAN
  /\ t = after + 1
  /\ result = "searching"

InReach(i) == DateOf(Wall(zone, i)).year <= DateOf(Wall(zone, after)).year + SearchYears

NextMonth(w) ==
  LET rest == {d \in DayNumber(w)..(Len(Days) - 1) :
                 Days[d + 1].month # DateOf(w).month \/ Days[d + 1].year # DateOf(w).year}
  IN  MinutesPerDay * Min(rest \cup {Len(Days)})
NextDay(w) == MinutesPerDay * (DayNumber(w) + 1)

NextHourMutant(z, w) == Date(z, w) + MinutesPerHour

\* From the full hour, by absolute addition.
NextHour(z, w) == Date(z, w - Minute(w)) + MinutesPerHour

\* Where the loop jumps to from an instant that does not do.
Jump ==
  LET w == Wall(zone, t)
  IN  CASE DateOf(w).month \notin schedule.month -> Date(zone, NextMonth(w))
        [] DateOf(w).month \in schedule.month /\ ~DayMatches(schedule, w) ->
             Date(zone, NextDay(w))
        [] DateOf(w).month \in schedule.month /\ DayMatches(schedule, w)
             /\ Hour(w) \notin schedule.hour -> NextHour(zone, w)
        [] OTHER -> t + 1

ForwardMutant(i) == i

\* The forward-progress guard.
Forward(i) == IF i > t THEN i ELSE t + 1

Found == Matches(schedule, Wall(zone, t)) /\ ~Repeated(zone, t)

Advance ==
  /\ result = "searching" /\ InReach(t) /\ ~Found
  /\ t' = Forward(Jump)
  /\ UNCHANGED <<schedule, zone, after, aligned, result>>

Return ==
  /\ result = "searching"
  /\ \/ InReach(t) /\ Found /\ result' = "found"
     \/ ~InReach(t) /\ result' = "none"
  /\ UNCHANGED <<schedule, zone, after, aligned, t>>

SearchNext == Advance \/ Return

SearchSpec == SearchInit /\ [][SearchNext]_searchVars

\* A loop runs on.
FairSearchSpec == SearchSpec /\ WF_searchVars(SearchNext)

-----------------------------------------------------------------------------
(* Properties.                                                             *)

IsDue(i) == Matches(schedule, Wall(zone, i)) /\ ~Repeated(zone, i)

\* On the hour, an hour back or any hours forward; east of Greenwich, with no midnight
\* strictly inside the gap.
OnTheHour(z) ==
  /\ z.at % MinutesPerHour = 0 /\ z.shift % MinutesPerHour = 0
  /\ z.shift >= -MinutesPerHour
  /\ z.east => \A m \in (z.at + 1)..(z.at + z.shift - 1) : m % MinutesPerDay # 0

(* No jump misses a run: wherever the search is, every matching minute     *)
(* between after and the candidate is still ahead or was after's own; so   *)
(* the answer is the first scheduled minute of the wall clock, and none is *)
(* given only when there is none.  A minute that the clock shows twice may *)
(* be answered with its second instant (schedule.go, Next).                *)
NothingSkipped ==
  \A i \in (after + 1)..(t - 1) :
    IsDue(i) => \E u \in {i + zone.shift, i - zone.shift} :
                u >= t /\ Wall(zone, u) = Wall(zone, i)

(* The search ends, also when a wall-clock jump lands in a gap or goes     *)
(* back over a repeated hour.                                              *)
SearchEnds == <>(result # "searching")

(* "Next returns the first scheduled instant strictly after `after`"       *)
(* (schedule.go, Next).                                                    *)
FirstInstant ==
  result = "found" => \A i \in (after + 1)..(t - 1) : ~IsDue(i)

(* The fall-back guard "collapses the repeated hour to one fire" when      *)
(* after is the last fire time (schedule.go, Next): a fire at the second   *)
(* instant of a minute is not preceded by one at the first.                *)
RepeatedHourOnce ==
  result = "found" /\ aligned /\ Matches(schedule, Wall(zone, after)) =>
    \A i \in 0..after : Wall(zone, i) # Wall(zone, t)
=============================================================================
