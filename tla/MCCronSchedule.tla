--------------------------- MODULE MCCronSchedule ----------------------------
(* CronSchedule on a small calendar: two months a year, the second a day   *)
(* longer in the second year; days of three hours of two minutes.          *)
EXTENDS CronSchedule

MCMonths == <<[year |-> 1, month |-> 1, days |-> 2], [year |-> 1, month |-> 2, days |-> 1],
              [year |-> 2, month |-> 1, days |-> 2], [year |-> 2, month |-> 2, days |-> 2],
              [year |-> 3, month |-> 1, days |-> 2]>>

\* Day 3 never comes, day 2 of month 2 in one year only.
MCExpressions ==
  {[minute |-> m, hour |-> h, dom |-> d, month |-> mo, dow |-> w,
    domStar |-> d = 1..3, dowStar |-> w = {0, 1}] :
     m \in {{0}, {1}, {0, 1}}, h \in {{0}, {1}, {2}, {0, 2}, {0, 1, 2}},
     d \in {{1}, {2}, {3}, 1..3}, mo \in {{1}, {2}, {1, 2}}, w \in {{1}, {0, 1}}}

\* No change; an hour, forward or back, at the hours around a midnight.
MCZones ==
  {[at |-> 0, shift |-> 0, east |-> FALSE]}
    \cup {[at |-> i, shift |-> s, east |-> e] :
            i \in {6, 8, 10}, s \in {2, -2}, e \in BOOLEAN}

\* A change of half an hour, as on Lord Howe Island.
MCHalfHour == {[at |-> 8, shift |-> s, east |-> TRUE] : s \in {1, -1}}

MCAfters == 0..12
=============================================================================
