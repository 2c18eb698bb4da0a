------------------------------ MODULE Calendar ------------------------------
(***************************************************************************)
(* Days of a time zone (src/core/time.rs): a digest is of the local day of *)
(* an instant, and the page of a day looks for the runs between two        *)
(* instants.  An instant is a number of hours; a zone is, for each of      *)
(* them, what is to be added to read a local clock.  A day has DayLength   *)
(* hours on that clock, and a zone may change once.                        *)
(***************************************************************************)
EXTENDS Integers

CONSTANTS DayLength, Instants

\* before the hour `from` the offset is `old`, then `new`.
Zone(old, new, from) == [t \in Instants |-> IF t < from THEN old ELSE new]

Local(zone, t) == t + zone[t]

\* date_in_zone
DateInZone(zone, t) == Local(zone, t) \div DayLength

\* from_local_datetime(midnight).single(): none when the clock skips it or shows it twice.
Midnights(zone, day) == {t \in Instants : Local(zone, t) = day * DayLength}
Single(zone, day) == \E t \in Instants : Midnights(zone, day) = {t}
MidnightOf(zone, day) == CHOOSE t \in Midnights(zone, day) : TRUE

\* day_bounds_utc: the two instants, or nothing.
HasBounds(zone, day) == Single(zone, day) /\ Single(zone, day + 1)
DayBounds(zone, day) == [from |-> MidnightOf(zone, day), to |-> MidnightOf(zone, day + 1)]

(* The runs the page of a day finds are those of which the day is the date *)
(* of a digest, in a zone that changes too: a day of 23 or 25 hours has    *)
(* them all.  (A day whose own or whose next midnight a change skips or     *)
(* shows twice has no bounds, and its page says that it is no date.)       *)
BoundsAreTheDay(zone, day) ==
  HasBounds(zone, day) =>
    \A t \in Instants :
      DateInZone(zone, t) = day <=> DayBounds(zone, day).from <= t /\ t < DayBounds(zone, day).to

=============================================================================
