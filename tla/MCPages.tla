------------------------------ MODULE MCPages -------------------------------
(* The pages, and days of four hours in zones that change by one.          *)
EXTENDS Pages

Hours == -8..16
Cal == INSTANCE Calendar WITH DayLength <- 4, Instants <- Hours
Zones == {Cal!Zone(old, old + d, from) : old \in -2..2, d \in {-1, 0, 1}, from \in 0..8}

ASSUME BoundsAreTheDay == \A zone \in Zones, day \in 0..2 : Cal!BoundsAreTheDay(zone, day)
ASSUME NotEveryDayHasBounds ==
  \A d \in {-1, 1} : \E from \in 0..8 : ~Cal!HasBounds(Cal!Zone(0, d, from), 1)
=============================================================================
