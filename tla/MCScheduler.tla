---------------------------- MODULE MCScheduler ----------------------------
EXTENDS Scheduler

\* The run and the prune are daily, six units a day, and one unit apart; the
\* Curator is due every other day, together with the prune, and its cron ends.
ThreeJobs == <<{1, 7, 13, 19}, {2, 8, 14, 20}, {2, 14}>>
=============================================================================
