----------------------------- MODULE MCPlanner -----------------------------
\* Model checking of Planner; the configuration gives the limits.
EXTENDS Planner
=============================================================================
