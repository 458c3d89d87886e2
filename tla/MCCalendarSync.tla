--------------------------- MODULE MCCalendarSync ---------------------------
(* Model values for CalendarSync's tasks.                                  *)
EXTENDS CalendarSync
CONSTANTS t1, t2
=============================================================================
