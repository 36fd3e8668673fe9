----------------------------- MODULE MCReminder -----------------------------
(* A rent of one day and one of two, days of four hours, half-hour ticks,  *)
(* and a run every hour and a half: the longest period below two hours.    *)
EXTENDS Reminder

CONSTANTS short, long

MCRents == {short, long}
MCDuration == [r \in MCRents |-> IF r = short THEN 1 ELSE 2]
=============================================================================
