------------------------------- MODULE Intent -------------------------------
(***************************************************************************)
(* The deadline an intent asks for (src/src/closeloop/outcomes.py,         *)
(* interpret_cancellation_request).  Time is counted in half minutes from  *)
(* a Monday, 00:00 UTC; a deadline is counted from the moment of the       *)
(* request.  Of the sentence only what it says of a deadline is kept: no   *)
(* other wish about time is understood.                                    *)
(***************************************************************************)
EXTENDS Integers

Day == 2880
Unlimited == -1                    \* no deadline (None)

Wishes == {"none", "tomorrow", "friday", "next_friday"}

\* As Python counts them, from Monday.
Weekday(moment) == (moment \div Day) % 7
Friday == 4

\* On a Friday, the one a week later.
DaysToFriday(moment) ==
  LET days == (Friday - Weekday(moment)) % 7 IN IF days = 0 THEN 7 ELSE days

DaysAhead(wish, moment) ==
  CASE wish = "friday"      -> DaysToFriday(moment)
    [] wish = "next_friday" -> DaysToFriday(moment) + 7
    [] wish = "tomorrow"    -> 1

\* The midnight at which the day begins that was asked for.
DeadlineRead(wish, moment) ==
  IF wish = "none" THEN Unlimited
  ELSE (moment \div Day + DaysAhead(wish, moment)) * Day - moment
=============================================================================
