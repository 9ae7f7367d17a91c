------------------------- MODULE MCScheduleService -------------------------
(* Small instances of ScheduleService for TLC. *)
EXTENDS ScheduleService, TLC

CONSTANTS a, b

\* a submits work, b depends on the run.
BothWork     == [i \in Items |-> "submit_baa"]
WorkAndMail  == [i \in Items |-> IF i = a THEN "submit_baa" ELSE "gmail_alert"]
WorkAndNote  == [i \in Items |-> IF i = a THEN "submit_baa" ELSE "reminder_only"]
EveryTick    == [i \in Items |-> 1]
EachOther    == [i \in Items |-> IF i = a THEN 1 ELSE 2]
Rare         == [i \in Items |-> IF i = a THEN 2 ELSE 0]
Once         == [i \in Items |-> 0]
AtZero       == [i \in Items |-> 0]
Never        == [i \in Items |-> None]
TwiceA       == [i \in Items |-> IF i = a THEN 2 ELSE None]
=============================================================================
