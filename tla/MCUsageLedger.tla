--------------------------- MODULE MCUsageLedger ---------------------------
(***************************************************************************)
(* Two days of one month; two models.                                      *)
(***************************************************************************)
EXTENDS UsageLedger

MCModels == {"mock:a", "openai:b"}
MCDates == {1, 2}
MCPeriods == {"day1", "day2", "month"}
MCPeriodsOf == <<{"day1", "month"}, {"day2", "month"}>>
MCSymmetry == Permutations(Tasks)
=============================================================================
