---------------------------- MODULE MCRepeatDays ----------------------------
EXTENDS RepeatDays

\* The turn of a year, and the end of January before a February of 29 and of 28
\* days.
MCStarts == {DateTime(2023, 12, 24), DateTime(2024, 1, 28), DateTime(2022, 1, 28)}

\* A day in January.
MCJanuary == {DateTime(2024, 1, 10)}
=============================================================================
