------------------------------ MODULE MCTimeLog ------------------------------
(* The two loggers of src/log for TLC: timeRollLogger (TimeLog) and       *)
(* Logger with its manager (Logger).  They share no state, so a behaviour  *)
(* exercises one of them, chosen in the initial state, while the other     *)
(* stays as its initialisation left it.  For TimeLog an empty text and a   *)
(* text of three characters, so that an entry fits the line buffer, fills  *)
(* it exactly or overflows it.                                             *)
EXTENDS TimeLog, Logger, TLC

MCTexts == {<<>>, <<"a", "b", "c">>}

VARIABLE part   \* the component this behaviour exercises

MCInit == part \in {"timelog", "logger"} /\ Init /\ LogInit

MCNext ==
  \/ part = "timelog" /\ Next /\ UNCHANGED <<logVars, part>>
  \/ part = "logger" /\ LogNext /\ UNCHANGED <<vars, part>>

MCSpec == MCInit /\ [][MCNext]_<<vars, logVars, part>> /\ Fairness

\* the behaviours of timeRollLogger alone
TimeLogSpec == part = "timelog" /\ MCSpec
==============================================================================
