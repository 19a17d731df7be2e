------------------------------ MODULE MCStdLog ------------------------------
(* An instance of StdLog for TLC: the file and the printer of NewFileLogger *)
(* as one sink, and a Telegram handler for the higher level.               *)
EXTENDS StdLog, TLC

CONSTANTS file, telegram

BothHandlers == {"everything", "alarms"}
BothSinks == "everything" :> file @@ "alarms" :> telegram
BothThresholds == "everything" :> NoLevel @@ "alarms" :> 2
TwoLevels == {1, 2}
=============================================================================
