------------------------------ MODULE MCLogger ------------------------------
(* Instances of Logger for TLC: which handlers the logger is built with.   *)
EXTENDS Logger, TLC

CONSTANTS file, raw      \* a sink of this package and one that is not

\* Handlers on both sinks, the second with a threshold of its own.
TwoHandlers == {"plain", "leveled"}
TwoHandlerSink == "plain" :> raw @@ "leveled" :> file
SwappedSink == "plain" :> file @@ "leveled" :> raw
TwoHandlerMin == "plain" :> NoLevel @@ "leveled" :> 2

\* A single handler on the raw sink.
OneHandler == {"plain"}
OneHandlerSink == "plain" :> raw
OneHandlerMin == "plain" :> NoLevel

TwoLevels == {1, 2}
OneLevel == {1}

CallSymmetry == Permutations(Calls)
=============================================================================
