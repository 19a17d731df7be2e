------------------------------- MODULE StdLog -------------------------------
(***************************************************************************)
(* A logger of src/logger.go as the output of the standard log package     *)
(* (WithStdLogRedirect of src/filelogger.go, or Logger.StdLog).  Println   *)
(* holds the mutex of log.Logger, and within it that of WriterAs, through  *)
(* the whole WriteLog.  A sink of this logger may call Println from inside *)
(* its Write, once: the Telegram handler does, by its deferred CloseOrLog. *)
(* The configuration is the one the logger was built with.                 *)
(***************************************************************************)
EXTENDS Logger

CONSTANTS
    MinLevel,       \* the minimum level the logger is built with
    RedirectLevel   \* the level of what the standard logger prints

ASSUME StdLogAssumption == {MinLevel, RedirectLevel} \subseteq Levels

VARIABLES
    outMu,      \* the call that holds the two mutexes, or NoCall
    spoke       \* call -> its sinks whose running Write has called Println

std == <<outMu, spoke>>
stdVars == <<vars, std>>

StdInit ==
    /\ Init /\ minimumLogLevel = MinLevel
    /\ outMu = NoCall
    /\ spoke = [c \in Calls |-> {}]

-----------------------------------------------------------------------------
PrintlnFrom(c, from) ==
    /\ Begin(c, "WriteLog", RedirectLevel, from)
    /\ GoTo(c, "println")
    /\ UNCHANGED outMu

\* log.Println, or a Println of a *log.Logger over the same writer.
Println(c) == PrintlnFrom(c, NoCall) /\ UNCHANGED spoke

\* The sink of p's write of t finds an error as it closes what it has used.
CloseOrLog(c) ==
    \E p \in Calls : \E t \in writing[p] \ spoke[p] :
        /\ t.w.sink \in Reentrant
        /\ PrintlnFrom(c, [call |-> p, target |-> t])
        /\ spoke' = [spoke EXCEPT ![p] = @ \cup {t}]

OutLock(c) ==
    /\ At(c, "println") /\ outMu = NoCall
    /\ outMu' = c
    /\ GoTo(c, "rlock")
    /\ UNCHANGED <<config, readers, writer, locked, up, op, level, parent, delivery, spoke>>

\* Mutant: the mutex is released by a return only.
OutUnlockOnReturn(c) ==
    outMu' = IF outMu = c /\ pc[c] = "return" THEN NoCall ELSE outMu

\* Both mutexes are released by a defer, that is by a panic as well.
OutUnlock(c) ==
    outMu' = IF outMu = c /\ pc[c] \in {"return", "unwind"} THEN NoCall ELSE outMu

StdAdvance(c) == Advance(c) /\ OutUnlock(c) /\ UNCHANGED spoke

StdEnter(c) == EnterSome(c) /\ UNCHANGED std

StdLeave(c) ==
    /\ LeaveSome(c)
    /\ spoke' = [spoke EXCEPT ![c] = @ \cap writing'[c]]
    /\ UNCHANGED outMu

StdNext ==
    \E c \in Calls :
        \/ CallWriteLog(c) /\ UNCHANGED std
        \/ Println(c) \/ CloseOrLog(c)
        \/ OutLock(c) \/ StdAdvance(c) \/ StdEnter(c) \/ StdLeave(c)

\* As in Logger; the mutex of log.Logger is a sync.Mutex like those of the sinks.
StdFairness ==
    \A c \in Calls :
        /\ WF_stdVars(StdAdvance(c) \/ StdLeave(c))
        /\ SF_stdVars(OutLock(c) \/ StdEnter(c))

StdSpec == StdInit /\ [][StdNext]_stdVars /\ StdFairness

-----------------------------------------------------------------------------
\* Who holds the mutexes of the standard logger is delivering at its level; a
\* Write that has called Println is still running.
StdTypeOK ==
    /\ outMu \in Calls \cup {NoCall}
    /\ outMu # NoCall =>
         /\ pc[outMu] \in {"rlock", "match", "deliver", "return", "unwind"}
         /\ level[outMu] = RedirectLevel
    /\ \A c \in Calls : spoke[c] \subseteq writing[c]

\* Every Println and every other log call returns, although the mutex of the
\* standard logger is held around the read lock and the mutexes of the sinks,
\* and a sink asks for it while its own is held: the circle never closes as long
\* as no message at RedirectLevel goes to a sink that calls Println.
EveryPrintlnReturns == \A c \in Calls : pc[c] # "idle" ~> (pc[c] = "idle" \/ ~up)
=============================================================================
