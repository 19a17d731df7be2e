---------------------------- MODULE StdLogProofs ----------------------------
(***************************************************************************)
(* A proof about StdLog for every set of calls, sinks, handlers and levels *)
(* and every level of the redirection.  StdInv is the inductive invariant: *)
(* nobody changes the configuration, so that who holds the mutexes of the  *)
(* standard logger never waits for the read lock, and a call that waits    *)
(* for them has the level of the redirection already.                      *)
(***************************************************************************)
EXTENDS StdLog, TLAPS

StdInv ==
    /\ StdTypeOK
    /\ writer = NoCall
    /\ pc \in [Calls -> Labels \cup {"println"}]
    /\ level \in [Calls -> Levels \cup {NoLevel}]
    /\ DOMAIN writing = Calls /\ DOMAIN spoke = Calls
    /\ writing = [c \in Calls |-> writing[c]] /\ spoke = [c \in Calls |-> spoke[c]]
    /\ \A c \in Calls : pc[c] = "println" => level[c] = RedirectLevel

\* A step of a call that leaves it on its way and its level alone, if it holds the mutexes,
\* keeps who holds them.
LEMMA HolderKept ==
    ASSUME StdInv, NEW c \in Calls, NEW to \in Labels \cup {"println"}, outMu' = outMu,
           pc' = [pc EXCEPT ![c] = to],
           \A d \in Calls \ {c} : level'[d] = level[d],
           outMu = c => /\ to \in {"rlock", "match", "deliver", "return", "unwind"}
                        /\ level'[c] = level[c]
    PROVE  outMu' # NoCall =>
               /\ pc'[outMu'] \in {"rlock", "match", "deliver", "return", "unwind"}
               /\ level'[outMu'] = RedirectLevel
  BY DEF StdInv, StdTypeOK

\* A call begins: it holds nothing.
LEMMA StdBegins ==
    ASSUME StdInv, NEW c \in Calls, NEW o, NEW lv \in Levels, NEW from,
           NEW to \in {"rlock", "println"}, to = "println" => lv = RedirectLevel,
           Begin(c, o, lv, from), GoTo(c, to), outMu' = outMu,
           DOMAIN spoke' = Calls, spoke' = [d \in Calls |-> spoke'[d]],
           \A d \in Calls : spoke'[d] \subseteq writing[d]
    PROVE  StdInv'
<1>1. /\ pc[c] = "idle" /\ pc' = [pc EXCEPT ![c] = to] /\ level' = [level EXCEPT ![c] = lv]
      /\ UNCHANGED <<writer, writing>>
  BY DEF Begin, At, GoTo, delivery
<1>2. outMu # c
  BY <1>1, LoggerAssumption DEF StdInv, StdTypeOK
<1>3. StdTypeOK'
  <2>1. to \in Labels \cup {"println"} /\ \A d \in Calls \ {c} : level'[d] = level[d]
    BY <1>1 DEF Labels, StdInv
  <2>2. QED
    BY <1>1, <1>2, <2>1, HolderKept DEF StdInv, StdTypeOK
<1>4. QED
  BY <1>1, <1>3 DEF StdInv, Labels

\* Every step keeps StdInv.
LEMMA StdStep == ASSUME StdInv, [StdNext]_stdVars PROVE StdInv'
<1>1. CASE UNCHANGED stdVars
  BY <1>1 DEF stdVars, std, vars, delivery, StdInv, StdTypeOK
<1>2. ASSUME NEW c \in Calls, CallWriteLog(c), UNCHANGED std PROVE StdInv'
  <2>1. PICK lv \in Levels : Begin(c, "WriteLog", lv, NoCall) /\ GoTo(c, "rlock")
    BY <1>2 DEF CallWriteLog
  <2>2. QED
    BY <1>2, <2>1, StdBegins DEF Begin, delivery, std, StdInv, StdTypeOK
<1>3. ASSUME NEW c \in Calls, Println(c) PROVE StdInv'
  BY <1>3, StdBegins, StdLogAssumption DEF Println, PrintlnFrom, StdInv, StdTypeOK
<1>4. ASSUME NEW c \in Calls, CloseOrLog(c) PROVE StdInv'
  <2>0. PICK p \in Calls : \E t \in writing[p] \ spoke[p] :
            /\ PrintlnFrom(c, [call |-> p, target |-> t])
            /\ spoke' = [spoke EXCEPT ![p] = @ \cup {t}]
    BY <1>4 DEF CloseOrLog
  <2>1. PICK t \in writing[p] \ spoke[p] :
            /\ PrintlnFrom(c, [call |-> p, target |-> t])
            /\ spoke' = [spoke EXCEPT ![p] = @ \cup {t}]
    BY <2>0
  <2>2. /\ DOMAIN spoke' = Calls /\ spoke' = [d \in Calls |-> spoke'[d]]
        /\ \A d \in Calls : spoke'[d] \subseteq writing[d]
    BY <2>1 DEF StdInv, StdTypeOK
  <2>3. QED
    BY <2>1, <2>2, StdBegins, StdLogAssumption DEF PrintlnFrom
<1>5. ASSUME NEW c \in Calls, OutLock(c) PROVE StdInv'
  BY <1>5, LoggerAssumption DEF OutLock, At, GoTo, delivery, StdInv, StdTypeOK, Labels
<1>6. ASSUME NEW c \in Calls, StdAdvance(c) PROVE StdInv'
  <2>1. UNCHANGED <<writer, writing, spoke>> /\ OutUnlock(c) /\ Advance(c)
    BY <1>6 DEF StdAdvance, Advance, RLock, Match, Wait, Return, Unwind, RUnlock, Recovered, delivery
  <2>2. PICK to \in Labels :
            /\ pc' = [pc EXCEPT ![c] = to]
            /\ \/ pc[c] \in {"return", "unwind"} /\ level' = [level EXCEPT ![c] = NoLevel]
                  /\ to \in {"idle", "panicked"}
               \/ pc[c] \in {"rlock", "match", "deliver"} /\ to \in {"match", "deliver", "return"}
                  /\ level' = level
               \/ pc[c] = "panicked" /\ to = "idle" /\ level' = level
    BY <2>1 DEF StdInv, Advance, RLock, Match, Wait, Return, Unwind, RUnlock, Recovered, At, GoTo, Labels
  <2>3. \A d \in Calls \ {c} : level'[d] = level[d]
    BY <2>2 DEF StdInv
  <2>4. CASE outMu = c /\ pc[c] \in {"return", "unwind"}
    BY <2>1, <2>2, <2>3, <2>4, LoggerAssumption DEF OutUnlock, StdInv, StdTypeOK, Labels
  <2>5. CASE ~ (outMu = c /\ pc[c] \in {"return", "unwind"})
    <3>1. outMu' = outMu
      BY <2>1, <2>5 DEF OutUnlock
    <3>2. outMu = c => to \in {"match", "deliver", "return"} /\ level'[c] = level[c]
      BY <2>2, <2>5, LoggerAssumption DEF StdInv, StdTypeOK
    <3>3. StdTypeOK'
      BY <2>1, <2>2, <2>3, <3>1, <3>2, HolderKept DEF StdInv, StdTypeOK
    <3>4. QED
      BY <2>1, <2>2, <2>3, <3>3 DEF StdInv, Labels
  <2>6. QED
    BY <2>4, <2>5
<1>7. ASSUME NEW c \in Calls, StdEnter(c) PROVE StdInv'
  <2>1. PICK t \in plan[c] : writing' = [writing EXCEPT ![c] = @ \cup {t}]
    BY <1>7 DEF StdEnter, EnterSome, Enter
  <2>2. UNCHANGED <<writer, pc, level, outMu, spoke>>
    BY <1>7 DEF StdEnter, EnterSome, Enter, std
  <2>3. QED
    BY <2>1, <2>2 DEF StdInv, StdTypeOK
<1>8. ASSUME NEW c \in Calls, StdLeave(c) PROVE StdInv'
  <2>1. PICK t \in writing[c] : SinkAccepts(c, t) \/ SinkFails(c, t) \/ SinkPanics(c, t)
    BY <1>8 DEF StdLeave, LeaveSome
  <2>2. /\ writing' = [writing EXCEPT ![c] = @ \ {t}] /\ UNCHANGED <<writer, level>>
        /\ pc[c] = "deliver"
        /\ pc' = pc \/ pc' = [pc EXCEPT ![c] = "unwind"]
    BY <2>1 DEF SinkAccepts, SinkFails, SinkPanics, Leave, At, GoTo
  <2>3. spoke' = [spoke EXCEPT ![c] = @ \cap writing'[c]] /\ outMu' = outMu
    BY <1>8 DEF StdLeave
  <2>4. PICK to \in {"deliver", "unwind"} : pc' = [pc EXCEPT ![c] = to]
    BY <2>2 DEF StdInv
  <2>5. StdTypeOK'
    BY <2>2, <2>3, <2>4, HolderKept DEF StdInv, StdTypeOK, Labels
  <2>6. QED
    BY <2>2, <2>3, <2>4, <2>5 DEF StdInv, Labels
<1>9. QED
  BY <1>1, <1>2, <1>3, <1>4, <1>5, <1>6, <1>7, <1>8 DEF StdNext

\* The mutexes of the standard logger have one holder, which has the level of the
\* redirection and is on its way through WriteLog: no return and no panic leaves them
\* locked, and no holder waits for a change of the configuration.
THEOREM HolderDelivers == StdSpec => []StdTypeOK
<1>1. StdInit => StdInv
  BY DEF StdInit, Init, StdInv, StdTypeOK, Labels
<1>2. StdInv /\ [StdNext]_stdVars => StdInv'
  BY StdStep
<1>3. StdInv => StdTypeOK
  BY DEF StdInv
<1>4. QED
  BY <1>1, <1>2, <1>3, PTL DEF StdSpec
=============================================================================
