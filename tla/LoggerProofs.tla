---------------------------- MODULE LoggerProofs ----------------------------
(***************************************************************************)
(* Proofs about Logger for every set of calls, sinks, handlers and levels. *)
(* IInv is the inductive invariant.  Its parts:                            *)
(*   LockInv    who holds l.m is visible in pc                             *)
(*   FrameInv   the sets of one WriteLog call fit together                 *)
(*   HookInv    hooks have fresh IDs, one entry per level, a wrapped sink  *)
(*   MutexInv   a running sink write holds its mutexes, alone              *)
(* and DeliveryMatchesConfig itself, which needs LockInv to be inductive:  *)
(* the configuration only changes while nobody holds the read lock.        *)
(***************************************************************************)
EXTENDS Logger, TLAPS

ReadPhases == {"match", "deliver", "return", "unwind"}

LockInv ==
    \A c \in Calls :
        /\ c \in readers <=> pc[c] \in ReadPhases
        /\ pc[c] = "drain" <=> writer = c

FrameInv ==
    \A c \in Calls :
        /\ writing[c] \cup errs[c] \cup accepted[c] \subseteq plan[c]
        /\ writing[c] \cap errs[c] = {} /\ writing[c] \cap accepted[c] = {}
        /\ errs[c] \cap accepted[c] = {}
        /\ writing[c] # {} => pc[c] = "deliver"
        /\ pc[c] = "return" => Pending(c) = {}
        /\ pc[c] \notin {"deliver", "return", "unwind"} => plan[c] = {}

SafeWriter(w, reg) ==
    IF w.sink \in Guarded THEN OwnMutex(w.sink) \in w.mutexes ELSE reg \in w.mutexes

HookInv ==
    /\ \A k \in hooks : k.ID <= hookSeq /\ SafeWriter(k.Writer, HookReg(k.ID))
    /\ \A j, k \in hooks : j.ID = k.ID /\ j.Level = k.Level => j = k

MutexInv ==
    /\ \A c \in Calls : \A t \in writing[c] : t.w.mutexes \subseteq locked
    /\ \A c, d \in Calls : \A t \in writing[c], u \in writing[d] :
           (c # d \/ t # u) => t.w.mutexes \cap u.w.mutexes = {}

IInv ==
    TypeOK /\ LockInv /\ FrameInv /\ HookInv /\ MutexInv /\ DeliveryMatchesConfig

-----------------------------------------------------------------------------
(* What the operators return.                                              *)

\* Wrapping a sink yields a writer whose mutexes serialise it: its own one for
\* a sink of this package, the registration's for any other.
LEMMA WrapIsSafe ==
    ASSUME NEW s \in Sinks, NEW leveled \in BOOLEAN, NEW reg \in Registrations
    PROVE  /\ EnsureThreadSafe(s, leveled, reg) \in Writers
           /\ SafeWriter(EnsureThreadSafe(s, leveled, reg), reg)
<1>1. OwnMutex(s) \in Mutexes
  BY DEF OwnMutex, Mutexes
<1>2. reg \in Mutexes
  BY DEF Mutexes
<1>3. QED
  BY <1>1, <1>2 DEF EnsureThreadSafe, Writers, SafeWriter

\* A handler's target is a target with a safe writer.
LEMMA HandlerTargetIsSafe ==
    ASSUME NEW h \in Handlers
    PROVE  HandlerTarget(h) \in Targets /\ SafeWriter(HandlerTarget(h).w, HandlerTarget(h).reg)
<1>1. HandlerReg(h) \in Registrations
  BY DEF HandlerReg, Registrations
<1>2. HandlerSink[h] \in Sinks /\ (HandlerMin[h] # NoLevel) \in BOOLEAN
  BY LoggerAssumption
<1>3. QED
  BY <1>1, <1>2, WrapIsSafe DEF HandlerTarget, Targets

\* The entries of a Hook call are typed, carry its ID and a safe writer, and
\* there is one per level.
LEMMA HookEntriesAreSafe ==
    ASSUME NEW id \in Nat, NEW s \in Sinks, NEW n \in Nat, NEW levels \in [1..n -> Levels]
    PROVE  /\ HookEntries(id, s, levels)
                  \subseteq [ID : Nat, pos : Nat, Level : Levels, Writer : Writers]
           /\ \A k \in HookEntries(id, s, levels) :
                  k.ID = id /\ SafeWriter(k.Writer, HookReg(id))
           /\ \A j, k \in HookEntries(id, s, levels) : j.Level = k.Level => j = k
<1> DEFINE w == EnsureThreadSafe(s, FALSE, HookReg(id))
           first == {i \in DOMAIN levels : \A j \in 1..(i - 1) : levels[j] # levels[i]}
<1>1. HookReg(id) \in Registrations
  BY DEF HookReg, Registrations
<1>2. w \in Writers /\ SafeWriter(w, HookReg(id))
  BY <1>1, WrapIsSafe
<1>3. HookEntries(id, s, levels) =
        {[ID |-> id, pos |-> i, Level |-> levels[i], Writer |-> w] : i \in first}
  BY DEF HookEntries
<1>4. \A i \in first : i \in 1..n /\ levels[i] \in Levels
  OBVIOUS
<1>5. \A i, j \in first : levels[i] = levels[j] => i = j
  <2>1. SUFFICES ASSUME NEW i \in first, NEW j \in first, levels[i] = levels[j], i < j
                 PROVE  FALSE
    BY <1>4
  <2>2. i \in 1..(j - 1)
    BY <1>4, <2>1
  <2>3. QED
    BY <2>1, <2>2
<1> HIDE DEF w, first
<1>6. QED
  BY <1>2, <1>3, <1>4, <1>5

\* The sinks a message goes to are targets, each with a safe writer.
LEMMA MatchingIsSafe ==
    ASSUME TypeOK, HookInv, NEW lv
    PROVE  \A t \in Matching(lv) : t \in Targets /\ SafeWriter(t.w, t.reg)
<1>1. \A k \in hooks : HookTarget(k) \in Targets
                       /\ SafeWriter(HookTarget(k).w, HookTarget(k).reg)
  BY DEF TypeOK, HookInv, HookTarget, Targets, HookReg, Registrations
<1>2. QED
  BY <1>1, HandlerTargetIsSafe DEF Matching

\* A registration is a handler's or a hook's, and tells which.
LEMMA RegistrationsDiffer ==
    /\ \A h, i : HandlerReg(h) # HookReg(i)
    /\ \A h, i : HandlerReg(h) = HandlerReg(i) => h = i
    /\ \A h, i : HookReg(h) = HookReg(i) => h = i
  BY DEF HandlerReg, HookReg

-----------------------------------------------------------------------------
(* Steps, by what they change.                                             *)

\* A step is one action of one call: the cases the proofs below split on.
LEMMA StepCases ==
    ASSUME Next
    PROVE  \E c \in Calls :
              \/ Start(c) \/ RLock(c) \/ Match(c) \/ Wait(c) \/ Return(c) \/ Unwind(c)
              \/ Recovered(c) \/ Lock(c) \/ SetMinLevel(c) \/ Hook(c) \/ Unhook(c)
              \/ UnhookEmpty(c)
              \/ \E t \in plan[c] : Enter(c, t)
              \/ \E t \in writing[c] : SinkAccepts(c, t) \/ SinkFails(c, t) \/ SinkPanics(c, t)
  BY DEF Next, Advance, Change, EnterSome, LeaveSome

\* Starting a call only fills in its frame.
LEMMA StartStep ==
    ASSUME TypeOK, NEW c \in Calls, Start(c)
    PROVE  /\ pc[c] = "idle"
           /\ \E label \in {"rlock", "lock"} : pc' = [pc EXCEPT ![c] = label]
           /\ \E o \in Operations : op' = [op EXCEPT ![c] = o]
           /\ \E lv \in Levels \cup {NoLevel} : level' = [level EXCEPT ![c] = lv]
           /\ \E p \in SinkWrites \cup {NoCall} : parent' = [parent EXCEPT ![c] = p]
           /\ UNCHANGED <<config, readers, writer, locked, up, delivery>>
<1>1. CASE CallWriteLog(c)
  BY <1>1 DEF CallWriteLog, Begin, At, GoTo, Operations
<1>2. CASE CallWrite(c)
  BY <1>2 DEF CallWrite, Begin, At, GoTo, Operations, TypeOK
<1>3. CASE CallFromSink(c)
  <2>0. PICK p \in Calls, lv \in SinkLevels : \E t \in writing[p] :
            Begin(c, "WriteLog", lv, [call |-> p, target |-> t]) /\ GoTo(c, "rlock")
    BY <1>3 DEF CallFromSink
  <2>1. PICK t \in writing[p] :
            Begin(c, "WriteLog", lv, [call |-> p, target |-> t]) /\ GoTo(c, "rlock")
    BY <2>0
  <2>2. [call |-> p, target |-> t] \in SinkWrites
    BY DEF SinkWrites, TypeOK
  <2>3. lv \in Levels
    BY LoggerAssumption
  <2>4. QED
    BY <2>1, <2>2, <2>3 DEF Begin, At, GoTo, Operations
<1>4. CASE CallSetMinLevel(c)
  BY <1>4 DEF CallSetMinLevel, Begin, At, GoTo, Operations
<1>5. CASE CallHook(c)
  BY <1>5 DEF CallHook, Begin, At, GoTo, Operations
<1>6. CASE CallUnhook(c)
  BY <1>6 DEF CallUnhook, Begin, At, GoTo, Operations
<1>7. QED
  BY <1>1, <1>2, <1>3, <1>4, <1>5, <1>6 DEF Start

-----------------------------------------------------------------------------
\* Every step of the logger keeps the types of its variables.
LEMMA TypeStep == ASSUME TypeOK, HookInv, [Next]_vars PROVE TypeOK'
<1>1. CASE UNCHANGED vars
  BY <1>1 DEF vars, config, delivery, TypeOK
<1>2. ASSUME NEW c \in Calls, Start(c) PROVE TypeOK'
  BY <1>2, StartStep DEF TypeOK, Labels, config, delivery
<1>3. ASSUME NEW c \in Calls, RLock(c) \/ Wait(c) \/ Recovered(c) \/ Lock(c) PROVE TypeOK'
  BY <1>3 DEF RLock, Wait, Recovered, Lock, At, GoTo, TypeOK, Labels, Operations, config, delivery
<1>4. ASSUME NEW c \in Calls, Match(c) PROVE TypeOK'
  <2>1. Matching(level[c]) \in SUBSET Targets
    BY MatchingIsSafe
  <2>2. QED
    BY <1>4, <2>1 DEF Match, GoTo, TypeOK, Labels, config, delivery
<1>5. ASSUME NEW c \in Calls, Return(c) \/ Unwind(c) PROVE TypeOK'
  BY <1>5 DEF Return, Unwind, RUnlock, GoTo, TypeOK, Labels, Operations, config, delivery
<1>6. ASSUME NEW c \in Calls, NEW next \in {"idle", "panicked"}, Unlock(c, next),
             minimumLogLevel' \in Levels, hookSeq' \in Nat,
             hooks' \subseteq [ID : Nat, pos : Nat, Level : Levels, Writer : Writers]
      PROVE TypeOK'
  BY <1>6 DEF Unlock, TypeOK, Labels, Operations, delivery
<1>7. ASSUME NEW c \in Calls, SetMinLevel(c) \/ Unhook(c) \/ UnhookEmpty(c) PROVE TypeOK'
  BY <1>6, <1>7 DEF SetMinLevel, Unhook, UnhookEmpty, TypeOK, config
<1>8. ASSUME NEW c \in Calls, Hook(c) PROVE TypeOK'
  <2>1. hookSeq' \in Nat
    BY <1>8 DEF Hook, TypeOK
  <2>2. PICK s \in Sinks, n \in 1..MaxHookLevels : \E levels \in [1..n -> Levels] :
            hooks' = hooks \cup HookEntries(hookSeq', s, levels)
    BY <1>8 DEF Hook
  <2>3. n \in Nat
    BY LoggerAssumption
  <2>4. hooks' \subseteq [ID : Nat, pos : Nat, Level : Levels, Writer : Writers]
    BY <2>1, <2>2, <2>3, HookEntriesAreSafe DEF TypeOK
  <2>5. QED
    BY <1>6, <1>8, <2>1, <2>4 DEF Hook, TypeOK
<1>9. ASSUME NEW c \in Calls, NEW t \in plan[c], Enter(c, t) PROVE TypeOK'
  <2>1. t \in Targets /\ t.w.mutexes \subseteq Mutexes
    BY DEF TypeOK, Targets, Writers
  <2>2. QED
    BY <1>9, <2>1 DEF Enter, TypeOK, config
<1>10. ASSUME NEW c \in Calls, NEW t \in writing[c],
              SinkAccepts(c, t) \/ SinkFails(c, t) \/ SinkPanics(c, t)
       PROVE TypeOK'
  <2>1. t \in Targets
    BY DEF TypeOK
  <2>2. CASE SinkAccepts(c, t)
    BY <2>1, <2>2 DEF SinkAccepts, Leave, TypeOK, config
  <2>3. CASE SinkFails(c, t)
    BY <2>1, <2>3 DEF SinkFails, Leave, TypeOK, config
  <2>4. CASE SinkPanics(c, t)
    <3>1. up' \in BOOLEAN
      BY <2>4 DEF SinkPanics, TypeOK
    <3>2. pc' \in [Calls -> Labels]
      BY <2>4 DEF SinkPanics, GoTo, TypeOK, Labels
    <3>3. QED
      BY <2>4, <3>1, <3>2 DEF SinkPanics, Leave, TypeOK, config
  <2>5. QED
    BY <1>10, <2>2, <2>3, <2>4
<1>11. QED
  BY <1>1, <1>2, <1>3, <1>4, <1>5, <1>7, <1>8, <1>9, <1>10, StepCases

-----------------------------------------------------------------------------
\* The lock's state follows the program counters.
LEMMA LockStep == ASSUME TypeOK, LockInv, [Next]_vars PROVE LockInv'
<1>1. CASE UNCHANGED vars
  BY <1>1 DEF vars, LockInv, ReadPhases
<1>2. ASSUME NEW c \in Calls, Start(c) PROVE LockInv'
  BY <1>2, StartStep DEF LockInv, ReadPhases, TypeOK
<1>3. ASSUME NEW c \in Calls, RLock(c) PROVE LockInv'
  BY <1>3 DEF RLock, At, GoTo, TypeOK, LockInv, ReadPhases
<1>4. ASSUME NEW c \in Calls, Lock(c) PROVE LockInv'
  BY <1>4, LoggerAssumption DEF Lock, At, GoTo, TypeOK, LockInv, ReadPhases
<1>5. ASSUME NEW c \in Calls, Match(c) \/ Wait(c) \/ Recovered(c) PROVE LockInv'
  BY <1>5 DEF Match, Wait, Recovered, At, GoTo, TypeOK, LockInv, ReadPhases
<1>6. ASSUME NEW c \in Calls, Return(c) \/ Unwind(c) PROVE LockInv'
  BY <1>6 DEF Return, Unwind, RUnlock, At, GoTo, TypeOK, LockInv, ReadPhases
<1>7. ASSUME NEW c \in Calls, NEW next \in {"idle", "panicked"},
             At(c, "drain"), Unlock(c, next)
      PROVE LockInv'
  BY <1>7, LoggerAssumption DEF Unlock, At, TypeOK, LockInv, ReadPhases
<1>8. ASSUME NEW c \in Calls,
             SetMinLevel(c) \/ Hook(c) \/ Unhook(c) \/ UnhookEmpty(c)
      PROVE LockInv'
  BY <1>7, <1>8 DEF SetMinLevel, Hook, Unhook, UnhookEmpty, Exclusive
<1>9. ASSUME NEW c \in Calls, NEW t \in plan[c], Enter(c, t) PROVE LockInv'
  BY <1>9 DEF Enter, LockInv
<1>10. ASSUME NEW c \in Calls, NEW t \in writing[c],
              SinkAccepts(c, t) \/ SinkFails(c, t) \/ SinkPanics(c, t)
       PROVE LockInv'
  BY <1>10 DEF SinkAccepts, SinkFails, SinkPanics, Leave, At, GoTo, TypeOK, LockInv, ReadPhases
<1>11. QED
  BY <1>1, <1>2, <1>3, <1>4, <1>5, <1>6, <1>8, <1>9, <1>10, StepCases

\* Hooks stay well formed: a new Hook call uses an ID no hook has.
LEMMA HookStep == ASSUME TypeOK, HookInv, [Next]_vars PROVE HookInv'
<1>1. CASE UNCHANGED <<hooks, hookSeq>>
  BY <1>1 DEF HookInv
<1>2. ASSUME NEW c \in Calls, Hook(c) PROVE HookInv'
  <2>1. hookSeq' = hookSeq + 1 /\ hookSeq \in Nat /\ hookSeq' \in Nat
    BY <1>2 DEF Hook, TypeOK
  <2>2. PICK s \in Sinks, n \in 1..MaxHookLevels : \E levels \in [1..n -> Levels] :
            hooks' = hooks \cup HookEntries(hookSeq', s, levels)
    BY <1>2 DEF Hook
  <2>3. PICK levels \in [1..n -> Levels] :
            hooks' = hooks \cup HookEntries(hookSeq', s, levels)
    BY <2>2
  <2> DEFINE new == HookEntries(hookSeq', s, levels)
  <2>4. /\ \A k \in new : k.ID = hookSeq' /\ SafeWriter(k.Writer, HookReg(k.ID))
        /\ \A j, k \in new : j.Level = k.Level => j = k
    BY <2>1, HookEntriesAreSafe, LoggerAssumption
  <2>5. \A k \in hooks : k.ID \in Nat /\ k.ID < hookSeq' /\ SafeWriter(k.Writer, HookReg(k.ID))
    BY <2>1 DEF HookInv, TypeOK
  <2> HIDE DEF new
  <2>6. hooks' = hooks \cup new
    BY <2>3 DEF new
  <2>7. \A k \in hooks' : k.ID <= hookSeq' /\ SafeWriter(k.Writer, HookReg(k.ID))
    BY <2>1, <2>4, <2>5, <2>6
  <2>8. ASSUME NEW j \in hooks', NEW k \in hooks', j.ID = k.ID, j.Level = k.Level
        PROVE  j = k
    BY <2>1, <2>4, <2>5, <2>6, <2>8 DEF HookInv
  <2>9. QED
    BY <2>7, <2>8 DEF HookInv, SafeWriter, HookReg, OwnMutex
<1>3. ASSUME NEW c \in Calls, Unhook(c) PROVE HookInv'
  BY <1>3 DEF Unhook, HookInv
<1>4. ASSUME NEW c \in Calls, Start(c) PROVE UNCHANGED <<hooks, hookSeq>>
  BY <1>4, StartStep DEF config
<1>5. QED
  BY <1>1, <1>2, <1>3, <1>4, StepCases
     DEF vars, config, RLock, Match, Wait, Return, Unwind, RUnlock, Recovered, Lock,
         SetMinLevel, UnhookEmpty, Enter, SinkAccepts, SinkFails, SinkPanics

\* A message is delivered under the configuration it was matched against.
LEMMA DeliveryStep ==
    ASSUME TypeOK, LockInv, DeliveryMatchesConfig, [Next]_vars
    PROVE  DeliveryMatchesConfig'
<1>1. UNCHANGED config => \A lv : Matching(lv)' = Matching(lv)
  BY DEF config, Matching, Threshold, HookTarget, HandlerTarget
<1>2. CASE UNCHANGED vars
  BY <1>1, <1>2 DEF vars, delivery, DeliveryMatchesConfig, Delivering
<1>3. ASSUME NEW c \in Calls, Start(c) PROVE DeliveryMatchesConfig'
  <2>1. UNCHANGED config /\ plan' = plan
    BY <1>3, StartStep DEF delivery
  <2>2. \A d \in Calls : Delivering(d)' => Delivering(d) /\ level'[d] = level[d]
    BY <1>3, StartStep DEF TypeOK, Delivering
  <2>3. QED
    BY <1>1, <2>1, <2>2 DEF DeliveryMatchesConfig
<1>4. ASSUME NEW c \in Calls, Match(c) PROVE DeliveryMatchesConfig'
  <2>1. UNCHANGED <<config, level>> /\ plan' = [plan EXCEPT ![c] = Matching(level[c])]
    BY <1>4 DEF Match
  <2>2. \A d \in Calls \ {c} : Delivering(d)' => Delivering(d)
    BY <1>4 DEF Match, GoTo, TypeOK, Delivering
  <2>3. QED
    BY <1>1, <2>1, <2>2 DEF DeliveryMatchesConfig, TypeOK
<1>5. ASSUME NEW c \in Calls, RLock(c) \/ Lock(c) \/ Recovered(c) PROVE DeliveryMatchesConfig'
  <2>1. UNCHANGED <<config, level>> /\ plan' = plan
    BY <1>5 DEF RLock, Lock, Recovered, delivery
  <2>2. \A d \in Calls : Delivering(d)' => Delivering(d)
    BY <1>5 DEF RLock, Lock, Recovered, GoTo, TypeOK, Delivering
  <2>3. QED
    BY <1>1, <2>1, <2>2 DEF DeliveryMatchesConfig
<1>6. ASSUME NEW c \in Calls, Wait(c) PROVE DeliveryMatchesConfig'
  <2>1. UNCHANGED <<config, level>> /\ plan' = plan
    BY <1>6 DEF Wait, delivery
  <2>2. \A d \in Calls : Delivering(d)' => Delivering(d)
    BY <1>6 DEF Wait, At, GoTo, TypeOK, Delivering
  <2>3. QED
    BY <1>1, <2>1, <2>2 DEF DeliveryMatchesConfig
<1>7. ASSUME NEW c \in Calls, Return(c) \/ Unwind(c) PROVE DeliveryMatchesConfig'
  <2>1. UNCHANGED config
    BY <1>7 DEF Return, Unwind, RUnlock
  <2>2. \A d \in Calls : Delivering(d)' =>
            Delivering(d) /\ level'[d] = level[d] /\ plan'[d] = plan[d]
    BY <1>7 DEF Return, Unwind, RUnlock, GoTo, TypeOK, Delivering
  <2>3. QED
    BY <1>1, <2>1, <2>2 DEF DeliveryMatchesConfig
<1>8. ASSUME NEW c \in Calls,
             SetMinLevel(c) \/ Hook(c) \/ Unhook(c) \/ UnhookEmpty(c)
      PROVE DeliveryMatchesConfig'
  \* The configuration changes, but then no call holds the read lock.
  <2>1. readers = {} /\ \E next \in {"idle", "panicked"} : Unlock(c, next)
    BY <1>8 DEF SetMinLevel, Hook, Unhook, UnhookEmpty, Exclusive
  <2>2. \A d \in Calls : ~ Delivering(d)
    BY <2>1 DEF LockInv, ReadPhases, Delivering
  <2>3. \A d \in Calls : ~ Delivering(d)'
    BY <2>1, <2>2 DEF Unlock, Delivering
  <2>4. QED
    BY <2>3 DEF DeliveryMatchesConfig
<1>9. ASSUME NEW c \in Calls, NEW t,
             Enter(c, t) \/ SinkAccepts(c, t) \/ SinkFails(c, t) \/ SinkPanics(c, t)
      PROVE DeliveryMatchesConfig'
  <2>1. UNCHANGED <<config, level>> /\ plan' = plan
    BY <1>9 DEF Enter, SinkAccepts, SinkFails, SinkPanics
  <2>2. \A d \in Calls : Delivering(d)' => Delivering(d)
    BY <1>9 DEF Enter, SinkAccepts, SinkFails, SinkPanics, Leave, At, GoTo, TypeOK, Delivering
  <2>3. QED
    BY <1>1, <2>1, <2>2 DEF DeliveryMatchesConfig
<1>10. QED
  BY <1>2, <1>3, <1>4, <1>5, <1>6, <1>7, <1>8, <1>9, StepCases

\* The sets of one WriteLog call: every collected sink is pending, being
\* written, failed or accepted, and nothing is pending once it returns.
LEMMA FrameStep == ASSUME TypeOK, FrameInv, [Next]_vars PROVE FrameInv'
<1>1. CASE UNCHANGED vars
  BY <1>1 DEF vars, delivery, FrameInv, Pending
<1>2. ASSUME NEW c \in Calls, Start(c) PROVE FrameInv'
  BY <1>2, StartStep DEF delivery, FrameInv, Pending, TypeOK
<1>3. ASSUME NEW c \in Calls, RLock(c) \/ Lock(c) \/ Recovered(c) \/ Wait(c) PROVE FrameInv'
  BY <1>3 DEF RLock, Lock, Recovered, Wait, At, GoTo, delivery, FrameInv, Pending, TypeOK
<1>4. ASSUME NEW c \in Calls, Match(c) PROVE FrameInv'
  BY <1>4 DEF Match, At, GoTo, FrameInv, Pending, TypeOK
<1>5. ASSUME NEW c \in Calls, Return(c) \/ Unwind(c) PROVE FrameInv'
  BY <1>5 DEF Return, Unwind, RUnlock, At, GoTo, FrameInv, Pending, TypeOK
<1>6. ASSUME NEW c \in Calls,
             SetMinLevel(c) \/ Hook(c) \/ Unhook(c) \/ UnhookEmpty(c)
      PROVE FrameInv'
  <2>1. pc[c] = "drain" /\ \E next \in {"idle", "panicked"} : Unlock(c, next)
    BY <1>6 DEF SetMinLevel, Hook, Unhook, UnhookEmpty, Exclusive, At
  <2>2. QED
    BY <2>1 DEF Unlock, delivery, FrameInv, Pending, TypeOK
<1>7. ASSUME NEW c \in Calls, NEW t \in plan[c], Enter(c, t) PROVE FrameInv'
  BY <1>7 DEF Enter, At, FrameInv, Pending, TypeOK
<1>8. ASSUME NEW c \in Calls, NEW t \in writing[c], SinkAccepts(c, t) PROVE FrameInv'
  BY <1>8 DEF SinkAccepts, Leave, At, FrameInv, Pending, TypeOK
<1>9. ASSUME NEW c \in Calls, NEW t \in writing[c], SinkFails(c, t) PROVE FrameInv'
  BY <1>9 DEF SinkFails, Leave, At, FrameInv, Pending, TypeOK
<1>10. ASSUME NEW c \in Calls, NEW t \in writing[c], SinkPanics(c, t) PROVE FrameInv'
  <2>1. /\ pc[c] = "deliver" /\ writing' = [writing EXCEPT ![c] = @ \ {t}]
        /\ UNCHANGED <<plan, errs, accepted>>
        /\ (pc' = [pc EXCEPT ![c] = "unwind"] /\ plan[c] = {t}) \/ pc' = pc
    BY <1>10 DEF SinkPanics, Leave, At, GoTo
  <2>2. writing'[c] = writing[c] \ {t} /\ \A d \in Calls \ {c} : writing'[d] = writing[d]
    BY <2>1 DEF TypeOK
  <2>3. CASE pc' = pc
    BY <2>1, <2>2, <2>3 DEF FrameInv, Pending
  <2>4. CASE pc' = [pc EXCEPT ![c] = "unwind"] /\ plan[c] = {t}
    <3>1. pc'[c] = "unwind" /\ \A d \in Calls \ {c} : pc'[d] = pc[d]
      BY <2>4 DEF TypeOK
    <3>2. writing'[c] = {}
      BY <2>2, <2>4 DEF FrameInv
    <3>3. QED
      BY <2>1, <2>2, <3>1, <3>2 DEF FrameInv, Pending
  <2>5. QED
    BY <2>1, <2>3, <2>4
<1>11. QED
  BY <1>1, <1>2, <1>3, <1>4, <1>5, <1>6, <1>7, <1>8, <1>9, <1>10, StepCases

\* A running write holds its mutexes, and no other running write holds any.
LEMMA MutexStep == ASSUME TypeOK, MutexInv, [Next]_vars PROVE MutexInv'
<1>1. CASE UNCHANGED <<locked, writing>>
  BY <1>1 DEF MutexInv
<1>2. ASSUME NEW c \in Calls, NEW t \in plan[c], Enter(c, t) PROVE MutexInv'
  <2>1. /\ t.w.mutexes \cap locked = {} /\ locked' = locked \cup t.w.mutexes
        /\ writing' = [writing EXCEPT ![c] = @ \cup {t}]
    BY <1>2 DEF Enter
  <2>2. \A d \in Calls : \A u \in writing'[d] : u \in writing[d] \/ (d = c /\ u = t)
    BY <2>1 DEF TypeOK
  <2>3. QED
    BY <2>1, <2>2 DEF MutexInv
<1>3. ASSUME NEW c \in Calls, NEW t \in writing[c], Leave(c, t) PROVE MutexInv'
  <2>1. /\ locked' = locked \ t.w.mutexes
        /\ writing' = [writing EXCEPT ![c] = @ \ {t}]
    BY <1>3 DEF Leave
  <2>2. \A d \in Calls : \A u \in writing'[d] : u \in writing[d] /\ (d # c \/ u # t)
    BY <2>1 DEF TypeOK
  <2>3. QED
    BY <2>1, <2>2 DEF MutexInv
<1>4. ASSUME NEW c \in Calls, Start(c) PROVE UNCHANGED <<locked, writing>>
  BY <1>4, StartStep DEF delivery
<1>5. QED
  BY <1>1, <1>2, <1>3, <1>4, StepCases
     DEF vars, delivery, RLock, Match, Wait, Return, Unwind, RUnlock, Recovered, Lock,
         SetMinLevel, Hook, Unhook, UnhookEmpty, Unlock, SinkAccepts, SinkFails, SinkPanics

\* A logger nobody has called satisfies the invariant.
LEMMA InitIInv == Init => IInv
<1> SUFFICES ASSUME Init PROVE IInv
  OBVIOUS
<1>1. TypeOK
  BY DEF Init, TypeOK, Labels, Operations
<1>2. LockInv /\ FrameInv /\ HookInv /\ MutexInv /\ DeliveryMatchesConfig
  BY LoggerAssumption
     DEF Init, LockInv, ReadPhases, FrameInv, Pending, HookInv, MutexInv,
         DeliveryMatchesConfig, Delivering
<1>3. QED
  BY <1>1, <1>2 DEF IInv

\* IInv is an inductive invariant.
THEOREM Inductive == Spec => []IInv
<1>1. IInv /\ [Next]_vars => IInv'
  BY TypeStep, LockStep, FrameStep, HookStep, MutexStep, DeliveryStep DEF IInv
<1>2. QED
  BY InitIInv, <1>1, PTL DEF Spec

\* Every variable of the logger has its type, in every reachable state.
THEOREM TypeCorrect == Spec => []TypeOK
<1>1. IInv => TypeOK
  BY DEF IInv
<1>2. QED
  BY Inductive, <1>1, PTL

\* Whatever the number of goroutines, sinks and hooks, a message goes to
\* exactly the sinks that match the configuration while it is delivered.
THEOREM DeliveryIsCurrent == Spec => []DeliveryMatchesConfig
<1>1. IInv => DeliveryMatchesConfig
  BY DEF IInv
<1>2. QED
  BY Inductive, <1>1, PTL

\* A plan that matches the configuration names a registration once.
LEMMA OnceByInvariant ==
    ASSUME IInv
    PROVE  OncePerRegistration
<1>1. SUFFICES ASSUME NEW c \in Calls, NEW s \in plan[c], NEW t \in plan[c], s.reg = t.reg
               PROVE  s = t
  BY DEF OncePerRegistration
<1>2. plan[c] = Matching(level[c])
  BY DEF IInv, FrameInv, DeliveryMatchesConfig, Delivering
<1>3. CASE \E k \in hooks : k.Level = level[c] /\ s = HookTarget(k)
  <2>1. PICK j \in hooks : j.Level = level[c] /\ s = HookTarget(j)
    BY <1>3
  <2>2. \A h \in Handlers : t # HandlerTarget(h)
    BY <1>1, <2>1, RegistrationsDiffer DEF HookTarget, HandlerTarget
  <2>3. PICK k \in hooks : k.Level = level[c] /\ t = HookTarget(k)
    BY <1>2, <2>2 DEF Matching
  <2>4. j.ID = k.ID
    BY <1>1, <2>1, <2>3, RegistrationsDiffer DEF HookTarget
  <2>5. QED
    BY <2>1, <2>3, <2>4 DEF IInv, HookInv
<1>4. CASE \E h \in Handlers : s = HandlerTarget(h)
  <2>1. PICK g \in Handlers : s = HandlerTarget(g)
    BY <1>4
  <2>2. \A k \in hooks : t # HookTarget(k)
    BY <1>1, <2>1, RegistrationsDiffer DEF HookTarget, HandlerTarget
  <2>3. PICK h \in Handlers : t = HandlerTarget(h)
    BY <1>2, <2>2 DEF Matching
  <2>4. g = h
    BY <1>1, <2>1, <2>3, RegistrationsDiffer DEF HandlerTarget
  <2>5. QED
    BY <2>1, <2>3, <2>4
<1>5. QED
  BY <1>2, <1>3, <1>4 DEF Matching

\* A call never finds two sinks under one registration: repeated levels of a
\* Hook call do not multiply a message.
THEOREM WrittenOncePerRegistration == Spec => []OncePerRegistration
  BY Inductive, OnceByInvariant, PTL

\* No sink of this package is ever written to by two goroutines at once, and
\* no other sink is through one registration.
THEOREM SinkExclusion == Spec => []SinkNeverConcurrent
<1>1. ASSUME IInv PROVE SinkNeverConcurrent
  <2>1. SUFFICES ASSUME NEW f \in InFlight, NEW g \in InFlight, Running(f), Running(g), f # g,
                        f.target.w.sink = g.target.w.sink
                 PROVE  f.target.w.sink \notin Guarded /\ f.target.reg # g.target.reg
    BY DEF SinkNeverConcurrent
  <2>2. PICK c \in Calls, t \in UNION {writing[d] : d \in Calls} : f = [call |-> c, target |-> t]
    BY DEF InFlight
  <2>3. PICK d \in Calls, u \in UNION {writing[e] : e \in Calls} : g = [call |-> d, target |-> u]
    BY DEF InFlight
  <2>4. t \in writing[c] /\ u \in writing[d] /\ (c # d \/ t # u)
    BY <2>1, <2>2, <2>3 DEF Running
  <2>5. t.w.mutexes \cap u.w.mutexes = {}
    BY <1>1, <2>4 DEF IInv, MutexInv
  <2>6. SafeWriter(t.w, t.reg) /\ SafeWriter(u.w, u.reg)
    <3>1. ASSUME NEW e \in Calls, NEW v \in writing[e] PROVE SafeWriter(v.w, v.reg)
      <4>1. v \in plan[e] /\ pc[e] = "deliver"
        BY <1>1 DEF IInv, FrameInv
      <4>2. v \in Matching(level[e])
        BY <1>1, <4>1 DEF IInv, DeliveryMatchesConfig, Delivering
      <4>3. QED
        BY <1>1, <4>2, MatchingIsSafe DEF IInv
    <3>2. QED
      BY <2>4, <3>1
  <2>7. QED
    BY <2>1, <2>2, <2>3, <2>5, <2>6 DEF SafeWriter
<1>2. QED
  BY Inductive, <1>1, PTL

\* The error WriteLog returns is nil exactly when every sink that matches the
\* configuration accepted the message.
THEOREM ResultIsTruthful == Spec => []ResultTellsTruth
<1>1. ASSUME IInv PROVE ResultTellsTruth
  <2>1. SUFFICES ASSUME NEW c \in Calls, pc[c] = "return"
                 PROVE  /\ Result(c).err = (accepted[c] # Matching(level[c]))
                        /\ Result(c).n = "len" => \E h \in Handlers : level[c] >= Threshold(h)
    BY DEF ResultTellsTruth
  <2>2. plan[c] = Matching(level[c])
    BY <1>1, <2>1 DEF IInv, DeliveryMatchesConfig, Delivering
  <2>3. plan[c] = errs[c] \cup accepted[c] /\ errs[c] \cap accepted[c] = {}
    BY <1>1, <2>1 DEF IInv, FrameInv, Pending
  <2>4. (errs[c] # {}) = (accepted[c] # plan[c])
    BY <2>3
  <2>5. ASSUME AnyHandlerActive(plan[c]) PROVE \E h \in Handlers : level[c] >= Threshold(h)
    <3>1. PICK h \in Handlers : HandlerTarget(h) \in Matching(level[c])
      BY <2>2, <2>5 DEF AnyHandlerActive
    <3>2. \A k \in hooks : HandlerTarget(h) # HookTarget(k)
      BY RegistrationsDiffer DEF HookTarget, HandlerTarget
    <3>3. QED
      BY <3>1, <3>2 DEF Matching
  <2>6. QED
    BY <2>2, <2>4, <2>5 DEF Result
<1>2. QED
  BY Inductive, <1>1, PTL

-----------------------------------------------------------------------------
(* Logger implements AtomicLogger: each step of the detailed logger is one *)
(* step of the atomic one or leaves what callers see as it is.  Besides    *)
(* the invariants above it takes CallInv.                                  *)


\* A call that is on its way to a delivery logs, one that is on its way to a
\* change carries no level; and the entries of one Hook call share a writer.
CallInv ==
    /\ \A c \in Calls :
         /\ pc[c] \in {"rlock", "rwait", "match", "deliver"} => op[c] \in {"WriteLog", "Write"}
         /\ pc[c] \in {"lock", "drain"} => level[c] = NoLevel
    /\ \A j, k \in hooks : j.ID = k.ID => j.Writer = k.Writer

-----------------------------------------------------------------------------
(* What the mapping does with a step.                                      *)

\* A step of call c that moves it to another label changes no other call.
LEMMA Moves ==
    ASSUME TypeOK, NEW c \in Calls, NEW to,
           pc' = [pc EXCEPT ![c] = to],
           \A d \in Calls \ {c} :
               level'[d] = level[d] /\ plan'[d] = plan[d] /\ errs'[d] = errs[d]
    PROVE  /\ Phases' = [Phases EXCEPT ![c] = PhaseOf(to)]
           /\ CallLevels' = [CallLevels EXCEPT ![c] =
                                IF PhaseOf(to) = "called" THEN level'[c] ELSE NoLevel]
           /\ Outcomes' = [Outcomes EXCEPT ![c] =
                              IF PhaseOf(to) = "returning" THEN Outcome(c)' ELSE NoOutcome]
<1>1. pc'[c] = to /\ \A d \in Calls \ {c} : pc'[d] = pc[d]
  BY DEF TypeOK
<1>2. Phases' = [Phases EXCEPT ![c] = PhaseOf(to)]
  <2>1. Phases' = [d \in Calls |-> IF d = c THEN PhaseOf(to) ELSE PhaseOf(pc[d])]
    BY <1>1 DEF Phases
  <2>2. QED
    BY <2>1 DEF Phases
<1>3. CallLevels' = [CallLevels EXCEPT ![c] =
                        IF PhaseOf(to) = "called" THEN level'[c] ELSE NoLevel]
  BY <1>1 DEF CallLevels
<1>4. \A d \in Calls \ {c} : Outcome(d)' = Outcome(d)
  BY DEF Outcome, Result, AnyHandlerActive
<1>5. Outcomes' = [Outcomes EXCEPT ![c] =
                      IF PhaseOf(to) = "returning" THEN Outcome(c)' ELSE NoOutcome]
  BY <1>1, <1>4 DEF Outcomes
<1>6. QED
  BY <1>2, <1>3, <1>5

\* The end of a change moves the readers that waited, which callers do not see.
LEMMA UnlockMoves ==
    ASSUME TypeOK, NEW c \in Calls, NEW next, Unlock(c, next), PhaseOf(next) # "called",
           PhaseOf(next) # "returning", PhaseOf(pc[c]) # "returning", level[c] = NoLevel
    PROVE  /\ Phases' = [Phases EXCEPT ![c] = PhaseOf(next)]
           /\ UNCHANGED <<up, CallLevels, Outcomes>>
           /\ op' = IF next = "idle" THEN [op EXCEPT ![c] = "none"] ELSE op
<1>1. /\ pc' = [d \in Calls |-> IF d = c THEN next
                                ELSE IF pc[d] = "rwait" THEN "match" ELSE pc[d]]
      /\ UNCHANGED <<up, level, delivery>>
  BY DEF Unlock
<1>2. pc'[c] = next /\ \A d \in Calls \ {c} : PhaseOf(pc'[d]) = PhaseOf(pc[d])
  BY <1>1 DEF PhaseOf
<1>3. Phases' = [Phases EXCEPT ![c] = PhaseOf(next)]
  <2>1. Phases' = [d \in Calls |-> IF d = c THEN PhaseOf(next) ELSE PhaseOf(pc[d])]
    BY <1>2 DEF Phases
  <2>2. QED
    BY <2>1 DEF Phases
<1>4. CallLevels' = CallLevels
  <2>1. \A d \in Calls :
            (IF PhaseOf(pc'[d]) = "called" THEN level'[d] ELSE NoLevel)
            = (IF PhaseOf(pc[d]) = "called" THEN level[d] ELSE NoLevel)
    BY <1>1, <1>2
  <2>2. QED
    BY <2>1 DEF CallLevels
<1>5. Outcomes' = Outcomes
  <2>1. \A d \in Calls : Outcome(d)' = Outcome(d)
    BY <1>1 DEF delivery, Outcome, Result, AnyHandlerActive
  <2>2. \A d \in Calls :
            (IF PhaseOf(pc'[d]) = "returning" THEN Outcome(d)' ELSE NoOutcome)
            = (IF PhaseOf(pc[d]) = "returning" THEN Outcome(d) ELSE NoOutcome)
    BY <1>2, <2>1
  <2>3. QED
    BY <2>2 DEF Outcomes
<1>6. QED
  BY <1>1, <1>3, <1>4, <1>5 DEF Unlock

\* A message matches exactly the recipients the atomic logger names.
LEMMA MatchedRecipients ==
    ASSUME CallInv, NEW lv
    PROVE  /\ Recipients(Matching(lv)) = Atomic!Recipients(lv)
           /\ AnyHandlerActive(Matching(lv)) <=> Atomic!Active(lv) # {}
<1>1. Atomic!Active(lv) = {h \in Handlers : lv >= Threshold(h)}
  BY DEF Atomic!Active, Threshold
<1>2. ASSUME NEW k \in hooks, k.Level = lv
      PROVE  [reg |-> HookTarget(k).reg, sink |-> HookTarget(k).w.sink] \in Atomic!Recipients(lv)
  <2> DEFINE r == [id |-> k.ID, sink |-> k.Writer.sink,
                   levels |-> {x.Level : x \in {y \in hooks : y.ID = k.ID}}]
  <2>1. r \in Registered /\ lv \in r.levels
    BY <1>2 DEF Registered
  <2>2. HookTarget(k).reg = <<"hook", r.id>> /\ HookTarget(k).w.sink = r.sink
    BY DEF HookTarget, HookReg
  <2> HIDE DEF r
  <2>3. QED
    BY <2>1, <2>2 DEF Atomic!Recipients
<1>3. ASSUME NEW r \in Registered, lv \in r.levels
      PROVE  \E t \in Matching(lv) : t.reg = <<"hook", r.id>> /\ t.w.sink = r.sink
  <2>1. PICK k \in hooks : r = [id |-> k.ID, sink |-> k.Writer.sink,
                                levels |-> {x.Level : x \in {y \in hooks : y.ID = k.ID}}]
    BY DEF Registered
  <2>2. PICK j \in hooks : j.ID = k.ID /\ j.Level = lv
    BY <1>3, <2>1
  <2>3. j.Writer = k.Writer
    BY <2>2 DEF CallInv
  <2>4. HookTarget(j) \in Matching(lv)
    BY <2>2 DEF Matching
  <2>5. QED
    BY <2>1, <2>2, <2>3, <2>4 DEF HookTarget, HookReg
<1>4. ASSUME NEW h \in Handlers
      PROVE  HandlerTarget(h).reg = <<"handler", h>> /\ HandlerTarget(h).w.sink = HandlerSink[h]
  BY DEF HandlerTarget, HandlerReg, EnsureThreadSafe
<1>5. Recipients(Matching(lv)) \subseteq Atomic!Recipients(lv)
  <2>1. ASSUME NEW h \in Handlers, lv >= Threshold(h)
        PROVE  [reg |-> HandlerTarget(h).reg, sink |-> HandlerTarget(h).w.sink]
                   \in Atomic!Recipients(lv)
    BY <1>1, <1>4, <2>1 DEF Atomic!Recipients
  <2>2. QED
    BY <1>2, <2>1 DEF Recipients, Matching
<1>6. Atomic!Recipients(lv) \subseteq Recipients(Matching(lv))
  <2>1. ASSUME NEW h \in Atomic!Active(lv)
        PROVE  [reg |-> <<"handler", h>>, sink |-> HandlerSink[h]] \in Recipients(Matching(lv))
    BY <1>1, <1>4 DEF Recipients, Matching
  <2>2. ASSUME NEW r \in Registered, lv \in r.levels
        PROVE  [reg |-> <<"hook", r.id>>, sink |-> r.sink] \in Recipients(Matching(lv))
    BY <1>3, <2>2 DEF Recipients
  <2>3. QED
    BY <2>1, <2>2 DEF Atomic!Recipients
<1>7. AnyHandlerActive(Matching(lv)) <=> Atomic!Active(lv) # {}
  <2>1. ASSUME NEW h \in Handlers, HandlerTarget(h) \in Matching(lv) PROVE lv >= Threshold(h)
    <3>1. \A k \in hooks : HandlerTarget(h) # HookTarget(k)
      BY RegistrationsDiffer DEF HookTarget, HandlerTarget
    <3>2. PICK g \in Handlers : lv >= Threshold(g) /\ HandlerTarget(h) = HandlerTarget(g)
      BY <2>1, <3>1 DEF Matching
    <3>3. g = h
      BY <3>2, RegistrationsDiffer DEF HandlerTarget
    <3>4. QED
      BY <3>2, <3>3
  <2>2. \A h \in Handlers : lv >= Threshold(h) => HandlerTarget(h) \in Matching(lv)
    BY DEF Matching
  <2>3. QED
    BY <1>1, <2>1, <2>2 DEF AnyHandlerActive
<1>8. QED
  BY <1>5, <1>6, <1>7

-----------------------------------------------------------------------------
(* CallInv is inductive beside IInv.                                       *)

\* The entries of a Hook call share the wrapper of its sink, and there are some.
LEMMA HookEntriesShare ==
    ASSUME NEW id \in Nat, NEW s \in Sinks, NEW n \in Nat, n >= 1, NEW levels \in [1..n -> Levels]
    PROVE  /\ HookEntries(id, s, levels) # {}
           /\ \A j, k \in HookEntries(id, s, levels) :
                  j.ID = id /\ j.Writer = k.Writer /\ j.Writer.sink = s /\ j.Level \in Levels
<1>1. 1 \in {i \in DOMAIN levels : \A j \in 1..(i - 1) : levels[j] # levels[i]}
  OBVIOUS
<1>2. EnsureThreadSafe(s, FALSE, HookReg(id)).sink = s
  BY DEF EnsureThreadSafe
<1> DEFINE w == EnsureThreadSafe(s, FALSE, HookReg(id))
           first == {i \in DOMAIN levels : \A j \in 1..(i - 1) : levels[j] # levels[i]}
<1>3. HookEntries(id, s, levels) =
        {[ID |-> id, pos |-> i, Level |-> levels[i], Writer |-> w] : i \in first}
  BY DEF HookEntries
<1>4. 1 \in first /\ w.sink = s /\ \A i \in first : levels[i] \in Levels
  BY <1>1, <1>2
<1> HIDE DEF w, first
<1>5. [ID |-> id, pos |-> 1, Level |-> levels[1], Writer |-> w] \in HookEntries(id, s, levels)
  BY <1>3, <1>4
<1>6. \A k \in HookEntries(id, s, levels) : k.ID = id /\ k.Writer = w /\ k.Level \in Levels
  BY <1>3, <1>4
<1>7. QED
  BY <1>4, <1>5, <1>6

\* Every step keeps CallInv: a new hook ID is that of no older entry.
LEMMA CallInvStep ==
    ASSUME IInv, CallInv, [Next]_vars
    PROVE  CallInv'
<1> DEFINE Phased(c) ==
             /\ pc[c] \in {"rlock", "rwait", "match", "deliver"} => op[c] \in {"WriteLog", "Write"}
             /\ pc[c] \in {"lock", "drain"} => level[c] = NoLevel
           Shared == \A j, k \in hooks : j.ID = k.ID => j.Writer = k.Writer
<1> USE DEF IInv
<1>1. CASE UNCHANGED vars
  BY <1>1 DEF vars, config, CallInv
<1>2. ASSUME NEW c \in Calls, Start(c) PROVE CallInv'
  <2>1. \A d \in Calls \ {c} : pc'[d] = pc[d] /\ op'[d] = op[d] /\ level'[d] = level[d]
    BY <1>2, StartStep DEF TypeOK
  <2>2. UNCHANGED hooks
    BY <1>2, StartStep DEF config
  <2>3. \/ pc'[c] = "rlock" /\ op'[c] \in {"WriteLog", "Write"}
        \/ pc'[c] = "lock" /\ level'[c] = NoLevel
    BY <1>2 DEF Start, CallWriteLog, CallWrite, CallFromSink, CallSetMinLevel, CallHook,
                CallUnhook, Begin, GoTo, TypeOK
  <2>4. QED
    BY <2>1, <2>2, <2>3 DEF CallInv
<1>3. ASSUME NEW c \in Calls,
             RLock(c) \/ Lock(c) \/ Match(c) \/ Wait(c) \/ Return(c) \/ Unwind(c) \/ Recovered(c)
      PROVE CallInv'
  BY <1>3 DEF RLock, Lock, Match, Wait, Return, Unwind, RUnlock, Recovered, At, GoTo, TypeOK,
              config, CallInv
<1>4. ASSUME NEW c \in Calls, SetMinLevel(c) \/ Hook(c) \/ Unhook(c) \/ UnhookEmpty(c)
      PROVE \A d \in Calls : Phased(d)'
  <2>1. PICK next \in {"idle", "panicked"} : Unlock(c, next)
    BY <1>4 DEF SetMinLevel, Hook, Unhook, UnhookEmpty
  <2>2. \A d \in Calls : d # c =>
            /\ pc'[d] = IF pc[d] = "rwait" THEN "match" ELSE pc[d]
            /\ op'[d] = op[d] /\ level'[d] = level[d]
    BY <2>1 DEF Unlock, TypeOK
  <2>3. pc'[c] = next
    BY <2>1 DEF Unlock
  <2>4. QED
    BY <2>2, <2>3 DEF CallInv
<1>5. ASSUME NEW c \in Calls, SetMinLevel(c) \/ Unhook(c) \/ UnhookEmpty(c) PROVE Shared'
  BY <1>5 DEF SetMinLevel, Unhook, UnhookEmpty, config, CallInv
<1>6. ASSUME NEW c \in Calls, Hook(c) PROVE Shared'
  <2>1. hookSeq' = hookSeq + 1 /\ hookSeq \in Nat /\ hookSeq' \in Nat
    BY <1>6 DEF Hook, TypeOK
  <2>2. PICK s \in Sinks, n \in 1..MaxHookLevels : \E levels \in [1..n -> Levels] :
            hooks' = hooks \cup HookEntries(hookSeq', s, levels)
    BY <1>6 DEF Hook
  <2>3. PICK levels \in [1..n -> Levels] :
            hooks' = hooks \cup HookEntries(hookSeq', s, levels)
    BY <2>2
  <2> DEFINE new == HookEntries(hookSeq', s, levels)
  <2>4. n \in Nat /\ n >= 1
    BY LoggerAssumption
  <2>5. \A j, k \in new : j.ID = hookSeq' /\ j.Writer = k.Writer
    BY <2>1, <2>4, HookEntriesShare
  <2>6. \A k \in hooks : k.ID \in Nat /\ k.ID < hookSeq'
    BY <2>1 DEF HookInv, TypeOK
  <2> HIDE DEF new
  <2>7. hooks' = hooks \cup new
    BY <2>3 DEF new
  <2>8. ASSUME NEW j \in hooks', NEW k \in hooks', j.ID = k.ID PROVE j.Writer = k.Writer
    BY <2>1, <2>5, <2>6, <2>7, <2>8 DEF CallInv
  <2>9. QED
    BY <2>8
<1>7. ASSUME NEW c \in Calls, NEW t,
             Enter(c, t) \/ SinkAccepts(c, t) \/ SinkFails(c, t) \/ SinkPanics(c, t)
      PROVE CallInv'
  BY <1>7 DEF Enter, SinkAccepts, SinkFails, SinkPanics, Leave, At, GoTo, TypeOK, config, CallInv
<1>8. QED
  BY <1>1, <1>2, <1>3, <1>4, <1>5, <1>6, <1>7, StepCases DEF CallInv

-----------------------------------------------------------------------------
(* Each action of the detailed logger, as callers see it.                  *)

AtomicStep == [Atomic!Next]_(Atomic!vars)

\* A step that changes nothing a caller sees.
LEMMA Stutters ==
    ASSUME UNCHANGED <<config, up, op, Phases, CallLevels, Outcomes>>
    PROVE  AtomicStep
BY DEF AtomicStep, Atomic!vars, Atomic!config, config, Registered

\* What a step of one call that only moves it leaves alone.
LEMMA MovesWithin ==
    ASSUME TypeOK, NEW c \in Calls, NEW to, pc' = [pc EXCEPT ![c] = to],
           PhaseOf(to) = PhaseOf(pc[c]), PhaseOf(to) # "returning",
           PhaseOf(to) = "called" => level'[c] = level[c],
           \A d \in Calls \ {c} :
               level'[d] = level[d] /\ plan'[d] = plan[d] /\ errs'[d] = errs[d]
    PROVE  UNCHANGED <<Phases, CallLevels, Outcomes>>
<1>1. /\ Phases' = [Phases EXCEPT ![c] = PhaseOf(to)]
      /\ CallLevels' = [CallLevels EXCEPT ![c] =
                           IF PhaseOf(to) = "called" THEN level'[c] ELSE NoLevel]
      /\ Outcomes' = [Outcomes EXCEPT ![c] = NoOutcome]
  BY Moves
<1>2. /\ Phases[c] = PhaseOf(to)
      /\ CallLevels[c] = IF PhaseOf(to) = "called" THEN level'[c] ELSE NoLevel
      /\ Outcomes[c] = NoOutcome
  BY DEF Phases, CallLevels, Outcomes
<1>3. Phases' = Phases /\ Outcomes' = Outcomes
  BY <1>1, <1>2 DEF Phases, Outcomes
<1>4. CallLevels' = CallLevels
  BY <1>1, <1>2 DEF CallLevels
<1>5. QED
  BY <1>3, <1>4

\* Beginning a call is invoking it.
LEMMA BeginInvokes ==
    ASSUME TypeOK, NEW c \in Calls, NEW operation, NEW lv, NEW from, NEW label \in {"rlock", "lock"},
           Begin(c, operation, lv, from), GoTo(c, label)
    PROVE  Atomic!Invoke(c, operation, lv)
<1>1. /\ up /\ pc[c] = "idle" /\ pc' = [pc EXCEPT ![c] = label]
      /\ op' = [op EXCEPT ![c] = operation] /\ level' = [level EXCEPT ![c] = lv]
      /\ UNCHANGED <<config, up, plan, errs>>
  BY DEF Begin, At, GoTo, delivery
<1>2. PhaseOf(label) = "called" /\ PhaseOf("idle") = "idle" /\ level'[c] = lv
  BY <1>1 DEF PhaseOf, TypeOK
<1>3. /\ Phases' = [Phases EXCEPT ![c] = "called"]
      /\ CallLevels' = [CallLevels EXCEPT ![c] = lv]
      /\ Outcomes' = [Outcomes EXCEPT ![c] = NoOutcome]
  <2>1. /\ Phases' = [Phases EXCEPT ![c] = PhaseOf(label)]
        /\ CallLevels' = [CallLevels EXCEPT ![c] =
                             IF PhaseOf(label) = "called" THEN level'[c] ELSE NoLevel]
        /\ Outcomes' = [Outcomes EXCEPT ![c] =
                           IF PhaseOf(label) = "returning" THEN Outcome(c)' ELSE NoOutcome]
    BY <1>1, Moves DEF TypeOK
  <2>2. QED
    BY <2>1, <1>2
<1>4. Phases[c] = "idle" /\ Outcomes' = Outcomes
  BY <1>1, <1>2, <1>3 DEF Phases, Outcomes
<1>5. QED
  BY <1>1, <1>3, <1>4 DEF Atomic!Invoke, Atomic!Move, Atomic!config, config, Registered

\* Every kind of call begins by being invoked.
LEMMA StartInvokes ==
    ASSUME TypeOK, NEW c \in Calls, Start(c)
    PROVE  AtomicStep
<1>1. Atomic!InvokeSome(c)
  <2>1. CASE CallWriteLog(c)
    BY <2>1, BeginInvokes DEF CallWriteLog, Atomic!InvokeSome
  <2>2. CASE CallWrite(c)
    BY <2>2, BeginInvokes DEF CallWrite, Atomic!InvokeSome
  <2>3. CASE CallFromSink(c)
    <3>1. PICK p \in Calls, lv \in SinkLevels : \E t \in writing[p] :
              Begin(c, "WriteLog", lv, [call |-> p, target |-> t]) /\ GoTo(c, "rlock")
      BY <2>3 DEF CallFromSink
    <3>2. Atomic!Invoke(c, "WriteLog", lv)
      BY <3>1, BeginInvokes
    <3>3. QED
      BY <3>2, LoggerAssumption DEF Atomic!InvokeSome
  <2>4. CASE CallSetMinLevel(c) \/ CallHook(c) \/ CallUnhook(c)
    <3>1. PICK operation \in {"SetMinLevel", "Hook", "Unhook"} :
              Begin(c, operation, NoLevel, NoCall) /\ GoTo(c, "lock")
      BY <2>4 DEF CallSetMinLevel, CallHook, CallUnhook
    <3>2. Atomic!Invoke(c, operation, NoLevel)
      BY <3>1, BeginInvokes
    <3>3. QED
      BY <3>2 DEF Atomic!InvokeSome, Atomic!Changing
  <2>5. QED
    BY <2>1, <2>2, <2>3, <2>4 DEF Start
<1>2. QED
  BY <1>1 DEF AtomicStep, Atomic!Next

\* Waiting for the lock, collecting the sinks and recovering are invisible.
LEMMA InvisibleSteps ==
    ASSUME TypeOK, NEW c \in Calls, RLock(c) \/ Lock(c) \/ Match(c) \/ Unwind(c)
    PROVE  AtomicStep
<1>1. UNCHANGED <<config, up, op>>
  BY DEF RLock, Lock, Match, Unwind, RUnlock
<1>2. PICK to : pc' = [pc EXCEPT ![c] = to] /\ PhaseOf(to) = PhaseOf(pc[c])
                /\ PhaseOf(to) # "returning"
  BY DEF RLock, Lock, Match, Unwind, RUnlock, At, GoTo, PhaseOf
<1>3. PhaseOf(to) = "called" => level'[c] = level[c]
  BY <1>2 DEF RLock, Lock, Match, Unwind, RUnlock, At, PhaseOf
<1>4. \A d \in Calls \ {c} : level'[d] = level[d] /\ plan'[d] = plan[d] /\ errs'[d] = errs[d]
  BY DEF RLock, Lock, Match, Unwind, RUnlock, TypeOK, delivery
<1>5. QED
  BY <1>1, <1>2, <1>3, <1>4, MovesWithin, Stutters

\* A write that begins or ends without a panic is invisible.
LEMMA InvisibleWrites ==
    ASSUME TypeOK, NEW c \in Calls, NEW t, Enter(c, t) \/ SinkAccepts(c, t) \/ SinkFails(c, t)
    PROVE  AtomicStep
<1>1. UNCHANGED <<config, up, op, pc, level, plan>>
  BY DEF Enter, SinkAccepts, SinkFails
<1>2. pc[c] = "deliver" /\ PhaseOf("deliver") = "called"
  BY DEF Enter, SinkAccepts, SinkFails, Leave, At, PhaseOf
<1>3. \A d \in Calls \ {c} : errs'[d] = errs[d]
  BY DEF Enter, SinkAccepts, SinkFails, TypeOK
<1>4. pc' = [pc EXCEPT ![c] = "deliver"]
  BY <1>1, <1>2 DEF TypeOK
<1>5. UNCHANGED <<Phases, CallLevels, Outcomes>>
  BY <1>1, <1>2, <1>3, <1>4, MovesWithin
<1>6. QED
  BY <1>1, <1>5, Stutters

\* The end of a delivery is the moment it takes effect.
LEMMA WaitDelivers ==
    ASSUME IInv, CallInv, NEW c \in Calls, Wait(c)
    PROVE  AtomicStep
<1>1. /\ up /\ pc[c] = "deliver" /\ pc' = [pc EXCEPT ![c] = "return"]
      /\ UNCHANGED <<config, up, op, level, plan, errs>>
  BY DEF Wait, At, GoTo, delivery
<1>2. PhaseOf("deliver") = "called" /\ PhaseOf("return") = "returning"
  BY DEF PhaseOf
<1>3. /\ Phases' = [Phases EXCEPT ![c] = "returning"]
      /\ CallLevels' = [CallLevels EXCEPT ![c] = NoLevel]
      /\ Outcomes' = [Outcomes EXCEPT ![c] = Outcome(c)']
  BY <1>1, <1>2, Moves DEF IInv
<1>4. Phases[c] = "called" /\ CallLevels[c] = level[c]
  BY <1>1, <1>2 DEF Phases, CallLevels
<1>5. plan[c] = Matching(level[c]) /\ errs[c] \subseteq plan[c]
  BY <1>1 DEF IInv, DeliveryMatchesConfig, Delivering, FrameInv
<1>6. Outcome(c)' = Outcome(c)
  BY <1>1 DEF Outcome, Result, AnyHandlerActive
<1>7. /\ Outcome(c).to = Atomic!Recipients(level[c])
      /\ Outcome(c).failed \in SUBSET Atomic!Recipients(level[c])
      /\ Outcome(c).n = IF Atomic!Active(level[c]) # {} THEN "len" ELSE "zero"
      /\ Outcome(c) = [to |-> Outcome(c).to, failed |-> Outcome(c).failed, n |-> Outcome(c).n]
  <2>1. Recipients(errs[c]) \subseteq Recipients(plan[c])
    BY <1>5 DEF Recipients
  <2>2. QED
    BY <1>5, <2>1, MatchedRecipients DEF Outcome, Result
<1>8. op[c] \in Atomic!Logging
  BY <1>1 DEF CallInv, Atomic!Logging
<1>9. Atomic!Deliver(c)
  BY <1>1, <1>3, <1>4, <1>6, <1>7, <1>8
     DEF Atomic!Deliver, Atomic!Move, Atomic!config, config, Registered
<1>10. QED
  BY <1>9 DEF AtomicStep, Atomic!Next

\* A panic in the only sink is that of the call; one beside others ends the process.
LEMMA SinkPanicsVisibly ==
    ASSUME IInv, CallInv, NEW c \in Calls, NEW t \in writing[c], SinkPanics(c, t)
    PROVE  AtomicStep
<1>1. /\ up /\ pc[c] = "deliver"
      /\ UNCHANGED <<config, op, level, plan, errs>>
  BY DEF SinkPanics, Leave, At
<1>2. PhaseOf("deliver") = "called" /\ PhaseOf("unwind") = "panicked"
  BY DEF PhaseOf
<1>3. Phases[c] = "called" /\ CallLevels[c] = level[c] /\ Outcomes[c] = NoOutcome
  BY <1>1, <1>2 DEF Phases, CallLevels, Outcomes
<1>4. op[c] \in Atomic!Logging
  BY <1>1 DEF CallInv, Atomic!Logging
<1>5. plan[c] = Matching(level[c]) /\ t \in plan[c]
  BY <1>1 DEF IInv, DeliveryMatchesConfig, Delivering, FrameInv
<1>6. Recipients(plan[c]) = Atomic!Recipients(CallLevels[c])
  BY <1>3, <1>5, MatchedRecipients
<1>7. CASE plan[c] = {t} /\ GoTo(c, "unwind") /\ UNCHANGED up
  <2>1. /\ Phases' = [Phases EXCEPT ![c] = "panicked"]
        /\ CallLevels' = [CallLevels EXCEPT ![c] = NoLevel]
        /\ Outcomes' = [Outcomes EXCEPT ![c] = NoOutcome]
    <3>1. /\ Phases' = [Phases EXCEPT ![c] = PhaseOf("unwind")]
          /\ CallLevels' = [CallLevels EXCEPT ![c] =
                               IF PhaseOf("unwind") = "called" THEN level'[c] ELSE NoLevel]
          /\ Outcomes' = [Outcomes EXCEPT ![c] =
                             IF PhaseOf("unwind") = "returning" THEN Outcome(c)' ELSE NoOutcome]
      BY <1>1, <1>7, Moves DEF IInv, GoTo
    <3>2. QED
      BY <3>1, <1>2
  <2>2. Outcomes' = Outcomes
    BY <1>3, <2>1 DEF Outcomes
  <2>3. \E r \in Recipients(plan[c]) : Recipients(plan[c]) = {r}
    <3>1. Recipients({t}) = {[reg |-> t.reg, sink |-> t.w.sink]}
      BY DEF Recipients
    <3>2. QED
      BY <1>7, <3>1
  <2>4. Atomic!PanicOfOne(c)
    BY <1>1, <1>3, <1>4, <1>6, <1>7, <2>1, <2>2, <2>3
       DEF Atomic!PanicOfOne, Atomic!Move, Atomic!config, config, Registered
  <2>5. QED
    BY <2>4 DEF AtomicStep, Atomic!Next
<1>8. CASE plan[c] # {t} /\ up' = FALSE /\ UNCHANGED pc
  <2>1. UNCHANGED <<Phases, CallLevels, Outcomes>>
    <3>1. pc' = [pc EXCEPT ![c] = "deliver"]
      BY <1>1, <1>8 DEF IInv, TypeOK
    <3>2. QED
      BY <1>1, <1>2, <3>1, MovesWithin DEF IInv
  <2>2. PICK u \in plan[c] : u # t
    BY <1>5, <1>8
  <2>3. u.reg # t.reg
    BY <1>5, <2>2, OnceByInvariant DEF OncePerRegistration
  <2>4. \E r, q \in Recipients(plan[c]) : r # q
    <3>1. [reg |-> u.reg, sink |-> u.w.sink] # [reg |-> t.reg, sink |-> t.w.sink]
      BY <2>3
    <3>2. QED
      BY <1>5, <2>2, <3>1 DEF Recipients
  <2>5. Atomic!PanicOfMany(c)
    BY <1>1, <1>3, <1>4, <1>6, <1>8, <2>1, <2>4
       DEF Atomic!PanicOfMany, Atomic!config, config, Registered
  <2>6. QED
    BY <2>5 DEF AtomicStep, Atomic!Next
<1>9. QED
  BY <1>7, <1>8 DEF SinkPanics

\* A call that returns, or whose panic is recovered, is over.
LEMMA EndResponds ==
    ASSUME TypeOK, NEW c \in Calls, Return(c) \/ Recovered(c)
    PROVE  AtomicStep
<1>1. /\ up /\ pc[c] \in {"return", "panicked"} /\ pc' = [pc EXCEPT ![c] = "idle"]
      /\ op' = [op EXCEPT ![c] = "none"] /\ UNCHANGED <<config, up>>
      /\ \A d \in Calls \ {c} : level'[d] = level[d] /\ plan'[d] = plan[d] /\ errs'[d] = errs[d]
  BY DEF Return, Recovered, RUnlock, At, GoTo, TypeOK, delivery
<1>2. PhaseOf("idle") = "idle" /\ PhaseOf(pc[c]) \in {"returning", "panicked"}
  BY <1>1 DEF PhaseOf
<1>3. /\ Phases' = [Phases EXCEPT ![c] = "idle"]
      /\ CallLevels' = [CallLevels EXCEPT ![c] = NoLevel]
      /\ Outcomes' = [Outcomes EXCEPT ![c] = NoOutcome]
  <2>1. /\ Phases' = [Phases EXCEPT ![c] = PhaseOf("idle")]
        /\ CallLevels' = [CallLevels EXCEPT ![c] =
                             IF PhaseOf("idle") = "called" THEN level'[c] ELSE NoLevel]
        /\ Outcomes' = [Outcomes EXCEPT ![c] =
                           IF PhaseOf("idle") = "returning" THEN Outcome(c)' ELSE NoOutcome]
    BY <1>1, Moves
  <2>2. QED
    BY <2>1, <1>2
<1>4. Phases[c] \in {"returning", "panicked"} /\ CallLevels' = CallLevels
  BY <1>2, <1>3 DEF Phases, CallLevels
<1>5. Atomic!Respond(c)
  BY <1>1, <1>3, <1>4
     DEF Atomic!Respond, Atomic!Move, Atomic!NoResult, NoOutcome, Atomic!config, config, Registered
<1>6. QED
  BY <1>5 DEF AtomicStep, Atomic!Next

\* A change takes effect when the writer, alone with the lock, gives it back.
LEMMA ChangeMoves ==
    ASSUME IInv, CallInv, NEW c \in Calls, NEW operation, NEW next \in {"idle", "panicked"},
           Exclusive(c, operation), Unlock(c, next)
    PROVE  /\ up /\ op[c] = operation
           /\ Phases[c] = "called" /\ Phases' = [Phases EXCEPT ![c] = next]
           /\ op' = IF next = "idle" THEN [op EXCEPT ![c] = "none"] ELSE op
           /\ UNCHANGED <<up, CallLevels, Outcomes>>
<1>1. up /\ pc[c] = "drain" /\ op[c] = operation
  BY DEF Exclusive, At
<1>2. level[c] = NoLevel
  BY <1>1 DEF CallInv
<1>3. PhaseOf("drain") = "called" /\ PhaseOf(next) = next
  BY DEF PhaseOf
<1>4. /\ Phases' = [Phases EXCEPT ![c] = PhaseOf(next)]
      /\ UNCHANGED <<up, CallLevels, Outcomes>>
      /\ op' = IF next = "idle" THEN [op EXCEPT ![c] = "none"] ELSE op
  <2>1. PhaseOf(next) # "called" /\ PhaseOf(next) # "returning" /\ PhaseOf(pc[c]) # "returning"
    BY <1>1, <1>3
  <2>2. QED
    BY <1>2, <2>1, UnlockMoves DEF IInv
<1>5. QED
  BY <1>1, <1>3, <1>4 DEF Phases

\* SetMinLevel takes effect at its one assignment.
LEMMA SetMinLevelChanges ==
    ASSUME IInv, CallInv, NEW c \in Calls, SetMinLevel(c)
    PROVE  AtomicStep
<1>1. Exclusive(c, "SetMinLevel") /\ Unlock(c, "idle")
  BY DEF SetMinLevel
<1>2. Atomic!Change(c, "SetMinLevel")
  BY <1>1, ChangeMoves DEF Atomic!Change, Atomic!Move
<1>3. Atomic!SetMinLevel(c)
  BY <1>2 DEF SetMinLevel, Atomic!SetMinLevel, Registered
<1>4. QED
  BY <1>3 DEF AtomicStep, Atomic!Next

\* The entries of a new Hook call are one new registration.
LEMMA HookChanges ==
    ASSUME IInv, CallInv, NEW c \in Calls, Hook(c)
    PROVE  AtomicStep
<1>1. Atomic!Change(c, "Hook")
  <2>1. Exclusive(c, "Hook") /\ Unlock(c, "idle")
    BY DEF Hook
  <2>2. QED
    BY <2>1, ChangeMoves DEF Atomic!Change, Atomic!Move
<1>2. hookSeq' = hookSeq + 1 /\ hookSeq' \in Nat /\ UNCHANGED minimumLogLevel
  BY DEF Hook, IInv, TypeOK
<1>3. PICK s \in Sinks, n \in 1..MaxHookLevels : \E levels \in [1..n -> Levels] :
          hooks' = hooks \cup HookEntries(hookSeq', s, levels)
  BY DEF Hook
<1>4. PICK levels \in [1..n -> Levels] : hooks' = hooks \cup HookEntries(hookSeq', s, levels)
  BY <1>3
<1> DEFINE new == HookEntries(hookSeq', s, levels)
           lvs == {k.Level : k \in new}
           r == [id |-> hookSeq', sink |-> s, levels |-> lvs]
           Of(set, k) == [id |-> k.ID, sink |-> k.Writer.sink,
                          levels |-> {x.Level : x \in {y \in set : y.ID = k.ID}}]
<1>5. /\ new # {}
      /\ \A k \in new : k.ID = hookSeq' /\ k.Writer.sink = s /\ k.Level \in Levels
  <2>1. n \in Nat /\ n >= 1
    BY LoggerAssumption
  <2>2. QED
    BY <1>2, <2>1, HookEntriesShare
<1>6. hooks' = hooks \cup new
  BY <1>4
<1> HIDE DEF new
<1>7. lvs \in (SUBSET Levels) \ {{}}
  <2>1. PICK k \in new : TRUE
    BY <1>5
  <2>2. k.Level \in lvs /\ \A l \in lvs : l \in Levels
    BY <1>5, <2>1
  <2> HIDE DEF lvs
  <2>3. QED
    BY <2>2
<1>8. \A k \in hooks : k.ID # hookSeq'
  BY <1>2 DEF IInv, HookInv, TypeOK
<1>9. \A k \in hooks : Of(hooks', k) = Of(hooks, k)
  <2>1. \A k \in hooks : {y \in hooks' : y.ID = k.ID} = {y \in hooks : y.ID = k.ID}
    BY <1>5, <1>6, <1>8
  <2>2. QED
    BY <2>1
<1>10. \A k \in new : Of(hooks', k) = r
  <2>1. {y \in hooks' : y.ID = hookSeq'} = new
    BY <1>5, <1>6, <1>8
  <2>2. QED
    BY <1>5, <2>1
<1>11. Registered' = {Of(hooks', k) : k \in hooks'} /\ Registered = {Of(hooks, k) : k \in hooks}
  BY DEF Registered
<1> HIDE DEF Of, r
<1>12. Registered' = Registered \cup {r}
  BY <1>5, <1>6, <1>9, <1>10, <1>11
<1>13. Atomic!Hook(c)
  BY <1>1, <1>2, <1>7, <1>12 DEF Atomic!Hook, r
<1>14. QED
  BY <1>13 DEF AtomicStep, Atomic!Next

\* Taking out the entries of an ID takes out the registration of that ID.
LEMMA UnhookChanges ==
    ASSUME IInv, CallInv, NEW c \in Calls, Unhook(c)
    PROVE  AtomicStep
<1>1. Atomic!Change(c, "Unhook")
  <2>1. Exclusive(c, "Unhook") /\ Unlock(c, "idle")
    BY DEF Unhook
  <2>2. QED
    BY <2>1, ChangeMoves DEF Atomic!Change, Atomic!Move
<1>2. PICK id \in 1..hookSeq : hooks' = {k \in hooks : k.ID # id}
  BY DEF Unhook
<1>3. hooks # {} /\ UNCHANGED <<minimumLogLevel, hookSeq>>
  BY DEF Unhook
<1> DEFINE Of(set, k) == [id |-> k.ID, sink |-> k.Writer.sink,
                          levels |-> {x.Level : x \in {y \in set : y.ID = k.ID}}]
<1>4. \A k \in hooks' : Of(hooks', k) = Of(hooks, k)
  <2>1. \A k \in hooks' : {y \in hooks' : y.ID = k.ID} = {y \in hooks : y.ID = k.ID}
    BY <1>2
  <2>2. QED
    BY <2>1
<1>5. Registered' = {Of(hooks', k) : k \in hooks'} /\ Registered = {Of(hooks, k) : k \in hooks}
  BY DEF Registered
<1>6. \A k \in hooks : Of(hooks, k).id = k.ID
  OBVIOUS
<1> HIDE DEF Of
<1>7. Registered' = {x \in Registered : x.id # id}
  BY <1>2, <1>4, <1>5, <1>6
<1>8. Registered # {}
  BY <1>3, <1>5
<1>9. Atomic!Unhook(c)
  BY <1>1, <1>3, <1>7, <1>8 DEF Atomic!Unhook
<1>10. QED
  BY <1>9 DEF AtomicStep, Atomic!Next

\* The panic of an Unhook without hooks is the caller's.
LEMMA UnhookEmptyPanics ==
    ASSUME IInv, CallInv, NEW c \in Calls, UnhookEmpty(c)
    PROVE  AtomicStep
<1>1. Exclusive(c, "Unhook") /\ Unlock(c, "panicked") /\ hooks = {} /\ UNCHANGED config
  BY DEF UnhookEmpty
<1>2. /\ up /\ op[c] = "Unhook"
      /\ Phases[c] = "called" /\ Phases' = [Phases EXCEPT ![c] = "panicked"]
      /\ UNCHANGED <<up, op, CallLevels, Outcomes>>
  BY <1>1, ChangeMoves
<1>3. Registered = {} /\ UNCHANGED Registered
  BY <1>1 DEF Registered, config
<1>4. Atomic!UnhookNothing(c)
  BY <1>1, <1>2, <1>3 DEF Atomic!UnhookNothing, Atomic!Move, Atomic!config, config
<1>5. QED
  BY <1>4 DEF AtomicStep, Atomic!Next

-----------------------------------------------------------------------------
\* Every step of the logger is a step of the atomic one, or none.
LEMMA StepSimulates ==
    ASSUME IInv, CallInv, [Next]_vars
    PROVE  AtomicStep
<1>1. CASE UNCHANGED vars
  <2>1. UNCHANGED <<config, up, op, Phases, CallLevels>>
    BY <1>1 DEF vars, Phases, CallLevels
  <2>2. UNCHANGED Outcomes
    BY <1>1 DEF vars, delivery, Outcomes, Outcome, Result, AnyHandlerActive
  <2>3. QED
    BY <2>1, <2>2, Stutters
<1>2. CASE Next
  <2>1. PICK c \in Calls :
              \/ Start(c) \/ RLock(c) \/ Match(c) \/ Wait(c) \/ Return(c) \/ Unwind(c)
              \/ Recovered(c) \/ Lock(c) \/ SetMinLevel(c) \/ Hook(c) \/ Unhook(c)
              \/ UnhookEmpty(c)
              \/ \E t \in plan[c] : Enter(c, t)
              \/ \E t \in writing[c] : SinkAccepts(c, t) \/ SinkFails(c, t) \/ SinkPanics(c, t)
    BY <1>2, StepCases
  <2>2. CASE Start(c)
    BY <2>2, StartInvokes DEF IInv
  <2>3. CASE RLock(c) \/ Lock(c) \/ Match(c) \/ Unwind(c)
    BY <2>3, InvisibleSteps DEF IInv
  <2>4. CASE Wait(c)
    BY <2>4, WaitDelivers
  <2>5. CASE Return(c) \/ Recovered(c)
    BY <2>5, EndResponds DEF IInv
  <2>6. CASE SetMinLevel(c) \/ Hook(c) \/ Unhook(c) \/ UnhookEmpty(c)
    BY <2>6, SetMinLevelChanges, HookChanges, UnhookChanges, UnhookEmptyPanics
  <2>7. CASE \/ \E t \in plan[c] : Enter(c, t)
             \/ \E t \in writing[c] : SinkAccepts(c, t) \/ SinkFails(c, t)
    BY <2>7, InvisibleWrites DEF IInv
  <2>8. CASE \E t \in writing[c] : SinkPanics(c, t)
    BY <2>8, SinkPanicsVisibly
  <2>9. QED
    BY <2>1, <2>2, <2>3, <2>4, <2>5, <2>6, <2>7, <2>8
<1>3. QED
  BY <1>1, <1>2

\* A logger nobody has called is the atomic one nobody has called.
LEMMA InitSimulates ==
    ASSUME Init
    PROVE  CallInv /\ Atomic!Init
<1>1. CallInv
  BY DEF Init, CallInv
<1>2. PhaseOf("idle") = "idle"
  BY DEF PhaseOf
<1>3. /\ Phases = [c \in Calls |-> "idle"] /\ CallLevels = [c \in Calls |-> NoLevel]
      /\ Outcomes = [c \in Calls |-> NoOutcome]
  BY <1>2 DEF Init, Phases, CallLevels, Outcomes
<1>4. Registered = {}
  BY DEF Init, Registered
<1>5. QED
  BY <1>1, <1>3, <1>4 DEF Init, Atomic!Init, Atomic!NoResult, NoOutcome

\* For every set of calls, sinks, handlers and levels, a call takes effect at
\* one moment: the goroutines, the lock and the wrappers of src/logger.go do
\* nothing a logger without them could not do (IsAtomic).
THEOREM ImplementsAtomicLogger == Spec => IsAtomic
<1>1. Init => CallInv /\ Atomic!Init
  BY InitSimulates
<1>2. IInv /\ CallInv /\ [Next]_vars => CallInv'
  BY CallInvStep
<1>3. IInv /\ CallInv /\ [Next]_vars => [Atomic!Next]_(Atomic!vars)
  BY StepSimulates DEF AtomicStep
<1>4. QED
  BY <1>1, <1>2, <1>3, Inductive, PTL DEF Spec, IsAtomic, Atomic!Spec
=============================================================================
