------------------------------- MODULE Logger -------------------------------
(***************************************************************************)
(* The logger of src/logger.go: goroutines that call WriteLog, Write,      *)
(* Hook, Unhook and SetMinLevel on one *Logger, the reader-writer lock the *)
(* configuration is read and changed under, the fan-out of a message to    *)
(* the matching sinks, one goroutine each, and the mutex each sink is      *)
(* wrapped in.                                                             *)
(*                                                                         *)
(* An element of Calls is a slot for one call in progress; pc says where   *)
(* it is.  The lock behaves as Go's sync.RWMutex: once a writer has asked  *)
(* for it, a new reader waits until that writer is done ("rwait").         *)
(* The Write method of a sink is the environment: it may succeed, fail,    *)
(* panic (Panicky) or log through the same logger (Reentrant).             *)
(***************************************************************************)
EXTENDS Integers, FiniteSets, Sequences

CONSTANTS
    Calls,          \* slots for concurrent calls
    Sinks,          \* the io.Writers callers register
    Guarded,        \* sinks made by this package: already a *writer with a mutex
    Reentrant,      \* sinks whose Write may log through this logger
    SinkLevels,     \* the levels they log at
    Panicky,        \* sinks whose Write may panic
    Levels,         \* the LogLevels in use
    Handlers,       \* the handlers given to NewLogger
    HandlerSink,    \* handler -> sink it writes to
    HandlerMin,     \* handler -> threshold of WithMinLevel, or NoLevel
    NoLevel,
    NoCall,
    MaxHookSeq,     \* bound: Hook calls in a behaviour
    MaxHookLevels   \* bound: levels named by one Hook call

ASSUME LoggerAssumption ==
    /\ Levels \subseteq Int /\ Levels # {}
    /\ NoLevel \notin Levels /\ SinkLevels \subseteq Levels
    /\ NoCall \notin Calls
    /\ Guarded \subseteq Sinks /\ Reentrant \subseteq Sinks /\ Panicky \subseteq Sinks
    /\ HandlerSink \in [Handlers -> Sinks]
    /\ HandlerMin \in [Handlers -> Levels \cup {NoLevel}]
    /\ MaxHookSeq \in Nat /\ MaxHookLevels \in Nat

VARIABLES
    minimumLogLevel,
    hooks,      \* the registered hooks: records [ID, pos, Level, Writer]
    hookSeq,
    readers,    \* calls that hold the read lock
    writer,     \* the call that holds, or has announced, the write lock
    locked,     \* the sink mutexes that are held
    up,         \* FALSE once a panic in a sink goroutine has ended the process
    pc, op,
    level,      \* the level a WriteLog call logs at
    parent,     \* for a call made from inside a sink: that sink's write
    plan,       \* the sinks WriteLog collected
    writing,    \* those whose Write is running
    errs,       \* those whose Write returned an error
    accepted    \* history: those whose Write returned no error

config == <<minimumLogLevel, hooks, hookSeq>>
delivery == <<plan, writing, errs, accepted>>
vars == <<config, readers, writer, locked, up, pc, op, level, parent, delivery>>

-----------------------------------------------------------------------------
(* Sinks and their mutexes.  A writer is a sink with the mutexes a Write   *)
(* through it takes: its own if this package made it, and the one of the   *)
(* wrapper the registration added otherwise (WithMinLevel hides a package  *)
(* writer, so the registration adds a second one).                         *)

HandlerReg(h) == <<"handler", h>>
HookReg(id) == <<"hook", id>>
OwnMutex(s) == <<"own", s>>

\* Mutant: a sink of the caller's is not wrapped.
EnsureThreadSafeOwnOnly(s, leveled, reg) ==
    [sink |-> s, mutexes |-> IF s \in Guarded THEN {OwnMutex(s)} ELSE {}]

EnsureThreadSafe(s, leveled, reg) ==
    [sink |-> s,
     mutexes |-> (IF s \in Guarded THEN {OwnMutex(s)} ELSE {})
                 \cup (IF s \in Guarded /\ ~leveled THEN {} ELSE {reg})]

HandlerTarget(h) ==
    [reg |-> HandlerReg(h), pos |-> 1,
     w |-> EnsureThreadSafe(HandlerSink[h], HandlerMin[h] # NoLevel, HandlerReg(h))]

HookTarget(k) == [reg |-> HookReg(k.ID), pos |-> k.pos, w |-> k.Writer]

\* The level from which a handler fires (unwrapLeveled and its use).
Threshold(h) == IF HandlerMin[h] = NoLevel THEN minimumLogLevel ELSE HandlerMin[h]

\* The sinks a message at level lv goes to: hooks of exactly that level and
\* handlers whose threshold it reaches.
Matching(lv) ==
    {HookTarget(k) : k \in {x \in hooks : x.Level = lv}}
    \cup {HandlerTarget(h) : h \in {x \in Handlers : lv >= Threshold(x)}}

\* Mutant: hooks count as handlers.
AnySinkActive(targets) == targets # {}

AnyHandlerActive(targets) == \E h \in Handlers : HandlerTarget(h) \in targets

\* What WriteLog returns once its sinks are done.
Result(c) == [n |-> IF AnyHandlerActive(plan[c]) THEN "len" ELSE "zero",
              err |-> errs[c] # {}]

Pending(c) == plan[c] \ (writing[c] \cup errs[c] \cup accepted[c])

-----------------------------------------------------------------------------
Init ==
    /\ minimumLogLevel \in Levels
    /\ hooks = {} /\ hookSeq = 0
    /\ readers = {} /\ writer = NoCall /\ locked = {} /\ up = TRUE
    /\ pc = [c \in Calls |-> "idle"]
    /\ op = [c \in Calls |-> "none"]
    /\ level = [c \in Calls |-> NoLevel]
    /\ parent = [c \in Calls |-> NoCall]
    /\ plan = [c \in Calls |-> {}]
    /\ writing = [c \in Calls |-> {}]
    /\ errs = [c \in Calls |-> {}]
    /\ accepted = [c \in Calls |-> {}]

At(c, label) == up /\ pc[c] = label
GoTo(c, label) == pc' = [pc EXCEPT ![c] = label]

Begin(c, operation, lv, from) ==
    /\ At(c, "idle")
    /\ op' = [op EXCEPT ![c] = operation]
    /\ level' = [level EXCEPT ![c] = lv]
    /\ parent' = [parent EXCEPT ![c] = from]
    /\ UNCHANGED <<config, readers, writer, locked, up, delivery>>

CallWriteLog(c) ==
    \E lv \in Levels : Begin(c, "WriteLog", lv, NoCall) /\ GoTo(c, "rlock")

\* Logger.Write takes its level from minimumLogLevel before any lock is held.
CallWrite(c) == Begin(c, "Write", minimumLogLevel, NoCall) /\ GoTo(c, "rlock")

\* A sink that logs while its own Write runs; it waits for that call.
CallFromSink(c) ==
    \E p \in Calls, lv \in SinkLevels : \E t \in writing[p] :
        /\ t.w.sink \in Reentrant
        /\ \A d \in Calls : parent[d] # [call |-> p, target |-> t]
        /\ Begin(c, "WriteLog", lv, [call |-> p, target |-> t])
        /\ GoTo(c, "rlock")

CallSetMinLevel(c) == Begin(c, "SetMinLevel", NoLevel, NoCall) /\ GoTo(c, "lock")

CallHook(c) ==
    /\ hookSeq + Cardinality({d \in Calls : op[d] = "Hook"}) < MaxHookSeq
    /\ Begin(c, "Hook", NoLevel, NoCall)
    /\ GoTo(c, "lock")

CallUnhook(c) == Begin(c, "Unhook", NoLevel, NoCall) /\ GoTo(c, "lock")

-----------------------------------------------------------------------------
(* l.m, a sync.RWMutex *)

RLock(c) ==
    /\ At(c, "rlock")
    /\ \/ writer = NoCall /\ GoTo(c, "match") /\ readers' = readers \cup {c}
       \/ writer # NoCall /\ GoTo(c, "rwait") /\ UNCHANGED readers
    /\ UNCHANGED <<config, writer, locked, up, op, level, parent, delivery>>

Lock(c) ==
    /\ At(c, "lock") /\ writer = NoCall
    /\ writer' = c
    /\ GoTo(c, "drain")
    /\ UNCHANGED <<config, readers, locked, up, op, level, parent, delivery>>

\* Mutant: the readers that wait are not let in.
UnlockAlone(c, next) ==
    /\ writer' = NoCall
    /\ pc' = [pc EXCEPT ![c] = next]
    /\ op' = IF next = "idle" THEN [op EXCEPT ![c] = "none"] ELSE op
    /\ UNCHANGED <<readers, locked, up, level, parent, delivery>>

\* The writer is done: every reader that waited for it holds the lock now.
Unlock(c, next) ==
    /\ writer' = NoCall
    /\ readers' = readers \cup {d \in Calls : pc[d] = "rwait"}
    /\ pc' = [d \in Calls |-> IF d = c THEN next
                              ELSE IF pc[d] = "rwait" THEN "match" ELSE pc[d]]
    /\ op' = IF next = "idle" THEN [op EXCEPT ![c] = "none"] ELSE op
    /\ UNCHANGED <<locked, up, level, parent, delivery>>

\* Mutant: the writer does not wait for the readers.
ExclusiveOfWriters(c, operation) == At(c, "drain") /\ op[c] = operation

Exclusive(c, operation) == At(c, "drain") /\ op[c] = operation /\ readers = {}

SetMinLevel(c) ==
    /\ Exclusive(c, "SetMinLevel")
    /\ minimumLogLevel' \in Levels
    /\ UNCHANGED <<hooks, hookSeq>>
    /\ Unlock(c, "idle")

\* Mutants: repeated levels are kept; the bare sink is stored.
HookEntriesRepeated(id, s, levels) ==
    LET w == EnsureThreadSafe(s, FALSE, HookReg(id))
    IN  {[ID |-> id, pos |-> i, Level |-> levels[i], Writer |-> w] : i \in DOMAIN levels}

HookEntriesBare(id, s, levels) ==
    {[ID |-> id, pos |-> i, Level |-> levels[i], Writer |-> s] : i \in DOMAIN levels}

\* One entry per distinct level, all with the one wrapped writer.
HookEntries(id, s, levels) ==
    LET w == EnsureThreadSafe(s, FALSE, HookReg(id))
        first == {i \in DOMAIN levels : \A j \in 1..(i - 1) : levels[j] # levels[i]}
    IN  {[ID |-> id, pos |-> i, Level |-> levels[i], Writer |-> w] : i \in first}

Hook(c) ==
    /\ Exclusive(c, "Hook")
    /\ hookSeq' = hookSeq + 1
    /\ \E s \in Sinks, n \in 1..MaxHookLevels : \E levels \in [1..n -> Levels] :
           hooks' = hooks \cup HookEntries(hookSeq', s, levels)
    /\ UNCHANGED minimumLogLevel
    /\ Unlock(c, "idle")

Unhook(c) ==
    /\ Exclusive(c, "Unhook") /\ hooks # {}
    /\ \E id \in 1..hookSeq : hooks' = {k \in hooks : k.ID # id}
    /\ UNCHANGED <<minimumLogLevel, hookSeq>>
    /\ Unlock(c, "idle")

\* make([]*hook, 0, len(l.hooks)-1) panics on an empty list; the deferred
\* Unlock still runs.
UnhookEmpty(c) ==
    /\ Exclusive(c, "Unhook") /\ hooks = {}
    /\ UNCHANGED config
    /\ Unlock(c, "panicked")

-----------------------------------------------------------------------------
(* WriteLog under the read lock *)

\* Mutant: the lock is released once the sinks are collected.
MatchReleasing(c) ==
    /\ At(c, "match")
    /\ plan' = [plan EXCEPT ![c] = Matching(level[c])]
    /\ readers' = readers \ {c}
    /\ GoTo(c, "deliver")
    /\ UNCHANGED <<config, writer, locked, up, op, level, parent, writing, errs, accepted>>

Match(c) ==
    /\ At(c, "match")
    /\ plan' = [plan EXCEPT ![c] = Matching(level[c])]
    /\ GoTo(c, "deliver")
    /\ UNCHANGED <<config, readers, writer, locked, up, op, level, parent,
                   writing, errs, accepted>>

\* writer.Write: take the sink's mutex and enter the sink.
Enter(c, t) ==
    /\ At(c, "deliver") /\ t \in Pending(c)
    /\ t.w.mutexes \cap locked = {}
    /\ locked' = locked \cup t.w.mutexes
    /\ writing' = [writing EXCEPT ![c] = @ \cup {t}]
    /\ UNCHANGED <<config, readers, writer, up, pc, op, level, parent,
                   plan, errs, accepted>>

\* The sink's Write ends, not before the calls it made itself have ended.
Leave(c, t) ==
    /\ At(c, "deliver") /\ t \in writing[c]
    /\ \A d \in Calls : parent[d] # [call |-> c, target |-> t]
    /\ locked' = locked \ t.w.mutexes
    /\ writing' = [writing EXCEPT ![c] = @ \ {t}]

SinkAccepts(c, t) ==
    /\ Leave(c, t)
    /\ accepted' = [accepted EXCEPT ![c] = @ \cup {t}]
    /\ UNCHANGED <<config, readers, writer, up, pc, op, level, parent, plan, errs>>

SinkFails(c, t) ==
    /\ Leave(c, t)
    /\ errs' = [errs EXCEPT ![c] = @ \cup {t}]
    /\ UNCHANGED <<config, readers, writer, up, pc, op, level, parent, plan, accepted>>

\* A panic in the only sink unwinds the caller's stack; in a goroutine of the
\* fan-out nothing recovers it and the process ends.
SinkPanics(c, t) ==
    /\ t.w.sink \in Panicky
    /\ Leave(c, t)
    /\ \/ plan[c] = {t} /\ GoTo(c, "unwind") /\ UNCHANGED up
       \/ plan[c] # {t} /\ up' = FALSE /\ UNCHANGED pc
    /\ UNCHANGED <<config, readers, writer, op, level, parent, plan, errs, accepted>>

\* wg.Wait, or the end of the inline write.
Wait(c) ==
    /\ At(c, "deliver") /\ Pending(c) = {} /\ writing[c] = {}
    /\ GoTo(c, "return")
    /\ UNCHANGED <<config, readers, writer, locked, up, op, level, parent, delivery>>

RUnlock(c, from, next) ==
    /\ At(c, from)
    /\ readers' = readers \ {c}
    /\ GoTo(c, next)
    /\ level' = [level EXCEPT ![c] = NoLevel]
    /\ parent' = [parent EXCEPT ![c] = NoCall]
    /\ plan' = [plan EXCEPT ![c] = {}]
    /\ errs' = [errs EXCEPT ![c] = {}]
    /\ accepted' = [accepted EXCEPT ![c] = {}]
    /\ UNCHANGED <<config, writer, locked, up, writing>>

Return(c) == RUnlock(c, "return", "idle") /\ op' = [op EXCEPT ![c] = "none"]

Unwind(c) == RUnlock(c, "unwind", "panicked") /\ UNCHANGED op

\* The caller of the panicking call recovers, as net/http does.
Recovered(c) ==
    /\ At(c, "panicked")
    /\ GoTo(c, "idle")
    /\ op' = [op EXCEPT ![c] = "none"]
    /\ UNCHANGED <<config, readers, writer, locked, up, level, parent, delivery>>

-----------------------------------------------------------------------------
Start(c) ==
    \/ CallWriteLog(c) \/ CallWrite(c) \/ CallFromSink(c)
    \/ CallSetMinLevel(c) \/ CallHook(c) \/ CallUnhook(c)

Change(c) == SetMinLevel(c) \/ Hook(c) \/ Unhook(c) \/ UnhookEmpty(c)

EnterSome(c) == \E t \in plan[c] : Enter(c, t)

LeaveSome(c) == \E t \in writing[c] : SinkAccepts(c, t) \/ SinkFails(c, t) \/ SinkPanics(c, t)

Advance(c) ==
    \/ RLock(c) \/ Match(c) \/ Wait(c) \/ Return(c) \/ Unwind(c) \/ Recovered(c)

Next ==
    \E c \in Calls :
        Start(c) \/ Advance(c) \/ Lock(c) \/ Change(c) \/ EnterSome(c) \/ LeaveSome(c)

Spec == Init /\ [][Next]_vars

\* Goroutines run; a sink's Write returns; and a goroutine that waits for a
\* mutex others keep taking gets it in the end (sync.Mutex's starvation mode).
Fairness ==
    \A c \in Calls :
        /\ WF_vars(Advance(c)) /\ WF_vars(Change(c)) /\ WF_vars(LeaveSome(c))
        /\ SF_vars(Lock(c)) /\ SF_vars(EnterSome(c))

FairSpec == Spec /\ Fairness

-----------------------------------------------------------------------------
Labels == {"idle", "rlock", "rwait", "match", "deliver", "return", "unwind",
           "lock", "drain", "panicked"}
Operations == {"none", "WriteLog", "Write", "SetMinLevel", "Hook", "Unhook"}

Registrations == ({"handler"} \X Handlers) \cup ({"hook"} \X Nat)
Mutexes == Registrations \cup ({"own"} \X Sinks)
Writers == [sink : Sinks, mutexes : SUBSET Mutexes]
Targets == [reg : Registrations, pos : Nat, w : Writers]
SinkWrites == [call : Calls, target : Targets]

\* Every variable has its type (the fields of Logger and the frame of a call).
TypeOK ==
    /\ minimumLogLevel \in Levels
    /\ hooks \subseteq [ID : Nat, pos : Nat, Level : Levels, Writer : Writers]
    /\ hookSeq \in Nat
    /\ readers \subseteq Calls
    /\ writer \in Calls \cup {NoCall}
    /\ locked \subseteq Mutexes
    /\ up \in BOOLEAN
    /\ pc \in [Calls -> Labels]
    /\ op \in [Calls -> Operations]
    /\ level \in [Calls -> Levels \cup {NoLevel}]
    /\ parent \in [Calls -> SinkWrites \cup {NoCall}]
    /\ plan \in [Calls -> SUBSET Targets]
    /\ writing \in [Calls -> SUBSET Targets]
    /\ errs \in [Calls -> SUBSET Targets]
    /\ accepted \in [Calls -> SUBSET Targets]

Delivering(c) == pc[c] \in {"deliver", "return", "unwind"}

\* A message is delivered to exactly the sinks that match the configuration
\* in force while it is delivered: Hook, Unhook and SetMinLevel cannot slip in
\* between collecting the sinks and the last write, so no sink of a hook is
\* written to after the Unhook that removed it has returned.
DeliveryMatchesConfig ==
    \A c \in Calls : Delivering(c) => plan[c] = Matching(level[c])

\* One WriteLog writes to the sink of one registration at most once, however
\* many levels (repeated or not) the Hook call named.
OncePerRegistration ==
    \A c \in Calls : \A s, t \in plan[c] : s.reg = t.reg => s = t

InFlight == {[call |-> c, target |-> t] : c \in Calls, t \in UNION {writing[d] : d \in Calls}}

Running(f) == f.target \in writing[f.call]

\* No sink made by this package is ever written to by two goroutines at once,
\* however often it is registered, and no other sink is through one and the
\* same registration (a handler, or a Hook call with all its levels).
SinkNeverConcurrent ==
    \A f, g \in InFlight :
        (Running(f) /\ Running(g) /\ f # g /\ f.target.w.sink = g.target.w.sink)
        => f.target.w.sink \notin Guarded /\ f.target.reg # g.target.reg

\* When WriteLog returns, it reports no error exactly when every sink that
\* matches the configuration has accepted the message, and a nonzero length
\* only when a handler (not just a hook) was among them.
ResultTellsTruth ==
    \A c \in Calls : pc[c] = "return" =>
        /\ Result(c).err = (accepted[c] # Matching(level[c]))
        /\ Result(c).n = "len" => \E h \in Handlers : level[c] >= Threshold(h)

-----------------------------------------------------------------------------
(* What callers see of a call: the refinement mapping to AtomicLogger *)

PhaseOf(label) ==
    CASE label = "idle" -> "idle"
      [] label = "return" -> "returning"
      [] label \in {"unwind", "panicked"} -> "panicked"
      [] OTHER -> "called"

Phases == [c \in Calls |-> PhaseOf(pc[c])]

CallLevels == [c \in Calls |-> IF PhaseOf(pc[c]) = "called" THEN level[c] ELSE NoLevel]

Recipients(targets) == {[reg |-> t.reg, sink |-> t.w.sink] : t \in targets}

Outcome(c) ==
    [to |-> Recipients(plan[c]), failed |-> Recipients(errs[c]), n |-> Result(c).n]

NoOutcome == [to |-> {}, failed |-> {}, n |-> "zero"]

Outcomes == [c \in Calls |-> IF PhaseOf(pc[c]) = "returning" THEN Outcome(c) ELSE NoOutcome]

Registered ==
    {[id |-> k.ID, sink |-> k.Writer.sink,
      levels |-> {x.Level : x \in {y \in hooks : y.ID = k.ID}}] : k \in hooks}

Atomic == INSTANCE AtomicLogger WITH
    minimum <- minimumLogLevel, registered <- Registered, lastHook <- hookSeq,
    running <- up, phase <- Phases, level <- CallLevels, result <- Outcomes

\* A call takes effect at one moment: a message reaches exactly the sinks of one
\* configuration, however the goroutines of the calls and sinks interleave.
IsAtomic == Atomic!Spec

-----------------------------------------------------------------------------
\* Every call comes back, unless a panicking sink ends the process: no reader
\* is left behind by a writer, no writer by a panic or by an endless stream of
\* messages, no write by the traffic on its sink.
EveryCallReturns == \A c \in Calls : pc[c] # "idle" ~> (pc[c] = "idle" \/ ~up)

\* "the logger never invokes a given sink's Write concurrently"
\* (ensureThreadSafe), for every sink and not just for one registration.
RawSinkSerialised ==
    \A f, g \in InFlight :
        (Running(f) /\ Running(g) /\ f # g) => f.target.w.sink # g.target.w.sink

\* "Write writes a log message with the minimum log level": the level it picked
\* is not below the minimum in force when the message is delivered, which would
\* withhold the message from the handlers without a threshold of their own.
WriteNeverGated ==
    \A c \in Calls : op[c] = "Write" /\ Delivering(c) => level[c] >= minimumLogLevel

\* "Unhook removes a hook from the logger": it does not panic.
UnhookNeverPanics == \A c \in Calls : ~(op[c] = "Unhook" /\ pc[c] = "panicked")

\* "WriteLog holds the read lock for the entire duration so it is safe to call
\* concurrently with Hook/Unhook/SetMinLevel": a call made by a sink does not
\* wait for a writer that waits for the very call the sink is written to by.
NoWaitCycle ==
    \A d \in Calls : pc[d] = "rwait" /\ parent[d] # NoCall => parent[d].call \notin readers
=============================================================================
