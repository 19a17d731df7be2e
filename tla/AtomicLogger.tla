---------------------------- MODULE AtomicLogger ----------------------------
(***************************************************************************)
(* What a Logger of src/logger.go promises its callers, without its lock,  *)
(* goroutines or wrappers: every call takes effect at one moment between   *)
(* its beginning and its end.  A message is delivered at that moment to    *)
(* the sinks the configuration names, all of them and no other, each once; *)
(* the call then returns what became of it.                                *)
(***************************************************************************)
EXTENDS Integers

CONSTANTS
    Calls, Sinks, Levels, Handlers,
    HandlerSink, HandlerMin,    \* handler -> its sink, its own threshold or NoLevel
    NoLevel

VARIABLES
    minimum,    \* the minimum level
    registered, \* the hooks: records [id, sink, levels]
    lastHook,
    running,    \* FALSE once a panic in a sink has ended the process
    phase,      \* where a caller is in its call
    op,         \* which call that is
    level,      \* the level of a log call
    result      \* what a log call returns

config == <<minimum, registered, lastHook>>
vars == <<config, running, phase, op, level, result>>

NoResult == [to |-> {}, failed |-> {}, n |-> "zero"]

Init ==
    /\ minimum \in Levels
    /\ registered = {} /\ lastHook = 0
    /\ running = TRUE
    /\ phase = [c \in Calls |-> "idle"]
    /\ op = [c \in Calls |-> "none"]
    /\ level = [c \in Calls |-> NoLevel]
    /\ result = [c \in Calls |-> NoResult]

Move(c, from, to) ==
    /\ running /\ phase[c] = from
    /\ phase' = [phase EXCEPT ![c] = to]

Logging == {"WriteLog", "Write"}
Changing == {"SetMinLevel", "Hook", "Unhook"}

-----------------------------------------------------------------------------
(* The calls *)

Invoke(c, operation, lv) ==
    /\ Move(c, "idle", "called")
    /\ op' = [op EXCEPT ![c] = operation]
    /\ level' = [level EXCEPT ![c] = lv]
    /\ UNCHANGED <<config, running, result>>

\* Write logs at the minimum level of the moment it is called.
InvokeSome(c) ==
    \/ \E lv \in Levels : Invoke(c, "WriteLog", lv)
    \/ Invoke(c, "Write", minimum)
    \/ \E operation \in Changing : Invoke(c, operation, NoLevel)

\* The caller has its result, or recovers from the panic.
Respond(c) ==
    /\ \E from \in {"returning", "panicked"} : Move(c, from, "idle")
    /\ op' = [op EXCEPT ![c] = "none"]
    /\ result' = [result EXCEPT ![c] = NoResult]
    /\ UNCHANGED <<config, running, level>>

-----------------------------------------------------------------------------
(* The one moment of a log call *)

Active(lv) ==
    {h \in Handlers : lv >= IF HandlerMin[h] = NoLevel THEN minimum ELSE HandlerMin[h]}

\* Where a message of level lv goes, as pairs of a registration and its sink.
Recipients(lv) ==
    {[reg |-> <<"hook", k.id>>, sink |-> k.sink] : k \in {x \in registered : lv \in x.levels}}
    \cup {[reg |-> <<"handler", h>>, sink |-> HandlerSink[h]] : h \in Active(lv)}

Deliver(c) ==
    /\ op[c] \in Logging
    /\ Move(c, "called", "returning")
    /\ \E failed \in SUBSET Recipients(level[c]) :
           result' = [result EXCEPT ![c] =
               [to |-> Recipients(level[c]), failed |-> failed,
                n |-> IF Active(level[c]) # {} THEN "len" ELSE "zero"]]
    /\ level' = [level EXCEPT ![c] = NoLevel]
    /\ UNCHANGED <<config, running, op>>

\* A panic of the only recipient is the caller's.
PanicOfOne(c) ==
    /\ op[c] \in Logging
    /\ Move(c, "called", "panicked")
    /\ \E r \in Recipients(level[c]) : Recipients(level[c]) = {r}
    /\ level' = [level EXCEPT ![c] = NoLevel]
    /\ UNCHANGED <<config, running, op, result>>

\* A panic of one of several is nobody's.
PanicOfMany(c) ==
    /\ running /\ phase[c] = "called" /\ op[c] \in Logging
    /\ running' = FALSE
    /\ \E r, q \in Recipients(level[c]) : r # q
    /\ UNCHANGED <<config, phase, op, level, result>>

-----------------------------------------------------------------------------
(* The one moment of a change *)

Change(c, operation) ==
    /\ op[c] = operation
    /\ Move(c, "called", "idle")
    /\ op' = [op EXCEPT ![c] = "none"]
    /\ UNCHANGED <<running, level, result>>

SetMinLevel(c) ==
    /\ Change(c, "SetMinLevel")
    /\ minimum' \in Levels
    /\ UNCHANGED <<registered, lastHook>>

Hook(c) ==
    /\ Change(c, "Hook")
    /\ lastHook' = lastHook + 1
    /\ \E s \in Sinks, levels \in (SUBSET Levels) \ {{}} :
           registered' = registered \cup {[id |-> lastHook', sink |-> s, levels |-> levels]}
    /\ UNCHANGED minimum

Unhook(c) ==
    /\ Change(c, "Unhook")
    /\ registered # {}
    /\ \E id \in 1..lastHook : registered' = {k \in registered : k.id # id}
    /\ UNCHANGED <<minimum, lastHook>>

UnhookNothing(c) ==
    /\ op[c] = "Unhook"
    /\ Move(c, "called", "panicked")
    /\ registered = {}
    /\ UNCHANGED <<config, running, op, level, result>>

-----------------------------------------------------------------------------
Next ==
    \E c \in Calls :
        \/ InvokeSome(c) \/ Respond(c)
        \/ Deliver(c) \/ PanicOfOne(c) \/ PanicOfMany(c)
        \/ SetMinLevel(c) \/ Hook(c) \/ Unhook(c) \/ UnhookNothing(c)

Spec == Init /\ [][Next]_vars
=============================================================================
