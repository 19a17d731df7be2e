--------------------------- MODULE RuntimeDetails ---------------------------
(***************************************************************************)
(* The process-wide runtime-details string of src/error.go: it is computed *)
(* by the first StackTraceError under a sync.Once, with the extra text of  *)
(* the provider installed at that moment, and cached for good.  Callers    *)
(* are goroutines that construct StackTraceErrors, install providers, or   *)
(* ask RuntimeDetailsFrozen, in any order.                                 *)
(***************************************************************************)
EXTENDS Integers, FiniteSets

CONSTANTS
    Callers,
    Providers,      \* provider functions, each installed at most once
    Panicky,        \* providers that panic
    Reentrant,      \* providers that construct a StackTraceError themselves
    None            \* no provider; the extra text of none

Unset == "unset"

ASSUME RuntimeDetailsAssumption ==
    /\ Panicky \subseteq Providers /\ Reentrant \subseteq Providers
    /\ None \notin Providers
    /\ Unset \notin Providers \cup {None}

VARIABLES
    provider,   \* runtimeDetailsExtraProvider
    frozen,     \* runtimeDetailsFrozen
    once,       \* runtimeDetails.once: "new", "running", "done"
    value,      \* runtimeDetails.value: the provider whose text it carries
    pc,
    snapshot,   \* the provider cachedRuntime grabbed
    result,     \* what cachedRuntime returned to each caller
    installed,  \* history: providers installed so far
    late,       \* history: those installed after someone saw RuntimeDetailsFrozen
    tooLate,    \* history: those installed after a StackTraceError was constructed
    called,     \* history: providers called, in number of calls
    seenFrozen  \* history: RuntimeDetailsFrozen has returned true

vars == <<provider, frozen, once, value, pc, snapshot, result,
          installed, late, tooLate, called, seenFrozen>>

Init ==
    /\ provider = None /\ frozen = FALSE /\ once = "new" /\ value = Unset
    /\ pc = [c \in Callers |-> "idle"]
    /\ snapshot = None
    /\ result = [c \in Callers |-> Unset]
    /\ installed = {} /\ late = {} /\ tooLate = {}
    /\ called = [p \in Providers |-> 0]
    /\ seenFrozen = FALSE

GoTo(c, from, to) == pc[c] = from /\ pc' = [pc EXCEPT ![c] = to]

-----------------------------------------------------------------------------
\* Mutant: nil is stored as a provider whose text is unset.
SetRuntimeDetailsProviderUnset(c) ==
    /\ pc[c] = "idle" /\ provider' = Unset
    /\ UNCHANGED <<frozen, once, value, pc, snapshot, result, installed, late, tooLate,
                   called, seenFrozen>>

\* A provider, or nil to clear it, replaces the one before.
SetRuntimeDetailsProvider(c) ==
    /\ pc[c] = "idle"
    /\ \E p \in (Providers \ installed) \cup {None} :
        /\ provider' = p
        /\ installed' = installed \cup ({p} \ {None})
        /\ late' = IF seenFrozen THEN late \cup ({p} \ {None}) ELSE late
        /\ tooLate' = IF \E d \in Callers : result[d] # Unset
                      THEN tooLate \cup ({p} \ {None}) ELSE tooLate
    /\ UNCHANGED <<frozen, once, value, pc, snapshot, result, called, seenFrozen>>

RuntimeDetailsFrozen(c) ==
    /\ pc[c] = "idle" /\ frozen /\ seenFrozen' = TRUE
    /\ UNCHANGED <<provider, frozen, once, value, pc, snapshot, result,
                   installed, late, tooLate, called>>

\* once.Do: the first caller runs the function, the others wait for its end.
EnterOnce(c) ==
    /\ \/ once = "new" /\ once' = "running" /\ GoTo(c, "idle", "freeze")
       \/ once = "running" /\ GoTo(c, "idle", "wait") /\ UNCHANGED once
       \/ once = "done" /\ GoTo(c, "idle", "read") /\ UNCHANGED once
    /\ UNCHANGED <<provider, frozen, value, snapshot, result,
                   installed, late, tooLate, called, seenFrozen>>

Freeze(c) ==
    /\ GoTo(c, "freeze", "grab")
    /\ frozen' = TRUE
    /\ UNCHANGED <<provider, once, value, snapshot, result,
                   installed, late, tooLate, called, seenFrozen>>

\* The mutex is held for the read only, not for the call that follows.
GrabProvider(c) ==
    /\ GoTo(c, "grab", IF provider = None THEN "store" ELSE "call")
    /\ snapshot' = provider
    /\ UNCHANGED <<provider, frozen, once, value, result,
                   installed, late, tooLate, called, seenFrozen>>

\* Mutant: a provider that panics is tried again.
CallProviderAgain(c) ==
    /\ GoTo(c, "call", IF snapshot \in Panicky THEN "grab" ELSE "store")
    /\ UNCHANGED <<provider, frozen, once, value, snapshot, result,
                   installed, late, tooLate, called, seenFrozen>>

\* The provider runs; one that constructs a StackTraceError enters once.Do
\* again, on the goroutine that is inside it.
CallProvider(c) ==
    /\ GoTo(c, "call", IF snapshot \in Reentrant THEN "waitInside" ELSE "store")
    /\ called' = [called EXCEPT ![snapshot] = @ + 1]
    /\ UNCHANGED <<provider, frozen, once, value, snapshot, result,
                   installed, late, tooLate, seenFrozen>>

\* Mutant: the string is not kept.
StoreUncached(c) ==
    /\ GoTo(c, "store", "read")
    /\ value' = IF snapshot \in Panicky THEN None ELSE snapshot
    /\ once' = "new" /\ snapshot' = None
    /\ UNCHANGED <<provider, frozen, result, installed, late, tooLate, called, seenFrozen>>

\* A panic is recovered and leaves the base string.
Store(c) ==
    /\ GoTo(c, "store", "read")
    /\ value' = IF snapshot \in Panicky THEN None ELSE snapshot
    /\ once' = "done"
    /\ snapshot' = None
    /\ UNCHANGED <<provider, frozen, result, installed, late, tooLate, called, seenFrozen>>

\* Mutant: the others do not wait for the first caller.
WakeEarly(c) ==
    /\ GoTo(c, "wait", "read")
    /\ UNCHANGED <<provider, frozen, once, value, snapshot, result,
                   installed, late, tooLate, called, seenFrozen>>

\* once.Do lets those that waited go when the function is done, which it never
\* is for a goroutine that waits inside it.
Wake(c) ==
    /\ once = "done"
    /\ GoTo(c, "wait", "read")
    /\ UNCHANGED <<provider, frozen, once, value, snapshot, result,
                   installed, late, tooLate, called, seenFrozen>>

\* return runtimeDetails.value, into the StackTraceError being constructed.
ReadValue(c) ==
    /\ GoTo(c, "read", "idle")
    /\ result' = [result EXCEPT ![c] = value]
    /\ UNCHANGED <<provider, frozen, once, value, snapshot,
                   installed, late, tooLate, called, seenFrozen>>

cachedRuntime(c) ==
    Freeze(c) \/ GrabProvider(c) \/ CallProvider(c) \/ Store(c) \/ Wake(c) \/ ReadValue(c)

Next ==
    \E c \in Callers :
        SetRuntimeDetailsProvider(c) \/ RuntimeDetailsFrozen(c) \/ EnterOnce(c) \/ cachedRuntime(c)

Spec == Init /\ [][Next]_vars

\* Goroutines inside cachedRuntime keep running, and providers return.
FairSpec == Spec /\ \A c \in Callers : WF_vars(cachedRuntime(c))

-----------------------------------------------------------------------------
Labels == {"idle", "wait", "freeze", "grab", "call", "waitInside", "store", "read"}
Texts == Providers \cup {None, Unset}

\* Every variable has its type.
TypeOK ==
    /\ provider \in Providers \cup {None} /\ frozen \in BOOLEAN
    /\ once \in {"new", "running", "done"} /\ value \in Texts
    /\ pc \in [Callers -> Labels]
    /\ snapshot \in Providers \cup {None}
    /\ result \in [Callers -> Texts]
    /\ installed \subseteq Providers /\ late \subseteq Providers /\ tooLate \subseteq Providers
    /\ called \in [Providers -> Nat] /\ seenFrozen \in BOOLEAN

\* Providers run at most once per process, all of them together, and every
\* StackTraceError, of whatever goroutine, carries the same complete string.
ComputedOnce ==
    /\ \A p, q \in Providers : called[p] + called[q] > 1 => p = q /\ called[p] = 1
    /\ \A c, d \in Callers : result[c] # Unset /\ result[d] # Unset => result[c] = result[d]
    /\ \A c \in Callers : pc[c] = "read" => value # Unset

\* A provider installed after a StackTraceError has been constructed has no
\* effect, and neither has one that panics.
LateProviderIgnored ==
    /\ \A p \in tooLate : called[p] = 0
    /\ \A c \in Callers : result[c] \notin tooLate \cup Panicky

\* Every construction of a StackTraceError returns.
ConstructionReturns == \A c \in Callers : pc[c] # "idle" ~> pc[c] = "idle"

\* "Once it returns true, a subsequent SetRuntimeDetailsProvider call is a
\* no-op - the provider will never run" (RuntimeDetailsFrozen).
FrozenMeansNoOp == \A p \in late : called[p] = 0

\* "the provider is free to call back into anything without deadlocking"
\* (cachedRuntime): also when it constructs a StackTraceError.
ProviderMayCallBack == \A c \in Callers : pc[c] = "call" ~> pc[c] = "idle"
=============================================================================
