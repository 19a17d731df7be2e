------------------------ MODULE RuntimeDetailsProofs ------------------------
(***************************************************************************)
(* Proofs about RuntimeDetails for every set of goroutines and providers,  *)
(* panicking and re-entrant ones included.  IInv is the inductive          *)
(* invariant.  Its parts:                                                  *)
(*   OnceInv    one goroutine is inside the Once, and nobody reads before  *)
(*              it is done                                                 *)
(*   CallInv    a provider has run only where the Once says so             *)
(*   TextInv    what is grabbed, cached and returned was installed in time *)
(***************************************************************************)
EXTENDS RuntimeDetails, TLAPS

Inside == {"freeze", "grab", "call", "waitInside", "store"}
BeforeCall == {"freeze", "grab", "call"}

OnceInv ==
    /\ \A c \in Callers :
         /\ pc[c] \in Inside => once = "running"
         /\ pc[c] = "read" => once = "done"
         /\ result[c] # Unset => once = "done"
    /\ \A c, d \in Callers : pc[c] \in Inside /\ pc[d] \in Inside => c = d
    /\ value # Unset <=> once = "done"

CallInv ==
    /\ once = "new" => \A p \in Providers : called[p] = 0
    /\ \A c \in Callers : pc[c] \in BeforeCall => \A p \in Providers : called[p] = 0
    /\ \A p \in Providers : called[p] <= 1
    /\ \A p, q \in Providers : called[p] > 0 /\ called[q] > 0 => p = q
    /\ \A p \in Providers : called[p] > 0 => p \in installed

TextInv ==
    /\ {provider, snapshot} \subseteq installed \cup {None}
    /\ \A c \in Callers : pc[c] = "call" => snapshot # None
    /\ value \in installed \cup {None, Unset} /\ value \notin tooLate \cup Panicky
    /\ \A c \in Callers : result[c] \in {value, Unset}
    /\ tooLate # {} => once = "done"
    /\ \A p \in tooLate : called[p] = 0

IInv == TypeOK /\ OnceInv /\ CallInv /\ TextInv

-----------------------------------------------------------------------------
\* The goroutines have not begun.
LEMMA Initially == Init => IInv
<1> SUFFICES ASSUME Init PROVE IInv
  OBVIOUS
<1>1. TypeOK
  BY DEF Init, TypeOK, Labels, Texts
<1>2. OnceInv
  BY DEF Init, OnceInv, Inside
<1>3. CallInv
  BY DEF Init, CallInv, BeforeCall
<1>4. TextInv
  BY RuntimeDetailsAssumption DEF Init, TextInv
<1>5. QED
  BY <1>1, <1>2, <1>3, <1>4 DEF IInv

\* Installing a provider changes nothing once the text is computed.
LEMMA SetKeeps ==
    ASSUME IInv, NEW c \in Callers, SetRuntimeDetailsProvider(c)
    PROVE  IInv'
<1>1. PICK p \in (Providers \ installed) \cup {None} :
          /\ provider' = p
          /\ installed' = installed \cup ({p} \ {None})
          /\ late' = IF seenFrozen THEN late \cup ({p} \ {None}) ELSE late
          /\ tooLate' = IF \E d \in Callers : result[d] # Unset
                        THEN tooLate \cup ({p} \ {None}) ELSE tooLate
  BY DEF SetRuntimeDetailsProvider
<1>2. UNCHANGED <<frozen, once, value, pc, snapshot, result, called, seenFrozen>>
  BY DEF SetRuntimeDetailsProvider
<1>3. TypeOK'
  BY <1>1, <1>2 DEF IInv, TypeOK
<1>4. OnceInv'
  BY <1>2 DEF IInv, OnceInv
<1>5. CallInv'
  BY <1>1, <1>2 DEF IInv, CallInv
<1>6. TextInv'
  <2>1. tooLate' # {} => once = "done"
    BY <1>1 DEF IInv, OnceInv, TextInv
  <2>2. p # None => p \notin installed /\ called[p] = 0 /\ p # value
    BY <1>1, RuntimeDetailsAssumption DEF IInv, TypeOK, CallInv, TextInv
  <2>3. value \notin tooLate'
    BY <1>1, <2>2 DEF IInv, TextInv
  <2>4. \A q \in tooLate' : called[q] = 0
    BY <1>1, <2>2 DEF IInv, TextInv
  <2>5. QED
    BY <1>1, <1>2, <2>1, <2>3, <2>4 DEF IInv, TextInv
<1>7. QED
  BY <1>3, <1>4, <1>5, <1>6 DEF IInv

\* Asking for the flag, entering the Once and waking up compute nothing.
LEMMA ReadersKeep ==
    ASSUME IInv, NEW c \in Callers,
           RuntimeDetailsFrozen(c) \/ EnterOnce(c) \/ Freeze(c) \/ Wake(c)
    PROVE  IInv'
<1>1. CASE RuntimeDetailsFrozen(c)
  BY <1>1 DEF RuntimeDetailsFrozen, IInv, TypeOK, OnceInv, CallInv, TextInv
<1>2. CASE EnterOnce(c)
  <2>1. TypeOK'
    BY <1>2 DEF EnterOnce, GoTo, IInv, TypeOK, Labels
  <2>2. OnceInv'
    BY <1>2 DEF EnterOnce, GoTo, IInv, TypeOK, OnceInv, Inside
  <2>3. CallInv'
    BY <1>2 DEF EnterOnce, GoTo, IInv, TypeOK, CallInv, BeforeCall
  <2>4. TextInv'
    BY <1>2 DEF EnterOnce, GoTo, IInv, TypeOK, TextInv, OnceInv
  <2>5. QED
    BY <2>1, <2>2, <2>3, <2>4 DEF IInv
<1>3. CASE Freeze(c)
  BY <1>3 DEF Freeze, GoTo, IInv, TypeOK, OnceInv, CallInv, TextInv, Labels, Inside, BeforeCall
<1>4. CASE Wake(c)
  BY <1>4 DEF Wake, GoTo, IInv, TypeOK, OnceInv, CallInv, TextInv, Labels, Inside, BeforeCall
<1>5. QED
  BY <1>1, <1>2, <1>3, <1>4

\* Only a provider that is set is called, and none has been before.
LEMMA GrabKeeps ==
    ASSUME IInv, NEW c \in Callers, GrabProvider(c)
    PROVE  IInv'
<1>1. TypeOK' /\ OnceInv'
  BY DEF GrabProvider, GoTo, IInv, TypeOK, OnceInv, Labels, Inside
<1>2. CallInv'
  BY DEF GrabProvider, GoTo, IInv, TypeOK, CallInv, BeforeCall
<1>3. \A d \in Callers : pc'[d] = "call" => snapshot' # None
  BY DEF GrabProvider, GoTo, IInv, TypeOK, OnceInv, Inside
<1>4. TextInv'
  BY <1>3 DEF GrabProvider, IInv, TextInv
<1>5. QED
  BY <1>1, <1>2, <1>4 DEF IInv

\* The one call of a provider: none has run before, and no other goroutine is
\* about to run one.
LEMMA CallKeeps ==
    ASSUME IInv, NEW c \in Callers, CallProvider(c)
    PROVE  IInv'
<1>1. /\ pc[c] = "call" /\ snapshot \in Providers /\ snapshot \in installed
      /\ \A p \in Providers : called[p] = 0
  BY DEF CallProvider, GoTo, IInv, TypeOK, CallInv, TextInv, BeforeCall
<1>2. called' \in [Providers -> Nat]
      /\ \A p \in Providers : called'[p] = IF p = snapshot THEN 1 ELSE 0
  BY <1>1 DEF CallProvider, IInv, TypeOK
<1>3. TypeOK' /\ OnceInv'
  BY <1>1, <1>2 DEF CallProvider, GoTo, IInv, TypeOK, OnceInv, Labels, Inside
<1>4. \A d \in Callers : pc'[d] \notin BeforeCall
  BY <1>1 DEF CallProvider, GoTo, IInv, TypeOK, OnceInv, Inside, BeforeCall
<1>5. once' = "running" /\ tooLate' = {}
  BY <1>1 DEF CallProvider, IInv, OnceInv, TextInv, Inside
<1>6. CallInv'
  BY <1>1, <1>2, <1>4, <1>5 DEF CallProvider, CallInv
<1>7. TextInv'
  BY <1>4, <1>5 DEF CallProvider, IInv, TextInv, BeforeCall
<1>8. QED
  BY <1>3, <1>6, <1>7 DEF IInv

\* The text is stored as the Once is done.
LEMMA StoreKeeps ==
    ASSUME IInv, NEW c \in Callers, Store(c)
    PROVE  IInv'
<1>1. pc[c] = "store" /\ once = "running" /\ tooLate = {} /\ \A d \in Callers : result[d] = Unset
  BY DEF Store, GoTo, IInv, OnceInv, TextInv, Inside
<1>2. value' \in installed \cup {None} /\ value' # Unset /\ value' \notin Panicky
  BY RuntimeDetailsAssumption DEF Store, IInv, TypeOK, TextInv
<1>3. TypeOK'
  BY DEF Store, GoTo, IInv, TypeOK, Labels, Texts
<1>4. \A d \in Callers : pc'[d] \notin Inside
  BY <1>1 DEF Store, GoTo, IInv, TypeOK, OnceInv, Inside
<1>5. OnceInv'
  BY <1>2, <1>4 DEF Store, IInv, OnceInv
<1>6. CallInv'
  BY <1>4 DEF Store, IInv, CallInv, Inside, BeforeCall
<1>7. TextInv'
  BY <1>1, <1>2, <1>4 DEF Store, IInv, TextInv, Inside
<1>8. QED
  BY <1>3, <1>5, <1>6, <1>7 DEF IInv

\* What is read after the Once is the stored text.
LEMMA ReadKeeps ==
    ASSUME IInv, NEW c \in Callers, ReadValue(c)
    PROVE  IInv'
<1>1. once = "done" /\ \A d \in Callers : pc[d] \notin Inside
  BY DEF ReadValue, GoTo, IInv, OnceInv
<1>2. TypeOK'
  BY DEF ReadValue, GoTo, IInv, TypeOK, Labels, Texts
<1>3. OnceInv' /\ CallInv'
  BY <1>1 DEF ReadValue, GoTo, IInv, TypeOK, OnceInv, CallInv, Inside, BeforeCall
<1>4. TextInv'
  BY <1>1 DEF ReadValue, GoTo, IInv, TypeOK, TextInv, Inside
<1>5. QED
  BY <1>2, <1>3, <1>4 DEF IInv

\* Every step of the cache keeps the invariant.
THEOREM Inductive == IInv /\ [Next]_vars => IInv'
<1> SUFFICES ASSUME IInv, [Next]_vars PROVE IInv'
  OBVIOUS
<1>1. CASE UNCHANGED vars
  BY <1>1 DEF vars, IInv, TypeOK, OnceInv, CallInv, TextInv
<1>2. CASE Next
  <2>1. PICK c \in Callers :
            SetRuntimeDetailsProvider(c) \/ RuntimeDetailsFrozen(c) \/ EnterOnce(c) \/ cachedRuntime(c)
    BY <1>2 DEF Next
  <2>2. QED
    BY <2>1, SetKeeps, ReadersKeep, GrabKeeps, CallKeeps, StoreKeeps, ReadKeeps DEF cachedRuntime
<1>3. QED
  BY <1>1, <1>2

-----------------------------------------------------------------------------
\* The fields of the cache and the frames of its callers keep their types, that
\* is no goroutine ever reads or returns what is not a text.
THEOREM TypeCorrect == Spec => []TypeOK
<1>1. IInv => TypeOK
  BY DEF IInv
<1>2. QED
  BY <1>1, Initially, Inductive, PTL DEF Spec

\* However many goroutines construct their first StackTraceError at once:
\* providers run at most once, all of them together, and everybody returns the
\* one complete string, also when the provider panics or never returns.
THEOREM OneComputation == Spec => []ComputedOnce
<1>1. IInv => ComputedOnce
  <2> SUFFICES ASSUME IInv PROVE ComputedOnce
    OBVIOUS
  <2>1. \A p, q \in Providers : called[p] + called[q] > 1 => p = q /\ called[p] = 1
    BY DEF IInv, TypeOK, CallInv
  <2>2. QED
    BY <2>1 DEF IInv, OnceInv, TextInv, ComputedOnce
<1>2. QED
  BY <1>1, Initially, Inductive, PTL DEF Spec

\* A provider installed once a StackTraceError exists never runs, and no error
\* carries its text or that of one that panicked.
THEOREM LateProvidersNeverRun == Spec => []LateProviderIgnored
<1>1. IInv => LateProviderIgnored
  BY RuntimeDetailsAssumption DEF IInv, TypeOK, OnceInv, TextInv, LateProviderIgnored
<1>2. QED
  BY <1>1, Initially, Inductive, PTL DEF Spec
=============================================================================
