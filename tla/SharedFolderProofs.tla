------------------------- MODULE SharedFolderProofs -------------------------
(* What is proved of SharedFolder for every set of handlers, of kinds and  *)
(* of limits, and for any number of messages, periods and deaths: its      *)
(* types, that a handler whose names sort in the order of time loses its   *)
(* messages from the oldest on, that the handler whose names sort last has *)
(* a LogRing to itself, and that the folder stays bounded.                 *)
EXTENDS SharedFolder, Extrema, FiniteSetTheorems, TLAPS

-----------------------------------------------------------------------------
(* The inductive invariant.  A prune sees the files of some handlers only. *)

Seen(h) == place = "itself" \/ (place = "sibling" /\ h # Top)

\* An index is that of a message at most: each message moves it on by one.
IndexBounded(h) ==
    /\ kind[h] = "rotating" => /\ key[h] <= next[h]
                               /\ \A n \in OwnFiles(h) : n.key <= next[h]
    /\ pc[h] = "append" => next[h] <= MaxMsgs

TypeInv == TypeOK /\ \A h \in Handlers : IndexBounded(h)

\* Only a pruning handler has files to remove, and a process that has not died
\* has not left files to a handler that is not constructed.
OnlyPrunersDoom ==
    \A h \in Handlers :
        /\ pc[h] # "remove" => doom[h] = {}
        /\ pc[h] = "down" /\ ~ mortal => OwnFiles(h) = {}

\* What no prune sees stays.
Unharmed(h) ==
    /\ \A g \in Handlers : \A n \in doom[g] : n.by # h
    /\ pc[h] = "append" => Live(h) \in Listed
    /\ Written(h) \subseteq Retained(h)

\* Later names hold later messages, all of them written by now.
FilesOrdered(h) ==
    /\ \A m, n \in OwnFiles(h) : m.key < n.key => \A x \in files[m], y \in files[n] : x < y
    /\ \A n \in OwnFiles(h) : \A x \in files[n] : x < next[h]

SuffixKept(h) ==
    \A x \in Retained(h), y \in Written(h) : x < y => y \in Retained(h)

\* The name a handler writes to, or will write to next, sorts last.
LiveIsLast(h) ==
    \A n \in OwnFiles(h) :
        /\ kind[h] = "rotating" /\ pc[h] # "down" => n.key <= key[h]
        /\ kind[h] = "dated" => n.key <= period
        /\ pc[h] = "append" => n.key <= key[h]

\* The file that is open has been removed only as the last one of its handler.
LiveGone(h) ==
    pc[h] = "append" /\ Live(h) \notin Listed => OwnFiles(h) = {}

\* Who removes a file has removed, or will have by then, all the earlier ones.
DoomClosed(h) ==
    \A g \in Handlers : \A n \in doom[g] : n.by = h =>
        \A m \in OwnFiles(h) : m.key < n.key => m \in doom[g]

\* No name that is to be removed is still to come.
DoomOld(h) ==
    \A g \in Handlers : \A n \in doom[g] : n.by = h =>
        /\ kind[h] = "dated" => n.key <= period
        /\ kind[h] = "rotating" =>
              IF pc[h] = "down" THEN \E m \in OwnFiles(h) : n.key <= m.key ELSE n.key <= key[h]

\* Whose names never come back: those in order, and the indexes of the last
\* handler when every prune keeps two files.
Lasting(h) == InOrder(h) \/ (h = Top /\ Roomy /\ kind[h] = "rotating")

Ordered(h) ==
    /\ FilesOrdered(h) /\ SuffixKept(h) /\ LiveIsLast(h) /\ LiveGone(h)
    /\ DoomClosed(h) /\ DoomOld(h)

OrderInv ==
    \A h \in Handlers :
        /\ ~ Seen(h) => Unharmed(h)
        /\ Seen(h) /\ Lasting(h) => Ordered(h)

\* When every prune keeps two files at least, two files of the last handler
\* are later than what is still to be removed.
NewestTwo ==
    \A g \in Handlers : \A n \in doom[g] : n.by = Top =>
        \E a, b \in OwnFiles(Top) : n.key < a.key /\ a.key < b.key

IInv == TypeInv /\ OnlyPrunersDoom /\ OrderInv /\ (Roomy => NewestTwo)

-----------------------------------------------------------------------------
(* Numbers and names *)

\* What the parameters are.
LEMMA Params ==
    /\ Handlers \subseteq Nat /\ IsFiniteSet(Handlers) /\ Handlers # {}
    /\ Limit \in [Handlers -> Nat]
    /\ IsFiniteSet(Periods) /\ Periods # {} /\ Periods = 1..Cardinality(Periods)
    /\ Recurring \in [Periods -> Periods]
    /\ MaxMsgs \in Nat /\ MaxRestarts \in Nat
BY SharedFolderAssumption

\* What a name consists of.
LEMMA NameFields ==
    ASSUME NEW n \in Names
    PROVE  /\ n.by \in Handlers /\ n.by \in Nat /\ n.key \in Keys
           /\ \A m \in Names : m.by = n.by /\ m.key = n.key => m = n
<1>1. n.by \in Handlers /\ n.key \in Keys
  BY DEF Names
<1>2. \A m \in Names : m.by = n.by /\ m.key = n.key => m = n
  BY DEF Names
<1>3. QED
  BY <1>1, <1>2, Params

\* The folder holds a finite number of names.
LEMMA NamesFinite ==
    /\ Keys \subseteq Nat
    /\ IsFiniteSet(Names)
    /\ Cardinality(Periods) \in Nat \ {0}
    /\ Periods \subseteq Keys
<1>1. Cardinality(Periods) \in Nat /\ Cardinality(Periods) # 0
  BY Params, FS_CardinalityType, FS_EmptySet
<1>2. IsFiniteSet(Keys)
  BY <1>1, Params, FS_Interval DEF Keys
<1>3. IsFiniteSet(Handlers \X Keys)
  BY <1>2, Params, FS_Product
<1> DEFINE f == [p \in Handlers \X Keys |-> [by |-> p[1], key |-> p[2]]]
<1>4. f \in Surjection(Handlers \X Keys, Names)
  <2>1. f \in [Handlers \X Keys -> Names]
    BY DEF Names
  <2>2. \A n \in Names : \E p \in Handlers \X Keys : f[p] = n
    <3> TAKE n \in Names
    <3>1. <<n.by, n.key>> \in Handlers \X Keys
      BY NameFields
    <3>2. f[<<n.by, n.key>>] = n
      BY <3>1 DEF Names
    <3>3. QED
      BY <3>1, <3>2
  <2>3. QED
    BY <2>1, <2>2 DEF Surjection
<1>5. IsFiniteSet(Names)
  BY <1>3, <1>4, FS_Surjection
<1>6. Periods \subseteq Keys /\ Keys \subseteq Nat
  BY <1>1, Params DEF Keys
<1>7. QED
  BY <1>1, <1>5, <1>6

\* Of some names one sorts first.
LEMMA FirstName ==
    ASSUME NEW T \in SUBSET Names, T # {}
    PROVE  \E n \in T : \A m \in T : m = n \/ SortsBefore(n, m)
<1> DEFINE B == {n.by : n \in T}
<1>1. B \in SUBSET Nat /\ B # {}
  BY NameFields
<1>2. PICK b \in B : \A c \in B : b <= c
  BY <1>1, LeastNatural
<1> DEFINE K == {n.key : n \in {m \in T : m.by = b}}
<1>3. K \in SUBSET Nat /\ K # {}
  <2>1. \A n \in T : n.key \in Nat
    BY NameFields, NamesFinite
  <2>2. QED
    BY <1>2, <2>1
<1>4. PICK k \in K : \A j \in K : k <= j
  BY <1>3, LeastNatural
<1>5. PICK n \in T : n.by = b /\ n.key = k
  BY <1>4
<1>6. ASSUME NEW m \in T PROVE m = n \/ SortsBefore(n, m)
  <2>1. m \in Names /\ n \in Names /\ m.by \in Nat /\ m.key \in Nat /\ n.by \in Nat /\ n.key \in Nat
    BY NameFields, NamesFinite
  <2>2. n.by <= m.by
    BY <1>2, <1>5
  <2>3. m.by = n.by => n.key <= m.key
    BY <1>4, <1>5
  <2>4. m.by = n.by /\ m.key = n.key => m = n
    BY <2>1 DEF Names
  <2>5. QED
    BY <2>1, <2>2, <2>3, <2>4 DEF SortsBefore
<1>7. QED
  BY <1>5, <1>6

\* A prune removes the doomed file whose name sorts first.
LEMMA NextDoomedIsFirst ==
    ASSUME NEW h \in Handlers, doom[h] \subseteq Names, doom[h] # {}
    PROVE  /\ NextDoomed(h) \in doom[h]
           /\ \A m \in doom[h] : m = NextDoomed(h) \/ SortsBefore(NextDoomed(h), m)
BY FirstName DEF NextDoomed

\* What verifyFiles removes is closed under sorting earlier.
LEMMA VerifyDoomClosed ==
    ASSUME NEW h \in Handlers, NEW n \in VerifyDoom(h), NEW m \in Scanned, SortsBefore(m, n)
    PROVE  m \in VerifyDoom(h)
<1> DEFINE L(x) == {y \in Scanned : SortsBefore(x, y)}
<1>1. Scanned \subseteq Names /\ n \in Scanned
  BY DEF Scanned, Listed, VerifyDoom
<1>2. \A y \in Names : y.by \in Nat /\ y.key \in Nat
  BY NameFields, NamesFinite
<1>3. L(n) \subseteq L(m)
  BY <1>1, <1>2 DEF SortsBefore
<1>4. IsFiniteSet(L(m))
  <2>1. L(m) \in SUBSET Names
    BY <1>1
  <2>2. QED
    BY <2>1, NamesFinite, FS_Subset
<1>5. /\ Cardinality(L(n)) <= Cardinality(L(m))
      /\ Cardinality(L(n)) \in Nat /\ Cardinality(L(m)) \in Nat
  <2>1. IsFiniteSet(L(n)) /\ Cardinality(L(n)) <= Cardinality(L(m))
    <3> HIDE DEF L
    <3> QED
      BY <1>3, <1>4, FS_Subset
  <2>2. QED
    BY <2>1, <1>4, FS_CardinalityType
<1>6. Cardinality(L(n)) >= Limit[h] /\ Limit[h] \in Nat
  BY Params DEF VerifyDoom
<1>7. Cardinality(L(m)) >= Limit[h]
  <2> HIDE DEF L
  <2> QED
    BY <1>5, <1>6
<1>8. QED
  BY <1>7 DEF VerifyDoom

-----------------------------------------------------------------------------
(* Types *)

\* A handler resumes at the highest index a listing shows it.
LEMMA ResumeKeyBounds ==
    ASSUME TypeInv, NEW h \in Handlers
    PROVE  /\ ResumeKey(h) \in Keys
           /\ kind[h] = "rotating" => ResumeKey(h) <= next[h]
           /\ Seen(h) => \A n \in OwnFiles(h) : n.key <= ResumeKey(h)
           /\ Seen(h) /\ OwnFiles(h) # {} => \E n \in OwnFiles(h) : n.key = ResumeKey(h)
<1>1. OwnKeys(h) \subseteq Keys /\ Keys \subseteq Nat /\ 1 \in Keys
  <2>1. OwnFiles(h) \subseteq Names
    BY DEF OwnFiles, Listed
  <2>2. 1 \in Keys
    BY Params, NamesFinite DEF Keys
  <2>3. QED
    BY <2>1, <2>2, NameFields, NamesFinite DEF OwnKeys
<1>2. OwnKeys(h) # {} => /\ Max(OwnKeys(h)) \in OwnKeys(h)
                         /\ \A k \in OwnKeys(h) : k <= Max(OwnKeys(h))
  <2>1. MaxMsgs + Cardinality(Periods) \in Nat
    BY Params, NamesFinite
  <2>2. \A k \in OwnKeys(h) : k <= MaxMsgs + Cardinality(Periods)
    BY <1>1, <2>1 DEF Keys
  <2>3. OwnKeys(h) \in SUBSET Nat
    BY <1>1
  <2>4. QED
    BY <2>1, <2>2, <2>3, MaxOfBounded
<1>3. ResumeKey(h) \in Keys
  BY <1>1, <1>2 DEF ResumeKey
<1>4. kind[h] = "rotating" => ResumeKey(h) <= next[h]
  <2>1. next[h] \in Nat /\ next[h] >= 1
    BY Params DEF TypeInv, TypeOK
  <2>2. kind[h] = "rotating" => \A k \in OwnKeys(h) : k <= next[h]
    BY DEF TypeInv, IndexBounded, OwnKeys
  <2>3. QED
    BY <1>2, <2>1, <2>2 DEF ResumeKey
<1>5. Seen(h) => \A n \in OwnFiles(h) : n.key <= ResumeKey(h)
  <2>1. Seen(h) => \A n \in OwnFiles(h) : n.key \in OwnKeys(h)
    BY DEF Seen, OwnKeys, OwnFiles, Scanned
  <2>2. QED
    BY <1>2, <2>1 DEF ResumeKey
<1>6. Seen(h) /\ OwnFiles(h) # {} => \E n \in OwnFiles(h) : n.key = ResumeKey(h)
  <2>1. Seen(h) => OwnKeys(h) = {n.key : n \in OwnFiles(h)}
    BY DEF Seen, OwnKeys, OwnFiles, Scanned
  <2>2. Seen(h) /\ OwnFiles(h) # {} => OwnKeys(h) # {}
    BY <2>1
  <2>3. QED
    BY <1>2, <2>1, <2>2 DEF ResumeKey
<1>7. QED
  BY <1>3, <1>4, <1>5, <1>6

\* Initially the folder is empty and nobody is constructed.
LEMMA TypeInvInit == Init => TypeInv
<1> SUFFICES ASSUME Init PROVE TypeInv
  OBVIOUS
<1>1. 1 \in Keys /\ 1 \in Periods /\ 1 \in 1..(MaxMsgs + 1) /\ 0 \in 0..MaxRestarts
  BY Params, NamesFinite DEF Keys
<1>2. TypeOK
  BY <1>1 DEF Init, TypeOK
<1>3. \A h \in Handlers : IndexBounded(h)
  BY DEF Init, IndexBounded, OwnFiles, Listed
<1>4. QED
  BY <1>2, <1>3 DEF TypeInv

\* Every step of a handler keeps the types, and indexes bounded.
LEMMA TypeInvStep ==
    ASSUME TypeInv, NEW h \in Handlers, Step(h)
    PROVE  TypeInv'
<1> USE DEF At, GoTo
<1>0. /\ TypeOK /\ \A g \in Handlers : IndexBounded(g)
      /\ \A g \in Handlers : /\ next[g] \in Nat /\ next[g] >= 1 /\ next[g] <= MaxMsgs + 1
                             /\ key[g] \in Nat /\ Live(g) \in Names
  <2>1. TypeOK /\ \A g \in Handlers : IndexBounded(g)
    BY DEF TypeInv
  <2>2. \A g \in Handlers : next[g] \in 1..(MaxMsgs + 1) /\ key[g] \in Keys
    BY <2>1 DEF TypeOK
  <2>3. \A g \in Handlers : Live(g) \in Names
    BY <2>2 DEF Live, Names
  <2>4. \A g \in Handlers : next[g] \in Nat /\ next[g] >= 1 /\ next[g] <= MaxMsgs + 1
    BY <2>2, Params
  <2>5. \A g \in Handlers : key[g] \in Nat
    BY <2>2, NamesFinite
  <2>6. QED
    BY <2>1, <2>3, <2>4, <2>5
<1>1. CASE Construct(h)
  <2>1. ResumeKey(h) \in Keys /\ 1 \in Keys
    BY ResumeKeyBounds, Params, NamesFinite DEF Keys
  <2>2. TypeOK'
    BY <1>0, <1>1, <2>1 DEF TypeOK, Construct, setup, bounds
  <2>3. ASSUME NEW g \in Handlers PROVE IndexBounded(g)'
    <3>1. kind' = kind /\ next' = next /\ OwnFiles(g)' = OwnFiles(g)
      BY <1>1 DEF Construct, setup, OwnFiles, Listed
    <3>2. key'[g] = key[g] \/ (kind[g] = "rotating" => key'[g] <= next[g])
      BY <1>0, <1>1, ResumeKeyBounds DEF Construct, TypeOK
    <3>3. pc'[g] = "append" => pc[g] = "append"
      BY <1>0, <1>1 DEF Construct, TypeOK
    <3>4. QED
      BY <1>0, <3>1, <3>2, <3>3 DEF IndexBounded
  <2>4. QED
    BY <2>2, <2>3 DEF TypeInv
<1>2. CASE Open(h)
  <2>1. NameKey(h) \in Keys /\ (kind[h] = "rotating" => NameKey(h) = key[h])
    BY <1>0, Params, NamesFinite DEF NameKey, TypeOK
  <2>2. key'[h] = NameKey(h) /\ \A g \in Handlers \ {h} : key'[g] = key[g]
    BY <1>0, <1>2 DEF Open, TypeOK
  <2>3. Live(h)' \in Names /\ Live(h)'.by = h /\ Live(h)'.key = NameKey(h)
    BY <2>1, <2>2 DEF Live, Names
  <2>4. TypeOK'
    BY <1>0, <1>2, <2>1, <2>3 DEF TypeOK, Open, setup, bounds
  <2>5. ASSUME NEW g \in Handlers PROVE IndexBounded(g)'
    <3>1. kind' = kind /\ next' = next
      BY <1>2 DEF Open, setup
    <3>2. \A n \in OwnFiles(g)' : n \in OwnFiles(g) \/ (g = h /\ n = Live(h)')
      BY <1>0, <1>2, <2>3 DEF Open, OwnFiles, Listed, TypeOK
    <3>3. pc'[g] = "append" => pc[g] = "append" \/ next[g] <= MaxMsgs
      BY <1>0, <1>2 DEF Open, TypeOK
    <3>4. kind[g] = "rotating" => key'[g] = key[g]
      BY <2>1, <2>2
    <3>5. QED
      BY <1>0, <2>1, <2>3, <3>1, <3>2, <3>3, <3>4 DEF IndexBounded
  <2>6. QED
    BY <2>4, <2>5 DEF TypeInv
<1>3. CASE AppendRotating(h) \/ AppendByFormat(h)
  <2>1. /\ pc[h] = "append" /\ next[h] <= MaxMsgs
        /\ next' = [next EXCEPT ![h] = @ + 1]
        /\ files' = IF files[Live(h)] = Absent THEN files
                    ELSE [files EXCEPT ![Live(h)] = @ \cup {next[h]}]
    BY <1>0, <1>3 DEF AppendRotating, AppendByFormat, Append, IndexBounded
  <2>2. files' \in [Names -> {Absent} \cup SUBSET (1..MaxMsgs)]
    <3>1. files[Live(h)] # Absent => files[Live(h)] \cup {next[h]} \in SUBSET (1..MaxMsgs)
      BY <1>0, <2>1 DEF TypeOK
    <3>2. QED
      BY <1>0, <2>1, <3>1 DEF TypeOK
  <2>3. \A n \in Names : files'[n] = Absent <=> files[n] = Absent
    <3>1. files[Live(h)] # Absent => files[Live(h)] \cup {next[h]} \in SUBSET (1..MaxMsgs)
      BY <1>0, <2>1 DEF TypeOK
    <3>2. files[Live(h)] # Absent => files[Live(h)] \cup {next[h]} # Absent
      BY <3>1, SharedFolderAssumption
    <3>3. QED
      BY <1>0, <2>1, <3>2 DEF TypeOK
  <2>4. /\ next'[h] = next[h] + 1 /\ \A g \in Handlers \ {h} : next'[g] = next[g]
        /\ next' \in [Handlers -> 1..(MaxMsgs + 1)]
    <3>1. next[h] + 1 \in 1..(MaxMsgs + 1)
      BY <1>0, <2>1, Params
    <3>2. QED
      BY <1>0, <2>1, <3>1 DEF TypeOK
  <2>5. /\ key' \in [Handlers -> Keys]
        /\ \A g \in Handlers : kind[g] = "rotating" => key'[g] <= next'[g]
    <3>1. CASE AppendRotating(h)
      <4>1. key[h] + 1 \in Keys /\ key[h] <= next[h]
        BY <1>0, <2>1, <3>1, Params, NamesFinite DEF IndexBounded, Keys, AppendRotating
      <4>2. key'[h] \in {key[h], key[h] + 1} /\ \A g \in Handlers \ {h} : key'[g] = key[g]
        BY <1>0, <3>1 DEF AppendRotating, TypeOK
      <4>3. key' \in [Handlers -> Keys]
        BY <1>0, <3>1, <4>1 DEF AppendRotating, TypeOK
      <4>4. QED
        BY <1>0, <2>4, <4>1, <4>2, <4>3 DEF IndexBounded
    <3>2. CASE AppendByFormat(h)
      BY <1>0, <2>4, <3>2 DEF AppendByFormat, IndexBounded, TypeOK
    <3>3. QED
      BY <1>3, <3>1, <3>2
  <2>6. TypeOK'
    <3>1. UNCHANGED <<kind, place, doom, err, period, mortal, restarts>>
      BY <1>3 DEF AppendRotating, AppendByFormat, setup, bounds
    <3>2. pc' \in [Handlers -> {"down", "idle", "append", "glob", "remove"}]
      BY <1>0, <1>3 DEF TypeOK, AppendRotating, AppendByFormat
    <3>3. last' \in [Handlers -> Keys \cup {0}]
      BY <1>0, <1>3 DEF TypeOK, AppendRotating, AppendByFormat
    <3>4. QED
      BY <1>0, <2>2, <2>4, <2>5, <3>1, <3>2, <3>3 DEF TypeOK
  <2>7. ASSUME NEW g \in Handlers PROVE IndexBounded(g)'
    <3>1. kind' = kind
      BY <1>3 DEF AppendRotating, AppendByFormat, setup
    <3>2. OwnFiles(g)' = OwnFiles(g)
      BY <2>3 DEF OwnFiles, Listed
    <3>3. pc'[g] = "append" => pc[g] = "append" /\ g # h
      BY <1>0, <1>3 DEF AppendRotating, AppendByFormat, TypeOK
    <3>4. \A n \in OwnFiles(g) : n.key \in Nat
      BY NameFields, NamesFinite DEF OwnFiles, Listed
    <3>5. next'[g] \in Nat /\ next'[g] >= next[g]
      BY <1>0, <2>4
    <3>6. QED
      BY <1>0, <2>4, <2>5, <3>1, <3>2, <3>3, <3>4, <3>5 DEF IndexBounded
  <2>8. QED
    BY <2>6, <2>7 DEF TypeInv
<1>4. CASE Glob(h)
  <2>1. VerifyDoom(h) \subseteq Names
    BY DEF VerifyDoom, Scanned, Listed
  <2>2. TypeOK'
    BY <1>0, <1>4, <2>1 DEF TypeOK, Glob, setup, bounds
  <2>3. ASSUME NEW g \in Handlers PROVE IndexBounded(g)'
    BY <1>0, <1>4 DEF IndexBounded, Glob, setup, OwnFiles, Listed, TypeOK
  <2>4. QED
    BY <2>2, <2>3 DEF TypeInv
<1>5. CASE Remove(h)
  <2>1. NextDoomed(h) \in doom[h] /\ NextDoomed(h) \in Names
    BY <1>0, <1>5, NextDoomedIsFirst DEF Remove, TypeOK
  <2>2. TypeOK'
    BY <1>0, <1>5, <2>1 DEF TypeOK, Remove, setup, bounds
  <2>3. ASSUME NEW g \in Handlers PROVE IndexBounded(g)'
    <3>1. OwnFiles(g)' \subseteq OwnFiles(g)
      BY <1>0, <1>5, <2>1 DEF Remove, OwnFiles, Listed, TypeOK
    <3>2. QED
      BY <1>0, <1>5, <3>1 DEF IndexBounded, Remove, setup
  <2>4. QED
    BY <2>2, <2>3 DEF TypeInv
<1>6. CASE Return(h)
  <2>1. TypeOK'
    BY <1>0, <1>6 DEF TypeOK, Return, setup, bounds
  <2>2. ASSUME NEW g \in Handlers PROVE IndexBounded(g)'
    BY <1>0, <1>6 DEF IndexBounded, Return, setup, OwnFiles, Listed, TypeOK
  <2>3. QED
    BY <2>1, <2>2 DEF TypeInv
<1>7. QED
  BY <1>1, <1>2, <1>3, <1>4, <1>5, <1>6 DEF Step

\* So do the clock, the death of the process, and a step in which nothing happens.
LEMMA TypeInvOther ==
    ASSUME TypeInv, Tick \/ Crash \/ UNCHANGED vars
    PROVE  TypeInv'
<1>0. TypeOK /\ \A g \in Handlers : IndexBounded(g)
  BY DEF TypeInv
<1>1. CASE Tick
  <2>1. TypeOK'
    BY <1>0, <1>1 DEF Tick, TypeOK, setup, frames, bounds
  <2>2. ASSUME NEW g \in Handlers PROVE IndexBounded(g)'
    BY <1>0, <1>1 DEF Tick, IndexBounded, setup, frames, bounds, OwnFiles, Listed
  <2>3. QED
    BY <2>1, <2>2 DEF TypeInv
<1>2. CASE Crash
  <2>1. 1 \in Keys /\ restarts + 1 \in 0..MaxRestarts
    BY <1>0, <1>2, Params, NamesFinite DEF Keys, Crash, TypeOK
  <2>2. TypeOK'
    BY <1>0, <1>2, <2>1 DEF Crash, TypeOK, setup
  <2>3. ASSUME NEW g \in Handlers PROVE IndexBounded(g)'
    <3>1. next[g] >= 1
      BY <1>0 DEF TypeOK
    <3>2. QED
      BY <1>0, <1>2, <3>1 DEF Crash, IndexBounded, setup, OwnFiles, Listed
  <2>4. QED
    BY <2>2, <2>3 DEF TypeInv
<1>3. CASE UNCHANGED vars
  <2>1. TypeOK'
    BY <1>0, <1>3 DEF vars, TypeOK, setup, frames, bounds
  <2>2. ASSUME NEW g \in Handlers PROVE IndexBounded(g)'
    BY <1>0, <1>3 DEF vars, IndexBounded, setup, frames, bounds, OwnFiles, Listed
  <2>3. QED
    BY <2>1, <2>2 DEF TypeInv
<1>4. QED
  BY <1>1, <1>2, <1>3

\* Every variable of the shared folder has its type in every reachable state:
\* in particular no index runs ahead of the messages, whatever the prunes and
\* the deaths of the process do to the files it is resumed from.
THEOREM TypeCorrect == Spec => []TypeOK
<1>1. TypeInv /\ [Next]_vars => TypeInv'
  BY TypeInvStep, TypeInvOther DEF Next
<1>2. TypeInv => TypeOK
  BY DEF TypeInv
<1>3. QED
  BY TypeInvInit, <1>1, <1>2, PTL DEF Spec

-----------------------------------------------------------------------------
(* What the steps do to the files and to what they hold *)

\* Who shares the folder, and what its name matches, never changes.
LEMMA SetupKept ==
    ASSUME [Next]_vars
    PROVE  /\ kind' = kind /\ place' = place /\ mortal' = mortal
           /\ \A g : (Seen(g)' <=> Seen(g)) /\ (Lasting(g)' <=> Lasting(g))
<1>1. kind' = kind /\ place' = place /\ mortal' = mortal
  BY DEF Next, Step, Construct, Open, AppendRotating, AppendByFormat, Glob, Remove, Return,
         Tick, Crash, vars, setup, bounds
<1>2. QED
  BY <1>1 DEF Seen, Lasting, InOrder, Roomy

\* Types in a form the provers use.
LEMMA TypeFacts ==
    ASSUME TypeInv
    PROVE  /\ \A g \in Handlers : /\ next[g] \in Nat /\ next[g] >= 1
                                  /\ key[g] \in Nat
                                  /\ Live(g) \in Names /\ Live(g).by = g /\ Live(g).key = key[g]
                                  /\ doom[g] \subseteq Names
           /\ period \in Nat
           /\ \A n \in Names : n.by \in Handlers /\ n.by \in Nat /\ n.key \in Nat
           /\ \A g \in Handlers : OwnFiles(g) \subseteq Names
           /\ \A g \in Handlers : \A n \in OwnFiles(g) : n.by = g /\ n.key \in Nat
           /\ \A n \in Listed : n \in OwnFiles(n.by) /\ files[n] \in SUBSET (1..MaxMsgs)
           /\ 1..MaxMsgs \subseteq Nat
<1>1. \A g \in Handlers : next[g] \in 1..(MaxMsgs + 1) /\ key[g] \in Keys /\ doom[g] \subseteq Names
  BY DEF TypeInv, TypeOK
<1>2. \A g \in Handlers : next[g] \in Nat /\ next[g] >= 1
  BY <1>1, Params
<1>3. \A g \in Handlers : key[g] \in Nat
  BY <1>1, NamesFinite
<1>4. \A g \in Handlers : Live(g) \in Names /\ Live(g).by = g /\ Live(g).key = key[g]
  BY <1>1 DEF Live, Names
<1>5. period \in Nat
  BY NamesFinite DEF TypeInv, TypeOK
<1>6. \A n \in Names : n.by \in Handlers /\ n.by \in Nat /\ n.key \in Nat
  BY NameFields, NamesFinite
<1>7. \A g \in Handlers : \A n \in OwnFiles(g) : n \in Names /\ n.by = g
  BY DEF OwnFiles, Listed
<1>8. \A n \in Listed : n \in OwnFiles(n.by) /\ files[n] \in SUBSET (1..MaxMsgs)
  BY DEF OwnFiles, Listed, TypeInv, TypeOK
<1>9. QED
  BY <1>1, <1>2, <1>3, <1>4, <1>5, <1>6, <1>7, <1>8, Params

\* A step that leaves the files alone.
LEMMA FilesKept ==
    ASSUME files' = files, next' = next, NEW g
    PROVE  /\ Listed' = Listed /\ OwnFiles(g)' = OwnFiles(g)
           /\ Retained(g)' = Retained(g) /\ Written(g)' = Written(g)
           /\ FilesOrdered(g)' <=> FilesOrdered(g)
           /\ SuffixKept(g)' <=> SuffixKept(g)
BY DEF Listed, OwnFiles, Retained, Written, FilesOrdered, SuffixKept

\* Opening creates at most the handler's own file, with nothing in it.
LEMMA OpenEffect ==
    ASSUME TypeInv, NEW h \in Handlers, Open(h)
    PROVE  /\ Live(h)' \in Names /\ Live(h)'.by = h /\ Live(h)'.key = NameKey(h)
           /\ Listed' = Listed \cup {Live(h)'}
           /\ OwnFiles(h)' = OwnFiles(h) \cup {Live(h)'}
           /\ \A g \in Handlers \ {h} : OwnFiles(g)' = OwnFiles(g)
           /\ \A n \in Listed : files'[n] = files[n]
           /\ Live(h)' \notin Listed => files'[Live(h)'] = {}
           /\ \A g \in Handlers : Retained(g)' = Retained(g) /\ Written(g)' = Written(g)
           /\ pc' = [pc EXCEPT ![h] = "append"] /\ pc[h] = "idle"
           /\ key' = [key EXCEPT ![h] = NameKey(h)]
           /\ next' = next /\ doom' = doom /\ period' = period
<1>1. /\ pc' = [pc EXCEPT ![h] = "append"] /\ pc[h] = "idle"
      /\ key' = [key EXCEPT ![h] = NameKey(h)]
      /\ next' = next /\ doom' = doom /\ period' = period
  BY DEF Open, At, GoTo
<1>2. Live(h)' \in Names /\ Live(h)'.by = h /\ Live(h)'.key = NameKey(h)
  <2>1. NameKey(h) \in Keys
    BY Params, NamesFinite DEF NameKey, TypeInv, TypeOK
  <2>2. key'[h] = NameKey(h)
    BY <1>1 DEF TypeInv, TypeOK
  <2>3. QED
    BY <2>1, <2>2 DEF Live, Names
<1>3. {} # Absent
  BY SharedFolderAssumption
<1>4. \A n \in Names : n # Live(h)' => files'[n] = files[n]
  BY DEF Open, TypeInv, TypeOK
<1>5. files[Live(h)'] # Absent => files'[Live(h)'] = files[Live(h)']
  BY DEF Open
<1>6. files[Live(h)'] = Absent => files'[Live(h)'] = {}
  BY <1>2 DEF Open, TypeInv, TypeOK
<1>7. Listed' = Listed \cup {Live(h)'}
  BY <1>2, <1>3, <1>4, <1>5, <1>6 DEF Listed
<1>8. /\ \A n \in Listed : files'[n] = files[n]
      /\ Live(h)' \notin Listed => files'[Live(h)'] = {}
  BY <1>2, <1>4, <1>5, <1>6 DEF Listed
<1>9. /\ OwnFiles(h)' = OwnFiles(h) \cup {Live(h)'}
      /\ \A g \in Handlers \ {h} : OwnFiles(g)' = OwnFiles(g)
  BY <1>2, <1>7 DEF OwnFiles
<1>10. ASSUME NEW g \in Handlers PROVE Retained(g)' = Retained(g) /\ Written(g)' = Written(g)
  <2>1. OwnFiles(g) \subseteq OwnFiles(g)' /\ \A n \in OwnFiles(g) : files'[n] = files[n]
    BY <1>8, <1>9 DEF OwnFiles
  <2>2. \A n \in OwnFiles(g)' : n \in OwnFiles(g) \/ files'[n] = {}
    BY <1>8, <1>9, <1>2 DEF OwnFiles
  <2>3. QED
    BY <1>1, <2>1, <2>2 DEF Retained, Written
<1>11. QED
  BY <1>1, <1>2, <1>7, <1>8, <1>9, <1>10

\* Appending puts the next message into the open file, when it is still there.
LEMMA AppendEffect ==
    ASSUME TypeInv, NEW h \in Handlers, AppendRotating(h) \/ AppendByFormat(h)
    PROVE  /\ Listed' = Listed /\ \A g \in Handlers : OwnFiles(g)' = OwnFiles(g)
           /\ \A n \in Names : n # Live(h) => files'[n] = files[n]
           /\ Live(h) \in Listed => files'[Live(h)] = files[Live(h)] \cup {next[h]}
           /\ \A g \in Handlers \ {h} : Retained(g)' = Retained(g) /\ Written(g)' = Written(g)
           /\ Live(h) \in Listed => Retained(h)' = Retained(h) \cup {next[h]}
           /\ Live(h) \notin Listed => Retained(h)' = Retained(h)
           /\ Written(h)' = Written(h) \cup {next[h]}
           /\ pc[h] = "append" /\ pc' = [pc EXCEPT ![h] = pc'[h]] /\ pc'[h] \in {"idle", "glob"}
           /\ next' = [next EXCEPT ![h] = @ + 1]
           /\ doom' = doom /\ period' = period
           /\ key'[h] >= key[h] /\ \A g \in Handlers \ {h} : key'[g] = key[g]
<1>1. /\ pc[h] = "append" /\ pc'[h] \in {"idle", "glob"} /\ pc' = [pc EXCEPT ![h] = pc'[h]]
      /\ next' = [next EXCEPT ![h] = @ + 1] /\ doom' = doom /\ period' = period
      /\ files' = IF files[Live(h)] = Absent THEN files
                  ELSE [files EXCEPT ![Live(h)] = @ \cup {next[h]}]
  BY DEF AppendRotating, AppendByFormat, Append, At, GoTo, TypeInv, TypeOK
<1>2. key'[h] >= key[h] /\ \A g \in Handlers \ {h} : key'[g] = key[g]
  <2>1. key \in [Handlers -> Keys] /\ key[h] \in Nat
    BY TypeFacts DEF TypeInv, TypeOK
  <2>2. QED
    BY <2>1 DEF AppendRotating, AppendByFormat
<1>3. \A n \in Names : n # Live(h) => files'[n] = files[n]
  BY <1>1 DEF TypeInv, TypeOK
<1>4. Live(h) \in Names /\ Live(h).by = h
  BY TypeFacts
<1>5. files[Live(h)] # Absent => files'[Live(h)] = files[Live(h)] \cup {next[h]}
  BY <1>1, <1>4 DEF TypeInv, TypeOK
<1>6. files[Live(h)] = Absent => files'[Live(h)] = Absent
  BY <1>1
<1>7. files[Live(h)] # Absent => files'[Live(h)] # Absent
  <2>1. next[h] \in 1..MaxMsgs
    BY <1>1, TypeFacts, Params DEF TypeInv, IndexBounded
  <2>2. files[Live(h)] # Absent => files[Live(h)] \cup {next[h]} \in SUBSET (1..MaxMsgs)
    BY <1>4, <2>1 DEF TypeInv, TypeOK
  <2>3. QED
    BY <1>5, <2>2, SharedFolderAssumption
<1>8. Listed' = Listed
  BY <1>3, <1>4, <1>6, <1>7 DEF Listed
<1>9. \A g \in Handlers : OwnFiles(g)' = OwnFiles(g)
  BY <1>8 DEF OwnFiles
<1>10. \A g \in Handlers \ {h} : Retained(g)' = Retained(g)
  <2>1. \A g \in Handlers \ {h} : \A n \in OwnFiles(g) : files'[n] = files[n]
    BY <1>3, <1>4 DEF OwnFiles, Listed
  <2>2. QED
    BY <1>9, <2>1 DEF Retained
<1>11. Live(h) \in Listed => Retained(h)' = Retained(h) \cup {next[h]}
  <2>1. \A n \in OwnFiles(h) : n = Live(h) \/ files'[n] = files[n]
    BY <1>3 DEF OwnFiles, Listed
  <2>2. Live(h) \in Listed => /\ Live(h) \in OwnFiles(h)
                              /\ files'[Live(h)] = files[Live(h)] \cup {next[h]}
    BY <1>4, <1>5 DEF OwnFiles, Listed
  <2>3. QED
    BY <1>9, <2>1, <2>2 DEF Retained
<1>12. Live(h) \notin Listed => Retained(h)' = Retained(h)
  <2>1. Live(h) \notin Listed => files' = files
    BY <1>1, <1>4 DEF Listed
  <2>2. QED
    BY <1>9, <2>1 DEF Retained
<1>13. /\ Written(h)' = Written(h) \cup {next[h]}
       /\ \A g \in Handlers \ {h} : Written(g)' = Written(g)
  <2>1. next'[h] = next[h] + 1 /\ \A g \in Handlers \ {h} : next'[g] = next[g]
    BY <1>1 DEF TypeInv, TypeOK
  <2>2. next[h] \in Nat /\ next[h] >= 1
    BY TypeFacts
  <2>3. QED
    BY <2>1, <2>2 DEF Written
<1>14. Live(h) \in Listed => files'[Live(h)] = files[Live(h)] \cup {next[h]}
  BY <1>5 DEF Listed
<1>15. QED
  BY <1>1, <1>2, <1>3, <1>8, <1>9, <1>10, <1>11, <1>12, <1>13, <1>14

\* Removing takes the file whose name sorts first among those to be removed.
LEMMA RemoveEffect ==
    ASSUME TypeInv, NEW h \in Handlers, Remove(h)
    PROVE  LET d == NextDoomed(h) IN
           /\ d \in doom[h] /\ d \in Names
           /\ \A m \in doom[h] : m = d \/ SortsBefore(d, m)
           /\ Listed' = Listed \ {d}
           /\ \A g \in Handlers : OwnFiles(g)' = OwnFiles(g) \ {d}
           /\ \A n \in Listed' : files'[n] = files[n]
           /\ \A g \in Handlers : g # d.by => Retained(g)' = Retained(g)
           /\ \A g \in Handlers : Retained(g)' \subseteq Retained(g) /\ Written(g)' = Written(g)
           /\ doom' = [doom EXCEPT ![h] = @ \ {d}] /\ pc[h] = "remove"
           /\ pc' = pc /\ key' = key /\ next' = next /\ period' = period
<1> DEFINE d == NextDoomed(h)
<1>1. /\ files' = [files EXCEPT ![d] = Absent] /\ pc[h] = "remove" /\ doom[h] # {}
      /\ doom' = [doom EXCEPT ![h] = @ \ {d}]
      /\ pc' = pc /\ key' = key /\ next' = next /\ period' = period
  BY DEF Remove, At
<1>2. d \in doom[h] /\ d \in Names /\ \A m \in doom[h] : m = d \/ SortsBefore(d, m)
  BY <1>1, NextDoomedIsFirst, TypeFacts
<1> HIDE DEF d
<1>3. files'[d] = Absent /\ \A n \in Names : n # d => files'[n] = files[n]
  BY <1>1, <1>2 DEF TypeInv, TypeOK
<1>4. Listed' = Listed \ {d}
  BY <1>2, <1>3 DEF Listed
<1>5. \A g \in Handlers : OwnFiles(g)' = OwnFiles(g) \ {d}
  BY <1>4 DEF OwnFiles
<1>6. \A n \in Listed' : files'[n] = files[n]
  BY <1>3, <1>4 DEF Listed
<1>7. \A g \in Handlers : g # d.by => Retained(g)' = Retained(g)
  <2>1. \A g \in Handlers : g # d.by => OwnFiles(g)' = OwnFiles(g)
    BY <1>5 DEF OwnFiles
  <2>2. \A g \in Handlers : \A n \in OwnFiles(g)' : files'[n] = files[n]
    BY <1>6 DEF OwnFiles
  <2>3. QED
    BY <2>1, <2>2 DEF Retained
<1>8. \A g \in Handlers : Retained(g)' \subseteq Retained(g) /\ Written(g)' = Written(g)
  <2>1. \A g \in Handlers : \A n \in OwnFiles(g)' : n \in OwnFiles(g) /\ files'[n] = files[n]
    BY <1>5, <1>6 DEF OwnFiles
  <2>2. QED
    BY <1>1, <2>1 DEF Retained, Written
<1>9. QED
  BY <1>1, <1>2, <1>4, <1>5, <1>6, <1>7, <1>8 DEF d

-----------------------------------------------------------------------------
(* Order *)

\* Nothing is in the folder yet.
LEMMA OrderInvInit == Init => OnlyPrunersDoom /\ OrderInv
<1> SUFFICES ASSUME Init PROVE OnlyPrunersDoom /\ OrderInv
  OBVIOUS
<1>1. \A g \in Handlers : /\ doom[g] = {} /\ pc[g] = "down" /\ next[g] = 1
                          /\ OwnFiles(g) = {} /\ Retained(g) = {} /\ Written(g) = {}
  BY DEF Init, OwnFiles, Listed, Retained, Written
<1>2. OnlyPrunersDoom
  BY <1>1 DEF OnlyPrunersDoom
<1>3. \A g \in Handlers : Unharmed(g)
  BY <1>1 DEF Unharmed
<1>4. \A g \in Handlers : Ordered(g)
  BY <1>1 DEF Ordered, FilesOrdered, SuffixKept, LiveIsLast, LiveGone, DoomClosed, DoomOld
<1>5. QED
  BY <1>2, <1>3, <1>4 DEF OrderInv

\* A new process goes on where the files left by the last one end.
LEMMA OrderConstruct ==
    ASSUME IInv, NEW h \in Handlers, Construct(h)
    PROVE  OnlyPrunersDoom' /\ OrderInv'
<1>1. /\ pc[h] = "down" /\ pc' = [pc EXCEPT ![h] = "idle"]
      /\ key' = [key EXCEPT ![h] = IF kind[h] = "rotating" THEN ResumeKey(h) ELSE 1]
      /\ files' = files /\ doom' = doom /\ next' = next /\ period' = period
  BY DEF Construct, At, GoTo
<1>2. kind' = kind /\ mortal' = mortal /\ \A g : (Seen(g)' <=> Seen(g)) /\ (Lasting(g)' <=> Lasting(g))
  BY SetupKept DEF Next, Step
<1>3. \A g \in Handlers : /\ pc'[g] = IF g = h THEN "idle" ELSE pc[g]
                          /\ g # h => key'[g] = key[g]
  BY <1>1 DEF IInv, TypeInv, TypeOK
<1>4. kind[h] = "rotating" => key'[h] = ResumeKey(h)
  BY <1>1 DEF IInv, TypeInv, TypeOK
<1>5. OnlyPrunersDoom'
  BY <1>1, <1>2, <1>3, FilesKept DEF OnlyPrunersDoom, IInv
<1>6. ASSUME NEW g \in Handlers, ~ Seen(g) PROVE Unharmed(g)'
  <2>1. Unharmed(g)
    BY <1>6 DEF IInv, OrderInv
  <2>2. pc'[g] = "append" => pc[g] = "append" /\ Live(g)' = Live(g)
    BY <1>3 DEF Live
  <2>3. QED
    BY <1>1, <2>1, <2>2, FilesKept DEF Unharmed
<1>7. ASSUME NEW g \in Handlers, Seen(g), Lasting(g) PROVE Ordered(g)'
  <2>0. Ordered(g)
    BY <1>7 DEF IInv, OrderInv
  <2>1. FilesOrdered(g)' /\ SuffixKept(g)' /\ OwnFiles(g)' = OwnFiles(g) /\ Listed' = Listed
    BY <1>1, <2>0, FilesKept DEF Ordered
  <2>2. g = h /\ kind[g] = "rotating" => \A n \in OwnFiles(g) : n.key <= key'[g]
    BY <1>4, <1>7, ResumeKeyBounds DEF IInv
  <2>3. LiveIsLast(g)'
    BY <1>1, <1>2, <1>3, <2>0, <2>1, <2>2 DEF Ordered, LiveIsLast
  <2>4. LiveGone(g)'
    BY <1>3, <2>0, <2>1 DEF Ordered, LiveGone, Live
  <2>5. DoomClosed(g)'
    BY <1>1, <2>0, <2>1 DEF Ordered, DoomClosed
  <2>6. DoomOld(g)'
    <3> SUFFICES ASSUME NEW f \in Handlers, NEW n \in doom[f], n.by = g
                 PROVE  /\ kind[g] = "dated" => n.key <= period
                        /\ kind[g] = "rotating" =>
                              IF pc'[g] = "down" THEN \E m \in OwnFiles(g) : n.key <= m.key
                                                 ELSE n.key <= key'[g]
      BY <1>1, <1>2, <2>1 DEF DoomOld
    <3>1. /\ kind[g] = "dated" => n.key <= period
          /\ kind[g] = "rotating" => IF pc[g] = "down" THEN \E m \in OwnFiles(g) : n.key <= m.key
                                                       ELSE n.key <= key[g]
      BY <2>0 DEF Ordered, DoomOld
    <3>2. n.key \in Nat /\ \A m \in OwnFiles(g) : m.key \in Nat
      BY TypeFacts DEF IInv
    <3>3. kind[g] = "rotating" => key'[g] \in Nat
      BY <1>3, <1>4, ResumeKeyBounds, NamesFinite DEF IInv, TypeInv, TypeOK
    <3>4. QED
      BY <1>1, <1>3, <2>2, <3>1, <3>2, <3>3
  <2>7. QED
    BY <2>1, <2>3, <2>4, <2>5, <2>6 DEF Ordered
<1>8. QED
  BY <1>2, <1>5, <1>6, <1>7 DEF OrderInv

\* What is opened sorts after all there is, and after all that is to be removed.
LEMMA OrderOpen ==
    ASSUME IInv, NEW h \in Handlers, Open(h)
    PROVE  OnlyPrunersDoom' /\ OrderInv'
<1>0. TypeInv
  BY DEF IInv
<1>1. /\ Live(h)' \in Names /\ Live(h)'.by = h /\ Live(h)'.key = NameKey(h)
      /\ Listed' = Listed \cup {Live(h)'}
      /\ OwnFiles(h)' = OwnFiles(h) \cup {Live(h)'}
      /\ \A g \in Handlers \ {h} : OwnFiles(g)' = OwnFiles(g)
      /\ \A n \in Listed : files'[n] = files[n]
      /\ Live(h)' \notin Listed => files'[Live(h)'] = {}
      /\ \A g \in Handlers : Retained(g)' = Retained(g) /\ Written(g)' = Written(g)
      /\ next' = next /\ doom' = doom /\ period' = period
  BY <1>0, OpenEffect
<1>2. kind' = kind /\ mortal' = mortal /\ \A g : (Seen(g)' <=> Seen(g)) /\ (Lasting(g)' <=> Lasting(g))
  BY SetupKept DEF Next, Step
<1>3. pc[h] = "idle" /\ \A g \in Handlers : /\ pc'[g] = IF g = h THEN "append" ELSE pc[g]
                                            /\ key'[g] = IF g = h THEN NameKey(h) ELSE key[g]
  BY <1>0, OpenEffect DEF TypeInv, TypeOK
<1>4. OnlyPrunersDoom'
  BY <1>1, <1>2, <1>3 DEF OnlyPrunersDoom, IInv
<1>5. ASSUME NEW g \in Handlers, ~ Seen(g) PROVE Unharmed(g)'
  <2>1. Unharmed(g)
    BY <1>5 DEF IInv, OrderInv
  <2>2. pc'[g] = "append" => Live(g)' \in Listed'
    BY <1>1, <1>3, <2>1 DEF Unharmed, Live
  <2>3. QED
    BY <1>1, <2>1, <2>2 DEF Unharmed
<1>6. ASSUME NEW g \in Handlers, Seen(g), Lasting(g) PROVE Ordered(g)'
  <2>0. Ordered(g)
    BY <1>6 DEF IInv, OrderInv
  <2>1. SuffixKept(g)'
    BY <1>1, <2>0 DEF Ordered, SuffixKept
  <2>2. \A n \in OwnFiles(g)' : \/ n \in OwnFiles(g) /\ files'[n] = files[n]
                                \/ files'[n] = {}
    BY <1>1 DEF OwnFiles
  <2>3. FilesOrdered(g)'
    BY <1>1, <2>0, <2>2 DEF Ordered, FilesOrdered
  <2>4. g # h => LiveIsLast(g)' /\ LiveGone(g)' /\ DoomClosed(g)' /\ DoomOld(g)'
    <3> SUFFICES ASSUME g # h PROVE LiveIsLast(g)' /\ LiveGone(g)' /\ DoomClosed(g)' /\ DoomOld(g)'
      OBVIOUS
    <3>1. /\ OwnFiles(g)' = OwnFiles(g) /\ pc'[g] = pc[g] /\ key'[g] = key[g] /\ Live(g)' = Live(g)
          /\ \A n \in Names : n.by = g => (n \in Listed' <=> n \in Listed)
      BY <1>1, <1>3 DEF Live
    <3>2. LiveIsLast(g)'
      BY <1>1, <1>2, <2>0, <3>1 DEF Ordered, LiveIsLast
    <3>3. LiveGone(g)'
      BY <1>0, <2>0, <3>1, TypeFacts DEF Ordered, LiveGone
    <3>4. DoomClosed(g)'
      BY <1>1, <2>0, <3>1 DEF Ordered, DoomClosed
    <3>5. DoomOld(g)'
      BY <1>0, <1>1, <1>2, <2>0, <3>1, TypeFacts DEF Ordered, DoomOld
    <3>6. QED
      BY <3>2, <3>3, <3>4, <3>5
  <2>5. g = h => LiveIsLast(g)' /\ LiveGone(g)' /\ DoomClosed(g)' /\ DoomOld(g)'
    <3> SUFFICES ASSUME g = h PROVE LiveIsLast(h)' /\ LiveGone(h)' /\ DoomClosed(h)' /\ DoomOld(h)'
      OBVIOUS
    <3>0. /\ key'[h] = Live(h)'.key /\ pc'[h] = "append" /\ key'[h] = NameKey(h)
          /\ Live(h)'.key \in Nat /\ period \in Nat
          /\ \A n \in Names : n.key \in Nat
      BY <1>0, <1>1, <1>3, TypeFacts
    <3>1. /\ kind[h] = "rotating" => key'[h] = key[h]
          /\ kind[h] = "dated" => key'[h] = period
          /\ kind[h] = "rotating" \/ kind[h] = "dated"
      BY <1>6, <3>0 DEF NameKey, InOrder, Lasting
    <3>2. \A n \in OwnFiles(h) : n.key <= key'[h]
      BY <1>3, <2>0, <3>1 DEF Ordered, LiveIsLast
    <3>3. LiveIsLast(h)'
      BY <1>1, <1>2, <3>0, <3>1, <3>2 DEF LiveIsLast
    <3>4. LiveGone(h)'
      BY <1>1 DEF LiveGone
    <3>5. \A f \in Handlers : \A n \in doom[f] : n.by = h => n.key <= key'[h]
      BY <1>3, <2>0, <3>1 DEF Ordered, DoomOld
    <3>6. DoomClosed(h)'
      <4> SUFFICES ASSUME NEW f \in Handlers, NEW n \in doom[f], n.by = h,
                          NEW m \in OwnFiles(h)', m.key < n.key
                   PROVE  m \in doom[f]
        BY <1>1 DEF DoomClosed
      <4>1. n.key <= Live(h)'.key /\ n \in Names
        BY <1>0, <3>0, <3>5, TypeFacts
      <4>2. m.key # Live(h)'.key
        BY <3>0, <4>1
      <4>3. QED
        BY <1>1, <2>0, <4>2 DEF Ordered, DoomClosed
    <3>7. DoomOld(h)'
      BY <1>1, <1>2, <3>0, <3>1, <3>5 DEF DoomOld
    <3>8. QED
      BY <3>3, <3>4, <3>6, <3>7
  <2>6. QED
    BY <2>1, <2>3, <2>4, <2>5 DEF Ordered
<1>7. QED
  BY <1>2, <1>4, <1>5, <1>6 DEF OrderInv

\* The next message goes into the file that sorts last, or is lost with all the
\* others of its handler.
LEMMA OrderAppend ==
    ASSUME IInv, NEW h \in Handlers, AppendRotating(h) \/ AppendByFormat(h)
    PROVE  OnlyPrunersDoom' /\ OrderInv'
<1>0. TypeInv
  BY DEF IInv
<1>1. /\ Listed' = Listed /\ \A g \in Handlers : OwnFiles(g)' = OwnFiles(g)
      /\ \A n \in Names : n # Live(h) => files'[n] = files[n]
      /\ Live(h) \in Listed => files'[Live(h)] = files[Live(h)] \cup {next[h]}
      /\ \A g \in Handlers \ {h} : Retained(g)' = Retained(g) /\ Written(g)' = Written(g)
      /\ Live(h) \in Listed => Retained(h)' = Retained(h) \cup {next[h]}
      /\ Live(h) \notin Listed => Retained(h)' = Retained(h)
      /\ Written(h)' = Written(h) \cup {next[h]}
      /\ pc[h] = "append" /\ pc'[h] \in {"idle", "glob"}
      /\ doom' = doom /\ period' = period
      /\ key'[h] >= key[h] /\ \A g \in Handlers \ {h} : key'[g] = key[g]
  BY <1>0, AppendEffect
<1>2. kind' = kind /\ mortal' = mortal /\ \A g : (Seen(g)' <=> Seen(g)) /\ (Lasting(g)' <=> Lasting(g))
  BY SetupKept DEF Next, Step
<1>3. /\ \A g \in Handlers \ {h} : pc'[g] = pc[g] /\ next'[g] = next[g] /\ Live(g)' = Live(g)
      /\ next'[h] = next[h] + 1
  BY <1>0, <1>1, AppendEffect DEF TypeInv, TypeOK, Live
<1>4. OnlyPrunersDoom'
  BY <1>1, <1>2, <1>3 DEF OnlyPrunersDoom, IInv
<1>5. ASSUME NEW g \in Handlers, ~ Seen(g) PROVE Unharmed(g)'
  <2>1. Unharmed(g)
    BY <1>5 DEF IInv, OrderInv
  <2>2. pc'[g] = "append" => Live(g)' \in Listed'
    BY <1>1, <1>3, <2>1 DEF Unharmed
  <2>3. Written(g)' \subseteq Retained(g)'
    BY <1>1, <2>1 DEF Unharmed
  <2>4. QED
    BY <1>1, <2>1, <2>2, <2>3 DEF Unharmed
<1>6. ASSUME NEW g \in Handlers, Seen(g), Lasting(g) PROVE Ordered(g)'
  <2>0. Ordered(g)
    BY <1>6 DEF IInv, OrderInv
  <2>1. DoomClosed(g)'
    BY <1>1, <2>0 DEF Ordered, DoomClosed
  <2>2. CASE g # h
    <3>1. /\ pc'[g] = pc[g] /\ next'[g] = next[g] /\ Live(g)' = Live(g) /\ key'[g] = key[g]
          /\ \A n \in OwnFiles(g) : files'[n] = files[n]
      BY <1>0, <1>1, <1>3, <2>2, TypeFacts
    <3>2. FilesOrdered(g)'
      BY <1>1, <2>0, <3>1 DEF Ordered, FilesOrdered
    <3>3. SuffixKept(g)'
      BY <1>1, <2>0, <2>2 DEF Ordered, SuffixKept
    <3>4. LiveIsLast(g)' /\ LiveGone(g)' /\ DoomOld(g)'
      BY <1>1, <1>2, <2>0, <3>1 DEF Ordered, LiveIsLast, LiveGone, DoomOld
    <3>5. QED
      BY <2>1, <3>2, <3>3, <3>4 DEF Ordered
  <2>3. CASE g = h
    <3>0. /\ next[h] \in Nat /\ key[h] \in Nat /\ Live(h) \in Names /\ Live(h).key = key[h]
          /\ \A n \in OwnFiles(h) : n \in Names /\ n.by = h /\ n.key \in Nat
          /\ Live(h).by = h
          /\ \A n \in OwnFiles(h) : \A x \in files[n] : x \in Nat
      BY <1>0, TypeFacts DEF OwnFiles
    <3>1. \A n \in OwnFiles(h) : n.key <= key[h] /\ \A x \in files[n] : x < next[h]
      BY <1>1, <2>0, <2>3 DEF Ordered, LiveIsLast, FilesOrdered
    <3>2. \A n \in OwnFiles(h) : /\ n = Live(h) \/ files'[n] = files[n]
                                 /\ n = Live(h) => files'[n] = files[n] \cup {next[h]}
      BY <1>1, <3>0 DEF OwnFiles
    <3>3. FilesOrdered(h)'
      <4>1. ASSUME NEW m \in OwnFiles(h), NEW n \in OwnFiles(h), m.key < n.key,
                   NEW x \in files'[m], NEW y \in files'[n]
            PROVE  x < y
        <5>1. m # Live(h) /\ x \in files[m] /\ x < next[h]
          BY <3>0, <3>1, <3>2, <4>1
        <5>2. y \in files[n] \/ y = next[h]
          BY <3>2
        <5>3. QED
          BY <2>0, <2>3, <4>1, <5>1, <5>2 DEF Ordered, FilesOrdered
      <4>2. ASSUME NEW n \in OwnFiles(h), NEW x \in files'[n] PROVE x < next[h] + 1
        <5>1. x \in files[n] \/ x = next[h]
          BY <3>2
        <5>2. QED
          BY <3>0, <3>1, <5>1
      <4>3. QED
        BY <1>1, <1>3, <4>1, <4>2 DEF FilesOrdered
    <3>4. SuffixKept(h)'
      <4>1. CASE Live(h) \in Listed
        <5>1. SuffixKept(h) /\ Retained(h)' = Retained(h) \cup {next[h]}
          BY <1>1, <2>0, <2>3, <4>1 DEF Ordered
        <5>2. SUFFICES ASSUME NEW x \in Retained(h) \cup {next[h]},
                              NEW y \in Written(h) \cup {next[h]}, x < y
                       PROVE  y \in Retained(h) \cup {next[h]}
          BY <1>1, <5>1 DEF SuffixKept
        <5>3. CASE y = next[h]
          BY <5>3
        <5>4. CASE y # next[h]
          <6>1. y \in Written(h) /\ y < next[h]
            BY <3>0, <5>4 DEF Written
          <6>2. x \in Retained(h)
            BY <3>0, <5>2, <6>1 DEF Written
          <6>3. QED
            BY <5>1, <5>2, <6>1, <6>2 DEF SuffixKept
        <5>5. QED
          BY <5>3, <5>4
      <4>2. CASE Live(h) \notin Listed
        <5>1. Retained(h)' = {}
          BY <1>1, <2>0, <2>3, <4>2 DEF Ordered, LiveGone, Retained
        <5>2. QED
          BY <5>1 DEF SuffixKept
      <4>3. QED
        BY <4>1, <4>2
    <3>5. key'[h] \in Nat
      <4>1. TypeInv'
        BY <1>0, TypeInvStep DEF Step
      <4>2. QED
        BY <4>1, NamesFinite DEF TypeInv, TypeOK
    <3>6. LiveIsLast(h)'
      BY <1>1, <1>2, <2>0, <2>3, <3>0, <3>1, <3>5 DEF Ordered, LiveIsLast
    <3>7. LiveGone(h)'
      BY <1>1 DEF LiveGone
    <3>8. DoomOld(h)'
      <4> SUFFICES ASSUME NEW f \in Handlers, NEW n \in doom[f], n.by = h
                   PROVE  /\ kind[h] = "dated" => n.key <= period
                          /\ kind[h] = "rotating" => n.key <= key'[h]
        BY <1>1, <1>2 DEF DoomOld
      <4>1. n.key \in Nat
        BY <1>0, TypeFacts
      <4>2. QED
        BY <1>1, <2>0, <2>3, <3>0, <3>5, <4>1 DEF Ordered, DoomOld
    <3>9. QED
      BY <2>1, <2>3, <3>3, <3>4, <3>6, <3>7, <3>8 DEF Ordered
  <2>4. QED
    BY <2>2, <2>3
<1>7. QED
  BY <1>2, <1>4, <1>5, <1>6 DEF OrderInv

\* A listing leaves out the last names, and so a last part of each handler's own.
LEMMA OrderGlob ==
    ASSUME IInv, NEW h \in Handlers, Glob(h)
    PROVE  OnlyPrunersDoom' /\ OrderInv'
<1>0. TypeInv
  BY DEF IInv
<1>1. /\ pc[h] = "glob" /\ pc' = [pc EXCEPT ![h] = "remove"]
      /\ doom' = [doom EXCEPT ![h] = VerifyDoom(h)]
      /\ files' = files /\ key' = key /\ next' = next /\ period' = period
  BY DEF Glob, At, GoTo
<1>2. kind' = kind /\ mortal' = mortal /\ \A g : (Seen(g)' <=> Seen(g)) /\ (Lasting(g)' <=> Lasting(g))
  BY SetupKept DEF Next, Step
<1>3. \A g \in Handlers : /\ pc'[g] = IF g = h THEN "remove" ELSE pc[g]
                          /\ doom'[g] = IF g = h THEN VerifyDoom(h) ELSE doom[g]
  BY <1>1 DEF IInv, TypeInv, TypeOK
<1>4. \A n \in VerifyDoom(h) : n \in Listed /\ Seen(n.by) /\ n \in Scanned
  BY DEF VerifyDoom, Scanned, Seen
<1>5. OnlyPrunersDoom'
  <2>1. \A g \in Handlers : OwnFiles(g)' = OwnFiles(g)
    BY <1>1 DEF OwnFiles, Listed
  <2>2. QED
    BY <1>2, <1>3, <2>1 DEF OnlyPrunersDoom, IInv
<1>6. ASSUME NEW g \in Handlers, ~ Seen(g) PROVE Unharmed(g)'
  <2>1. Unharmed(g)
    BY <1>6 DEF IInv, OrderInv
  <2>2. \A f \in Handlers : \A n \in doom'[f] : n.by # g
    BY <1>3, <1>4, <1>6, <2>1 DEF Unharmed
  <2>3. pc'[g] = "append" => pc[g] = "append" /\ Live(g)' = Live(g)
    BY <1>1, <1>3 DEF Live
  <2>4. QED
    BY <1>1, <2>1, <2>2, <2>3, FilesKept DEF Unharmed
<1>7. ASSUME NEW g \in Handlers, Seen(g), Lasting(g) PROVE Ordered(g)'
  <2>0. Ordered(g)
    BY <1>7 DEF IInv, OrderInv
  <2>1. FilesOrdered(g)' /\ SuffixKept(g)' /\ OwnFiles(g)' = OwnFiles(g) /\ Listed' = Listed
    BY <1>1, <2>0, FilesKept DEF Ordered
  <2>2. LiveIsLast(g)' /\ LiveGone(g)'
    BY <1>1, <1>2, <1>3, <2>0, <2>1 DEF Ordered, LiveIsLast, LiveGone, Live
  <2>3. DoomClosed(g)'
    <3> SUFFICES ASSUME NEW f \in Handlers, NEW n \in doom'[f], n.by = g,
                        NEW m \in OwnFiles(g), m.key < n.key
                 PROVE  m \in doom'[f]
      BY <2>1 DEF DoomClosed
    <3>1. CASE f # h
      BY <1>3, <2>0, <3>1 DEF Ordered, DoomClosed
    <3>2. CASE f = h
      <4>1. n \in VerifyDoom(h)
        BY <1>3, <3>2
      <4>2. m \in Scanned
        BY <1>7 DEF OwnFiles, Scanned, Seen
      <4>3. SortsBefore(m, n)
        BY DEF OwnFiles, SortsBefore
      <4>4. QED
        BY <1>3, <3>2, <4>1, <4>2, <4>3, VerifyDoomClosed
    <3>3. QED
      BY <3>1, <3>2
  <2>4. DoomOld(g)'
    <3> SUFFICES ASSUME NEW f \in Handlers, NEW n \in doom'[f], n.by = g
                 PROVE  /\ kind[g] = "dated" => n.key <= period
                        /\ kind[g] = "rotating" =>
                              IF pc'[g] = "down" THEN \E m \in OwnFiles(g) : n.key <= m.key
                                                 ELSE n.key <= key[g]
      BY <1>1, <1>2, <2>1 DEF DoomOld
    <3>1. pc'[g] = "down" <=> pc[g] = "down"
      BY <1>1, <1>3
    <3>2. CASE f # h
      BY <1>3, <2>0, <3>1, <3>2 DEF Ordered, DoomOld
    <3>3. CASE f = h
      <4>1. n \in OwnFiles(g) /\ n.key <= n.key
        BY <1>0, <1>3, <1>4, <3>3, TypeFacts DEF OwnFiles
      <4>2. QED
        BY <2>0, <3>1, <4>1 DEF Ordered, LiveIsLast
    <3>4. QED
      BY <3>2, <3>3
  <2>5. QED
    BY <2>1, <2>2, <2>3, <2>4 DEF Ordered
<1>8. QED
  BY <1>2, <1>5, <1>6, <1>7 DEF OrderInv

\* With two handlers there is one other.
LEMMA OnlyOneOther ==
    ASSUME Cardinality(Handlers) <= 2,
           NEW f \in Handlers, NEW g \in Handlers, NEW h \in Handlers, f # h, g # h
    PROVE  f = g
<1>1. IsFiniteSet(Handlers \ {h}) /\ Cardinality(Handlers \ {h}) <= 1
  <2>1. IsFiniteSet(Handlers) /\ Cardinality(Handlers) \in Nat
    BY Params, FS_CardinalityType
  <2>2. QED
    BY <2>1, FS_RemoveElement
<1>2. SUFFICES ASSUME f # g PROVE FALSE
  OBVIOUS
<1> DEFINE R == (Handlers \ {h}) \ {f}
<1>3. IsFiniteSet(R) /\ Cardinality(R) = Cardinality(Handlers \ {h}) - 1
  BY <1>1, FS_RemoveElement
<1>4. Cardinality(R) = 0
  BY <1>1, <1>3, FS_CardinalityType
<1>5. R = {}
  BY <1>3, <1>4, FS_EmptySet
<1>6. QED
  BY <1>2, <1>5

\* What goes is the earliest file of its handler, and a handler that is down
\* finds all the files that are still to go.
LEMMA OrderRemove ==
    ASSUME IInv, NEW h \in Handlers, Remove(h)
    PROVE  OnlyPrunersDoom' /\ OrderInv'
<1>0. TypeInv
  BY DEF IInv
<1> DEFINE d == NextDoomed(h)
<1>1. /\ d \in doom[h] /\ d \in Names
      /\ \A m \in doom[h] : m = d \/ SortsBefore(d, m)
      /\ Listed' = Listed \ {d}
      /\ \A g \in Handlers : OwnFiles(g)' = OwnFiles(g) \ {d}
      /\ \A n \in Listed' : files'[n] = files[n]
      /\ \A g \in Handlers : g # d.by => Retained(g)' = Retained(g)
      /\ \A g \in Handlers : Retained(g)' \subseteq Retained(g) /\ Written(g)' = Written(g)
      /\ doom' = [doom EXCEPT ![h] = @ \ {d}] /\ pc[h] = "remove"
      /\ pc' = pc /\ key' = key /\ next' = next /\ period' = period
  BY <1>0, RemoveEffect
<1> HIDE DEF d
<1>2. kind' = kind /\ mortal' = mortal /\ \A g : (Seen(g)' <=> Seen(g)) /\ (Lasting(g)' <=> Lasting(g))
  BY SetupKept DEF Next, Step
<1>3. \A g \in Handlers : doom'[g] = IF g = h THEN doom[h] \ {d} ELSE doom[g]
  BY <1>1 DEF IInv, TypeInv, TypeOK
<1>4. OnlyPrunersDoom'
  BY <1>1, <1>2, <1>3 DEF OnlyPrunersDoom, IInv
<1>5. ASSUME NEW g \in Handlers, ~ Seen(g) PROVE Unharmed(g)'
  <2>1. Unharmed(g)
    BY <1>5 DEF IInv, OrderInv
  <2>2. d.by # g
    BY <1>1, <2>1 DEF Unharmed
  <2>3. pc'[g] = "append" => Live(g)' \in Listed'
    BY <1>0, <1>1, <2>1, <2>2, TypeFacts DEF Unharmed, Live
  <2>4. QED
    BY <1>1, <1>3, <2>1, <2>2, <2>3 DEF Unharmed
<1>6. ASSUME NEW g \in Handlers, Seen(g), Lasting(g) PROVE Ordered(g)'
  <2>0. Ordered(g)
    BY <1>6 DEF IInv, OrderInv
  <2>1. \A n \in OwnFiles(g)' : n \in OwnFiles(g) /\ n # d /\ files'[n] = files[n]
    BY <1>1 DEF OwnFiles
  <2>2. FilesOrdered(g)'
    BY <1>1, <2>0, <2>1 DEF Ordered, FilesOrdered
  <2>3. LiveIsLast(g)'
    BY <1>1, <1>2, <2>0, <2>1 DEF Ordered, LiveIsLast
  <2>4. DoomClosed(g)'
    BY <1>3, <2>0, <2>1 DEF Ordered, DoomClosed
  <2>5. \A m \in OwnFiles(g)' : d.by = g => d.key < m.key
    <3> SUFFICES ASSUME NEW m \in OwnFiles(g)', d.by = g PROVE d.key < m.key
      OBVIOUS
    <3>1. m \in Names /\ m.by = g /\ m.key \in Nat /\ d.key \in Nat /\ m # d
      BY <1>0, <1>1, <2>1, TypeFacts
    <3>2. m.key # d.key
      BY <1>1, <3>1, NameFields
    <3>3. ~ (m.key < d.key)
      <4>1. m.key < d.key => m \in doom[h]
        BY <1>1, <2>0, <2>1 DEF Ordered, DoomClosed
      <4>2. SortsBefore(d, m) => d.key < m.key
        BY <1>0, <1>1, <3>1, TypeFacts DEF SortsBefore
      <4>3. QED
        BY <1>1, <3>1, <4>1, <4>2
    <3>4. QED
      BY <3>1, <3>2, <3>3
  <2>6. SuffixKept(g)'
    <3>1. CASE g # d.by
      BY <1>1, <2>0, <3>1 DEF Ordered, SuffixKept
    <3>2. CASE g = d.by
      <4> SUFFICES ASSUME NEW x \in Retained(g)', NEW y \in Written(g), x < y
                   PROVE  y \in Retained(g)'
        BY <1>1 DEF SuffixKept
      <4>1. PICK m \in OwnFiles(g)' : x \in files[m]
        BY <2>1 DEF Retained
      <4>2. y \in Retained(g)
        BY <1>1, <2>0 DEF Ordered, SuffixKept
      <4>3. PICK n \in OwnFiles(g) : y \in files[n]
        BY <4>2 DEF Retained
      <4>4. n # d
        <5>1. d \in OwnFiles(g) => y < x \/ y \notin files[d]
          BY <2>0, <2>1, <2>5, <3>2, <4>1 DEF Ordered, FilesOrdered
        <5>2. x \in Nat /\ y \in Nat
          <6>1. m \in Listed /\ files[m] \in SUBSET (1..MaxMsgs)
            BY <1>0, <2>1, TypeFacts DEF OwnFiles
          <6>2. next[g] \in Nat
            BY <1>0, TypeFacts
          <6>3. QED
            BY <1>0, <4>1, <6>1, <6>2, TypeFacts DEF Written
        <5>3. QED
          BY <4>3, <5>1, <5>2
      <4>5. n \in OwnFiles(g)' /\ y \in files'[n]
        BY <1>1, <2>1, <4>3, <4>4
      <4>6. QED
        BY <4>5 DEF Retained
    <3>3. QED
      BY <3>1, <3>2
  <2>7. LiveGone(g)'
    <3> SUFFICES ASSUME pc[g] = "append", Live(g) \notin Listed' PROVE OwnFiles(g)' = {}
      BY <1>1 DEF LiveGone, Live
    <3>1. CASE Live(g) \notin Listed
      BY <1>1, <2>0, <3>1 DEF Ordered, LiveGone
    <3>2. CASE Live(g) \in Listed
      <4>1. Live(g) = d /\ d.by = g /\ d.key = key[g] /\ key[g] \in Nat
        BY <1>0, <1>1, <3>2, TypeFacts
      <4>2. \A m \in OwnFiles(g)' : m.key <= key[g] /\ m.key \in Nat
        BY <1>0, <2>0, <2>1, TypeFacts DEF Ordered, LiveIsLast
      <4>3. QED
        BY <2>5, <4>1, <4>2
    <3>3. QED
      BY <3>1, <3>2
  <2>8. DoomOld(g)'
    <3> SUFFICES ASSUME NEW f \in Handlers, NEW n \in doom'[f], n.by = g
                 PROVE  /\ kind[g] = "dated" => n.key <= period
                        /\ kind[g] = "rotating" =>
                              IF pc[g] = "down" THEN \E m \in OwnFiles(g)' : n.key <= m.key
                                                ELSE n.key <= key[g]
      BY <1>1, <1>2 DEF DoomOld
    <3>1. /\ n \in doom[f] /\ (f = h => n # d)
          /\ kind[g] = "dated" => n.key <= period
          /\ kind[g] = "rotating" => IF pc[g] = "down" THEN \E m \in OwnFiles(g) : n.key <= m.key
                                                       ELSE n.key <= key[g]
      BY <1>3, <2>0 DEF Ordered, DoomOld
    <3>2. ASSUME kind[g] = "rotating", pc[g] = "down" PROVE \E m \in OwnFiles(g)' : n.key <= m.key
      <4>1. PICK m \in OwnFiles(g) : n.key <= m.key
        BY <3>1, <3>2
      <4>2. /\ n \in Names /\ n.key \in Nat /\ d.key \in Nat
            /\ \A k \in OwnFiles(g) : k.key \in Nat /\ k.by = g
        BY <1>0, <1>1, <3>1, TypeFacts
      <4>3. CASE m # d
        BY <1>1, <4>1, <4>3
      <4>4. CASE m = d /\ InOrder(g)
        <5>1. doom[g] = {} /\ f # g /\ h # g
          BY <1>1, <3>1, <3>2 DEF IInv, OnlyPrunersDoom
        <5>2. mortal
          BY <3>2, <4>1 DEF IInv, OnlyPrunersDoom
        <5>3. Cardinality(Handlers) <= 2
          BY <3>2, <4>4, <5>2 DEF InOrder
        <5>4. f = h
          BY <5>1, <5>3, OnlyOneOther
        <5>5. n # d /\ SortsBefore(d, n) /\ d.by = g
          BY <1>1, <3>1, <4>2, <4>1, <4>4, <5>4
        <5>6. d.key < n.key
          BY <5>5, <1>0, <3>1, TypeFacts DEF SortsBefore
        <5>7. QED
          BY <4>1, <4>2, <4>4, <5>6
      <4>5. CASE m = d /\ ~ InOrder(g)
        <5>1. g = Top /\ NewestTwo
          BY <1>6, <4>5 DEF Lasting, IInv
        <5>2. PICK a \in OwnFiles(g), b \in OwnFiles(g) : d.key < a.key /\ a.key < b.key
          BY <1>1, <4>1, <4>2, <4>5, <5>1 DEF NewestTwo
        <5>3. a # d /\ n.key <= a.key
          BY <4>1, <4>2, <4>5, <5>2
        <5>4. QED
          BY <1>1, <5>3
      <4>6. QED
        BY <4>3, <4>4, <4>5
    <3>3. QED
      BY <1>1, <3>1, <3>2
  <2>9. QED
    BY <2>2, <2>3, <2>4, <2>6, <2>7, <2>8 DEF Ordered
<1>7. QED
  BY <1>2, <1>4, <1>5, <1>6 DEF OrderInv

\* A prune ends with nothing left to remove.
LEMMA OrderReturn ==
    ASSUME IInv, NEW h \in Handlers, Return(h)
    PROVE  OnlyPrunersDoom' /\ OrderInv'
<1>1. /\ pc[h] = "remove" /\ doom[h] = {} /\ pc' = [pc EXCEPT ![h] = "idle"]
      /\ files' = files /\ key' = key /\ next' = next /\ period' = period /\ doom' = doom
  BY DEF Return, At, GoTo
<1>2. kind' = kind /\ mortal' = mortal /\ \A g : (Seen(g)' <=> Seen(g)) /\ (Lasting(g)' <=> Lasting(g))
  BY SetupKept DEF Next, Step
<1>3. \A g \in Handlers : pc'[g] = IF g = h THEN "idle" ELSE pc[g]
  BY <1>1 DEF IInv, TypeInv, TypeOK
<1>4. \A g \in Handlers : OwnFiles(g)' = OwnFiles(g) /\ Live(g)' = Live(g)
  BY <1>1 DEF OwnFiles, Listed, Live
<1>5. OnlyPrunersDoom'
  BY <1>1, <1>2, <1>3, <1>4 DEF OnlyPrunersDoom, IInv
<1>6. ASSUME NEW g \in Handlers, ~ Seen(g) PROVE Unharmed(g)'
  BY <1>1, <1>3, <1>4, <1>6, FilesKept DEF Unharmed, IInv, OrderInv
<1>7. ASSUME NEW g \in Handlers, Seen(g), Lasting(g) PROVE Ordered(g)'
  <2>0. Ordered(g)
    BY <1>7 DEF IInv, OrderInv
  <2>1. FilesOrdered(g)' /\ SuffixKept(g)' /\ Listed' = Listed
    BY <1>1, <2>0, FilesKept DEF Ordered
  <2>2. LiveIsLast(g)' /\ LiveGone(g)'
    BY <1>1, <1>2, <1>3, <1>4, <2>0, <2>1 DEF Ordered, LiveIsLast, LiveGone
  <2>3. DoomClosed(g)' /\ DoomOld(g)'
    BY <1>1, <1>2, <1>3, <1>4, <2>0, <2>1 DEF Ordered, DoomClosed, DoomOld
  <2>4. QED
    BY <2>1, <2>2, <2>3 DEF Ordered
<1>8. QED
  BY <1>2, <1>5, <1>6, <1>7 DEF OrderInv

\* Time only makes later names; a death forgets what was still to be removed.
LEMMA OrderOther ==
    ASSUME IInv, Tick \/ Crash \/ UNCHANGED vars
    PROVE  OnlyPrunersDoom' /\ OrderInv'
<1>1. files' = files /\ next' = next
  BY DEF Tick, Crash, vars
<1>2. kind' = kind /\ mortal' = mortal /\ \A g : (Seen(g)' <=> Seen(g)) /\ (Lasting(g)' <=> Lasting(g))
  BY SetupKept DEF Next
<1>3. Listed' = Listed /\ \A g \in Handlers : OwnFiles(g)' = OwnFiles(g)
  BY <1>1, FilesKept
<1>4. CASE Tick \/ UNCHANGED vars
  <2>1. pc' = pc /\ key' = key /\ doom' = doom /\ period' \in {period, period + 1}
    BY <1>4 DEF Tick, vars, frames
  <2>2. period \in Nat /\ \A g \in Handlers : \A n \in OwnFiles(g) \cup doom[g] : n.key \in Nat
    BY TypeFacts DEF IInv
  <2>3. OnlyPrunersDoom'
    BY <1>2, <1>3, <2>1 DEF OnlyPrunersDoom, IInv
  <2>4. ASSUME NEW g \in Handlers, ~ Seen(g) PROVE Unharmed(g)'
    BY <1>1, <1>3, <2>1, <2>4, FilesKept DEF Unharmed, Live, IInv, OrderInv
  <2>5. ASSUME NEW g \in Handlers, Seen(g), Lasting(g) PROVE Ordered(g)'
    <3>0. Ordered(g)
      BY <2>5 DEF IInv, OrderInv
    <3>1. FilesOrdered(g)' /\ SuffixKept(g)'
      BY <1>1, <3>0, FilesKept DEF Ordered
    <3>2. LiveIsLast(g)' /\ LiveGone(g)'
      BY <1>2, <1>3, <2>1, <2>2, <3>0 DEF Ordered, LiveIsLast, LiveGone, Live
    <3>3. DoomClosed(g)' /\ DoomOld(g)'
      BY <1>2, <1>3, <2>1, <2>2, <3>0 DEF Ordered, DoomClosed, DoomOld
    <3>4. QED
      BY <3>1, <3>2, <3>3 DEF Ordered
  <2>6. QED
    BY <1>2, <2>3, <2>4, <2>5 DEF OrderInv
<1>5. CASE Crash
  <2>1. mortal /\ period' = period /\ \A g \in Handlers : pc'[g] = "down" /\ doom'[g] = {}
    BY <1>5 DEF Crash
  <2>2. OnlyPrunersDoom'
    BY <1>2, <2>1 DEF OnlyPrunersDoom
  <2>3. ASSUME NEW g \in Handlers, ~ Seen(g) PROVE Unharmed(g)'
    BY <1>1, <2>1, <2>3, FilesKept DEF Unharmed, IInv, OrderInv
  <2>4. ASSUME NEW g \in Handlers, Seen(g), Lasting(g) PROVE Ordered(g)'
    <3>0. Ordered(g)
      BY <2>4 DEF IInv, OrderInv
    <3>1. FilesOrdered(g)' /\ SuffixKept(g)'
      BY <1>1, <3>0, FilesKept DEF Ordered
    <3>2. LiveIsLast(g)' /\ LiveGone(g)' /\ DoomClosed(g)' /\ DoomOld(g)'
      BY <1>2, <1>3, <2>1, <3>0 DEF Ordered, LiveIsLast, LiveGone, DoomClosed, DoomOld
    <3>3. QED
      BY <3>1, <3>2 DEF Ordered
  <2>5. QED
    BY <1>2, <2>2, <2>3, <2>4 DEF OrderInv
<1>6. QED
  BY <1>4, <1>5

\* No handler's names sort after those of Top.
LEMMA TopIsLast == Top \in Handlers /\ \A h \in Handlers : h <= Top
BY Params, MaxOfFinite DEF Top

\* A listing leaves the last handler's two last files out.
LEMMA VerifyDoomKeepsTwo ==
    ASSUME Roomy, NEW h \in Handlers, NEW n \in VerifyDoom(h), n.by = Top
    PROVE  \E a, b \in OwnFiles(Top) : n.key < a.key /\ a.key < b.key
<1> DEFINE L == {m \in Scanned : SortsBefore(n, m)}
<1>1. IsFiniteSet(L)
  <2>1. L \in SUBSET Names
    BY DEF Scanned, Listed
  <2>2. QED
    BY <2>1, NamesFinite, FS_Subset
<1>2. Cardinality(L) >= 2
  <2>1. Cardinality(L) >= Limit[h] /\ Limit[h] >= 2 /\ Limit[h] \in Nat
    BY Params DEF VerifyDoom, Roomy
  <2>2. Cardinality(L) \in Nat
    BY <1>1, FS_CardinalityType
  <2> HIDE DEF L
  <2>3. QED
    BY <2>1, <2>2
<1>3. PICK a \in L, b \in L : a # b
  <2> HIDE DEF L
  <2> QED
    BY <1>1, <1>2, TwoElements
<1>4. \A m \in L : m \in OwnFiles(Top) /\ n.key < m.key /\ m.key \in Nat /\ m \in Names
  <2> SUFFICES ASSUME NEW m \in L
               PROVE  m \in OwnFiles(Top) /\ n.key < m.key /\ m.key \in Nat /\ m \in Names
    OBVIOUS
  <2>1. m \in Listed /\ m \in Names /\ SortsBefore(n, m)
    BY DEF Scanned, Listed
  <2>2. m.by \in Handlers /\ m.by \in Nat /\ m.key \in Nat /\ Top \in Nat
    BY <2>1, NameFields, NamesFinite, TopIsLast, Params
  <2>3. m.by <= Top
    BY <2>2, TopIsLast
  <2>4. m.by = Top /\ n.key < m.key
    BY <2>1, <2>2, <2>3 DEF SortsBefore
  <2>5. QED
    BY <2>1, <2>2, <2>4 DEF OwnFiles
<1>5. a.key # b.key
  BY <1>3, <1>4, NameFields DEF OwnFiles
<1>6. QED
  BY <1>3, <1>4, <1>5

\* The two files stay: none of them is to be removed before two others are there.
LEMMA NewestTwoNext ==
    ASSUME IInv, [Next]_vars, Roomy
    PROVE  NewestTwo'
<1>0. TypeInv /\ NewestTwo /\ Top \in Handlers
  BY TopIsLast DEF IInv
<1>1. ASSUME OwnFiles(Top) \subseteq OwnFiles(Top)',
             \A g \in Handlers : doom'[g] \subseteq doom[g]
      PROVE  NewestTwo'
  BY <1>0, <1>1 DEF NewestTwo
<1>2. ASSUME NEW h \in Handlers, Construct(h) \/ Return(h) PROVE NewestTwo'
  BY <1>1, <1>2 DEF Construct, Return, OwnFiles, Listed
<1>3. ASSUME NEW h \in Handlers, Open(h) PROVE NewestTwo'
  <2>1. OwnFiles(Top) \subseteq OwnFiles(Top)' /\ doom' = doom
    BY <1>0, <1>3, OpenEffect
  <2>2. QED
    BY <1>1, <2>1
<1>4. ASSUME NEW h \in Handlers, AppendRotating(h) \/ AppendByFormat(h) PROVE NewestTwo'
  <2>1. OwnFiles(Top)' = OwnFiles(Top) /\ doom' = doom
    BY <1>0, <1>4, AppendEffect
  <2>2. QED
    BY <1>1, <2>1
<1>5. ASSUME NEW h \in Handlers, Glob(h) PROVE NewestTwo'
  <2>1. OwnFiles(Top)' = OwnFiles(Top)
    BY <1>5 DEF Glob, OwnFiles, Listed
  <2>2. \A g \in Handlers : doom'[g] = IF g = h THEN VerifyDoom(h) ELSE doom[g]
    BY <1>0, <1>5 DEF Glob, TypeInv, TypeOK
  <2>3. QED
    BY <1>0, <2>1, <2>2, VerifyDoomKeepsTwo DEF NewestTwo
<1>6. ASSUME NEW h \in Handlers, Remove(h) PROVE NewestTwo'
  <2> DEFINE d == NextDoomed(h)
  <2>1. /\ d \in doom[h] /\ d \in Names
        /\ OwnFiles(Top)' = OwnFiles(Top) \ {d}
        /\ doom' = [doom EXCEPT ![h] = @ \ {d}]
    BY <1>0, <1>6, RemoveEffect
  <2> HIDE DEF d
  <2>2. \A g \in Handlers : doom'[g] \subseteq doom[g]
    BY <1>0, <2>1 DEF TypeInv, TypeOK
  <2> SUFFICES ASSUME NEW g \in Handlers, NEW n \in doom[g], n.by = Top
               PROVE  \E a, b \in OwnFiles(Top)' : n.key < a.key /\ a.key < b.key
    BY <2>2 DEF NewestTwo
  <2>3. n.key \in Nat /\ d.key \in Nat /\ \A m \in OwnFiles(Top) : m.key \in Nat /\ m.by = Top
    BY <1>0, <2>1, TypeFacts
  <2>4. PICK a \in OwnFiles(Top), b \in OwnFiles(Top) : n.key < a.key /\ a.key < b.key
    BY <1>0 DEF NewestTwo
  <2>5. CASE d # a /\ d # b
    BY <2>1, <2>4, <2>5
  <2>6. CASE d = a \/ d = b
    <3>1. d.by = Top
      BY <2>3, <2>6
    <3>2. PICK e \in OwnFiles(Top), f \in OwnFiles(Top) : d.key < e.key /\ e.key < f.key
      BY <1>0, <2>1, <3>1 DEF NewestTwo
    <3>3. n.key < e.key /\ e # d /\ f # d
      BY <2>3, <2>4, <2>6, <3>2
    <3>4. QED
      BY <2>1, <3>2, <3>3
  <2>7. QED
    BY <2>5, <2>6
<1>7. CASE Tick \/ UNCHANGED vars
  BY <1>1, <1>7 DEF Tick, vars, frames, OwnFiles, Listed
<1>8. CASE Crash
  BY <1>8 DEF Crash, NewestTwo
<1>9. QED
  BY <1>2, <1>3, <1>4, <1>5, <1>6, <1>7, <1>8 DEF Next, Step

\* The invariant is inductive.
LEMMA IInvNext == IInv /\ [Next]_vars => IInv'
<1> SUFFICES ASSUME IInv, [Next]_vars PROVE IInv'
  OBVIOUS
<1>1. TypeInv'
  BY TypeInvStep, TypeInvOther DEF Next, IInv
<1>2. ASSUME NEW h \in Handlers, Step(h) PROVE OnlyPrunersDoom' /\ OrderInv'
  BY <1>2, OrderConstruct, OrderOpen, OrderAppend, OrderGlob, OrderRemove, OrderReturn DEF Step
<1>3. OnlyPrunersDoom' /\ OrderInv'
  BY <1>2, OrderOther DEF Next
<1>4. Roomy => NewestTwo'
  BY NewestTwoNext
<1>5. Roomy' <=> Roomy
  BY DEF Roomy
<1>6. QED
  BY <1>1, <1>3, <1>4, <1>5 DEF IInv

\* The invariant holds in every reachable state.
LEMMA IInvAlways == Spec => []IInv
<1>1. Init => IInv
  BY TypeInvInit, OrderInvInit DEF IInv, NewestTwo, Init
<1>2. QED
  BY <1>1, IInvNext, PTL DEF Spec

\* Whatever prunes share a folder, however they interleave with each other, with
\* a handler between opening its file and writing to it, and with deaths of the
\* process: a handler whose names sort in the order of time loses its messages
\* from the oldest on.
THEOREM LossIsAlwaysOldestFirst == Spec => []LossIsOldestFirst
<1>1. IInv => LossIsOldestFirst
  <2> SUFFICES ASSUME IInv, NEW h \in Handlers, InOrder(h) PROVE SuffixKept(h)
    BY DEF LossIsOldestFirst, SuffixKept
  <2>1. CASE Seen(h)
    BY <2>1 DEF IInv, OrderInv, Ordered, Lasting
  <2>2. CASE ~ Seen(h)
    BY <2>2 DEF IInv, OrderInv, Unharmed, SuffixKept
  <2>3. QED
    BY <2>1, <2>2
<1>2. QED
  BY <1>1, IInvAlways, PTL

-----------------------------------------------------------------------------
(* The ring of the last handler *)

\* The file the last handler writes to next, when it has been opened before.
Reopened(b) ==
    \/ pc[Top] = "append" /\ b = Live(Top)
    \/ kind[Top] = "rotating" /\ pc[Top] = "idle" /\ b = Live(Top)
    \/ kind[Top] = "rotating" /\ pc[Top] = "down" /\ \A m \in OwnFiles(Top) : m.key <= b.key

\* Its newest message is in its last file, or in the one before a file that was
\* opened and not yet written to; and an open file is still there.
NewestKept ==
    /\ pc[Top] = "append" => Live(Top) \in Listed
    /\ next[Top] > 1 =>
         \E f \in OwnFiles(Top) : /\ next[Top] - 1 \in files[f]
                                  /\ \A b \in OwnFiles(Top) : f.key < b.key => Reopened(b)

RingInv == IInv /\ (Roomy /\ HasRing /\ Seen(Top) => NewestKept)

\* What the ring of the last handler rests on.
LEMMA RingFacts ==
    ASSUME IInv, Roomy, HasRing, Seen(Top)
    PROVE  /\ TypeInv /\ Top \in Handlers /\ Ordered(Top) /\ NewestTwo
           /\ kind[Top] = "rotating" \/ (kind[Top] = "dated" /\ ~ mortal)
<1>1. Lasting(Top)
  BY DEF HasRing, Lasting, InOrder
<1>2. QED
  BY <1>1, TopIsLast DEF IInv, OrderInv, HasRing

\* There are no two files after the one with the newest message.
LEMMA NoTwoLater ==
    ASSUME TypeInv, Top \in Handlers,
           NEW f \in OwnFiles(Top), NEW a \in OwnFiles(Top), NEW b \in OwnFiles(Top),
           \A c \in OwnFiles(Top) : f.key < c.key => Reopened(c),
           f.key < a.key, a.key < b.key
    PROVE  FALSE
<1>1. f.key \in Nat /\ a.key \in Nat /\ b.key \in Nat
  BY TypeFacts
<1>2. Reopened(a) /\ Reopened(b)
  BY <1>1
<1>3. QED
  BY <1>1, <1>2 DEF Reopened

\* No step takes the newest message of the last handler.
LEMMA NewestKeptNext ==
    ASSUME IInv, Roomy, HasRing, Seen(Top), NewestKept, [Next]_vars
    PROVE  NewestKept'
<1>0. /\ TypeInv /\ Top \in Handlers /\ Ordered(Top) /\ NewestTwo
      /\ kind[Top] = "rotating" \/ (kind[Top] = "dated" /\ ~ mortal)
      /\ kind' = kind
  BY RingFacts, SetupKept
<1>1. /\ Live(Top).by = Top /\ Live(Top).key = key[Top] /\ Live(Top) \in Names
      /\ key[Top] \in Nat /\ next[Top] \in Nat /\ next[Top] >= 1
      /\ \A n \in OwnFiles(Top) : n \in Names /\ n.by = Top /\ n.key \in Nat
      /\ \A m, n \in OwnFiles(Top) : m.key = n.key => m = n
  <2>1. \A n \in OwnFiles(Top) : n \in Names /\ n.by = Top /\ n.key \in Nat
    BY <1>0, TypeFacts
  <2>2. \A m, n \in OwnFiles(Top) : m.key = n.key => m = n
    BY <2>1, NameFields
  <2>3. QED
    BY <1>0, <2>1, <2>2, TypeFacts
<1>2. ASSUME next' = next, pc'[Top] = pc[Top], key'[Top] = key[Top],
             OwnFiles(Top)' = OwnFiles(Top), Live(Top) \in Listed => Live(Top) \in Listed',
             \A n \in OwnFiles(Top) : files'[n] = files[n]
      PROVE  NewestKept'
  <2>1. Live(Top)' = Live(Top)
    BY <1>2 DEF Live
  <2>2. \A b \in OwnFiles(Top) : Reopened(b)' <=> Reopened(b)
    BY <1>0, <1>2, <2>1 DEF Reopened
  <2>3. QED
    BY <1>2, <2>1, <2>2 DEF NewestKept
<1>3. ASSUME NEW h \in Handlers, Construct(h) PROVE NewestKept'
  <2>1. /\ files' = files /\ next' = next /\ OwnFiles(Top)' = OwnFiles(Top) /\ Listed' = Listed
        /\ \A g \in Handlers : g # h => pc'[g] = pc[g] /\ key'[g] = key[g]
        /\ pc[h] = "down" /\ pc'[h] = "idle"
        /\ kind[h] = "rotating" => key'[h] = ResumeKey(h)
    BY <1>0, <1>3 DEF Construct, OwnFiles, Listed, At, GoTo, TypeInv, TypeOK
  <2>2. CASE h # Top
    BY <1>0, <1>2, <2>1, <2>2
  <2>3. CASE h = Top
    <3> SUFFICES ASSUME next[Top] > 1
                 PROVE  \E f \in OwnFiles(Top) : /\ next[Top] - 1 \in files[f]
                                                 /\ \A b \in OwnFiles(Top) : f.key < b.key => Reopened(b)'
      BY <2>1, <2>3 DEF NewestKept
    <3>1. PICK f \in OwnFiles(Top) : /\ next[Top] - 1 \in files[f]
                                     /\ \A b \in OwnFiles(Top) : f.key < b.key => Reopened(b)
      BY DEF NewestKept
    <3>2. ASSUME NEW b \in OwnFiles(Top), f.key < b.key PROVE Reopened(b)'
      <4>1. kind[Top] = "rotating" /\ \A m \in OwnFiles(Top) : m.key <= b.key
        BY <2>1, <2>3, <3>1, <3>2 DEF Reopened
      <4>2. PICK m \in OwnFiles(Top) : m.key = ResumeKey(Top)
        BY <1>0, <3>2, ResumeKeyBounds
      <4>3. b.key <= ResumeKey(Top)
        BY <1>0, ResumeKeyBounds
      <4>4. b.key = key'[Top]
        BY <1>1, <2>1, <2>3, <4>1, <4>2, <4>3
      <4>5. b = Live(Top)'
        BY <1>1, <4>4 DEF Live, Names
      <4>6. QED
        BY <1>0, <2>1, <2>3, <4>1, <4>5 DEF Reopened
    <3>3. QED
      BY <3>1, <3>2
  <2>4. QED
    BY <2>2, <2>3
<1>4. ASSUME NEW h \in Handlers, Open(h) PROVE NewestKept'
  <2>1. /\ Live(h)' \in Names /\ Live(h)'.by = h /\ Live(h)'.key = NameKey(h)
        /\ Listed' = Listed \cup {Live(h)'}
        /\ OwnFiles(h)' = OwnFiles(h) \cup {Live(h)'}
        /\ \A g \in Handlers \ {h} : OwnFiles(g)' = OwnFiles(g)
        /\ \A n \in Listed : files'[n] = files[n]
        /\ next' = next
    BY <1>0, <1>4, OpenEffect
  <2>2. /\ pc[h] = "idle" /\ pc'[h] = "append"
        /\ \A g \in Handlers : g # h => pc'[g] = pc[g] /\ key'[g] = key[g]
    BY <1>0, <1>4, OpenEffect DEF TypeInv, TypeOK
  <2>3. CASE h # Top
    BY <1>0, <1>2, <2>1, <2>2, <2>3 DEF OwnFiles
  <2>4. CASE h = Top
    <3>1. Live(Top)' \in Listed'
      BY <2>1, <2>4
    <3>2. ASSUME next[Top] > 1
          PROVE  \E f \in OwnFiles(Top)' : /\ next[Top] - 1 \in files'[f]
                                           /\ \A b \in OwnFiles(Top)' : f.key < b.key => Reopened(b)'
      <4>1. PICK f \in OwnFiles(Top) : /\ next[Top] - 1 \in files[f]
                                       /\ \A b \in OwnFiles(Top) : f.key < b.key => Reopened(b)
        BY <3>2 DEF NewestKept
      <4>2. f \in OwnFiles(Top)' /\ next[Top] - 1 \in files'[f]
        BY <2>1, <2>4, <4>1 DEF OwnFiles
      <4>3. ASSUME NEW b \in OwnFiles(Top)', f.key < b.key PROVE b = Live(Top)'
        <5>1. CASE b \in OwnFiles(Top)
          <6>1. kind[Top] = "rotating" /\ b = Live(Top)
            BY <2>2, <2>4, <4>1, <4>3, <5>1 DEF Reopened
          <6>2. Live(Top)'.key = Live(Top).key
            BY <1>1, <2>1, <2>4, <6>1 DEF NameKey
          <6>3. QED
            BY <1>1, <2>1, <2>4, <6>1, <6>2, NameFields
        <5>2. QED
          BY <2>1, <2>4, <5>1
      <4>4. QED
        BY <2>2, <2>4, <4>2, <4>3 DEF Reopened
    <3>3. QED
      BY <2>1, <3>1, <3>2 DEF NewestKept
  <2>5. QED
    BY <2>3, <2>4
<1>5. ASSUME NEW h \in Handlers, AppendRotating(h) \/ AppendByFormat(h) PROVE NewestKept'
  <2>1. /\ Listed' = Listed /\ \A g \in Handlers : OwnFiles(g)' = OwnFiles(g)
        /\ \A n \in Names : n # Live(h) => files'[n] = files[n]
        /\ Live(h) \in Listed => files'[Live(h)] = files[Live(h)] \cup {next[h]}
        /\ pc[h] = "append" /\ pc'[h] \in {"idle", "glob"}
        /\ next' = [next EXCEPT ![h] = @ + 1]
        /\ \A g \in Handlers \ {h} : key'[g] = key[g]
    BY <1>0, <1>5, AppendEffect
  <2>2. /\ \A g \in Handlers : g # h => pc'[g] = pc[g] /\ next'[g] = next[g]
        /\ next'[h] = next[h] + 1
    BY <1>0, <1>5, AppendEffect DEF TypeInv, TypeOK
  <2>3. CASE h # Top
    <3>1. /\ pc'[Top] = pc[Top] /\ next'[Top] = next[Top] /\ Live(Top)' = Live(Top)
          /\ key'[Top] = key[Top] /\ OwnFiles(Top)' = OwnFiles(Top)
      BY <1>0, <2>1, <2>2, <2>3 DEF Live
    <3>2. \A n \in OwnFiles(Top) : files'[n] = files[n]
      BY <1>0, <1>1, <2>1, <2>3, TypeFacts
    <3>3. \A b \in OwnFiles(Top) : Reopened(b)' <=> Reopened(b)
      BY <1>0, <3>1 DEF Reopened
    <3>4. QED
      BY <2>1, <3>1, <3>2, <3>3 DEF NewestKept
  <2>4. CASE h = Top
    <3>1. Live(Top) \in OwnFiles(Top)'
      BY <1>1, <2>1, <2>4 DEF NewestKept, OwnFiles
    <3>2. next'[Top] - 1 = next[Top] /\ next[Top] \in files'[Live(Top)]
      BY <1>1, <2>1, <2>2, <2>4 DEF NewestKept
    <3>3. \A b \in OwnFiles(Top)' : ~ (Live(Top).key < b.key)
      BY <1>0, <1>1, <2>1, <2>4 DEF Ordered, LiveIsLast
    <3>4. pc'[Top] # "append"
      BY <2>1, <2>4
    <3>5. QED
      BY <3>1, <3>2, <3>3, <3>4 DEF NewestKept
  <2>5. QED
    BY <2>3, <2>4
<1>6. ASSUME NEW h \in Handlers, Glob(h) \/ Return(h) PROVE NewestKept'
  <2>1. /\ files' = files /\ next' = next /\ key' = key /\ OwnFiles(Top)' = OwnFiles(Top)
        /\ Listed' = Listed
        /\ \A g \in Handlers : g # h => pc'[g] = pc[g]
        /\ pc[h] \in {"glob", "remove"} /\ pc'[h] \in {"remove", "idle"}
    BY <1>0, <1>6 DEF Glob, Return, OwnFiles, Listed, At, GoTo, TypeInv, TypeOK
  <2>2. CASE h # Top
    BY <1>0, <1>2, <2>1, <2>2
  <2>3. CASE h = Top
    <3>1. \A b \in OwnFiles(Top) : ~ Reopened(b)
      BY <2>1, <2>3 DEF Reopened
    <3>2. QED
      BY <2>1, <2>3, <3>1 DEF NewestKept
  <2>4. QED
    BY <2>2, <2>3
<1>7. ASSUME NEW h \in Handlers, Remove(h) PROVE NewestKept'
  <2> DEFINE d == NextDoomed(h)
  <2>1. /\ d \in doom[h] /\ d \in Names
        /\ Listed' = Listed \ {d}
        /\ OwnFiles(Top)' = OwnFiles(Top) \ {d}
        /\ \A n \in Listed' : files'[n] = files[n]
        /\ pc' = pc /\ key' = key /\ next' = next
    BY <1>0, <1>7, RemoveEffect
  <2> HIDE DEF d
  <2>2. d.by = Top => \E a, b \in OwnFiles(Top) : d.key < a.key /\ a.key < b.key
    BY <1>0, <2>1 DEF NewestTwo
  <2>3. pc[Top] = "append" => Live(Top) # d
    <3>1. ASSUME pc[Top] = "append", Live(Top) = d PROVE FALSE
      <4>1. PICK a \in OwnFiles(Top), b \in OwnFiles(Top) : d.key < a.key /\ a.key < b.key
        BY <1>1, <2>2, <3>1
      <4>2. a.key <= key[Top] /\ d.key = key[Top]
        BY <1>0, <1>1, <3>1 DEF Ordered, LiveIsLast
      <4>3. QED
        BY <1>1, <4>1, <4>2
    <3>2. QED
      BY <3>1
  <2>4. ASSUME next[Top] > 1
        PROVE  \E f \in OwnFiles(Top)' : /\ next[Top] - 1 \in files'[f]
                                         /\ \A b \in OwnFiles(Top)' : f.key < b.key => Reopened(b)'
    <3>1. PICK f \in OwnFiles(Top) : /\ next[Top] - 1 \in files[f]
                                     /\ \A b \in OwnFiles(Top) : f.key < b.key => Reopened(b)
      BY <2>4 DEF NewestKept
    <3>2. f # d
      <4>1. ASSUME f = d PROVE FALSE
        <5>1. PICK a \in OwnFiles(Top), b \in OwnFiles(Top) : f.key < a.key /\ a.key < b.key
          BY <1>1, <2>2, <4>1
        <5>2. QED
          BY <1>0, <3>1, <5>1, NoTwoLater
      <4>2. QED
        BY <4>1
    <3>3. f \in OwnFiles(Top)' /\ files'[f] = files[f]
      BY <2>1, <3>2 DEF OwnFiles
    <3>4. \A b \in OwnFiles(Top)' : Reopened(b) => Reopened(b)'
      BY <1>0, <2>1 DEF Reopened, Live
    <3>5. QED
      BY <2>1, <3>1, <3>3, <3>4
  <2>5. pc'[Top] = "append" => Live(Top)' \in Listed'
    BY <2>1, <2>3 DEF NewestKept, Live
  <2>6. QED
    BY <2>1, <2>4, <2>5 DEF NewestKept
<1>8. CASE Tick \/ UNCHANGED vars
  BY <1>2, <1>8 DEF Tick, vars, frames, OwnFiles, Listed
<1>9. CASE Crash
  <2>1. /\ files' = files /\ next' = next /\ OwnFiles(Top)' = OwnFiles(Top)
        /\ pc'[Top] = "down" /\ kind[Top] = "rotating"
    BY <1>0, <1>9 DEF Crash, OwnFiles, Listed
  <2>2. ASSUME NEW b \in OwnFiles(Top), Reopened(b) PROVE Reopened(b)'
    <3>1. \A m \in OwnFiles(Top) : m.key <= b.key
      BY <1>0, <1>1, <2>1, <2>2 DEF Reopened, Ordered, LiveIsLast
    <3>2. QED
      BY <1>0, <2>1, <3>1 DEF Reopened
  <2>3. QED
    BY <2>1, <2>2 DEF NewestKept
<1>10. QED
  BY <1>3, <1>4, <1>5, <1>6, <1>7, <1>8, <1>9 DEF Next, Step

\* The invariant of the ring holds in every reachable state.
LEMMA RingInvAlways == Spec => []RingInv
<1>1. Init => RingInv
  <2>1. Init => NewestKept
    BY TopIsLast DEF Init, NewestKept
  <2>2. Init => IInv
    BY TypeInvInit, OrderInvInit DEF IInv, NewestTwo, Init
  <2>3. QED
    BY <2>1, <2>2 DEF RingInv
<1>2. RingInv /\ [Next]_vars => RingInv'
  <2>1. [Next]_vars => /\ HasRing' <=> HasRing
                       /\ Seen(Top)' <=> Seen(Top)
                       /\ Roomy' <=> Roomy
    BY SetupKept DEF HasRing, Roomy
  <2>2. QED
    BY <2>1, IInvNext, NewestKeptNext DEF RingInv
<1>3. QED
  BY <1>1, <1>2, PTL DEF Spec

\* What was written and what is retained of the last handler are numbers of
\* messages, and no message is retained that was not written.
LEMMA RingNumbers ==
    ASSUME RingInv, Roomy, HasRing
    PROVE  /\ Written(Top) = 1..(next[Top] - 1) /\ next[Top] \in Nat /\ next[Top] >= 1
           /\ Retained(Top) \subseteq Nat
           /\ Seen(Top) => Retained(Top) \subseteq Written(Top)
<1>1. TypeInv /\ Top \in Handlers
  BY TopIsLast DEF RingInv, IInv
<1>2. next[Top] \in Nat /\ next[Top] >= 1
  BY <1>1, TypeFacts
<1>3. \A n \in OwnFiles(Top) : \A x \in files[n] : x \in Nat /\ x >= 1
  <2>1. \A n \in OwnFiles(Top) : files[n] \in SUBSET (1..MaxMsgs)
    BY <1>1, TypeFacts DEF OwnFiles
  <2>2. \A x \in 1..MaxMsgs : x \in Nat /\ x >= 1
    BY Params
  <2>3. QED
    BY <2>1, <2>2
<1>4. Retained(Top) \subseteq Nat
  BY <1>3 DEF Retained
<1>5. Seen(Top) => Retained(Top) \subseteq Written(Top)
  <2> SUFFICES ASSUME Seen(Top), NEW x \in Retained(Top) PROVE x \in Written(Top)
    OBVIOUS
  <2>1. PICK n \in OwnFiles(Top) : x \in files[n]
    BY DEF Retained
  <2>2. x < next[Top]
    BY <2>1, RingFacts DEF RingInv, Ordered, FilesOrdered
  <2>3. QED
    BY <1>2, <1>3, <2>1, <2>2 DEF Written
<1>6. QED
  BY <1>2, <1>4, <1>5 DEF Written

\* A prune drops the oldest messages of the last handler, and keeps the newest.
LEMMA RemoveExpires ==
    ASSUME RingInv, RingInv', Roomy, HasRing, NEW h \in Handlers, Remove(h)
    PROVE  \/ Retained(Top)' = Retained(Top)
           \/ \E m \in Retained(Top) : Retained(Top)' = {x \in Retained(Top) : x >= m}
<1>0. /\ TypeInv /\ Top \in Handlers /\ HasRing' /\ Roomy' /\ (Seen(Top)' <=> Seen(Top))
      /\ TypeInv'
  BY TopIsLast, SetupKept DEF RingInv, IInv, HasRing, Roomy, Next, Step
<1>1. /\ NextDoomed(h).by # Top => Retained(Top)' = Retained(Top)
      /\ Retained(Top)' \subseteq Retained(Top) /\ Written(Top)' = Written(Top)
      /\ next' = next /\ NextDoomed(h) \in doom[h]
  BY <1>0, RemoveEffect
<1>2. CASE ~ Seen(Top)
  <2>1. NextDoomed(h).by # Top
    BY <1>0, <1>1, <1>2 DEF RingInv, IInv, OrderInv, Unharmed
  <2>2. QED
    BY <1>1, <2>1
<1>3. CASE Seen(Top) /\ next[Top] = 1
  <2>1. Written(Top) = {}
    BY <1>3, RingNumbers
  <2>2. QED
    BY <1>1, <1>3, <2>1, RingNumbers
<1>4. CASE Seen(Top) /\ next[Top] # 1
  <2>1. next[Top] \in Nat /\ next[Top] > 1
    BY <1>4, RingNumbers
  <2>2. next[Top] - 1 \in Retained(Top)'
    <3>1. NewestKept'
      BY <1>0, <1>4 DEF RingInv
    <3>2. PICK f \in OwnFiles(Top)' : next[Top] - 1 \in files'[f]
      BY <1>1, <2>1, <3>1 DEF NewestKept
    <3>3. QED
      BY <3>2 DEF Retained
  <2>3. Retained(Top)' \in SUBSET Nat /\ Retained(Top)' # {}
    BY <1>1, <2>2, RingNumbers
  <2>4. PICK m \in Retained(Top)' : \A x \in Retained(Top)' : m <= x
    <3> DEFINE R == Retained(Top)'
    <3> HIDE DEF R
    <3>1. R \in SUBSET Nat /\ R # {}
      BY <2>3 DEF R
    <3>2. \E m \in R : \A x \in R : m <= x
      BY <3>1, LeastNatural
    <3>3. QED
      BY <3>2 DEF R
  <2>5. SuffixKept(Top)'
    <3>1. (IInv /\ Roomy /\ HasRing /\ Seen(Top) => Ordered(Top))'
      <4>1. IInv' => (OrderInv' /\ TypeInv')
        BY DEF IInv
      <4>2. Lasting(Top)'
        BY <1>0 DEF HasRing, Lasting, InOrder
      <4>3. QED
        BY <1>0, <4>1, <4>2 DEF OrderInv
    <3>2. QED
      BY <1>0, <1>4, <3>1 DEF RingInv, Ordered
  <2>6. \A x \in Retained(Top) : x >= m => x \in Retained(Top)'
    <3> SUFFICES ASSUME NEW x \in Retained(Top), x >= m PROVE x \in Retained(Top)'
      OBVIOUS
    <3>1. x \in Written(Top)' /\ x \in Nat /\ m \in Nat
      BY <1>1, <1>4, <2>3, RingNumbers
    <3>2. x = m \/ m < x
      BY <3>1
    <3>3. QED
      BY <2>5, <3>1, <3>2 DEF SuffixKept
  <2>7. Retained(Top)' = {x \in Retained(Top) : x >= m}
    BY <1>1, <2>3, <2>4, <2>6
  <2>8. QED
    BY <1>1, <2>7
<1>5. QED
  BY <1>2, <1>3, <1>4

\* Every step of the folder is a step of the ring, or changes nothing in it.
LEMMA RingStep ==
    ASSUME RingInv, RingInv', Roomy, [Next]_vars
    PROVE  [Ring!Next]_Ring!vars
<1>0. TypeInv /\ Top \in Handlers /\ (HasRing' <=> HasRing)
  BY TopIsLast, SetupKept DEF RingInv, IInv, HasRing
<1>1. CASE ~ HasRing
  BY <1>0, <1>1 DEF Ring!vars
<1>2. CASE HasRing
  <2>1. ASSUME Retained(Top)' = Retained(Top), Written(Top)' = Written(Top)
        PROVE  UNCHANGED Ring!vars
    BY <1>0, <1>2, <2>1 DEF Ring!vars
  <2>2. CASE files' = files /\ next' = next
    BY <2>1, <2>2, FilesKept
  <2>3. ASSUME NEW h \in Handlers, Open(h) PROVE UNCHANGED Ring!vars
    <3>1. Retained(Top)' = Retained(Top) /\ Written(Top)' = Written(Top)
      BY <1>0, <2>3, OpenEffect
    <3>2. QED
      BY <2>1, <3>1
  <2>4. ASSUME NEW h \in Handlers, AppendRotating(h) \/ AppendByFormat(h)
        PROVE  [Ring!Next]_Ring!vars
    <3>1. CASE h # Top
      <4>1. Retained(Top)' = Retained(Top) /\ Written(Top)' = Written(Top)
        BY <1>0, <2>4, <3>1, AppendEffect
      <4>2. QED
        BY <2>1, <4>1
    <3>2. CASE h = Top
      <4>1. pc[Top] = "append"
        BY <1>0, <2>4, <3>2, AppendEffect
      <4>2. Live(Top) \in Listed
        BY <1>0, <1>2, <4>1 DEF RingInv, NewestKept, IInv, OrderInv, Unharmed
      <4>3. /\ Retained(Top)' = Retained(Top) \cup {next[Top]}
            /\ Written(Top)' = Written(Top) \cup {next[Top]}
        BY <1>0, <2>4, <3>2, <4>2, AppendEffect
      <4>4. next[Top] \in 1..MaxMsgs /\ \A x \in Written(Top) : x < next[Top]
        <5>1. next[Top] <= MaxMsgs
          BY <1>0, <4>1 DEF TypeInv, IndexBounded
        <5>2. QED
          BY <1>2, <5>1, RingNumbers, Params
      <4>5. Ring!Append
        BY <1>0, <1>2, <4>3, <4>4 DEF Ring!Append
      <4>6. QED
        BY <4>5 DEF Ring!Next
    <3>3. QED
      BY <3>1, <3>2
  <2>5. ASSUME NEW h \in Handlers, Remove(h) PROVE [Ring!Next]_Ring!vars
    <3>1. Written(Top)' = Written(Top)
      BY <1>0, <2>5, RemoveEffect
    <3>2. CASE Retained(Top)' = Retained(Top)
      BY <2>1, <3>1, <3>2
    <3>3. CASE \E m \in Retained(Top) : Retained(Top)' = {x \in Retained(Top) : x >= m}
      <4>1. Ring!Expire
        BY <1>0, <1>2, <3>1, <3>3 DEF Ring!Expire
      <4>2. QED
        BY <4>1 DEF Ring!Next
    <3>4. QED
      BY <1>2, <2>5, <3>2, <3>3, RemoveExpires
  <2>6. ASSUME NEW h \in Handlers, Construct(h) \/ Glob(h) \/ Return(h)
        PROVE  [Ring!Next]_Ring!vars
    <3>1. files' = files /\ next' = next
      BY <2>6 DEF Construct, Glob, Return
    <3>2. QED
      BY <2>2, <3>1
  <2>7. CASE Tick \/ Crash \/ UNCHANGED vars
    BY <2>2, <2>7 DEF Tick, Crash, vars
  <2>8. QED
    BY <2>3, <2>4, <2>5, <2>6, <2>7 DEF Next, Step
<1>3. QED
  BY <1>1, <1>2

\* When every prune leaves two files at least, the handler whose names sort last
\* has a ring to itself (LogRing), whoever else prunes its folder: what the
\* others remove is always its oldest messages, and never the newest one.
THEOREM RingOfTheLast ==
    ASSUME Roomy
    PROVE  Spec => TopIsRing
<1>1. Init => Ring!Init
  <2>1. Init => Written(Top) = {} /\ Retained(Top) = {}
    BY TopIsLast DEF Init, Written, Retained, OwnFiles, Listed
  <2>2. QED
    BY <2>1 DEF Ring!Init
<1>2. RingInv /\ RingInv' /\ [Next]_vars => [Ring!Next]_Ring!vars
  BY RingStep
<1>3. QED
  BY <1>1, <1>2, RingInvAlways, PTL DEF Spec, TopIsRing, Ring!Spec

-----------------------------------------------------------------------------
(* How many files there are.  Every listing is a covering of the folder: a *)
(* few files it keeps, what it removes, and what handlers have created     *)
(* since.                                                                  *)

Most == Max({Limit[h] : h \in Handlers})
Of(e, g) == {n \in e : n.by = g}
LastFile(g) == [by |-> g, key |-> last[g]]

\* The files F a handler may have created since a listing, r deaths ago: one, two
\* between opening a file under a new name and the prune that follows, and one for
\* each death.
Within(F, g, r) ==
    /\ kind[g] = "rotating" =>
        /\ pc[g] = "down" => Cardinality(F) <= r
        /\ pc[g] \in {"idle", "append"} => Cardinality(F \ {Live(g)}) <= r
        /\ pc[g] \in {"glob", "remove"} => Cardinality(F) <= r + 1
    /\ kind[g] # "rotating" =>
        /\ pc[g] \in {"down", "idle"} /\ last[g] = 0 => Cardinality(F) <= r + 1
        /\ pc[g] = "append" /\ last[g] = 0 => Cardinality(F \ {Live(g)}) <= r + 1
        /\ pc[g] = "idle" /\ last[g] # 0 => F \subseteq {LastFile(g)}
        /\ pc[g] = "append" /\ last[g] # 0 => F \subseteq {LastFile(g), Live(g)}
        /\ pc[g] \in {"glob", "remove"} => Cardinality(F) <= r + 2

\* A covering as of the listing numbered t: the files k it keeps, the files d it has
\* still to remove, and the files e created since.  A prune whose own listing is not
\* later has created nothing since.
Cover(k, e, d, number, t, r) ==
    /\ Listed \subseteq k \cup e \cup d
    /\ Cardinality(k) <= Most
    /\ \A g \in Handlers : /\ Within(Of(e, g), g, r)
                           /\ pc[g] = "remove" /\ number[g] <= t => Of(e, g) = {}

\* The covering in force is that of the last prune that is over, or of the start; a
\* prune in progress has one of its own, unless a later one is over.
Covers(k, e, K, E, number, count) ==
    /\ \A g \in Handlers : number[g] <= count
    /\ Cover(k, e, {}, number, 0, restarts)
    /\ \A x \in Handlers : pc[x] = "remove" /\ number[x] > 0
           => Cover(K[x], E[x], doom[x], number, number[x], 0)

CountInv ==
    /\ \A g \in Handlers : pc[g] = "down" => last[g] = 0
    /\ place = "itself" =>
           \E k, e \in SUBSET Names : \E K, E \in [Handlers -> SUBSET Names] :
           \E number \in [Handlers -> Nat] : \E count \in Nat : Covers(k, e, K, E, number, count)

\* Sizes of sets of names.
LEMMA NameSets ==
    ASSUME NEW F \in SUBSET Names
    PROVE  /\ IsFiniteSet(F) /\ Cardinality(F) \in Nat
           /\ \A x : /\ Cardinality(F \ {x}) \in Nat
                     /\ Cardinality(F \ {x}) <= Cardinality(F)
                     /\ Cardinality(F) <= Cardinality(F \ {x}) + 1
                     /\ F \subseteq {x} => Cardinality(F) <= 1
           /\ \A x, y : F \subseteq {x, y} => Cardinality(F) <= 2
           /\ F = {} => Cardinality(F) = 0
<1>1. \A G \in SUBSET Names : IsFiniteSet(G) /\ Cardinality(G) \in Nat
  BY NamesFinite, FS_Subset, FS_CardinalityType
<1>2. ASSUME NEW G \in SUBSET Names, NEW x
      PROVE  /\ Cardinality(G \ {x}) \in Nat
             /\ Cardinality(G \ {x}) <= Cardinality(G)
             /\ Cardinality(G) <= Cardinality(G \ {x}) + 1
  <2>1. Cardinality(G \ {x}) = IF x \in G THEN Cardinality(G) - 1 ELSE Cardinality(G)
    BY <1>1, FS_RemoveElement
  <2>2. G \ {x} \in SUBSET Names
    OBVIOUS
  <2>3. Cardinality(G) \in Nat /\ Cardinality(G \ {x}) \in Nat
    BY <1>1, <2>2
  <2>4. QED
    BY <2>1, <2>3
<1>3. Cardinality({}) = 0
  BY FS_EmptySet
<1>4. ASSUME NEW G \in SUBSET Names, NEW x, G \subseteq {x} PROVE Cardinality(G) <= 1
  <2>1. G \ {x} = {}
    BY <1>4
  <2>2. Cardinality(G) <= Cardinality(G \ {x}) + 1 /\ Cardinality(G \ {x}) = 0
    BY <1>2, <1>3, <2>1
  <2>3. QED
    BY <1>1, <2>2
<1>5. ASSUME NEW x, NEW y, F \subseteq {x, y} PROVE Cardinality(F) <= 2
  <2>1. F \ {x} \in SUBSET Names /\ F \ {x} \subseteq {y}
    BY <1>5
  <2>2. Cardinality(F \ {x}) <= 1 /\ Cardinality(F) <= Cardinality(F \ {x}) + 1
    BY <1>2, <1>4, <2>1
  <2>3. Cardinality(F) \in Nat /\ Cardinality(F \ {x}) \in Nat
    BY <1>1, <1>2
  <2>4. QED
    BY <2>2, <2>3
<1>6. QED
  BY <1>1, <1>2, <1>3, <1>4, <1>5

\* A handler that has created nothing is within any bound.
LEMMA WithinNothing ==
    ASSUME NEW g, NEW r \in Nat
    PROVE  Within({}, g, r) /\ Within({}, g, r)'
<1>1. Cardinality({}) = 0 /\ \A x : Cardinality({} \ {x}) = 0
  <2>1. \A x : {} \ {x} = {}
    OBVIOUS
  <2>2. QED
    BY <2>1, FS_EmptySet
<1>2. 0 <= r /\ 0 <= r + 1 /\ 0 <= r + 2
  OBVIOUS
<1>3. QED
  BY <1>1, <1>2 DEF Within

\* More deaths allow for more files.
LEMMA WithinMore ==
    ASSUME NEW F \in SUBSET Names, NEW g, NEW r \in Nat, NEW q \in Nat, r <= q, Within(F, g, r)
    PROVE  Within(F, g, q)
<1>1. Cardinality(F) \in Nat /\ Cardinality(F \ {Live(g)}) \in Nat
  BY NameSets
<1>2. \A c \in Nat : /\ c <= r => c <= q
                     /\ c <= r + 1 => c <= q + 1
                     /\ c <= r + 2 => c <= q + 2
  OBVIOUS
<1>3. QED
  BY <1>1, <1>2 DEF Within

\* Within depends on the handler's own variables only.
LEMMA WithinFrame ==
    ASSUME NEW F, NEW g, NEW r, Within(F, g, r),
           kind' = kind, pc'[g] = pc[g], key'[g] = key[g], last'[g] = last[g]
    PROVE  Within(F, g, r)'
<1>1. Live(g)' = Live(g) /\ LastFile(g)' = LastFile(g)
  BY DEF Live, LastFile
<1>2. QED
  BY <1>1 DEF Within

\* A construction, an opening and an append keep a handler within its bound.
LEMMA WithinStep ==
    ASSUME TypeInv, NEW g \in Handlers, NEW F \in SUBSET Names, NEW r \in Nat, Within(F, g, r)
    PROVE  /\ Construct(g) /\ last[g] = 0 => Within(F, g, r)'
           /\ Open(g) => \A n : n = Live(g)' => Within(F \cup {n}, g, r)'
           /\ AppendRotating(g) \/ AppendByFormat(g) => Within(F, g, r)'
           /\ Glob(g) => Within(F, g, r)'
<1>0. /\ pc \in [Handlers -> {"down", "idle", "append", "glob", "remove"}]
      /\ key \in [Handlers -> Keys] /\ last \in [Handlers -> Keys \cup {0}]
  BY DEF TypeInv, TypeOK
<1>1. PICK c \in Nat, b \in Nat :
          /\ c = Cardinality(F) /\ b = Cardinality(F \ {Live(g)}) /\ b <= c /\ c <= b + 1
  BY NameSets
<1>2. \A x : Cardinality(F \ {x}) \in Nat /\ Cardinality(F \ {x}) <= c
  BY <1>1, NameSets
<1>3. ASSUME Construct(g), last[g] = 0 PROVE Within(F, g, r)'
  <2>1. pc[g] = "down" /\ pc'[g] = "idle" /\ last'[g] = 0 /\ kind' = kind
    BY <1>0, <1>3 DEF Construct, At, GoTo, setup
  <2>2. CASE kind[g] = "rotating"
    <3>1. c <= r
      BY <1>1, <2>1, <2>2 DEF Within
    <3>2. Cardinality(F \ {Live(g)'}) <= r
      <4>1. \A a \in Nat : a <= c => a <= r
        BY <3>1
      <4>2. QED
        BY <1>2, <4>1
    <3>3. QED
      BY <2>1, <2>2, <3>2 DEF Within
  <2>3. CASE kind[g] # "rotating"
    BY <1>3, <2>1, <2>3 DEF Within
  <2>4. QED
    BY <2>2, <2>3
<1>4. ASSUME Open(g), NEW n, n = Live(g)' PROVE Within(F \cup {n}, g, r)'
  <2>1. /\ pc[g] = "idle" /\ pc'[g] = "append" /\ last'[g] = last[g] /\ kind' = kind
        /\ key'[g] = NameKey(g)
    BY <1>0, <1>4 DEF Open, At, GoTo, setup
  <2>2. (F \cup {n}) \ {n} = F \ {n}
    OBVIOUS
  <2>3. CASE kind[g] = "rotating"
    <3>1. Live(g)' = Live(g)
      BY <2>1, <2>3 DEF NameKey, Live
    <3>2. Cardinality((F \cup {n}) \ {Live(g)'}) <= r
      BY <1>4, <2>1, <2>2, <2>3, <3>1 DEF Within
    <3>3. QED
      BY <2>1, <2>3, <3>2 DEF Within
  <2>4. CASE kind[g] # "rotating" /\ last[g] = 0
    <3>1. c <= r + 1
      BY <1>1, <2>1, <2>4 DEF Within
    <3>2. Cardinality(F \ {n}) \in Nat /\ Cardinality(F \ {n}) <= c
      BY <1>2
    <3>3. Cardinality(F \ {n}) <= r + 1
      BY <3>1, <3>2
    <3>4. Cardinality((F \cup {n}) \ {Live(g)'}) <= r + 1
      BY <1>4, <2>2, <3>3
    <3>5. QED
      BY <2>1, <2>4, <3>4 DEF Within
  <2>5. CASE kind[g] # "rotating" /\ last[g] # 0
    <3>1. LastFile(g)' = LastFile(g)
      BY <2>1 DEF LastFile
    <3>2. F \cup {n} \subseteq {LastFile(g)', Live(g)'}
      BY <1>4, <2>1, <2>5, <3>1 DEF Within
    <3>3. QED
      BY <2>1, <2>5, <3>2 DEF Within
  <2>6. QED
    BY <2>3, <2>4, <2>5
<1>5. ASSUME AppendRotating(g) PROVE Within(F, g, r)'
  <2>1. /\ kind[g] = "rotating" /\ kind' = kind
        /\ \/ pc'[g] = "idle" /\ key'[g] = key[g]
           \/ pc'[g] = "glob"
        /\ pc[g] = "append"
    BY <1>0, <1>5 DEF AppendRotating, Append, At, GoTo, setup
  <2>2. b <= r
    BY <1>1, <2>1 DEF Within
  <2>3. c <= r + 1
    BY <1>1, <2>2
  <2>4. key'[g] = key[g] => Live(g)' = Live(g)
    BY DEF Live
  <2>5. QED
    BY <1>1, <2>1, <2>2, <2>3, <2>4 DEF Within
<1>6. ASSUME AppendByFormat(g) PROVE Within(F, g, r)'
  <2>1. /\ kind[g] # "rotating" /\ kind' = kind /\ pc[g] = "append"
        /\ pc'[g] = IF last[g] = key[g] THEN "idle" ELSE "glob"
        /\ last'[g] = key[g] /\ key[g] # 0
    <3>1. key[g] # 0
      BY <1>0, NamesFinite DEF Keys
    <3>2. QED
      BY <1>0, <1>6, <3>1 DEF AppendByFormat, Append, At, GoTo, setup
  <2>2. CASE last[g] = key[g]
    <3>1. LastFile(g) = Live(g) /\ LastFile(g)' = LastFile(g) /\ last[g] # 0
      BY <2>1, <2>2 DEF LastFile, Live
    <3>2. F \subseteq {LastFile(g)'}
      BY <2>1, <3>1 DEF Within
    <3>3. QED
      BY <2>1, <2>2, <3>2 DEF Within
  <2>3. CASE last[g] # key[g]
    <3>1. c <= r + 2
      <4>1. CASE last[g] = 0
        <5>1. b <= r + 1
          BY <1>1, <2>1, <4>1 DEF Within
        <5>2. QED
          BY <1>1, <5>1
      <4>2. CASE last[g] # 0
        <5>1. F \subseteq {LastFile(g), Live(g)}
          BY <2>1, <4>2 DEF Within
        <5>2. c <= 2
          BY <1>1, <5>1, NameSets
        <5>3. QED
          BY <5>2
      <4>3. QED
        BY <4>1, <4>2
    <3>2. QED
      BY <1>1, <2>1, <2>3, <3>1 DEF Within
  <2>4. QED
    BY <2>2, <2>3
<1>7. ASSUME Glob(g) PROVE Within(F, g, r)'
  <2>1. pc[g] = "glob" /\ pc'[g] = "remove" /\ kind' = kind
    BY <1>0, <1>7 DEF Glob, At, GoTo, setup
  <2>2. QED
    BY <2>1 DEF Within
<1>8. QED
  BY <1>3, <1>4, <1>5, <1>6, <1>7

\* A death leaves what was created behind, one file more than the deaths before.
LEMMA WithinCrash ==
    ASSUME TypeInv, NEW g \in Handlers, NEW F \in SUBSET Names, NEW r \in Nat, Within(F, g, r),
           Crash, pc[g] = "down" => last[g] = 0
    PROVE  Within(F, g, r + 1)'
<1>0. /\ pc[g] \in {"down", "idle", "append", "glob", "remove"}
      /\ pc'[g] = "down" /\ last'[g] = 0 /\ kind' = kind
  BY DEF TypeInv, TypeOK, Crash, setup
<1>1. PICK c \in Nat, b \in Nat :
          /\ c = Cardinality(F) /\ b = Cardinality(F \ {Live(g)}) /\ b <= c /\ c <= b + 1
  BY NameSets
<1>2. CASE kind[g] = "rotating"
  <2>1. c <= r \/ b <= r \/ c <= r + 1
    BY <1>0, <1>1, <1>2 DEF Within
  <2>2. c <= r + 1
    BY <1>1, <2>1
  <2>3. QED
    BY <1>0, <1>1, <1>2, <2>2 DEF Within
<1>3. CASE kind[g] # "rotating"
  <2>1. \/ c <= r + 1 \/ b <= r + 1 \/ c <= r + 2
        \/ F \subseteq {LastFile(g)} \/ F \subseteq {LastFile(g), Live(g)}
    <3>1. CASE pc[g] \in {"down", "glob", "remove"}
      <4>1. pc[g] = "down" => last[g] = 0
        OBVIOUS
      <4>2. QED
        BY <1>1, <1>3, <3>1, <4>1 DEF Within
    <3>2. CASE pc[g] \in {"idle", "append"}
      BY <1>1, <1>3, <3>2 DEF Within
    <3>3. QED
      BY <1>0, <3>1, <3>2
  <2>2. F \subseteq {LastFile(g), Live(g)} => c <= 2
    BY <1>1, NameSets
  <2>3. c <= (r + 1) + 1
    <3>1. F \subseteq {LastFile(g)} => F \subseteq {LastFile(g), Live(g)}
      OBVIOUS
    <3>2. c <= r + 1 \/ b <= r + 1 \/ c <= r + 2 \/ c <= 2
      BY <2>1, <2>2, <3>1
    <3>3. QED
      BY <1>1, <3>2
  <2>4. QED
    BY <1>0, <1>1, <1>3, <2>3 DEF Within
<1>4. QED
  BY <1>2, <1>3

\* Most is the largest limit.
LEMMA MostFacts == \A h \in Handlers : Limit[h] \in Nat /\ Limit[h] <= Most /\ Most \in Nat
<1> SUFFICES ASSUME NEW h \in Handlers PROVE Limit[h] \in Nat /\ Limit[h] <= Most /\ Most \in Nat
  OBVIOUS
<1>1. {Limit[g] : g \in Handlers} \in SUBSET Nat /\ {Limit[g] : g \in Handlers} # {}
  BY Params
<1>2. IsFiniteSet({Limit[g] : g \in Handlers})
  <2> DEFINE f == [g \in Handlers |-> Limit[g]]
  <2>1. f \in Surjection(Handlers, {Limit[g] : g \in Handlers})
    BY DEF Surjection
  <2>2. QED
    BY <2>1, Params, FS_Surjection
<1>3. /\ Max({Limit[g] : g \in Handlers}) \in {Limit[g] : g \in Handlers}
      /\ \A t \in {Limit[g] : g \in Handlers} : t <= Max({Limit[g] : g \in Handlers})
  BY <1>1, <1>2, MaxOfFinite
<1>4. QED
  BY <1>1, <1>3, Params DEF Most

\* A listing keeps as many files as its handler may.
LEMMA KeptFew ==
    ASSUME NEW h \in Handlers
    PROVE  Cardinality(Scanned \ VerifyDoom(h)) <= Most
<1> DEFINE Later(n) == {m \in Scanned : SortsBefore(n, m)}
           T == Scanned \ VerifyDoom(h)
<1>1. Limit[h] \in Nat /\ Limit[h] <= Most /\ Most \in Nat
  BY MostFacts
<1>2. Scanned \in SUBSET Names /\ T \in SUBSET Names
  BY DEF Scanned, Listed
<1>3. \A n \in T : ~ (Cardinality(Later(n)) >= Limit[h])
  BY DEF VerifyDoom
<1>4. CASE T = {}
  <2>1. Cardinality(T) = 0
    BY <1>2, <1>4, NameSets
  <2>2. QED
    BY <1>1, <2>1
<1>5. CASE T # {}
  <2>1. PICK n \in T : \A m \in T : m = n \/ SortsBefore(n, m)
    BY <1>2, <1>5, FirstName
  <2>2. T \ {n} \subseteq Later(n) /\ Later(n) \in SUBSET Names
    BY <1>2, <2>1
  <2>3. Cardinality(T \ {n}) <= Cardinality(Later(n))
    <3>1. IsFiniteSet(Later(n))
      BY <2>2, NameSets
    <3>2. QED
      BY <2>2, <3>1, FS_Subset
  <2>4. PICK a \in Nat, b \in Nat, c \in Nat :
            a = Cardinality(T \ {n}) /\ b = Cardinality(Later(n)) /\ c = Cardinality(T) /\ c <= a + 1
    <3>1. Cardinality(Later(n)) \in Nat
      BY <2>2, NameSets
    <3>2. Cardinality(T) \in Nat /\ Cardinality(T \ {n}) \in Nat
          /\ Cardinality(T) <= Cardinality(T \ {n}) + 1
      BY <1>2, NameSets
    <3>3. QED
      BY <3>1, <3>2
  <2>5. ~ (b >= Limit[h]) /\ a <= b
    BY <1>3, <2>1, <2>3, <2>4
  <2>6. c <= Limit[h]
    BY <1>1, <2>4, <2>5
  <2>7. c <= Most
    BY <1>1, <2>6
  <2>8. QED
    BY <2>4, <2>7
<1>6. QED
  BY <1>4, <1>5

\* A step of a handler is no step of another.
LEMMA StepFrame ==
    ASSUME TypeInv, NEW h \in Handlers, Step(h)
    PROVE  /\ kind' = kind /\ restarts' = restarts
           /\ \A g \in Handlers \ {h} :
                  pc'[g] = pc[g] /\ key'[g] = key[g] /\ last'[g] = last[g] /\ doom'[g] = doom[g]
<1>1. /\ pc \in [Handlers -> {"down", "idle", "append", "glob", "remove"}]
      /\ key \in [Handlers -> Keys] /\ last \in [Handlers -> Keys \cup {0}]
      /\ doom \in [Handlers -> SUBSET Names]
  BY DEF TypeInv, TypeOK
<1>2. kind' = kind /\ restarts' = restarts
  BY DEF Step, Construct, Open, AppendRotating, AppendByFormat, Glob, Remove, Return, setup, bounds
<1>3. ASSUME NEW g \in Handlers, g # h, Construct(h) \/ Open(h) \/ Glob(h) \/ Remove(h) \/ Return(h)
      PROVE  pc'[g] = pc[g] /\ key'[g] = key[g] /\ last'[g] = last[g] /\ doom'[g] = doom[g]
  BY <1>1, <1>3 DEF Construct, Open, Glob, Remove, Return, GoTo
<1>4. ASSUME NEW g \in Handlers, g # h, AppendRotating(h) \/ AppendByFormat(h)
      PROVE  pc'[g] = pc[g] /\ key'[g] = key[g] /\ last'[g] = last[g] /\ doom'[g] = doom[g]
  BY <1>1, <1>4 DEF AppendRotating, AppendByFormat, Append, GoTo
<1>5. QED
  BY <1>2, <1>3, <1>4 DEF Step

\* A step of h keeps a covering, if the covering has what h creates.
LEMMA CoverStep ==
    ASSUME TypeInv, NEW h \in Handlers, Step(h), NEW k, NEW e, NEW f, NEW d, NEW c,
           NEW number, NEW later, NEW t, NEW r,
           Cover(k, e, d, number, t, r),
           Listed' \subseteq k \cup f \cup c,
           \A g \in Handlers \ {h} : Of(f, g) = Of(e, g) /\ (later[g] <= t => number[g] <= t),
           Within(Of(f, h), h, r)',
           pc'[h] = "remove" /\ later[h] <= t => Of(f, h) = {}
    PROVE  Cover(k, f, c, later, t, r)'
<1>1. ASSUME NEW g \in Handlers, g # h
      PROVE  /\ Within(Of(f, g), g, r)'
             /\ pc'[g] = "remove" /\ later[g] <= t => Of(f, g) = {}
  <2>1. /\ kind' = kind /\ pc'[g] = pc[g] /\ key'[g] = key[g] /\ last'[g] = last[g]
    BY <1>1, StepFrame
  <2>2. PICK F : F = Of(f, g)
    OBVIOUS
  <2>3. F = Of(e, g) /\ (later[g] <= t => number[g] <= t)
    BY <1>1, <2>2
  <2>4. Within(F, g, r) /\ (pc[g] = "remove" /\ number[g] <= t => F = {})
    BY <2>3 DEF Cover
  <2>5. Within(F, g, r)'
    BY <2>1, <2>4, WithinFrame
  <2>6. QED
    BY <2>1, <2>2, <2>3, <2>4, <2>5
<1>2. Cardinality(k) <= Most
  BY DEF Cover
<1>3. \A g \in Handlers : /\ Within(Of(f, g), g, r)'
                          /\ pc'[g] = "remove" /\ later[g] <= t => Of(f, g) = {}
  BY <1>1
<1>4. QED
  BY <1>2, <1>3 DEF Cover, Of, Most

\* So do the steps that create nothing and leave h as it was, or about to prune.
LEMMA CoverKept ==
    ASSUME TypeInv, NEW h \in Handlers, Construct(h) \/ AppendRotating(h) \/ AppendByFormat(h),
           pc[h] = "down" => last[h] = 0,
           NEW k \in SUBSET Names, NEW e \in SUBSET Names, NEW d, NEW number, NEW t, NEW r \in Nat,
           Cover(k, e, d, number, t, r)
    PROVE  Cover(k, e, d, number, t, r)'
<1>1. Step(h)
  BY DEF Step
<1>2. Listed' = Listed
  BY AppendEffect DEF Construct, Listed
<1>3. pc'[h] # "remove" /\ (Construct(h) => last[h] = 0)
  BY AppendEffect DEF Construct, At, GoTo, TypeInv, TypeOK
<1>4. PICK F \in SUBSET Names : F = Of(e, h)
  BY DEF Of
<1>5. Within(F, h, r)
  BY <1>4 DEF Cover
<1>6. Within(F, h, r)'
  BY <1>3, <1>5, WithinStep
<1>7. Within(Of(e, h), h, r)'
  BY <1>4, <1>6
<1>8. Listed' \subseteq k \cup e \cup d
  BY <1>2 DEF Cover
<1>9. QED
  BY <1>1, <1>3, <1>7, <1>8, CoverStep

\* An opened file is one its handler has created.
LEMMA CoverOpen ==
    ASSUME TypeInv, NEW h \in Handlers, Open(h),
           NEW k \in SUBSET Names, NEW e \in SUBSET Names, NEW d, NEW number, NEW t, NEW r \in Nat,
           Cover(k, e, d, number, t, r), NEW n, n = Live(h)'
    PROVE  Cover(k, e \cup {n}, d, number, t, r)'
<1>1. Step(h)
  BY DEF Step
<1>2. n \in Names /\ n.by = h /\ Listed' = Listed \cup {n} /\ pc'[h] # "remove"
  BY OpenEffect DEF TypeInv, TypeOK
<1>3. /\ Of(e \cup {n}, h) = Of(e, h) \cup {n}
      /\ \A g \in Handlers \ {h} : Of(e \cup {n}, g) = Of(e, g)
  BY <1>2 DEF Of
<1>4. PICK F \in SUBSET Names : F = Of(e, h)
  BY DEF Of
<1>5. Within(F, h, r)
  BY <1>4 DEF Cover
<1>6. Within(F \cup {n}, h, r)'
  BY <1>5, WithinStep
<1>7. Within(Of(e \cup {n}, h), h, r)'
  BY <1>3, <1>4, <1>6
<1>8. Listed' \subseteq k \cup (e \cup {n}) \cup d
  BY <1>2 DEF Cover
<1>9. QED
  BY <1>1, <1>2, <1>3, <1>7, <1>8, CoverStep

\* A listing comes after all the coverings there are, and a removal takes from one.
LEMMA CoverPrune ==
    ASSUME TypeInv, NEW h \in Handlers, Glob(h) \/ Remove(h),
           NEW k \in SUBSET Names, NEW e \in SUBSET Names, NEW d, NEW c,
           NEW number, NEW later, NEW t, NEW r \in Nat,
           Cover(k, e, d, number, t, r),
           \A g \in Handlers : later[g] <= t => number[g] <= t,
           Glob(h) => ~ (later[h] <= t),
           Listed' \subseteq k \cup e \cup c
    PROVE  Cover(k, e, c, later, t, r)'
<1>1. Step(h)
  BY DEF Step
<1>2. PICK F \in SUBSET Names : F = Of(e, h)
  BY DEF Of
<1>3. Within(F, h, r) /\ (pc[h] = "remove" /\ number[h] <= t => F = {})
  BY <1>2 DEF Cover
<1>4. Within(F, h, r)' /\ (pc'[h] = "remove" /\ later[h] <= t => F = {})
  <2>1. CASE Glob(h)
    BY <1>3, <2>1, WithinStep
  <2>2. CASE Remove(h)
    <3>1. kind' = kind /\ pc' = pc /\ key' = key /\ last' = last
      BY <2>2 DEF Remove, setup
    <3>2. QED
      BY <1>3, <3>1, WithinFrame
  <2>3. QED
    BY <2>1, <2>2
<1>5. Within(Of(e, h), h, r)'
  BY <1>2, <1>4
<1>6. QED
  BY <1>1, <1>2, <1>4, <1>5, CoverStep

\* A handler whose prune is over is left with nothing that came after its listing.
LEMMA CoverReturn ==
    ASSUME TypeInv, NEW h \in Handlers, Return(h),
           NEW k, NEW e, NEW d, NEW number, NEW later, NEW t, NEW r \in Nat,
           Cover(k, e, d, number, t, r),
           \A g \in Handlers : later[g] <= t => number[g] <= t,
           number[h] <= t
    PROVE  Cover(k, e, d, later, t, r)'
<1>1. Step(h) /\ pc[h] = "remove" /\ Listed' = Listed /\ pc'[h] = "idle"
  BY DEF Step, Return, At, GoTo, Listed, TypeInv, TypeOK
<1>2. Of(e, h) = {}
  BY <1>1 DEF Cover
<1>3. Within(Of(e, h), h, r)'
  BY <1>2, WithinNothing
<1>4. Listed' \subseteq k \cup e \cup d
  BY <1>1 DEF Cover
<1>5. QED
  BY <1>1, <1>3, <1>4, CoverStep

\* After a death the covering in force is all there is.
LEMMA CoverCrash ==
    ASSUME TypeInv, Crash, \A g \in Handlers : pc[g] = "down" => last[g] = 0,
           NEW k, NEW e \in SUBSET Names, NEW number, NEW r \in Nat,
           Cover(k, e, {}, number, 0, r)
    PROVE  Cover(k, e, {}, number, 0, r + 1)'
<1>1. Listed' = Listed /\ \A g \in Handlers : pc'[g] # "remove"
  BY DEF Crash, Listed
<1>2. ASSUME NEW g \in Handlers PROVE Within(Of(e, g), g, r + 1)'
  <2>1. PICK F \in SUBSET Names : F = Of(e, g)
    BY DEF Of
  <2>2. Within(F, g, r)
    BY <2>1 DEF Cover
  <2>3. Within(F, g, r + 1)'
    BY <2>2, WithinCrash
  <2>4. QED
    BY <2>1, <2>3
<1>3. QED
  BY <1>1, <1>2 DEF Cover, Of, Most

\* The covering of a finished prune may come into force.
LEMMA CoverTaken ==
    ASSUME TypeInv, NEW k, NEW e \in SUBSET Names, NEW number, NEW later, NEW t,
           Cover(k, e, {}, number, t, 0),
           \A g \in Handlers : later[g] <= 0 => number[g] <= t
    PROVE  Cover(k, e, {}, later, 0, restarts)
<1>1. restarts \in Nat /\ 0 <= restarts
  BY Params DEF TypeInv, TypeOK
<1>2. ASSUME NEW g \in Handlers
      PROVE  /\ Within(Of(e, g), g, restarts)
             /\ pc[g] = "remove" /\ later[g] <= 0 => Of(e, g) = {}
  <2>1. PICK F \in SUBSET Names : F = Of(e, g)
    BY DEF Of
  <2>2. Within(F, g, 0) /\ (pc[g] = "remove" /\ number[g] <= t => F = {})
    BY <2>1 DEF Cover
  <2>3. Within(F, g, restarts)
    BY <1>1, <2>2, WithinMore
  <2>4. QED
    BY <2>1, <2>2, <2>3
<1>3. QED
  BY <1>2 DEF Cover

\* Every step leads to coverings again.
LEMMA CountStep ==
    ASSUME TypeInv, CountInv, [Next]_vars
    PROVE  CountInv'
<1>0. /\ pc \in [Handlers -> {"down", "idle", "append", "glob", "remove"}]
      /\ doom \in [Handlers -> SUBSET Names] /\ last \in [Handlers -> Keys \cup {0}]
      /\ restarts \in Nat
  BY Params DEF TypeInv, TypeOK
<1>1. \A g \in Handlers : pc[g] = "down" => last[g] = 0
  BY DEF CountInv
<1>2. \A g \in Handlers : pc'[g] = "down" => last'[g] = 0
  <2>1. ASSUME NEW h \in Handlers, Step(h), NEW g \in Handlers PROVE pc'[g] = "down" => last'[g] = 0
    <3>1. CASE g = h
      <4>1. pc'[h] # "down"
        BY <1>0, <2>1, OpenEffect, AppendEffect, RemoveEffect
           DEF Step, Construct, Glob, Remove, Return, At, GoTo
      <4>2. QED
        BY <3>1, <4>1
    <3>2. CASE g # h
      BY <1>1, <2>1, <3>2, StepFrame
    <3>3. QED
      BY <3>1, <3>2
  <2>2. CASE Tick \/ UNCHANGED vars
    BY <1>1, <2>2 DEF Tick, vars, frames
  <2>3. CASE Crash
    BY <2>3 DEF Crash
  <2>4. QED
    BY <2>1, <2>2, <2>3 DEF Next
<1> SUFFICES ASSUME place = "itself"
             PROVE  \E k, e \in SUBSET Names : \E K, E \in [Handlers -> SUBSET Names] :
                    \E number \in [Handlers -> Nat] : \E count \in Nat :
                        Covers(k, e, K, E, number, count)'
  BY <1>2, SetupKept DEF CountInv, Names
<1>3. PICK k \in SUBSET Names, e \in SUBSET Names,
           K \in [Handlers -> SUBSET Names], E \in [Handlers -> SUBSET Names],
           number \in [Handlers -> Nat], count \in Nat : Covers(k, e, K, E, number, count)
  BY DEF CountInv
<1>4. /\ \A g \in Handlers : number[g] <= count
      /\ Cover(k, e, {}, number, 0, restarts)
      /\ \A x \in Handlers : pc[x] = "remove" /\ number[x] > 0
             => Cover(K[x], E[x], doom[x], number, number[x], 0)
  BY <1>3 DEF Covers
<1>5. 0 \in Nat /\ \A x \in Handlers : K[x] \in SUBSET Names /\ E[x] \in SUBSET Names /\ number[x] \in Nat
  OBVIOUS
<1>6. ASSUME NEW h \in Handlers, Construct(h) \/ AppendRotating(h) \/ AppendByFormat(h)
      PROVE  Covers(k, e, K, E, number, count)'
  <2>1. Step(h) /\ doom' = doom /\ restarts' = restarts
    BY <1>6, AppendEffect, StepFrame DEF Step, Construct
  <2>2. pc'[h] # "remove" /\ \A x \in Handlers \ {h} : pc'[x] = pc[x]
    BY <1>0, <1>6, <2>1, AppendEffect, StepFrame DEF Construct, GoTo
  <2>3. Cover(k, e, {}, number, 0, restarts)'
    <3>1. PICK r \in Nat : r = restarts
      BY <1>0
    <3>2. Cover(k, e, {}, number, 0, r)'
      BY <1>1, <1>4, <1>6, <3>1, CoverKept
    <3>3. QED
      BY <2>1, <3>1, <3>2
  <2>4. ASSUME NEW x \in Handlers, pc'[x] = "remove", number[x] > 0
        PROVE  Cover(K[x], E[x], doom[x], number, number[x], 0)'
    <3>1. PICK d : d = doom[x] /\ d = doom'[x]
      BY <2>1
    <3>2. Cover(K[x], E[x], d, number, number[x], 0)
      BY <1>4, <2>2, <2>4, <3>1
    <3>3. Cover(K[x], E[x], d, number, number[x], 0)'
      BY <1>1, <1>5, <1>6, <3>2, CoverKept
    <3>4. QED
      BY <3>1, <3>3
  <2>5. QED
    BY <1>4, <2>3, <2>4 DEF Covers
<1>7. ASSUME NEW h \in Handlers, Open(h)
      PROVE  \E f \in SUBSET Names, F \in [Handlers -> SUBSET Names] :
                 Covers(k, f, K, F, number, count)'
  <2>1. Step(h) /\ doom' = doom /\ restarts' = restarts
    BY <1>7, StepFrame DEF Step, Open
  <2>2. pc'[h] # "remove" /\ \A x \in Handlers \ {h} : pc'[x] = pc[x]
    BY <1>0, <1>7, <2>1, OpenEffect, StepFrame
  <2>3. PICK n \in Names : n = Live(h)'
    BY <1>7, OpenEffect
  <2>4. PICK F \in [Handlers -> SUBSET Names] : \A x \in Handlers : F[x] = E[x] \cup {n}
    <3>1. [x \in Handlers |-> E[x] \cup {n}] \in [Handlers -> SUBSET Names]
      OBVIOUS
    <3>2. QED
      BY <3>1
  <2>5. Cover(k, e \cup {n}, {}, number, 0, restarts)'
    <3>1. PICK r \in Nat : r = restarts
      BY <1>0
    <3>2. Cover(k, e \cup {n}, {}, number, 0, r)'
      BY <1>4, <1>7, <2>3, <3>1, CoverOpen
    <3>3. QED
      BY <2>1, <3>1, <3>2
  <2>6. ASSUME NEW x \in Handlers, pc'[x] = "remove", number[x] > 0
        PROVE  Cover(K[x], F[x], doom[x], number, number[x], 0)'
    <3>1. PICK d : d = doom[x] /\ d = doom'[x]
      BY <2>1
    <3>2. Cover(K[x], E[x], d, number, number[x], 0)
      BY <1>4, <2>2, <2>6, <3>1
    <3>3. Cover(K[x], E[x] \cup {n}, d, number, number[x], 0)'
      BY <1>5, <1>7, <2>3, <3>2, CoverOpen
    <3>4. QED
      BY <2>4, <3>1, <3>3
  <2>7. Covers(k, e \cup {n}, K, F, number, count)'
    BY <1>4, <2>5, <2>6 DEF Covers
  <2>8. e \cup {n} \in SUBSET Names
    OBVIOUS
  <2>9. QED
    BY <2>7, <2>8
<1>8. ASSUME NEW h \in Handlers, Glob(h)
      PROVE  \E L, F \in [Handlers -> SUBSET Names], later \in [Handlers -> Nat], c \in Nat :
                 Covers(k, e, L, F, later, c)'
  <2>1. /\ Step(h) /\ restarts' = restarts /\ Listed' = Listed /\ Scanned = Listed
        /\ doom'[h] = VerifyDoom(h) /\ Listed \subseteq Names
    BY <1>0, <1>8, StepFrame DEF Step, Glob, Listed, Scanned
  <2>2. \A x \in Handlers \ {h} : pc'[x] = pc[x] /\ doom'[x] = doom[x]
    BY <2>1, StepFrame
  <2>3. PICK j \in SUBSET Names : j = Listed \ VerifyDoom(h)
    BY <2>1
  <2>4. PICK c \in Nat : c = count + 1 /\ ~ (c <= 0) /\ (\A g \in Handlers : ~ (c <= number[g]) /\ number[g] <= c)
    <3>1. count + 1 \in Nat /\ ~ (count + 1 <= 0)
      OBVIOUS
    <3>2. \A g \in Handlers : ~ (count + 1 <= number[g]) /\ number[g] <= count + 1
      BY <1>4, <1>5
    <3>3. QED
      BY <3>1, <3>2
  <2>5. PICK L \in [Handlers -> SUBSET Names], F \in [Handlers -> SUBSET Names],
             later \in [Handlers -> Nat] :
             /\ L[h] = j /\ F[h] = {} /\ later[h] = c
             /\ \A x \in Handlers \ {h} : L[x] = K[x] /\ F[x] = E[x] /\ later[x] = number[x]
    <3>1. /\ [K EXCEPT ![h] = j] \in [Handlers -> SUBSET Names]
          /\ [E EXCEPT ![h] = {}] \in [Handlers -> SUBSET Names]
          /\ [number EXCEPT ![h] = c] \in [Handlers -> Nat]
      OBVIOUS
    <3>2. QED
      BY <3>1
  <2>6. Cover(k, e, {}, later, 0, restarts)'
    <3>1. PICK r \in Nat : r = restarts
      BY <1>0
    <3>2. Listed' \subseteq k \cup e \cup {}
      BY <1>4, <2>1 DEF Cover
    <3>3. ~ (later[h] <= 0) /\ \A g \in Handlers : later[g] <= 0 => number[g] <= 0
      BY <2>4, <2>5
    <3>4. Cover(k, e, {}, later, 0, r)'
      BY <1>4, <1>5, <1>8, <3>1, <3>2, <3>3, CoverPrune
    <3>5. QED
      BY <2>1, <3>1, <3>4
  <2>7. ASSUME NEW x \in Handlers, x # h, pc'[x] = "remove", later[x] > 0
        PROVE  Cover(L[x], F[x], doom[x], later, later[x], 0)'
    <3>1. PICK d : d = doom[x] /\ d = doom'[x]
      BY <2>2, <2>7
    <3>2. Cover(K[x], E[x], d, number, number[x], 0)
      BY <1>4, <2>2, <2>5, <2>7, <3>1
    <3>3. Listed' \subseteq K[x] \cup E[x] \cup d
      BY <2>1, <3>2 DEF Cover
    <3>4. ~ (later[h] <= number[x]) /\ \A g \in Handlers : later[g] <= number[x] => number[g] <= number[x]
      BY <2>4, <2>5
    <3>5. Cover(K[x], E[x], d, later, number[x], 0)'
      BY <1>5, <1>8, <3>2, <3>3, <3>4, CoverPrune
    <3>6. QED
      BY <2>5, <2>7, <3>1, <3>5
  <2>8. Cover(L[h], F[h], doom[h], later, later[h], 0)'
    <3>1. PICK d : d = doom'[h]
      OBVIOUS
    <3>2. Cardinality(j) <= Most
      BY <2>1, <2>3, KeptFew
    <3>3. \A g \in Handlers : Of({}, g) = {} /\ Within({}, g, 0)'
      BY WithinNothing DEF Of
    <3>4. \A g \in Handlers : Within(Of({}, g), g, 0)'
      BY <3>3
    <3>5. Listed' \subseteq j \cup {} \cup d
      BY <2>1, <2>3, <3>1
    <3>6. Cover(j, {}, d, later, c, 0)'
      BY <3>2, <3>3, <3>4, <3>5 DEF Cover, Of, Most
    <3>7. QED
      BY <2>5, <3>1, <3>6
  <2>9. \A g \in Handlers : later[g] <= c
    BY <2>4, <2>5
  <2>10. Covers(k, e, L, F, later, c)'
    BY <2>6, <2>7, <2>8, <2>9 DEF Covers
  <2>11. QED
    BY <2>10
<1>9. ASSUME NEW h \in Handlers, Remove(h)
      PROVE  Covers(k, e, K, E, number, count)'
  <2> DEFINE n == NextDoomed(h)
  <2>1. /\ Step(h) /\ restarts' = restarts /\ Listed' = Listed \ {n} /\ pc' = pc
        /\ doom' = [doom EXCEPT ![h] = @ \ {n}]
    BY <1>9, RemoveEffect, StepFrame DEF Step
  <2> HIDE DEF n
  <2>2. doom'[h] = doom[h] \ {n} /\ \A x \in Handlers \ {h} : doom'[x] = doom[x]
    BY <1>0, <2>1
  <2>3. ~ Glob(h)
    BY <1>9 DEF Remove, Glob, At
  <2>4. Cover(k, e, {}, number, 0, restarts)'
    <3>1. PICK r \in Nat : r = restarts
      BY <1>0
    <3>2. Listed' \subseteq k \cup e \cup {}
      BY <1>4, <2>1 DEF Cover
    <3>3. Cover(k, e, {}, number, 0, r)'
      BY <1>4, <1>5, <1>9, <2>3, <3>1, <3>2, CoverPrune
    <3>4. QED
      BY <2>1, <3>1, <3>3
  <2>5. ASSUME NEW x \in Handlers, pc'[x] = "remove", number[x] > 0
        PROVE  Cover(K[x], E[x], doom[x], number, number[x], 0)'
    <3>1. PICK d, c : d = doom[x] /\ c = doom'[x]
      OBVIOUS
    <3>2. Cover(K[x], E[x], d, number, number[x], 0)
      BY <1>4, <2>1, <2>5, <3>1
    <3>3. Listed' \subseteq K[x] \cup E[x] \cup c
      BY <2>1, <2>2, <3>1, <3>2 DEF Cover
    <3>4. Cover(K[x], E[x], c, number, number[x], 0)'
      BY <1>5, <1>9, <2>3, <3>2, <3>3, CoverPrune
    <3>5. QED
      BY <3>1, <3>4
  <2>6. QED
    BY <1>4, <2>4, <2>5 DEF Covers
<1>10. ASSUME NEW h \in Handlers, Return(h), number[h] = 0
       PROVE  Covers(k, e, K, E, number, count)'
  <2>1. Step(h) /\ restarts' = restarts /\ doom' = doom /\ pc'[h] = "idle"
        /\ \A x \in Handlers \ {h} : pc'[x] = pc[x]
    BY <1>0, <1>10, StepFrame DEF Step, Return, GoTo
  <2>2. Cover(k, e, {}, number, 0, restarts)'
    <3>1. PICK r \in Nat : r = restarts
      BY <1>0
    <3>2. number[h] <= 0
      BY <1>10
    <3>3. Cover(k, e, {}, number, 0, r)'
      BY <1>4, <1>10, <3>1, <3>2, CoverReturn
    <3>4. QED
      BY <2>1, <3>1, <3>3
  <2>3. ASSUME NEW x \in Handlers, pc'[x] = "remove", number[x] > 0
        PROVE  Cover(K[x], E[x], doom[x], number, number[x], 0)'
    <3>1. PICK d : d = doom[x] /\ d = doom'[x]
      BY <2>1
    <3>2. Cover(K[x], E[x], d, number, number[x], 0)
      BY <1>4, <2>1, <2>3, <3>1
    <3>3. number[h] <= number[x]
      BY <1>5, <1>10, <2>3
    <3>4. Cover(K[x], E[x], d, number, number[x], 0)'
      BY <1>5, <1>10, <3>2, <3>3, CoverReturn
    <3>5. QED
      BY <3>1, <3>4
  <2>4. QED
    BY <1>4, <2>2, <2>3 DEF Covers
<1>11. ASSUME NEW h \in Handlers, Return(h), number[h] > 0
       PROVE  \E later \in [Handlers -> Nat] : Covers(K[h], E[h], K, E, later, count)'
  <2>1. Step(h) /\ restarts' = restarts /\ doom' = doom /\ pc'[h] = "idle" /\ pc[h] = "remove"
        /\ doom[h] = {} /\ \A x \in Handlers \ {h} : pc'[x] = pc[x]
    BY <1>0, <1>11, StepFrame DEF Step, Return, GoTo, At
  <2>2. PICK later \in [Handlers -> Nat] :
            \A g \in Handlers : later[g] = IF number[g] <= number[h] THEN 0 ELSE number[g]
    <3>1. [g \in Handlers |-> IF number[g] <= number[h] THEN 0 ELSE number[g]] \in [Handlers -> Nat]
      OBVIOUS
    <3>2. QED
      BY <3>1
  <2>3. \A g \in Handlers : /\ later[g] <= count /\ (later[g] <= 0 => number[g] <= number[h])
                            /\ later[g] > 0 => later[g] = number[g] /\ number[h] <= number[g]
    BY <1>4, <1>5, <2>2
  <2>4. Cover(K[h], E[h], {}, later, 0, restarts)'
    <3>1. Cover(K[h], E[h], {}, number, number[h], 0)
      BY <1>4, <1>11, <2>1
    <3>2. Cover(K[h], E[h], {}, later, 0, restarts)
      BY <1>5, <2>3, <3>1, CoverTaken
    <3>3. PICK r \in Nat : r = restarts
      BY <1>0
    <3>4. later[h] <= 0
      BY <1>5, <2>2
    <3>5. Cover(K[h], E[h], {}, later, 0, r)'
      BY <1>11, <3>2, <3>3, <3>4, CoverReturn
    <3>6. QED
      BY <2>1, <3>3, <3>5
  <2>5. ASSUME NEW x \in Handlers, pc'[x] = "remove", later[x] > 0
        PROVE  Cover(K[x], E[x], doom[x], later, later[x], 0)'
    <3>1. PICK d : d = doom[x] /\ d = doom'[x]
      BY <2>1
    <3>2. Cover(K[x], E[x], d, number, number[x], 0)
      BY <1>4, <2>1, <2>3, <2>5, <3>1
    <3>3. number[h] <= number[x] /\ \A g \in Handlers : later[g] <= number[x] => number[g] <= number[x]
      BY <1>5, <2>2, <2>3, <2>5
    <3>4. Cover(K[x], E[x], d, later, number[x], 0)'
      BY <1>5, <1>11, <3>2, <3>3, CoverReturn
    <3>5. QED
      BY <2>3, <2>5, <3>1, <3>4
  <2>6. Covers(K[h], E[h], K, E, later, count)'
    BY <2>3, <2>4, <2>5 DEF Covers
  <2>7. QED
    BY <2>6
<1>12. CASE Tick \/ UNCHANGED vars
  <2>1. UNCHANGED <<kind, files, pc, key, last, doom, restarts>>
    BY <1>12 DEF Tick, vars, setup, frames, bounds
  <2>2. /\ Listed' = Listed /\ \A F, g, r : Within(F, g, r)' <=> Within(F, g, r)
    BY <2>1 DEF Listed, Within, Live, LastFile
  <2>3. \A a, b, d, t, r : Cover(a, b, d, number, t, r) => Cover(a, b, d, number, t, r)'
    BY <2>1, <2>2 DEF Cover, Of, Most
  <2>4. Covers(k, e, K, E, number, count)'
    BY <1>4, <2>1, <2>3 DEF Covers
  <2>5. QED
    BY <2>4
<1>13. CASE Crash
  <2>1. restarts' = restarts + 1 /\ \A x \in Handlers : pc'[x] = "down"
    BY <1>13 DEF Crash
  <2>2. PICK r \in Nat : r = restarts
    BY <1>0
  <2>3. Cover(k, e, {}, number, 0, r + 1)'
    BY <1>1, <1>4, <1>13, <2>2, CoverCrash
  <2>4. Cover(k, e, {}, number, 0, restarts)'
    BY <2>1, <2>2, <2>3
  <2>5. Covers(k, e, K, E, number, count)'
    BY <1>4, <2>1, <2>4 DEF Covers
  <2>6. QED
    BY <2>5
<1>14. ASSUME NEW h \in Handlers, Return(h)
       PROVE  \E a, b \in SUBSET Names : \E later \in [Handlers -> Nat] :
                  Covers(a, b, K, E, later, count)'
  <2>1. number[h] = 0 \/ number[h] > 0
    BY <1>5
  <2>2. QED
    BY <1>5, <1>10, <1>11, <1>14, <2>1
<1>15. QED
  BY <1>6, <1>7, <1>8, <1>9, <1>12, <1>13, <1>14 DEF Next, Step

-----------------------------------------------------------------------------
(* A sum of equal bounds *)

\* An interval from 1 on has its last element's number of elements.
LEMMA IntervalSize ==
    ASSUME NEW n \in Nat
    PROVE  IsFiniteSet(1..n) /\ Cardinality(1..n) = n
<1>1. PICK a \in Int, b \in Int : a = 1 /\ b = n
  OBVIOUS
<1>2. IsFiniteSet(a..b) /\ Cardinality(a..b) = IF a > b THEN 0 ELSE b - a + 1
  BY FS_Interval
<1>3. QED
  BY <1>1, <1>2

\* When no handler has more than c of some files, they are no more than c for each.
LEMMA FilesOfAll ==
    ASSUME NEW e \in SUBSET Names, NEW c \in Nat,
           \A g \in Handlers : Cardinality(Of(e, g)) <= c
    PROVE  Cardinality(e) <= Cardinality(Handlers) * c
<1>1. ASSUME NEW g \in Handlers PROVE \E f : f \in Injection(Of(e, g), 1..c)
  <2>1. PICK n \in Nat, S \in SUBSET Names : S = Of(e, g) /\ n = Cardinality(S) /\ n <= c
    <3>1. Of(e, g) \in SUBSET Names
      BY DEF Of
    <3>2. QED
      BY <3>1, NameSets
  <2>2. IsFiniteSet(S) /\ IsFiniteSet(1..n) /\ Cardinality(1..n) = n
    BY <2>1, NameSets, IntervalSize
  <2>3. ExistsBijection(S, 1..n)
    BY <2>1, <2>2, FS_SameCardinalityBij
  <2>4. PICK f \in Bijection(S, 1..n) : TRUE
    BY <2>3 DEF ExistsBijection
  <2>5. f \in Injection(S, 1..c)
    <3>1. f \in [S -> 1..n] /\ \A a, b \in S : f[a] = f[b] => a = b
      BY <2>4 DEF Bijection, Injection, IsInjective
    <3>2. 1..n \subseteq 1..c
      BY <2>1
    <3>3. f \in [S -> 1..c]
      BY <3>1, <3>2
    <3>4. QED
      BY <3>1, <3>3 DEF Injection, IsInjective
  <2>6. QED
    BY <2>1, <2>5
<1> DEFINE slot(g) == CHOOSE f : f \in Injection(Of(e, g), 1..c)
<1>2. \A g \in Handlers : slot(g) \in Injection(Of(e, g), 1..c)
  BY <1>1
<1> HIDE DEF slot
<1> DEFINE all == [n \in e |-> <<n.by, slot(n.by)[n]>>]
<1>3. \A n \in e : n.by \in Handlers /\ n \in Of(e, n.by)
  BY DEF Of, Names
<1>4. ASSUME NEW n \in e PROVE all[n] \in Handlers \X (1..c)
  <2>1. slot(n.by) \in [Of(e, n.by) -> 1..c]
    BY <1>2, <1>3 DEF Injection
  <2>2. QED
    BY <1>3, <2>1
<1>5. ASSUME NEW m \in e, NEW n \in e, all[m] = all[n] PROVE m = n
  <2>1. m.by = n.by /\ slot(m.by)[m] = slot(m.by)[n]
    BY <1>5
  <2>2. m \in Of(e, m.by) /\ n \in Of(e, m.by)
    BY <1>3, <2>1
  <2>3. QED
    <3>1. PICK p \in Injection(Of(e, m.by), 1..c) : p = slot(m.by)
      BY <1>2, <1>3
    <3>2. p[m] = p[n]
      BY <2>1, <3>1
    <3>3. QED
      BY <2>2, <3>2 DEF Injection, IsInjective
<1>6. all \in Injection(e, Handlers \X (1..c))
  <2>1. all \in [e -> Handlers \X (1..c)]
    BY <1>4
  <2>2. DOMAIN all = e
    OBVIOUS
  <2> HIDE DEF all
  <2>3. QED
    BY <1>5, <2>1, <2>2 DEF Injection, IsInjective
<1>7. /\ IsFiniteSet(1..c) /\ Cardinality(1..c) = c
      /\ IsFiniteSet(Handlers \X (1..c))
      /\ Cardinality(Handlers \X (1..c)) = Cardinality(Handlers) * Cardinality(1..c)
  <2>1. IsFiniteSet(1..c) /\ Cardinality(1..c) = c
    BY IntervalSize
  <2>2. QED
    BY <2>1, Params, FS_Product
<1>8. QED
  BY <1>6, <1>7, FS_Injection

\* Between Writes a folder has as many files as one of its handlers may keep, and
\* one more for each handler and each death of the process: a file opened after
\* the last prune. This holds however the prunes of the handlers interleave, each
\* working from a listing that the others have outdated.
THEOREM FolderStaysBounded == Spec => []FilesBoundedAtRest
<1>1. Init => CountInv
  <2> SUFFICES ASSUME Init PROVE CountInv
    OBVIOUS
  <2>1. /\ Listed = {} /\ restarts = 0
        /\ \A g \in Handlers : pc[g] = "down" /\ last[g] = 0
    BY DEF Init, Listed
  <2>2. PICK none \in [Handlers -> SUBSET Names], number \in [Handlers -> Nat] :
            \A g \in Handlers : number[g] = 0
    <3>1. /\ [g \in Handlers |-> {}] \in [Handlers -> SUBSET Names]
          /\ [g \in Handlers |-> 0] \in [Handlers -> Nat]
      OBVIOUS
    <3>2. QED
      BY <3>1
  <2>3. Cardinality({}) <= Most
    <3>1. \A h \in Handlers : Limit[h] \in Nat /\ Limit[h] <= Most /\ Most \in Nat
      BY MostFacts
    <3>2. PICK h \in Handlers : TRUE
      BY Params
    <3>3. 0 <= Most
      BY <3>1, <3>2
    <3>4. QED
      BY <3>3, FS_EmptySet
  <2>4. \A g \in Handlers : Of({}, g) = {} /\ Within({}, g, 0)
    BY WithinNothing DEF Of
  <2>5. \A g \in Handlers : Within(Of({}, g), g, 0)
    BY <2>4
  <2>6. Cover({}, {}, {}, number, 0, restarts)
    BY <2>1, <2>3, <2>4, <2>5 DEF Cover
  <2>7. Covers({}, {}, none, none, number, 0)
    BY <2>1, <2>2, <2>6 DEF Covers
  <2>8. {} \in SUBSET Names /\ 0 \in Nat
    OBVIOUS
  <2>9. QED
    BY <2>1, <2>7, <2>8 DEF CountInv
<1>2. TypeInv /\ CountInv => FilesBoundedAtRest
  <2> SUFFICES ASSUME TypeInv, CountInv, place = "itself", \A h \in Handlers : pc[h] = "idle"
               PROVE  FilesBounded
    BY DEF FilesBoundedAtRest
  <2>1. PICK k \in SUBSET Names, e \in SUBSET Names, number \in [Handlers -> Nat] :
            Cover(k, e, {}, number, 0, restarts)
    BY DEF CountInv, Covers
  <2>2. restarts \in Nat
    BY Params DEF TypeInv, TypeOK
  <2>3. ASSUME NEW g \in Handlers PROVE Cardinality(Of(e, g)) <= restarts + 1
    <3>1. PICK F \in SUBSET Names : F = Of(e, g)
      BY DEF Of
    <3>2. Within(F, g, restarts)
      BY <2>1, <3>1 DEF Cover
    <3>3. PICK c \in Nat, b \in Nat :
              c = Cardinality(F) /\ b = Cardinality(F \ {Live(g)}) /\ c <= b + 1
      BY NameSets
    <3>4. b <= restarts \/ c <= restarts + 1 \/ F \subseteq {LastFile(g)}
      BY <3>2, <3>3 DEF Within
    <3>5. F \subseteq {LastFile(g)} => c <= 1
      BY <3>3, NameSets
    <3>6. c <= restarts + 1
      BY <2>2, <3>3, <3>4, <3>5
    <3>7. QED
      BY <3>1, <3>3, <3>6
  <2>4. Cardinality(e) <= Cardinality(Handlers) * (restarts + 1)
    BY <2>2, <2>3, FilesOfAll
  <2>5. Listed \subseteq k \cup e /\ Cardinality(k) <= Most /\ Most \in Nat
    BY <2>1, Params, MostFacts DEF Cover
  <2>6. PICK a \in Nat, b \in Nat, u \in Nat, c \in Nat :
            /\ a = Cardinality(k) /\ b = Cardinality(e) /\ u = Cardinality(k \cup e)
            /\ c = Cardinality(Listed) /\ c <= u /\ u <= a + b
    <3>1. /\ IsFiniteSet(k) /\ IsFiniteSet(e) /\ IsFiniteSet(k \cup e)
          /\ k \cup e \in SUBSET Names /\ k \cap e \in SUBSET Names /\ Listed \in SUBSET Names
      BY NameSets DEF Listed
    <3>2. /\ Cardinality(k) \in Nat /\ Cardinality(e) \in Nat /\ Cardinality(k \cup e) \in Nat
          /\ Cardinality(k \cap e) \in Nat /\ Cardinality(Listed) \in Nat
      BY <3>1, NameSets
    <3>3. Cardinality(k \cup e) = Cardinality(k) + Cardinality(e) - Cardinality(k \cap e)
      BY <3>1, FS_Union
    <3>4. Cardinality(Listed) <= Cardinality(k \cup e)
      BY <2>5, <3>1, FS_Subset
    <3>5. QED
      BY <3>2, <3>3, <3>4
  <2>7. PICK p \in Nat : p = Cardinality(Handlers) * (restarts + 1)
    <3>1. Cardinality(Handlers) \in Nat /\ restarts + 1 \in Nat
      BY <2>2, Params, FS_CardinalityType
    <3>2. QED
      BY <3>1
  <2>8. c <= Most + p
    BY <2>4, <2>5, <2>6, <2>7
  <2>9. QED
    BY <2>6, <2>7, <2>8 DEF FilesBounded, Most
<1>3. TypeInv /\ CountInv /\ [Next]_vars => CountInv'
  BY CountStep
<1>4. TypeInv /\ [Next]_vars => TypeInv'
  BY TypeInvStep, TypeInvOther DEF Next
<1>5. QED
  BY TypeInvInit, <1>1, <1>2, <1>3, <1>4, PTL DEF Spec
=============================================================================
