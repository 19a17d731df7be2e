------------------------- MODULE RotatingFileProofs -------------------------
(* What is proved of RotatingFile for every set of scenarios, cap, age and *)
(* message size, and any number of messages, indices, deaths, restarts and *)
(* failing file operations.                                                *)
EXTENDS RotatingFile, Extrema, TLAPS

-----------------------------------------------------------------------------
(* Names and parameters *)

\* What the parameters are.
LEMMA Params ==
    /\ Scenarios \subseteq AllScenarios
    /\ MaxFileSize \in Nat /\ MaxAge \in Nat /\ MaxIndex \in Nat /\ MaxMsgs \in Nat
    /\ Sizes \subseteq Nat \ {0, 1} /\ IsFiniteSet(Sizes) /\ Sizes # {}
    /\ Absent \notin [msgs : SUBSET (1..MaxMsgs), size : Nat, mtime : Nat]
BY RotatingFileAssumption

\* What a scenario consists of.
LEMMA ScenarioFields ==
    ASSUME NEW s \in Scenarios
    PROVE  /\ s.configs \subseteq Options /\ s.maxFiles \in Nat
           /\ s.msgs \in Nat /\ s.msgs <= MaxMsgs
           /\ s.toggle \in BOOLEAN /\ s.blind \in BOOLEAN /\ (s.faults = 0 => ~ s.blind)
           /\ s.deaths \in Nat /\ s.faults \in Nat /\ s.ticks \in Nat
<1>1. s \in AllScenarios
  BY Params
<1>2. s.configs \subseteq Options /\ s.maxFiles \in Nat /\ s.msgs \in 0..MaxMsgs
      /\ s.toggle \in BOOLEAN /\ s.blind \in BOOLEAN /\ s.deaths \in Nat /\ s.faults \in Nat /\ s.ticks \in Nat
  BY <1>1 DEF AllScenarios
<1>3. s.faults = 0 => ~ s.blind
  BY RotatingFileAssumption
<1>4. QED
  BY <1>2, <1>3, Params

\* What a name consists of.
LEMMA NameFields ==
    /\ \A n \in Names : /\ n.kind \in {"log", "gz", "tmp", "live"} /\ n.idx \in Nat
                        /\ n.kind # "live" => n.idx \in Indices
                        /\ n.kind = "live" => n = Live
                        /\ n = Name(n.kind, n.idx)
    /\ \A i \in Indices, k \in {"log", "gz", "tmp"} : Name(k, i) \in Names
    /\ \A k, i : Name(k, i).kind = k /\ Name(k, i).idx = i
    /\ Live \in Names /\ Live.kind = "live" /\ Live.idx = 0
    /\ Indices \subseteq Nat /\ \A i \in Indices : i >= 1 /\ i <= MaxIndex
<1>1. \A k, i : Name(k, i).kind = k /\ Name(k, i).idx = i
  BY DEF Name
<1>2. Live \in Names /\ Live.kind = "live" /\ Live.idx = 0
  BY DEF Names, Live, Name
<1>3. \A i \in Indices, k \in {"log", "gz", "tmp"} : Name(k, i) \in Names
  BY DEF Names
<1>4. Indices \subseteq Nat /\ \A i \in Indices : i >= 1 /\ i <= MaxIndex
  BY Params DEF Indices
<1>5. ASSUME NEW n \in Names
      PROVE  /\ n.kind \in {"log", "gz", "tmp", "live"} /\ n.idx \in Nat
             /\ n.kind # "live" => n.idx \in Indices
             /\ n.kind = "live" => n = Live
             /\ n = Name(n.kind, n.idx)
  <2>1. CASE n = Live
    BY <1>2, <2>1 DEF Live, Name
  <2>2. CASE \E k \in {"log", "gz", "tmp"}, i \in Indices : n = Name(k, i)
    BY <1>1, <1>4, <2>2 DEF Name
  <2>3. QED
    BY <2>1, <2>2 DEF Names
<1>6. QED
  BY <1>1, <1>2, <1>3, <1>4, <1>5

-----------------------------------------------------------------------------
(* Types.  What the program counter says of the folder is part of them. *)

Busy == pc \in {"gzip", "gzcopy", "gzrename", "gzstamp", "gzdrop"}

Control ==
    /\ pc # "down" /\ ~ cfg.stable => index <= MaxIndex
    /\ pc = "body" => nextMsg <= scenario.msgs
    /\ pc \in {"body", "newline"} => size \in Sizes
    /\ pc \in {"body", "newline", "rotate"} => Exists(liveFileName)
    /\ Busy => gzIdx \in Indices /\ Exists(src) /\ cfg.compress
    /\ pc \in {"gzcopy", "gzrename"} => Exists(tmp)
    /\ pc \in {"gzstamp", "gzdrop"} => Exists(dst)

TypeInv == TypeOK /\ Control

\* Types in a form the provers use.
LEMMA TypeFacts ==
    ASSUME TypeInv
    PROVE  /\ scenario \in Scenarios /\ scenario.configs \subseteq Options
           /\ scenario.msgs \in Nat /\ scenario.msgs <= MaxMsgs
           /\ scenario.ticks \in Nat /\ scenario.faults \in Nat /\ scenario.deaths \in Nat
           /\ scenario.maxFiles \in Nat
           /\ cfg \in Options
           /\ index \in Nat /\ index >= 1 /\ index <= MaxIndex + 1
           /\ gzIdx \in Nat /\ nextMsg \in Nat /\ nextMsg >= 1
           /\ size \in Nat /\ now \in Nat /\ restarts \in Nat /\ faults \in Nat
           /\ \A n \in Names : Exists(n) => disk[n] \in Files
           /\ \A f \in Files : f # Absent
           /\ pc # "down" => liveFileName \in Names
<1>1. scenario \in Scenarios /\ TypeOK /\ Control
  BY DEF TypeInv, TypeOK
<1>2. /\ scenario.configs \subseteq Options /\ scenario.msgs \in Nat /\ scenario.msgs <= MaxMsgs
      /\ scenario.ticks \in Nat /\ scenario.faults \in Nat /\ scenario.deaths \in Nat
      /\ scenario.maxFiles \in Nat
  BY <1>1, ScenarioFields
<1>3. /\ cfg \in Options /\ index \in Nat /\ index >= 1 /\ index <= MaxIndex + 1
      /\ gzIdx \in Nat /\ nextMsg \in Nat /\ nextMsg >= 1
      /\ size \in Nat /\ now \in Nat /\ restarts \in Nat /\ faults \in Nat
  BY <1>1, <1>2, Params DEF TypeOK
<1>4. \A n \in Names : Exists(n) => disk[n] \in Files
  BY <1>1 DEF TypeOK, Exists
<1>5. \A f \in Files : f # Absent
  <2>1. 0..scenario.ticks \subseteq Nat
    BY <1>2
  <2>2. Files \subseteq [msgs : SUBSET (1..MaxMsgs), size : Nat, mtime : Nat]
    BY <2>1 DEF Files
  <2>3. QED
    BY <2>2, Params
<1>6. pc # "down" => liveFileName \in Names
  BY <1>1, <1>3, NameFields, Params DEF liveFileName, Control, Indices
<1>7. QED
  BY <1>1, <1>2, <1>3, <1>4, <1>5, <1>6

\* The folder is empty and no process runs.
LEMMA TypeInvInit == Init => TypeInv
<1> SUFFICES ASSUME Init PROVE TypeInv
  OBVIOUS
<1>1. scenario \in Scenarios /\ scenario.msgs \in Nat /\ scenario.ticks \in Nat
      /\ scenario.deaths \in Nat /\ scenario.faults \in Nat
  BY ScenarioFields DEF Init
<1>2. TypeOK
  <2>1. /\ 1 \in 1..(MaxIndex + 1) /\ 1 \in 1..(scenario.msgs + 1) /\ 0 \in 0..scenario.ticks
        /\ 0 \in 0..scenario.deaths /\ 0 \in 0..scenario.faults /\ 0 \in 0..MaxIndex
    BY <1>1, Params
  <2>2. disk \in [Names -> Files \cup {Absent}] /\ stamp \in [1..MaxMsgs -> 0..scenario.ticks]
    BY <2>1 DEF Init
  <2>3. QED
    BY <2>1, <2>2 DEF Init, TypeOK
<1>3. Control
  BY DEF Init, Control, Busy
<1>4. QED
  BY <1>2, <1>3 DEF TypeInv

\* A reading of the folder shows what is there; all of it if nothing fails unnoticed.
LEMMA SightFacts ==
    ASSUME NEW seen \in Sights
    PROVE  /\ seen \subseteq Found /\ Missed(seen) \in {0, 1}
           /\ ~ scenario.blind \/ Missed(seen) = 0 => seen = Found
BY DEF Sights, Missed

\* The highest index found, which exists as long as one is found.
LEMMA ResumeIndexFacts ==
    ASSUME TypeInv, NEW c, NEW seen \in SUBSET Found
    PROVE  LET found == {n.idx : n \in Rotated(c.compress, seen)} IN
           /\ found \subseteq Indices
           /\ found # {} => Max(found) \in found /\ \A i \in found : i <= Max(found)
           /\ ResumeIndex(c, seen) \in Nat /\ ResumeIndex(c, seen) >= 1
           /\ \A i \in found : i <= ResumeIndex(c, seen)
<1> DEFINE found == {n.idx : n \in Rotated(c.compress, seen)}
<1>1. \A n \in Rotated(c.compress, seen) : n \in Names /\ n.kind # "live"
  BY DEF Rotated, Listed, Found
<1>2. found \subseteq Indices
  BY <1>1, NameFields
<1>3. found \in SUBSET Nat /\ \A i \in found : i <= MaxIndex
  BY <1>2, NameFields
<1>4. found # {} => Max(found) \in found /\ \A i \in found : i <= Max(found)
  <2> HIDE DEF found
  <2> QED
    BY <1>3, MaxOfBounded, Params
<1>5. /\ found = {} => ResumeIndex(c, seen) = 1
      /\ found # {} => ResumeIndex(c, seen) \in {Max(found), Max(found) + 1}
  BY DEF ResumeIndex
<1>6. found # {} => Max(found) \in Nat /\ Max(found) >= 1
  BY <1>2, <1>4, NameFields
<1>7. /\ ResumeIndex(c, seen) \in Nat /\ ResumeIndex(c, seen) >= 1
      /\ \A i \in found : i <= ResumeIndex(c, seen)
  <2> HIDE DEF found
  <2> QED
    BY <1>3, <1>4, <1>5, <1>6
<1>8. QED
  BY <1>2, <1>4, <1>7


\* How a handler starts: from nothing, or from what it sees of the folder, which is all
\* of it unless something fails unnoticed.
LEMMA ConstructFacts ==
    ASSUME TypeInv, Construct
    PROVE  /\ pc = "down" /\ pc' = "construct" /\ index' <= MaxIndex
           /\ UNCHANGED <<disk, err, size, l, gzIdx, nextMsg, stamp, scenario, now, restarts>>
           /\ faults' \in 0..scenario.faults /\ faults' >= faults /\ seedErr' \in BOOLEAN
           /\ unreported' = unreported \/ (unreported' = TRUE /\ seedErr' = TRUE)
           /\ \E c \in scenario.configs, seen \in SUBSET Found, listed \in SUBSET Found :
                /\ scenario.toggle \/ c = [cfg EXCEPT !.fresh = c.fresh]
                /\ cfg' = c
                /\ c.fresh => /\ index' = 1 /\ fileSize' = 0 /\ doom' = ResetDoom(c, seen)
                              /\ written' = {}
                /\ ~ c.fresh => /\ index' = ResumeIndex(c, seen) /\ doom' = ReconcileDoom(c, listed)
                                /\ UNCHANGED written
                                /\ \/ fileSize' = ResumeSize(c, seen)
                                   \/ fileSize' = 0 /\ faults' > faults
                /\ seen = Found \/ faults' > faults
                /\ ~ scenario.blind \/ faults' = faults => seen = Found /\ listed = Found
<1>1. /\ pc = "down" /\ pc' = "construct" /\ index' <= MaxIndex
      /\ UNCHANGED <<disk, err, size, l, gzIdx, nextMsg, stamp, scenario, now, restarts>>
  BY DEF Construct, frame, elapsed
<1>2. faults \in Nat /\ scenario.faults \in Nat
  BY TypeFacts
<1>3. PICK c \in scenario.configs :
          /\ scenario.toggle \/ c = [cfg EXCEPT !.fresh = c.fresh]
          /\ cfg' = c
          /\ IF c.fresh THEN StartFresh(c) ELSE Resume(c)
  BY DEF Construct
<1>4. CASE c.fresh
  <2>1. PICK seen \in Sights :
            /\ index' = 1 /\ fileSize' = 0 /\ seedErr' = FALSE
            /\ doom' = ResetDoom(c, seen) /\ written' = {}
            /\ Unnoticed(Missed(seen))
    BY <1>3, <1>4 DEF StartFresh
  <2>2. seen \subseteq Found /\ Missed(seen) \in {0, 1}
        /\ (~ scenario.blind \/ Missed(seen) = 0 => seen = Found)
    BY SightFacts
  <2>3. /\ faults' \in 0..scenario.faults /\ faults' >= faults
        /\ faults' = faults + Missed(seen) /\ UNCHANGED unreported
    BY <1>2, <2>1, <2>2 DEF Unnoticed
  <2>4. seen = Found \/ faults' > faults
    BY <1>2, <2>2, <2>3
  <2>5. ~ scenario.blind \/ faults' = faults => seen = Found
    BY <1>2, <2>2, <2>3
  <2>6. QED
    BY <1>1, <1>3, <1>4, <2>1, <2>2, <2>3, <2>4, <2>5
<1>5. CASE ~ c.fresh
  <2>1. PICK seen \in Sights :
            \E listed \in IF c.compress THEN Sights ELSE {Found} :
            /\ index' = ResumeIndex(c, seen)
            /\ doom' = ReconcileDoom(c, listed) /\ UNCHANGED written
            /\ \/ /\ fileSize' = ResumeSize(c, seen) /\ seedErr' = FALSE
                  /\ Unnoticed(Missed(seen) + Missed(listed))
               \/ /\ c.stable \/ ResumeFile(c, seen) \in seen
                  /\ fileSize' = 0 /\ seedErr' = TRUE
                  /\ Faults(1 + Missed(seen) + Missed(listed))
    BY <1>3, <1>5 DEF Resume
  <2>2. PICK listed \in IF c.compress THEN Sights ELSE {Found} :
            /\ index' = ResumeIndex(c, seen)
            /\ doom' = ReconcileDoom(c, listed) /\ UNCHANGED written
            /\ \/ /\ fileSize' = ResumeSize(c, seen) /\ seedErr' = FALSE
                  /\ Unnoticed(Missed(seen) + Missed(listed))
               \/ /\ c.stable \/ ResumeFile(c, seen) \in seen
                  /\ fileSize' = 0 /\ seedErr' = TRUE
                  /\ Faults(1 + Missed(seen) + Missed(listed))
    BY <2>1
  <2>3. seen \subseteq Found /\ Missed(seen) \in {0, 1}
        /\ (~ scenario.blind \/ Missed(seen) = 0 => seen = Found)
    BY SightFacts
  <2>4. listed \subseteq Found /\ Missed(listed) \in {0, 1}
        /\ (~ scenario.blind \/ Missed(listed) = 0 => listed = Found)
    BY SightFacts DEF Missed
  <2>5. CASE fileSize' = ResumeSize(c, seen) /\ seedErr' = FALSE
             /\ Unnoticed(Missed(seen) + Missed(listed))
    <3>1. /\ faults' \in 0..scenario.faults /\ faults' >= faults
          /\ faults' = faults + Missed(seen) + Missed(listed) /\ UNCHANGED unreported
      BY <1>2, <2>3, <2>4, <2>5 DEF Unnoticed
    <3>2. seen = Found \/ faults' > faults
      BY <1>2, <2>3, <2>4, <3>1
    <3>3. ~ scenario.blind \/ faults' = faults => seen = Found /\ listed = Found
      BY <1>2, <2>3, <2>4, <3>1
    <3>4. QED
      BY <1>1, <1>3, <1>5, <2>2, <2>3, <2>4, <2>5, <3>1, <3>2, <3>3
  <2>6. CASE fileSize' = 0 /\ seedErr' = TRUE /\ Faults(1 + Missed(seen) + Missed(listed))
    <3>1. /\ faults' \in 0..scenario.faults /\ faults' > faults /\ faults' >= faults
          /\ unreported' = TRUE /\ faults' # faults
      BY <1>2, <2>3, <2>4, <2>6 DEF Faults
    <3>2. QED
      BY <1>1, <1>3, <1>5, <2>2, <2>3, <2>4, <2>6, <3>1
  <2>7. QED
    BY <2>2, <2>5, <2>6
<1>6. QED
  BY <1>4, <1>5

\* A handler that sees all of the folder.
LEMMA ConstructSeen ==
    ASSUME TypeInv, Construct, ~ scenario.blind \/ faults' = faults
    PROVE  \E c \in scenario.configs :
             /\ scenario.toggle \/ c = [cfg EXCEPT !.fresh = c.fresh]
             /\ cfg' = c
             /\ IF c.fresh
                THEN index' = 1 /\ fileSize' = 0 /\ doom' = ResetDoom(c, Found) /\ written' = {}
                ELSE /\ index' = ResumeIndex(c, Found)
                     /\ faults' = faults => fileSize' = ResumeSize(c, Found)
                     /\ doom' = ReconcileDoom(c, Found) /\ UNCHANGED written
             /\ index' <= MaxIndex
<1>1. PICK c \in scenario.configs, seen \in SUBSET Found, listed \in SUBSET Found :
          /\ scenario.toggle \/ c = [cfg EXCEPT !.fresh = c.fresh]
          /\ cfg' = c
          /\ c.fresh => index' = 1 /\ fileSize' = 0 /\ doom' = ResetDoom(c, seen) /\ written' = {}
          /\ ~ c.fresh => /\ index' = ResumeIndex(c, seen) /\ doom' = ReconcileDoom(c, listed)
                          /\ UNCHANGED written
                          /\ \/ fileSize' = ResumeSize(c, seen)
                             \/ fileSize' = 0 /\ faults' > faults
          /\ seen = Found /\ listed = Found
  BY ConstructFacts
<1>2. faults' = faults => ~ (faults' > faults)
  BY TypeFacts
<1>3. QED
  BY <1>1, <1>2, ConstructFacts

\* A handler is constructed.
LEMMA TypeInvConstruct == TypeInv /\ Construct => TypeInv'
<1> SUFFICES ASSUME TypeInv, Construct PROVE TypeInv'
  OBVIOUS
<1>0. TypeOK
  BY DEF TypeInv
<1>1. /\ UNCHANGED <<disk, err, size, l, gzIdx, nextMsg, stamp, scenario, now, restarts>>
      /\ pc' = "construct" /\ seedErr' \in BOOLEAN /\ unreported' \in BOOLEAN
      /\ faults' \in 0..scenario.faults
  BY <1>0, ConstructFacts DEF TypeOK
<1>2. PICK c \in scenario.configs, seen \in SUBSET Found, listed \in SUBSET Found :
          /\ cfg' = c
          /\ c.fresh => index' = 1 /\ fileSize' = 0 /\ doom' = ResetDoom(c, seen) /\ written' = {}
          /\ ~ c.fresh => /\ index' = ResumeIndex(c, seen) /\ doom' = ReconcileDoom(c, listed)
                          /\ UNCHANGED written
                          /\ fileSize' = ResumeSize(c, seen) \/ fileSize' = 0
          /\ index' <= MaxIndex
  BY ConstructFacts
<1>3. index' \in 1..(MaxIndex + 1)
  BY <1>2, ResumeIndexFacts, Params
<1>4. fileSize' \in Nat
  <2>1. ASSUME NEW n \in Names PROVE SizeOf(n) \in Nat
    BY <2>1, TypeFacts DEF SizeOf, Exists, Files
  <2>2. ResumeSize(c, seen) \in Nat
    BY <2>1, NameFields DEF ResumeSize, ResumeFile, Found
  <2>3. QED
    BY <1>2, <2>2
<1>5. doom' \subseteq Names
  BY <1>2, NameFields DEF ResetDoom, ReconcileDoom, Rotated, Listed, Found
<1>6. written' \subseteq 1..scenario.msgs
  BY <1>0, <1>2 DEF TypeOK
<1>7. Files' = Files
  BY <1>1 DEF Files
<1>8. TypeOK'
  BY <1>0, <1>1, <1>2, <1>3, <1>4, <1>5, <1>6, <1>7 DEF TypeOK
<1>9. Control'
  BY <1>1, <1>2 DEF Control, Busy
<1>10. QED
  BY <1>8, <1>9 DEF TypeInv

\* Some file is the first to be removed.
LEMMA NextDoomedFirst ==
    ASSUME TypeInv, doom # {}
    PROVE  /\ NextDoomed \in doom /\ NextDoomed \in Names
           /\ \A m \in doom : RemovalRank(NextDoomed) <= RemovalRank(m)
<1> DEFINE R == {RemovalRank(n) : n \in doom}
<1>1. doom \subseteq Names
  BY DEF TypeInv, TypeOK
<1>2. \A n \in doom : RemovalRank(n) \in Nat
  <2> SUFFICES ASSUME NEW n \in doom PROVE RemovalRank(n) \in Nat
    OBVIOUS
  <2>1. n.idx \in Nat /\ MaxIndex \in Nat
    BY <1>1, NameFields, Params
  <2> DEFINE k == CASE n.kind = "log" -> 1 [] n.kind = "gz" -> 2 [] n.kind = "live" -> 3
                    [] OTHER -> IF cfg.fresh THEN 4 ELSE 0
  <2>2. k \in Nat
    OBVIOUS
  <2>3. LexRank(n) \in Nat
    BY <2>1 DEF LexRank
  <2>4. \/ RemovalRank(n) = k * (MaxIndex + 1) + n.idx
        \/ RemovalRank(n) = LexRank(n) * 4 + k + 0
        \/ RemovalRank(n) = LexRank(n) * 4 + k + (MaxIndex + 2) * 4
    BY DEF RemovalRank
  <2> HIDE DEF k
  <2>5. k * (MaxIndex + 1) + n.idx \in Nat
    BY <2>1, <2>2
  <2>6. QED
    BY <2>1, <2>2, <2>3, <2>4, <2>5
<1>3. R \in SUBSET Nat /\ R # {}
  BY <1>2
<1>4. PICK r \in R : \A q \in R : r <= q
  BY <1>3, LeastNatural
<1>5. PICK n \in doom : r = RemovalRank(n)
  OBVIOUS
<1>6. \A m \in doom : RemovalRank(n) <= RemovalRank(m)
  BY <1>4, <1>5
<1>7. QED
  BY <1>1, <1>6 DEF NextDoomed

\* Counting failures keeps within the scenario.
LEMMA FaultTypes ==
    ASSUME TypeInv, NEW n \in Nat, Faults(n)
    PROVE  /\ unreported' \in BOOLEAN /\ faults' \in 0..scenario.faults
           /\ faults' = faults + n /\ faults' \in Nat
<1>1. faults \in Nat /\ scenario.faults \in Nat
  BY TypeFacts
<1>2. QED
  BY <1>1 DEF Faults

\* A failure that goes unnoticed is counted, too.
LEMMA UnnoticedTypes ==
    ASSUME TypeInv, NEW n \in Nat, Unnoticed(n)
    PROVE  /\ unreported' \in BOOLEAN /\ unreported' = unreported
           /\ faults' \in 0..scenario.faults /\ faults' = faults + n /\ faults' \in Nat
<1>1. faults \in Nat /\ scenario.faults \in Nat
  BY TypeFacts
<1>2. unreported \in BOOLEAN
  BY DEF TypeInv, TypeOK
<1>3. QED
  BY <1>1, <1>2 DEF Unnoticed

\* What an append does to the folder.
LEMMA GrownFacts ==
    ASSUME TypeInv, NEW n \in Names, Exists(n),
           NEW ms \in SUBSET (1..MaxMsgs), NEW b \in Nat
    PROVE  /\ Grown(n, ms, b) \in [Names -> Files \cup {Absent}]
           /\ Grown(n, ms, b)[n] = [msgs |-> disk[n].msgs \cup ms,
                                   size |-> disk[n].size + b, mtime |-> now]
           /\ Grown(n, ms, b)[n] # Absent
           /\ \A m \in Names : m # n => Grown(n, ms, b)[m] = disk[m]
           /\ disk[n] \in Files /\ Grown(n, ms, b)[n] \in Files
<1> DEFINE f == [msgs |-> disk[n].msgs \cup ms, size |-> disk[n].size + b, mtime |-> now]
<1>1. disk \in [Names -> Files \cup {Absent}] /\ disk[n] \in Files
  BY TypeFacts DEF TypeInv, TypeOK
<1>2. f \in Files
  <2>1. disk[n].msgs \in SUBSET (1..MaxMsgs) /\ disk[n].size \in Nat
    BY <1>1 DEF Files
  <2>2. now \in 0..scenario.ticks
    BY DEF TypeInv, TypeOK
  <2>3. disk[n].msgs \cup ms \in SUBSET (1..MaxMsgs)
    BY <2>1
  <2>4. disk[n].size + b \in Nat
    BY <2>1
  <2>5. QED
    BY <2>2, <2>3, <2>4 DEF Files
<1>3. Grown(n, ms, b) = [disk EXCEPT ![n] = f]
  BY DEF Grown
<1>4. f # Absent
  BY <1>2, TypeFacts
<1> HIDE DEF f
<1>5. /\ Grown(n, ms, b) \in [Names -> Files \cup {Absent}]
      /\ Grown(n, ms, b)[n] = f
      /\ \A m \in Names : m # n => Grown(n, ms, b)[m] = disk[m]
  BY <1>1, <1>2, <1>3
<1>6. QED
  BY <1>1, <1>2, <1>4, <1>5 DEF f

\* One file less is to be removed, whether its removal succeeded or not.
LEMMA TypeInvRemove ==
    ASSUME TypeInv, NEW from \in {"construct", "remove"}, Remove(from)
    PROVE  TypeInv'
<1>0. TypeOK /\ Control
  BY DEF TypeInv
<1>1. /\ pc = from /\ doom # {} /\ doom' = doom \ {NextDoomed}
      /\ UNCHANGED <<pc, cfg, index, fileSize, size, l, gzIdx, nextMsg, written, stamp,
                     scenario, now, restarts>>
  BY DEF Remove, history, elapsed
<1>2. NextDoomed \in Names
  BY <1>1, NextDoomedFirst
<1>3. disk' \in [Names -> Files \cup {Absent}]
  BY <1>0, <1>2 DEF Remove, TypeOK
<1>4. /\ err' \in BOOLEAN /\ seedErr' \in BOOLEAN
      /\ unreported' \in BOOLEAN /\ faults' \in 0..scenario.faults
  <2>1. CASE UNCHANGED <<err, seedErr, failures>>
    BY <1>0, <2>1 DEF TypeOK, failures
  <2>2. CASE /\ Fault
             /\ IF from = "construct" THEN seedErr' = TRUE /\ UNCHANGED err
                ELSE err' = TRUE /\ UNCHANGED seedErr
    <3>1. err' \in BOOLEAN /\ seedErr' \in BOOLEAN
      BY <1>0, <2>2 DEF TypeOK
    <3>2. QED
      BY <2>2, <3>1, FaultTypes DEF Fault
  <2>3. QED
    BY <2>1, <2>2 DEF Remove
<1>5. Files' = Files
  BY <1>1 DEF Files
<1>6. TypeOK'
  BY <1>0, <1>1, <1>3, <1>4, <1>5 DEF TypeOK
<1>7. Control'
  BY <1>0, <1>1 DEF Control, Busy
<1>8. QED
  BY <1>6, <1>7 DEF TypeInv

\* The construction ends.
LEMMA TypeInvConstructed == TypeInv /\ Constructed => TypeInv'
<1> SUFFICES ASSUME TypeInv, Constructed PROVE TypeInv'
  OBVIOUS
<1>1. /\ pc = "construct" /\ pc' = "idle"
      /\ UNCHANGED <<disk, cfg, index, fileSize, seedErr, err, size, l, gzIdx, doom, nextMsg,
                     written, stamp, scenario, now, restarts, faults, unreported>>
  BY DEF Constructed, process, frame, history, bounds, elapsed, failures
<1>2. TypeOK'
  BY <1>1 DEF TypeInv, TypeOK, Files
<1>3. Control'
  BY <1>1 DEF TypeInv, Control, Busy
<1>4. QED
  BY <1>2, <1>3 DEF TypeInv

\* A Write begins, or fails to open the live file.
LEMMA TypeInvOpen == TypeInv /\ Open => TypeInv'
<1> SUFFICES ASSUME TypeInv, Open PROVE TypeInv'
  OBVIOUS
<1>0. TypeOK /\ Control
  BY DEF TypeInv
<1>1. /\ pc = "idle" /\ nextMsg <= scenario.msgs /\ seedErr' = FALSE
      /\ UNCHANGED <<cfg, index, fileSize, gzIdx, doom, nextMsg, written, stamp, scenario, now,
                     restarts>>
  BY DEF Open, history, elapsed
<1>2. CASE /\ \E s \in Sizes : size' = s
           /\ err' = seedErr /\ l' = 0
           /\ disk' = IF Exists(liveFileName) THEN disk
                      ELSE [disk EXCEPT ![liveFileName] = Empty]
           /\ pc' = "body"
           /\ UNCHANGED failures
  <2>1. Empty \in Files
    BY <1>0 DEF Empty, Files, TypeOK
  <2>2. liveFileName \in Names /\ liveFileName' = liveFileName
    BY <1>1, TypeFacts DEF liveFileName
  <2>3. disk' \in [Names -> Files \cup {Absent}]
    BY <1>0, <1>2, <2>1, <2>2 DEF TypeOK
  <2>4. disk'[liveFileName] # Absent
    <3>1. Empty # Absent
      BY <2>1, TypeFacts
    <3>2. QED
      BY <1>0, <1>2, <2>2, <3>1 DEF TypeOK, Exists
  <2>5. Files' = Files
    BY <1>1 DEF Files
  <2>6. TypeOK'
    BY <1>0, <1>1, <1>2, <2>3, <2>5 DEF TypeOK, failures
  <2>7. Control'
    BY <1>0, <1>1, <1>2, <2>2, <2>4 DEF Control, Busy, Exists
  <2>8. QED
    BY <2>6, <2>7 DEF TypeInv
<1>3. CASE /\ faults < scenario.faults /\ faults' = faults + 1 /\ unreported' = FALSE
           /\ UNCHANGED <<disk, pc, err, size, l>>
  <2>1. faults' \in 0..scenario.faults
    BY <1>3, TypeFacts
  <2>2. Files' = Files
    BY <1>1 DEF Files
  <2>3. TypeOK'
    BY <1>0, <1>1, <1>3, <2>1, <2>2 DEF TypeOK
  <2>4. Control'
    BY <1>0, <1>1, <1>3 DEF Control, Busy, Exists
  <2>5. QED
    BY <2>3, <2>4 DEF TypeInv
<1>4. QED
  BY <1>2, <1>3 DEF Open

\* The body is appended, or some of its bytes.
LEMMA TypeInvWriteBody == TypeInv /\ WriteBody => TypeInv'
<1> SUFFICES ASSUME TypeInv, WriteBody PROVE TypeInv'
  OBVIOUS
<1>0. TypeOK /\ Control
  BY DEF TypeInv
<1>1. /\ pc = "body" /\ pc' = "newline" /\ nextMsg' = nextMsg + 1
      /\ stamp' = [stamp EXCEPT ![nextMsg] = now]
      /\ UNCHANGED <<cfg, index, fileSize, seedErr, size, gzIdx, doom, scenario, now, restarts>>
  BY DEF WriteBody, process, elapsed
<1>2. /\ nextMsg <= scenario.msgs /\ size \in Sizes /\ Exists(liveFileName)
      /\ liveFileName \in Names /\ liveFileName' = liveFileName
  BY <1>0, <1>1, TypeFacts DEF Control, liveFileName
<1>3. nextMsg \in 1..MaxMsgs /\ nextMsg \in 1..scenario.msgs /\ nextMsg' \in 1..(scenario.msgs + 1)
  BY <1>1, <1>2, TypeFacts, Params
<1>4. stamp' \in [1..MaxMsgs -> 0..scenario.ticks]
  BY <1>0, <1>1, <1>3 DEF TypeOK
<1>5. size - 1 \in Nat /\ 0..(size - 2) \subseteq Nat
  BY <1>2, Params
<1>6. Files' = Files
  BY <1>1 DEF Files
<1>7. PICK ms \in SUBSET (1..MaxMsgs), b \in Nat : disk' = Grown(liveFileName, ms, b)
  BY <1>3, <1>5 DEF WriteBody
<1>8. disk' \in [Names -> Files \cup {Absent}] /\ disk'[liveFileName] # Absent
  BY <1>2, <1>7, GrownFacts
<1>9. err' \in BOOLEAN /\ l' \in Nat /\ written' \subseteq 1..scenario.msgs
      /\ unreported' \in BOOLEAN /\ faults' \in 0..scenario.faults
  <2>1. CASE l' = size - 1 /\ written' = written \cup {nextMsg} /\ UNCHANGED <<err, failures>>
    BY <1>0, <1>3, <1>5, <2>1 DEF TypeOK, failures
  <2>2. CASE Fault /\ err' = TRUE /\ UNCHANGED <<l, written>>
    <3>1. unreported' \in BOOLEAN /\ faults' \in 0..scenario.faults
      BY <2>2, FaultTypes DEF Fault
    <3>2. QED
      BY <1>0, <2>2, <3>1 DEF TypeOK
  <2>3. QED
    BY <2>1, <2>2 DEF WriteBody
<1>10. TypeOK'
  BY <1>0, <1>1, <1>3, <1>4, <1>6, <1>8, <1>9 DEF TypeOK
<1>11. Control'
  BY <1>0, <1>1, <1>2, <1>8 DEF Control, Busy, Exists
<1>12. QED
  BY <1>10, <1>11 DEF TypeInv

\* An operation that succeeds or fails keeps the types of what records failures.
LEMMA OutcomeTypes ==
    ASSUME TypeInv,
           \/ UNCHANGED <<err, failures>>
           \/ err' = TRUE /\ (UNCHANGED failures \/ Fault \/ Faults(2))
    PROVE  /\ err' \in BOOLEAN /\ unreported' \in BOOLEAN
           /\ faults' \in 0..scenario.faults
<1>0. TypeOK
  BY DEF TypeInv
<1>1. err' \in BOOLEAN
  BY <1>0 DEF TypeOK
<1>2. CASE UNCHANGED failures
  BY <1>0, <1>1, <1>2 DEF TypeOK, failures
<1>3. CASE Fault \/ Faults(2)
  BY <1>1, <1>3, FaultTypes DEF Fault
<1>4. QED
  BY <1>2, <1>3

\* The newline is appended and counted.
LEMMA TypeInvWriteNewline == TypeInv /\ WriteNewline => TypeInv'
<1> SUFFICES ASSUME TypeInv, WriteNewline PROVE TypeInv'
  OBVIOUS
<1>0. TypeOK /\ Control
  BY DEF TypeInv
<1>1. /\ pc = "newline" /\ fileSize' = fileSize + l' /\ pc' \in {"rotate", "return"}
      /\ UNCHANGED <<cfg, index, seedErr, size, gzIdx, doom, nextMsg, written, stamp, scenario,
                     now, restarts>>
  BY DEF WriteNewline, history, elapsed
<1>2. size \in Sizes /\ Exists(liveFileName) /\ liveFileName \in Names
      /\ liveFileName' = liveFileName
  BY <1>0, <1>1, TypeFacts DEF Control, liveFileName
<1>3. Files' = Files
  BY <1>1 DEF Files
<1>4. /\ disk' \in [Names -> Files \cup {Absent}] /\ disk'[liveFileName] # Absent
      /\ l' \in Nat /\ err' \in BOOLEAN
      /\ unreported' \in BOOLEAN /\ faults' \in 0..scenario.faults
  <2>1. CASE disk' = Grown(liveFileName, {}, 1) /\ l' = l + 1
             /\ (UNCHANGED <<err, failures>> \/ (Fault /\ err' = TRUE))
    <3>1. disk' \in [Names -> Files \cup {Absent}] /\ disk'[liveFileName] # Absent
      <4>1. {} \in SUBSET (1..MaxMsgs) /\ 1 \in Nat
        OBVIOUS
      <4>2. QED
        BY <1>2, <2>1, <4>1, GrownFacts
    <3>2. err' \in BOOLEAN /\ unreported' \in BOOLEAN /\ faults' \in 0..scenario.faults
      BY <2>1, OutcomeTypes
    <3>3. QED
      BY <1>0, <2>1, <3>1, <3>2 DEF TypeOK
  <2>2. CASE (Fault \/ Faults(2)) /\ err' = TRUE /\ UNCHANGED <<disk, l>>
    <3>1. unreported' \in BOOLEAN /\ faults' \in 0..scenario.faults
      BY <2>2, OutcomeTypes
    <3>2. QED
      BY <1>0, <1>2, <2>2, <3>1 DEF TypeOK, Exists
  <2>3. QED
    BY <2>1, <2>2 DEF WriteNewline
<1>5. fileSize' \in Nat
  <2>1. fileSize \in Nat
    BY <1>0 DEF TypeOK
  <2>2. l' \in Nat
    BY <1>4
  <2>3. fileSize' = fileSize + l'
    BY DEF WriteNewline
  <2>4. \A n \in Nat : fileSize + n \in Nat
    BY <2>1
  <2>5. QED
    BY <2>2, <2>3, <2>4
<1>6. TypeOK'
  BY <1>0, <1>1, <1>3, <1>4, <1>5 DEF TypeOK
<1>7. Control'
  BY <1>0, <1>1, <1>2, <1>4 DEF Control, Busy, Exists
<1>8. QED
  BY <1>6, <1>7 DEF TypeInv

\* The size of a file is a number.
LEMMA SizeType ==
    ASSUME TypeInv, NEW n \in Names
    PROVE  SizeOf(n) \in Nat
BY TypeFacts DEF SizeOf, Files

\* rotate of a handler with a stable name.
LEMMA TypeInvRotateStable == TypeInv /\ RotateStable => TypeInv'
<1> SUFFICES ASSUME TypeInv, RotateStable PROVE TypeInv'
  OBVIOUS
<1>0. TypeOK /\ Control
  BY DEF TypeInv
<1>1. /\ pc = "rotate" /\ cfg.stable /\ fileSize' = 0
      /\ UNCHANGED <<cfg, seedErr, size, l, doom, nextMsg, written, stamp, scenario, now, restarts>>
  BY DEF RotateStable, history, elapsed
<1>2. PICK seen \in Sights, i \in Indices :
        /\ index' = i + 1
        /\ \/ /\ disk' = [disk EXCEPT ![Name("log", i)] = disk[Live], ![Live] = Absent]
              /\ pc' = IF cfg.compress THEN "gzip" ELSE "prune"
              /\ gzIdx' = i
              /\ Unnoticed(Missed(seen)) /\ UNCHANGED err
           \/ /\ Faults(1 + Missed(seen)) /\ err' = TRUE
              /\ pc' = "prune"
              /\ UNCHANGED <<disk, gzIdx>>
  BY DEF RotateStable
<1>3. i \in Nat /\ i >= 1 /\ i <= MaxIndex /\ Name("log", i) \in Names /\ Name("log", i) # Live
  BY NameFields
<1>4. disk[Live] \in Files /\ disk[Live] # Absent /\ Live \in Names
  BY <1>0, <1>1, NameFields, TypeFacts DEF Control, liveFileName, Exists
<1>5. /\ disk' \in [Names -> Files \cup {Absent}] /\ gzIdx' \in 0..MaxIndex
      /\ pc' \in {"gzip", "prune"}
  BY <1>0, <1>2, <1>3, <1>4 DEF TypeOK
<1>6. /\ err' \in BOOLEAN /\ unreported' \in BOOLEAN /\ faults' \in 0..scenario.faults
  <2>1. Missed(seen) \in {0, 1}
    BY SightFacts
  <2>2. CASE Unnoticed(Missed(seen)) /\ UNCHANGED err
    BY <1>0, <2>1, <2>2, UnnoticedTypes DEF TypeOK
  <2>3. CASE Faults(1 + Missed(seen)) /\ err' = TRUE
    BY <2>1, <2>3, FaultTypes
  <2>4. QED
    BY <1>2, <2>2, <2>3
<1>7. index' \in 1..(MaxIndex + 1)
  BY <1>2, <1>3, Params
<1>8. Files' = Files
  BY <1>1 DEF Files
<1>9. TypeOK'
  BY <1>0, <1>1, <1>5, <1>6, <1>7, <1>8 DEF TypeOK
<1>10. pc' = "gzip" => gzIdx' \in Indices /\ disk'[Name("log", gzIdx')] # Absent /\ cfg.compress
  BY <1>0, <1>2, <1>3, <1>4 DEF TypeOK
<1>11. Control'
  BY <1>1, <1>5, <1>10 DEF Control, Busy, Exists, src
<1>12. QED
  BY <1>9, <1>11 DEF TypeInv

\* rotate of an indexed handler.
LEMMA TypeInvRotateIndexed == TypeInv /\ RotateIndexed => TypeInv'
<1> SUFFICES ASSUME TypeInv, RotateIndexed PROVE TypeInv'
  OBVIOUS
<1>0. TypeOK /\ Control
  BY DEF TypeInv
<1>1. /\ pc = "rotate" /\ ~ cfg.stable /\ index < MaxIndex /\ index' = index + 1
      /\ fileSize' \in {SizeOf(Name("log", index')), 0} /\ gzIdx' = index
      /\ pc' = IF cfg.compress THEN "gzip" ELSE "prune"
      /\ UNCHANGED <<disk, cfg, seedErr, size, l, doom, nextMsg, written, stamp, scenario, now,
                     restarts>>
      /\ UNCHANGED <<err, failures>> \/ (err' = TRUE /\ Fault)
  BY DEF RotateIndexed, history, elapsed
<1>a. err' \in BOOLEAN /\ unreported' \in BOOLEAN /\ faults' \in 0..scenario.faults
  BY <1>1, OutcomeTypes
<1>2. /\ index \in Nat /\ index >= 1 /\ index' \in Nat /\ index' >= 1 /\ index' <= MaxIndex
      /\ index \in Indices /\ index' \in Indices
  BY <1>1, TypeFacts, Params DEF Indices
<1>3. fileSize' \in Nat
  BY <1>1, <1>2, NameFields, SizeType
<1>4. Exists(Name("log", index))
  BY <1>0, <1>1 DEF Control, liveFileName
<1>5. index' \in 1..(MaxIndex + 1) /\ gzIdx' \in 0..MaxIndex
  BY <1>1, <1>2, Params
<1>6. Files' = Files
  BY <1>1 DEF Files
<1>7. TypeOK'
  BY <1>0, <1>1, <1>3, <1>5, <1>6, <1>a DEF TypeOK
<1>8. Control'
  BY <1>1, <1>2, <1>4 DEF Control, Busy, Exists, src
<1>9. QED
  BY <1>7, <1>8 DEF TypeInv

\* The names of one compression.
LEMMA GzNames ==
    ASSUME TypeInv, Busy
    PROVE  /\ src \in Names /\ dst \in Names /\ tmp \in Names
           /\ src # dst /\ src # tmp /\ dst # tmp
           /\ disk[src] \in Files /\ disk[src] # Absent
           /\ gzIdx \in Indices /\ cfg.compress
<1>1. gzIdx \in Indices /\ Exists(src) /\ cfg.compress
  BY DEF TypeInv, Control
<1>2. src \in Names /\ dst \in Names /\ tmp \in Names
  BY <1>1, NameFields DEF src, dst, tmp
<1>3. src # dst /\ src # tmp /\ dst # tmp
  BY NameFields DEF src, dst, tmp
<1>4. QED
  BY <1>1, <1>2, <1>3, TypeFacts DEF Exists

\* A step of the compression keeps the types of all it leaves alone.
LEMMA GzTypes ==
    ASSUME TypeInv, NEW from, NEW to \in {"gzcopy", "gzrename", "gzstamp", "gzdrop", "prune"},
           Step(from, to), disk' \in [Names -> Files \cup {Absent}],
           \/ UNCHANGED <<err, failures>>
           \/ err' = TRUE /\ (UNCHANGED failures \/ Fault \/ Faults(2))
    PROVE  /\ TypeOK' /\ pc = from /\ pc' = to /\ src' = src /\ dst' = dst /\ tmp' = tmp
           /\ UNCHANGED <<cfg, index, fileSize, seedErr, size, l, gzIdx, doom, nextMsg, written,
                          stamp, scenario, now, restarts>>
<1>0. TypeOK
  BY DEF TypeInv
<1>1. /\ pc = from /\ pc' = to
      /\ UNCHANGED <<cfg, index, fileSize, seedErr, size, l, gzIdx, doom, nextMsg, written,
                     stamp, scenario, now, restarts>>
  BY DEF Step, process, history, elapsed
<1>2. err' \in BOOLEAN /\ unreported' \in BOOLEAN /\ faults' \in 0..scenario.faults
  BY OutcomeTypes
<1>3. Files' = Files
  BY <1>1 DEF Files
<1>4. TypeOK'
  BY <1>0, <1>1, <1>2, <1>3 DEF TypeOK
<1>5. QED
  BY <1>1, <1>4 DEF src, dst, tmp

\* A compression that ends leaves nothing to establish.
LEMMA GzEnds ==
    ASSUME TypeInv, NEW from \in {"gzip", "gzcopy", "gzrename", "gzstamp", "gzdrop"},
           Step(from, "prune"), disk' \in [Names -> Files \cup {Absent}],
           \/ UNCHANGED <<err, failures>>
           \/ err' = TRUE /\ (UNCHANGED failures \/ Fault \/ Faults(2))
    PROVE  TypeInv'
<1>1. /\ TypeOK' /\ pc = from /\ pc' = "prune" /\ UNCHANGED <<cfg, index>>
  BY GzTypes
<1>2. Control'
  BY <1>1 DEF TypeInv, Control, Busy
<1>3. QED
  BY <1>1, <1>2 DEF TypeInv

\* compressFile, step by step.
LEMMA TypeInvGzip == TypeInv /\ Gzip => TypeInv'
<1> SUFFICES ASSUME TypeInv, Gzip PROVE TypeInv'
  OBVIOUS
<1>0. TypeOK /\ Control
  BY DEF TypeInv
<1>a. Busy
  BY DEF Gzip, GzipCreate, GzipCopy, GzipRename, GzipStamp, GzipDrop, GzipFails, Step, Busy
<1>b. disk \in [Names -> Files \cup {Absent}] /\ now \in 0..scenario.ticks
  BY <1>0 DEF TypeOK
<1>c. ASSUME NEW from \in {"gzcopy", "gzrename"}, GzipFails(from) PROVE TypeInv'
  <2>1. disk' \in [Names -> Files \cup {Absent}]
    BY <1>a, <1>b, <1>c, GzNames DEF GzipFails
  <2>2. QED
    BY <1>c, <2>1, GzEnds DEF GzipFails
<1>1. CASE GzipCreate
  <2>1. CASE /\ Step("gzip", "gzcopy")
             /\ ~ Exists(tmp)
             /\ disk' = [disk EXCEPT ![tmp] = Empty]
             /\ UNCHANGED <<err, failures>>
    <3>1. Empty \in Files /\ Empty # Absent
      <4>1. Empty \in Files
        BY <1>b DEF Empty, Files
      <4>2. QED
        BY <4>1, TypeFacts
    <3>2. disk' \in [Names -> Files \cup {Absent}] /\ disk'[src] # Absent /\ disk'[tmp] # Absent
      BY <1>a, <1>b, <2>1, <3>1, GzNames
    <3>3. /\ TypeOK' /\ pc = "gzip" /\ pc' = "gzcopy" /\ src' = src /\ tmp' = tmp
          /\ UNCHANGED <<cfg, index, gzIdx>>
      BY <2>1, <3>2, GzTypes
    <3>4. Control'
      BY <1>0, <1>a, <3>2, <3>3 DEF Control, Busy, Exists
    <3>5. QED
      BY <3>3, <3>4 DEF TypeInv
  <2>2. CASE /\ Step("gzip", "prune")
             /\ (Exists(tmp) /\ UNCHANGED failures) \/ Fault
             /\ err' = TRUE /\ UNCHANGED disk
    BY <1>b, <2>2, GzEnds
  <2>3. QED
    BY <1>1, <2>1, <2>2 DEF GzipCreate
<1>2. CASE GzipCopy
  <2>1. CASE /\ Step("gzcopy", "gzrename")
             /\ disk' = [disk EXCEPT ![tmp] = [disk[src] EXCEPT !.mtime = now]]
             /\ UNCHANGED <<err, failures>>
    <3> DEFINE f == [disk[src] EXCEPT !.mtime = now]
    <3>1. f \in Files /\ f # Absent
      <4>1. f \in Files
        BY <1>a, <1>b, GzNames DEF Files
      <4>2. QED
        BY <4>1, TypeFacts
    <3> HIDE DEF f
    <3>2. disk' = [disk EXCEPT ![tmp] = f]
      BY <2>1 DEF f
    <3>3. disk' \in [Names -> Files \cup {Absent}] /\ disk'[src] # Absent /\ disk'[tmp] # Absent
      BY <1>a, <1>b, <3>1, <3>2, GzNames
    <3>4. /\ TypeOK' /\ pc = "gzcopy" /\ pc' = "gzrename" /\ src' = src /\ tmp' = tmp
          /\ UNCHANGED <<cfg, index, gzIdx>>
      BY <2>1, <3>3, GzTypes
    <3>5. Control'
      BY <1>0, <1>a, <3>3, <3>4 DEF Control, Busy, Exists
    <3>6. QED
      BY <3>4, <3>5 DEF TypeInv
  <2>2. QED
    BY <1>2, <1>c, <2>1 DEF GzipCopy
<1>3. CASE GzipRename
  <2>1. CASE /\ Step("gzrename", "gzstamp")
             /\ disk' = [disk EXCEPT ![dst] = disk[tmp], ![tmp] = Absent]
             /\ UNCHANGED <<err, failures>>
    <3>1. disk[tmp] \in Files /\ disk[tmp] # Absent
      BY <1>0, <1>a, <2>1, GzNames, TypeFacts DEF Step, Control, Exists
    <3>2. disk' \in [Names -> Files \cup {Absent}] /\ disk'[src] # Absent /\ disk'[dst] # Absent
      BY <1>a, <1>b, <2>1, <3>1, GzNames
    <3>3. /\ TypeOK' /\ pc = "gzrename" /\ pc' = "gzstamp" /\ src' = src /\ dst' = dst
          /\ UNCHANGED <<cfg, index, gzIdx>>
      BY <2>1, <3>2, GzTypes
    <3>4. Control'
      BY <1>0, <1>a, <3>2, <3>3 DEF Control, Busy, Exists
    <3>5. QED
      BY <3>3, <3>4 DEF TypeInv
  <2>2. QED
    BY <1>3, <1>c, <2>1 DEF GzipRename
<1>4. CASE GzipStamp
  <2>1. Step("gzstamp", "gzdrop")
    BY <1>4 DEF GzipStamp
  <2>2. disk[dst] \in Files
    BY <1>0, <1>a, <2>1, GzNames, TypeFacts DEF Step, Control
  <2> DEFINE f == [disk[dst] EXCEPT !.mtime = disk[src].mtime]
  <2>3. f \in Files /\ f # Absent
    <3>1. disk[src].mtime \in 0..scenario.ticks
      BY <1>a, GzNames DEF Files
    <3>2. f \in Files
      BY <2>2, <3>1 DEF Files
    <3>3. QED
      BY <3>2, TypeFacts
  <2>4. disk' = [disk EXCEPT ![dst] = f] \/ UNCHANGED disk
    BY <1>4 DEF GzipStamp
  <2> HIDE DEF f
  <2>5. disk' \in [Names -> Files \cup {Absent}] /\ disk'[src] # Absent /\ disk'[dst] # Absent
    <3>1. disk[dst] # Absent
      BY <2>2, TypeFacts
    <3>2. QED
      BY <1>a, <1>b, <2>3, <2>4, <3>1, GzNames
  <2>6. /\ TypeOK' /\ pc = "gzstamp" /\ pc' = "gzdrop" /\ src' = src /\ dst' = dst
        /\ UNCHANGED <<cfg, index, gzIdx>>
    BY <1>4, <2>1, <2>5, GzTypes DEF GzipStamp
  <2>7. Control'
    BY <1>0, <1>a, <2>5, <2>6 DEF Control, Busy, Exists
  <2>8. QED
    BY <2>6, <2>7 DEF TypeInv
<1>5. CASE GzipDrop
  <2>1. disk' \in [Names -> Files \cup {Absent}]
    BY <1>5, <1>a, <1>b, GzNames DEF GzipDrop
  <2>2. QED
    BY <1>5, <2>1, GzEnds DEF GzipDrop
<1>6. QED
  BY <1>1, <1>2, <1>3, <1>4, <1>5 DEF Gzip

\* Pruning lists names of the folder.
LEMMA PruneDoomListed ==
    ASSUME NEW seen \in SUBSET Found
    PROVE  PruneDoom(seen) \subseteq Backups(seen) /\ VerifyDoom(seen) \subseteq Names
<1>1. PruneDoom(seen) \subseteq Backups(seen)
  BY DEF PruneDoom
<1>2. VerifyDoom(seen) \subseteq Names
  BY DEF VerifyDoom, Oldest, Listed, Found
<1>3. QED
  BY <1>1, <1>2

\* Pruning begins, with what it sees of the folder.
LEMMA PruneFacts ==
    ASSUME TypeInv, Prune
    PROVE  /\ pc = "prune" /\ pc' = "remove"
           /\ UNCHANGED <<disk, cfg, index, fileSize, seedErr, err, size, l, gzIdx, nextMsg,
                          written, stamp, scenario, now, restarts, unreported>>
           /\ faults' \in 0..scenario.faults /\ faults' >= faults
           /\ \E seen \in SUBSET Found :
                /\ doom' = IF ZeroOption(cfg) THEN VerifyDoom(seen) ELSE PruneDoom(seen)
                /\ faults' = faults \/ faults' = faults + 1
                /\ ~ scenario.blind \/ faults' = faults => seen = Found
<1>1. /\ pc = "prune" /\ pc' = "remove"
      /\ UNCHANGED <<disk, cfg, index, fileSize, seedErr, err, size, l, gzIdx, nextMsg,
                     written, stamp, scenario, now, restarts>>
  BY DEF Prune, process, frame, history, elapsed
<1>2. PICK seen \in Sights :
          /\ doom' = IF ZeroOption(cfg) THEN VerifyDoom(seen) ELSE PruneDoom(seen)
          /\ Unnoticed(Missed(seen))
  BY DEF Prune
<1>3. seen \subseteq Found /\ Missed(seen) \in {0, 1}
      /\ (~ scenario.blind \/ Missed(seen) = 0 => seen = Found)
  BY SightFacts
<1>4. /\ unreported' = unreported /\ faults' \in 0..scenario.faults
      /\ faults' = faults + Missed(seen) /\ faults \in Nat
  BY <1>2, <1>3, UnnoticedTypes, TypeFacts
<1>5. (faults' = faults \/ faults' = faults + 1) /\ faults' >= faults
      /\ (~ scenario.blind \/ faults' = faults => seen = Found)
  BY <1>3, <1>4
<1>6. QED
  BY <1>1, <1>2, <1>3, <1>4, <1>5

\* Pruning begins.
LEMMA TypeInvPrune == TypeInv /\ Prune => TypeInv'
<1> SUFFICES ASSUME TypeInv, Prune PROVE TypeInv'
  OBVIOUS
<1>1. /\ pc = "prune" /\ pc' = "remove"
      /\ UNCHANGED <<disk, cfg, index, fileSize, seedErr, err, size, l, gzIdx, nextMsg,
                     written, stamp, scenario, now, restarts, unreported>>
      /\ faults' \in 0..scenario.faults
  BY PruneFacts
<1>2. doom' \subseteq Names
  BY PruneFacts, PruneDoomListed DEF Backups, Rotated, Listed, Found
<1>3. TypeOK'
  BY <1>1, <1>2 DEF TypeInv, TypeOK, Files
<1>4. Control'
  BY <1>1 DEF TypeInv, Control, Busy
<1>5. QED
  BY <1>3, <1>4 DEF TypeInv

\* Pruning ends.
LEMMA TypeInvPruned == TypeInv /\ Pruned => TypeInv'
<1> SUFFICES ASSUME TypeInv, Pruned PROVE TypeInv'
  OBVIOUS
<1>1. /\ pc = "remove" /\ pc' = "return"
      /\ UNCHANGED <<disk, cfg, index, fileSize, seedErr, err, size, l, gzIdx, doom, nextMsg,
                     written, stamp, scenario, now, restarts, faults, unreported>>
  BY DEF Pruned, process, frame, history, bounds, elapsed, failures
<1>2. TypeOK'
  BY <1>1 DEF TypeInv, TypeOK, Files
<1>3. Control'
  BY <1>1 DEF TypeInv, Control, Busy
<1>4. QED
  BY <1>2, <1>3 DEF TypeInv

\* Write returns.
LEMMA TypeInvReturn == TypeInv /\ Return => TypeInv'
<1> SUFFICES ASSUME TypeInv, Return PROVE TypeInv'
  OBVIOUS
<1>1. /\ pc = "return" /\ pc' = "idle" /\ err' = FALSE /\ size' = 0 /\ l' = 0 /\ gzIdx' = 0
      /\ unreported' = (unreported /\ ~ err)
      /\ UNCHANGED <<disk, cfg, index, fileSize, seedErr, doom, nextMsg, written, stamp, scenario,
                     now, restarts, faults>>
  BY DEF Return, process, history, elapsed
<1>2. 0 \in 0..MaxIndex /\ unreported' \in BOOLEAN
  BY <1>1, Params
<1>3. TypeOK'
  BY <1>1, <1>2 DEF TypeInv, TypeOK, Files
<1>4. Control'
  BY <1>1 DEF TypeInv, Control, Busy
<1>5. QED
  BY <1>3, <1>4 DEF TypeInv

\* The process dies.
LEMMA TypeInvCrash == TypeInv /\ Crash => TypeInv'
<1> SUFFICES ASSUME TypeInv, Crash PROVE TypeInv'
  OBVIOUS
<1>1. /\ restarts < scenario.deaths /\ restarts' = restarts + 1
      /\ pc' = "down" /\ index' = 1 /\ fileSize' = 0 /\ seedErr' = FALSE /\ unreported' = FALSE
      /\ err' = FALSE /\ size' = 0 /\ l' = 0 /\ gzIdx' = 0 /\ doom' = {}
      /\ UNCHANGED <<scenario, disk, cfg, nextMsg, written, stamp, now, faults>>
  BY DEF Crash, history
<1>2. /\ restarts' \in 0..scenario.deaths /\ 0 \in 0..MaxIndex /\ 1 \in 1..(MaxIndex + 1)
  BY <1>1, TypeFacts, Params
<1>3. TypeOK'
  BY <1>1, <1>2 DEF TypeInv, TypeOK, Files
<1>4. Control'
  BY <1>1 DEF Control, Busy
<1>5. QED
  BY <1>3, <1>4 DEF TypeInv

\* Time passes.
LEMMA TypeInvTick == TypeInv /\ Tick => TypeInv'
<1> SUFFICES ASSUME TypeInv, Tick PROVE TypeInv'
  OBVIOUS
<1>1. /\ now < scenario.ticks /\ now' = now + 1
      /\ UNCHANGED <<scenario, disk, pc, cfg, index, fileSize, seedErr, err, size, l, gzIdx, doom,
                     nextMsg, written, stamp, restarts, faults, unreported>>
  BY DEF Tick, process, frame, history, failures
<1>2. now' \in 0..scenario.ticks
  BY <1>1, TypeFacts
<1>3. TypeOK'
  BY <1>1, <1>2 DEF TypeInv, TypeOK, Files
<1>4. Control'
  BY <1>1 DEF TypeInv, Control, Busy, Exists, liveFileName, src, dst, tmp
<1>5. QED
  BY <1>3, <1>4 DEF TypeInv

\* Nothing changes.
LEMMA TypeInvStutter == TypeInv /\ UNCHANGED vars => TypeInv'
<1> SUFFICES ASSUME TypeInv, UNCHANGED vars PROVE TypeInv'
  OBVIOUS
<1>1. UNCHANGED <<disk, pc, cfg, index, fileSize, seedErr, err, size, l, gzIdx, doom, nextMsg,
                  written, stamp, scenario, now, restarts, faults, unreported>>
  BY DEF vars, process, frame, history, bounds, elapsed, failures
<1>2. TypeOK'
  BY <1>1 DEF TypeInv, TypeOK, Files
<1>3. Control'
  BY <1>1 DEF TypeInv, Control, Busy, Exists, liveFileName, src, dst, tmp
<1>4. QED
  BY <1>2, <1>3 DEF TypeInv

\* Every step keeps the types.
LEMMA TypeInvStep == TypeInv /\ [Next]_vars => TypeInv'
BY TypeInvConstruct, TypeInvRemove, TypeInvConstructed, TypeInvOpen, TypeInvWriteBody,
   TypeInvWriteNewline, TypeInvRotateStable, TypeInvRotateIndexed, TypeInvGzip, TypeInvPrune,
   TypeInvPruned, TypeInvReturn, TypeInvCrash, TypeInvTick, TypeInvStutter
   DEF Next

\* The types hold, with what the program counter says of the folder.
LEMMA TypeInvAlways == Spec => []TypeInv
BY TypeInvInit, TypeInvStep, PTL DEF Spec

\* In every behaviour the folder and the closure's variables have their types.
THEOREM TypeCorrect == Spec => []TypeOK
<1>1. TypeInv => TypeOK
  BY DEF TypeInv
<1>2. QED
  BY <1>1, TypeInvAlways, PTL

-----------------------------------------------------------------------------
(* Failures are reported *)

\* Between Writes no error is pending but that of the construction.
Reported ==
    /\ FaultsReported
    /\ pc \in {"idle", "construct", "down"} => ~ err
    /\ pc = "down" => ~ unreported

\* Every step keeps it.
LEMMA ReportedStep == TypeInv /\ Reported /\ [Next]_vars => Reported'
<1> SUFFICES ASSUME TypeInv, Reported, [Next]_vars PROVE Reported'
  OBVIOUS
<1> USE DEF Reported, FaultsReported
<1>0. err \in BOOLEAN /\ seedErr \in BOOLEAN /\ unreported \in BOOLEAN
  BY DEF TypeInv, TypeOK
<1>1. CASE Construct
  <2>1. /\ pc = "down" /\ pc' = "construct" /\ err' = err /\ seedErr' \in BOOLEAN
        /\ unreported' = unreported \/ (unreported' = TRUE /\ seedErr' = TRUE)
    BY <1>1, ConstructFacts
  <2>2. QED
    BY <1>0, <2>1
<1>2. CASE Remove("construct") \/ Remove("remove")
  BY <1>2 DEF Remove, Fault, Faults, failures
<1>3. CASE Constructed
  BY <1>3 DEF Constructed, process, frame, bounds, failures
<1>4. CASE Open
  <2>1. CASE err' = seedErr /\ UNCHANGED failures /\ pc' = "body"
    BY <1>0, <1>4, <2>1 DEF Open, failures
  <2>2. CASE unreported' = FALSE /\ UNCHANGED <<pc, err>>
    BY <1>4, <2>2 DEF Open
  <2>3. QED
    BY <1>4, <2>1, <2>2 DEF Open
<1>5. CASE WriteBody
  BY <1>5 DEF WriteBody, process, Fault, Faults, failures
<1>6. CASE WriteNewline
  BY <1>6 DEF WriteNewline, Fault, Faults, failures
<1>7. CASE RotateStable
  BY <1>7 DEF RotateStable, Faults, Unnoticed
<1>8. CASE RotateIndexed
  BY <1>8 DEF RotateIndexed, Fault, Faults, failures
<1>9. CASE Gzip
  <2>1. /\ \/ UNCHANGED <<err, unreported>>
           \/ err' = TRUE
        /\ UNCHANGED seedErr /\ pc' \notin {"idle", "construct", "down"}
    BY <1>9 DEF Gzip, GzipCreate, GzipCopy, GzipRename, GzipStamp, GzipDrop, GzipFails, Step,
                process, failures
  <2>2. QED
    BY <2>1
<1>10. CASE Prune \/ Pruned
  BY <1>10 DEF Prune, Pruned, process, frame, bounds, failures, Unnoticed
<1>11. CASE Return
  BY <1>0, <1>11 DEF Return, process
<1>12. CASE Crash
  BY <1>12 DEF Crash
<1>13. CASE Tick
  BY <1>13 DEF Tick, process, frame, failures
<1>14. CASE UNCHANGED vars
  BY <1>14 DEF vars, process, frame, bounds, failures
<1>15. QED
  BY <1>1, <1>2, <1>3, <1>4, <1>5, <1>6, <1>7, <1>8, <1>9, <1>10, <1>11, <1>12, <1>13, <1>14
     DEF Next

\* Every error the handler is given is returned by the Write in progress, or, if the
\* handler was under construction, by the first Write: the closures lose none on the way,
\* in a blind scenario either, where directory reads and stats of backups may fail in
\* between whose errors the code drops and no Write returns.
THEOREM FailuresAreReported == Spec => []FaultsReported
<1>1. Init => Reported
  BY DEF Init, Reported, FaultsReported
<1>2. Reported => FaultsReported
  BY DEF Reported
<1>3. QED
  BY <1>1, <1>2, ReportedStep, TypeInvAlways, PTL DEF Spec

-----------------------------------------------------------------------------
(* What the steps do to the folder *)

\* A removal takes away at most the first file on the list, and does take it away
\* unless a file operation fails.
LEMMA RemoveFacts ==
    ASSUME TypeInv, NEW from \in {"construct", "remove"}, Remove(from)
    PROVE  /\ NextDoomed \in doom /\ NextDoomed \in Names /\ doom' = doom \ {NextDoomed}
           /\ pc = from /\ pc' = from /\ liveFileName' = liveFileName
           /\ UNCHANGED <<cfg, index, fileSize, size, l, gzIdx, nextMsg, written, stamp,
                          scenario, now, restarts>>
           /\ \A n \in Names \ {NextDoomed} : disk'[n] = disk[n]
           /\ disk'[NextDoomed] \in {disk[NextDoomed], Absent}
           /\ \/ disk'[NextDoomed] = Absent /\ UNCHANGED <<err, seedErr, faults>>
              \/ faults' = faults + 1 /\ faults' <= scenario.faults /\ UNCHANGED disk
<1>1. /\ pc = from /\ doom # {} /\ doom' = doom \ {NextDoomed} /\ pc' = from
      /\ UNCHANGED <<cfg, index, fileSize, size, l, gzIdx, nextMsg, written, stamp,
                     scenario, now, restarts>>
  BY DEF Remove, history, elapsed
<1>2. NextDoomed \in Names /\ NextDoomed \in doom
  BY <1>1, NextDoomedFirst
<1>3. disk \in [Names -> Files \cup {Absent}]
  BY DEF TypeInv, TypeOK
<1>4. CASE disk' = [disk EXCEPT ![NextDoomed] = Absent] /\ UNCHANGED <<err, seedErr, failures>>
  BY <1>1, <1>2, <1>3, <1>4 DEF liveFileName, failures
<1>5. CASE Fault /\ UNCHANGED disk
  BY <1>1, <1>2, <1>5 DEF liveFileName, Fault, Faults
<1>6. QED
  BY <1>4, <1>5 DEF Remove

\* Compression touches only the three files of its index; of these it leaves the
\* plaintext alone up to its last step, which may remove it.
LEMMA GzipFacts ==
    ASSUME TypeInv, Gzip
    PROVE  /\ Busy /\ (Busy' \/ pc' = "prune")
           /\ liveFileName' = liveFileName /\ src' = src /\ dst' = dst /\ tmp' = tmp
           /\ UNCHANGED <<cfg, index, fileSize, seedErr, size, l, gzIdx, doom, nextMsg, written,
                          stamp, scenario, now, restarts>>
           /\ \A n \in Names \ {src, dst, tmp} : disk'[n] = disk[n]
           /\ disk'[src] \in {disk[src], Absent}
           /\ pc # "gzdrop" => disk'[src] = disk[src]
           /\ pc = "gzdrop" => disk'[dst] = disk[dst]
<1>1. Busy /\ disk \in [Names -> Files \cup {Absent}]
  BY DEF TypeInv, TypeOK, Gzip, GzipCreate, GzipCopy, GzipRename, GzipStamp, GzipDrop, GzipFails,
         Step, Busy
<1>2. src \in Names /\ dst \in Names /\ tmp \in Names /\ src # dst /\ src # tmp /\ dst # tmp
  BY <1>1, GzNames
<1>3. /\ UNCHANGED <<cfg, index, fileSize, seedErr, size, l, gzIdx, doom, nextMsg, written,
                     stamp, scenario, now, restarts>>
      /\ Busy' \/ pc' = "prune"
  BY DEF Gzip, GzipCreate, GzipCopy, GzipRename, GzipStamp, GzipDrop, GzipFails,
         Step, Busy, process, history, elapsed
<1>4. CASE GzipCreate
  BY <1>1, <1>2, <1>3, <1>4 DEF GzipCreate, Step, liveFileName, src, dst, tmp
<1>5. ASSUME NEW from \in {"gzcopy", "gzrename"}, GzipFails(from)
      PROVE  /\ \A n \in Names \ {src, dst, tmp} : disk'[n] = disk[n]
             /\ disk'[src] = disk[src] /\ pc # "gzdrop"
  BY <1>1, <1>2, <1>5 DEF GzipFails, Step
<1>6. CASE GzipCopy
  BY <1>1, <1>2, <1>3, <1>5, <1>6 DEF GzipCopy, Step, liveFileName, src, dst, tmp
<1>7. CASE GzipRename
  BY <1>1, <1>2, <1>3, <1>5, <1>7 DEF GzipRename, Step, liveFileName, src, dst, tmp
<1>8. CASE GzipStamp
  BY <1>1, <1>2, <1>3, <1>8 DEF GzipStamp, Step, liveFileName, src, dst, tmp
<1>9. CASE GzipDrop
  BY <1>1, <1>2, <1>3, <1>9 DEF GzipDrop, Step, liveFileName, src, dst, tmp
<1>10. QED
  BY <1>4, <1>6, <1>7, <1>8, <1>9 DEF Gzip

\* What becomes of the .gz: it stays as it is until the complete temp is renamed to
\* it, and its content does not change after that.
LEMMA GzipTarget ==
    ASSUME TypeInv, Gzip
    PROVE  /\ pc \in {"gzip", "gzcopy", "gzdrop"} => disk'[dst] = disk[dst]
           /\ pc = "gzrename" => disk'[dst] \in {disk[dst], disk[tmp]}
           /\ pc = "gzstamp" => /\ disk'[dst].msgs = disk[dst].msgs
                                /\ disk'[dst].size = disk[dst].size
           /\ pc' \in {"gzcopy", "gzrename"} => pc \in {"gzip", "gzcopy"}
           /\ pc' = "gzrename" => disk'[tmp].msgs = disk[src].msgs
           /\ pc = "gzcopy" => \/ disk'[tmp] \in {disk[tmp], Absent}
                               \/ disk'[tmp].size = disk[src].size
           /\ pc = "gzip" => \/ disk'[tmp] = disk[tmp]
                             \/ disk'[tmp].size = 0
           /\ pc \in {"gzrename", "gzstamp", "gzdrop"} => disk'[tmp] \in {disk[tmp], Absent}
<1>1. Busy /\ disk \in [Names -> Files \cup {Absent}]
  BY DEF TypeInv, TypeOK, Gzip, GzipCreate, GzipCopy, GzipRename, GzipStamp, GzipDrop, GzipFails,
         Step, Busy
<1>2. /\ src \in Names /\ dst \in Names /\ tmp \in Names /\ src # dst /\ src # tmp /\ dst # tmp
      /\ disk[src] \in Files
  BY <1>1, GzNames
<1>3. CASE GzipCreate
  <2>1. CASE /\ Step("gzip", "gzcopy") /\ disk' = [disk EXCEPT ![tmp] = Empty]
    <3>1. disk'[dst] = disk[dst] /\ disk'[tmp] = Empty
      BY <1>1, <1>2, <2>1
    <3>2. QED
      BY <2>1, <3>1 DEF Step, Empty
  <2>2. CASE Step("gzip", "prune") /\ UNCHANGED disk
    BY <2>2 DEF Step
  <2>3. QED
    BY <1>3, <2>1, <2>2 DEF GzipCreate
<1>4. ASSUME NEW from \in {"gzcopy", "gzrename"}, GzipFails(from)
      PROVE  /\ pc = from /\ pc' = "prune" /\ disk'[dst] = disk[dst]
             /\ disk'[tmp] \in {disk[tmp], Absent}
  BY <1>1, <1>2, <1>4 DEF GzipFails, Step
<1>5. CASE GzipCopy
  <2>1. CASE /\ Step("gzcopy", "gzrename")
             /\ disk' = [disk EXCEPT ![tmp] = [disk[src] EXCEPT !.mtime = now]]
    <3> DEFINE f == [disk[src] EXCEPT !.mtime = now]
    <3>1. f.msgs = disk[src].msgs /\ f.size = disk[src].size
      BY <1>2 DEF Files
    <3> HIDE DEF f
    <3>2. disk' = [disk EXCEPT ![tmp] = f]
      BY <2>1 DEF f
    <3>3. disk'[dst] = disk[dst] /\ disk'[tmp] = f
      BY <1>1, <1>2, <3>2
    <3>4. QED
      BY <2>1, <3>1, <3>3 DEF Step
  <2>2. QED
    BY <1>4, <1>5, <2>1 DEF GzipCopy
<1>6. CASE GzipRename
  <2>1. CASE /\ Step("gzrename", "gzstamp")
             /\ disk' = [disk EXCEPT ![dst] = disk[tmp], ![tmp] = Absent]
    <3>1. disk'[dst] = disk[tmp] /\ disk'[tmp] = Absent
      BY <1>1, <1>2, <2>1
    <3>2. QED
      BY <2>1, <3>1 DEF Step
  <2>2. QED
    BY <1>4, <1>6, <2>1 DEF GzipRename
<1>7. CASE GzipStamp
  <2>1. Step("gzstamp", "gzdrop")
    BY <1>7 DEF GzipStamp
  <2> DEFINE f == [disk[dst] EXCEPT !.mtime = disk[src].mtime]
  <2>2. disk[dst] \in Files
    BY <1>1, <1>2, <2>1, TypeFacts DEF Step, TypeInv, Control
  <2>3. f.msgs = disk[dst].msgs /\ f.size = disk[dst].size
    BY <2>2 DEF Files
  <2>4. disk' = [disk EXCEPT ![dst] = f] \/ UNCHANGED disk
    BY <1>7 DEF GzipStamp
  <2> HIDE DEF f
  <2>5. disk'[dst] \in {f, disk[dst]} /\ disk'[tmp] = disk[tmp]
    BY <1>1, <1>2, <2>4
  <2>6. QED
    BY <2>1, <2>3, <2>5 DEF Step
<1>8. CASE GzipDrop
  <2>1. Step("gzdrop", "prune") /\ (disk' = [disk EXCEPT ![src] = Absent] \/ UNCHANGED disk)
    BY <1>8 DEF GzipDrop
  <2>2. disk'[dst] = disk[dst] /\ disk'[tmp] = disk[tmp]
    BY <1>1, <1>2, <2>1
  <2>3. QED
    BY <2>1, <2>2 DEF Step
<1>9. QED
  BY <1>3, <1>5, <1>6, <1>7, <1>8 DEF Gzip

\* A Write begins with a live file, which it creates empty if there is none.
LEMMA OpenFacts ==
    ASSUME TypeInv, Open
    PROVE  /\ pc = "idle" /\ liveFileName' = liveFileName /\ liveFileName \in Names
           /\ UNCHANGED <<cfg, index, fileSize, gzIdx, doom, nextMsg, written, stamp, scenario,
                          now, restarts>>
           /\ \A m \in Names : m # liveFileName \/ Exists(m) => disk'[m] = disk[m]
           /\ disk'[liveFileName] \in {disk[liveFileName], Empty}
           /\ \/ pc' = "body" /\ disk'[liveFileName] # Absent /\ UNCHANGED faults
                 /\ l' = 0 /\ size' \in Sizes
              \/ pc' = "idle" /\ UNCHANGED disk /\ faults' = faults + 1
                 /\ faults' <= scenario.faults
<1>0. /\ pc = "idle"
      /\ UNCHANGED <<cfg, index, fileSize, gzIdx, doom, nextMsg, written, stamp, scenario,
                     now, restarts>>
  BY DEF Open, history, elapsed
<1>1. disk \in [Names -> Files \cup {Absent}] /\ now \in 0..scenario.ticks
      /\ liveFileName \in Names /\ liveFileName' = liveFileName
      /\ faults \in Nat /\ scenario.faults \in Nat
  BY <1>0, TypeFacts DEF TypeInv, TypeOK, liveFileName
<1>2. CASE /\ \E s \in Sizes : size' = s
           /\ err' = seedErr /\ l' = 0
           /\ disk' = IF Exists(liveFileName) THEN disk
                      ELSE [disk EXCEPT ![liveFileName] = Empty]
           /\ pc' = "body"
           /\ UNCHANGED failures
  <2>1. Empty # Absent
    <3>1. Empty \in Files
      BY <1>1 DEF Empty, Files
    <3>2. QED
      BY <3>1, TypeFacts
  <2>2. /\ disk'[liveFileName] # Absent /\ disk'[liveFileName] \in {disk[liveFileName], Empty}
        /\ \A m \in Names : m # liveFileName \/ Exists(m) => disk'[m] = disk[m]
    <3>1. CASE Exists(liveFileName)
      BY <1>2, <3>1 DEF Exists
    <3>2. CASE ~ Exists(liveFileName)
      BY <1>1, <1>2, <2>1, <3>2 DEF Exists
    <3>3. QED
      BY <3>1, <3>2
  <2>3. QED
    BY <1>0, <1>1, <1>2, <2>2 DEF failures
<1>3. CASE /\ faults < scenario.faults /\ faults' = faults + 1 /\ unreported' = FALSE
           /\ UNCHANGED <<disk, pc, err, size, l>>
  BY <1>0, <1>1, <1>3
<1>4. QED
  BY <1>2, <1>3 DEF Open

\* The live file becomes a backup whose name is free, or seems to be, unless the rename
\* fails.
LEMMA RotateStableFacts ==
    ASSUME TypeInv, RotateStable
    PROVE  /\ pc = "rotate" /\ cfg.stable /\ fileSize' = 0 /\ disk[Live] # Absent
           /\ liveFileName = Live /\ liveFileName' = Live
           /\ UNCHANGED <<cfg, seedErr, size, l, doom, nextMsg, written, stamp, scenario, now,
                          restarts>>
           /\ \E i \in Indices, seen \in SUBSET Found :
                /\ i >= index /\ index' = i + 1 /\ ~ backupExists(i, cfg.compress, seen)
                /\ \A j \in index..(i - 1) : backupExists(j, cfg.compress, seen)
                /\ ~ scenario.blind \/ faults' = faults => seen = Found
                /\ \/ /\ disk'[Name("log", i)] = disk[Live] /\ disk'[Live] = Absent
                      /\ \A n \in Names : n \notin {Live, Name("log", i)} => disk'[n] = disk[n]
                      /\ pc' = IF cfg.compress THEN "gzip" ELSE "prune"
                      /\ gzIdx' = i /\ UNCHANGED err
                      /\ faults' = faults \/ (scenario.blind /\ faults' = faults + 1)
                      /\ faults' >= faults
                   \/ /\ pc' = "prune" /\ faults' > faults /\ faults' <= scenario.faults
                      /\ UNCHANGED <<disk, gzIdx>>
<1>1. /\ pc = "rotate" /\ cfg.stable /\ fileSize' = 0
      /\ UNCHANGED <<cfg, seedErr, size, l, doom, nextMsg, written, stamp, scenario, now, restarts>>
  BY DEF RotateStable, history, elapsed
<1>2. /\ liveFileName = Live /\ liveFileName' = Live /\ disk[Live] # Absent
      /\ disk \in [Names -> Files \cup {Absent}]
  BY <1>1 DEF TypeInv, Control, TypeOK, liveFileName, Exists
<1>3. PICK seen \in Sights, i \in Indices :
        /\ i >= index /\ ~ backupExists(i, cfg.compress, seen)
        /\ \A j \in index..(i - 1) : backupExists(j, cfg.compress, seen)
        /\ index' = i + 1
        /\ \/ /\ disk' = [disk EXCEPT ![Name("log", i)] = disk[Live], ![Live] = Absent]
              /\ pc' = IF cfg.compress THEN "gzip" ELSE "prune"
              /\ gzIdx' = i
              /\ Unnoticed(Missed(seen)) /\ UNCHANGED err
           \/ /\ Faults(1 + Missed(seen)) /\ err' = TRUE
              /\ pc' = "prune"
              /\ UNCHANGED <<disk, gzIdx>>
  BY DEF RotateStable
<1>a. /\ seen \in SUBSET Found /\ Missed(seen) \in {0, 1}
      /\ (~ scenario.blind \/ Missed(seen) = 0 => seen = Found)
      /\ faults \in Nat
      /\ ~ scenario.blind => Missed(seen) = 0
  BY SightFacts, TypeFacts DEF Missed
<1>4. CASE /\ disk' = [disk EXCEPT ![Name("log", i)] = disk[Live], ![Live] = Absent]
           /\ pc' = IF cfg.compress THEN "gzip" ELSE "prune"
           /\ gzIdx' = i
           /\ Unnoticed(Missed(seen)) /\ UNCHANGED err
  <2>1. Name("log", i) \in Names /\ Live \in Names /\ Name("log", i) # Live
    BY NameFields
  <2>2. /\ disk'[Name("log", i)] = disk[Live] /\ disk'[Live] = Absent
        /\ \A n \in Names : n \notin {Live, Name("log", i)} => disk'[n] = disk[n]
    BY <1>2, <1>4, <2>1
  <2>3. faults' = faults + Missed(seen)
    BY <1>4 DEF Unnoticed
  <2>4. /\ ~ scenario.blind \/ faults' = faults => seen = Found
        /\ faults' = faults \/ (scenario.blind /\ faults' = faults + 1)
        /\ faults' >= faults
    BY <1>a, <2>3
  <2>5. QED
    BY <1>1, <1>2, <1>3, <1>4, <1>a, <2>2, <2>4
<1>5. CASE Faults(1 + Missed(seen)) /\ err' = TRUE /\ pc' = "prune" /\ UNCHANGED <<disk, gzIdx>>
  <2>1. faults' = faults + 1 + Missed(seen) /\ faults' <= scenario.faults
    BY <1>5, <1>a DEF Faults
  <2>2. faults' > faults /\ (~ scenario.blind \/ faults' = faults => seen = Found)
    BY <1>a, <2>1
  <2>3. QED
    BY <1>1, <1>2, <1>3, <1>5, <1>a, <2>1, <2>2
<1>6. QED
  BY <1>3, <1>4, <1>5

\* With a stable name a backup is overwritten only by a handler that misses it.
LEMMA RotateStableSeen ==
    ASSUME TypeInv, RotateStable, ~ scenario.blind \/ faults' = faults
    PROVE  \E i \in Indices :
             /\ i >= index /\ index' = i + 1 /\ ~ backupExists(i, cfg.compress, Found)
             /\ \A j \in index..(i - 1) : backupExists(j, cfg.compress, Found)
             /\ \/ /\ disk'[Name("log", i)] = disk[Live] /\ disk'[Live] = Absent
                   /\ \A n \in Names : n \notin {Live, Name("log", i)} => disk'[n] = disk[n]
                   /\ pc' = IF cfg.compress THEN "gzip" ELSE "prune"
                   /\ gzIdx' = i /\ UNCHANGED <<err, faults>>
                \/ /\ pc' = "prune" /\ faults' > faults /\ faults' <= scenario.faults
                   /\ UNCHANGED <<disk, gzIdx>>
BY RotateStableFacts

\* An append leaves every other file alone.
LEMMA GrownElsewhere ==
    ASSUME TypeInv, NEW n \in Names, Exists(n), NEW ms \in SUBSET (1..MaxMsgs), NEW b \in Nat,
           disk' = Grown(n, ms, b)
    PROVE  /\ \A m \in Names \ {n} : disk'[m] = disk[m]
           /\ disk'[n] # Absent
           /\ disk'[n].msgs = disk[n].msgs \cup ms
           /\ disk'[n].size = disk[n].size + b
           /\ disk'[n].mtime = now
<1>1. /\ Grown(n, ms, b)[n] = [msgs |-> disk[n].msgs \cup ms,
                              size |-> disk[n].size + b, mtime |-> now]
      /\ Grown(n, ms, b)[n] # Absent
  BY GrownFacts
<1>2. \A m \in Names : m # n => Grown(n, ms, b)[m] = disk[m]
  BY GrownFacts
<1>3. QED
  BY <1>1, <1>2

\* The body of a message reaches the live file, as a whole or, if the write fails,
\* up to a byte short of it.
LEMMA WriteBodyFacts ==
    ASSUME TypeInv, WriteBody
    PROVE  /\ pc = "body" /\ pc' = "newline" /\ nextMsg' = nextMsg + 1
           /\ nextMsg \in 1..MaxMsgs /\ size \in Sizes
           /\ Exists(liveFileName) /\ liveFileName \in Names /\ liveFileName' = liveFileName
           /\ UNCHANGED <<cfg, index, fileSize, seedErr, size, gzIdx, doom, scenario, now, restarts>>
           /\ \A m \in Names \ {liveFileName} : disk'[m] = disk[m]
           /\ disk'[liveFileName] # Absent
           /\ \/ /\ disk'[liveFileName].msgs = disk[liveFileName].msgs \cup {nextMsg}
                 /\ disk'[liveFileName].size = disk[liveFileName].size + (size - 1)
                 /\ l' = size - 1 /\ written' = written \cup {nextMsg}
                 /\ UNCHANGED <<err, faults>>
              \/ /\ disk'[liveFileName].msgs = disk[liveFileName].msgs
                 /\ \E k \in 0..(size - 2) :
                        disk'[liveFileName].size = disk[liveFileName].size + k
                 /\ faults' = faults + 1 /\ faults' <= scenario.faults
                 /\ UNCHANGED <<l, written>>
<1>1. /\ pc = "body" /\ pc' = "newline" /\ nextMsg' = nextMsg + 1
      /\ UNCHANGED <<cfg, index, fileSize, seedErr, size, gzIdx, doom, scenario, now, restarts>>
  BY DEF WriteBody, process, elapsed
<1>2. /\ Exists(liveFileName) /\ liveFileName \in Names /\ liveFileName' = liveFileName
      /\ size \in Sizes /\ nextMsg <= scenario.msgs
  BY <1>1, TypeFacts DEF TypeInv, Control, liveFileName
<1>3. /\ nextMsg \in 1..MaxMsgs /\ size - 1 \in Nat /\ 0..(size - 2) \subseteq Nat
      /\ {nextMsg} \in SUBSET (1..MaxMsgs) /\ {} \in SUBSET (1..MaxMsgs)
  BY <1>2, TypeFacts, Params
<1>4. CASE /\ disk' = Grown(liveFileName, {nextMsg}, size - 1)
           /\ l' = size - 1
           /\ written' = written \cup {nextMsg}
           /\ UNCHANGED <<err, failures>>
  <2>1. /\ \A m \in Names \ {liveFileName} : disk'[m] = disk[m]
        /\ disk'[liveFileName] # Absent
        /\ disk'[liveFileName].msgs = disk[liveFileName].msgs \cup {nextMsg}
        /\ disk'[liveFileName].size = disk[liveFileName].size + (size - 1)
    BY <1>2, <1>3, <1>4, GrownElsewhere
  <2>2. QED
    BY <1>1, <1>2, <1>3, <1>4, <2>1 DEF failures
<1>5. CASE /\ Fault /\ err' = TRUE
           /\ \E k \in 0..(size - 2) : disk' = Grown(liveFileName, {}, k)
           /\ UNCHANGED <<l, written>>
  <2>1. PICK k \in 0..(size - 2) : disk' = Grown(liveFileName, {}, k)
    BY <1>5
  <2>2. /\ \A m \in Names \ {liveFileName} : disk'[m] = disk[m]
        /\ disk'[liveFileName] # Absent
        /\ disk'[liveFileName].msgs = disk[liveFileName].msgs \cup {}
        /\ disk'[liveFileName].size = disk[liveFileName].size + k
    BY <1>2, <1>3, <2>1, GrownElsewhere
  <2>3. faults' = faults + 1 /\ faults' <= scenario.faults
    BY <1>5 DEF Fault, Faults
  <2>4. QED
    BY <1>1, <1>2, <1>3, <1>5, <2>2, <2>3
<1>6. QED
  BY <1>4, <1>5 DEF WriteBody

\* The newline reaches the live file and is counted, or it is neither.
LEMMA WriteNewlineFacts ==
    ASSUME TypeInv, WriteNewline
    PROVE  /\ pc = "newline" /\ pc' \in {"rotate", "return"} /\ fileSize' = fileSize + l'
           /\ pc' = IF fileSize' > MaxFileSize THEN "rotate" ELSE "return"
           /\ size \in Sizes
           /\ Exists(liveFileName) /\ liveFileName \in Names /\ liveFileName' = liveFileName
           /\ UNCHANGED <<cfg, index, seedErr, size, gzIdx, doom, nextMsg, written, stamp,
                          scenario, now, restarts>>
           /\ \A m \in Names \ {liveFileName} : disk'[m] = disk[m]
           /\ disk'[liveFileName] # Absent
           /\ disk'[liveFileName].msgs = disk[liveFileName].msgs
           /\ \/ /\ disk'[liveFileName].size = disk[liveFileName].size + 1 /\ l' = l + 1
                 /\ faults' >= faults
              \/ /\ faults' > faults /\ faults' <= scenario.faults
                 /\ UNCHANGED <<disk, l>>
<1>1. /\ pc = "newline" /\ pc' \in {"rotate", "return"} /\ fileSize' = fileSize + l'
      /\ pc' = IF fileSize' > MaxFileSize THEN "rotate" ELSE "return"
      /\ UNCHANGED <<cfg, index, seedErr, size, gzIdx, doom, nextMsg, written, stamp,
                     scenario, now, restarts>>
  BY DEF WriteNewline, history, elapsed
<1>2. /\ Exists(liveFileName) /\ liveFileName \in Names /\ liveFileName' = liveFileName
      /\ size \in Sizes
  BY <1>1, TypeFacts DEF TypeInv, Control, liveFileName
<1>3. CASE disk' = Grown(liveFileName, {}, 1) /\ l' = l + 1
           /\ (UNCHANGED <<err, failures>> \/ (Fault /\ err' = TRUE))
  <2>a. faults' >= faults
    BY <1>3, FaultTypes, TypeFacts DEF failures, Fault
  <2>1. {} \in SUBSET (1..MaxMsgs) /\ 1 \in Nat
    OBVIOUS
  <2>2. /\ \A m \in Names \ {liveFileName} : disk'[m] = disk[m]
        /\ disk'[liveFileName] # Absent
        /\ disk'[liveFileName].msgs = disk[liveFileName].msgs \cup {}
        /\ disk'[liveFileName].size = disk[liveFileName].size + 1
    BY <1>2, <1>3, <2>1, GrownElsewhere
  <2>3. QED
    BY <1>1, <1>2, <1>3, <2>2, <2>a
<1>4. CASE (Fault \/ Faults(2)) /\ err' = TRUE /\ UNCHANGED <<disk, l>>
  <2>1. faults' > faults /\ faults' <= scenario.faults
    BY <1>4, FaultTypes, TypeFacts DEF Fault, Faults
  <2>2. QED
    BY <1>1, <1>2, <1>4, <2>1 DEF Exists
<1>5. QED
  BY <1>3, <1>4 DEF WriteNewline

\* Failures are only ever added.
LEMMA FaultsGrow ==
    ASSUME TypeInv, [Next]_vars
    PROVE  faults' \in Nat /\ faults' >= faults
<1>1. faults \in Nat
  BY TypeFacts
<1>2. CASE Construct \/ Prune \/ RotateStable \/ WriteNewline
  <2>1. faults' \in Nat
    BY TypeInvStep DEF TypeInv, TypeOK
  <2>2. CASE Construct
    BY <2>1, <2>2, ConstructFacts
  <2>3. CASE Prune
    BY <2>1, <2>3, PruneFacts
  <2>4. CASE RotateStable
    BY <1>1, <2>1, <2>4, RotateStableFacts
  <2>5. CASE WriteNewline
    BY <1>1, <2>1, <2>5, WriteNewlineFacts
  <2>6. QED
    BY <1>2, <2>2, <2>3, <2>4, <2>5
<1>3. CASE ~ (Construct \/ Prune \/ RotateStable \/ WriteNewline)
  <2>1. \/ UNCHANGED faults
        \/ faults' = faults + 1
        \/ faults' = faults + 2
    BY <1>3 DEF Next, Remove, Constructed, Open, WriteBody, RotateIndexed, Gzip, GzipCreate,
       GzipCopy, GzipRename, GzipStamp, GzipDrop, GzipFails, Pruned, Return, Crash, Tick, Fault,
       Faults, failures, bounds, vars
  <2>2. QED
    BY <1>1, <2>1
<1>4. QED
  BY <1>2, <1>3

-----------------------------------------------------------------------------
(* The size counter *)

\* While no operation has failed: there is no indexed file beyond the live one but
\* those a fresh start is removing; the counter is the size of the live file,
\* which is to be removed or new while it is rotated away.
SizeInv ==
    faults = 0 =>
        /\ pc # "down" /\ ~ cfg.stable =>
               \A i \in Indices : i > index /\ Exists(Name("log", i))
                   => pc = "construct" /\ Name("log", i) \in doom
        /\ pc = "construct" =>
               fileSize = IF liveFileName \in doom THEN 0 ELSE SizeOf(liveFileName)
        /\ pc \in {"idle", "body", "rotate", "return"} => fileSize = SizeOf(liveFileName)
        /\ pc = "newline" => fileSize + l = SizeOf(liveFileName)
        /\ Busy \/ pc \in {"prune", "remove"} => ~ Exists(liveFileName) /\ fileSize = 0

\* Resuming finds no indexed file beyond the one it resumes, and does not discard it.
LEMMA ResumeFacts ==
    ASSUME TypeInv, NEW c \in Options, ResumeIndex(c, Found) <= MaxIndex
    PROVE  /\ \A i \in Indices : Exists(Name("log", i)) => i <= ResumeIndex(c, Found)
           /\ c.compress /\ ~ c.stable =>
                  \A i \in Indices : Exists(Name("gz", i)) => i < ResumeIndex(c, Found)
           /\ Live \notin ReconcileDoom(c, Found)
           /\ ~ c.stable => Name("log", ResumeIndex(c, Found)) \notin ReconcileDoom(c, Found)
<1> DEFINE found == {n.idx : n \in Rotated(c.compress, Found)}
<1>1. \A i \in Indices : Exists(Name("log", i)) => i \in found
  <2> SUFFICES ASSUME NEW i \in Indices, Exists(Name("log", i)) PROVE i \in found
    OBVIOUS
  <2>1. Name("log", i) \in Rotated(c.compress, Found) /\ Name("log", i).idx = i
    BY NameFields DEF Rotated, Listed, Found
  <2>2. QED
    BY <2>1
<1>2. c.compress => \A i \in Indices : Exists(Name("gz", i)) => i \in found
  <2> SUFFICES ASSUME c.compress, NEW i \in Indices, Exists(Name("gz", i)) PROVE i \in found
    OBVIOUS
  <2>1. Name("gz", i) \in Rotated(c.compress, Found) /\ Name("gz", i).idx = i
    BY NameFields DEF Rotated, Listed, Found
  <2>2. QED
    BY <2>1
<1>3. \A i \in Indices : Exists(Name("log", i)) => i <= ResumeIndex(c, Found)
  BY <1>1, ResumeIndexFacts
<1>4. ASSUME c.compress, ~ c.stable, NEW i \in Indices, Exists(Name("gz", i))
      PROVE  i < ResumeIndex(c, Found)
  <2>1. i \in found /\ found # {}
    BY <1>2, <1>4
  <2>2. Max(found) \in found /\ i <= Max(found) /\ found \subseteq Indices
    BY <2>1, ResumeIndexFacts
  <2>3. Max(found) \in Nat /\ i \in Nat
    BY <2>2, NameFields
  <2>4. ResumeIndex(c, Found) = IF Exists(Name("gz", Max(found))) THEN Max(found) + 1 ELSE Max(found)
    <3>1. Name("gz", Max(found)) \in Names
      BY <2>2, NameFields
    <3>2. Name("gz", Max(found)) \in Found <=> Exists(Name("gz", Max(found)))
      BY <3>1 DEF Found
    <3>3. QED
      BY <1>4, <2>1, <3>2 DEF ResumeIndex
  <2> HIDE DEF found
  <2>5. CASE i = Max(found)
    <3>1. ResumeIndex(c, Found) = Max(found) + 1
      BY <1>4, <2>4, <2>5
    <3>2. QED
      BY <2>3, <2>5, <3>1
  <2>6. CASE i < Max(found)
    BY <2>3, <2>4, <2>6
  <2>7. QED
    BY <2>2, <2>3, <2>5, <2>6
<1>5. Live \notin ReconcileDoom(c, Found)
  BY NameFields DEF ReconcileDoom, Listed, Found
<1>6. ASSUME ~ c.stable, Name("log", ResumeIndex(c, Found)) \in ReconcileDoom(c, Found) PROVE FALSE
  <2>1. c.compress /\ Exists(Name("gz", ResumeIndex(c, Found))) /\ ResumeIndex(c, Found) \in Indices
    <3>1. c.compress /\ Name("log", ResumeIndex(c, Found)) \in Names
          /\ Exists(Name("gz", Name("log", ResumeIndex(c, Found)).idx))
      BY <1>6, NameFields DEF ReconcileDoom, Listed, Found
    <3>2. QED
      BY <3>1, NameFields
  <2>2. ResumeIndex(c, Found) < ResumeIndex(c, Found) /\ ResumeIndex(c, Found) \in Nat
    BY <1>4, <1>6, <2>1, NameFields
  <2>3. QED
    BY <2>2
<1>7. QED
  BY <1>3, <1>4, <1>5, <1>6

\* A constructor that resumes, or starts afresh.
LEMMA SizeInvConstruct == TypeInv /\ Construct /\ faults' = faults => SizeInv'
<1> SUFFICES ASSUME TypeInv, Construct, faults' = faults PROVE SizeInv'
  OBVIOUS
<1>1. disk' = disk /\ pc' = "construct"
  BY DEF Construct
<1>2. PICK c \in scenario.configs :
          /\ cfg' = c
          /\ IF c.fresh
             THEN index' = 1 /\ fileSize' = 0 /\ doom' = ResetDoom(c, Found) /\ written' = {}
             ELSE /\ index' = ResumeIndex(c, Found) /\ fileSize' = ResumeSize(c, Found)
                  /\ doom' = ReconcileDoom(c, Found) /\ UNCHANGED written
          /\ index' <= MaxIndex
  BY ConstructSeen
<1>c. c \in Options
  BY TypeFacts
<1>3. liveFileName' = IF c.stable THEN Live ELSE Name("log", index')
  BY <1>2 DEF liveFileName
<1>4. \A n : Exists(n)' = Exists(n) /\ SizeOf(n)' = SizeOf(n)
  BY <1>1 DEF Exists, SizeOf
<1>5. CASE c.fresh
  <2>1. \A i \in Indices : Exists(Name("log", i)) => Name("log", i) \in doom'
    BY <1>2, <1>5, NameFields DEF ResetDoom, Rotated, Listed, Found
  <2>2. liveFileName' \in doom' \/ SizeOf(liveFileName') = 0
    <3>1. CASE c.stable
      BY <1>2, <1>3, <1>5, <3>1, NameFields DEF ResetDoom, Found, SizeOf
    <3>2. CASE ~ c.stable
      <4>1. liveFileName' = Name("log", 1) /\ 1 \in Indices
        BY <1>2, <1>3, <1>5, <3>2, Params DEF Indices
      <4>2. QED
        BY <2>1, <4>1 DEF SizeOf
    <3>3. QED
      BY <3>1, <3>2
  <2>3. fileSize' = IF liveFileName' \in doom' THEN 0 ELSE SizeOf(liveFileName')
    BY <1>2, <1>5, <2>2
  <2>4. QED
    BY <1>1, <2>1, <2>3 DEF SizeInv, Busy, Exists, SizeOf
<1>6. CASE ~ c.fresh
  <2>1. index' = ResumeIndex(c, Found) /\ doom' = ReconcileDoom(c, Found) /\ ResumeIndex(c, Found) <= MaxIndex
    BY <1>2, <1>6
  <2>2. liveFileName' \notin doom'
    BY <1>c, <1>3, <2>1, ResumeFacts
  <2>3. fileSize' = SizeOf(liveFileName')
    <3>1. index' \in Indices
      BY <1>c, <1>2, <2>1, ResumeIndexFacts, Params DEF Indices
    <3>2. liveFileName' \in Names /\ liveFileName' = ResumeFile(c, Found)
      BY <1>3, <2>1, <3>1, NameFields DEF ResumeFile
    <3>3. ResumeFile(c, Found) \notin Found => SizeOf(ResumeFile(c, Found)) = 0
      BY <3>2 DEF Found, SizeOf
    <3>4. QED
      BY <1>2, <1>4, <1>6, <3>2, <3>3 DEF ResumeSize
  <2>4. \A i \in Indices : Exists(Name("log", i)) => i \in Nat /\ index' \in Nat /\ i <= index'
    BY <1>c, <2>1, ResumeFacts, ResumeIndexFacts, NameFields
  <2>5. \A i \in Indices : Exists(Name("log", i)) => ~ (i > index')
    BY <2>4
  <2>6. QED
    BY <1>1, <2>2, <2>3, <2>5 DEF SizeInv, Busy, Exists, SizeOf
<1>7. QED
  BY <1>5, <1>6

\* The first half of every step's proof: nothing is claimed after a failure.
LEMMA SizeInvHypothesis ==
    ASSUME TypeInv, SizeInv, [Next]_vars, faults' = 0
    PROVE  /\ faults = 0
           /\ pc # "down" /\ ~ cfg.stable =>
                  \A i \in Indices : i > index /\ Exists(Name("log", i))
                      => pc = "construct" /\ Name("log", i) \in doom
           /\ pc = "construct" =>
                  fileSize = IF liveFileName \in doom THEN 0 ELSE SizeOf(liveFileName)
           /\ pc \in {"idle", "body", "rotate", "return"} => fileSize = SizeOf(liveFileName)
           /\ pc = "newline" => fileSize + l = SizeOf(liveFileName)
           /\ Busy \/ pc \in {"prune", "remove"} => ~ Exists(liveFileName) /\ fileSize = 0
<1>1. faults = 0
  <2>1. faults \in Nat /\ 0 >= faults
    BY FaultsGrow, TypeFacts
  <2>2. QED
    BY <2>1
<1>2. QED
  BY <1>1 DEF SizeInv

\* Every step keeps the counter exact.
LEMMA SizeInvStep == TypeInv /\ SizeInv /\ [Next]_vars => SizeInv'
<1> SUFFICES ASSUME TypeInv, SizeInv, [Next]_vars, faults' = 0 PROVE SizeInv'
  BY DEF SizeInv
<1> USE SizeInvHypothesis
<1>0. disk \in [Names -> Files \cup {Absent}]
  BY DEF TypeInv, TypeOK
<1>1. CASE Construct
  <2>1. faults' = faults
    BY SizeInvHypothesis
  <2>2. QED
    BY <1>1, <2>1, SizeInvConstruct
<1>2. ASSUME NEW from \in {"construct", "remove"}, Remove(from) PROVE SizeInv'
  <2>1. disk'[NextDoomed] = Absent
    <3>1. CASE faults' = faults + 1
      BY <3>1
    <3>2. CASE disk'[NextDoomed] = Absent
      BY <3>2
    <3>3. QED
      BY <1>2, <3>1, <3>2, RemoveFacts
  <2>2. /\ NextDoomed \in doom /\ NextDoomed \in Names /\ doom' = doom \ {NextDoomed}
        /\ pc = from /\ pc' = from /\ liveFileName' = liveFileName /\ liveFileName \in Names
        /\ UNCHANGED <<cfg, index, fileSize>>
        /\ \A n \in Names \ {NextDoomed} : disk'[n] = disk[n]
    BY <1>2, RemoveFacts, TypeFacts
  <2>3. \A i \in Indices : Exists(Name("log", i))' =>
            Exists(Name("log", i)) /\ Name("log", i) # NextDoomed
    BY <2>1, <2>2, NameFields DEF Exists
  <2>4. pc = "remove" => ~ Exists(liveFileName)'
    BY <2>1, <2>2 DEF Exists
  <2>5. pc = "construct" =>
            fileSize' = IF liveFileName' \in doom' THEN 0 ELSE SizeOf(liveFileName)'
    BY <2>1, <2>2 DEF Exists, SizeOf
  <2>6. QED
    BY <2>2, <2>3, <2>4, <2>5 DEF SizeInv, Busy
<1>3. CASE Constructed
  <2>1. /\ pc = "construct" /\ pc' = "idle" /\ doom = {} /\ UNCHANGED <<disk, cfg, index, fileSize>>
    BY <1>3 DEF Constructed, process
  <2>2. QED
    BY <2>1 DEF SizeInv, Busy, Exists, SizeOf, liveFileName
<1>4. CASE Open
  <2>1. pc = "idle" /\ UNCHANGED <<cfg, index, fileSize>>
    BY <1>4 DEF Open
  <2>2. /\ pc' = "body"
        /\ disk' = IF Exists(liveFileName) THEN disk ELSE [disk EXCEPT ![liveFileName] = Empty]
    <3>1. CASE faults' = faults + 1
      BY <3>1
    <3>2. QED
      BY <1>4, <3>1 DEF Open
  <2>3. liveFileName' = liveFileName /\ liveFileName \in Names
    BY <2>1, TypeFacts DEF liveFileName
  <2>4. SizeOf(liveFileName)' = SizeOf(liveFileName)
    BY <1>0, <2>2, <2>3 DEF SizeOf, Exists, Empty
  <2>5. \A i \in Indices : ~ cfg.stable /\ Exists(Name("log", i))' /\ i # index
            => Exists(Name("log", i))
    BY <1>0, <2>2, <2>3, NameFields DEF Exists, liveFileName, Name
  <2>6. \A i \in Indices : i > index => i # index
    BY NameFields, TypeFacts
  <2>7. QED
    BY <2>1, <2>2, <2>4, <2>5, <2>6 DEF SizeInv, Busy
<1>5. CASE WriteBody
  <2>1. /\ pc = "body" /\ pc' = "newline" /\ UNCHANGED <<cfg, index, fileSize>>
        /\ Exists(liveFileName) /\ liveFileName \in Names /\ liveFileName' = liveFileName
        /\ disk'[liveFileName] # Absent
        /\ disk'[liveFileName].size = disk[liveFileName].size + (size - 1) /\ l' = size - 1
    <3>1. CASE faults' = faults + 1
      BY <3>1
    <3>2. QED
      BY <1>5, <3>1, WriteBodyFacts
  <2>2. \A i \in Indices : Exists(Name("log", i))' => Exists(Name("log", i))
    <3>1. \A m \in Names \ {liveFileName} : disk'[m] = disk[m]
      BY <1>5, WriteBodyFacts
    <3>2. QED
      BY <2>1, <3>1, NameFields DEF Exists
  <2>3. fileSize' + l' = SizeOf(liveFileName)'
    <3>1. fileSize = disk[liveFileName].size
      BY <2>1 DEF SizeOf
    <3>2. SizeOf(liveFileName)' = disk[liveFileName].size + (size - 1)
      BY <2>1 DEF SizeOf, Exists
    <3>3. QED
      BY <2>1, <3>1, <3>2
  <2>4. QED
    BY <2>1, <2>2, <2>3 DEF SizeInv, Busy
<1>6. CASE WriteNewline
  <2>1. /\ pc = "newline" /\ pc' \in {"rotate", "return"} /\ UNCHANGED <<cfg, index>>
        /\ fileSize' = fileSize + l'
        /\ Exists(liveFileName) /\ liveFileName \in Names /\ liveFileName' = liveFileName
        /\ disk'[liveFileName] # Absent
        /\ disk'[liveFileName].size = disk[liveFileName].size + 1 /\ l' = l + 1
    <3>1. CASE faults' > faults
      BY <3>1
    <3>2. QED
      BY <1>6, <3>1, WriteNewlineFacts
  <2>2. \A i \in Indices : Exists(Name("log", i))' => Exists(Name("log", i))
    <3>1. \A m \in Names \ {liveFileName} : disk'[m] = disk[m]
      BY <1>6, WriteNewlineFacts
    <3>2. QED
      BY <2>1, <3>1, NameFields DEF Exists
  <2>3. fileSize' = SizeOf(liveFileName)'
    <3>1. fileSize + l = disk[liveFileName].size
      BY <2>1 DEF SizeOf
    <3>2. SizeOf(liveFileName)' = disk[liveFileName].size + 1
      BY <2>1 DEF SizeOf, Exists
    <3>3. fileSize \in Nat /\ l \in Nat
      BY DEF TypeInv, TypeOK
    <3>4. fileSize + (l + 1) = (fileSize + l) + 1
      BY <3>3
    <3>5. QED
      BY <2>1, <3>1, <3>2, <3>4
  <2>4. QED
    BY <2>1, <2>2, <2>3 DEF SizeInv, Busy
<1>7. CASE RotateStable
  <2>1. /\ pc = "rotate" /\ cfg.stable /\ cfg' = cfg /\ fileSize' = 0
    BY <1>7 DEF RotateStable
  <2>2. faults' = faults /\ ~ (faults' > faults)
    BY SizeInvHypothesis
  <2>3. /\ liveFileName' = Live /\ disk'[Live] = Absent
        /\ pc' = IF cfg.compress THEN "gzip" ELSE "prune"
    BY <1>7, <2>2, RotateStableFacts, RotateStableSeen
  <2>4. QED
    BY <2>1, <2>2, <2>3 DEF SizeInv, Busy, Exists
<1>8. CASE RotateIndexed
  <2>1. /\ pc = "rotate" /\ ~ cfg.stable /\ index < MaxIndex /\ index' = index + 1
        /\ fileSize' = SizeOf(Name("log", index')) /\ UNCHANGED <<disk, cfg>>
        /\ pc' \in {"gzip", "prune"}
    <3>1. CASE Fault
      BY <3>1 DEF Fault, Faults
    <3>2. QED
      BY <1>8, <3>1 DEF RotateIndexed
  <2>2. index + 1 \in Indices /\ index + 1 > index
    BY <2>1, TypeFacts, Params DEF Indices
  <2>3. ~ Exists(Name("log", index + 1)) /\ liveFileName' = Name("log", index + 1)
    BY <2>1, <2>2 DEF liveFileName
  <2>4. \A i \in Indices : i > index + 1 => i > index
    BY NameFields, TypeFacts
  <2>5. QED
    BY <2>1, <2>3, <2>4 DEF SizeInv, Busy, Exists, SizeOf
<1>9. CASE Gzip
  <2>1. /\ Busy /\ (Busy' \/ pc' = "prune")
        /\ liveFileName' = liveFileName /\ UNCHANGED <<cfg, index, fileSize>>
        /\ \A n \in Names \ {src, dst, tmp} : disk'[n] = disk[n]
        /\ disk'[src] \in {disk[src], Absent}
    BY <1>9, GzipFacts
  <2>2. \A n \in Names : n.kind \in {"log", "live"} => n \notin {dst, tmp}
    BY NameFields DEF dst, tmp
  <2>3. \A n \in Names : n.kind \in {"log", "live"} /\ Exists(n)' => Exists(n)
    BY <2>1, <2>2 DEF Exists
  <2>4. liveFileName.kind \in {"log", "live"} /\ liveFileName \in Names
    <3>1. pc # "down"
      BY <2>1 DEF Busy
    <3>2. liveFileName \in Names
      BY <3>1, TypeFacts
    <3>3. liveFileName.kind \in {"log", "live"}
      BY NameFields DEF liveFileName
    <3>4. QED
      BY <3>2, <3>3
  <2>5. ~ Exists(liveFileName)' /\ fileSize' = 0
    <3>1. ~ Exists(liveFileName) /\ fileSize = 0
      BY <2>1
    <3>2. disk'[liveFileName] = Absent
      BY <2>3, <2>4, <3>1 DEF Exists
    <3>3. QED
      BY <2>1, <3>1, <3>2 DEF Exists
  <2>6. \A i \in Indices : Exists(Name("log", i))' => Exists(Name("log", i))
    BY <2>3, NameFields
  <2>7. pc # "construct" /\ pc # "down"
        /\ pc' \notin {"construct", "idle", "body", "rotate", "return", "newline"}
    BY <2>1 DEF Busy
  <2>8. ~ cfg.stable => \A i \in Indices : i > index => ~ Exists(Name("log", i))
    BY <2>7
  <2>9. QED
    BY <2>1, <2>5, <2>6, <2>7, <2>8 DEF SizeInv
<1>10. CASE Prune
  <2>1. /\ pc = "prune" /\ pc' = "remove" /\ UNCHANGED <<disk, cfg, index, fileSize>>
    BY <1>10 DEF Prune, process
  <2>2. QED
    BY <2>1 DEF SizeInv, Busy, Exists, SizeOf, liveFileName
<1>11. CASE Pruned
  <2>1. /\ pc = "remove" /\ pc' = "return" /\ UNCHANGED <<disk, cfg, index, fileSize>>
    BY <1>11 DEF Pruned, process
  <2>2. QED
    BY <2>1 DEF SizeInv, Busy, Exists, SizeOf, liveFileName
<1>12. CASE Return
  <2>1. /\ pc = "return" /\ pc' = "idle" /\ UNCHANGED <<disk, cfg, index, fileSize>>
    BY <1>12 DEF Return, process
  <2>2. QED
    BY <2>1 DEF SizeInv, Busy, Exists, SizeOf, liveFileName
<1>13. CASE Crash
  BY <1>13 DEF Crash, SizeInv, Busy
<1>14. CASE Tick \/ UNCHANGED vars
  <2>1. UNCHANGED <<disk, pc, cfg, index, fileSize, l, doom>>
    BY <1>14 DEF Tick, vars, process, frame
  <2>2. QED
    BY <2>1 DEF SizeInv, Busy, Exists, SizeOf, liveFileName
<1>15. QED
  BY <1>1, <1>2, <1>3, <1>4, <1>5, <1>6, <1>7, <1>8, <1>9, <1>10, <1>11, <1>12, <1>13, <1>14
     DEF Next

\* As long as no file operation fails, the counter by which the handler decides to
\* rotate is the size of the file it will write to, whether that file was created,
\* resumed by a later process, or rotated into.
THEOREM CounterIsExact == Spec => []SizeCounterExact
<1>1. Init => SizeInv
  BY DEF Init, SizeInv, Busy
<1>2. SizeInv => SizeCounterExact
  BY DEF SizeInv, SizeCounterExact
<1>3. QED
  BY <1>1, <1>2, SizeInvStep, TypeInvAlways, PTL DEF Spec

-----------------------------------------------------------------------------
(* Compressed backups *)

\* CleanFresh, of the scenario of a behaviour in which no failure goes unnoticed.
Clean ==
    /\ ~ scenario.blind
    /\ scenario.faults = 0 \/ \A c \in scenario.configs : ~ (c.fresh /\ c.compress)

\* A behaviour has one scenario.
LEMMA ScenarioFixed == [Next]_vars => scenario' = scenario
BY DEF Next, Construct, Remove, Constructed, Open, WriteBody, WriteNewline, RotateStable,
       RotateIndexed, Gzip, GzipCreate, GzipCopy, GzipRename, GzipStamp, GzipDrop, GzipFails,
       Step, Prune, Pruned, Return, Crash, Tick, elapsed, bounds, vars

\* A handler that compresses writes and rotates below every .gz of the folder: the
\* target of a compression is free.
GzInv ==
    Clean /\ cfg.compress /\ pc # "down" =>
        /\ ~ cfg.stable => \A i \in Indices : i >= index /\ Exists(Name("gz", i))
               => pc = "construct" /\ cfg.fresh /\ Name("gz", i) \in doom
        /\ Busy /\ ~ cfg.stable => gzIdx < index
        /\ pc \in {"gzip", "gzcopy", "gzrename"} => ~ Exists(dst)

\* A step outside the compression that creates no .gz keeps GzInv.
LEMMA GzInvFrame ==
    ASSUME GzInv, pc \notin {"down", "construct"}, ~ Busy', UNCHANGED <<cfg, index, scenario>>,
           \A i \in Indices : Exists(Name("gz", i))' => Exists(Name("gz", i))
    PROVE  GzInv'
<1>1. \A i \in Indices : Clean /\ cfg.compress /\ ~ cfg.stable /\ i >= index => ~ Exists(Name("gz", i))'
  BY DEF GzInv
<1>2. QED
  BY <1>1 DEF GzInv, Busy, Clean

\* Every step keeps the targets free.
LEMMA GzInvStep == TypeInv /\ GzInv /\ [Next]_vars => GzInv'
<1> SUFFICES ASSUME TypeInv, GzInv, [Next]_vars, Clean PROVE GzInv'
  BY ScenarioFixed DEF GzInv, Clean
<1>0. scenario' = scenario
  BY ScenarioFixed
<1>a. Busy => gzIdx \in Indices
  BY DEF TypeInv, Control
<1>b. /\ index \in Nat /\ \A i \in Indices : i \in Nat
      /\ \A i \in Indices : Name("gz", i) \in Names /\ Name("gz", i).kind = "gz"
  BY NameFields, TypeFacts
<1>1. CASE Construct
  <2>1. disk' = disk /\ pc' = "construct"
    BY <1>1 DEF Construct
  <2>2. PICK c \in scenario.configs :
          /\ cfg' = c
          /\ IF c.fresh
             THEN index' = 1 /\ fileSize' = 0 /\ doom' = ResetDoom(c, Found) /\ written' = {}
             ELSE /\ index' = ResumeIndex(c, Found)
                  /\ doom' = ReconcileDoom(c, Found) /\ UNCHANGED written
          /\ index' <= MaxIndex
    BY <1>1, ConstructSeen DEF Clean
  <2>3. CASE c.fresh
    <3>1. c.compress => \A i \in Indices : Exists(Name("gz", i)) => Name("gz", i) \in doom'
      BY <1>b, <2>2, <2>3 DEF ResetDoom, Rotated, Listed, Found
    <3>2. QED
      BY <2>1, <2>2, <2>3, <3>1 DEF GzInv, Busy, Exists
  <2>4. CASE ~ c.fresh
    <3>1. c.compress /\ ~ c.stable => \A i \in Indices : Exists(Name("gz", i)) => i < index'
      <4>1. c \in Options /\ ResumeIndex(c, Found) <= MaxIndex /\ index' = ResumeIndex(c, Found)
        BY <2>2, <2>4, TypeFacts
      <4>2. QED
        BY <4>1, ResumeFacts
    <3>2. index' \in Nat
      BY <2>2, <2>4, ResumeIndexFacts
    <3>3. c.compress /\ ~ c.stable => \A i \in Indices : i >= index' => ~ Exists(Name("gz", i))
      BY <1>b, <3>1, <3>2
    <3>4. QED
      BY <2>1, <2>2, <3>3 DEF GzInv, Busy, Exists
  <2>5. QED
    BY <2>3, <2>4
<1>2. CASE Remove("construct")
  <2>1. /\ NextDoomed \in Names /\ doom' = doom \ {NextDoomed} /\ pc' = "construct"
        /\ pc = "construct" /\ UNCHANGED <<cfg, index, scenario>>
        /\ \A n \in Names \ {NextDoomed} : disk'[n] = disk[n]
        /\ disk'[NextDoomed] \in {disk[NextDoomed], Absent}
        /\ \/ disk'[NextDoomed] = Absent
           \/ faults' = faults + 1 /\ faults' <= scenario.faults
    BY <1>2, RemoveFacts
  <2>2. cfg.compress /\ cfg.fresh => disk'[NextDoomed] = Absent
    <3>1. ASSUME cfg.compress, cfg.fresh, faults' = faults + 1, faults' <= scenario.faults
          PROVE  FALSE
      <4>1. scenario \in Scenarios /\ cfg \in scenario.configs
        BY DEF TypeInv, TypeOK
      <4>2. scenario.faults = 0 /\ faults \in Nat
        BY <3>1, <4>1, TypeFacts DEF Clean
      <4>3. QED
        BY <3>1, <4>2
    <3>2. QED
      BY <2>1, <3>1
  <2>3. ASSUME cfg.compress, ~ cfg.stable, NEW i \in Indices, i >= index, Exists(Name("gz", i))'
        PROVE  cfg.fresh /\ Name("gz", i) \in doom'
    <3>1. Exists(Name("gz", i))
      BY <1>b, <2>1, <2>3 DEF Exists
    <3>2. cfg.fresh /\ Name("gz", i) \in doom
      BY <2>1, <2>3, <3>1 DEF GzInv
    <3>3. Name("gz", i) # NextDoomed
      BY <2>2, <2>3, <3>2 DEF Exists
    <3>4. QED
      BY <2>1, <3>2, <3>3
  <2>4. QED
    BY <2>1, <2>3 DEF GzInv, Busy
<1>3. CASE Constructed
  <2>1. /\ pc = "construct" /\ pc' = "idle" /\ doom = {} /\ UNCHANGED <<disk, cfg, index>>
    BY <1>3 DEF Constructed, process
  <2>2. QED
    BY <2>1 DEF GzInv, Busy, Exists
<1>4. CASE Open
  <2>1. /\ pc = "idle" /\ pc' \in {"idle", "body"} /\ UNCHANGED <<cfg, index>>
        /\ \A m \in Names : m # liveFileName => disk'[m] = disk[m]
    BY <1>4, OpenFacts
  <2>2. \A i \in Indices : Exists(Name("gz", i))' => Exists(Name("gz", i))
    BY <1>b, <2>1, NameFields DEF Exists, liveFileName
  <2>3. QED
    BY <2>1, <2>2, <1>0, GzInvFrame DEF Busy
<1>5. CASE WriteBody \/ WriteNewline
  <2>1. /\ pc \in {"body", "newline"} /\ pc' \in {"newline", "rotate", "return"}
        /\ UNCHANGED <<cfg, index>>
        /\ \A m \in Names \ {liveFileName} : disk'[m] = disk[m]
    BY <1>5, WriteBodyFacts, WriteNewlineFacts
  <2>2. \A i \in Indices : Exists(Name("gz", i))' => Exists(Name("gz", i))
    <3>1. \A i \in Indices : Name("gz", i) # liveFileName
      BY NameFields DEF liveFileName
    <3>2. QED
      BY <1>b, <2>1, <3>1 DEF Exists
  <2>3. QED
    BY <2>1, <2>2, <1>0, GzInvFrame DEF Busy
<1>6. CASE RotateStable
  <2>1. /\ cfg.stable /\ cfg' = cfg /\ pc = "rotate"
    BY <1>6, RotateStableFacts
  <2>2. PICK i \in Indices :
          /\ ~ backupExists(i, cfg.compress, Found)
          /\ \/ /\ \A n \in Names : n \notin {Live, Name("log", i)} => disk'[n] = disk[n]
                /\ gzIdx' = i
             \/ pc' = "prune"
    BY <1>6, RotateStableSeen DEF Clean
  <2>3. CASE pc' = "prune"
    BY <2>1, <2>3 DEF GzInv, Busy
  <2>4. CASE /\ \A n \in Names : n \notin {Live, Name("log", i)} => disk'[n] = disk[n]
             /\ gzIdx' = i
    <3>1. Name("gz", i) \notin {Live, Name("log", i)} /\ dst' = Name("gz", i)
      BY <2>4, NameFields DEF dst
    <3>2. cfg.compress => ~ Exists(Name("gz", i))
      BY <1>b, <2>2 DEF backupExists, Found
    <3>3. cfg.compress => ~ Exists(dst)'
      BY <1>b, <2>4, <3>1, <3>2 DEF Exists
    <3>4. QED
      BY <2>1, <3>3 DEF GzInv
  <2>5. QED
    BY <2>2, <2>3, <2>4
<1>7. CASE RotateIndexed
  <2>1. /\ pc = "rotate" /\ ~ cfg.stable /\ index < MaxIndex /\ index' = index + 1
        /\ gzIdx' = index /\ UNCHANGED <<disk, cfg>> /\ pc' \in {"gzip", "prune"}
    BY <1>7 DEF RotateIndexed
  <2>2. \A i \in Indices : i >= index + 1 => i >= index
    BY <1>b
  <2>3. \A i \in Indices : cfg.compress /\ i >= index => ~ Exists(Name("gz", i))
    BY <2>1 DEF GzInv
  <2>4. index \in Indices /\ index >= index /\ index < index + 1
    BY <2>1, TypeFacts, Params DEF Indices
  <2>5. dst' = Name("gz", index)
    BY <2>1 DEF dst
  <2>6. cfg.compress => ~ Exists(dst)'
    BY <2>1, <2>3, <2>4, <2>5 DEF Exists
  <2>7. \A i \in Indices : cfg.compress /\ i >= index' => ~ Exists(Name("gz", i))'
    BY <2>1, <2>2, <2>3 DEF Exists
  <2>8. gzIdx' < index'
    BY <2>1, <2>4
  <2>9. QED
    BY <2>1, <2>6, <2>7, <2>8 DEF GzInv
<1>8. CASE Gzip
  <2>1. /\ Busy /\ (Busy' \/ pc' = "prune") /\ dst' = dst
        /\ UNCHANGED <<cfg, index, gzIdx>>
        /\ \A n \in Names \ {src, dst, tmp} : disk'[n] = disk[n]
        /\ pc \in {"gzip", "gzcopy"} => disk'[dst] = disk[dst]
        /\ pc' \in {"gzcopy", "gzrename"} => pc \in {"gzip", "gzcopy"}
        /\ pc' # "gzip"
    <3>1. pc' # "gzip"
      BY <1>8 DEF Gzip, GzipCreate, GzipCopy, GzipRename, GzipStamp, GzipDrop, GzipFails, Step
    <3>2. QED
      BY <1>8, <3>1, GzipFacts, GzipTarget
  <2>2. ~ cfg.stable /\ cfg.compress => gzIdx < index
    BY <2>1 DEF GzInv, Busy
  <2>3. ASSUME cfg.compress, ~ cfg.stable, NEW i \in Indices, i >= index PROVE ~ Exists(Name("gz", i))'
    <3>1. ~ Exists(Name("gz", i))
      BY <2>1, <2>3 DEF GzInv, Busy
    <3>2. gzIdx # i
      <4>1. gzIdx \in Nat /\ i \in Nat /\ index \in Nat
        BY <1>b, TypeFacts
      <4>2. QED
        BY <2>2, <2>3, <4>1
    <3>3. Name("gz", i) \notin {src, dst, tmp}
      BY <3>2, NameFields DEF src, dst, tmp
    <3>4. QED
      BY <1>b, <2>1, <3>1, <3>3 DEF Exists
  <2>4. cfg.compress /\ pc' \in {"gzip", "gzcopy", "gzrename"} => ~ Exists(dst)'
    <3>1. cfg.compress /\ pc \in {"gzip", "gzcopy"} => ~ Exists(dst)
      BY DEF GzInv
    <3>2. QED
      BY <2>1, <3>1 DEF Exists
  <2>5. QED
    BY <2>1, <2>2, <2>3, <2>4 DEF GzInv
<1>9. CASE Remove("remove")
  <2>1. /\ pc = "remove" /\ pc' = "remove" /\ UNCHANGED <<cfg, index>>
        /\ NextDoomed \in Names
        /\ \A n \in Names \ {NextDoomed} : disk'[n] = disk[n]
        /\ disk'[NextDoomed] \in {disk[NextDoomed], Absent}
    BY <1>9, RemoveFacts
  <2>2. \A i \in Indices : Exists(Name("gz", i))' => Exists(Name("gz", i))
    BY <1>b, <2>1 DEF Exists
  <2>3. QED
    BY <2>1, <2>2, <1>0, GzInvFrame DEF Busy
<1>10. CASE Prune \/ Pruned \/ Return
  <2>1. /\ pc \in {"prune", "remove", "return"} /\ pc' \in {"remove", "return", "idle"}
        /\ UNCHANGED <<disk, cfg, index>>
    BY <1>10 DEF Prune, Pruned, Return, process
  <2>2. QED
    BY <2>1, <1>0, GzInvFrame DEF Busy, Exists
<1>11. CASE Crash
  BY <1>11 DEF Crash, GzInv
<1>12. CASE Tick \/ UNCHANGED vars
  <2>1. UNCHANGED <<disk, pc, cfg, index, gzIdx, doom>>
    BY <1>12 DEF Tick, vars, process, frame
  <2>2. QED
    BY <2>1 DEF GzInv, Busy, Exists, dst
<1>13. QED
  BY <1>1, <1>2, <1>3, <1>4, <1>5, <1>6, <1>7, <1>8, <1>9, <1>10, <1>11, <1>12 DEF Next

\* What ContentOnlyGrows says of one step.
Grows == \A n \in Names : n.kind # "tmp" /\ Exists(n) /\ Exists(n)'
             => disk[n].msgs \subseteq disk'[n].msgs

\* No step replaces the content of a file but the renaming to a free name.
LEMMA GrowsStep == ASSUME Clean, TypeInv, GzInv, [Next]_vars PROVE Grows
<1>1. CASE /\ \A n \in Names : disk'[n] \in {disk[n], Absent}
  BY <1>1 DEF Grows, Exists
<1>2. CASE Construct \/ Constructed \/ Prune \/ Pruned \/ Return \/ Crash \/ Tick \/ UNCHANGED vars
  <2>1. disk' = disk
    BY <1>2 DEF Construct, Constructed, Prune, Pruned, Return, Crash, Tick, vars
  <2>2. QED
    BY <1>1, <2>1
<1>3. ASSUME NEW from \in {"construct", "remove"}, Remove(from) PROVE Grows
  <2>1. /\ NextDoomed \in Names
        /\ \A n \in Names \ {NextDoomed} : disk'[n] = disk[n]
        /\ disk'[NextDoomed] \in {disk[NextDoomed], Absent}
    BY <1>3, RemoveFacts
  <2>2. \A n \in Names : disk'[n] \in {disk[n], Absent}
    BY <2>1
  <2>3. QED
    BY <1>1, <2>2
<1>4. CASE Open
  <2>1. \A m \in Names : Exists(m) => disk'[m] = disk[m]
    BY <1>4, OpenFacts
  <2>2. QED
    BY <2>1 DEF Grows
<1>5. CASE WriteBody \/ WriteNewline
  <2>1. /\ \A m \in Names \ {liveFileName} : disk'[m] = disk[m]
        /\ disk[liveFileName].msgs \subseteq disk'[liveFileName].msgs
    BY <1>5, WriteBodyFacts, WriteNewlineFacts
  <2>2. QED
    BY <2>1 DEF Grows
<1>6. CASE RotateStable
  <2>1. PICK i \in Indices :
          /\ ~ backupExists(i, cfg.compress, Found)
          /\ \/ /\ disk'[Live] = Absent
                /\ \A n \in Names : n \notin {Live, Name("log", i)} => disk'[n] = disk[n]
             \/ UNCHANGED disk
    BY <1>6, RotateStableSeen DEF Clean
  <2>2. ~ Exists(Name("log", i))
    BY <2>1, NameFields DEF backupExists, Found
  <2>3. QED
    BY <2>1, <2>2 DEF Grows, Exists
<1>7. CASE RotateIndexed
  <2>1. disk' = disk
    BY <1>7 DEF RotateIndexed
  <2>2. QED
    BY <1>1, <2>1
<1>8. CASE Gzip
  <2>1. /\ Busy /\ \A n \in Names \ {src, dst, tmp} : disk'[n] = disk[n]
        /\ disk'[src] \in {disk[src], Absent}
        /\ pc \in {"gzip", "gzcopy", "gzdrop"} => disk'[dst] = disk[dst]
        /\ pc = "gzstamp" => disk'[dst].msgs = disk[dst].msgs
    BY <1>8, GzipFacts, GzipTarget
  <2>2. pc = "gzrename" => ~ Exists(dst)
    <3>1. cfg.compress
      BY <2>1, GzNames
    <3>2. QED
      BY <3>1 DEF GzInv
  <2>3. tmp.kind = "tmp"
    BY NameFields DEF tmp
  <2>4. ASSUME NEW n \in Names, n.kind # "tmp", Exists(n), Exists(n)'
        PROVE  disk[n].msgs \subseteq disk'[n].msgs
    <3>1. CASE n \notin {src, dst, tmp}
      BY <2>1, <3>1
    <3>2. CASE n = src
      BY <2>1, <2>4, <3>2 DEF Exists
    <3>3. CASE n = dst
      BY <2>1, <2>2, <2>4, <3>3 DEF Busy
    <3>4. QED
      BY <2>3, <2>4, <3>1, <3>2, <3>3
  <2>5. QED
    BY <2>4 DEF Grows
<1>9. QED
  BY <1>2, <1>3, <1>4, <1>5, <1>6, <1>7, <1>8 DEF Next

\* The targets are free in every behaviour.
LEMMA GzInvAlways == Spec => []GzInv
<1>1. Init => GzInv
  BY DEF Init, GzInv
<1>2. QED
  BY <1>1, GzInvStep, TypeInvAlways, PTL DEF Spec

\* Scenarios that are clean make clean behaviours, unless the handler may be blind.
LEMMA CleanBehaviour == ASSUME CleanFresh PROVE TypeInv /\ ~ scenario.blind => Clean
BY TypeFacts DEF CleanFresh, Clean

\* No rename, rotation or compression ever lands on a file with other content:
\* the content of a file that exists before and after a step has only grown, as long
\* as the handler misses none of them.
THEOREM ContentOnlyEverGrows == ASSUME CleanFresh PROVE Spec => ContentOnlyGrows
<1>1. TypeInv /\ GzInv /\ [Next]_vars => (scenario.blind \/ Grows)
  BY GrowsStep, CleanBehaviour
<1>2. Spec => [][scenario.blind \/ Grows]_vars
  BY <1>1, TypeInvAlways, GzInvAlways, PTL DEF Spec
<1>3. [scenario.blind \/ Grows]_vars
        => [\A n \in Names : n.kind # "tmp" /\ Exists(n) /\ Exists(n)' /\ ~ scenario.blind
              => disk[n].msgs \subseteq disk'[n].msgs]_vars
  BY DEF Grows
<1>4. QED
  BY <1>2, <1>3, PTL DEF ContentOnlyGrows

\* What GzIsComplete says of a clean behaviour.
GzComplete ==
    \A i \in Indices :
        Exists(Name("log", i)) /\ Exists(Name("gz", i))
            => disk[Name("log", i)].msgs \subseteq disk[Name("gz", i)].msgs

\* What a .gz holds: what its plaintext holds, from the copy on; and there is none
\* in the folder of a handler that does not compress.
CompleteBody ==
    /\ GzComplete
    /\ pc = "gzrename" => disk[tmp].msgs = disk[src].msgs
    /\ ~ cfg.compress => \A i \in Indices : ~ Exists(Name("gz", i))

CompleteInv == Clean => CompleteBody

\* Files that come and go as a whole keep every .gz complete.
LEMMA CompleteFrame ==
    ASSUME CompleteBody, pc' # "gzrename", cfg'.compress = cfg.compress,
           \A n \in Names : n.kind \in {"log", "gz"} =>
               \/ disk'[n] = Absent
               \/ Exists(n) /\ disk'[n].msgs = disk[n].msgs
    PROVE  CompleteBody'
<1>1. \A i \in Indices : /\ Name("log", i) \in Names /\ Name("log", i).kind = "log"
                         /\ Name("gz", i) \in Names /\ Name("gz", i).kind = "gz"
  BY NameFields
<1>2. GzComplete'
  BY <1>1 DEF CompleteBody, GzComplete, Exists
<1>3. ~ cfg'.compress => \A i \in Indices : ~ Exists(Name("gz", i))'
  BY <1>1 DEF CompleteBody, Exists
<1>4. QED
  BY <1>2, <1>3 DEF CompleteBody

\* Every step keeps them complete.
LEMMA CompleteStep ==
    ASSUME NoToggle
    PROVE  TypeInv /\ GzInv /\ CompleteInv /\ [Next]_vars => CompleteInv'
<1> SUFFICES ASSUME TypeInv, GzInv, CompleteBody, [Next]_vars, Clean PROVE CompleteBody'
  BY ScenarioFixed DEF CompleteInv, Clean
<1>a. \A i \in Indices :
          /\ Name("log", i) \in Names /\ Name("log", i).kind = "log"
          /\ Name("gz", i) \in Names /\ Name("gz", i).kind = "gz"
          /\ Name("gz", i) # liveFileName
  BY NameFields DEF liveFileName
<1>b. GzComplete
  BY DEF CompleteBody
<1>1. CASE /\ pc' # "gzrename" /\ UNCHANGED cfg
           /\ \A n \in Names : disk'[n] \in {disk[n], Absent}
  BY <1>1, CompleteFrame DEF Exists
<1>2. CASE Construct
  <2>1. disk' = disk /\ pc' = "construct"
    BY <1>2 DEF Construct
  <2>2. cfg'.compress = cfg.compress
    <3>1. ~ scenario.toggle /\ cfg \in Options
      BY TypeFacts DEF NoToggle
    <3>2. PICK c \in scenario.configs : c = [cfg EXCEPT !.fresh = c.fresh] /\ cfg' = c
      BY <1>2, <3>1 DEF Construct
    <3>3. QED
      BY <3>1, <3>2 DEF Options
  <2>3. QED
    BY <2>1, <2>2, CompleteFrame DEF Exists
<1>3. CASE Constructed \/ RotateIndexed \/ Prune \/ Pruned \/ Return \/ Crash
  <2>1. disk' = disk /\ cfg' = cfg /\ pc' # "gzrename"
    BY <1>3 DEF Constructed, RotateIndexed, Prune, Pruned, Return, Crash, process
  <2>2. QED
    BY <1>1, <2>1
<1>4. CASE Tick \/ UNCHANGED vars
  <2>1. UNCHANGED <<disk, cfg, pc, gzIdx>>
    BY <1>4 DEF Tick, vars, process, frame
  <2>2. QED
    BY <2>1 DEF CompleteBody, GzComplete, Exists, src, tmp
<1>5. ASSUME NEW from \in {"construct", "remove"}, Remove(from) PROVE CompleteBody'
  <2>1. /\ pc' = from /\ cfg' = cfg /\ NextDoomed \in Names
        /\ \A n \in Names \ {NextDoomed} : disk'[n] = disk[n]
        /\ disk'[NextDoomed] \in {disk[NextDoomed], Absent}
    BY <1>5, RemoveFacts
  <2>2. \A n \in Names : disk'[n] \in {disk[n], Absent}
    BY <2>1
  <2>3. QED
    BY <1>1, <2>1, <2>2
<1>6. CASE Open
  <2>1. /\ pc' # "gzrename" /\ cfg' = cfg
        /\ \A m \in Names : m # liveFileName \/ Exists(m) => disk'[m] = disk[m]
        /\ disk'[liveFileName] \in {disk[liveFileName], Empty}
    BY <1>6, OpenFacts
  <2>2. \A i \in Indices : disk'[Name("gz", i)] = disk[Name("gz", i)]
    BY <1>a, <2>1
  <2>3. \A i \in Indices : disk'[Name("log", i)] \in {disk[Name("log", i)], Empty}
    BY <1>a, <2>1
  <2>4. GzComplete'
    BY <1>b, <2>2, <2>3 DEF GzComplete, Exists, Empty
  <2>5. QED
    BY <2>1, <2>2, <2>4 DEF CompleteBody, Exists
<1>7. CASE WriteBody \/ WriteNewline
  <2>1. /\ pc \in {"body", "newline"} /\ pc' # "gzrename" /\ cfg' = cfg
        /\ \A m \in Names \ {liveFileName} : disk'[m] = disk[m]
        /\ Exists(liveFileName) /\ liveFileName \in Names
    BY <1>7, WriteBodyFacts, WriteNewlineFacts
  <2>2. \A i \in Indices : disk'[Name("gz", i)] = disk[Name("gz", i)]
    BY <1>a, <2>1
  <2>3. ASSUME NEW i \in Indices, Exists(Name("gz", i)), Exists(Name("log", i))'
        PROVE  disk'[Name("log", i)] = disk[Name("log", i)]
    <3>1. Name("log", i) # liveFileName
      <4>1. cfg.compress
        BY <2>3 DEF CompleteBody
      <4>2. CASE cfg.stable
        BY <4>2, NameFields DEF liveFileName
      <4>3. CASE ~ cfg.stable
        <5>1. ~ (i >= index)
          BY <2>1, <2>3, <4>1, <4>3 DEF GzInv
        <5>2. i # index
          BY <5>1, TypeFacts
        <5>3. QED
          BY <4>3, <5>2, NameFields DEF liveFileName
      <4>4. QED
        BY <4>2, <4>3
    <3>2. QED
      BY <1>a, <2>1, <3>1
  <2>4. GzComplete'
    BY <1>b, <2>2, <2>3 DEF GzComplete, Exists
  <2>5. QED
    BY <2>1, <2>2, <2>4 DEF CompleteBody, Exists
<1>8. CASE RotateStable
  <2>1. cfg' = cfg /\ pc' # "gzrename"
    BY <1>8, RotateStableFacts
  <2>2. PICK i \in Indices :
          /\ ~ backupExists(i, cfg.compress, Found)
          /\ \/ /\ \A n \in Names : n \notin {Live, Name("log", i)} => disk'[n] = disk[n]
             \/ UNCHANGED disk
    BY <1>8, RotateStableSeen DEF Clean
  <2>3. ~ Exists(Name("gz", i))
    BY <1>a, <2>2 DEF backupExists, Found, CompleteBody
  <2>4. \A j \in Indices : disk'[Name("gz", j)] = disk[Name("gz", j)]
    BY <1>a, <2>2, NameFields
  <2>5. \A j \in Indices : j # i => disk'[Name("log", j)] = disk[Name("log", j)]
    BY <1>a, <2>2, NameFields
  <2>6. GzComplete'
    BY <1>b, <2>3, <2>4, <2>5 DEF GzComplete, Exists
  <2>7. QED
    BY <2>1, <2>4, <2>6 DEF CompleteBody, Exists
<1>9. CASE Gzip
  <2>1. /\ Busy /\ cfg' = cfg /\ src' = src /\ tmp' = tmp
        /\ \A n \in Names \ {src, dst, tmp} : disk'[n] = disk[n]
        /\ disk'[src] \in {disk[src], Absent}
        /\ pc # "gzdrop" => disk'[src] = disk[src]
        /\ pc \in {"gzip", "gzcopy", "gzdrop"} => disk'[dst] = disk[dst]
        /\ pc = "gzrename" => disk'[dst] \in {disk[dst], disk[tmp]}
        /\ pc = "gzstamp" => disk'[dst].msgs = disk[dst].msgs
        /\ pc' = "gzrename" => disk'[tmp].msgs = disk[src].msgs
        /\ pc' = "gzrename" => pc \in {"gzip", "gzcopy"}
    BY <1>9, GzipFacts, GzipTarget
  <2>2. cfg.compress /\ gzIdx \in Indices
    BY <2>1, GzNames
  <2>3. src = Name("log", gzIdx) /\ dst = Name("gz", gzIdx) /\ tmp = Name("tmp", gzIdx)
    BY DEF src, dst, tmp
  <2>4. pc' = "gzrename" => disk'[tmp'].msgs = disk'[src'].msgs
    <3>1. pc' = "gzrename" => disk'[src] = disk[src]
      BY <2>1
    <3>2. QED
      BY <2>1, <3>1
  <2>5. ASSUME NEW i \in Indices, Exists(Name("log", i))', Exists(Name("gz", i))'
        PROVE  disk'[Name("log", i)].msgs \subseteq disk'[Name("gz", i)].msgs
    <3>1. CASE i # gzIdx
      <4>1. Name("log", i) \notin {src, dst, tmp} /\ Name("gz", i) \notin {src, dst, tmp}
        BY <2>3, <3>1, NameFields
      <4>2. /\ disk'[Name("log", i)] = disk[Name("log", i)]
            /\ disk'[Name("gz", i)] = disk[Name("gz", i)]
        BY <1>a, <2>1, <4>1
      <4>3. QED
        BY <1>b, <2>5, <4>2 DEF GzComplete, Exists
    <3>2. CASE i = gzIdx
      <4>1. disk'[src] # Absent /\ disk'[dst] # Absent /\ disk'[src] = disk[src]
        <5>1. disk'[src] # Absent /\ disk'[dst] # Absent
          BY <2>3, <2>5, <3>2 DEF Exists
        <5>2. QED
          BY <2>1, <5>1
      <4>2. disk[dst] # Absent => disk[src].msgs \subseteq disk[dst].msgs
        BY <1>b, <2>2, <2>3, <4>1 DEF GzComplete, Exists
      <4>3. CASE pc \in {"gzip", "gzcopy", "gzdrop"}
        BY <2>1, <2>3, <3>2, <4>1, <4>2, <4>3
      <4>4. CASE pc = "gzrename"
        <5>1. disk[tmp].msgs = disk[src].msgs
          BY <4>4 DEF CompleteBody
        <5>2. QED
          BY <2>1, <2>3, <3>2, <4>1, <4>2, <4>4, <5>1
      <4>5. CASE pc = "gzstamp"
        <5>1. disk[dst] # Absent
          BY <4>5 DEF TypeInv, Control, Exists
        <5>2. QED
          BY <2>1, <2>3, <3>2, <4>1, <4>2, <4>5, <5>1
      <4>6. QED
        BY <2>1, <4>3, <4>4, <4>5 DEF Busy
    <3>3. QED
      BY <3>1, <3>2
  <2>6. GzComplete'
    BY <2>5 DEF GzComplete
  <2>7. QED
    BY <2>1, <2>2, <2>4, <2>6 DEF CompleteBody
<1>10. QED
  BY <1>2, <1>3, <1>4, <1>5, <1>6, <1>7, <1>8, <1>9 DEF Next

\* The .gz files are complete in every behaviour.
LEMMA CompleteInvAlways == ASSUME NoToggle PROVE Spec => []CompleteInv
<1>1. Init => CompleteInv
  BY NameFields DEF Init, CompleteInv, CompleteBody, GzComplete, Exists
<1>2. TypeInv /\ GzInv /\ CompleteInv /\ [Next]_vars => CompleteInv'
  BY CompleteStep
<1>3. QED
  BY <1>1, <1>2, TypeInvAlways, GzInvAlways, PTL DEF Spec

\* A plaintext beside its .gz holds nothing the .gz does not: what the constructor
\* discards as a leftover of an interrupted compression is one, wherever the process
\* died and whatever failed with an error, as long as all processes agree to compress.
THEOREM CompressedBackupsAreComplete ==
    ASSUME CleanFresh, NoToggle
    PROVE  Spec => []GzIsComplete
<1>1. TypeInv /\ CompleteInv => GzIsComplete
  BY CleanBehaviour DEF CompleteInv, CompleteBody, GzComplete, GzIsComplete
<1>2. QED
  BY <1>1, TypeInvAlways, CompleteInvAlways, PTL

-----------------------------------------------------------------------------
(* How large a file may become *)

Longest == Max(Sizes)

\* What failures and deaths so far may have added to a file.
Slack == (MaxFileSize + Longest) * faults + Longest * restarts

\* A file is within the cap, and one message, of what failures and deaths account
\* for; the live file is within the cap whenever a message may be appended to it,
\* by a counter that accounts for all of it but the slack.
BoundInv ==
    /\ \A n \in Names : n.kind # "gz" => SizeOf(n) <= Slack + MaxFileSize + Longest
    /\ pc \in {"down", "construct"} =>
           \A n \in Names : n.kind # "gz" => SizeOf(n) <= Slack + MaxFileSize
    /\ pc \notin {"down", "newline", "rotate"} => SizeOf(liveFileName) <= Slack + MaxFileSize
    /\ pc = "newline" => SizeOf(liveFileName) <= Slack + MaxFileSize + (size - 1)
    /\ pc \notin {"down", "construct", "newline"} => SizeOf(liveFileName) <= Slack + fileSize
    /\ pc = "newline" => SizeOf(liveFileName) <= Slack + fileSize + l
    /\ pc = "construct" => liveFileName \in doom \/ SizeOf(liveFileName) <= Slack + fileSize
    /\ pc # "down" /\ ~ cfg.stable =>
           \A i \in Indices : i > index => SizeOf(Name("log", i)) <= Slack + MaxFileSize

\* The quantities are numbers.
LEMMA Quantities ==
    ASSUME TypeInv
    PROVE  /\ MaxFileSize \in Nat /\ Longest \in Nat /\ Slack \in Nat
           /\ \A s \in Sizes : s \in Nat /\ s >= 2 /\ s <= Longest
           /\ fileSize \in Nat /\ l \in Nat
           /\ \A n \in Names : SizeOf(n) \in Nat
<1>1. /\ Sizes \in SUBSET Nat /\ IsFiniteSet(Sizes) /\ Sizes # {} /\ MaxFileSize \in Nat
      /\ \A s \in Sizes : s \in Nat /\ s >= 2
  BY Params
<1>2. Longest \in Sizes /\ \A s \in Sizes : s <= Longest
  BY <1>1, MaxOfFinite DEF Longest
<1>3. Slack \in Nat
  <2>1. faults \in Nat /\ restarts \in Nat /\ Longest \in Nat
    BY <1>1, <1>2, TypeFacts
  <2>2. (MaxFileSize + Longest) * faults \in Nat /\ Longest * restarts \in Nat
    BY <1>1, <2>1
  <2>3. QED
    BY <2>2 DEF Slack
<1>4. fileSize \in Nat /\ l \in Nat /\ \A n \in Names : SizeOf(n) \in Nat
  BY SizeType DEF TypeInv, TypeOK
<1>5. QED
  BY <1>1, <1>2, <1>3, <1>4

\* What a step adds to the slack.
LEMMA SlackGrows ==
    ASSUME TypeInv, [Next]_vars
    PROVE  /\ \E d \in Nat : Slack' = Slack + d
           /\ faults' > faults => Slack' >= Slack + MaxFileSize + Longest
           /\ restarts' = restarts + 1 => Slack' = Slack + Longest
           /\ UNCHANGED <<faults, restarts>> => Slack' = Slack
<1>1. /\ faults \in Nat /\ restarts \in Nat /\ MaxFileSize \in Nat /\ Longest \in Nat
      /\ Longest' = Longest /\ faults' \in Nat /\ faults' >= faults
  BY TypeFacts, Quantities, FaultsGrow DEF Longest
<1>2. \/ restarts' = restarts
      \/ restarts' = restarts + 1 /\ faults' = faults
  BY DEF Next, Construct, Remove, Constructed, Open, WriteBody, WriteNewline, RotateStable,
         RotateIndexed, Gzip, GzipCreate, GzipCopy, GzipRename, GzipStamp, GzipDrop, GzipFails,
         Step, Prune, Pruned, Return, Crash, Tick, elapsed, bounds, vars
<1>3. ASSUME NEW a \in Nat, NEW f \in Nat, NEW k \in Nat
      PROVE  a * (f + k) = a * f + a * k /\ a * k \in Nat /\ (k >= 1 => a * k >= a)
  OBVIOUS
<1> DEFINE a == (MaxFileSize + Longest) * faults
           b == Longest * restarts
<1>4. a \in Nat /\ b \in Nat /\ Slack = a + b
  BY <1>1, <1>3 DEF Slack
<1>5. CASE UNCHANGED <<faults, restarts>>
  <2>1. Slack' = Slack
    BY <1>1, <1>5 DEF Slack
  <2>2. Slack' = Slack + 0
    BY <2>1, Quantities
  <2>3. ~ (faults' > faults) /\ restarts' # restarts + 1
    BY <1>1, <1>5
  <2>4. QED
    BY <2>1, <2>2, <2>3
<1>6. CASE faults' > faults /\ restarts' = restarts
  <2>1. PICK k \in Nat : faults' = faults + k /\ k >= 1
    <3>1. ASSUME NEW x \in Nat, NEW y \in Nat, y > x
          PROVE  \E k \in Nat : y = x + k /\ k >= 1
      <4>1. y - x \in Nat /\ y = x + (y - x) /\ y - x >= 1
        BY <3>1
      <4>2. QED
        BY <4>1
    <3>2. QED
      BY <1>1, <1>6, <3>1
  <2> DEFINE c == (MaxFileSize + Longest) * k
  <2>2. c \in Nat /\ c >= MaxFileSize + Longest /\ (MaxFileSize + Longest) * (faults + k) = a + c
    <3>1. MaxFileSize + Longest \in Nat
      BY <1>1
    <3>2. QED
      BY <1>1, <1>3, <2>1, <3>1
  <2>3. Slack' = (MaxFileSize + Longest) * (faults + k) + b
    BY <1>1, <1>6, <2>1 DEF Slack
  <2> HIDE DEF a, b, c
  <2>4. Slack' = Slack + c /\ Slack' >= Slack + MaxFileSize + Longest
    BY <1>1, <1>4, <2>2, <2>3
  <2>5. restarts' # restarts + 1 /\ faults' # faults
    BY <1>1, <1>6
  <2>6. QED
    BY <2>2, <2>4, <2>5
<1>7. CASE restarts' = restarts + 1 /\ faults' = faults
  <2>1. Longest * (restarts + 1) = b + Longest
    BY <1>1
  <2>2. Slack' = a + Longest * (restarts + 1)
    BY <1>1, <1>7 DEF Slack
  <2> HIDE DEF a, b
  <2>3. Slack' = Slack + Longest
    BY <1>1, <1>4, <2>1, <2>2
  <2>4. restarts' # restarts /\ ~ (faults' > faults)
    BY <1>1, <1>7
  <2>5. QED
    BY <1>1, <2>3, <2>4
<1>8. QED
  BY <1>1, <1>2, <1>5, <1>6, <1>7

\* Files that keep their size or go keep within any bounds that only grow.
LEMMA BoundFrame ==
    ASSUME TypeInv, BoundInv, NEW d \in Nat, Slack' = Slack + d,
           pc \notin {"down", "construct", "newline", "rotate"},
           pc' \notin {"down", "construct", "newline", "rotate"},
           UNCHANGED <<cfg, index, fileSize>>,
           \A n \in Names : n.kind \in {"log", "live"} => SizeOf(n)' \in {SizeOf(n), 0},
           \A n \in Names : n.kind = "tmp" =>
               \/ SizeOf(n)' = 0
               \/ \E m \in Names : m.kind # "gz" /\ SizeOf(n)' = SizeOf(m)
    PROVE  BoundInv'
<1>0. /\ MaxFileSize \in Nat /\ Longest \in Nat /\ Slack \in Nat /\ fileSize \in Nat
      /\ \A n \in Names : SizeOf(n) \in Nat
      /\ Longest' = Longest
  BY Quantities DEF Longest
<1>1. ASSUME NEW n \in Names, n.kind # "gz"
      PROVE  SizeOf(n)' <= Slack' + MaxFileSize + Longest
  <2>1. n.kind \in {"log", "live", "tmp"}
    BY <1>1, NameFields
  <2>2. SizeOf(n)' = 0 \/ \E m \in Names : m.kind # "gz" /\ SizeOf(n)' = SizeOf(m)
    BY <1>1, <2>1
  <2>3. 0 <= Slack + d + MaxFileSize + Longest
    BY <1>0
  <2>4. \A m \in Names : m.kind # "gz" => SizeOf(m) <= Slack + d + MaxFileSize + Longest
    <3>1. \A m \in Names : m.kind # "gz" => SizeOf(m) <= Slack + MaxFileSize + Longest
      BY DEF BoundInv
    <3>2. QED
      BY <1>0, <3>1
  <2>5. QED
    BY <2>2, <2>3, <2>4
<1>2. liveFileName \in Names /\ liveFileName.kind \in {"log", "live"} /\ liveFileName' = liveFileName
  BY TypeFacts, NameFields DEF liveFileName
<1>3. /\ SizeOf(liveFileName) <= Slack + MaxFileSize
      /\ SizeOf(liveFileName) <= Slack + fileSize
  BY DEF BoundInv
<1>4. /\ SizeOf(liveFileName)' <= Slack' + MaxFileSize
      /\ SizeOf(liveFileName)' <= Slack' + fileSize'
  <2>1. /\ SizeOf(liveFileName) <= Slack + d + MaxFileSize /\ 0 <= Slack + d + MaxFileSize
        /\ SizeOf(liveFileName) <= Slack + d + fileSize /\ 0 <= Slack + d + fileSize
    BY <1>0, <1>2, <1>3
  <2>2. SizeOf(liveFileName)' \in {SizeOf(liveFileName), 0}
    BY <1>2
  <2>3. QED
    BY <2>1, <2>2
<1>5. ASSUME ~ cfg.stable, NEW i \in Indices, i > index
      PROVE  SizeOf(Name("log", i))' <= Slack' + MaxFileSize
  <2>1. SizeOf(Name("log", i)) <= Slack + MaxFileSize
    BY <1>5 DEF BoundInv
  <2>2. Name("log", i) \in Names /\ Name("log", i).kind = "log"
    BY NameFields
  <2>3. SizeOf(Name("log", i))' \in {SizeOf(Name("log", i)), 0}
    BY <2>2
  <2>4. SizeOf(Name("log", i)) <= Slack + d + MaxFileSize /\ 0 <= Slack + d + MaxFileSize
    BY <1>0, <2>1, <2>2
  <2>5. QED
    BY <2>3, <2>4
<1>6. QED
  BY <1>1, <1>4, <1>5 DEF BoundInv

\* Every step keeps the files within their bounds.
LEMMA BoundStep == TypeInv /\ BoundInv /\ [Next]_vars => BoundInv'
<1> SUFFICES ASSUME TypeInv, BoundInv, [Next]_vars PROVE BoundInv'
  OBVIOUS
<1>0. /\ MaxFileSize \in Nat /\ Longest \in Nat /\ Slack \in Nat /\ fileSize \in Nat /\ l \in Nat
      /\ \A s \in Sizes : s \in Nat /\ s >= 2 /\ s <= Longest
      /\ \A n \in Names : SizeOf(n) \in Nat
      /\ Longest' = Longest
  BY Quantities DEF Longest
<1>a. PICK d \in Nat : Slack' = Slack + d
  BY SlackGrows
<1>b. \A i \in Indices : Name("log", i) \in Names /\ Name("log", i).kind = "log"
  BY NameFields
<1>c. disk' = disk => \A n : SizeOf(n)' = SizeOf(n)
  BY DEF SizeOf, Exists
<1>d. \A n \in Names : n.kind # "gz" => SizeOf(n) <= Slack + MaxFileSize + Longest
  BY DEF BoundInv
<1>e. liveFileName.kind \in {"log", "live"}
  BY NameFields DEF liveFileName
<1>1. CASE Construct
  <2>1. disk' = disk /\ pc = "down" /\ pc' = "construct" /\ faults' >= faults
    BY <1>1, ConstructFacts
  <2>2. \A n \in Names : n.kind # "gz" =>
            /\ SizeOf(n) <= Slack + MaxFileSize
            /\ SizeOf(n) <= Slack + d + MaxFileSize
            /\ SizeOf(n) <= Slack + d + MaxFileSize + Longest
    <3>1. \A n \in Names : n.kind # "gz" => SizeOf(n) <= Slack + MaxFileSize
      BY <2>1 DEF BoundInv
    <3>2. QED
      BY <1>0, <3>1
  <2>3. \A n \in Names : n.kind # "gz" => SizeOf(n)' <= Slack' + MaxFileSize
    BY <1>a, <1>c, <2>1, <2>2
  <2>4. \A n \in Names : n.kind # "gz" => SizeOf(n)' <= Slack' + MaxFileSize + Longest
    BY <1>a, <1>c, <2>1, <2>2
  <2>5. TypeInv'
    BY TypeInvStep
  <2>6. liveFileName' \in Names
    <3>1. cfg' \in Options /\ (~ cfg'.stable => index' \in Indices)
      <4>1. cfg' \in scenario.configs /\ index' <= MaxIndex
        BY <1>1, ConstructFacts
      <4>2. index' \in Nat /\ index' >= 1
        BY <2>5, Params DEF TypeInv, TypeOK
      <4>3. QED
        BY <4>1, <4>2, TypeFacts, Params DEF Indices
    <3>2. QED
      BY <3>1, NameFields DEF liveFileName
  <2>7. liveFileName'.kind # "gz"
    BY NameFields DEF liveFileName
  <2>8. SizeOf(liveFileName)' <= Slack' + MaxFileSize
    BY <1>c, <2>1, <2>3, <2>6, <2>7
  <2>9. liveFileName' \in doom' \/ SizeOf(liveFileName)' <= Slack' + fileSize'
    <3>1. SizeOf(liveFileName)' = SizeOf(liveFileName')
      BY <2>1 DEF SizeOf, Exists
    <3>2. SizeOf(liveFileName') \in Nat /\ fileSize' \in Nat /\ Slack' \in Nat
      BY <1>0, <1>a, <2>5, <2>6 DEF TypeInv, TypeOK
    <3>3. CASE faults' > faults
      <4>1. Slack' >= Slack + MaxFileSize + Longest
        BY <3>3, SlackGrows
      <4>2. SizeOf(liveFileName') <= Slack + MaxFileSize
        BY <2>2, <2>6, <2>7
      <4>3. ASSUME NEW x \in Nat, NEW y \in Nat, NEW z \in Nat,
                   x <= Slack + MaxFileSize, y >= Slack + MaxFileSize + Longest
            PROVE  x <= y + z
        BY <1>0, <4>3
      <4>4. QED
        BY <3>1, <3>2, <4>1, <4>2, <4>3
    <3>4. CASE faults' = faults
      <4>1. PICK c \in scenario.configs :
              /\ cfg' = c
              /\ IF c.fresh
                 THEN index' = 1 /\ fileSize' = 0 /\ doom' = ResetDoom(c, Found) /\ written' = {}
                 ELSE index' = ResumeIndex(c, Found) /\ fileSize' = ResumeSize(c, Found)
        BY <1>1, <3>4, ConstructSeen
      <4>2. liveFileName' = IF c.stable THEN Live ELSE Name("log", index')
        BY <4>1 DEF liveFileName
      <4>3. ASSUME NEW x \in Nat, NEW y \in Nat PROVE x <= y + x
        BY <4>3
      <4>4. CASE c.fresh
        <5>1. Exists(liveFileName') => liveFileName' \in doom'
          BY <2>6, <4>1, <4>2, <4>4, NameFields DEF ResetDoom, Rotated, Listed, Found
        <5>2. ~ Exists(liveFileName') => SizeOf(liveFileName') = fileSize'
          BY <4>1, <4>4 DEF SizeOf
        <5>3. QED
          BY <3>1, <3>2, <4>3, <5>1, <5>2
      <4>5. CASE ~ c.fresh
        <5>1. fileSize' = ResumeSize(c, Found) /\ liveFileName' = ResumeFile(c, Found)
          BY <4>1, <4>2, <4>5 DEF ResumeFile
        <5>2. liveFileName' \in Found <=> Exists(liveFileName')
          BY <2>6 DEF Found
        <5>3. fileSize' = SizeOf(liveFileName')
          BY <5>1, <5>2 DEF ResumeSize, SizeOf
        <5>4. QED
          BY <3>1, <3>2, <4>3, <5>3
      <4>6. QED
        BY <4>4, <4>5
    <3>5. QED
      BY <2>1, <3>3, <3>4, TypeFacts, TypeInvStep, <2>5 DEF TypeInv, TypeOK
  <2>10. \A i \in Indices : SizeOf(Name("log", i))' <= Slack' + MaxFileSize
    BY <1>b, <2>3
  <2>11. QED
    BY <2>1, <2>3, <2>4, <2>8, <2>9, <2>10 DEF BoundInv
<1>2. CASE Remove("construct")
  <2>1. /\ NextDoomed \in doom /\ NextDoomed \in Names /\ doom' = doom \ {NextDoomed}
        /\ pc = "construct" /\ pc' = "construct" /\ liveFileName' = liveFileName
        /\ UNCHANGED <<cfg, index, fileSize, restarts>>
        /\ \A n \in Names \ {NextDoomed} : disk'[n] = disk[n]
        /\ disk'[NextDoomed] \in {disk[NextDoomed], Absent}
        /\ disk'[NextDoomed] = Absent \/ faults' = faults + 1
    BY <1>2, RemoveFacts
  <2>a. faults' = faults + 1 => faults' > faults
    BY TypeFacts
  <2>2. \A n \in Names : SizeOf(n)' \in {SizeOf(n), 0}
    <3>1. \A n \in Names : disk'[n] \in {disk[n], Absent}
      BY <2>1
    <3>2. QED
      BY <3>1 DEF SizeOf, Exists
  <2>3. liveFileName \in Names
    BY <2>1, TypeFacts
  <2>4. ASSUME NEW n \in Names, n.kind # "gz" PROVE SizeOf(n)' <= Slack' + MaxFileSize
    <3>1. SizeOf(n) <= Slack + d + MaxFileSize /\ 0 <= Slack + d + MaxFileSize
      <4>1. SizeOf(n) <= Slack + MaxFileSize
        BY <2>1, <2>4 DEF BoundInv
      <4>2. QED
        BY <1>0, <4>1
    <3>2. QED
      BY <1>a, <2>2, <3>1
  <2>5. ASSUME NEW n \in Names, n.kind # "gz" PROVE SizeOf(n)' <= Slack' + MaxFileSize + Longest
    <3>1. SizeOf(n) <= Slack + d + MaxFileSize + Longest /\ 0 <= Slack + d + MaxFileSize + Longest
      <4>1. SizeOf(n) <= Slack + MaxFileSize
        BY <2>1, <2>5 DEF BoundInv
      <4>2. QED
        BY <1>0, <4>1
    <3>2. QED
      BY <1>a, <2>2, <3>1
  <2>6. liveFileName' \in doom' \/ SizeOf(liveFileName)' <= Slack' + fileSize'
    <3>1. CASE liveFileName = NextDoomed
      <4>1. CASE disk'[NextDoomed] = Absent
        <5>1. SizeOf(liveFileName)' = 0
          BY <2>1, <3>1, <4>1 DEF SizeOf, Exists
        <5>2. 0 <= Slack + d + fileSize
          BY <1>0
        <5>3. QED
          BY <1>a, <2>1, <5>1, <5>2
      <4>2. CASE faults' = faults + 1
        <5>1. Slack' >= Slack + MaxFileSize + Longest
          BY <2>a, <4>2, SlackGrows
        <5>2. SizeOf(liveFileName) <= Slack + MaxFileSize
          BY <1>e, <2>1, <2>3 DEF BoundInv
        <5>3. SizeOf(liveFileName) <= Slack + d + fileSize /\ 0 <= Slack + d + fileSize
          BY <1>0, <1>a, <2>3, <5>1, <5>2
        <5>4. QED
          BY <1>a, <2>1, <2>2, <2>3, <5>3
      <4>3. QED
        BY <2>1, <4>1, <4>2
    <3>2. CASE liveFileName # NextDoomed /\ liveFileName \in doom
      BY <2>1, <3>2
    <3>3. CASE liveFileName \notin doom
      <4>1. SizeOf(liveFileName) <= Slack + fileSize
        BY <2>1, <3>3 DEF BoundInv
      <4>2. SizeOf(liveFileName) <= Slack + d + fileSize /\ 0 <= Slack + d + fileSize
        BY <1>0, <2>3, <4>1
      <4>3. QED
        BY <1>a, <2>1, <2>2, <2>3, <4>2
    <3>4. QED
      BY <3>1, <3>2, <3>3
  <2>7. SizeOf(liveFileName)' <= Slack' + MaxFileSize
    BY <1>e, <2>1, <2>3, <2>4
  <2>8. \A i \in Indices : SizeOf(Name("log", i))' <= Slack' + MaxFileSize
    BY <1>b, <2>4
  <2>9. QED
    BY <2>1, <2>4, <2>5, <2>6, <2>7, <2>8 DEF BoundInv
<1>3. CASE Constructed
  <2>1. /\ pc = "construct" /\ pc' = "idle" /\ doom = {}
        /\ UNCHANGED <<disk, cfg, index, fileSize, faults, restarts>>
    BY <1>3 DEF Constructed, process, bounds, elapsed, failures
  <2>2. Slack' = Slack /\ \A n : SizeOf(n)' = SizeOf(n)
    BY <1>c, <2>1, SlackGrows
  <2>3. liveFileName' = liveFileName /\ SizeOf(liveFileName)' = SizeOf(liveFileName)
    BY <2>1 DEF liveFileName, SizeOf, Exists
  <2>4. QED
    BY <2>1, <2>2, <2>3 DEF BoundInv
<1>4. CASE Open
  <2>1. /\ pc = "idle" /\ liveFileName' = liveFileName /\ liveFileName \in Names
        /\ UNCHANGED <<cfg, index, fileSize>> /\ pc' \in {"body", "idle"}
        /\ \A m \in Names : m # liveFileName => disk'[m] = disk[m]
        /\ disk'[liveFileName] \in {disk[liveFileName], Empty}
    BY <1>4, OpenFacts
  <2>2. \A n \in Names : SizeOf(n)' \in {SizeOf(n), 0}
    BY <2>1 DEF SizeOf, Exists, Empty
  <2>3. \A n \in Names : n.kind = "tmp" => SizeOf(n)' = SizeOf(n)
    BY <1>e, <2>1 DEF SizeOf, Exists
  <2>4. QED
    BY <1>a, <2>1, <2>2, <2>3, BoundFrame
<1>5. CASE WriteBody
  <2>1. /\ pc = "body" /\ pc' = "newline"
        /\ size \in Sizes /\ Exists(liveFileName) /\ liveFileName \in Names
        /\ liveFileName' = liveFileName /\ UNCHANGED <<cfg, index, fileSize, size, restarts>>
        /\ \A m \in Names \ {liveFileName} : disk'[m] = disk[m]
        /\ disk'[liveFileName] # Absent
    BY <1>5, WriteBodyFacts
  <2>2. \A m \in Names \ {liveFileName} : SizeOf(m)' = SizeOf(m)
    BY <2>1 DEF SizeOf, Exists
  <2>3. SizeOf(liveFileName) <= Slack + MaxFileSize /\ SizeOf(liveFileName) <= Slack + fileSize
    BY <2>1 DEF BoundInv
  <2>4. /\ SizeOf(liveFileName)' <= Slack' + MaxFileSize + (size - 1)
        /\ SizeOf(liveFileName)' <= Slack' + fileSize' + l'
    <3>1. SizeOf(liveFileName)' = disk'[liveFileName].size
          /\ SizeOf(liveFileName) = disk[liveFileName].size
      BY <2>1 DEF SizeOf, Exists
    <3>2. CASE /\ disk'[liveFileName].size = disk[liveFileName].size + (size - 1)
               /\ l' = size - 1
      <4>1. /\ SizeOf(liveFileName) + (size - 1) <= Slack + d + MaxFileSize + (size - 1)
            /\ SizeOf(liveFileName) + (size - 1) <= Slack + d + fileSize + (size - 1)
        BY <1>0, <2>1, <2>3
      <4>2. QED
        BY <1>a, <2>1, <3>1, <3>2, <4>1
    <3>3. CASE /\ \E k \in 0..(size - 2) : disk'[liveFileName].size = disk[liveFileName].size + k
               /\ faults' = faults + 1 /\ l' = l
      <4>1. PICK k \in 0..(size - 2) : disk'[liveFileName].size = disk[liveFileName].size + k
        BY <3>3
      <4>2. Slack' >= Slack + MaxFileSize + Longest
        <5>1. faults' > faults
          BY <3>3, TypeFacts
        <5>2. QED
          BY <5>1, SlackGrows
      <4>3. size \in Nat /\ size >= 2 /\ size <= Longest /\ k \in Nat /\ k <= Longest /\ k <= size - 1
        BY <1>0, <2>1, <4>1
      <4>4. /\ SizeOf(liveFileName) + k <= Slack + d + MaxFileSize + (size - 1)
            /\ SizeOf(liveFileName) + k <= Slack + d + fileSize + l
        BY <1>0, <1>a, <2>1, <2>3, <4>2, <4>3
      <4>5. QED
        BY <1>a, <2>1, <3>1, <3>3, <4>1, <4>4
    <3>4. QED
      BY <1>5, <3>2, <3>3, WriteBodyFacts
  <2>5. ASSUME NEW n \in Names, n.kind # "gz"
        PROVE  SizeOf(n)' <= Slack' + MaxFileSize + Longest
    <3>1. CASE n # liveFileName
      <4>1. SizeOf(n) <= Slack + d + MaxFileSize + Longest
        BY <1>0, <1>d, <2>5
      <4>2. QED
        BY <1>a, <2>2, <3>1, <4>1
    <3>2. CASE n = liveFileName
      <4>1. PICK z \in Nat : z = SizeOf(liveFileName)'
        <5>1. SizeOf(liveFileName)' \in Nat
          <6>1. TypeInv'
            BY TypeInvStep
          <6>2. disk'[liveFileName] \in Files'
            BY <2>1, <6>1 DEF TypeInv, TypeOK
          <6>3. QED
            BY <2>1, <6>2 DEF SizeOf, Exists, Files
        <5>2. QED
          BY <5>1
      <4>2. z <= Slack + d + MaxFileSize + (size - 1)
        BY <1>a, <2>4, <4>1
      <4>3. z <= Slack + d + MaxFileSize + Longest
        BY <1>0, <2>1, <4>2
      <4>4. QED
        BY <1>a, <2>1, <3>2, <4>1, <4>3
    <3>3. QED
      BY <3>1, <3>2
  <2>6. ASSUME ~ cfg.stable, NEW i \in Indices, i > index
        PROVE  SizeOf(Name("log", i))' <= Slack' + MaxFileSize
    <3>1. Name("log", i) # liveFileName
      <4>1. i # index
        BY <2>6, TypeFacts
      <4>2. QED
        BY <2>6, <4>1, NameFields DEF liveFileName
    <3>2. SizeOf(Name("log", i)) <= Slack + d + MaxFileSize
      <4>1. SizeOf(Name("log", i)) <= Slack + MaxFileSize
        BY <2>1, <2>6 DEF BoundInv
      <4>2. QED
        BY <1>0, <1>b, <4>1
    <3>3. QED
      BY <1>a, <1>b, <2>2, <3>1, <3>2
  <2>7. QED
    BY <2>1, <2>4, <2>5, <2>6 DEF BoundInv
<1>6. CASE WriteNewline
  <2>1. /\ pc = "newline" /\ pc' \in {"rotate", "return"} /\ fileSize' = fileSize + l'
        /\ pc' = IF fileSize' > MaxFileSize THEN "rotate" ELSE "return"
        /\ size \in Sizes /\ Exists(liveFileName) /\ liveFileName \in Names
        /\ liveFileName' = liveFileName /\ UNCHANGED <<cfg, index, restarts>>
        /\ \A m \in Names \ {liveFileName} : disk'[m] = disk[m]
        /\ disk'[liveFileName] # Absent
    BY <1>6, WriteNewlineFacts
  <2>2. \A m \in Names \ {liveFileName} : SizeOf(m)' = SizeOf(m)
    BY <2>1 DEF SizeOf, Exists
  <2>3. /\ SizeOf(liveFileName) <= Slack + MaxFileSize + (size - 1)
        /\ SizeOf(liveFileName) <= Slack + fileSize + l
    BY <2>1 DEF BoundInv
  <2>4. PICK z \in Nat, b \in Nat :
            /\ SizeOf(liveFileName)' = z /\ l' = b
            /\ z <= Slack + d + MaxFileSize + Longest
            /\ z <= Slack + d + fileSize + b
    <3>1. SizeOf(liveFileName)' = disk'[liveFileName].size
          /\ SizeOf(liveFileName) = disk[liveFileName].size
      BY <2>1 DEF SizeOf, Exists
    <3>2. CASE disk'[liveFileName].size = disk[liveFileName].size + 1 /\ l' = l + 1
      <4>1. /\ SizeOf(liveFileName) + 1 \in Nat /\ l + 1 \in Nat
            /\ SizeOf(liveFileName) + 1 <= Slack + d + MaxFileSize + Longest
            /\ SizeOf(liveFileName) + 1 <= Slack + d + fileSize + (l + 1)
        BY <1>0, <2>1, <2>3
      <4>2. QED
        BY <3>1, <3>2, <4>1
    <3>3. CASE UNCHANGED <<disk, l>>
      <4>1. /\ SizeOf(liveFileName) \in Nat /\ l \in Nat
            /\ SizeOf(liveFileName) <= Slack + d + MaxFileSize + Longest
            /\ SizeOf(liveFileName) <= Slack + d + fileSize + l
        BY <1>0, <2>1, <2>3
      <4>2. QED
        BY <3>1, <3>3, <4>1
    <3>4. QED
      BY <1>6, <3>2, <3>3, WriteNewlineFacts
  <2>5. ASSUME NEW n \in Names, n.kind # "gz"
        PROVE  SizeOf(n)' <= Slack' + MaxFileSize + Longest
    <3>1. CASE n # liveFileName
      <4>1. SizeOf(n) <= Slack + d + MaxFileSize + Longest
        BY <1>0, <1>d, <2>5
      <4>2. QED
        BY <1>a, <2>2, <3>1, <4>1
    <3>2. CASE n = liveFileName
      BY <1>a, <2>1, <2>4, <3>2
    <3>3. QED
      BY <3>1, <3>2
  <2>6. SizeOf(liveFileName)' <= Slack' + fileSize'
    <3>1. z <= Slack + d + (fileSize + b)
      BY <1>0, <2>4
    <3>2. QED
      BY <1>a, <2>1, <2>4, <3>1
  <2>7. pc' = "return" => SizeOf(liveFileName)' <= Slack' + MaxFileSize
    <3>1. pc' = "return" => ~ (fileSize + b > MaxFileSize)
      BY <2>1, <2>4
    <3>2. fileSize + b <= MaxFileSize => z <= Slack + d + MaxFileSize
      BY <1>0, <2>4
    <3>3. fileSize + b \in Nat
      BY <1>0
    <3>4. pc' = "return" => fileSize + b <= MaxFileSize
      BY <1>0, <3>1, <3>3
    <3>5. QED
      BY <1>a, <2>4, <3>2, <3>4
  <2>8. ASSUME ~ cfg.stable, NEW i \in Indices, i > index
        PROVE  SizeOf(Name("log", i))' <= Slack' + MaxFileSize
    <3>1. Name("log", i) # liveFileName
      <4>1. i # index
        BY <2>8, TypeFacts
      <4>2. QED
        BY <2>8, <4>1, NameFields DEF liveFileName
    <3>2. SizeOf(Name("log", i)) <= Slack + d + MaxFileSize
      <4>1. SizeOf(Name("log", i)) <= Slack + MaxFileSize
        BY <2>1, <2>8 DEF BoundInv
      <4>2. QED
        BY <1>0, <1>b, <4>1
    <3>3. QED
      BY <1>a, <1>b, <2>2, <3>1, <3>2
  <2>9. QED
    BY <2>1, <2>5, <2>6, <2>7, <2>8 DEF BoundInv
<1>7. CASE RotateStable
  <2>1. /\ pc = "rotate" /\ cfg.stable /\ cfg' = cfg /\ fileSize' = 0
        /\ liveFileName = Live /\ liveFileName' = Live /\ UNCHANGED restarts
    BY <1>7, RotateStableFacts
  <2>2. PICK i \in Indices :
          \/ /\ disk'[Name("log", i)] = disk[Live] /\ disk'[Live] = Absent
             /\ \A n \in Names : n \notin {Live, Name("log", i)} => disk'[n] = disk[n]
             /\ pc' = IF cfg.compress THEN "gzip" ELSE "prune"
          \/ pc' = "prune" /\ faults' > faults /\ UNCHANGED disk
    BY <1>7, RotateStableFacts
  <2>3. Live \in Names /\ Live.kind # "gz" /\ pc' \in {"gzip", "prune"}
    BY <2>2, NameFields
  <2>4. ASSUME NEW n \in Names, n.kind # "gz"
        PROVE  SizeOf(n)' <= Slack' + MaxFileSize + Longest
    <3>1. \A m \in Names : m.kind # "gz" => SizeOf(m) <= Slack + d + MaxFileSize + Longest
      BY <1>0, <1>d
    <3>2. SizeOf(n)' \in {SizeOf(n), SizeOf(Live), 0}
      BY <2>2 DEF SizeOf, Exists
    <3>3. 0 <= Slack + d + MaxFileSize + Longest
      BY <1>0
    <3>4. QED
      BY <1>a, <2>3, <2>4, <3>1, <3>2, <3>3
  <2>5. /\ SizeOf(liveFileName)' <= Slack' + MaxFileSize
        /\ SizeOf(liveFileName)' <= Slack' + fileSize'
    <3>1. CASE disk'[Live] = Absent
      <4>1. SizeOf(liveFileName)' = 0
        BY <2>1, <3>1 DEF SizeOf, Exists
      <4>2. 0 <= Slack + d + MaxFileSize /\ 0 <= Slack + d + 0
        BY <1>0
      <4>3. QED
        BY <1>a, <2>1, <4>1, <4>2
    <3>2. CASE faults' > faults /\ UNCHANGED disk
      <4>1. Slack' >= Slack + MaxFileSize + Longest
        BY <3>2, SlackGrows
      <4>2. SizeOf(liveFileName)' = SizeOf(Live)
        BY <2>1, <3>2 DEF SizeOf, Exists
      <4>3. SizeOf(Live) <= Slack + d + MaxFileSize /\ SizeOf(Live) <= Slack + d + 0
        BY <1>0, <1>a, <1>d, <2>3, <4>1
      <4>4. QED
        BY <1>a, <2>1, <4>2, <4>3
    <3>3. QED
      BY <2>2, <3>1, <3>2
  <2>6. QED
    BY <2>1, <2>3, <2>4, <2>5 DEF BoundInv
<1>8. CASE RotateIndexed
  <2>1. /\ pc = "rotate" /\ ~ cfg.stable /\ index < MaxIndex /\ index' = index + 1
        /\ UNCHANGED <<disk, cfg, restarts>> /\ pc' \in {"gzip", "prune"}
        /\ \/ fileSize' = SizeOf(Name("log", index'))
           \/ fileSize' = 0 /\ faults' = faults + 1
    BY <1>8 DEF RotateIndexed, elapsed, Fault, Faults
  <2>2. index + 1 \in Indices /\ index + 1 > index
    BY <2>1, TypeFacts, Params DEF Indices
  <2>3. liveFileName' = Name("log", index + 1) /\ \A n : SizeOf(n)' = SizeOf(n)
    BY <1>c, <2>1 DEF liveFileName
  <2>4. \A i \in Indices : i > index + 1 \/ i = index + 1
          => SizeOf(Name("log", i)) <= Slack + MaxFileSize /\ SizeOf(Name("log", i)) <= Slack + d + MaxFileSize
    <3>1. \A i \in Indices : i > index => SizeOf(Name("log", i)) <= Slack + MaxFileSize
      BY <2>1 DEF BoundInv
    <3>2. \A i \in Indices : i > index + 1 \/ i = index + 1 => i > index
      BY <2>2, NameFields, TypeFacts
    <3>3. QED
      BY <1>0, <1>b, <3>1, <3>2
  <2>5. PICK z \in Nat : z = SizeOf(Name("log", index + 1))
    BY <1>0, <1>b, <2>2
  <2>6. SizeOf(liveFileName)' = z
    BY <2>1, <2>3, <2>5 DEF SizeOf, Exists
  <2>7. z <= Slack + MaxFileSize
    BY <2>2, <2>4, <2>5
  <2>8. z <= Slack' + fileSize'
    <3>1. CASE fileSize' = SizeOf(Name("log", index'))
      <4>1. fileSize' = z
        BY <2>1, <2>5, <3>1
      <4>2. z <= Slack + d + z
        BY <1>0
      <4>3. QED
        BY <1>a, <4>1, <4>2
    <3>2. CASE fileSize' = 0 /\ faults' = faults + 1
      <4>1. Slack' >= Slack + MaxFileSize + Longest
        <5>1. faults' > faults
          BY <3>2, TypeFacts
        <5>2. QED
          BY <5>1, SlackGrows
      <4>2. z <= Slack + d + 0
        BY <1>0, <1>a, <2>7, <4>1
      <4>3. QED
        BY <1>a, <3>2, <4>2
    <3>3. QED
      BY <2>1, <3>1, <3>2
  <2>9. z <= Slack' + MaxFileSize
    BY <2>2, <2>4, <2>5, <1>a
  <2>10. \A n \in Names : n.kind # "gz" => SizeOf(n)' <= Slack' + MaxFileSize + Longest
    <3>1. \A n \in Names : n.kind # "gz" => SizeOf(n) <= Slack + d + MaxFileSize + Longest
      BY <1>0, <1>d
    <3>2. QED
      BY <1>a, <2>3, <3>1
  <2>11. \A i \in Indices : i > index' => SizeOf(Name("log", i))' <= Slack' + MaxFileSize
    BY <1>a, <2>1, <2>3, <2>4
  <2>12. QED
    BY <2>1, <2>6, <2>8, <2>9, <2>10, <2>11 DEF BoundInv
<1>9. CASE Gzip
  <2>1. /\ Busy /\ (Busy' \/ pc' = "prune") /\ UNCHANGED <<cfg, index, fileSize>>
        /\ \A n \in Names \ {src, dst, tmp} : disk'[n] = disk[n]
        /\ disk'[src] \in {disk[src], Absent}
        /\ pc = "gzcopy" => \/ disk'[tmp] \in {disk[tmp], Absent}
                            \/ disk'[tmp].size = disk[src].size
        /\ pc = "gzip" => \/ disk'[tmp] = disk[tmp]
                          \/ disk'[tmp].size = 0
        /\ pc \in {"gzrename", "gzstamp", "gzdrop"} => disk'[tmp] \in {disk[tmp], Absent}
    BY <1>9, GzipFacts, GzipTarget
  <2>2. dst.kind = "gz" /\ tmp.kind = "tmp" /\ src.kind = "log" /\ src \in Names /\ tmp \in Names
        /\ disk[src] # Absent
    BY <2>1, GzNames, NameFields DEF src, dst, tmp
  <2>3. \A n \in Names : n.kind \in {"log", "live"} => SizeOf(n)' \in {SizeOf(n), 0}
    <3>1. \A n \in Names : n.kind \in {"log", "live"} => disk'[n] \in {disk[n], Absent}
      BY <2>1, <2>2
    <3>2. QED
      BY <3>1 DEF SizeOf, Exists
  <2>4. SizeOf(tmp)' \in {0, SizeOf(tmp), SizeOf(src)}
    <3>1. pc \in {"gzip", "gzcopy", "gzrename", "gzstamp", "gzdrop"}
      BY <2>1 DEF Busy
    <3>2. \/ disk'[tmp] \in {disk[tmp], Absent}
          \/ disk'[tmp].size \in {0, disk[src].size}
      BY <2>1, <3>1
    <3>3. SizeOf(src) = disk[src].size
      BY <2>2 DEF SizeOf, Exists
    <3>4. SizeOf(tmp) = IF disk[tmp] # Absent THEN disk[tmp].size ELSE 0
      BY DEF SizeOf, Exists
    <3>5. tmp' = tmp
      BY <1>9, GzipFacts
    <3>6. SizeOf(tmp)' = IF disk'[tmp] # Absent THEN disk'[tmp].size ELSE 0
      BY <3>5 DEF SizeOf, Exists
    <3>7. QED
      BY <3>2, <3>3, <3>4, <3>6
  <2>5. \A n \in Names : n.kind = "tmp" =>
            SizeOf(n)' = 0 \/ \E m \in Names : m.kind # "gz" /\ SizeOf(n)' = SizeOf(m)
    <3>1. ASSUME NEW n \in Names, n.kind = "tmp"
          PROVE  SizeOf(n)' = 0 \/ \E m \in Names : m.kind # "gz" /\ SizeOf(n)' = SizeOf(m)
      <4>1. CASE n = tmp
        <5>1. SizeOf(n)' \in {0, SizeOf(tmp), SizeOf(src)}
          <6>1. tmp' = tmp
            BY <1>9, GzipFacts
          <6>2. SizeOf(tmp)' = SizeOf(n)'
            BY <4>1, <6>1 DEF SizeOf, Exists
          <6>3. QED
            BY <2>4, <6>2
        <5>2. QED
          BY <2>2, <5>1
      <4>2. CASE n # tmp
        <5>1. disk'[n] = disk[n]
          BY <2>1, <2>2, <3>1, <4>2
        <5>2. SizeOf(n)' = SizeOf(n)
          BY <5>1 DEF SizeOf, Exists
        <5>3. QED
          BY <3>1, <5>2
      <4>3. QED
        BY <4>1, <4>2
    <3>2. QED
      BY <3>1
  <2>6. /\ pc \notin {"down", "construct", "newline", "rotate"}
        /\ pc' \notin {"down", "construct", "newline", "rotate"}
    BY <2>1 DEF Busy
  <2>7. QED
    BY <1>a, <2>1, <2>3, <2>5, <2>6, BoundFrame
<1>10. CASE Remove("remove")
  <2>1. /\ NextDoomed \in Names /\ pc = "remove" /\ pc' = "remove"
        /\ UNCHANGED <<cfg, index, fileSize>>
        /\ \A n \in Names \ {NextDoomed} : disk'[n] = disk[n]
        /\ disk'[NextDoomed] \in {disk[NextDoomed], Absent}
    BY <1>10, RemoveFacts
  <2>2. \A n \in Names : SizeOf(n)' \in {SizeOf(n), 0}
    <3>1. \A n \in Names : disk'[n] \in {disk[n], Absent}
      BY <2>1
    <3>2. QED
      BY <3>1 DEF SizeOf, Exists
  <2>3. QED
    BY <1>a, <2>1, <2>2, BoundFrame
<1>11. CASE Prune \/ Pruned \/ Return
  <2>1. /\ pc \in {"prune", "remove", "return"} /\ pc' \in {"remove", "return", "idle"}
        /\ UNCHANGED <<disk, cfg, index, fileSize>>
    BY <1>11, PruneFacts DEF Pruned, Return, process
  <2>2. \A n \in Names : SizeOf(n)' = SizeOf(n)
    BY <1>c, <2>1
  <2>3. QED
    BY <1>a, <2>1, <2>2, BoundFrame
<1>12. CASE Crash
  <2>1. pc' = "down" /\ disk' = disk /\ restarts' = restarts + 1 /\ faults' = faults
    BY <1>12 DEF Crash
  <2>2. Slack' = Slack + Longest
    BY <2>1, SlackGrows
  <2>3. \A n \in Names : n.kind # "gz" =>
            /\ SizeOf(n) <= Slack + Longest + MaxFileSize
            /\ SizeOf(n) <= Slack + Longest + MaxFileSize + Longest
    BY <1>0, <1>d
  <2>4. QED
    BY <1>c, <2>1, <2>2, <2>3 DEF BoundInv
<1>13. CASE Tick \/ UNCHANGED vars
  <2>1. UNCHANGED <<disk, pc, cfg, index, fileSize, size, l, doom, faults, restarts>>
    BY <1>13 DEF Tick, vars, process, frame, failures, bounds, elapsed
  <2>2. Slack' = Slack /\ liveFileName' = liveFileName /\ \A n : SizeOf(n)' = SizeOf(n)
    BY <1>c, <2>1, SlackGrows DEF liveFileName
  <2>3. SizeOf(liveFileName)' = SizeOf(liveFileName)
    BY <2>1, <2>2 DEF SizeOf, Exists
  <2>4. QED
    BY <1>0, <2>1, <2>2, <2>3 DEF BoundInv
<1>14. QED
  BY <1>1, <1>2, <1>3, <1>4, <1>5, <1>6, <1>7, <1>8, <1>9, <1>10, <1>11, <1>12, <1>13 DEF Next

\* No file outgrows the cap by more than one message, and what the failures and the
\* deaths of the process so far may have added.
THEOREM FilesStayBounded == Spec => []FileSizeBounded
<1>1. Init => TypeInv /\ BoundInv
  <2> SUFFICES ASSUME Init PROVE TypeInv /\ BoundInv
    OBVIOUS
  <2>1. TypeInv
    BY TypeInvInit
  <2>2. Slack \in Nat /\ MaxFileSize \in Nat /\ Longest \in Nat
    BY <2>1, Quantities
  <2>3. 0 <= Slack + MaxFileSize /\ 0 <= Slack + MaxFileSize + Longest
    BY <2>2
  <2>4. \A n \in Names : SizeOf(n) = 0
    BY DEF Init, SizeOf, Exists
  <2>5. pc = "down"
    BY DEF Init
  <2>6. BoundInv
    BY <2>3, <2>4, <2>5 DEF BoundInv
  <2>7. QED
    BY <2>1, <2>6
<1>2. ASSUME TypeInv, BoundInv PROVE FileSizeBounded
  <2>1. faults \in Nat /\ restarts \in Nat /\ MaxFileSize \in Nat /\ Longest \in Nat
    BY <1>2, TypeFacts, Quantities
  <2>2. (MaxFileSize + Longest) * (faults + 1) = (MaxFileSize + Longest) * faults + MaxFileSize + Longest
    BY <2>1
  <2> DEFINE a == (MaxFileSize + Longest) * faults
             b == Longest * restarts
  <2>3. a \in Nat /\ b \in Nat /\ Slack = a + b
        /\ (MaxFileSize + Longest) * (faults + 1) = a + MaxFileSize + Longest
    BY <2>1, <2>2 DEF Slack
  <2> HIDE DEF a
  <2>4. Slack + MaxFileSize + Longest = (MaxFileSize + Longest) * (faults + 1) + b
    BY <2>1, <2>3
  <2>5. QED
    BY <1>2, <2>4 DEF BoundInv, FileSizeBounded, Longest
<1>3. QED
  BY <1>1, <1>2, BoundStep, TypeInvAlways, PTL DEF Spec

-----------------------------------------------------------------------------
(* The ring: scenarios without failing operations, age limits and processes *)
(* that disagree on their options                                           *)

Indexed == {n \in Names : n.kind \in {"log", "gz"}}

\* The file a handler writes to, or is about to create, comes after every other of
\* the ring; what is left over is what a fresh start or a reconciliation removes.
AheadBody ==
    /\ pc # "down" => \A n \in Indexed : Exists(n) /\ n.idx >= index /\ n # liveFileName
           => pc = "construct" /\ cfg.fresh /\ n \in doom
    /\ Busy => gzIdx = index - 1
    /\ ~ cfg.stable => ~ Exists(Live)
    /\ pc \notin {"construct", "remove"} => doom = {}
    /\ pc = "construct" /\ cfg.fresh => written = {}
    /\ pc = "construct" /\ ~ cfg.fresh =>
           \A n \in doom : n.kind = "tmp" \/ (n.kind = "log" /\ Exists(Name("gz", n.idx)))
    /\ Busy \/ pc \in {"prune", "remove"}
           => ~ Exists(liveFileName) \/ (cfg.stable /\ faults > 0 /\ ~ Busy)

AheadInv == ~ OutOfOrder => AheadBody

\* A ring has no operation that fails, a fresh start that removes nothing neither.
LEMMA NoFailingFresh ==
    ASSUME TypeInv
    PROVE  /\ HasRing => ~ OutOfOrder
           /\ ~ OutOfOrder => Clean /\ (cfg.fresh => scenario.faults = 0)
<1>1. scenario.faults \in Nat /\ cfg \in scenario.configs
  BY TypeFacts DEF TypeInv, TypeOK
<1>2. HasRing => ~ OutOfOrder
  BY <1>1, TypeFacts, ScenarioFields DEF HasRing, OutOfOrder
<1>3. ~ OutOfOrder => Clean /\ (cfg.fresh => scenario.faults = 0)
  BY <1>1 DEF OutOfOrder, Clean
<1>4. QED
  BY <1>2, <1>3

\* What it means to have a ring.
LEMMA RingFacts ==
    ASSUME TypeInv, HasRing
    PROVE  scenario.faults = 0 /\ faults = 0 /\ Clean /\ ~ cfg.age /\ ~ scenario.blind
<1>1. scenario.faults = 0
  BY DEF HasRing
<1>2. faults = 0
  <2>1. faults \in 0..0
    BY <1>1 DEF TypeInv, TypeOK
  <2>2. QED
    BY <2>1
<1>3. ~ scenario.blind
  BY <1>1, TypeFacts, ScenarioFields
<1>4. QED
  BY <1>1, <1>2, <1>3 DEF HasRing, Clean, TypeInv, TypeOK

\* In a ring no step counts a failure.
LEMMA RingStepFacts ==
    ASSUME TypeInv, HasRing, [Next]_vars
    PROVE  faults' = faults /\ HasRing' /\ TypeInv'
<1>1. TypeInv' /\ HasRing'
  BY TypeInvStep, ScenarioFixed DEF HasRing
<1>2. scenario' = scenario /\ scenario.faults = 0 /\ faults = 0
  BY ScenarioFixed, RingFacts
<1>3. faults' \in 0..0
  BY <1>1, <1>2 DEF TypeInv, TypeOK
<1>4. QED
  BY <1>1, <1>2, <1>3

\* Indexed names.
LEMMA IndexedFacts ==
    /\ \A n \in Indexed : /\ n \in Names /\ n.idx \in Indices /\ n.idx \in Nat /\ n # Live
                          /\ n = Name(n.kind, n.idx)
    /\ \A i \in Indices : Name("log", i) \in Indexed /\ Name("gz", i) \in Indexed
<1>1. ASSUME NEW n \in Indexed
      PROVE  /\ n \in Names /\ n.idx \in Indices /\ n.idx \in Nat /\ n # Live
             /\ n = Name(n.kind, n.idx)
  BY NameFields DEF Indexed
<1>2. \A i \in Indices : Name("log", i) \in Indexed /\ Name("gz", i) \in Indexed
  BY NameFields DEF Indexed
<1>3. QED
  BY <1>1, <1>2

\* A handler is constructed in front of what it finds.
LEMMA AheadConstruct ==
    ASSUME NoToggle, TypeInv, CompleteBody, AheadBody, Construct, ~ scenario.blind
    PROVE  AheadBody'
<1>1. disk' = disk /\ pc = "down" /\ pc' = "construct"
  BY ConstructFacts
<1>2. PICK c \in scenario.configs :
        /\ scenario.toggle \/ c = [cfg EXCEPT !.fresh = c.fresh]
        /\ cfg' = c
        /\ IF c.fresh
           THEN index' = 1 /\ fileSize' = 0 /\ doom' = ResetDoom(c, Found) /\ written' = {}
           ELSE /\ index' = ResumeIndex(c, Found)
                /\ doom' = ReconcileDoom(c, Found) /\ UNCHANGED written
        /\ index' <= MaxIndex
  BY ConstructSeen
<1>3. c \in Options /\ c.compress = cfg.compress /\ c.stable = cfg.stable
  <2>1. ~ scenario.toggle /\ cfg \in Options /\ c \in Options
    BY TypeFacts DEF NoToggle
  <2>2. QED
    BY <1>2, <2>1 DEF Options
<1>4. \A n : Exists(n)' = Exists(n)
  BY <1>1 DEF Exists
<1>5. liveFileName' = IF c.stable THEN Live ELSE Name("log", index')
  BY <1>2 DEF liveFileName
<1>6. ~ c.compress => \A n \in Indexed : Exists(n) => n.kind = "log"
  BY <1>3, IndexedFacts DEF CompleteBody, Indexed
<1>7. ~ c.stable => ~ Exists(Live)
  BY <1>3 DEF AheadBody
<1>8. CASE c.fresh
  <2>1. \A n \in Indexed : Exists(n) => n \in doom'
    BY <1>2, <1>6, <1>8 DEF Indexed, ResetDoom, Rotated, Listed, Found
  <2>2. written' = {}
    BY <1>2, <1>8
  <2>3. QED
    BY <1>1, <1>2, <1>4, <1>7, <1>8, <2>1, <2>2 DEF AheadBody, Busy, Exists
<1>9. CASE ~ c.fresh
  <2>1. index' = ResumeIndex(c, Found) /\ doom' = ReconcileDoom(c, Found) /\ ResumeIndex(c, Found) <= MaxIndex
    BY <1>2, <1>9
  <2>2. ASSUME NEW n \in Indexed, Exists(n) PROVE ~ (n.idx >= index' /\ n # liveFileName')
    <3>1. n.idx \in Nat /\ n.idx \in Indices /\ n = Name(n.kind, n.idx) /\ n.kind \in {"log", "gz"}
      BY IndexedFacts DEF Indexed
    <3>2. index' \in Nat
      BY <2>1, ResumeIndexFacts
    <3>3. CASE ~ c.stable
      <4>1. CASE n.kind = "log"
        <5>1. n.idx <= index'
          BY <1>3, <2>1, <2>2, <3>1, <4>1, ResumeFacts
        <5>2. n.idx >= index' => n.idx = index'
          BY <3>1, <3>2, <5>1
        <5>3. QED
          BY <1>5, <3>1, <3>3, <4>1, <5>2
      <4>2. CASE n.kind = "gz"
        <5>1. c.compress
          BY <1>6, <2>2, <4>2
        <5>2. n.idx < index'
          BY <1>3, <2>1, <2>2, <3>1, <3>3, <4>2, <5>1, ResumeFacts
        <5>3. QED
          BY <3>1, <3>2, <5>2
      <4>3. QED
        BY <3>1, <4>1, <4>2
    <3>4. CASE c.stable
      <4> DEFINE found == {m.idx : m \in Rotated(c.compress, Found)}
      <4>1. n \in Rotated(c.compress, Found)
        BY <1>6, <2>2, <3>1, IndexedFacts DEF Rotated, Listed, Found
      <4>2. n.idx \in found /\ found # {}
        BY <4>1
      <4>3. Max(found) \in found /\ n.idx <= Max(found) /\ found \subseteq Indices
        BY <4>2, ResumeIndexFacts
      <4>4. ResumeIndex(c, Found) = Max(found) + 1
        BY <3>4, <4>2 DEF ResumeIndex
      <4> HIDE DEF found
      <4>5. Max(found) \in Nat
        BY <4>3, NameFields
      <4>6. n.idx < index'
        BY <2>1, <3>1, <4>3, <4>4, <4>5
      <4>7. QED
        BY <3>1, <3>2, <4>6
    <3>5. QED
      BY <3>3, <3>4
  <2>3. \A n \in doom' : n.kind = "tmp" \/ (n.kind = "log" /\ Exists(Name("gz", n.idx)))
    BY <2>1 DEF ReconcileDoom, Listed, Found
  <2>4. QED
    BY <1>1, <1>2, <1>4, <1>7, <1>9, <2>2, <2>3 DEF AheadBody, Busy, Exists
<1>10. QED
  BY <1>8, <1>9

\* Every step keeps the live file in front.
LEMMA AheadStep ==
    ASSUME NoToggle
    PROVE  TypeInv /\ GzInv /\ CompleteInv /\ AheadInv /\ [Next]_vars => AheadInv'
<1> SUFFICES ASSUME TypeInv, GzInv, CompleteBody, AheadBody, ~ OutOfOrder, [Next]_vars
             PROVE  AheadBody'
  <2>1. [Next]_vars => (~ OutOfOrder' => ~ OutOfOrder)
    <3>1. [Next]_vars => scenario' = scenario
      BY ScenarioFixed
    <3>2. QED
      BY <3>1 DEF OutOfOrder
  <2>2. TypeInv /\ ~ OutOfOrder => Clean
    BY NoFailingFresh
  <2>3. QED
    BY <2>1, <2>2 DEF AheadInv, CompleteInv
<1>0. faults \in Nat /\ faults' \in Nat /\ faults' >= faults /\ scenario.faults \in Nat
  BY FaultsGrow, TypeFacts
<1>a. \A n \in Indexed : n \in Names /\ n.idx \in Nat
  BY IndexedFacts
<1>b. index \in Nat
  BY TypeFacts
<1>1. CASE Construct
  BY <1>1, AheadConstruct DEF OutOfOrder
<1>2. ASSUME NEW from \in {"construct", "remove"}, Remove(from) PROVE AheadBody'
  <2>1. /\ NextDoomed \in Names /\ NextDoomed \in doom /\ doom' = doom \ {NextDoomed}
        /\ pc = from /\ pc' = from
        /\ liveFileName' = liveFileName /\ UNCHANGED <<cfg, index, written>>
        /\ \A n \in Names \ {NextDoomed} : disk'[n] = disk[n]
        /\ disk'[NextDoomed] \in {disk[NextDoomed], Absent}
        /\ disk'[NextDoomed] = Absent \/ (faults' = faults + 1 /\ faults' <= scenario.faults)
    BY <1>2, RemoveFacts
  <2>2. \A n \in Names : Exists(n)' => Exists(n)
    BY <2>1 DEF Exists
  <2>f. pc = "construct" /\ cfg.fresh => disk'[NextDoomed] = Absent
    <3>1. cfg.fresh => scenario.faults = 0
      BY NoFailingFresh
    <3>2. cfg.fresh => ~ (faults' = faults + 1 /\ faults' <= scenario.faults)
      BY <1>0, <3>1
    <3>3. QED
      BY <2>1, <3>2
  <2>3. pc = "construct" /\ ~ cfg.fresh =>
            \A n \in doom' : n.kind = "tmp" \/ (n.kind = "log" /\ Exists(Name("gz", n.idx))')
    <3>1. ASSUME pc = "construct", ~ cfg.fresh, NEW n \in doom', n.kind = "log"
          PROVE  Exists(Name("gz", n.idx))'
      <4>1. Exists(Name("gz", n.idx)) /\ NextDoomed.kind \in {"tmp", "log"} /\ n \in Names
        BY <2>1, <3>1 DEF AheadBody, TypeInv, TypeOK
      <4>2. Name("gz", n.idx) \in Names /\ Name("gz", n.idx) # NextDoomed
        BY <3>1, <4>1, NameFields
      <4>3. QED
        BY <2>1, <4>1, <4>2 DEF Exists
    <3>2. \A n \in doom' : pc = "construct" /\ ~ cfg.fresh => n.kind \in {"tmp", "log"}
      BY <2>1 DEF AheadBody
    <3>3. QED
      BY <3>1, <3>2
  <2>4. Live \in Names /\ liveFileName \in Names
    BY <2>1, NameFields, TypeFacts
  <2>5. \A n \in Indexed : Exists(n)' /\ n.idx >= index /\ n # liveFileName
            => pc = "construct" /\ cfg.fresh /\ n \in doom'
    <3>1. \A n \in Indexed : Exists(n)' /\ n = NextDoomed => ~ (pc = "construct" /\ cfg.fresh)
      BY <2>f DEF Exists
    <3>2. QED
      BY <1>a, <2>1, <2>2, <3>1 DEF AheadBody
  <2>6. /\ ~ cfg.stable => ~ Exists(Live)'
        /\ pc = "remove" => ~ Exists(liveFileName)' \/ (cfg.stable /\ faults' > 0)
    <3>1. ~ cfg.stable => ~ Exists(Live)'
      BY <2>2, <2>4 DEF AheadBody
    <3>2. pc = "remove" => ~ Exists(liveFileName) \/ (cfg.stable /\ faults' > 0)
      BY <1>0 DEF AheadBody
    <3>3. ~ Exists(liveFileName) => ~ Exists(liveFileName)'
      <4>1. ~ Exists(liveFileName) => disk'[liveFileName] = Absent
        BY <2>2, <2>4 DEF Exists
      <4>2. QED
        BY <2>1, <4>1 DEF Exists
    <3>4. QED
      BY <3>1, <3>2, <3>3
  <2>7. QED
    BY <2>1, <2>3, <2>5, <2>6 DEF AheadBody, Busy
<1>3. CASE Constructed
  <2>1. /\ pc = "construct" /\ pc' = "idle" /\ doom = {} /\ doom' = {}
        /\ UNCHANGED <<disk, cfg, index, written>>
    BY <1>3 DEF Constructed, process, history
  <2>2. QED
    BY <2>1 DEF AheadBody, Busy, Exists, liveFileName
<1>4. CASE Open
  <2>1. /\ pc = "idle" /\ liveFileName' = liveFileName /\ liveFileName \in Names
        /\ UNCHANGED <<cfg, index, doom, written>> /\ pc' \in {"body", "idle"}
        /\ \A m \in Names : m # liveFileName => disk'[m] = disk[m]
    BY <1>4, OpenFacts
  <2>2. \A n \in Indexed : n # liveFileName /\ Exists(n)' => Exists(n)
    BY <1>a, <2>1 DEF Exists
  <2>3. ~ cfg.stable => ~ Exists(Live)'
    <3>1. ~ cfg.stable => Live # liveFileName
      BY NameFields DEF liveFileName
    <3>2. QED
      BY <2>1, <3>1, NameFields DEF AheadBody, Exists
  <2>4. QED
    BY <2>1, <2>2, <2>3 DEF AheadBody, Busy
<1>5. CASE WriteBody \/ WriteNewline
  <2>1. /\ pc \in {"body", "newline"} /\ pc' \in {"newline", "rotate", "return"}
        /\ liveFileName' = liveFileName /\ liveFileName \in Names
        /\ UNCHANGED <<cfg, index, doom>>
        /\ \A m \in Names \ {liveFileName} : disk'[m] = disk[m]
    BY <1>5, WriteBodyFacts, WriteNewlineFacts
  <2>2. \A n \in Indexed : n # liveFileName /\ Exists(n)' => Exists(n)
    BY <1>a, <2>1 DEF Exists
  <2>3. ~ cfg.stable => ~ Exists(Live)'
    <3>1. ~ cfg.stable => Live # liveFileName
      BY NameFields DEF liveFileName
    <3>2. QED
      BY <2>1, <3>1, NameFields DEF AheadBody, Exists
  <2>4. QED
    BY <2>1, <2>2, <2>3 DEF AheadBody, Busy
<1>6. CASE RotateStable
  <2>1. /\ pc = "rotate" /\ cfg.stable /\ liveFileName = Live /\ liveFileName' = Live
        /\ UNCHANGED <<cfg, doom, written>>
    BY <1>6, RotateStableFacts
  <2>2. PICK i \in Indices :
          /\ i >= index /\ index' = i + 1
          /\ \/ /\ disk'[Live] = Absent
                /\ \A n \in Names : n \notin {Live, Name("log", i)} => disk'[n] = disk[n]
                /\ pc' = IF cfg.compress THEN "gzip" ELSE "prune"
                /\ gzIdx' = i
             \/ pc' = "prune" /\ faults' > faults /\ UNCHANGED disk
    BY <1>6, RotateStableFacts
  <2>3. i \in Nat /\ i = index' - 1
    BY <2>2, NameFields
  <2>4. ASSUME NEW n \in Indexed, Exists(n)', n.idx >= index' PROVE FALSE
    <3>1. n # Name("log", i)
      BY <1>a, <2>2, <2>3, <2>4, NameFields
    <3>2. Exists(n)
      BY <2>2, <2>4, <3>1, IndexedFacts DEF Exists
    <3>3. n.idx >= index /\ n # liveFileName
      BY <1>a, <1>b, <2>1, <2>2, <2>3, <2>4, IndexedFacts
    <3>4. QED
      BY <2>1, <3>2, <3>3 DEF AheadBody
  <2>5. doom' = {} /\ pc' \in {"gzip", "prune"}
    BY <2>1, <2>2 DEF AheadBody
  <2>6. (~ Exists(liveFileName)' /\ (pc' = "gzip" => gzIdx' = i)) \/ (faults' > 0 /\ pc' = "prune")
    <3>1. CASE disk'[Live] = Absent /\ gzIdx' = i
      BY <2>1, <3>1 DEF Exists
    <3>2. CASE pc' = "prune" /\ faults' > faults
      BY <1>0, <3>2
    <3>3. QED
      BY <2>2, <3>1, <3>2
  <2>7. QED
    BY <2>1, <2>3, <2>4, <2>5, <2>6 DEF AheadBody, Busy
<1>7. CASE RotateIndexed
  <2>1. /\ pc = "rotate" /\ ~ cfg.stable /\ index < MaxIndex /\ index' = index + 1
        /\ gzIdx' = index /\ UNCHANGED <<disk, cfg, doom, written>> /\ pc' \in {"gzip", "prune"}
    BY <1>7 DEF RotateIndexed, history
  <2>2. index + 1 \in Indices
    BY <2>1, TypeFacts, Params DEF Indices
  <2>3. liveFileName' = Name("log", index + 1) /\ liveFileName = Name("log", index)
    BY <2>1 DEF liveFileName
  <2>4. ASSUME NEW n \in Indexed, Exists(n), n.idx >= index + 1 PROVE FALSE
    <3>1. n.idx >= index /\ n # liveFileName
      BY <1>a, <1>b, <2>3, <2>4, NameFields
    <3>2. QED
      BY <2>1, <2>4, <3>1 DEF AheadBody
  <2>5. ~ Exists(Name("log", index + 1))
    <3>1. Name("log", index + 1) \in Indexed /\ Name("log", index + 1).idx >= index + 1
      BY <1>b, <2>2, IndexedFacts, NameFields
    <3>2. QED
      BY <2>4, <3>1
  <2>6. gzIdx' = index' - 1
    BY <1>b, <2>1
  <2>7. QED
    BY <2>1, <2>3, <2>4, <2>5, <2>6 DEF AheadBody, Exists
<1>8. CASE Gzip
  <2>1. /\ Busy /\ (Busy' \/ pc' = "prune") /\ liveFileName' = liveFileName
        /\ UNCHANGED <<cfg, index, gzIdx, doom, written>>
        /\ \A n \in Names \ {src, dst, tmp} : disk'[n] = disk[n]
        /\ disk'[src] \in {disk[src], Absent}
    BY <1>8, GzipFacts
  <2>2. gzIdx = index - 1 /\ gzIdx \in Nat
    BY <2>1, TypeFacts DEF AheadBody
  <2>3. pc \notin {"construct", "remove", "down"} /\ pc' \notin {"construct", "remove", "down"}
    BY <2>1 DEF Busy
  <2>4. ASSUME NEW n \in Indexed, Exists(n)', n.idx >= index, n # liveFileName PROVE FALSE
    <3>1. n \notin {src, dst, tmp}
      BY <1>a, <1>b, <2>2, <2>4, NameFields DEF src, dst, tmp
    <3>2. Exists(n)
      BY <1>a, <2>1, <2>4, <3>1 DEF Exists
    <3>3. QED
      BY <2>3, <2>4, <3>2 DEF AheadBody
  <2>5. \A n \in Names : n.kind \in {"log", "live"} /\ Exists(n)' => Exists(n)
    BY <2>1, NameFields DEF Exists, dst, tmp
  <2>6. disk'[liveFileName] = Absent /\ (~ cfg.stable => ~ Exists(Live)')
    <3>1. liveFileName \in Names /\ liveFileName.kind \in {"log", "live"} /\ ~ Exists(liveFileName)
      BY <2>1, <2>3, TypeFacts, NameFields DEF liveFileName, AheadBody
    <3>2. QED
      BY <2>5, <3>1, NameFields DEF AheadBody, Exists
  <2>7. QED
    BY <2>1, <2>2, <2>3, <2>4, <2>6 DEF AheadBody, Exists
<1>9. CASE Prune
  <2>1. /\ pc = "prune" /\ pc' = "remove" /\ UNCHANGED <<disk, cfg, index, written>>
        /\ faults' >= faults
    BY <1>9, PruneFacts
  <2>2. QED
    BY <1>0, <2>1 DEF AheadBody, Busy, Exists, liveFileName
<1>10. CASE Pruned
  <2>1. /\ pc = "remove" /\ pc' = "return" /\ doom' = {}
        /\ UNCHANGED <<disk, cfg, index, written>>
    BY <1>10 DEF Pruned, process, history
  <2>2. QED
    BY <2>1 DEF AheadBody, Busy, Exists, liveFileName
<1>11. CASE Return
  <2>1. /\ pc = "return" /\ pc' = "idle" /\ UNCHANGED <<disk, cfg, index, doom, written>>
    BY <1>11 DEF Return, process, history
  <2>2. QED
    BY <2>1 DEF AheadBody, Busy, Exists, liveFileName
<1>12. CASE Crash
  BY <1>12 DEF Crash, AheadBody, Busy, Exists
<1>13. CASE Tick \/ UNCHANGED vars
  <2>1. UNCHANGED <<disk, pc, cfg, index, gzIdx, doom, written, faults>>
    BY <1>13 DEF Tick, vars, process, frame, history, bounds, failures
  <2>2. QED
    BY <2>1 DEF AheadBody, Busy, Exists, liveFileName
<1>14. QED
  BY <1>1, <1>2, <1>3, <1>4, <1>5, <1>6, <1>7, <1>8, <1>9, <1>10, <1>11, <1>12, <1>13 DEF Next

-----------------------------------------------------------------------------
(* What the folder holds, message by message *)

\* The files a reader looks into, and what he finds in one.
Data == {n \in Names : n.kind # "tmp"}
Msgs(n) == IF Exists(n) THEN disk[n].msgs ELSE {}

\* Positions in the lexical order.
LEMMA DataFacts ==
    /\ \A n \in Data : n \in Names /\ n.kind \in {"log", "gz", "live"} /\ LexRank(n) \in Nat
    /\ \A n \in Indexed : n \in Data /\ LexRank(n) = n.idx /\ LexRank(n) <= MaxIndex
    /\ \A n \in Data : n \in Indexed \/ n = Live
    /\ LexRank(Live) = MaxIndex + 1 /\ MaxIndex \in Nat /\ Live \in Data
<1>1. MaxIndex \in Nat
  BY Params
<1>2. \A n \in Data : n \in Names /\ n.kind \in {"log", "gz", "live"} /\ (n \in Indexed \/ n = Live)
  BY NameFields DEF Data, Indexed
<1>3. \A n \in Indexed : n \in Data /\ LexRank(n) = n.idx /\ n.idx \in Nat /\ n.idx <= MaxIndex
  BY IndexedFacts, NameFields DEF Data, Indexed, LexRank
<1>4. LexRank(Live) = MaxIndex + 1 /\ Live \in Data
  BY NameFields DEF LexRank, Data
<1>5. QED
  BY <1>1, <1>2, <1>3, <1>4

\* What a reader finds is what the files hold.
LEMMA ReadableMsgs ==
    /\ \A x : x \in Readable <=> \E n \in Data : x \in Msgs(n)
    /\ \A x : x \in Readable' <=> \E n \in Data : x \in Msgs(n)'
<1>1. ASSUME NEW x PROVE x \in Readable <=> \E n \in Data : x \in Msgs(n)
  BY DEF Readable, Data, Msgs, Exists
<1>2. ASSUME NEW x PROVE x \in Readable' <=> \E n \in Data : x \in Msgs(n)'
  BY DEF Readable, Data, Msgs, Exists
<1>3. QED
  BY <1>1, <1>2

\* Files that stay the same, or come empty, hold the same.
LEMMA SameMsgs ==
    ASSUME NEW n \in Names,
           \/ disk'[n] = disk[n]
           \/ disk'[n] # Absent /\ Exists(n) /\ disk'[n].msgs = disk[n].msgs
           \/ disk'[n] # Absent /\ ~ Exists(n) /\ disk'[n].msgs = {}
    PROVE  Msgs(n)' = Msgs(n)
BY DEF Msgs, Exists

\* Compression moves what the files of one index hold between them.
LEMMA GzipMsgs ==
    ASSUME TypeInv, TypeInv', GzInv, Clean, CompleteBody, Gzip,
           NEW s, s = src, NEW d, d = dst
    PROVE  /\ \A n \in Data : n \notin {s, d} => Msgs(n)' = Msgs(n)
           /\ \A x : x \in Msgs(s)' \/ x \in Msgs(d)' <=> x \in Msgs(s) \/ x \in Msgs(d)
<1>1. /\ Busy /\ src' = s /\ dst' = d
      /\ \A n \in Names \ {s, d, tmp} : disk'[n] = disk[n]
      /\ disk'[s] \in {disk[s], Absent}
      /\ pc # "gzdrop" => disk'[s] = disk[s]
      /\ pc = "gzdrop" => disk'[d] = disk[d]
  BY GzipFacts
<1>2. /\ pc \in {"gzip", "gzcopy", "gzdrop"} => disk'[d] = disk[d]
      /\ pc = "gzrename" => disk'[d] \in {disk[d], disk[tmp]}
      /\ pc = "gzstamp" => disk'[d].msgs = disk[d].msgs
  BY GzipTarget
<1>3. /\ s \in Names /\ d \in Names /\ tmp \in Names /\ s # d /\ gzIdx \in Indices
      /\ disk[s] # Absent /\ tmp.kind = "tmp"
      /\ s = Name("log", gzIdx) /\ d = Name("gz", gzIdx)
  BY <1>1, GzNames, NameFields DEF src, dst, tmp
<1>4. ASSUME NEW n \in Data, n \notin {s, d} PROVE Msgs(n)' = Msgs(n)
  <2>1. n \in Names /\ n # tmp
    BY <1>3, DataFacts DEF Data
  <2>2. QED
    BY <1>1, <1>4, <2>1, SameMsgs
<1>5. CASE pc \in {"gzip", "gzcopy"}
  <2>1. disk'[s] = disk[s] /\ disk'[d] = disk[d]
    BY <1>1, <1>2, <1>5
  <2>2. Msgs(s)' = Msgs(s) /\ Msgs(d)' = Msgs(d)
    BY <1>3, <2>1, SameMsgs
  <2>3. QED
    BY <1>4, <2>2
<1>6. CASE pc = "gzrename"
  <2>1. ~ Exists(d) /\ disk'[s] = disk[s] /\ disk[tmp].msgs = disk[s].msgs
    BY <1>1, <1>3, <1>6, GzNames DEF GzInv, CompleteBody
  <2>2. disk[tmp] # Absent
    BY <1>6 DEF TypeInv, Control, Exists
  <2>3. Msgs(s)' = disk[s].msgs /\ Msgs(s) = disk[s].msgs /\ Msgs(d) = {}
    BY <1>3, <2>1 DEF Msgs, Exists
  <2>4. Msgs(d)' = {} \/ Msgs(d)' = disk[s].msgs
    BY <1>2, <1>6, <2>1, <2>2 DEF Msgs, Exists
  <2>5. QED
    BY <1>4, <2>3, <2>4
<1>7. CASE pc = "gzstamp"
  <2>1. pc' = "gzdrop"
    BY <1>7 DEF Gzip, GzipCreate, GzipCopy, GzipRename, GzipStamp, GzipDrop, GzipFails, Step
  <2>2. disk[d] # Absent /\ disk'[d] # Absent
    BY <1>1, <1>7, <2>1 DEF TypeInv, Control, Exists
  <2>3. Msgs(d)' = Msgs(d) /\ Msgs(s)' = Msgs(s)
    BY <1>1, <1>2, <1>7, <2>2 DEF Msgs, Exists
  <2>4. QED
    BY <1>4, <2>3
<1>8. CASE pc = "gzdrop"
  <2>1. Exists(d) /\ Exists(s)
    BY <1>3, <1>8 DEF TypeInv, Control, Exists
  <2>2. Msgs(s) \subseteq Msgs(d)
    BY <1>3, <2>1 DEF CompleteBody, GzComplete, Msgs
  <2>3. Msgs(d)' = Msgs(d)
    BY <1>1, <1>3, <1>8, SameMsgs
  <2>4. Msgs(s)' = {} \/ Msgs(s)' = Msgs(s)
    BY <1>1, <1>3 DEF Msgs, Exists
  <2>5. QED
    BY <1>4, <2>2, <2>3, <2>4
<1>9. QED
  BY <1>1, <1>5, <1>6, <1>7, <1>8 DEF Busy

\* A step other than an append, a rotation by renaming or a removal leaves every
\* message at its position in the order of the files.
Quiet ==
    \/ Construct \/ Constructed \/ Open \/ WriteNewline \/ RotateIndexed \/ Gzip
    \/ Prune \/ Pruned \/ Return \/ Crash \/ Tick \/ UNCHANGED vars

\* What such a step keeps.
LEMMA QuietFacts ==
    ASSUME TypeInv, TypeInv', GzInv, Clean, CompleteBody, Quiet
    PROVE  /\ nextMsg' = nextMsg
           /\ written' = written \/ (Construct /\ written' = {})
           /\ \A n \in Data : \A x \in Msgs(n)' :
                  \E m \in Data : LexRank(m) = LexRank(n) /\ x \in Msgs(m)
           /\ \A m \in Data : \A x \in Msgs(m) :
                  \E n \in Data : LexRank(n) = LexRank(m) /\ x \in Msgs(n)'
<1>1. CASE Construct
  <2>1. disk' = disk /\ nextMsg' = nextMsg /\ (written' = written \/ written' = {})
    BY <1>1, ConstructFacts
  <2>2. \A n : Msgs(n)' = Msgs(n)
    BY <2>1 DEF Msgs, Exists
  <2>3. QED
    BY <1>1, <2>1, <2>2
<1>2. CASE Constructed \/ RotateIndexed \/ Prune \/ Pruned \/ Return \/ Crash \/ Tick \/ UNCHANGED vars
  <2>1. disk' = disk /\ nextMsg' = nextMsg /\ written' = written
    BY <1>2 DEF Constructed, RotateIndexed, Prune, Pruned, Return, Crash, Tick, vars, history
  <2>2. \A n : Msgs(n)' = Msgs(n)
    BY <2>1 DEF Msgs, Exists
  <2>3. QED
    BY <2>1, <2>2
<1>3. CASE Open
  <2>1. /\ nextMsg' = nextMsg /\ written' = written /\ liveFileName \in Names
        /\ \A m \in Names : m # liveFileName \/ Exists(m) => disk'[m] = disk[m]
        /\ disk'[liveFileName] \in {disk[liveFileName], Empty}
    BY <1>3, OpenFacts
  <2>2. Empty.msgs = {} /\ Empty # Absent
    <3>1. Empty \in [msgs : SUBSET (1..MaxMsgs), size : Nat, mtime : Nat]
      BY TypeFacts DEF Empty
    <3>2. QED
      BY <3>1, Params DEF Empty
  <2>3. \A n \in Names : Msgs(n)' = Msgs(n)
    BY <2>1, <2>2 DEF Msgs, Exists
  <2>4. QED
    BY <2>1, <2>3, DataFacts
<1>4. CASE WriteNewline
  <2>1. /\ nextMsg' = nextMsg /\ written' = written /\ liveFileName \in Names
        /\ Exists(liveFileName) /\ disk'[liveFileName] # Absent
        /\ \A m \in Names \ {liveFileName} : disk'[m] = disk[m]
        /\ disk'[liveFileName].msgs = disk[liveFileName].msgs
    BY <1>4, WriteNewlineFacts
  <2>2. \A n \in Names : Msgs(n)' = Msgs(n)
    BY <2>1 DEF Msgs, Exists
  <2>3. QED
    BY <2>1, <2>2, DataFacts
<1>5. CASE Gzip
  <2>1. nextMsg' = nextMsg /\ written' = written
    BY <1>5, GzipFacts
  <2>2. PICK s, d : s = src /\ d = dst
    OBVIOUS
  <2>3. /\ \A n \in Data : n \notin {s, d} => Msgs(n)' = Msgs(n)
        /\ \A x : x \in Msgs(s)' \/ x \in Msgs(d)' <=> x \in Msgs(s) \/ x \in Msgs(d)
    BY <1>5, <2>2, GzipMsgs
  <2>4. gzIdx \in Indices
    BY <1>5, GzipFacts, GzNames
  <2>5. s \in Data /\ d \in Data /\ LexRank(s) = LexRank(d)
    BY <2>2, <2>4, IndexedFacts, DataFacts, NameFields DEF src, dst
  <2>6. ASSUME NEW n \in Data, NEW x \in Msgs(n)'
        PROVE  \E m \in Data : LexRank(m) = LexRank(n) /\ x \in Msgs(m)
    BY <2>3, <2>5, <2>6
  <2>7. ASSUME NEW m \in Data, NEW x \in Msgs(m)
        PROVE  \E n \in Data : LexRank(n) = LexRank(m) /\ x \in Msgs(n)'
    BY <2>3, <2>5, <2>7
  <2>8. QED
    BY <2>1, <2>6, <2>7
<1>6. QED
  BY <1>1, <1>2, <1>3, <1>4, <1>5 DEF Quiet

\* The names of the files are in the order of their messages.
OrderBody ==
    /\ \A x \in written : x \in Nat /\ x < nextMsg
    /\ \A n \in Data : \A x \in Msgs(n) : x \in Nat /\ x < nextMsg
    /\ \A m, n \in Data : LexRank(m) < LexRank(n)
           => \A x \in Msgs(m), y \in Msgs(n) : x < y

OrderInv == HasRing => OrderBody

\* A step keeps the order by which no message changes its position.
LEMMA OrderFrame ==
    ASSUME OrderBody, nextMsg' = nextMsg, written' \subseteq written,
           \A n \in Data : \A x \in Msgs(n)' :
               \E m \in Data : LexRank(m) = LexRank(n) /\ x \in Msgs(m)
    PROVE  OrderBody'
<1>1. \A x \in written' : x \in Nat /\ x < nextMsg'
  BY DEF OrderBody
<1>2. ASSUME NEW n \in Data, NEW x \in Msgs(n)'
      PROVE  x \in Nat /\ x < nextMsg'
  BY DEF OrderBody
<1>3. ASSUME NEW m \in Data, NEW n \in Data, LexRank(m) < LexRank(n),
             NEW x \in Msgs(m)', NEW y \in Msgs(n)'
      PROVE  x < y
  <2>1. PICK a \in Data : LexRank(a) = LexRank(m) /\ x \in Msgs(a)
    OBVIOUS
  <2>2. PICK b \in Data : LexRank(b) = LexRank(n) /\ y \in Msgs(b)
    OBVIOUS
  <2>3. QED
    BY <1>3, <2>1, <2>2 DEF OrderBody
<1>4. QED
  BY <1>1, <1>2, <1>3 DEF OrderBody

\* While a message is written every other file that holds one precedes the live file.
LEMMA LiveIsLast ==
    ASSUME TypeInv, AheadBody, pc \in {"body", "newline", "rotate"}
    PROVE  /\ liveFileName \in Data
           /\ \A n \in Data : n # liveFileName /\ Exists(n) => LexRank(n) < LexRank(liveFileName)
<1>1. liveFileName \in Data
  BY TypeFacts, NameFields DEF liveFileName, Data
<1>2. ASSUME NEW n \in Data, n # liveFileName, Exists(n)
      PROVE  LexRank(n) < LexRank(liveFileName)
  <2>1. CASE cfg.stable
    <3>1. liveFileName = Live /\ n \in Indexed
      BY <1>2, <2>1, DataFacts DEF liveFileName
    <3>2. QED
      BY <3>1, DataFacts
  <2>2. CASE ~ cfg.stable
    <3>1. liveFileName = Name("log", index) /\ n \in Indexed
      BY <1>2, <2>2, DataFacts DEF liveFileName, AheadBody
    <3>2. ~ (n.idx >= index)
      BY <1>2, <3>1 DEF AheadBody
    <3>3. n.idx \in Nat /\ index \in Nat /\ liveFileName \in Indexed /\ liveFileName.idx = index
      BY <1>1, <3>1, IndexedFacts, TypeFacts, NameFields, DataFacts
    <3>4. QED
      BY <3>1, <3>2, <3>3, DataFacts
  <2>3. QED
    BY <2>1, <2>2
<1>3. QED
  BY <1>1, <1>2

\* An append puts its message last.
LEMMA OrderWriteBody ==
    ASSUME TypeInv, AheadBody, OrderBody, WriteBody, faults' = faults
    PROVE  OrderBody'
<1>1. /\ pc = "body" /\ nextMsg' = nextMsg + 1 /\ nextMsg \in Nat
      /\ Exists(liveFileName) /\ liveFileName \in Names
      /\ \A m \in Names \ {liveFileName} : disk'[m] = disk[m]
      /\ disk'[liveFileName] # Absent
      /\ disk'[liveFileName].msgs = disk[liveFileName].msgs \cup {nextMsg}
      /\ written' = written \cup {nextMsg}
  BY WriteBodyFacts, TypeFacts
<1>2. PICK live : live = liveFileName
  OBVIOUS
<1>3. /\ live \in Data /\ \A n \in Data : n # live /\ Exists(n) => LexRank(n) < LexRank(live)
  BY <1>1, <1>2, LiveIsLast
<1>4. \A n \in Data : n # live => Msgs(n)' = Msgs(n)
  BY <1>1, <1>2, DataFacts, SameMsgs
<1>5. Msgs(live)' = Msgs(live) \cup {nextMsg}
  BY <1>1, <1>2 DEF Msgs, Exists
<1>6. \A n \in Data : \A x \in Msgs(n)' : x \in Msgs(n) \/ (n = live /\ x = nextMsg)
  BY <1>4, <1>5
<1>7. \A x \in written' : x \in Nat /\ x < nextMsg'
  BY <1>1 DEF OrderBody
<1>8. ASSUME NEW n \in Data, NEW x \in Msgs(n)'
      PROVE  x \in Nat /\ x < nextMsg'
  BY <1>1, <1>6, <1>8 DEF OrderBody
<1>9. ASSUME NEW m \in Data, NEW n \in Data, LexRank(m) < LexRank(n),
             NEW x \in Msgs(m)', NEW y \in Msgs(n)'
      PROVE  x < y
  <2>1. m # live
    <3>1. SUFFICES ASSUME m = live PROVE FALSE
      OBVIOUS
    <3>2. n # live /\ Exists(n)
      BY <1>4, <1>9, <3>1, DataFacts DEF Msgs
    <3>3. QED
      BY <1>3, <1>9, <3>1, <3>2, DataFacts
  <2>2. x \in Msgs(m) /\ x \in Nat /\ x < nextMsg
    BY <1>6, <1>9, <2>1 DEF OrderBody
  <2>3. CASE y \in Msgs(n)
    BY <1>9, <2>2, <2>3 DEF OrderBody
  <2>4. CASE y = nextMsg
    BY <2>2, <2>4
  <2>5. QED
    BY <1>6, <2>3, <2>4
<1>10. QED
  BY <1>7, <1>8, <1>9 DEF OrderBody

\* Where the messages of the live file go when it is renamed.
LEMMA RotateStableMsgs ==
    ASSUME TypeInv, AheadBody, RotateStable, faults' = faults
    PROVE  \E i \in Indices :
             /\ index' = i + 1 /\ i >= index /\ index \in Nat
             /\ Msgs(Name("log", i))' = Msgs(Live) /\ Msgs(Live)' = {}
             /\ Msgs(Name("log", i)) = {}
             /\ \A n \in Data : n \notin {Live, Name("log", i)} => Msgs(n)' = Msgs(n)
             /\ \A n \in Indexed : Exists(n) => LexRank(n) < i
<1>1. /\ pc = "rotate" /\ disk[Live] # Absent /\ liveFileName = Live /\ index \in Nat
      /\ \E i \in Indices :
           /\ i >= index /\ index' = i + 1
           /\ disk'[Name("log", i)] = disk[Live] /\ disk'[Live] = Absent
           /\ \A n \in Names : n \notin {Live, Name("log", i)} => disk'[n] = disk[n]
  BY RotateStableFacts, TypeFacts
<1>2. PICK i \in Indices :
        /\ i >= index /\ index' = i + 1
        /\ disk'[Name("log", i)] = disk[Live] /\ disk'[Live] = Absent
        /\ \A n \in Names : n \notin {Live, Name("log", i)} => disk'[n] = disk[n]
  BY <1>1
<1>3. Name("log", i) \in Indexed /\ i \in Nat /\ Name("log", i).idx = i /\ Name("log", i) # Live
  BY IndexedFacts, NameFields
<1>4. \A n \in Indexed : Exists(n) => ~ (n.idx >= index)
  BY <1>1, IndexedFacts DEF AheadBody
<1>5. \A n \in Indexed : Exists(n) => LexRank(n) < i
  BY <1>1, <1>2, <1>3, <1>4, IndexedFacts, DataFacts
<1>6. ~ Exists(Name("log", i))
  BY <1>1, <1>2, <1>3, <1>4
<1>7. Msgs(Name("log", i))' = Msgs(Live) /\ Msgs(Live)' = {} /\ Msgs(Name("log", i)) = {}
  BY <1>1, <1>2, <1>6 DEF Msgs, Exists
<1>8. \A n \in Data : n \notin {Live, Name("log", i)} => Msgs(n)' = Msgs(n)
  BY <1>2, DataFacts, SameMsgs
<1>9. QED
  BY <1>1, <1>2, <1>5, <1>7, <1>8

\* A renamed live file stays behind all others.
LEMMA OrderRotateStable ==
    ASSUME TypeInv, AheadBody, OrderBody, RotateStable, faults' = faults
    PROVE  OrderBody'
<1>1. nextMsg' = nextMsg /\ written' = written
  BY RotateStableFacts
<1>2. PICK i \in Indices :
        /\ Msgs(Name("log", i))' = Msgs(Live) /\ Msgs(Live)' = {}
        /\ \A n \in Data : n \notin {Live, Name("log", i)} => Msgs(n)' = Msgs(n)
        /\ \A n \in Indexed : Exists(n) => LexRank(n) < i
  BY RotateStableMsgs
<1>3. PICK b : b = Name("log", i)
  OBVIOUS
<1>4. b \in Indexed /\ b \in Data /\ Live \in Data /\ LexRank(b) = i /\ i \in Nat
  BY <1>3, IndexedFacts, NameFields, DataFacts
<1>5. \A x \in written' : x \in Nat /\ x < nextMsg'
  BY <1>1 DEF OrderBody
<1>6. ASSUME NEW n \in Data, NEW x \in Msgs(n)'
      PROVE  \/ n = b /\ x \in Msgs(Live)
             \/ n # b /\ n # Live /\ x \in Msgs(n) /\ n \in Indexed /\ LexRank(n) < i
  <2>1. n # Live
    BY <1>2, <1>6
  <2>2. CASE n = b
    BY <1>2, <1>3, <1>6, <2>2
  <2>3. CASE n # b
    <3>1. x \in Msgs(n) /\ n \in Indexed
      BY <1>2, <1>3, <1>6, <2>1, <2>3, DataFacts
    <3>2. Exists(n)
      BY <3>1 DEF Msgs
    <3>3. QED
      BY <1>2, <2>1, <2>3, <3>1, <3>2
  <2>4. QED
    BY <2>2, <2>3
<1>7. \A n \in Data : \A x \in Msgs(n)' : x \in Nat /\ x < nextMsg'
  BY <1>1, <1>4, <1>6 DEF OrderBody
<1>8. ASSUME NEW m \in Data, NEW n \in Data, LexRank(m) < LexRank(n),
             NEW x \in Msgs(m)', NEW y \in Msgs(n)'
      PROVE  x < y
  <2>1. m # b
    BY <1>4, <1>6, <1>8, DataFacts
  <2>2. x \in Msgs(m) /\ m \in Indexed
    BY <1>6, <2>1
  <2>3. CASE n = b
    <3>1. y \in Msgs(Live) /\ LexRank(m) < LexRank(Live)
      BY <1>6, <2>2, <2>3, DataFacts
    <3>2. QED
      BY <1>4, <2>2, <3>1 DEF OrderBody
  <2>4. CASE n # b
    BY <1>6, <1>8, <2>2, <2>4 DEF OrderBody
  <2>5. QED
    BY <2>3, <2>4
<1>9. QED
  BY <1>5, <1>7, <1>8 DEF OrderBody

\* Every step keeps the order.
LEMMA OrderStep ==
    TypeInv /\ GzInv /\ CompleteInv /\ AheadInv /\ OrderInv /\ [Next]_vars => OrderInv'
<1> SUFFICES ASSUME TypeInv, GzInv, CompleteBody, AheadBody, OrderBody, HasRing, [Next]_vars
             PROVE  OrderBody'
  <2>1. [Next]_vars => (HasRing' => HasRing)
    <3>1. [Next]_vars => scenario' = scenario
      BY ScenarioFixed
    <3>2. QED
      BY <3>1 DEF HasRing
  <2>2. TypeInv /\ HasRing => Clean
    BY RingFacts
  <2>3. QED
    BY <2>1, <2>2, NoFailingFresh DEF AheadInv, CompleteInv, OrderInv
<1>0. faults' = faults /\ TypeInv' /\ Clean
  BY RingStepFacts, RingFacts
<1>1. CASE Quiet
  BY <1>0, <1>1, QuietFacts, OrderFrame
<1>2. ASSUME NEW from \in {"construct", "remove"}, Remove(from) PROVE OrderBody'
  <2>1. /\ nextMsg' = nextMsg /\ written' = written
        /\ \A n \in Names \ {NextDoomed} : disk'[n] = disk[n]
        /\ disk'[NextDoomed] \in {disk[NextDoomed], Absent}
    BY <1>2, RemoveFacts
  <2>2. \A n \in Names : disk'[n] = disk[n] \/ disk'[n] = Absent
    BY <2>1
  <2>3. \A n \in Data : \A x \in Msgs(n)' : x \in Msgs(n)
    BY <2>2, DataFacts DEF Msgs, Exists
  <2>4. QED
    BY <2>1, <2>3, OrderFrame
<1>3. CASE WriteBody
  BY <1>0, <1>3, OrderWriteBody
<1>4. CASE RotateStable
  BY <1>0, <1>4, OrderRotateStable
<1>5. QED
  BY <1>1, <1>2, <1>3, <1>4 DEF Next, Quiet

-----------------------------------------------------------------------------
(* What pruning takes *)

\* What is older than a file to be removed is to be removed as well.
PruneBody ==
    pc = "remove" =>
        \A d \in doom \cap Data : \A m \in Data :
            Exists(m) /\ RemovalRank(m) <= RemovalRank(d) => m \in doom

PruneInv == HasRing => PruneBody

\* The order of removals while pruning: by position, then plaintext before .gz.
LEMMA RemovalFacts ==
    ASSUME pc = "remove", ~ cfg.age, NEW m \in Data, NEW d \in Data
    PROVE  /\ RemovalRank(m) <= RemovalRank(d) => LexRank(m) <= LexRank(d)
           /\ LexRank(m) < LexRank(d) => RemovalRank(m) <= RemovalRank(d)
           /\ LexRank(m) = LexRank(d) /\ m # d /\ RemovalRank(d) <= RemovalRank(m)
                  => d.kind = "log" /\ m.kind = "gz" /\ m.idx = d.idx
<1>1. ASSUME NEW n \in Data
      PROVE  RemovalRank(n) = LexRank(n) * 4 + (IF n.kind = "log" THEN 1 ELSE IF n.kind = "gz" THEN 2 ELSE 3)
  BY DataFacts DEF RemovalRank
<1>2. LexRank(m) \in Nat /\ LexRank(d) \in Nat
  BY DataFacts
<1>3. /\ RemovalRank(m) <= RemovalRank(d) => LexRank(m) <= LexRank(d)
      /\ LexRank(m) < LexRank(d) => RemovalRank(m) <= RemovalRank(d)
  BY <1>1, <1>2
<1>4. ASSUME LexRank(m) = LexRank(d), m # d, RemovalRank(d) <= RemovalRank(m)
      PROVE  d.kind = "log" /\ m.kind = "gz" /\ m.idx = d.idx
  <2>1. m \in Indexed /\ d \in Indexed
    BY <1>4, DataFacts
  <2>2. m.idx = d.idx /\ m.kind # d.kind
    BY <1>4, <2>1, DataFacts, IndexedFacts
  <2>3. ~ (m.kind = "log" /\ d.kind = "gz")
    BY <1>1, <1>2, <1>4
  <2>4. QED
    BY <2>1, <2>2, <2>3 DEF Indexed
<1>5. QED
  BY <1>3, <1>4

\* The names are finitely many.
LEMMA NamesFinite == IsFiniteSet(Names)
<1>1. IsFiniteSet(Indices)
  BY Params, FS_Interval DEF Indices
<1>2. ASSUME NEW k \in {"log", "gz", "tmp"} PROVE IsFiniteSet({Name(k, i) : i \in Indices})
  <2> DEFINE f == [i \in Indices |-> Name(k, i)]
  <2>1. f \in Surjection(Indices, {Name(k, i) : i \in Indices})
    BY DEF Surjection
  <2>2. QED
    BY <1>1, <2>1, FS_Surjection
<1>3. Names = {Name("log", i) : i \in Indices} \cup {Name("gz", i) : i \in Indices}
                  \cup {Name("tmp", i) : i \in Indices} \cup {Live}
  BY DEF Names
<1>4. IsFiniteSet({Live})
  BY FS_Singleton
<1>5. QED
  BY <1>2, <1>3, <1>4, FS_Union

\* When pruning begins the folder holds indexed files only, all behind the index.
LEMMA BeforePrune ==
    ASSUME TypeInv, CompleteBody, AheadBody, pc = "prune", faults = 0
    PROVE  /\ \A n \in Data : Exists(n) =>
                  /\ n \in Indexed /\ n.idx < index /\ n # liveFileName
                  /\ n.kind = "log" \/ cfg.compress
           /\ \A n \in Data : Exists(n) => n \in Backups(Found)
<1>1. ASSUME NEW n \in Data, Exists(n)
      PROVE  /\ n \in Indexed /\ n.idx < index /\ n # liveFileName
             /\ n.kind = "log" \/ cfg.compress
  <2>1. n # liveFileName /\ n # Live
    BY <1>1 DEF AheadBody, liveFileName
  <2>2. n \in Indexed
    BY <2>1, DataFacts
  <2>3. n.idx \in Nat /\ index \in Nat /\ ~ (n.idx >= index)
    BY <1>1, <2>1, <2>2, IndexedFacts, TypeFacts DEF AheadBody
  <2>4. n.kind = "log" \/ cfg.compress
    BY <1>1, <2>2, IndexedFacts DEF CompleteBody, Indexed
  <2>5. QED
    BY <2>1, <2>2, <2>3, <2>4
<1>2. ASSUME NEW n \in Data, Exists(n) PROVE n \in Backups(Found)
  BY <1>1, <1>2, IndexedFacts DEF Backups, Rotated, Listed, Found, Indexed
<1>3. QED
  BY <1>1, <1>2

\* Both ways of pruning take the files up to some position, and not the last.
LEMMA PruneCut ==
    ASSUME Roomy, TypeInv, CompleteBody, AheadBody, HasRing, Prune
    PROVE  /\ \A d \in doom' : \A m \in Data :
                  Exists(m) /\ LexRank(m) <= LexRank(d) => m \in doom'
           /\ \A n \in Data : Exists(n) /\ n.idx = index - 1 => n \notin doom'
<1> USE DEF Oldest
<1>1. /\ pc = "prune" /\ doom' = IF ZeroOption(cfg) THEN VerifyDoom(Found) ELSE PruneDoom(Found)
  BY PruneFacts, RingFacts
<1>2. /\ MaxFiles \in Nat /\ MaxFiles >= 1 /\ (~ ZeroOption(cfg) => MaxFiles >= 2)
      /\ index \in Nat
  BY TypeFacts DEF Roomy, MaxFiles, TypeInv, TypeOK
<1>3. CASE ZeroOption(cfg)
  <2> DEFINE files == Listed("log", Found) \cup Listed("live", Found)
             below(x) == {y \in files : LexRank(y) < LexRank(x)}
             n == Cardinality(files) - MaxFiles
  <2>1. doom' = {x \in files : Cardinality(below(x)) < n}
    BY <1>1, <1>3 DEF VerifyDoom, Found
  <2>2. files \subseteq Data /\ IsFiniteSet(files) /\ Cardinality(files) \in Nat
    <3>1. files \subseteq Names /\ files \subseteq Data
      BY DEF Listed, Found, Data
    <3>2. QED
      BY <3>1, NamesFinite, FS_Subset, FS_CardinalityType
  <2>3. \A m \in Data : Exists(m) => m \in files /\ m \in Indexed /\ m.idx < index /\ m.kind = "log"
    <3>1. ~ cfg.compress
      BY <1>3 DEF ZeroOption
    <3>2. QED
      BY <1>1, <3>1, BeforePrune, RingFacts DEF Data, Listed, Found
  <2>4. \A x \in files : Exists(x)
    BY DEF Listed, Found
  <2>5. \A x : IsFiniteSet(below(x)) /\ Cardinality(below(x)) \in Nat
    BY <2>2, FS_Subset, FS_CardinalityType
  <2>a. \A x : x \in doom' <=> x \in files /\ Cardinality(below(x)) < Cardinality(files) - MaxFiles
    BY <2>1
  <2>b. \A x, y : y \in below(x) <=> y \in files /\ LexRank(y) < LexRank(x)
    OBVIOUS
  <2> HIDE DEF files, below, n
  <2>6. ASSUME NEW d \in doom', NEW m \in Data, Exists(m), LexRank(m) <= LexRank(d)
        PROVE  m \in doom'
    <3>1. d \in files /\ m \in files /\ Cardinality(below(d)) < Cardinality(files) - MaxFiles
      BY <2>a, <2>3, <2>6
    <3>2. ASSUME NEW y \in below(m) PROVE y \in below(d)
      <4>1. y \in files /\ LexRank(y) < LexRank(m)
        BY <2>b
      <4>2. LexRank(y) \in Nat /\ LexRank(m) \in Nat /\ LexRank(d) \in Nat
        BY <2>2, <3>1, <4>1, DataFacts
      <4>3. QED
        BY <2>b, <2>6, <4>1, <4>2
    <3>3. Cardinality(below(m)) <= Cardinality(below(d))
      BY <2>5, <3>2, FS_Subset
    <3>4. QED
      BY <1>2, <2>a, <2>2, <2>5, <3>1, <3>3
  <2>7. ASSUME NEW x \in Data, Exists(x), x.idx = index - 1 PROVE x \notin doom'
    <3>1. x \in files /\ x \in Indexed /\ x.kind = "log"
      BY <2>3, <2>7
    <3>2. ASSUME NEW y \in files \ {x} PROVE y \in below(x)
      <4>1. y \in Indexed /\ y.idx < index /\ y.kind = "log"
        BY <2>2, <2>3, <2>4
      <4>2. y.idx # x.idx
        BY <3>1, <3>2, <4>1, IndexedFacts
      <4>3. y.idx < x.idx
        BY <1>2, <2>7, <3>1, <4>1, <4>2, IndexedFacts
      <4>4. QED
        BY <2>b, <3>1, <4>1, <4>3, DataFacts
    <3>3. IsFiniteSet(files \ {x}) /\ Cardinality(files \ {x}) = Cardinality(files) - 1
      BY <2>2, <3>1, FS_RemoveElement
    <3>4. Cardinality(files) - 1 <= Cardinality(below(x))
      BY <2>5, <3>2, <3>3, FS_Subset
    <3>5. QED
      BY <1>2, <2>a, <2>2, <2>5, <3>4
  <2>8. QED
    BY <2>6, <2>7
<1>4. CASE ~ ZeroOption(cfg)
  <2> DEFINE paths(i) == {n \in Backups(Found) : n.idx = i}
             indices == {n.idx : n \in Backups(Found)}
             below(i) == {j \in indices : j < i}
             keep == IF MaxFiles = 0 THEN 0 ELSE MaxFiles - 1
             counted == {i \in indices : Cardinality(below(i)) < Cardinality(indices) - keep}
  <2>1. doom' = UNION {paths(i) : i \in counted}
    <3> DEFINE mtime(i) == Max({disk[n].mtime : n \in paths(i)})
               expired == {i \in indices : cfg.age /\ mtime(i) < now - MaxAge}
               survivors == indices \ expired
               chosen == Oldest(survivors, Cardinality(survivors) - keep, LAMBDA i : i)
    <3>1. doom' = UNION {paths(i) : i \in expired \cup chosen}
      BY <1>1, <1>4 DEF PruneDoom
    <3>2. expired = {}
      BY RingFacts
    <3>3. survivors = indices
      BY <3>2
    <3>4. chosen = counted
      BY <3>3
    <3>5. expired \cup chosen = counted
      BY <3>2, <3>4
    <3>6. QED
      BY <3>1, <3>5
  <2>2. \A d : d \in doom' <=> d \in Backups(Found) /\ d.idx \in counted
    <3>1. \A i, d : d \in paths(i) <=> d \in Backups(Found) /\ d.idx = i
      OBVIOUS
    <3> HIDE DEF paths, counted
    <3>2. QED
      BY <2>1, <3>1
  <2>3. Backups(Found) \subseteq Indexed /\ \A m \in Backups(Found) : Exists(m)
    BY DEF Backups, Rotated, Listed, Found, Indexed
  <2>4. \A m \in Data : Exists(m) => m \in Backups(Found) /\ m \in Indexed /\ m.idx < index
    BY <1>1, BeforePrune, RingFacts
  <2>5. indices \subseteq Indices /\ IsFiniteSet(indices) /\ Cardinality(indices) \in Nat
        /\ indices \subseteq Nat
    <3>1. \A m \in Backups(Found) : m.idx \in Indices
      BY <2>3, IndexedFacts
    <3>2. indices \subseteq Indices /\ IsFiniteSet(Indices) /\ Indices \subseteq Nat
      <4>1. indices \subseteq Indices
        BY <3>1
      <4>2. IsFiniteSet(Indices)
        BY Params, FS_Interval DEF Indices
      <4>3. QED
        BY <4>1, <4>2, NameFields
    <3>3. QED
      BY <3>2, FS_Subset, FS_CardinalityType
  <2>6. \A m \in Backups(Found) : m.idx \in indices
    OBVIOUS
  <2>7. keep \in Nat /\ keep >= 1
    BY <1>2, <1>4
  <2>8. \A i : IsFiniteSet(below(i)) /\ Cardinality(below(i)) \in Nat
    BY <2>5, FS_Subset, FS_CardinalityType
  <2>9. \A i : i \in counted <=> i \in indices /\ Cardinality(below(i)) < Cardinality(indices) - keep
    OBVIOUS
  <2>10. \A i, j : j \in below(i) <=> j \in indices /\ j < i
    OBVIOUS
  <2> HIDE DEF indices, below, keep, counted
  <2>11. ASSUME NEW d \in doom', NEW m \in Data, Exists(m), LexRank(m) <= LexRank(d)
        PROVE  m \in doom'
    <3>1. d \in Backups(Found) /\ d.idx \in counted /\ m \in Backups(Found) /\ m.idx <= d.idx
      BY <2>2, <2>3, <2>4, <2>11, DataFacts
    <3>2. m.idx \in indices /\ m.idx \in Nat /\ d.idx \in Nat
      BY <2>3, <2>6, <3>1, IndexedFacts
    <3>3. ASSUME NEW j \in below(m.idx) PROVE j \in below(d.idx)
      <4>1. j \in indices /\ j < m.idx /\ j \in Nat
        BY <2>5, <2>10
      <4>2. j < d.idx
        BY <3>1, <3>2, <4>1
      <4>3. QED
        BY <2>10, <4>1, <4>2
    <3>4. Cardinality(below(m.idx)) <= Cardinality(below(d.idx))
      BY <2>8, <3>3, FS_Subset
    <3>5. m.idx \in counted
      BY <2>5, <2>7, <2>8, <2>9, <3>1, <3>2, <3>4
    <3>6. QED
      BY <2>2, <3>1, <3>5
  <2>12. ASSUME NEW x \in Data, Exists(x), x.idx = index - 1 PROVE x \notin doom'
    <3>1. x.idx \in indices /\ x.idx \in Nat
      BY <2>4, <2>6, <2>12, IndexedFacts
    <3>2. ASSUME NEW j \in indices \ {x.idx} PROVE j \in below(x.idx)
      <4>1. PICK m \in Backups(Found) : j = m.idx
        BY <3>2 DEF indices
      <4>2. m \in Data
        BY <2>3, <4>1, DataFacts
      <4>3. j \in Nat /\ j < index
        BY <2>3, <2>4, <4>1, <4>2, IndexedFacts
      <4>4. j < x.idx
        BY <1>2, <2>12, <3>1, <3>2, <4>3
      <4>5. QED
        BY <2>10, <3>2, <4>4
    <3>3. IsFiniteSet(indices \ {x.idx}) /\ Cardinality(indices \ {x.idx}) = Cardinality(indices) - 1
      BY <2>5, <3>1, FS_RemoveElement
    <3>4. Cardinality(indices) - 1 <= Cardinality(below(x.idx))
      BY <2>8, <3>2, <3>3, FS_Subset
    <3>5. x.idx \notin counted
      BY <2>5, <2>7, <2>8, <2>9, <3>4
    <3>6. QED
      BY <2>2, <3>5
  <2>13. QED
    BY <2>11, <2>12
<1>5. QED
  BY <1>3, <1>4

\* Every step keeps what pruning is to take closed.
LEMMA PruneStep ==
    ASSUME Roomy
    PROVE  TypeInv /\ CompleteInv /\ AheadInv /\ PruneInv /\ [Next]_vars => PruneInv'
<1> SUFFICES ASSUME TypeInv, CompleteBody, AheadBody, PruneBody, HasRing, [Next]_vars, pc' = "remove"
             PROVE  PruneBody'
  <2>1. [Next]_vars => (HasRing' => HasRing)
    <3>1. [Next]_vars => scenario' = scenario
      BY ScenarioFixed
    <3>2. QED
      BY <3>1 DEF HasRing
  <2>2. TypeInv /\ HasRing => Clean
    BY RingFacts
  <2>3. QED
    BY <2>1, <2>2, NoFailingFresh DEF AheadInv, CompleteInv, PruneInv, PruneBody
<1>0. ~ cfg.age
  BY RingFacts
<1>1. CASE Prune
  <2>1. \A d \in doom' : \A m \in Data : Exists(m) /\ LexRank(m) <= LexRank(d) => m \in doom'
    BY <1>1, PruneCut
  <2>2. cfg' = cfg /\ \A n : Exists(n)' = Exists(n)
    BY <1>1 DEF Prune, Exists, process
  <2>3. ASSUME NEW m \in Data, NEW d \in Data, RemovalRank(m)' <= RemovalRank(d)'
        PROVE  LexRank(m) <= LexRank(d)
    <3>1. ASSUME NEW n \in Data
          PROVE  RemovalRank(n)' = LexRank(n) * 4 + (IF n.kind = "log" THEN 1 ELSE IF n.kind = "gz" THEN 2 ELSE 3)
      BY <1>0, <2>2, DataFacts DEF RemovalRank
    <3>2. QED
      BY <2>3, <3>1, DataFacts
  <2>4. QED
    BY <2>1, <2>2, <2>3 DEF PruneBody
<1>2. CASE Remove("remove")
  <2>1. /\ pc = "remove" /\ doom' = doom \ {NextDoomed} /\ UNCHANGED cfg
        /\ NextDoomed \in Names
        /\ \A n \in Names \ {NextDoomed} : disk'[n] = disk[n]
        /\ disk'[NextDoomed] = Absent
    BY <1>2, RemoveFacts, RingStepFacts, TypeFacts
  <2>2. \A n \in Data : Exists(n)' => Exists(n) /\ n # NextDoomed
    BY <2>1, DataFacts DEF Exists
  <2>3. \A n : RemovalRank(n)' = RemovalRank(n)
    BY <1>0, <2>1 DEF RemovalRank
  <2>4. QED
    BY <2>1, <2>2, <2>3 DEF PruneBody
<1>3. CASE UNCHANGED vars \/ Tick
  <2>1. UNCHANGED <<disk, pc, cfg, doom>>
    BY <1>3 DEF vars, Tick, process, frame
  <2>2. \A n : RemovalRank(n)' = RemovalRank(n)
    BY <1>0, <2>1 DEF RemovalRank
  <2>3. QED
    BY <2>1, <2>2 DEF PruneBody, Exists
<1>4. QED
  BY <1>1, <1>2, <1>3 DEF Next, Construct, Remove, Constructed, Open, WriteBody, WriteNewline,
     RotateStable, RotateIndexed, Gzip, GzipCreate, GzipCopy, GzipRename, GzipStamp, GzipDrop,
     GzipFails, Step, Pruned, Return, Crash

-----------------------------------------------------------------------------
(* The newest message *)

\* The newest message is in the folder: in the live file until a rotation, then in
\* the newest backup, which no prune lists.
NewestBody ==
    written # {} =>
        /\ nextMsg - 1 \in written
        /\ \E n \in Data : nextMsg - 1 \in Msgs(n)
        /\ pc \in {"newline", "rotate"} => nextMsg - 1 \in Msgs(liveFileName)
        /\ Busy \/ pc \in {"prune", "remove"} =>
               \E n \in Indexed : n.idx = index - 1 /\ n \notin doom /\ nextMsg - 1 \in Msgs(n)

NewestInv == HasRing => NewestBody

\* Compression keeps the newest message in the newest backup.
LEMMA NewestGzip ==
    ASSUME TypeInv, TypeInv', GzInv, Clean, CompleteBody, AheadBody, NewestBody, Gzip, written # {}
    PROVE  \E n \in Indexed : n.idx = index - 1 /\ n \notin doom' /\ nextMsg - 1 \in Msgs(n)'
<1>1. Busy /\ doom' = doom
  BY GzipFacts
<1>2. doom = {}
  BY <1>1 DEF AheadBody, Busy
<1>3. PICK m \in Indexed : m.idx = index - 1 /\ nextMsg - 1 \in Msgs(m)
  BY <1>1 DEF NewestBody
<1>4. m \in Data /\ LexRank(m) = index - 1 /\ LexRank(m) <= MaxIndex
  BY <1>3, DataFacts
<1>5. PICK n \in Data : LexRank(n) = LexRank(m) /\ nextMsg - 1 \in Msgs(n)'
  BY <1>3, <1>4, QuietFacts DEF Quiet
<1>6. n \in Indexed /\ n.idx = index - 1
  BY <1>4, <1>5, DataFacts
<1>7. QED
  BY <1>1, <1>2, <1>5, <1>6

\* Every step keeps the newest message.
LEMMA NewestStep ==
    ASSUME Roomy
    PROVE  TypeInv /\ GzInv /\ CompleteInv /\ AheadInv /\ NewestInv /\ [Next]_vars => NewestInv'
<1> SUFFICES ASSUME TypeInv, GzInv, CompleteBody, AheadBody, NewestBody, HasRing, [Next]_vars,
                    written' # {}
             PROVE  NewestBody'
  <2>1. [Next]_vars => (HasRing' => HasRing)
    <3>1. [Next]_vars => scenario' = scenario
      BY ScenarioFixed
    <3>2. QED
      BY <3>1 DEF HasRing
  <2>2. TypeInv /\ HasRing => Clean
    BY RingFacts
  <2>3. QED
    BY <2>1, <2>2, NoFailingFresh DEF AheadInv, CompleteInv, NewestInv, NewestBody
<1>0. faults' = faults /\ TypeInv' /\ Clean
  BY RingStepFacts, RingFacts
<1>a. nextMsg \in Nat
  BY TypeFacts
<1>1. ASSUME Quiet
      PROVE  /\ written' = written /\ nextMsg' = nextMsg
             /\ nextMsg' - 1 \in written'
             /\ \E n \in Data : nextMsg' - 1 \in Msgs(n)'
  <2>1. written' = written /\ nextMsg' = nextMsg
    BY <1>0, <1>1, QuietFacts
  <2>2. \E n \in Data : nextMsg - 1 \in Msgs(n)
    BY <2>1 DEF NewestBody
  <2>3. \E n \in Data : nextMsg - 1 \in Msgs(n)'
    BY <1>0, <1>1, <2>2, QuietFacts
  <2>4. QED
    BY <2>1, <2>3 DEF NewestBody
<1>2. CASE Construct \/ Constructed \/ Open \/ Pruned \/ Return \/ Crash
  <2>1. pc' \in {"construct", "idle", "body", "return", "down"}
    BY <1>2, OpenFacts DEF Construct, Constructed, Pruned, Return, Crash
  <2>2. QED
    BY <1>1, <1>2, <2>1 DEF Quiet, NewestBody, Busy
<1>3. CASE Tick \/ UNCHANGED vars
  <2>1. UNCHANGED <<disk, pc, cfg, index, doom, written, nextMsg>>
    BY <1>3 DEF Tick, vars, process, frame, history
  <2>2. QED
    BY <2>1 DEF NewestBody, Msgs, Exists, Busy, liveFileName
<1>4. CASE WriteNewline
  <2>1. /\ pc = "newline" /\ pc' \in {"rotate", "return"}
        /\ liveFileName' = liveFileName /\ Exists(liveFileName)
        /\ disk'[liveFileName] # Absent
        /\ disk'[liveFileName].msgs = disk[liveFileName].msgs
    BY <1>4, WriteNewlineFacts
  <2>2. written' = written /\ nextMsg' = nextMsg
    BY <1>1, <1>4 DEF Quiet
  <2>3. nextMsg - 1 \in Msgs(liveFileName)
    BY <2>1, <2>2 DEF NewestBody
  <2>4. nextMsg' - 1 \in Msgs(liveFileName)'
    BY <2>1, <2>2, <2>3 DEF Msgs, Exists
  <2>5. QED
    BY <1>1, <1>4, <2>1, <2>4 DEF Quiet, NewestBody, Busy
<1>5. CASE RotateIndexed
  <2>1. /\ pc = "rotate" /\ index' = index + 1 /\ UNCHANGED <<disk, cfg, doom, written, nextMsg>>
        /\ pc' \in {"gzip", "prune"} /\ ~ cfg.stable /\ index < MaxIndex
    BY <1>5 DEF RotateIndexed, history
  <2>2. nextMsg - 1 \in Msgs(Name("log", index)) /\ doom = {}
    BY <2>1 DEF NewestBody, AheadBody, liveFileName
  <2>3. index \in Indices /\ index = index' - 1
    BY <2>1, TypeFacts, Params DEF Indices
  <2>4. Name("log", index) \in Indexed /\ Name("log", index).idx = index
    BY <2>3, IndexedFacts, NameFields
  <2>5. PICK n : n = Name("log", index)
    OBVIOUS
  <2>6. n \in Indexed /\ n.idx = index' - 1 /\ n \notin doom' /\ nextMsg' - 1 \in Msgs(n)'
    BY <2>1, <2>2, <2>3, <2>4, <2>5 DEF Msgs, Exists
  <2>7. QED
    BY <1>1, <1>5, <2>1, <2>6 DEF Quiet, NewestBody
<1>6. CASE Gzip
  <2>1. UNCHANGED <<index, written, nextMsg>> /\ (Busy' \/ pc' = "prune")
    BY <1>6, GzipFacts
  <2>2. \E n \in Indexed : n.idx = index - 1 /\ n \notin doom' /\ nextMsg - 1 \in Msgs(n)'
    BY <1>0, <1>6, <2>1, NewestGzip
  <2>3. QED
    BY <1>1, <1>6, <2>1, <2>2 DEF Quiet, NewestBody, Busy
<1>7. CASE Prune
  <2>1. pc = "prune" /\ pc' = "remove" /\ UNCHANGED <<disk, index, written, nextMsg>>
    BY <1>7 DEF Prune, process, history
  <2>2. PICK n \in Indexed : n.idx = index - 1 /\ nextMsg - 1 \in Msgs(n)
    BY <2>1 DEF NewestBody
  <2>3. n \in Data /\ Exists(n)
    BY <2>2, DataFacts DEF Msgs
  <2>4. n \notin doom'
    BY <1>7, <2>2, <2>3, PruneCut
  <2>5. nextMsg' - 1 \in Msgs(n)' /\ n.idx = index' - 1
    BY <2>1, <2>2 DEF Msgs, Exists
  <2>6. QED
    BY <1>1, <1>7, <2>1, <2>4, <2>5 DEF Quiet, NewestBody, Busy
<1>8. ASSUME NEW from \in {"construct", "remove"}, Remove(from) PROVE NewestBody'
  <2>1. /\ pc = from /\ pc' = from /\ NextDoomed \in doom /\ NextDoomed \in Names
        /\ doom' = doom \ {NextDoomed} /\ UNCHANGED <<cfg, index, written, nextMsg>>
        /\ \A n \in Names \ {NextDoomed} : disk'[n] = disk[n]
    BY <1>8, RemoveFacts
  <2>2. PICK d : d = NextDoomed
    OBVIOUS
  <2>3. \A n \in Names : n # d => Msgs(n)' = Msgs(n)
    BY <2>1, <2>2, SameMsgs
  <2>4. CASE from = "remove"
    <3>1. PICK n \in Indexed : n.idx = index - 1 /\ n \notin doom /\ nextMsg - 1 \in Msgs(n)
      BY <2>1, <2>4 DEF NewestBody
    <3>2. n \in Data /\ n \in Names /\ n # d
      BY <2>1, <2>2, <3>1, DataFacts
    <3>3. nextMsg' - 1 \in Msgs(n)' /\ n \notin doom' /\ n.idx = index' - 1
      BY <2>1, <2>3, <3>1, <3>2
    <3>4. QED
      BY <2>1, <2>4, <3>2, <3>3 DEF NewestBody
  <2>5. CASE from = "construct"
    <3>1. d.kind = "tmp" \/ (d.kind = "log" /\ Exists(Name("gz", d.idx)))
      BY <2>1, <2>2, <2>5 DEF AheadBody
    <3>2. PICK n \in Data : nextMsg - 1 \in Msgs(n)
      BY <2>1 DEF NewestBody
    <3>3. \E m \in Data : nextMsg - 1 \in Msgs(m)'
      <4>1. CASE n # d
        BY <2>3, <3>2, <4>1, DataFacts
      <4>2. CASE n = d
        <5>1. d.kind = "log" /\ Exists(d) /\ d = Name("log", d.idx) /\ d.idx \in Indices
          BY <2>1, <2>2, <3>1, <3>2, <4>2, NameFields DEF Data, Msgs
        <5>2. PICK g \in Names : g = Name("gz", d.idx)
          BY <5>1, NameFields
        <5>3. Exists(g) /\ g \in Data /\ g # d
          BY <3>1, <5>1, <5>2, NameFields DEF Data
        <5>4. Msgs(d) \subseteq Msgs(g)
          BY <5>1, <5>2, <5>3 DEF CompleteBody, GzComplete, Msgs
        <5>5. QED
          BY <2>3, <3>2, <4>2, <5>3, <5>4
      <4>3. QED
        BY <4>1, <4>2
    <3>4. QED
      BY <2>1, <2>5, <3>3 DEF NewestBody, Busy
  <2>6. QED
    BY <2>4, <2>5
<1>9. CASE WriteBody
  <2>1. /\ pc' = "newline" /\ nextMsg' = nextMsg + 1 /\ liveFileName' = liveFileName
        /\ Exists(liveFileName) /\ liveFileName \in Names
        /\ disk'[liveFileName] # Absent
        /\ disk'[liveFileName].msgs = disk[liveFileName].msgs \cup {nextMsg}
        /\ written' = written \cup {nextMsg} /\ pc = "body"
    BY <1>0, <1>9, WriteBodyFacts, TypeFacts
  <2>2. PICK live \in Data : live = liveFileName
    BY <2>1, LiveIsLast
  <2>3. nextMsg' - 1 = nextMsg
    BY <1>a, <2>1
  <2>4. nextMsg \in Msgs(live)'
    BY <2>1, <2>2 DEF Msgs, Exists
  <2>5. QED
    BY <2>1, <2>2, <2>3, <2>4 DEF NewestBody, Busy
<1>10. CASE RotateStable
  <2>1. /\ pc = "rotate" /\ written' = written /\ nextMsg' = nextMsg /\ doom' = doom
        /\ liveFileName = Live /\ index \in Nat
    BY <1>10, RotateStableFacts, TypeFacts
  <2>2. pc' \in {"gzip", "prune"}
    BY <1>10 DEF RotateStable
  <2>3. PICK i \in Indices : index' = i + 1 /\ Msgs(Name("log", i))' = Msgs(Live)
    BY <1>0, <1>10, RotateStableMsgs
  <2>4. PICK b \in Indexed : b = Name("log", i) /\ b.idx = i /\ i \in Nat /\ b \in Data
    BY IndexedFacts, NameFields, DataFacts
  <2>5. doom = {} /\ nextMsg - 1 \in Msgs(Live)
    BY <2>1 DEF AheadBody, NewestBody
  <2>6. nextMsg' - 1 \in Msgs(b)' /\ b.idx = index' - 1 /\ b \notin doom'
    BY <2>1, <2>3, <2>4, <2>5
  <2>7. QED
    BY <2>1, <2>2, <2>4, <2>6 DEF NewestBody
<1>11. QED
  BY <1>2, <1>3, <1>4, <1>5, <1>6, <1>7, <1>8, <1>9, <1>10 DEF Next

-----------------------------------------------------------------------------
(* The folder is a ring *)

Kept == Readable \cap written

\* A part of a set of numbers that has nothing but larger ones left is what remains
\* above some number of it.
LEMMA CutIsExpiry ==
    ASSUME NEW R \in SUBSET Nat, NEW S \in SUBSET R, S # {},
           \A x \in R \ S, y \in S : x < y
    PROVE  \E m \in R : S = {x \in R : x >= m}
<1>1. PICK m \in S : \A y \in S : m <= y
  BY LeastNatural
<1>2. \A x \in R : x >= m => x \in S
  BY <1>1
<1>3. \A x \in S : x >= m
  BY <1>1
<1>4. QED
  BY <1>2, <1>3

\* A removal takes the oldest messages, or none.
LEMMA RemovalCuts ==
    ASSUME TypeInv, CompleteBody, OrderBody, PruneBody, ~ cfg.age, Remove("remove")
    PROVE  /\ Kept' \subseteq Kept /\ written' = written
           /\ \A x \in Kept \ Kept', y \in Kept' : x < y
<1>1. /\ pc = "remove" /\ NextDoomed \in doom /\ NextDoomed \in Names /\ written' = written
      /\ \A n \in Names \ {NextDoomed} : disk'[n] = disk[n]
      /\ disk'[NextDoomed] \in {disk[NextDoomed], Absent}
      /\ \A m \in doom : RemovalRank(NextDoomed) <= RemovalRank(m)
  BY RemoveFacts, NextDoomedFirst
<1>2. PICK d \in Names : d = NextDoomed
  BY <1>1
<1>3. \A n \in Names : n # d => Msgs(n)' = Msgs(n)
  BY <1>1, <1>2, SameMsgs
<1>4. Msgs(d)' = {} \/ Msgs(d)' = Msgs(d)
  BY <1>1, <1>2 DEF Msgs, Exists
<1>5. \A n \in Data : n \in Names /\ \A x \in Msgs(n)' : x \in Msgs(n)
  BY <1>3, <1>4, DataFacts
<1>6. Kept' \subseteq Kept
  BY <1>1, <1>5, ReadableMsgs DEF Kept
<1>7. ASSUME NEW x \in Kept \ Kept', NEW y \in Kept' PROVE x < y
  <2>1. PICK m \in Data : y \in Msgs(m)'
    BY <1>7, ReadableMsgs DEF Kept
  <2>2. \A n \in Data : x \notin Msgs(n)'
    BY <1>1, <1>7, ReadableMsgs DEF Kept
  <2>3. d \in Data /\ x \in Msgs(d) /\ Msgs(d)' = {}
    <3>1. PICK n \in Data : x \in Msgs(n)
      BY <1>7, ReadableMsgs DEF Kept
    <3>2. n = d
      BY <1>3, <2>2, <3>1, DataFacts
    <3>3. QED
      BY <1>4, <2>2, <3>1, <3>2
  <2>4. m # d /\ y \in Msgs(m) /\ Exists(m) /\ Exists(d)
    BY <1>5, <2>1, <2>3 DEF Msgs
  <2>5. RemovalRank(d) <= RemovalRank(m)
    <3>1. CASE m \in doom
      BY <1>1, <1>2, <3>1
    <3>2. CASE m \notin doom
      <4>1. ~ (RemovalRank(m) <= RemovalRank(d))
        BY <1>1, <1>2, <2>3, <2>4, <3>2 DEF PruneBody
      <4>2. ~ (LexRank(m) < LexRank(d)) /\ LexRank(m) \in Nat /\ LexRank(d) \in Nat
        BY <1>1, <2>3, <4>1, RemovalFacts, DataFacts
      <4>3. RemovalRank(m) \in Nat /\ RemovalRank(d) \in Nat
        BY <1>1, <2>3, DataFacts DEF RemovalRank
      <4>4. QED
        BY <4>1, <4>3
    <3>3. QED
      BY <3>1, <3>2
  <2>6. CASE LexRank(d) = LexRank(m)
    <3>1. d.kind = "log" /\ m.kind = "gz" /\ m.idx = d.idx
      BY <1>1, <2>3, <2>4, <2>5, <2>6, RemovalFacts
    <3>2. d = Name("log", d.idx) /\ m = Name("gz", d.idx) /\ d.idx \in Indices
      BY <2>3, <3>1, DataFacts, NameFields
    <3>3. Msgs(d) \subseteq Msgs(m)
      BY <2>4, <3>2 DEF CompleteBody, GzComplete, Msgs
    <3>4. QED
      BY <1>3, <2>2, <2>3, <2>4, <3>3, DataFacts
  <2>7. CASE LexRank(d) # LexRank(m)
    <3>1. LexRank(d) < LexRank(m)
      BY <1>1, <2>3, <2>5, <2>7, RemovalFacts, DataFacts
    <3>2. QED
      BY <2>3, <2>4, <3>1 DEF OrderBody
  <2>8. QED
    BY <2>6, <2>7
<1>8. QED
  BY <1>1, <1>6, <1>7

\* The reconciliation of a constructor takes nothing the folder does not hold twice.
LEMMA ReconciliationKeeps ==
    ASSUME TypeInv, CompleteBody, AheadBody, Remove("construct"), faults' = faults
    PROVE  Kept' = Kept /\ written' = written
<1>1. /\ pc = "construct" /\ NextDoomed \in doom /\ NextDoomed \in Names /\ written' = written
      /\ \A n \in Names \ {NextDoomed} : disk'[n] = disk[n]
      /\ disk'[NextDoomed] = Absent
  BY RemoveFacts, TypeFacts
<1>2. CASE cfg.fresh
  BY <1>1, <1>2 DEF AheadBody, Kept
<1>3. CASE ~ cfg.fresh
  <2>1. PICK d \in Names : d = NextDoomed
    BY <1>1
  <2>2. d.kind = "tmp" \/ (d.kind = "log" /\ Exists(Name("gz", d.idx)))
    BY <1>1, <1>3, <2>1 DEF AheadBody
  <2>3. \A n \in Names : n # d => Msgs(n)' = Msgs(n)
    BY <1>1, <2>1, SameMsgs
  <2>4. Msgs(d)' = {}
    BY <1>1, <2>1 DEF Msgs, Exists
  <2>5. \A x : (\E n \in Data : x \in Msgs(n)') => \E n \in Data : x \in Msgs(n)
    BY <2>3, <2>4, DataFacts
  <2>6. ASSUME NEW n \in Data, NEW x \in Msgs(n) PROVE \E m \in Data : x \in Msgs(m)'
    <3>1. CASE n # d
      BY <2>3, <2>6, <3>1, DataFacts
    <3>2. CASE n = d
      <4>1. d.kind = "log" /\ Exists(d) /\ d = Name("log", d.idx) /\ d.idx \in Indices
        BY <2>2, <2>6, <3>2, NameFields DEF Data, Msgs
      <4>2. PICK g \in Names : g = Name("gz", d.idx)
        BY <4>1, NameFields
      <4>3. Exists(g) /\ g \in Data /\ g # d
        BY <2>2, <4>1, <4>2, NameFields DEF Data
      <4>4. Msgs(d) \subseteq Msgs(g)
        BY <4>1, <4>2, <4>3 DEF CompleteBody, GzComplete, Msgs
      <4>5. QED
        BY <2>3, <2>6, <3>2, <4>3, <4>4
    <3>3. QED
      BY <3>1, <3>2
  <2>7. \A x : x \in Readable' <=> x \in Readable
    BY <2>5, <2>6, ReadableMsgs
  <2>8. QED
    BY <1>1, <2>7 DEF Kept
<1>4. QED
  BY <1>2, <1>3

\* What the other steps keep.
LEMMA QuietKeeps ==
    ASSUME TypeInv, TypeInv', GzInv, Clean, CompleteBody, Quiet
    PROVE  UNCHANGED <<written, Kept>> \/ (written' = {} /\ Kept' = {})
<1>1. /\ written' = written \/ written' = {}
      /\ \A n \in Data : \A x \in Msgs(n)' : \E m \in Data : x \in Msgs(m)
      /\ \A m \in Data : \A x \in Msgs(m) : \E n \in Data : x \in Msgs(n)'
  BY QuietFacts
<1>2. \A x : x \in Readable' <=> x \in Readable
  BY <1>1, ReadableMsgs
<1>3. QED
  BY <1>1, <1>2 DEF Kept

\* A rotation by renaming keeps everything.
LEMMA RotationKeeps ==
    ASSUME TypeInv, AheadBody, RotateStable, faults' = faults
    PROVE  UNCHANGED <<written, Kept>>
<1>1. written' = written
  BY RotateStableFacts
<1>2. PICK i \in Indices :
        /\ Msgs(Name("log", i))' = Msgs(Live) /\ Msgs(Live)' = {}
        /\ Msgs(Name("log", i)) = {}
        /\ \A n \in Data : n \notin {Live, Name("log", i)} => Msgs(n)' = Msgs(n)
  BY RotateStableMsgs
<1>3. PICK b \in Data : b = Name("log", i)
  BY IndexedFacts, DataFacts
<1>4. \A x : (\E n \in Data : x \in Msgs(n)') <=> \E n \in Data : x \in Msgs(n)
  BY <1>2, <1>3, DataFacts
<1>5. \A x : x \in Readable' <=> x \in Readable
  BY <1>4, ReadableMsgs
<1>6. QED
  BY <1>1, <1>5 DEF Kept

\* An append adds the newest message.
LEMMA AppendKeeps ==
    ASSUME TypeInv, OrderBody, WriteBody, faults' = faults
    PROVE  \E m \in 1..MaxMsgs :
             /\ \A x \in written : x < m
             /\ written' = written \cup {m} /\ Kept' = Kept \cup {m}
<1>1. /\ nextMsg \in 1..MaxMsgs /\ liveFileName \in Names /\ Exists(liveFileName)
      /\ liveFileName' = liveFileName /\ pc = "body"
      /\ \A m \in Names \ {liveFileName} : disk'[m] = disk[m]
      /\ disk'[liveFileName] # Absent
      /\ disk'[liveFileName].msgs = disk[liveFileName].msgs \cup {nextMsg}
      /\ written' = written \cup {nextMsg}
  BY WriteBodyFacts, TypeFacts
<1>2. PICK live \in Data : live = liveFileName
  BY <1>1, NameFields DEF liveFileName, Data
<1>3. \A n \in Data : n # live => Msgs(n)' = Msgs(n)
  BY <1>1, <1>2, DataFacts, SameMsgs
<1>4. Msgs(live)' = Msgs(live) \cup {nextMsg}
  BY <1>1, <1>2 DEF Msgs, Exists
<1>5. \A x : (\E n \in Data : x \in Msgs(n)') <=> (x = nextMsg \/ \E n \in Data : x \in Msgs(n))
  BY <1>3, <1>4
<1>6. \A x : x \in Readable' <=> x = nextMsg \/ x \in Readable
  BY <1>5, ReadableMsgs
<1>7. Kept' = Kept \cup {nextMsg}
  BY <1>1, <1>6 DEF Kept
<1>8. QED
  BY <1>1, <1>7 DEF OrderBody

\* What the ring is made of.
RingInv == CompleteInv /\ AheadInv /\ OrderInv /\ PruneInv /\ NewestInv

\* Every step of the handler is one of the ring, or invisible there.
LEMMA RingStep ==
    ASSUME TypeInv, GzInv, RingInv, NewestInv', [Next]_vars
    PROVE  [Ring!Next]_(Ring!vars)
<1>1. HasRing' = HasRing
  BY ScenarioFixed DEF HasRing
<1>2. CASE ~ HasRing
  BY <1>1, <1>2 DEF Ring!vars
<1>3. CASE HasRing
  <2>0. /\ TypeInv' /\ Clean /\ faults' = faults /\ HasRing' /\ ~ cfg.age
        /\ CompleteBody /\ AheadBody /\ OrderBody /\ PruneBody /\ NewestBody'
    BY <1>1, <1>3, RingStepFacts, RingFacts, NoFailingFresh DEF RingInv, CompleteInv, AheadInv, OrderInv, PruneInv,
       NewestInv
  <2>1. UNCHANGED <<written, Kept>> => UNCHANGED Ring!vars
    BY <1>1 DEF Ring!vars, Kept
  <2>2. written' = {} /\ Kept' = {} => Ring!FreshStart
    BY <2>0 DEF Ring!FreshStart, Kept
  <2>3. CASE Quiet
    BY <2>0, <2>1, <2>2, <2>3, QuietKeeps DEF Ring!Next
  <2>4. CASE Remove("construct")
    BY <2>0, <2>1, <2>4, ReconciliationKeeps
  <2>5. CASE RotateStable
    BY <2>0, <2>1, <2>5, RotationKeeps
  <2>6. CASE WriteBody
    <3>1. \E m \in 1..MaxMsgs :
             /\ \A x \in written : x < m
             /\ written' = written \cup {m} /\ Kept' = Kept \cup {m}
      BY <2>0, <2>6, AppendKeeps
    <3>2. Ring!Append
      BY <1>3, <2>0, <3>1 DEF Ring!Append, Kept
    <3>3. QED
      BY <3>2 DEF Ring!Next
  <2>7. CASE Remove("remove")
    <3>1. /\ Kept' \subseteq Kept /\ written' = written
          /\ \A x \in Kept \ Kept', y \in Kept' : x < y
      BY <2>0, <2>7, RemovalCuts
    <3>2. CASE written = {}
      BY <2>1, <3>1, <3>2 DEF Kept
    <3>3. CASE written # {}
      <4>1. nextMsg' - 1 \in Kept'
        BY <2>0, <3>1, <3>3, ReadableMsgs DEF NewestBody, Kept
      <4>2. Kept \subseteq Nat
        BY <2>0 DEF OrderBody, Kept
      <4>3. \E m \in Kept : Kept' = {x \in Kept : x >= m}
        BY <3>1, <4>1, <4>2, CutIsExpiry
      <4>4. Ring!Expire
        BY <1>3, <2>0, <3>1, <4>3 DEF Ring!Expire, Kept
      <4>5. QED
        BY <4>4 DEF Ring!Next
    <3>4. QED
      BY <3>2, <3>3
  <2>8. QED
    BY <2>3, <2>4, <2>5, <2>6, <2>7 DEF Next, Quiet
<1>4. QED
  BY <1>2, <1>3

\* The empty folder has all of it.
LEMMA RingInit == Init => RingInv /\ Ring!Init
<1>1. ASSUME Init PROVE \A n \in Names : disk[n] = Absent
  BY <1>1 DEF Init
<1>2. ASSUME Init PROVE RingInv
  <2>1. \A n \in Names : ~ Exists(n) /\ Msgs(n) = {}
    BY <1>1, <1>2 DEF Exists, Msgs
  <2>2. pc = "down" /\ written = {} /\ doom = {}
    BY <1>2 DEF Init
  <2>3. CompleteBody
    BY <2>1, <2>2, NameFields DEF CompleteBody, GzComplete
  <2>4. AheadBody
    BY <2>1, <2>2, NameFields DEF AheadBody, Busy
  <2>5. OrderBody /\ PruneBody /\ NewestBody
    BY <2>1, <2>2, DataFacts DEF OrderBody, PruneBody, NewestBody
  <2>6. QED
    BY <2>3, <2>4, <2>5 DEF RingInv, CompleteInv, AheadInv, OrderInv, PruneInv, NewestInv
<1>3. ASSUME Init PROVE Ring!Init
  BY <1>3 DEF Init, Ring!Init
<1>4. QED
  BY <1>2, <1>3

\* And keeps it.
LEMMA RingInvAlways == ASSUME Roomy, NoToggle PROVE Spec => []RingInv
<1>1. Init => RingInv
  BY RingInit
<1>2. TypeInv /\ GzInv /\ RingInv /\ [Next]_vars => RingInv'
  BY CompleteStep, AheadStep, OrderStep, PruneStep, NewestStep DEF RingInv
<1>3. QED
  BY <1>1, <1>2, TypeInvAlways, GzInvAlways, PTL DEF Spec

\* Through rotation, renaming, compression, pruning, deaths and restarts at any
\* moment the folder implements the ring: data is given up only from the old end,
\* file by file, and never the newest message, unless a fresh start is asked for.
THEOREM ImplementsRing ==
    ASSUME Roomy, NoToggle
    PROVE  Spec => IsRing
<1>1. Init => Ring!Init
  BY RingInit
<1>2. TypeInv /\ GzInv /\ RingInv /\ RingInv' /\ [Next]_vars => [Ring!Next]_(Ring!vars)
  BY RingStep DEF RingInv
<1>3. QED
  BY <1>1, <1>2, TypeInvAlways, GzInvAlways, RingInvAlways, PTL DEF Spec, IsRing, Ring!Spec

\* The ring as LogRingProofs knows it.
RingTheory == INSTANCE LogRingProofs WITH
    Messages <- 1..MaxMsgs,
    written <- IF HasRing THEN written ELSE {},
    retained <- IF HasRing THEN Readable \cap written ELSE {}

\* So what a reader finds is, whatever happened, a suffix of what was written.
THEOREM RetainedStaysSuffix ==
    ASSUME Roomy, NoToggle
    PROVE  Spec => []RetainedIsSuffix
<1>1. 1..MaxMsgs \subseteq Nat
  BY Params
<1>2. RingTheory!Spec => []RingTheory!Suffix
  BY <1>1, RingTheory!SuffixAlways
<1>3. Ring!Init <=> RingTheory!Init
  BY DEF Ring!Init, RingTheory!Init
<1>4. [Ring!Next]_(Ring!vars) <=> [RingTheory!Next]_(RingTheory!vars)
  BY DEF Ring!Next, RingTheory!Next, Ring!vars, RingTheory!vars, Ring!Append, RingTheory!Append,
     Ring!Expire, RingTheory!Expire, Ring!FreshStart, RingTheory!FreshStart
<1>5. RetainedIsSuffix <=> RingTheory!Suffix
  BY DEF RetainedIsSuffix, Ring!Suffix, RingTheory!Suffix
<1>6. Spec => IsRing
  BY ImplementsRing
<1>7. QED
  BY <1>2, <1>3, <1>4, <1>5, <1>6, PTL DEF IsRing, Ring!Spec, RingTheory!Spec

-----------------------------------------------------------------------------
(* How many files there are.  Of the number of files a prune leaves one is *)
(* the live file, or will be; without options the live one comes on top.   *)

Keep == IF ZeroOption(cfg) THEN MaxFiles ELSE MaxFiles - 1
Room == Keep + restarts + faults
LiveRank == LexRank(liveFileName)

\* The files that are not about to be removed.
Spared == {LexRank(n) : n \in {x \in Data : Exists(x) /\ x \notin doom}}

\* A handler that does not compress has no .gz, one whose live file has no stable
\* name none of that name: as long as all processes agree on their options.
KindInv ==
    /\ ~ cfg.compress => \A n \in Names : n.kind = "gz" => ~ Exists(n)
    /\ ~ cfg.stable => ~ Exists(Live)

\* The live file comes on top of the files there is room for, as does, until the
\* prune, the file it has just been rotated into; a prune makes room again but for
\* the files it fails to remove.
FilesInv ==
    /\ pc \notin {"construct", "remove"} => doom = {}
    /\ pc \in {"down", "construct"} => Cardinality(LogFiles) <= Room
    /\ pc \in {"idle", "body", "newline", "rotate", "return"}
           => Cardinality(LogFiles \ {LiveRank}) <= Room
    /\ Busy \/ pc \in {"prune", "remove"} => Cardinality(LogFiles) <= Room + 1
    /\ pc = "remove" => Cardinality(Spared \ {LiveRank}) <= Room

\* A step changes no option but fresh.
LEMMA OptionsKept ==
    ASSUME NoToggle, TypeInv, [Next]_vars
    PROVE  /\ cfg'.compress = cfg.compress /\ cfg'.stable = cfg.stable /\ cfg'.age = cfg.age
           /\ Keep' = Keep
<1>1. cfg'.compress = cfg.compress /\ cfg'.stable = cfg.stable /\ cfg'.age = cfg.age
  <2>1. CASE Construct
    <3>1. ~ scenario.toggle /\ cfg \in Options
      BY TypeFacts DEF NoToggle
    <3>2. PICK c \in scenario.configs : c = [cfg EXCEPT !.fresh = c.fresh] /\ cfg' = c
      BY <2>1, <3>1 DEF Construct
    <3>3. QED
      BY <3>1, <3>2 DEF Options
  <2>2. CASE UNCHANGED cfg
    BY <2>2
  <2>3. QED
    BY <2>1, <2>2
    DEF Next, Remove, Constructed, Open, WriteBody, WriteNewline, RotateStable,
        RotateIndexed, Gzip, GzipCreate, GzipCopy, GzipRename, GzipStamp, GzipDrop, GzipFails,
        Step, Prune, Pruned, Return, Crash, Tick, process, vars
<1>2. scenario' = scenario
  BY ScenarioFixed
<1>3. QED
  BY <1>1, <1>2 DEF Keep, ZeroOption, MaxFiles

\* Sets of positions.
LEMMA RankSets ==
    /\ LogFiles \subseteq 0..(MaxIndex + 1) /\ LogFiles' \subseteq 0..(MaxIndex + 1)
    /\ \A S \in SUBSET (0..(MaxIndex + 1)) : IsFiniteSet(S) /\ Cardinality(S) \in Nat
    /\ \A S \in SUBSET (0..(MaxIndex + 1)) : \A T \in SUBSET S : Cardinality(T) <= Cardinality(S)
    /\ \A S \in SUBSET (0..(MaxIndex + 1)) : \A x :
           /\ Cardinality(S) <= Cardinality(S \ {x}) + 1 /\ Cardinality(S \ {x}) \in Nat
<1>1. \A n \in Data : LexRank(n) \in 0..(MaxIndex + 1)
  BY DataFacts
<1>2. LogFiles \subseteq 0..(MaxIndex + 1)
  BY <1>1 DEF LogFiles, Data
<1>3. LogFiles' \subseteq 0..(MaxIndex + 1)
  BY <1>1 DEF LogFiles, Data
<1>4. IsFiniteSet(0..(MaxIndex + 1))
  BY Params, FS_Interval
<1>5. \A S \in SUBSET (0..(MaxIndex + 1)) : IsFiniteSet(S) /\ Cardinality(S) \in Nat
  BY <1>4, FS_Subset, FS_CardinalityType
<1>6. \A S \in SUBSET (0..(MaxIndex + 1)) : \A T \in SUBSET S : Cardinality(T) <= Cardinality(S)
  BY <1>5, FS_Subset
<1>7. ASSUME NEW S \in SUBSET (0..(MaxIndex + 1)), NEW x
      PROVE  /\ Cardinality(S) <= Cardinality(S \ {x}) + 1 /\ Cardinality(S \ {x}) \in Nat
  <2>1. Cardinality(S \ {x}) = IF x \in S THEN Cardinality(S) - 1 ELSE Cardinality(S)
    BY <1>5, FS_RemoveElement
  <2>2. S \ {x} \in SUBSET (0..(MaxIndex + 1))
    OBVIOUS
  <2>3. Cardinality(S \ {x}) \in Nat /\ Cardinality(S) \in Nat
    BY <1>5, <2>2
  <2>4. QED
    BY <2>1, <2>3
<1>8. QED
  BY <1>2, <1>3, <1>5, <1>6, <1>7

\* Of a finite set at most m elements have all but m of it, or more, below them.
LEMMA AllButTheLowest ==
    ASSUME NEW S, IsFiniteSet(S), NEW rank \in [S -> Nat], NEW m \in Nat, NEW T \in SUBSET S,
           \A x \in T : ~ (Cardinality({y \in S : rank[y] < rank[x]}) < Cardinality(S) - m)
    PROVE  Cardinality(T) <= m
<1>0. IsFiniteSet(T) /\ \A U \in SUBSET S : IsFiniteSet(U) /\ Cardinality(U) \in Nat
  BY FS_Subset, FS_CardinalityType
<1>1. CASE T = {}
  BY <1>1, FS_EmptySet
<1>2. CASE T # {}
  <2>1. {rank[x] : x \in T} \in SUBSET Nat /\ {rank[x] : x \in T} # {}
    BY <1>2
  <2>2. PICK r \in {rank[x] : x \in T} : \A q \in {rank[x] : x \in T} : r <= q
    BY <2>1, LeastNatural
  <2>3. PICK x \in T : r = rank[x]
    BY <2>2
  <2>4. PICK L \in SUBSET S : L = {y \in S : rank[y] < rank[x]}
    OBVIOUS
  <2>5. L \cap T = {}
    <3>1. ASSUME NEW y \in L \cap T PROVE FALSE
      <4>1. rank[y] < rank[x] /\ rank[x] <= rank[y] /\ rank[x] \in Nat /\ rank[y] \in Nat
        BY <2>2, <2>3, <2>4, <3>1
      <4>2. QED
        BY <4>1
    <3>2. QED
      BY <3>1
  <2>6. PICK a \in Nat, b \in Nat, c \in Nat, u \in Nat :
            /\ a = Cardinality(L) /\ b = Cardinality(T) /\ c = Cardinality(S)
            /\ u = Cardinality(L \cup T)
    BY <1>0
  <2>7. u = a + b
    <3>1. Cardinality(L \cup T) = Cardinality(L) + Cardinality(T) - Cardinality(L \cap T)
      BY <1>0, FS_Union
    <3>2. Cardinality(L \cap T) = 0
      BY <2>5, FS_EmptySet
    <3>3. QED
      BY <2>6, <3>1, <3>2
  <2>8. u <= c
    <3>1. L \cup T \in SUBSET S
      OBVIOUS
    <3>2. QED
      BY <2>6, <3>1, FS_Subset
  <2>9. ~ (a < c - m)
    BY <2>3, <2>4, <2>6
  <2>10. QED
    BY <2>6, <2>7, <2>8, <2>9
<1>3. QED
  BY <1>1, <1>2

\* Folders of handlers that agree hold the files of their kind only.
LEMMA KindStep ==
    ASSUME NoToggle, TypeInv, KindInv, [Next]_vars
    PROVE  KindInv'
<1>0. cfg'.compress = cfg.compress /\ cfg'.stable = cfg.stable
  BY OptionsKept
<1>1. CASE \A n \in Names : disk'[n] \in {disk[n], Absent}
  BY <1>0, <1>1, NameFields DEF KindInv, Exists
<1>2. CASE Construct \/ Constructed \/ RotateIndexed \/ Prune \/ Pruned \/ Return \/ Crash \/ Tick
           \/ UNCHANGED vars
  <2>1. disk' = disk
    BY <1>2 DEF Construct, Constructed, RotateIndexed, Prune, Pruned, Return, Crash, Tick, vars
  <2>2. QED
    BY <1>1, <2>1
<1>3. ASSUME NEW from \in {"construct", "remove"}, Remove(from) PROVE KindInv'
  <2>1. /\ NextDoomed \in Names
        /\ \A n \in Names \ {NextDoomed} : disk'[n] = disk[n]
        /\ disk'[NextDoomed] \in {disk[NextDoomed], Absent}
    BY <1>3, RemoveFacts
  <2>2. \A n \in Names : disk'[n] \in {disk[n], Absent}
    BY <2>1
  <2>3. QED
    BY <1>1, <2>2
<1>4. CASE Open \/ WriteBody \/ WriteNewline
  <2>1. /\ liveFileName \in Names
        /\ \A m \in Names : m # liveFileName => disk'[m] = disk[m]
    BY <1>4, OpenFacts, WriteBodyFacts, WriteNewlineFacts
  <2>2. liveFileName.kind # "gz" /\ (~ cfg.stable => liveFileName # Live)
    BY NameFields DEF liveFileName
  <2>3. QED
    BY <1>0, <2>1, <2>2, NameFields DEF KindInv, Exists
<1>5. CASE RotateStable
  <2>1. cfg.stable
    BY <1>5, RotateStableFacts
  <2>2. PICK i \in Indices :
           \/ \A n \in Names : n \notin {Live, Name("log", i)} => disk'[n] = disk[n]
           \/ UNCHANGED disk
    BY <1>5, RotateStableFacts
  <2>3. \A n \in Names : n.kind = "gz" => disk'[n] = disk[n]
    BY <2>2, NameFields
  <2>4. QED
    BY <1>0, <2>1, <2>3 DEF KindInv, Exists
<1>6. CASE Gzip
  <2>1. Busy /\ \A n \in Names \ {src, dst, tmp} : disk'[n] = disk[n]
    BY <1>6, GzipFacts
  <2>2. cfg.compress /\ Live \notin {src, dst, tmp}
    BY <2>1, NameFields DEF TypeInv, Control, src, dst, tmp
  <2>3. disk'[Live] = disk[Live]
    BY <2>1, <2>2, NameFields
  <2>4. QED
    BY <1>0, <2>2, <2>3 DEF KindInv, Exists
<1>7. QED
  BY <1>2, <1>3, <1>4, <1>5, <1>6 DEF Next

\* What a prune without options spares.
LEMMA VerifySpares ==
    ASSUME TypeInv, KindInv, ZeroOption(cfg), Prune, faults' = faults
    PROVE  Cardinality(Spared') <= MaxFiles
<1> DEFINE files == Listed("log", Found) \cup Listed("live", Found)
           T == files \ VerifyDoom(Found)
<1>1. doom' = VerifyDoom(Found) /\ disk' = disk /\ MaxFiles \in Nat
  BY PruneFacts, TypeFacts DEF MaxFiles
<1>2. \A n \in Data : Exists(n) => n \in files
  BY DataFacts DEF KindInv, ZeroOption, Listed, Found, Data
<1>3. files \subseteq Data /\ files \subseteq Names /\ IsFiniteSet(files)
  <2>1. files \subseteq Names /\ files \subseteq Data
    BY DEF Listed, Found, Data
  <2>2. QED
    BY <2>1, NamesFinite, FS_Subset
<1>4. PICK rank \in [files -> Nat] : \A n \in files : rank[n] = LexRank(n)
  <2>1. [n \in files |-> LexRank(n)] \in [files -> Nat]
    BY <1>3, DataFacts
  <2>2. QED
    BY <2>1
<1>5. \A x \in T : ~ (Cardinality({y \in files : rank[y] < rank[x]}) < Cardinality(files) - MaxFiles)
  <2> SUFFICES ASSUME NEW x \in T
               PROVE  ~ (Cardinality({y \in files : rank[y] < rank[x]}) < Cardinality(files) - MaxFiles)
    OBVIOUS
  <2>1. {y \in files : rank[y] < rank[x]} = {y \in files : LexRank(y) < LexRank(x)}
    BY <1>4
  <2>2. ~ (Cardinality({y \in files : LexRank(y) < LexRank(x)}) < Cardinality(files) - MaxFiles)
    BY DEF VerifyDoom, Found, Oldest
  <2>3. QED
    BY <2>1, <2>2
<1>6. T \in SUBSET files
  OBVIOUS
<1>7. \A x : x \in T <=> x \in files /\ x \notin VerifyDoom(Found)
  OBVIOUS
<1> HIDE DEF T, files
<1>8. Cardinality(T) <= MaxFiles
  BY <1>1, <1>3, <1>4, <1>5, <1>6, AllButTheLowest
<1>9. Spared' \subseteq {LexRank(n) : n \in T}
  BY <1>1, <1>2, <1>7 DEF Spared, Exists
<1>10. IsFiniteSet(T) /\ Cardinality(T) \in Nat
  BY <1>3, <1>6, FS_Subset, FS_CardinalityType
<1>11. IsFiniteSet({LexRank(n) : n \in T}) /\ Cardinality({LexRank(n) : n \in T}) <= Cardinality(T)
  <2> DEFINE f == [n \in T |-> LexRank(n)]
  <2>1. f \in Surjection(T, {LexRank(n) : n \in T})
    BY DEF Surjection
  <2>2. QED
    BY <1>10, <2>1, FS_Surjection
<1>12. PICK a, b : /\ a = Cardinality(Spared') /\ b = Cardinality({LexRank(n) : n \in T})
                   /\ a \in Nat /\ b \in Nat /\ a <= b
  BY <1>9, <1>11, FS_Subset, FS_CardinalityType
<1>13. QED
  BY <1>1, <1>8, <1>10, <1>11, <1>12

\* What a prune of an opted-in handler spares beside the live file.
LEMMA PruneSpares ==
    ASSUME TypeInv, KindInv, ~ ZeroOption(cfg), MaxFiles >= 1, Prune, faults' = faults
    PROVE  Cardinality((Spared \ {LiveRank})') <= MaxFiles - 1
<1> DEFINE paths(i) == {n \in Backups(Found) : n.idx = i}
           indices == {n.idx : n \in Backups(Found)}
           mtime(i) == Max({disk[n].mtime : n \in paths(i)})
           expired == {i \in indices : cfg.age /\ mtime(i) < now - MaxAge}
           survivors == indices \ expired
           keep == IF MaxFiles = 0 THEN 0 ELSE MaxFiles - 1
           counted == Oldest(survivors, Cardinality(survivors) - keep, LAMBDA i : i)
           T == survivors \ counted
<1>1. /\ doom' = UNION {paths(i) : i \in expired \cup counted}
      /\ disk' = disk /\ liveFileName' = liveFileName /\ cfg' = cfg /\ index' = index
  <2>1. doom' = PruneDoom(Found) /\ UNCHANGED <<disk, cfg, index>>
    BY PruneFacts
  <2>2. QED
    BY <2>1 DEF PruneDoom, liveFileName
<1>2. MaxFiles \in Nat /\ keep \in Nat /\ keep = MaxFiles - 1
  BY TypeFacts DEF MaxFiles
<1>3. indices \subseteq Nat /\ IsFiniteSet(survivors) /\ survivors \subseteq Nat
  <2>1. indices \subseteq Indices
    BY IndexedFacts DEF Backups, Rotated, Listed, Found, Indexed
  <2>2. IsFiniteSet(Indices) /\ Indices \subseteq Nat
    <3>1. IsFiniteSet(Indices)
      BY Params, FS_Interval DEF Indices
    <3>2. QED
      BY <3>1, NameFields
  <2>3. survivors \in SUBSET Indices
    BY <2>1
  <2> HIDE DEF survivors, indices
  <2>4. QED
    BY <2>1, <2>2, <2>3, FS_Subset
<1>4. \A n \in Data : Exists(n) /\ LexRank(n) # LiveRank => n \in Backups(Found) /\ LexRank(n) = n.idx
  <2> SUFFICES ASSUME NEW n \in Data, Exists(n), LexRank(n) # LiveRank
               PROVE  n \in Backups(Found) /\ LexRank(n) = n.idx
    OBVIOUS
  <2>1. n # liveFileName
    BY DEF LiveRank
  <2>2. n # Live
    BY <2>1 DEF KindInv, liveFileName
  <2>3. n \in Indexed /\ n \in Names
    BY <2>2, DataFacts
  <2>4. n.kind = "log" \/ (n.kind = "gz" /\ cfg.compress)
    BY <2>3 DEF Indexed, KindInv
  <2>5. QED
    BY <2>1, <2>3, <2>4, DataFacts DEF Backups, Rotated, Listed, Found
<1>5. PICK rank \in [survivors -> Nat] : \A i \in survivors : rank[i] = i
  <2>1. [i \in survivors |-> i] \in [survivors -> Nat]
    BY <1>3
  <2>2. QED
    BY <2>1
<1>6. \A i \in T : ~ (Cardinality({j \in survivors : rank[j] < rank[i]}) < Cardinality(survivors) - keep)
  <2> SUFFICES ASSUME NEW i \in T
               PROVE  ~ (Cardinality({j \in survivors : rank[j] < rank[i]})
                             < Cardinality(survivors) - keep)
    OBVIOUS
  <2>1. {j \in survivors : rank[j] < rank[i]} = {j \in survivors : j < i}
    BY <1>5
  <2>2. ~ (Cardinality({j \in survivors : j < i}) < Cardinality(survivors) - keep)
    <3>1. i \in survivors /\ i \notin counted
      OBVIOUS
    <3>2. counted = {x \in survivors : Cardinality({y \in survivors : y < x})
                                           < Cardinality(survivors) - keep}
      BY DEF Oldest
    <3> HIDE DEF survivors, counted, keep
    <3>3. QED
      BY <3>1, <3>2
  <2>3. QED
    BY <2>1, <2>2
<1>7. T \in SUBSET survivors
  OBVIOUS
<1>8. \A n \in Backups(Found) : n.idx \in expired \cup counted => n \in doom'
  <2>1. \A n \in Backups(Found) : n \in paths(n.idx)
    OBVIOUS
  <2> HIDE DEF paths, expired, counted
  <2>2. QED
    BY <1>1, <2>1
<1>9. \A n \in Backups(Found) : n.idx \in indices
  OBVIOUS
<1>10. \A i \in indices : i \notin expired \cup counted => i \in T
  OBVIOUS
<1> HIDE DEF T, survivors, keep, counted, expired, indices
<1>11. Cardinality(T) <= keep
  BY <1>2, <1>3, <1>5, <1>6, <1>7, AllButTheLowest
<1>12. LiveRank' = LiveRank
  BY <1>1 DEF LiveRank, LexRank
<1>13. (Spared \ {LiveRank})' \subseteq T
  BY <1>1, <1>4, <1>8, <1>9, <1>10, <1>12 DEF Spared, Exists
<1>14. IsFiniteSet(T) /\ Cardinality(T) \in Nat
  BY <1>3, <1>7, FS_Subset, FS_CardinalityType
<1>15. PICK a : a = Cardinality((Spared \ {LiveRank})') /\ a \in Nat /\ a <= Cardinality(T)
  BY <1>13, <1>14, FS_Subset, FS_CardinalityType
<1>16. QED
  BY <1>2, <1>11, <1>14, <1>15

\* The room grows with every death and every failure.
LEMMA RoomGrows ==
    ASSUME NoToggle, TypeInv, TypeInv', [Next]_vars
    PROVE  /\ Room \in Int /\ Room' \in Int /\ Room <= Room' /\ Keep \in Int /\ Keep <= Room
           /\ Keep' = Keep
           /\ faults' = faults + 1 => Room + 1 <= Room'
           /\ restarts' = restarts + 1 => Room + 1 <= Room'
<1>1. restarts \in Nat /\ faults \in Nat /\ restarts' \in Nat /\ faults' \in Nat
  <2>1. restarts' \in Nat /\ faults' \in Nat
    <3>1. scenario' \in Scenarios /\ restarts' \in 0..scenario'.deaths /\ faults' \in 0..scenario'.faults
      BY DEF TypeInv, TypeOK
    <3>2. QED
      BY <3>1, ScenarioFields
  <2>2. QED
    BY <2>1, TypeFacts
<1>2. faults <= faults' /\ restarts <= restarts'
  <2>1. restarts' \in {restarts, restarts + 1}
    BY DEF Next, Construct, Remove, Constructed, Open, WriteBody, WriteNewline, RotateStable,
        RotateIndexed, Gzip, GzipCreate, GzipCopy, GzipRename, GzipStamp, GzipDrop, GzipFails,
        Step, Prune, Pruned, Return, Crash, Tick, bounds, elapsed, vars
  <2>2. QED
    BY <1>1, <2>1, FaultsGrow
<1>3. Keep \in Int
  <2>1. MaxFiles \in Nat
    BY TypeFacts DEF MaxFiles
  <2>2. QED
    BY <2>1 DEF Keep
<1>4. Keep' = Keep
  BY OptionsKept
<1>5. PICK k \in Int : k = Keep
  BY <1>3
<1>6. PICK r \in Nat, q \in Nat, f \in Nat, g \in Nat :
          r = restarts /\ q = restarts' /\ f = faults /\ g = faults'
  BY <1>1
<1>7. Room = k + r + f
  BY <1>5, <1>6 DEF Room
<1>8. Room' = k + q + g
  BY <1>4, <1>5, <1>6 DEF Room
<1>9. f <= g /\ r <= q
  BY <1>2, <1>6
<1>10. /\ k + r + f \in Int /\ k + q + g \in Int /\ k + r + f <= k + q + g /\ k <= k + r + f
       /\ g = f + 1 => k + r + f + 1 <= k + q + g
       /\ q = r + 1 => k + r + f + 1 <= k + q + g
  BY <1>9
<1>11. QED
  BY <1>4, <1>5, <1>6, <1>7, <1>8, <1>10

\* No more files than there were, wherever they are.
LEMMA NoMoreFiles ==
    ASSUME \A n \in Data : Exists(n)' => LexRank(n) \in LogFiles
    PROVE  Cardinality(LogFiles') <= Cardinality(LogFiles)
<1>1. LogFiles' \subseteq LogFiles
  BY DEF LogFiles, Data
<1>2. QED
  BY <1>1, RankSets

\* One file more.
LEMMA OneMoreFile ==
    /\ Cardinality(LogFiles) \in Nat /\ Cardinality(LogFiles') \in Nat
    /\ Cardinality(LogFiles \ {LiveRank}) \in Nat
    /\ Cardinality(LogFiles) <= Cardinality(LogFiles \ {LiveRank}) + 1
    /\ Cardinality(LogFiles \ {LiveRank}) <= Cardinality(LogFiles)
<1>1. LogFiles \subseteq 0..(MaxIndex + 1)
  BY RankSets
<1>2. LogFiles \ {LiveRank} \subseteq LogFiles
  OBVIOUS
<1>3. QED
  BY <1>1, <1>2, RankSets

\* A rotation under a stable name puts one file in the place of the live one.
LEMMA RotatedInPlace ==
    ASSUME TypeInv, RotateStable
    PROVE  \/ Cardinality(LogFiles') <= Cardinality(LogFiles \ {LiveRank}) + 1
           \/ UNCHANGED disk
<1>1. CASE UNCHANGED disk
  BY <1>1
<1>2. CASE ~ UNCHANGED disk
  <2>1. PICK i \in Indices :
            /\ disk'[Live] = Absent
            /\ \A n \in Names : n \notin {Live, Name("log", i)} => disk'[n] = disk[n]
    BY <1>2, RotateStableFacts
  <2>2. LiveRank = LexRank(Live)
    BY RotateStableFacts DEF LiveRank
  <2>3. \A n \in Data : Exists(n)' => LexRank(n) \in (LogFiles \ {LiveRank}) \cup {i}
    <3> SUFFICES ASSUME NEW n \in Data, Exists(n)'
                 PROVE  LexRank(n) \in (LogFiles \ {LiveRank}) \cup {i}
      OBVIOUS
    <3>1. n # Live /\ n \in Names /\ n \in Indexed
      BY <2>1, DataFacts DEF Exists
    <3>2. LexRank(n) # LiveRank /\ LexRank(n) = n.idx
      BY <2>2, <3>1, DataFacts
    <3>3. CASE n = Name("log", i)
      BY <3>2, <3>3, NameFields
    <3>4. CASE n # Name("log", i)
      <4>1. Exists(n)
        BY <2>1, <3>1, <3>4 DEF Exists
      <4>2. QED
        BY <3>2, <4>1 DEF LogFiles, Data
    <3>5. QED
      BY <3>3, <3>4
  <2>4. LogFiles' \subseteq (LogFiles \ {LiveRank}) \cup {i}
    BY <2>3 DEF LogFiles, Data
  <2>5. i \in 0..(MaxIndex + 1)
    BY NameFields, Params DEF Indices
  <2>6. PICK S \in SUBSET (0..(MaxIndex + 1)) : S = LogFiles \ {LiveRank}
    BY RankSets
  <2>7. S \cup {i} \in SUBSET (0..(MaxIndex + 1))
    BY <2>5
  <2>8. Cardinality(LogFiles') <= Cardinality(S \cup {i})
    BY <2>4, <2>6, <2>7, RankSets
  <2>9. Cardinality(S \cup {i}) <= Cardinality(S) + 1
    <3>1. IsFiniteSet(S) /\ Cardinality(S) \in Nat
      BY <2>6, RankSets
    <3>2. Cardinality(S \cup {i}) = IF i \in S THEN Cardinality(S) ELSE Cardinality(S) + 1
      BY <3>1, FS_AddElement
    <3>3. QED
      BY <3>1, <3>2
  <2>10. Cardinality(LogFiles') \in Nat /\ Cardinality(S) \in Nat /\ Cardinality(S \cup {i}) \in Nat
    BY <2>6, <2>7, RankSets
  <2>11. QED
    BY <2>6, <2>8, <2>9, <2>10
<1>3. QED
  BY <1>1, <1>2

\* A removal spares what it spared, and the file it fails to remove.
LEMMA SparedByRemoval ==
    ASSUME TypeInv, TypeInv', Remove("remove")
    PROVE  /\ Cardinality((Spared \ {LiveRank})') <= Cardinality(Spared \ {LiveRank}) + 1
           /\ disk'[NextDoomed] = Absent
                => Cardinality((Spared \ {LiveRank})') <= Cardinality(Spared \ {LiveRank})
           /\ Cardinality(Spared \ {LiveRank}) \in Nat
           /\ Cardinality((Spared \ {LiveRank})') \in Nat
<1>1. /\ NextDoomed \in doom /\ NextDoomed \in Names /\ doom' = doom \ {NextDoomed}
      /\ liveFileName' = liveFileName
      /\ \A n \in Names \ {NextDoomed} : disk'[n] = disk[n]
      /\ disk'[NextDoomed] \in {disk[NextDoomed], Absent}
  BY RemoveFacts
<1>2. LiveRank' = LiveRank
  BY <1>1 DEF LiveRank, LexRank
<1>3. PICK S, T : S = Spared \ {LiveRank} /\ T = (Spared \ {LiveRank})'
  OBVIOUS
<1>4. S \in SUBSET (0..(MaxIndex + 1)) /\ T \in SUBSET (0..(MaxIndex + 1))
  <2>1. \A n \in Data : LexRank(n) \in 0..(MaxIndex + 1)
    BY DataFacts
  <2>2. QED
    BY <1>2, <1>3, <2>1 DEF Spared
<1>5. \A n \in Data : Exists(n)' /\ n \notin doom' /\ n # NextDoomed => Exists(n) /\ n \notin doom
  BY <1>1 DEF Data, Exists
<1>6. PICK d : d = LexRank(NextDoomed)
  OBVIOUS
<1>7. T \ {d} \subseteq S
  BY <1>2, <1>3, <1>5, <1>6 DEF Spared
<1>8. disk'[NextDoomed] = Absent => T \subseteq S
  BY <1>2, <1>3, <1>5 DEF Spared, Exists
<1>9. PICK s \in Nat, t \in Nat, u \in Nat :
          s = Cardinality(S) /\ t = Cardinality(T) /\ u = Cardinality(T \ {d})
  BY <1>4, RankSets
<1>10. u <= s /\ t <= u + 1
  BY <1>4, <1>7, <1>9, RankSets
<1>11. disk'[NextDoomed] = Absent => t <= s
  BY <1>4, <1>8, <1>9, RankSets
<1>12. t <= s + 1
  BY <1>10
<1>13. QED
  BY <1>3, <1>9, <1>11, <1>12


\* Construction removes files only.
LEMMA FilesConstruct ==
    ASSUME NoToggle, TypeInv, TypeInv', FilesInv, [Next]_vars,
           Construct \/ Remove("construct") \/ Constructed
    PROVE  FilesInv'
<1>1. pc \in {"down", "construct"} /\ pc' \in {"construct", "idle"} /\ (pc' = "idle" => doom' = {})
  BY DEF Construct, Remove, Constructed
<1>2. \A n \in Data : Exists(n)' => LexRank(n) \in LogFiles
  <2>1. CASE Construct \/ Constructed
    <3>1. disk' = disk
      BY <2>1 DEF Construct, Constructed
    <3>2. QED
      BY <3>1 DEF LogFiles, Data, Exists
  <2>2. CASE Remove("construct")
    <3>1. \A n \in Names : disk'[n] \in {disk[n], Absent}
      BY <2>2, RemoveFacts
    <3>2. QED
      BY <3>1 DEF LogFiles, Data, Exists
  <2>3. QED
    BY <2>1, <2>2
<1>3. Cardinality(LogFiles') <= Cardinality(LogFiles)
  BY <1>2, NoMoreFiles
<1>4. Cardinality(LogFiles) <= Room
  BY <1>1 DEF FilesInv
<1>5. PICK a \in Nat, b \in Nat, r \in Int, q \in Int :
          /\ a = Cardinality(LogFiles) /\ b = Cardinality(LogFiles') /\ r = Room /\ q = Room'
          /\ r <= q
  BY OneMoreFile, RoomGrows
<1>6. b <= q
  BY <1>3, <1>4, <1>5
<1>7. Cardinality((LogFiles \ {LiveRank})') <= b /\ Cardinality((LogFiles \ {LiveRank})') \in Nat
  <2>1. LogFiles' \in SUBSET (0..(MaxIndex + 1)) /\ (LogFiles \ {LiveRank})' \in SUBSET LogFiles'
    BY RankSets
  <2>2. (LogFiles \ {LiveRank})' \in SUBSET (0..(MaxIndex + 1))
    BY <2>1
  <2>3. QED
    BY <1>5, <2>1, <2>2, RankSets
<1>8. Cardinality((LogFiles \ {LiveRank})') <= q
  BY <1>6, <1>7
<1>9. QED
  BY <1>1, <1>5, <1>6, <1>8 DEF FilesInv, Busy

\* A Write adds at most the live file.
LEMMA FilesWrite ==
    ASSUME NoToggle, TypeInv, TypeInv', FilesInv, [Next]_vars,
           Open \/ WriteBody \/ WriteNewline
    PROVE  FilesInv'
<1>1. /\ pc \in {"idle", "body", "newline"} /\ pc' \in {"idle", "body", "newline", "rotate", "return"}
      /\ doom' = doom /\ liveFileName' = liveFileName
      /\ \A m \in Names \ {liveFileName} : disk'[m] = disk[m]
  BY OpenFacts, WriteBodyFacts, WriteNewlineFacts
<1>2. LiveRank' = LiveRank
  BY <1>1 DEF LiveRank, LexRank
<1>3. \A n \in Data : Exists(n)' => LexRank(n) = LiveRank \/ LexRank(n) \in LogFiles
  <2>1. \A n \in Data : Exists(n)' => n = liveFileName \/ (n \in Names /\ Exists(n))
    BY <1>1, DataFacts DEF Exists
  <2>2. QED
    BY <2>1 DEF LiveRank, LogFiles, Data
<1>4. (LogFiles \ {LiveRank})' \subseteq LogFiles \ {LiveRank}
  BY <1>2, <1>3 DEF LogFiles, Data
<1>5. LogFiles \ {LiveRank} \in SUBSET (0..(MaxIndex + 1))
  BY RankSets
<1>6. /\ Cardinality((LogFiles \ {LiveRank})') <= Cardinality(LogFiles \ {LiveRank})
      /\ Cardinality((LogFiles \ {LiveRank})') \in Nat
  <2>1. (LogFiles \ {LiveRank})' \in SUBSET (0..(MaxIndex + 1))
    BY <1>4, <1>5
  <2>2. QED
    BY <1>4, <1>5, <2>1, RankSets
<1>7. Cardinality(LogFiles \ {LiveRank}) <= Room /\ doom = {}
  BY <1>1 DEF FilesInv
<1>8. Cardinality((LogFiles \ {LiveRank})') <= Room'
  BY <1>6, <1>7, OneMoreFile, RoomGrows
<1>9. QED
  BY <1>1, <1>7, <1>8 DEF FilesInv, Busy

\* A rotation turns the live file into one more.
LEMMA FilesRotate ==
    ASSUME NoToggle, TypeInv, TypeInv', FilesInv, [Next]_vars, RotateStable \/ RotateIndexed
    PROVE  FilesInv'
<1>1. pc = "rotate" /\ doom' = doom /\ pc' \in {"gzip", "prune"}
  BY RotateStableFacts DEF RotateIndexed
<1>2. Cardinality(LogFiles \ {LiveRank}) <= Room /\ doom = {}
  BY <1>1 DEF FilesInv
<1>3. Cardinality(LogFiles') <= Cardinality(LogFiles \ {LiveRank}) + 1
  <2>1. CASE UNCHANGED disk
    <3>1. LogFiles' = LogFiles
      BY <2>1 DEF LogFiles, Exists
    <3>2. QED
      BY <3>1, OneMoreFile
  <2>2. CASE ~ UNCHANGED disk
    <3>1. RotateStable
      BY <2>2 DEF RotateIndexed
    <3>2. QED
      BY <2>2, <3>1, RotatedInPlace
  <2>3. QED
    BY <2>1, <2>2
<1>4. Cardinality(LogFiles') <= Room' + 1
  BY <1>2, <1>3, OneMoreFile, RoomGrows
<1>5. QED
  BY <1>1, <1>2, <1>4 DEF FilesInv, Busy

\* Compression leaves the positions as they are.
LEMMA FilesGzip ==
    ASSUME NoToggle, TypeInv, TypeInv', FilesInv, [Next]_vars, Gzip
    PROVE  FilesInv'
<1>1. /\ Busy /\ (Busy' \/ pc' = "prune") /\ doom' = doom
      /\ \A n \in Names \ {src, dst, tmp} : disk'[n] = disk[n]
  BY GzipFacts
<1>2. gzIdx \in Indices /\ Exists(src)
  BY <1>1 DEF TypeInv, Control
<1>3. /\ LexRank(src) = gzIdx /\ LexRank(dst) = gzIdx /\ src \in Names /\ src.kind = "log"
      /\ tmp.kind = "tmp"
  <2>1. src \in Indexed /\ dst \in Indexed /\ src.idx = gzIdx /\ dst.idx = gzIdx
    BY <1>2, NameFields DEF src, dst, Indexed
  <2>2. QED
    BY <1>2, <2>1, DataFacts, NameFields DEF src, tmp, Indexed
<1>4. \A n \in Data : Exists(n)' => LexRank(n) \in LogFiles
  <2> SUFFICES ASSUME NEW n \in Data, Exists(n)' PROVE LexRank(n) \in LogFiles
    OBVIOUS
  <2>1. CASE n \in {src, dst}
    BY <1>2, <1>3, <2>1 DEF LogFiles
  <2>2. CASE n \notin {src, dst}
    <3>1. n \in Names /\ n # tmp /\ n.kind # "tmp"
      BY <1>3 DEF Data
    <3>2. disk'[n] = disk[n]
      BY <1>1, <2>2, <3>1
    <3>3. QED
      BY <3>1, <3>2 DEF LogFiles, Exists
  <2>3. QED
    BY <2>1, <2>2
<1>5. Cardinality(LogFiles') <= Cardinality(LogFiles)
  BY <1>4, NoMoreFiles
<1>6. Cardinality(LogFiles) <= Room + 1 /\ doom = {}
  BY <1>1 DEF FilesInv, Busy
<1>7. PICK a \in Nat, b \in Nat, r \in Int, q \in Int :
          /\ a = Cardinality(LogFiles) /\ b = Cardinality(LogFiles') /\ r = Room /\ q = Room'
          /\ r <= q
  BY OneMoreFile, RoomGrows
<1>8. b <= q + 1
  BY <1>5, <1>6, <1>7
<1>9. QED
  BY <1>1, <1>6, <1>7, <1>8 DEF FilesInv, Busy

\* A prune marks all the files there is no room for; of one that it does not see,
\* a failure makes room.
LEMMA FilesPrune ==
    ASSUME NoToggle, KeepsLive, TypeInv, TypeInv', KindInv, FilesInv, [Next]_vars, Prune
    PROVE  FilesInv'
<1>1. pc = "prune" /\ pc' = "remove" /\ disk' = disk /\ cfg' = cfg
  BY DEF Prune, process
<1>2. LogFiles' = LogFiles
  BY <1>1 DEF LogFiles, Exists
<1>3. Cardinality(LogFiles) <= Room + 1
  BY <1>1 DEF FilesInv, Busy
<1>4. Cardinality(LogFiles') <= Room' + 1
  BY <1>2, <1>3, OneMoreFile, RoomGrows
<1>5. Cardinality((Spared \ {LiveRank})') \in Nat
  <2>1. (Spared \ {LiveRank})' \in SUBSET (0..(MaxIndex + 1))
    <3>1. \A n \in Data : LexRank(n) \in 0..(MaxIndex + 1)
      BY DataFacts
    <3>2. QED
      BY <3>1 DEF Spared
  <2>2. QED
    BY <2>1, RankSets
<1>6. ASSUME faults' = faults PROVE Cardinality((Spared \ {LiveRank})') <= Keep
  <2>1. CASE ZeroOption(cfg)
    <3>1. Cardinality(Spared') <= MaxFiles
      BY <1>6, <2>1, VerifySpares
    <3>2. PICK S, T : S = Spared' /\ T = (Spared \ {LiveRank})' /\ T \in SUBSET S
      <4>1. (Spared \ {LiveRank})' = Spared' \ {LiveRank'}
        OBVIOUS
      <4>2. PICK S, x : S = Spared' /\ x = LiveRank'
        OBVIOUS
      <4>3. S \ {x} \in SUBSET S
        OBVIOUS
      <4>4. S = Spared' /\ S \ {x} = (Spared \ {LiveRank})'
        BY <4>1, <4>2
      <4>5. QED
        BY <4>3, <4>4
    <3>3. S \in SUBSET (0..(MaxIndex + 1))
      <4>1. \A n \in Data : LexRank(n) \in 0..(MaxIndex + 1)
        BY DataFacts
      <4>2. QED
        BY <3>2, <4>1 DEF Spared
    <3>4. Cardinality(T) <= Cardinality(S) /\ Cardinality(S) \in Nat /\ Cardinality(T) \in Nat
      BY <3>2, <3>3, RankSets
    <3>5. MaxFiles \in Nat /\ Keep = MaxFiles
      BY <2>1, TypeFacts DEF MaxFiles, Keep
    <3>6. QED
      BY <3>1, <3>2, <3>4, <3>5
  <2>2. CASE ~ ZeroOption(cfg)
    <3>1. MaxFiles >= 1
      BY <2>2 DEF KeepsLive, TypeInv, TypeOK, MaxFiles
    <3>2. QED
      BY <1>6, <2>2, <3>1, PruneSpares DEF Keep
  <2>3. QED
    BY <2>1, <2>2
<1>7. CASE faults' = faults
  <2>1. Cardinality((Spared \ {LiveRank})') <= Room'
    BY <1>5, <1>6, <1>7, RoomGrows
  <2>2. QED
    BY <1>1, <1>4, <2>1 DEF FilesInv, Busy
<1>8. CASE faults' # faults
  <2>1. faults' = faults + 1
    BY <1>8, PruneFacts
  <2>2. (Spared \ {LiveRank})' \subseteq LogFiles'
    BY DEF Spared, LogFiles, Data
  <2>3. LogFiles' \in SUBSET (0..(MaxIndex + 1))
    BY <1>2, RankSets
  <2>4. PICK S, T : S = (Spared \ {LiveRank})' /\ T = LogFiles' /\ S \subseteq T
    BY <2>2
  <2>5. Cardinality(S) <= Cardinality(T) /\ Cardinality(T) \in Nat
    BY <2>3, <2>4, RankSets
  <2>6. Cardinality(T) = Cardinality(LogFiles)
    BY <1>2, <2>4
  <2>7. Cardinality(LogFiles) <= Room + 1 /\ Room + 1 <= Room'
    BY <1>3, <2>1, RoomGrows
  <2>8. PICK a \in Nat, b \in Nat, n \in Int, m \in Int :
            /\ a = Cardinality(S) /\ b = Cardinality(T) /\ n = Room /\ m = Room'
    BY <1>5, <2>4, <2>5, RoomGrows
  <2>9. a <= m
    BY <2>5, <2>6, <2>7, <2>8
  <2>10. Cardinality((Spared \ {LiveRank})') <= Room'
    BY <2>4, <2>8, <2>9
  <2>11. QED
    BY <1>1, <1>4, <2>10 DEF FilesInv, Busy
<1>9. QED
  BY <1>7, <1>8

\* A removal that fails is one that there is room for.
LEMMA FilesRemove ==
    ASSUME NoToggle, TypeInv, TypeInv', FilesInv, [Next]_vars, Remove("remove")
    PROVE  FilesInv'
<1>1. /\ pc = "remove" /\ pc' = "remove"
      /\ \A n \in Names : disk'[n] \in {disk[n], Absent}
      /\ disk'[NextDoomed] = Absent \/ faults' = faults + 1
  BY RemoveFacts
<1>2. Cardinality(LogFiles) <= Room + 1 /\ Cardinality(Spared \ {LiveRank}) <= Room
  BY <1>1 DEF FilesInv
<1>3. \A n \in Data : Exists(n)' => LexRank(n) \in LogFiles
  BY <1>1 DEF LogFiles, Data, Exists
<1>4. Cardinality(LogFiles') <= Cardinality(LogFiles)
  BY <1>3, NoMoreFiles
<1>5. PICK a \in Nat, b \in Nat, r \in Int, q \in Int :
          /\ a = Cardinality(LogFiles) /\ b = Cardinality(LogFiles') /\ r = Room /\ q = Room'
          /\ r <= q /\ (faults' = faults + 1 => r + 1 <= q)
  BY OneMoreFile, RoomGrows
<1>6. b <= q + 1
  BY <1>2, <1>4, <1>5
<1>7. PICK c \in Nat, d \in Nat :
          /\ c = Cardinality(Spared \ {LiveRank}) /\ d = Cardinality((Spared \ {LiveRank})')
          /\ d <= c + 1 /\ (disk'[NextDoomed] = Absent => d <= c)
  BY SparedByRemoval
<1>8. d <= q
  BY <1>1, <1>2, <1>5, <1>7
<1>9. QED
  BY <1>1, <1>5, <1>6, <1>7, <1>8 DEF FilesInv, Busy

\* What is left when the last file on the list is gone, and at a death.
LEMMA FilesEnd ==
    ASSUME NoToggle, TypeInv, TypeInv', FilesInv, [Next]_vars, Pruned \/ Return \/ Crash
    PROVE  FilesInv'
<1>0. disk' = disk
  BY DEF Pruned, Return, Crash
<1>1. LogFiles' = LogFiles
  BY <1>0 DEF LogFiles, Exists
<1>2. CASE Pruned \/ Return
  <2>1. /\ pc \in {"remove", "return"} /\ pc' \in {"return", "idle"} /\ doom = {} /\ doom' = {}
        /\ liveFileName' = liveFileName
    BY <1>2 DEF Pruned, Return, FilesInv, process, liveFileName
  <2>2. LiveRank' = LiveRank
    BY <2>1 DEF LiveRank, LexRank
  <2>3. Spared = LogFiles
    BY <2>1 DEF Spared, LogFiles, Data
  <2>4. Cardinality(LogFiles \ {LiveRank}) <= Room
    BY <2>1, <2>3 DEF FilesInv
  <2>5. Cardinality((LogFiles \ {LiveRank})') <= Room'
    BY <1>1, <2>2, <2>4, OneMoreFile, RoomGrows
  <2>6. QED
    BY <2>1, <2>5 DEF FilesInv, Busy
<1>3. CASE Crash
  <2>1. pc # "down" /\ pc' = "down" /\ doom' = {} /\ restarts' = restarts + 1
    BY <1>3 DEF Crash
  <2>2. PICK a \in Nat, b \in Nat, r \in Int, q \in Int :
            /\ a = Cardinality(LogFiles) /\ b = Cardinality(LogFiles \ {LiveRank})
            /\ a <= b + 1 /\ r = Room /\ q = Room' /\ r + 1 <= q
    BY <2>1, OneMoreFile, RoomGrows
  <2>3. a <= r + 1
    <3>1. a <= r \/ b <= r \/ a <= r + 1
      BY <2>1, <2>2 DEF FilesInv, Busy, TypeInv, TypeOK
    <3>2. QED
      BY <2>2, <3>1
  <2>4. a <= q
    BY <2>2, <2>3
  <2>5. QED
    BY <1>1, <2>1, <2>2, <2>4 DEF FilesInv, Busy
<1>4. QED
  BY <1>2, <1>3

\* Time passes.
LEMMA FilesTick ==
    ASSUME NoToggle, TypeInv, TypeInv', FilesInv, [Next]_vars, Tick \/ UNCHANGED vars
    PROVE  FilesInv'
<1>1. UNCHANGED <<disk, pc, doom, cfg, index, restarts, faults, scenario>>
  BY DEF Tick, vars, process, bounds, elapsed, failures
<1>2. /\ LogFiles' = LogFiles /\ LiveRank' = LiveRank /\ Spared' = Spared /\ Room' = Room
      /\ Busy' = Busy
  BY <1>1 DEF LogFiles, LiveRank, LexRank, liveFileName, Spared, Exists, Room, Keep, MaxFiles,
     ZeroOption, Busy
<1>3. QED
  BY <1>1, <1>2 DEF FilesInv

\* No step makes more files than there is room for.
LEMMA FilesStep ==
    ASSUME NoToggle, KeepsLive, TypeInv, TypeInv', KindInv, FilesInv, [Next]_vars
    PROVE  FilesInv'
BY FilesConstruct, FilesWrite, FilesRotate, FilesGzip, FilesPrune, FilesRemove, FilesEnd, FilesTick
   DEF Next

\* The folder is empty when the first process starts.
LEMMA FilesInit == ASSUME KeepsLive PROVE Init => KindInv /\ FilesInv
<1> SUFFICES ASSUME Init PROVE KindInv /\ FilesInv
  OBVIOUS
<1>1. \A n \in Names : ~ Exists(n)
  BY DEF Init, Exists
<1>2. KindInv
  BY <1>1, NameFields DEF KindInv
<1>3. Cardinality(LogFiles) = 0
  <2>1. LogFiles = {}
    BY <1>1 DEF LogFiles
  <2>2. QED
    BY <2>1, FS_EmptySet
<1>4. 0 <= Room
  <2>1. scenario \in Scenarios /\ cfg \in scenario.configs /\ restarts = 0 /\ faults = 0
    BY DEF Init
  <2>2. MaxFiles \in Nat /\ (ZeroOption(cfg) \/ MaxFiles >= 1)
    BY <2>1, ScenarioFields DEF KeepsLive, MaxFiles
  <2>3. Keep \in Int /\ 0 <= Keep
    BY <2>2 DEF Keep
  <2>4. QED
    BY <2>1, <2>3 DEF Room
<1>5. QED
  BY <1>2, <1>3, <1>4 DEF Init, FilesInv, Busy

\* Always.
LEMMA FilesInvAlways == ASSUME NoToggle, KeepsLive PROVE Spec => [](KindInv /\ FilesInv)
<1>1. Init => KindInv /\ FilesInv
  BY FilesInit
<1>2. TypeInv /\ TypeInv' /\ (KindInv /\ FilesInv) /\ [Next]_vars => (KindInv /\ FilesInv)'
  BY KindStep, FilesStep
<1>3. QED
  BY <1>1, <1>2, TypeInvAlways, PTL DEF Spec

\* "No more than the configured maximum remain in folder": between writes, whatever
\* was rotated, compressed, pruned or cut short, but for one file for every death
\* and for every file operation that failed, reads of the folder included.  A handler with an option counts the
\* file it writes to, so that it must be allowed one.
THEOREM FolderStaysBounded ==
    ASSUME NoToggle, KeepsLive
    PROVE  Spec => []FilesBoundedAtRest
<1>1. TypeInv /\ FilesInv => FilesBoundedAtRest
  <2> SUFFICES ASSUME TypeInv, FilesInv, pc = "idle"
               PROVE  Cardinality(LogFiles)
                          <= MaxFiles + restarts + faults + IF ZeroOption(cfg) THEN 1 ELSE 0
    BY DEF FilesBoundedAtRest
  <2>1. Cardinality(LogFiles \ {LiveRank}) <= Room
    BY DEF FilesInv
  <2>2. MaxFiles \in Nat /\ restarts \in Nat /\ faults \in Nat
    BY TypeFacts DEF MaxFiles
  <2>3. PICK a \in Nat, b \in Nat, m \in Nat, r \in Nat, f \in Nat :
            /\ a = Cardinality(LogFiles) /\ b = Cardinality(LogFiles \ {LiveRank})
            /\ a <= b + 1 /\ m = MaxFiles /\ r = restarts /\ f = faults
    BY <2>2, OneMoreFile
  <2>4. CASE ZeroOption(cfg)
    <3>1. b <= m + r + f
      BY <2>1, <2>3, <2>4 DEF Room, Keep
    <3>2. a <= m + r + f + 1
      BY <2>3, <3>1
    <3>3. QED
      BY <2>3, <2>4, <3>2
  <2>5. CASE ~ ZeroOption(cfg)
    <3>1. b <= m - 1 + r + f
      BY <2>1, <2>3, <2>5 DEF Room, Keep
    <3>2. a <= m + r + f + 0
      BY <2>3, <3>1
    <3>3. QED
      BY <2>3, <2>5, <3>2
  <2>6. QED
    BY <2>4, <2>5
<1>2. QED
  BY <1>1, TypeInvAlways, FilesInvAlways, PTL

-----------------------------------------------------------------------------
(* The newest message when operations fail.  A file may then stay in its place: *)
(* the live file when its renaming fails, a plaintext beside its .gz.           *)

\* A file is no older than the messages in it, which are those of earlier Writes:
\* why a file that is pruned for its age holds none that is younger.
StampInv ==
    /\ \A x \in written : x < nextMsg
    /\ \A n \in Names : Exists(n) =>
           /\ disk[n].mtime <= now
           /\ \A x \in disk[n].msgs : x < nextMsg /\ stamp[x] <= disk[n].mtime
    /\ pc = "gzrename" => disk[tmp].msgs = disk[src].msgs
    /\ pc = "gzstamp" => disk[dst].msgs = disk[src].msgs

\* What the fields of a file, and the stamps, are.
Fields ==
    /\ \A n \in Names : Exists(n) => /\ disk[n].mtime \in Nat /\ disk[n].msgs \subseteq 1..MaxMsgs
    /\ \A x \in 1..MaxMsgs : stamp[x] \in Nat
    /\ written \subseteq 1..MaxMsgs
    /\ now \in Nat

\* A step from one type to another has both states' fields.
LEMMA FileFields ==
    /\ TypeInv => Fields
    /\ TypeInv' => Fields'
<1>1. ASSUME TypeInv PROVE Fields
  <2>1. scenario.ticks \in Nat /\ scenario.msgs \in Nat /\ scenario.msgs <= MaxMsgs /\ MaxMsgs \in Nat
    BY <1>1, TypeFacts, Params
  <2>2. \A n \in Names : Exists(n) => disk[n] \in Files
    BY <1>1, TypeFacts
  <2>3. \A f \in Files : f.mtime \in Nat /\ f.msgs \subseteq 1..MaxMsgs
    BY <2>1 DEF Files
  <2>4. \A x \in 1..MaxMsgs : stamp[x] \in Nat
    BY <1>1, <2>1 DEF TypeInv, TypeOK
  <2>5. written \subseteq 1..MaxMsgs
    BY <1>1, <2>1 DEF TypeInv, TypeOK
  <2>6. QED
    BY <1>1, <2>2, <2>3, <2>4, <2>5, TypeFacts DEF Fields
<1>2. TypeInv' => Fields'
  BY <1>1, PTL
<1>3. QED
  BY <1>1, <1>2

\* As long as nothing is appended, every file has what older files had.
LEMMA StampFrame ==
    ASSUME TypeInv, TypeInv', StampInv, nextMsg' = nextMsg, stamp' = stamp, now' >= now,
           written' \subseteq written,
           \A n \in Names : Exists(n)' =>
               /\ disk'[n].mtime <= now'
               /\ \A x \in disk'[n].msgs : \E m \in Names :
                      Exists(m) /\ x \in disk[m].msgs /\ disk[m].mtime <= disk'[n].mtime
    PROVE  /\ \A x \in written' : x < nextMsg'
           /\ \A n \in Names : Exists(n)' =>
                  /\ disk'[n].mtime <= now'
                  /\ \A x \in disk'[n].msgs : x < nextMsg' /\ stamp'[x] <= disk'[n].mtime
<1>1. ASSUME NEW n \in Names, Exists(n)', NEW x \in disk'[n].msgs
      PROVE  x < nextMsg' /\ stamp'[x] <= disk'[n].mtime
  <2>1. PICK m \in Names : Exists(m) /\ x \in disk[m].msgs /\ disk[m].mtime <= disk'[n].mtime
    BY <1>1
  <2>2. x < nextMsg /\ stamp[x] <= disk[m].mtime
    BY <2>1 DEF StampInv
  <2>3. stamp[x] \in Nat /\ disk[m].mtime \in Nat
    BY <2>1, FileFields DEF Fields
  <2>4. disk'[n].mtime \in Nat
    <3>1. \A k \in Names : Exists(k)' => disk'[k].mtime \in Nat
      BY FileFields DEF Fields
    <3>2. QED
      BY <1>1, <3>1
  <2>5. QED
    BY <2>1, <2>2, <2>3, <2>4
<1>2. QED
  BY <1>1 DEF StampInv

\* Steps that leave the files as they are, or remove one.
LEMMA StampKept ==
    ASSUME TypeInv, TypeInv', StampInv, nextMsg' = nextMsg, stamp' = stamp, now' >= now,
           written' \subseteq written, \A n \in Names : disk'[n] \in {disk[n], Absent},
           pc' \notin {"gzrename", "gzstamp"}
    PROVE  StampInv'
<1>1. \A n \in Names : Exists(n)' => Exists(n) /\ disk'[n] = disk[n]
  BY DEF Exists
<1>2. \A n \in Names : Exists(n)' => disk'[n].mtime <= now'
  <2>1. \A n \in Names : Exists(n) => disk[n].mtime \in Nat /\ disk[n].mtime <= now
    BY FileFields DEF Fields, StampInv
  <2>2. now \in Nat /\ now' \in Nat
    BY FileFields DEF Fields
  <2>3. QED
    BY <1>1, <2>1, <2>2
<1>3. \A n \in Names : Exists(n) => disk[n].mtime \in Nat /\ disk[n].mtime <= disk[n].mtime
  BY FileFields DEF Fields
<1>4. \A n \in Names : Exists(n)' => \A x \in disk'[n].msgs : \E m \in Names :
          Exists(m) /\ x \in disk[m].msgs /\ disk[m].mtime <= disk'[n].mtime
  BY <1>1, <1>3
<1>5. QED
  BY <1>2, <1>4, StampFrame DEF StampInv

\* A Write appends a message with the time at which it does.
LEMMA StampWriteBody ==
    ASSUME TypeInv, TypeInv', StampInv, WriteBody
    PROVE  StampInv'
<1>1. /\ pc' = "newline" /\ nextMsg' = nextMsg + 1 /\ nextMsg \in 1..MaxMsgs /\ size \in Sizes
      /\ Exists(liveFileName) /\ liveFileName \in Names
      /\ \A m \in Names \ {liveFileName} : disk'[m] = disk[m]
      /\ disk'[liveFileName] # Absent
      /\ disk'[liveFileName].msgs \subseteq disk[liveFileName].msgs \cup {nextMsg}
      /\ written' \subseteq written \cup {nextMsg}
  BY WriteBodyFacts
<1>2. stamp' = [stamp EXCEPT ![nextMsg] = now] /\ now' = now
  BY DEF WriteBody, elapsed
<1>3. disk'[liveFileName].mtime = now
  <2>1. size - 1 \in Nat /\ \A k \in 0..(size - 2) : k \in Nat
    BY <1>1, Params
  <2>2. PICK ms \in SUBSET (1..MaxMsgs), b \in Nat : disk' = Grown(liveFileName, ms, b)
    <3>1. CASE disk' = Grown(liveFileName, {nextMsg}, size - 1)
      <4>1. {nextMsg} \in SUBSET (1..MaxMsgs)
        BY <1>1
      <4>2. QED
        BY <2>1, <3>1, <4>1
    <3>2. CASE \E k \in 0..(size - 2) : disk' = Grown(liveFileName, {}, k)
      <4>1. {} \in SUBSET (1..MaxMsgs)
        OBVIOUS
      <4>2. QED
        BY <2>1, <3>2, <4>1
    <3>3. QED
      BY <3>1, <3>2 DEF WriteBody
  <2>3. QED
    BY <1>1, <2>2, GrownElsewhere
<1>4. nextMsg \in Nat /\ now \in Nat /\ stamp \in [1..MaxMsgs -> Nat]
  <2>1. stamp \in [1..MaxMsgs -> 0..scenario.ticks] /\ scenario.ticks \in Nat
    BY TypeFacts DEF TypeInv, TypeOK
  <2>2. QED
    BY <2>1, TypeFacts
<1>5. stamp'[nextMsg] = now /\ \A x \in 1..MaxMsgs : x # nextMsg => stamp'[x] = stamp[x]
  BY <1>1, <1>2, <1>4
<1>6. \A x \in written' : x < nextMsg'
  <2>1. \A x \in written : x \in Nat /\ x < nextMsg
    BY FileFields DEF Fields, StampInv
  <2>2. QED
    BY <1>1, <1>4, <2>1
<1>7. ASSUME NEW n \in Names, Exists(n), NEW x \in disk[n].msgs
      PROVE  x < nextMsg' /\ stamp'[x] <= disk[n].mtime /\ stamp'[x] <= now
  <2>1. x < nextMsg /\ x \in 1..MaxMsgs /\ stamp[x] <= disk[n].mtime /\ disk[n].mtime <= now
        /\ disk[n].mtime \in Nat /\ stamp[x] \in Nat
    BY <1>7, FileFields DEF Fields, StampInv
  <2>2. stamp'[x] = stamp[x]
    BY <1>4, <1>5, <2>1
  <2>3. x \in Nat
    BY <2>1
  <2>4. QED
    BY <1>1, <1>4, <2>1, <2>2, <2>3
<1>8. ASSUME NEW n \in Names, Exists(n)'
      PROVE  /\ disk'[n].mtime <= now'
             /\ \A x \in disk'[n].msgs : x < nextMsg' /\ stamp'[x] <= disk'[n].mtime
  <2>1. CASE n = liveFileName
    <3>1. disk'[n].mtime = now /\ now <= now
      BY <1>3, <1>4, <2>1
    <3>2. \A x \in disk'[n].msgs : x = nextMsg \/ x \in disk[n].msgs
      BY <1>1, <2>1
    <3>3. nextMsg < nextMsg' /\ stamp'[nextMsg] <= now
      BY <1>1, <1>4, <1>5
    <3>4. Exists(n)
      BY <1>1, <2>1
    <3>5. QED
      BY <1>2, <1>7, <3>1, <3>2, <3>3, <3>4
  <2>2. CASE n # liveFileName
    <3>1. disk'[n] = disk[n] /\ Exists(n)
      BY <1>1, <1>8, <2>2 DEF Exists
    <3>2. disk[n].mtime <= now
      BY <3>1 DEF StampInv
    <3>3. QED
      BY <1>2, <1>7, <3>1, <3>2
  <2>3. QED
    BY <2>1, <2>2
<1>9. QED
  BY <1>1, <1>6, <1>8 DEF StampInv

\* A compressed file gets the time of its plaintext when it has its content.
LEMMA StampGzip ==
    ASSUME TypeInv, TypeInv', StampInv, Gzip
    PROVE  StampInv'
<1>1. /\ Busy /\ src' = src /\ dst' = dst /\ tmp' = tmp
      /\ UNCHANGED <<nextMsg, written, stamp, now>>
      /\ disk \in [Names -> Files \cup {Absent}]
  BY GzipFacts DEF TypeInv, TypeOK
<1>2. PICK s \in Names, d \in Names, t \in Names :
          /\ s = src /\ d = dst /\ t = tmp /\ s # d /\ s # t /\ d # t /\ disk[s] \in Files
          /\ disk[s] # Absent
  BY <1>1, GzNames
<1>3. /\ now \in Nat /\ \A n \in Names : Exists(n) => disk[n].mtime \in Nat /\ disk[n].mtime <= now
      /\ \A n \in Names : Exists(n) => disk[n].mtime <= disk[n].mtime
  BY FileFields DEF Fields, StampInv
<1>4. ASSUME \A n \in Names : Exists(n)' =>
                 /\ disk'[n].mtime <= now
                 /\ \A x \in disk'[n].msgs : \E m \in Names :
                        Exists(m) /\ x \in disk[m].msgs /\ disk[m].mtime <= disk'[n].mtime,
             pc' = "gzrename" => disk'[t].msgs = disk'[s].msgs,
             pc' = "gzstamp" => disk'[d].msgs = disk'[s].msgs
      PROVE  StampInv'
  <2>1. now' >= now /\ now' = now
    BY <1>1, <1>3
  <2>2. /\ \A x \in written' : x < nextMsg'
        /\ \A n \in Names : Exists(n)' =>
               /\ disk'[n].mtime <= now'
               /\ \A x \in disk'[n].msgs : x < nextMsg' /\ stamp'[x] <= disk'[n].mtime
    BY <1>1, <1>4, <2>1, StampFrame
  <2>3. QED
    BY <1>1, <1>2, <1>4, <2>2 DEF StampInv
<1>5. ASSUME NEW n \in Names, disk'[n] \in {disk[n], Absent}, Exists(n)'
      PROVE  /\ disk'[n].mtime <= now
             /\ \A x \in disk'[n].msgs : \E m \in Names :
                    Exists(m) /\ x \in disk[m].msgs /\ disk[m].mtime <= disk'[n].mtime
  <2>1. disk'[n] = disk[n] /\ Exists(n)
    BY <1>5 DEF Exists
  <2>2. QED
    BY <1>3, <2>1
<1>6. CASE (\A n \in Names : disk'[n] \in {disk[n], Absent}) /\ pc' \notin {"gzrename", "gzstamp"}
  <2>1. now' >= now /\ written' \subseteq written
    BY <1>1, <1>3
  <2>2. QED
    BY <1>1, <1>6, <2>1, StampKept
<1>7. CASE pc = "gzip"
  <2>1. CASE pc' = "gzcopy" /\ disk' = [disk EXCEPT ![t] = Empty]
    <3>1. disk'[t] = Empty /\ \A n \in Names : n # t => disk'[n] = disk[n]
      BY <1>1, <1>2, <2>1
    <3>2. Empty.msgs = {} /\ Empty.mtime = now /\ now <= now
      BY <1>3 DEF Empty
    <3>3. QED
      BY <1>4, <1>5, <2>1, <3>1, <3>2
  <2>2. CASE pc' = "prune" /\ UNCHANGED disk
    BY <1>6, <2>2
  <2>3. QED
    BY <1>2, <1>7, <2>1, <2>2 DEF Gzip, GzipCreate, GzipCopy, GzipRename, GzipStamp, GzipDrop, GzipFails, Step
<1>8. ASSUME NEW from \in {"gzcopy", "gzrename"}, GzipFails(from)
      PROVE  StampInv'
  <2>1. pc' = "prune" /\ (disk' = [disk EXCEPT ![t] = Absent] \/ UNCHANGED disk)
    BY <1>2, <1>8 DEF GzipFails, Step
  <2>2. \A n \in Names : disk'[n] \in {disk[n], Absent}
    BY <1>1, <2>1
  <2>3. QED
    BY <1>6, <2>1, <2>2
<1>9. CASE GzipCopy
  <2>1. CASE pc' = "gzrename" /\ disk' = [disk EXCEPT ![t] = [disk[s] EXCEPT !.mtime = now]]
    <3> DEFINE f == [disk[s] EXCEPT !.mtime = now]
    <3>1. f.msgs = disk[s].msgs /\ f.mtime = now /\ now <= now
      BY <1>2, <1>3 DEF Files
    <3> HIDE DEF f
    <3>2. disk' = [disk EXCEPT ![t] = f]
      BY <2>1 DEF f
    <3>3. disk'[t] = f /\ \A n \in Names : n # t => disk'[n] = disk[n]
      BY <1>1, <1>2, <3>2
    <3>4. Exists(s) /\ disk[s].mtime <= now
      BY <1>2, <1>3 DEF Exists
    <3>5. QED
      BY <1>2, <1>4, <1>5, <2>1, <3>1, <3>3, <3>4
  <2>2. QED
    BY <1>2, <1>8, <1>9, <2>1 DEF GzipCopy, Step
<1>10. CASE GzipRename
  <2>1. CASE /\ pc = "gzrename" /\ pc' = "gzstamp"
             /\ disk' = [disk EXCEPT ![d] = disk[t], ![t] = Absent]
    <3>1. /\ disk'[d] = disk[t] /\ disk'[t] = Absent
          /\ \A n \in Names : n \notin {d, t} => disk'[n] = disk[n]
      BY <1>1, <1>2, <2>1
    <3>2. Exists(t) /\ disk[t].msgs = disk[s].msgs
      BY <1>2, <2>1 DEF StampInv, TypeInv, Control
    <3>3. disk'[s] = disk[s]
      BY <1>2, <3>1
    <3>4. ASSUME NEW n \in Names, Exists(n)'
          PROVE  /\ disk'[n].mtime <= now
                 /\ \A x \in disk'[n].msgs : \E m \in Names :
                        Exists(m) /\ x \in disk[m].msgs /\ disk[m].mtime <= disk'[n].mtime
      <4>1. CASE n = d
        BY <1>2, <1>3, <3>1, <3>2, <4>1
      <4>2. CASE n # d
        <5>1. disk'[n] \in {disk[n], Absent}
          BY <3>1, <4>2
        <5>2. QED
          BY <1>5, <3>4, <5>1
      <4>3. QED
        BY <4>1, <4>2
    <3>5. disk'[d].msgs = disk'[s].msgs
      BY <3>1, <3>2, <3>3
    <3>6. pc' # "gzrename"
      BY <2>1
    <3>7. QED
      BY <1>4, <3>4, <3>5, <3>6
  <2>2. QED
    BY <1>2, <1>8, <1>10, <2>1 DEF GzipRename, Step
<1>11. CASE GzipStamp
  <2>1. pc = "gzstamp" /\ pc' = "gzdrop"
    BY <1>11 DEF GzipStamp, Step
  <2>2. Exists(d) /\ disk[d] \in Files /\ disk[d].msgs = disk[s].msgs
    BY <1>2, <2>1, TypeFacts DEF StampInv, TypeInv, Control
  <2>3. CASE disk' = [disk EXCEPT ![d].mtime = disk[s].mtime]
    <3> DEFINE f == [disk[d] EXCEPT !.mtime = disk[s].mtime]
    <3>1. f.msgs = disk[s].msgs /\ f.mtime = disk[s].mtime
      BY <2>2 DEF Files
    <3>2. disk' = [disk EXCEPT ![d] = f]
      BY <2>3
    <3> HIDE DEF f
    <3>3. disk'[d] = f /\ \A n \in Names : n # d => disk'[n] = disk[n]
      BY <1>1, <1>2, <3>2
    <3>4. Exists(s) /\ disk[s].mtime <= now /\ disk[s].mtime <= disk[s].mtime
      BY <1>2, <1>3 DEF Exists
    <3>5. QED
      BY <1>2, <1>4, <1>5, <2>1, <3>1, <3>3, <3>4
  <2>4. CASE UNCHANGED disk
    BY <1>6, <2>1, <2>4
  <2>5. QED
    BY <1>2, <1>11, <2>3, <2>4 DEF GzipStamp
<1>12. CASE GzipDrop
  <2>1. pc' = "prune" /\ (disk' = [disk EXCEPT ![s] = Absent] \/ UNCHANGED disk)
    BY <1>2, <1>12 DEF GzipDrop, Step
  <2>2. \A n \in Names : disk'[n] \in {disk[n], Absent}
    BY <1>1, <2>1
  <2>3. QED
    BY <1>6, <2>1, <2>2
<1>13. QED
  BY <1>7, <1>9, <1>10, <1>11, <1>12 DEF Gzip, GzipCreate, Step

\* Every step.
LEMMA StampStep == TypeInv /\ TypeInv' /\ StampInv /\ [Next]_vars => StampInv'
<1> SUFFICES ASSUME TypeInv, TypeInv', StampInv, [Next]_vars PROVE StampInv'
  OBVIOUS
<1>0. now \in Nat /\ now' \in Nat
  BY FileFields DEF Fields
<1>1. CASE Construct \/ Constructed \/ RotateIndexed \/ Prune \/ Pruned \/ Return \/ Crash
  <2>1. /\ disk' = disk /\ nextMsg' = nextMsg /\ stamp' = stamp /\ now' = now
        /\ written' \subseteq written /\ pc' \notin {"gzrename", "gzstamp"}
    <3>1. CASE Construct
      BY <3>1, ConstructFacts
    <3>2. CASE Prune
      BY <3>2, PruneFacts
    <3>3. CASE Constructed \/ RotateIndexed \/ Pruned \/ Return \/ Crash
      BY <3>3 DEF Constructed, RotateIndexed, Pruned, Return, Crash, history, bounds, elapsed
    <3>4. QED
      BY <1>1, <3>1, <3>2, <3>3
  <2>2. QED
    BY <1>0, <2>1, StampKept
<1>2. CASE Tick \/ UNCHANGED vars
  <2>1. /\ UNCHANGED <<disk, nextMsg, stamp, written, pc, gzIdx>> /\ (now' = now \/ now' = now + 1)
    BY <1>2 DEF Tick, vars, frame, history, bounds, elapsed
  <2>2. now' >= now
    BY <1>0, <2>1
  <2>3. \A n \in Names : Exists(n)' <=> Exists(n)
    BY <2>1 DEF Exists
  <2>4. \A n \in Names : Exists(n) => disk[n].mtime <= now'
    <3>1. \A n \in Names : Exists(n) => disk[n].mtime \in Nat /\ disk[n].mtime <= now
      BY FileFields DEF Fields, StampInv
    <3>2. QED
      BY <1>0, <2>2, <3>1
  <2>5. QED
    BY <2>1, <2>3, <2>4 DEF StampInv, src, dst, tmp
<1>3. ASSUME NEW from \in {"construct", "remove"}, Remove(from) PROVE StampInv'
  <2>1. \A n \in Names : disk'[n] \in {disk[n], Absent}
    BY <1>3, RemoveFacts
  <2>2. UNCHANGED <<nextMsg, stamp, written, now>> /\ pc' \notin {"gzrename", "gzstamp"}
    BY <1>3, RemoveFacts
  <2>3. QED
    BY <1>0, <2>1, <2>2, StampKept
<1>4. CASE Open
  <2>1. /\ liveFileName \in Names /\ UNCHANGED <<nextMsg, stamp, written, now>>
        /\ \A m \in Names : m # liveFileName \/ Exists(m) => disk'[m] = disk[m]
        /\ disk'[liveFileName] \in {disk[liveFileName], Empty} /\ pc' \in {"idle", "body"}
    BY <1>4, OpenFacts
  <2>2. Empty.msgs = {} /\ Empty.mtime = now
    BY DEF Empty
  <2>3. \A n \in Names : Exists(n) => disk[n].mtime \in Nat /\ disk[n].mtime <= now
    BY FileFields DEF Fields, StampInv
  <2>4. ASSUME NEW n \in Names, Exists(n)'
        PROVE  /\ disk'[n].mtime <= now'
               /\ \A x \in disk'[n].msgs : \E m \in Names :
                      Exists(m) /\ x \in disk[m].msgs /\ disk[m].mtime <= disk'[n].mtime
    <3>1. CASE disk'[n] = disk[n]
      <4>1. Exists(n)
        BY <2>4, <3>1 DEF Exists
      <4>2. disk[n].mtime <= disk[n].mtime
        BY <2>3, <4>1
      <4>3. QED
        BY <2>1, <2>3, <3>1, <4>1, <4>2
    <3>2. CASE disk'[n] = Empty
      BY <1>0, <2>1, <2>2, <3>2
    <3>3. QED
      BY <2>1, <3>1, <3>2
  <2>5. now' >= now /\ written' \subseteq written
    BY <1>0, <2>1
  <2>6. QED
    BY <2>1, <2>4, <2>5, StampFrame DEF StampInv
<1>5. CASE WriteBody
  BY <1>5, StampWriteBody
<1>6. CASE WriteNewline
  <2>1. /\ liveFileName \in Names /\ Exists(liveFileName)
        /\ UNCHANGED <<nextMsg, stamp, written, now>> /\ pc' \in {"rotate", "return"}
        /\ \A m \in Names \ {liveFileName} : disk'[m] = disk[m]
        /\ disk'[liveFileName].msgs = disk[liveFileName].msgs
    BY <1>6, WriteNewlineFacts
  <2>2. disk'[liveFileName].mtime = now \/ disk'[liveFileName] = disk[liveFileName]
    <3>1. CASE disk' = Grown(liveFileName, {}, 1)
      <4>1. {} \in SUBSET (1..MaxMsgs) /\ 1 \in Nat
        OBVIOUS
      <4>2. PICK ms \in SUBSET (1..MaxMsgs), b \in Nat : disk' = Grown(liveFileName, ms, b)
        BY <3>1, <4>1
      <4>3. QED
        BY <2>1, <4>2, GrownElsewhere
    <3>2. CASE UNCHANGED disk
      BY <3>2
    <3>3. QED
      BY <1>6, <3>1, <3>2 DEF WriteNewline
  <2>3. \A n \in Names : Exists(n) => disk[n].mtime \in Nat /\ disk[n].mtime <= now
    BY FileFields DEF Fields, StampInv
  <2>4. ASSUME NEW n \in Names, Exists(n)'
        PROVE  /\ disk'[n].mtime <= now'
               /\ \A x \in disk'[n].msgs : \E m \in Names :
                      Exists(m) /\ x \in disk[m].msgs /\ disk[m].mtime <= disk'[n].mtime
    <3>1. CASE disk'[n] = disk[n]
      <4>1. Exists(n)
        BY <2>4, <3>1 DEF Exists
      <4>2. disk[n].mtime <= disk[n].mtime
        BY <2>3, <4>1
      <4>3. QED
        BY <2>1, <2>3, <3>1, <4>1, <4>2
    <3>2. CASE n = liveFileName /\ disk'[n].mtime = now
      <4>1. disk[n].mtime <= now /\ now <= now
        BY <1>0, <2>1, <2>3, <3>2
      <4>2. QED
        BY <2>1, <3>2, <4>1
    <3>3. QED
      BY <2>1, <2>2, <3>1, <3>2
  <2>5. now' >= now /\ written' \subseteq written
    BY <1>0, <2>1
  <2>6. QED
    BY <2>1, <2>4, <2>5, StampFrame DEF StampInv
<1>7. CASE RotateStable
  <2>1. UNCHANGED <<nextMsg, stamp, written, now>> /\ pc' \in {"gzip", "prune"} /\ disk[Live] # Absent
    BY <1>7, RotateStableFacts
  <2>2. PICK b \in Names :
          \/ /\ disk'[b] = disk[Live] /\ disk'[Live] = Absent
             /\ \A n \in Names : n \notin {Live, b} => disk'[n] = disk[n]
          \/ UNCHANGED disk
    <3>1. PICK i \in Indices :
            \/ /\ disk'[Name("log", i)] = disk[Live] /\ disk'[Live] = Absent
               /\ \A n \in Names : n \notin {Live, Name("log", i)} => disk'[n] = disk[n]
            \/ UNCHANGED disk
      BY <1>7, RotateStableFacts
    <3>2. Name("log", i) \in Names
      BY NameFields
    <3>3. QED
      BY <3>1, <3>2
  <2>3. \A n \in Names : Exists(n) => disk[n].mtime \in Nat /\ disk[n].mtime <= now
                                      /\ disk[n].mtime <= disk[n].mtime
    BY FileFields DEF Fields, StampInv
  <2>4. \A n \in Names : Exists(n)' => \E m \in Names : Exists(m) /\ disk'[n] = disk[m]
    BY <2>1, <2>2, NameFields DEF Exists
  <2>5. \A n \in Names : Exists(n)' =>
               /\ disk'[n].mtime <= now'
               /\ \A x \in disk'[n].msgs : \E m \in Names :
                      Exists(m) /\ x \in disk[m].msgs /\ disk[m].mtime <= disk'[n].mtime
    BY <2>1, <2>3, <2>4
  <2>6. now' >= now /\ written' \subseteq written
    BY <1>0, <2>1
  <2>7. QED
    BY <2>1, <2>5, <2>6, StampFrame DEF StampInv
<1>8. CASE Gzip
  BY <1>8, StampGzip
<1>9. QED
  BY <1>1, <1>2, <1>3, <1>4, <1>5, <1>6, <1>7, <1>8 DEF Next

\* The highest element of a finite set is not among all but the highest m.
LEMMA HighestSpared ==
    ASSUME NEW S, IsFiniteSet(S), NEW rank \in [S -> Nat], NEW m \in Nat, m >= 1, NEW x \in S,
           \A y \in S \ {x} : rank[y] < rank[x]
    PROVE  ~ (Cardinality({y \in S : rank[y] < rank[x]}) < Cardinality(S) - m)
<1>1. {y \in S : rank[y] < rank[x]} = S \ {x}
  OBVIOUS
<1>2. Cardinality(S \ {x}) = Cardinality(S) - 1 /\ Cardinality(S) \in Nat
  BY FS_RemoveElement, FS_CardinalityType
<1>3. QED
  BY <1>1, <1>2

\* No prune without options lists the newest backup.
LEMMA VerifyKeeps ==
    ASSUME Roomy, TypeInv, CompleteBody, AheadBody, Prune, ~ scenario.blind, ZeroOption(cfg),
           NEW n \in Indexed, Exists(n), n.idx = index - 1
    PROVE  n \notin doom'
<1> DEFINE files == Listed("log", Found) \cup Listed("live", Found)
<1>1. pc = "prune" /\ doom' = VerifyDoom(Found) /\ MaxFiles \in Nat /\ MaxFiles >= 1 /\ index \in Nat
  BY PruneFacts, TypeFacts DEF MaxFiles, Roomy, TypeInv, TypeOK
<1>2. ~ cfg.stable /\ ~ cfg.compress
  BY DEF ZeroOption
<1>3. files \subseteq Data /\ IsFiniteSet(files) /\ \A y \in files : Exists(y)
  <2>1. files \subseteq Names /\ files \subseteq Data /\ \A y \in files : Exists(y)
    BY DEF Listed, Found, Data
  <2>2. QED
    BY <2>1, NamesFinite, FS_Subset
<1>4. \A y \in files : y \in Indexed /\ y.idx \in Nat /\ y.idx < index /\ y.kind = "log"
  <2> SUFFICES ASSUME NEW y \in files
               PROVE  y \in Indexed /\ y.idx \in Nat /\ y.idx < index /\ y.kind = "log"
    OBVIOUS
  <2>1. Exists(y) /\ y # Live /\ y # liveFileName
    BY <1>1, <1>2, <1>3 DEF AheadBody
  <2>2. y \in Indexed
    BY <1>3, <2>1, DataFacts
  <2>3. ~ (y.idx >= index) /\ y.idx \in Nat
    BY <1>1, <2>1, <2>2, IndexedFacts DEF AheadBody
  <2>4. y.kind # "gz"
    BY <1>2, <2>1, <2>2, IndexedFacts DEF CompleteBody
  <2>5. QED
    BY <1>1, <2>2, <2>3, <2>4 DEF Indexed
<1>5. n \in files /\ n.kind = "log"
  <2>1. n.kind = "log"
    BY <1>2, IndexedFacts DEF CompleteBody, Indexed
  <2>2. QED
    BY <2>1, IndexedFacts DEF Listed, Found
<1>6. \A y \in files \ {n} : LexRank(y) < LexRank(n)
  <2> SUFFICES ASSUME NEW y \in files, y # n PROVE LexRank(y) < LexRank(n)
    OBVIOUS
  <2>1. y.idx # n.idx
    BY <1>4, <1>5, IndexedFacts
  <2>2. y.idx < n.idx
    BY <1>1, <1>4, <1>5, <2>1
  <2>3. QED
    BY <1>4, <1>5, <2>2, DataFacts
<1>7. PICK rank \in [files -> Nat] : \A y \in files : rank[y] = LexRank(y)
  <2>1. [y \in files |-> LexRank(y)] \in [files -> Nat]
    BY <1>3, DataFacts
  <2>2. QED
    BY <2>1
<1>8. ~ (Cardinality({y \in files : rank[y] < rank[n]}) < Cardinality(files) - MaxFiles)
  <2>1. \A y \in files \ {n} : rank[y] < rank[n]
    BY <1>5, <1>6, <1>7
  <2> HIDE DEF files
  <2>2. QED
    BY <1>1, <1>3, <1>5, <2>1, HighestSpared
<1>9. {y \in files : rank[y] < rank[n]} = {y \in files : LexRank(y) < LexRank(n)}
  BY <1>5, <1>7
<1>10. QED
  BY <1>1, <1>8, <1>9 DEF VerifyDoom, Found, Oldest

\* Nor does one with options, unless all the backup holds is too old.
LEMMA PruneKeeps ==
    ASSUME Roomy, TypeInv, StampInv, CompleteBody, AheadBody, Prune, ~ scenario.blind,
           ~ ZeroOption(cfg),
           NEW n \in Indexed, Exists(n), n.idx = index - 1, NEW x \in Msgs(n), ~ TooOld(x)
    PROVE  n \notin doom'
<1> DEFINE paths(i) == {m \in Backups(Found) : m.idx = i}
           indices == {m.idx : m \in Backups(Found)}
           mtime(i) == Max({disk[m].mtime : m \in paths(i)})
           expired == {i \in indices : cfg.age /\ mtime(i) < now - MaxAge}
           survivors == indices \ expired
           keep == IF MaxFiles = 0 THEN 0 ELSE MaxFiles - 1
           counted == Oldest(survivors, Cardinality(survivors) - keep, LAMBDA i : i)
<1>1. /\ pc = "prune" /\ doom' = UNION {paths(i) : i \in expired \cup counted}
      /\ index \in Nat
  <2>1. pc = "prune" /\ doom' = PruneDoom(Found) /\ index \in Nat
    BY PruneFacts, TypeFacts
  <2>2. QED
    BY <2>1 DEF PruneDoom
<1>2. keep \in Nat /\ keep >= 1
  <2>1. MaxFiles \in Nat /\ MaxFiles >= 2
    BY TypeFacts DEF MaxFiles, Roomy, TypeInv, TypeOK
  <2>2. QED
    BY <2>1
<1>3. Backups(Found) \subseteq Indexed /\ \A m \in Backups(Found) : Exists(m) /\ m # liveFileName
  BY DEF Backups, Rotated, Listed, Found, Indexed
<1>4. n \in Backups(Found)
  <2>1. n # liveFileName
    <3>1. CASE cfg.stable
      BY <3>1, IndexedFacts DEF liveFileName
    <3>2. CASE ~ cfg.stable
      BY <1>1, <3>2, NameFields DEF liveFileName
    <3>3. QED
      BY <3>1, <3>2
  <2>2. n.kind = "log" \/ (n.kind = "gz" /\ cfg.compress)
    BY IndexedFacts DEF CompleteBody, Indexed
  <2>3. QED
    BY <2>1, <2>2, IndexedFacts DEF Backups, Rotated, Listed, Found
<1>5. \A m \in Backups(Found) : m.idx \in Nat /\ m.idx <= n.idx
  <2> SUFFICES ASSUME NEW m \in Backups(Found) PROVE m.idx \in Nat /\ m.idx <= n.idx
    OBVIOUS
  <2>1. ~ (m.idx >= index) /\ m.idx \in Nat
    BY <1>1, <1>3, IndexedFacts DEF AheadBody
  <2>2. QED
    BY <1>1, <2>1
<1>6. indices \subseteq Nat /\ IsFiniteSet(survivors) /\ survivors \subseteq Nat
  <2>1. indices \subseteq Indices
    BY <1>3, IndexedFacts
  <2>2. IsFiniteSet(Indices) /\ Indices \subseteq Nat
    <3>1. IsFiniteSet(Indices)
      BY Params, FS_Interval DEF Indices
    <3>2. QED
      BY <3>1, NameFields
  <2>3. survivors \in SUBSET Indices
    BY <2>1
  <2> HIDE DEF survivors, indices
  <2>4. QED
    BY <2>1, <2>2, <2>3, FS_Subset
<1>7. n.idx \notin expired
  <2>1. CASE cfg.age
    <3>1. now \in Nat /\ \A m \in Backups(Found) : disk[m].mtime \in Nat /\ disk[m].mtime <= now
      BY <1>3, IndexedFacts, FileFields DEF Fields, StampInv
    <3> DEFINE times == {disk[m].mtime : m \in paths(n.idx)}
    <3>2. times \in SUBSET Nat /\ \A t \in times : t <= now
      BY <3>1
    <3>3. disk[n].mtime \in times
      BY <1>4
    <3>4. PICK top : top = Max(times)
      OBVIOUS
    <3>5. top \in Nat /\ disk[n].mtime <= top
      <4> HIDE DEF times
      <4>1. QED
        BY <3>1, <3>2, <3>3, <3>4, MaxOfBounded
    <3>6. x \in 1..MaxMsgs /\ stamp[x] <= disk[n].mtime /\ disk[n].mtime \in Nat /\ stamp[x] \in Nat
      <4>1. x \in disk[n].msgs
        BY DEF Msgs
      <4>2. n \in Names
        BY IndexedFacts
      <4>3. QED
        BY <4>1, <4>2, FileFields DEF Fields, StampInv
    <3>7. ~ (stamp[x] < now - MaxAge) /\ MaxAge \in Nat
      BY <2>1, Params DEF TooOld
    <3>8. ~ (top < now - MaxAge)
      BY <3>1, <3>5, <3>6, <3>7
    <3>9. mtime(n.idx) = top
      BY <3>4
    <3> HIDE DEF mtime
    <3>10. QED
      BY <3>8, <3>9
  <2>2. CASE ~ cfg.age
    BY <2>2
  <2>3. QED
    BY <2>1, <2>2
<1>8. n.idx \in survivors /\ \A i \in survivors : i <= n.idx
  <2>1. n.idx \in indices /\ \A i \in indices : i <= n.idx
    BY <1>4, <1>5
  <2> HIDE DEF indices, expired
  <2>2. QED
    BY <1>7, <2>1
<1>9. PICK rank \in [survivors -> Nat] : \A i \in survivors : rank[i] = i
  <2>1. [i \in survivors |-> i] \in [survivors -> Nat]
    BY <1>6
  <2>2. QED
    BY <2>1
<1>10. n.idx \notin counted
  <2>1. PICK j : j = n.idx
    OBVIOUS
  <2>2. counted = {i \in survivors : Cardinality({y \in survivors : y < i})
                                         < Cardinality(survivors) - keep}
    BY DEF Oldest
  <2> HIDE DEF survivors, counted, keep
  <2>3. j \in survivors /\ \A y \in survivors \ {j} : rank[y] < rank[j]
    <3>1. j \in survivors /\ j \in Nat /\ \A y \in survivors : y <= j /\ y \in Nat
      BY <1>6, <1>8, <2>1
    <3>2. \A y \in survivors \ {j} : y < j
      BY <3>1
    <3>3. QED
      BY <1>9, <3>1, <3>2
  <2>4. ~ (Cardinality({y \in survivors : rank[y] < rank[j]}) < Cardinality(survivors) - keep)
    BY <1>2, <1>6, <1>9, <2>3, HighestSpared
  <2>5. {y \in survivors : rank[y] < rank[j]} = {y \in survivors : y < j}
    BY <1>9, <2>3
  <2>6. QED
    BY <2>1, <2>2, <2>4, <2>5
<1>11. \A i : n \in paths(i) => i = n.idx
  OBVIOUS
<1> HIDE DEF paths, expired, counted
<1>12. QED
  BY <1>1, <1>7, <1>10, <1>11

\* The newest message, if it reached the disk and is not too old, is in the live file
\* until a rotation, then in the newest backup, or still in the live file that could
\* not be renamed; and no prune lists that file.
LastBody ==
    nextMsg - 1 \in written /\ ~ TooOld(nextMsg - 1) =>
        /\ \E n \in Data : nextMsg - 1 \in Msgs(n)
        /\ pc \in {"newline", "rotate"} => nextMsg - 1 \in Msgs(liveFileName)
        /\ Busy \/ pc \in {"prune", "remove"} =>
               \E n \in Data : /\ n = Live \/ n.idx = index - 1
                               /\ n \notin doom /\ nextMsg - 1 \in Msgs(n)

LastInv == ~ OutOfOrder => LastBody

\* A message that is not too old after a step was not before it.
LEMMA StillYoung ==
    ASSUME NoToggle, TypeInv, TypeInv', [Next]_vars, ~ WriteBody
    PROVE  /\ nextMsg' = nextMsg /\ written' \subseteq written
           /\ \A x \in written : ~ TooOld(x)' => ~ TooOld(x)
<1>1. /\ nextMsg' = nextMsg /\ written' \subseteq written /\ stamp' = stamp
      /\ now' = now \/ now' = now + 1
  <2>1. CASE Construct
    BY <2>1, ConstructFacts
  <2>2. CASE Prune
    BY <2>2, PruneFacts
  <2>3. CASE RotateStable
    BY <2>3, RotateStableFacts
  <2>4. CASE ~ Construct /\ ~ Prune /\ ~ RotateStable
    BY <2>4 DEF Next, Remove, Constructed, Open, WriteNewline, RotateIndexed, Gzip, GzipCreate,
       GzipCopy, GzipRename, GzipStamp, GzipDrop, GzipFails, Step, Pruned, Return, Crash, Tick, vars,
       history, bounds, elapsed
  <2>5. QED
    BY <2>1, <2>2, <2>3, <2>4
<1>2. cfg'.age = cfg.age
  BY OptionsKept
<1>3. ASSUME NEW x \in written, ~ TooOld(x)' PROVE ~ TooOld(x)
  <2>1. stamp[x] \in Nat /\ now \in Nat /\ MaxAge \in Nat
    BY FileFields, Params DEF Fields
  <2>2. ~ cfg'.age \/ ~ (stamp'[x] < now' - MaxAge)
    BY <1>3 DEF TooOld
  <2>3. ~ (stamp[x] < now' - MaxAge) => ~ (stamp[x] < now - MaxAge)
    BY <1>1, <2>1
  <2>4. QED
    BY <1>1, <1>2, <2>2, <2>3 DEF TooOld
<1>4. QED
  BY <1>1, <1>3

\* No prune lists the file the newest message is in.
LEMMA LastKept ==
    ASSUME Roomy, TypeInv, StampInv, CompleteBody, AheadBody, Prune, ~ scenario.blind,
           NEW n \in Data, n = Live \/ n.idx = index - 1, NEW x \in Msgs(n), ~ TooOld(x)
    PROVE  n \notin doom'
<1>1. Exists(n)
  BY DEF Msgs
<1>2. CASE n = Live
  <2>1. cfg.stable
    BY <1>1, <1>2 DEF AheadBody
  <2>2. doom' \subseteq Backups(Found)
    BY <2>1, PruneFacts, PruneDoomListed DEF ZeroOption
  <2>3. Live \notin Backups(Found)
    BY NameFields DEF Backups, Rotated, Listed, Found
  <2>4. QED
    BY <1>2, <2>2, <2>3
<1>3. CASE n # Live
  <2>1. n \in Indexed /\ n.idx = index - 1
    BY <1>3, DataFacts
  <2>2. QED
    BY <1>1, <2>1, VerifyKeeps, PruneKeeps
<1>4. QED
  BY <1>2, <1>3

\* A rotation leaves it in the newest backup, or where it was.
LEMMA LastRotateStable ==
    ASSUME TypeInv, AheadBody, RotateStable, NEW x \in Msgs(Live)
    PROVE  /\ doom' = {}
           /\ \E n \in Data : (n = Live \/ n.idx = index' - 1) /\ x \in Msgs(n)'
<1>1. /\ pc = "rotate" /\ doom' = doom
      /\ \E i \in Indices :
           /\ index' = i + 1
           /\ \/ disk'[Name("log", i)] = disk[Live]
              \/ UNCHANGED disk
  BY RotateStableFacts
<1>2. PICK i \in Indices : /\ index' = i + 1
                           /\ disk'[Name("log", i)] = disk[Live] \/ UNCHANGED disk
  BY <1>1
<1>3. PICK b \in Indexed : b = Name("log", i) /\ b.idx = i /\ i \in Nat /\ b \in Data
  BY IndexedFacts, NameFields, DataFacts
<1>4. CASE disk'[b] = disk[Live]
  <2>1. x \in Msgs(b)'
    BY <1>4 DEF Msgs, Exists
  <2>2. b.idx = index' - 1
    BY <1>2, <1>3
  <2>3. QED
    BY <1>1, <1>3, <2>1, <2>2 DEF AheadBody
<1>5. CASE UNCHANGED disk
  <2>1. x \in Msgs(Live)'
    BY <1>5 DEF Msgs, Exists
  <2>2. QED
    BY <1>1, <2>1, DataFacts DEF AheadBody
<1>6. QED
  BY <1>2, <1>3, <1>4, <1>5

\* A removal takes no file the newest message is only in.
LEMMA LastRemove ==
    ASSUME TypeInv, CompleteBody, AheadBody, NEW from \in {"construct", "remove"}, Remove(from),
           written # {}, NEW n \in Data, NEW x \in Msgs(n), from = "remove" => n \notin doom
    PROVE  /\ \E m \in Data : x \in Msgs(m)'
           /\ from = "remove" => x \in Msgs(n)' /\ n \notin doom'
<1>1. /\ pc = from /\ pc' = from /\ NextDoomed \in doom /\ NextDoomed \in Names
      /\ doom' = doom \ {NextDoomed}
      /\ \A m \in Names \ {NextDoomed} : disk'[m] = disk[m]
  BY RemoveFacts
<1>2. PICK d : d = NextDoomed
  OBVIOUS
<1>3. \A m \in Names : m # d => Msgs(m)' = Msgs(m)
  BY <1>1, <1>2, SameMsgs
<1>4. CASE n # d
  BY <1>1, <1>3, <1>4, DataFacts
<1>5. CASE n = d
  <2>1. from = "construct"
    BY <1>1, <1>2, <1>5
  <2>2. d.kind = "tmp" \/ (d.kind = "log" /\ Exists(Name("gz", d.idx)))
    BY <1>1, <1>2, <2>1 DEF AheadBody
  <2>3. d.kind = "log" /\ Exists(d) /\ d = Name("log", d.idx) /\ d.idx \in Indices
    BY <1>1, <1>2, <1>5, <2>2, NameFields DEF Data, Msgs
  <2>4. PICK g \in Names : g = Name("gz", d.idx)
    BY <2>3, NameFields
  <2>5. Exists(g) /\ g \in Data /\ g # d
    BY <2>2, <2>3, <2>4, NameFields DEF Data
  <2>6. Msgs(d) \subseteq Msgs(g)
    BY <2>3, <2>4, <2>5 DEF CompleteBody, GzComplete, Msgs
  <2>7. QED
    BY <1>3, <1>5, <2>1, <2>4, <2>5, <2>6
<1>6. QED
  BY <1>4, <1>5

\* Every step keeps the newest message, as long as it is not too old.
LEMMA LastStep ==
    ASSUME Roomy, NoToggle
    PROVE  TypeInv /\ GzInv /\ StampInv /\ CompleteInv /\ AheadInv /\ LastInv /\ [Next]_vars => LastInv'
<1> SUFFICES ASSUME TypeInv, GzInv, StampInv, CompleteBody, AheadBody, LastBody, ~ OutOfOrder,
                    [Next]_vars, nextMsg' - 1 \in written', ~ TooOld(nextMsg - 1)'
             PROVE  LastBody'
  <2>1. [Next]_vars => (~ OutOfOrder' => ~ OutOfOrder)
    <3>1. [Next]_vars => scenario' = scenario
      BY ScenarioFixed
    <3>2. QED
      BY <3>1 DEF OutOfOrder
  <2>2. TypeInv /\ ~ OutOfOrder => Clean
    BY NoFailingFresh
  <2>3. ~ (nextMsg' - 1 \in written' /\ ~ TooOld(nextMsg - 1)') => LastBody'
    BY DEF LastBody
  <2>4. QED
    BY <2>1, <2>2, <2>3 DEF AheadInv, CompleteInv, LastInv
<1>0. TypeInv' /\ Clean /\ nextMsg \in Nat
  BY TypeInvStep, NoFailingFresh, TypeFacts
<1>1. CASE WriteBody
  <2>1. /\ pc' = "newline" /\ nextMsg' = nextMsg + 1 /\ liveFileName' = liveFileName
        /\ pc = "body" /\ disk'[liveFileName] # Absent
        /\ \/ disk'[liveFileName].msgs = disk[liveFileName].msgs \cup {nextMsg}
           \/ written' = written
    BY <1>1, WriteBodyFacts
  <2>2. nextMsg' - 1 = nextMsg
    BY <1>0, <2>1
  <2>3. nextMsg \notin written
    BY <1>0 DEF StampInv
  <2>4. PICK live \in Data : live = liveFileName
    BY <2>1, LiveIsLast
  <2>5. nextMsg \in Msgs(live)'
    BY <2>1, <2>2, <2>3, <2>4 DEF Msgs, Exists
  <2>6. QED
    BY <2>1, <2>2, <2>4, <2>5 DEF LastBody, Busy
<1>2. CASE ~ WriteBody
  <2>1. PICK x : x = nextMsg - 1
    OBVIOUS
  <2>2. nextMsg' = nextMsg /\ x \in written /\ ~ TooOld(x)
    <3>1. nextMsg' = nextMsg /\ x \in written
      BY <1>0, <1>2, <2>1, StillYoung
    <3>2. ~ TooOld(x)'
      BY <2>1, <3>1 DEF TooOld
    <3>3. QED
      BY <1>0, <1>2, <3>1, <3>2, StillYoung
  <2>3. /\ \E n \in Data : x \in Msgs(n)
        /\ pc \in {"newline", "rotate"} => x \in Msgs(liveFileName)
        /\ Busy \/ pc \in {"prune", "remove"} =>
               \E n \in Data : (n = Live \/ n.idx = index - 1) /\ n \notin doom /\ x \in Msgs(n)
    BY <2>1, <2>2 DEF LastBody
  <2>4. ASSUME /\ \E n \in Data : x \in Msgs(n)'
               /\ pc' \in {"newline", "rotate"} => x \in Msgs(liveFileName)'
               /\ Busy' \/ pc' \in {"prune", "remove"} =>
                      \E n \in Data : (n = Live \/ n.idx = index' - 1) /\ n \notin doom' /\ x \in Msgs(n)'
        PROVE  LastBody'
    BY <2>1, <2>2, <2>4 DEF LastBody
  <2>5. Quiet => \E n \in Data : x \in Msgs(n)'
    BY <1>0, <2>3, QuietFacts
  <2>6. CASE Construct \/ Constructed \/ Open \/ Pruned \/ Return \/ Crash
    <3>1. pc' \in {"construct", "idle", "body", "return", "down"}
      BY <2>6, OpenFacts DEF Construct, Constructed, Pruned, Return, Crash
    <3>2. QED
      BY <2>4, <2>5, <2>6, <3>1 DEF Quiet, Busy
  <2>7. CASE Tick \/ UNCHANGED vars
    <3>1. UNCHANGED <<disk, pc, cfg, index, doom>>
      BY <2>7 DEF Tick, vars, process
    <3>2. /\ \A n : Msgs(n)' = Msgs(n)
          /\ liveFileName' = liveFileName /\ (Busy' <=> Busy)
      BY <3>1 DEF Msgs, Exists, Busy, liveFileName
    <3>3. Msgs(liveFileName)' = Msgs(liveFileName)
      BY <3>1, <3>2 DEF Msgs, Exists
    <3>4. QED
      BY <2>3, <2>4, <3>1, <3>2, <3>3
  <2>8. CASE WriteNewline
    <3>1. /\ pc = "newline" /\ pc' \in {"rotate", "return"}
          /\ liveFileName' = liveFileName /\ Exists(liveFileName)
          /\ disk'[liveFileName] # Absent
          /\ disk'[liveFileName].msgs = disk[liveFileName].msgs
      BY <2>8, WriteNewlineFacts
    <3>2. x \in Msgs(liveFileName)'
      BY <2>3, <3>1 DEF Msgs, Exists
    <3>3. QED
      BY <2>4, <2>5, <2>8, <3>1, <3>2 DEF Quiet, Busy
  <2>9. CASE RotateIndexed
    <3>1. /\ pc = "rotate" /\ index' = index + 1 /\ UNCHANGED <<disk, cfg, doom>>
          /\ pc' \in {"gzip", "prune"} /\ ~ cfg.stable /\ index < MaxIndex
      BY <2>9 DEF RotateIndexed
    <3>2. x \in Msgs(Name("log", index)) /\ doom = {}
      BY <2>3, <3>1 DEF AheadBody, liveFileName
    <3>3. index \in Indices /\ index = index' - 1
      BY <3>1, TypeFacts, Params DEF Indices
    <3>4. Name("log", index) \in Indexed /\ Name("log", index).idx = index
      BY <3>3, IndexedFacts, NameFields
    <3>5. PICK n : n = Name("log", index)
      OBVIOUS
    <3>6. n \in Data /\ n.idx = index' - 1 /\ n \notin doom' /\ x \in Msgs(n)'
      BY <3>1, <3>2, <3>3, <3>4, <3>5, DataFacts DEF Msgs, Exists
    <3>7. QED
      BY <2>4, <3>1, <3>6
  <2>10. CASE RotateStable
    <3>1. /\ pc = "rotate" /\ liveFileName = Live /\ pc' \in {"gzip", "prune"}
      BY <2>10, RotateStableFacts
    <3>2. /\ doom' = {}
          /\ \E n \in Data : (n = Live \/ n.idx = index' - 1) /\ x \in Msgs(n)'
      BY <2>3, <2>10, <3>1, LastRotateStable
    <3>3. QED
      BY <2>4, <3>1, <3>2
  <2>11. CASE Gzip
    <3>1. Busy /\ index' = index /\ doom' = doom /\ (Busy' \/ pc' = "prune")
      BY <2>11, GzipFacts
    <3>2. PICK m \in Data : (m = Live \/ m.idx = index - 1) /\ x \in Msgs(m)
      BY <2>3, <3>1
    <3>3. PICK n \in Data : LexRank(n) = LexRank(m) /\ x \in Msgs(n)'
      BY <1>0, <2>11, <3>2, QuietFacts DEF Quiet
    <3>4. n = Live \/ n.idx = index' - 1
      <4>1. CASE m = Live
        BY <3>3, <4>1, DataFacts
      <4>2. CASE m # Live
        <5>1. m \in Indexed /\ m.idx = index - 1 /\ LexRank(m) = m.idx /\ LexRank(m) <= MaxIndex
          BY <3>2, <4>2, DataFacts
        <5>2. QED
          BY <3>1, <3>3, <5>1, DataFacts
      <4>3. QED
        BY <4>1, <4>2
    <3>5. doom' = {} /\ pc' \notin {"newline", "rotate"}
      BY <3>1 DEF AheadBody, Busy
    <3>6. QED
      BY <2>4, <3>3, <3>4, <3>5
  <2>12. CASE Prune
    <3>1. pc = "prune" /\ pc' = "remove" /\ UNCHANGED <<disk, index>>
      BY <2>12 DEF Prune, process
    <3>2. PICK n \in Data : (n = Live \/ n.idx = index - 1) /\ x \in Msgs(n)
      BY <2>3, <3>1
    <3>3. n \notin doom'
      BY <2>1, <2>2, <2>12, <3>2, LastKept DEF OutOfOrder
    <3>4. x \in Msgs(n)'
      BY <3>1, <3>2 DEF Msgs, Exists
    <3>5. QED
      BY <2>4, <3>1, <3>2, <3>3, <3>4
  <2>13. ASSUME NEW from \in {"construct", "remove"}, Remove(from) PROVE LastBody'
    <3>1. pc = from /\ pc' = from /\ UNCHANGED index /\ written # {}
      BY <2>1, <2>13, RemoveFacts
    <3>2. CASE from = "remove"
      <4>1. PICK n \in Data : (n = Live \/ n.idx = index - 1) /\ n \notin doom /\ x \in Msgs(n)
        BY <2>3, <3>1, <3>2
      <4>2. x \in Msgs(n)' /\ n \notin doom'
        BY <2>13, <3>1, <3>2, <4>1, LastRemove
      <4>3. QED
        BY <2>4, <3>1, <3>2, <4>1, <4>2
    <3>3. CASE from = "construct"
      <4>1. PICK n \in Data : x \in Msgs(n)
        BY <2>3
      <4>2. \E m \in Data : x \in Msgs(m)'
        BY <2>13, <3>1, <3>3, <4>1, LastRemove
      <4>3. QED
        BY <2>4, <3>1, <3>3, <4>2 DEF Busy
    <3>4. QED
      BY <3>2, <3>3
  <2>14. QED
    BY <1>2, <2>6, <2>7, <2>8, <2>9, <2>10, <2>11, <2>12, <2>13 DEF Next
<1>3. QED
  BY <1>1, <1>2

\* The empty folder has all of it.
LEMMA LastInit == Init => StampInv /\ CompleteInv /\ AheadInv /\ LastInv
<1> SUFFICES ASSUME Init PROVE StampInv /\ CompleteInv /\ AheadInv /\ LastInv
  OBVIOUS
<1>1. RingInv
  BY RingInit
<1>2. (\A n \in Names : disk[n] = Absent) /\ written = {} /\ pc = "down" /\ doom = {}
  BY DEF Init
<1>3. StampInv /\ LastInv
  BY <1>2 DEF StampInv, LastInv, LastBody, Exists
<1>4. AheadInv
  BY <1>2, NameFields DEF AheadInv, AheadBody, Busy, Exists
<1>5. QED
  BY <1>1, <1>3, <1>4 DEF RingInv

\* Nothing but a fresh start, its age or a read of the folder that misses files takes
\* the newest message before the next one is written: no rotation or compression that
\* fails half-way, no prune after it, no death, no restart.
THEOREM LatestSurvives ==
    ASSUME Roomy, NoToggle
    PROVE  Spec => []NewestSurvives
<1>1. Init => StampInv /\ CompleteInv /\ AheadInv /\ LastInv
  BY LastInit
<1>2. TypeInv /\ GzInv /\ CompleteInv /\ AheadInv /\ [Next]_vars => CompleteInv' /\ AheadInv'
  BY CompleteStep, AheadStep
<1>3. TypeInv /\ GzInv /\ StampInv /\ CompleteInv /\ AheadInv /\ LastInv /\ [Next]_vars => LastInv'
  BY LastStep
<1>4. LastInv => NewestSurvives
  BY ReadableMsgs DEF LastInv, LastBody, NewestSurvives
<1>5. TypeInv /\ TypeInv' /\ StampInv /\ [Next]_vars => StampInv'
  BY StampStep
<1>6. QED
  BY <1>1, <1>2, <1>3, <1>4, <1>5, TypeInvAlways, GzInvAlways, PTL DEF Spec


-----------------------------------------------------------------------------
(* The age of what a prune leaves, as long as nothing fails and no process dies *)

\* A file holds a message as young as its modification time.
Dated(n) == \E x \in disk[n].msgs : stamp[x] >= disk[n].mtime

\* Every file is dated but the one an append has only created, and a .gz that has not
\* got the time of its plaintext yet; only then are there two files of one index.  What
\* a prune has not listed is young enough.
AgeBody ==
    /\ pc \in {"down", "construct"} => \A n \in Names : ~ Exists(n)
    /\ \A n \in Data : Exists(n) =>
           \/ Dated(n) \/ (pc = "body" /\ n = liveFileName) \/ (pc = "gzstamp" /\ n = dst)
    /\ pc = "newline" => \E x \in disk[liveFileName].msgs : stamp[x] >= now
    /\ \A i \in Indices : Exists(Name("log", i)) /\ Exists(Name("gz", i))
           => pc \in {"gzstamp", "gzdrop"} /\ i = gzIdx
    /\ pc # "down" => \A n \in Indexed : Exists(n) /\ n.idx >= index => n = liveFileName
    /\ Busy => gzIdx < index
    /\ pc = "remove" /\ cfg.age => \A n \in Backups(Found) : n \in doom \/ disk[n].mtime >= now - MaxAge

AgeInv == faults = 0 /\ restarts = 0 => AgeBody

\* Nothing fails in the steps it is about, and no process dies.
LEMMA Undisturbed ==
    ASSUME TypeInv, AgeInv, [Next]_vars, faults' = 0, restarts' = 0
    PROVE  /\ faults = 0 /\ restarts = 0 /\ AgeBody
           /\ faults' = faults /\ ~ Crash
<1>1. faults \in Nat /\ faults' >= faults /\ restarts \in Nat
  BY FaultsGrow, TypeFacts DEF TypeInv, TypeOK
<1>2. restarts' = restarts \/ (Crash /\ restarts' = restarts + 1)
  BY DEF Next, Construct, Remove, Constructed, Open, WriteBody, WriteNewline, RotateStable,
         RotateIndexed, Gzip, GzipCreate, GzipCopy, GzipRename, GzipStamp, GzipDrop, GzipFails, Step,
         Prune, Pruned, Return, Crash, Tick, bounds, elapsed, vars
<1>3. faults = 0 /\ restarts = 0
  BY <1>1, <1>2
<1>4. ~ Crash
  <2>1. Crash => restarts' = restarts + 1
    BY DEF Crash
  <2>2. QED
    BY <1>3, <2>1
<1>5. QED
  BY <1>1, <1>3, <1>4 DEF AgeInv

\* The files of an index that is rotated or compressed are named like this.
LEMMA PairFacts ==
    /\ \A i \in Indices : /\ Name("log", i) \in Indexed /\ Name("log", i).idx = i
                          /\ Name("gz", i) \in Indexed /\ Name("gz", i).idx = i
                          /\ Name("log", i) # Name("gz", i) /\ Name("gz", i) # liveFileName
    /\ \A n \in Indexed : n = Name("log", n.idx) \/ n = Name("gz", n.idx)
<1>1. ASSUME NEW i \in Indices
      PROVE  /\ Name("log", i) \in Indexed /\ Name("log", i).idx = i
             /\ Name("gz", i) \in Indexed /\ Name("gz", i).idx = i
             /\ Name("log", i) # Name("gz", i) /\ Name("gz", i) # liveFileName
  BY IndexedFacts, NameFields DEF liveFileName
<1>2. \A n \in Indexed : n = Name("log", n.idx) \/ n = Name("gz", n.idx)
  BY IndexedFacts DEF Indexed
<1>3. QED
  BY <1>1, <1>2

\* Steps that change no file and begin nothing.
LEMMA AgeKept ==
    ASSUME TypeInv, AgeBody, disk' = disk, stamp' = stamp, UNCHANGED <<cfg, index>>,
           pc \notin {"down", "construct", "body", "newline", "gzstamp", "gzdrop"} \/ pc = pc',
           pc' \notin {"down", "construct", "newline", "remove"} \/ (pc = pc' /\ now' = now /\ doom' = doom),
           gzIdx' = gzIdx \/ (pc \notin {"gzstamp", "gzdrop"} /\ ~ Busy'),
           Busy' => Busy
    PROVE  AgeBody'
<1>1. \A n : (Exists(n)' <=> Exists(n)) /\ (Dated(n)' <=> Dated(n))
  BY DEF Exists, Dated
<1>2. liveFileName' = liveFileName /\ Backups(Found)' = Backups(Found)
  BY DEF liveFileName, Backups, Rotated, Listed, Found, Exists
<1>3. pc' \in {"gzstamp", "gzdrop"} => Busy'
  BY DEF Busy
<1>4. \A n \in Data : Exists(n)' =>
           \/ Dated(n)' \/ (pc' = "body" /\ n = liveFileName') \/ (pc' = "gzstamp" /\ n = dst')
  BY <1>1, <1>2 DEF AgeBody, dst, Busy
<1>5. \A i \in Indices : Exists(Name("log", i))' /\ Exists(Name("gz", i))'
           => pc' \in {"gzstamp", "gzdrop"} /\ i = gzIdx'
  BY <1>1 DEF AgeBody, Busy
<1>6. pc' # "down" => \A n \in Indexed : Exists(n)' /\ n.idx >= index' => n = liveFileName'
  BY <1>1, <1>2 DEF AgeBody
<1>7. /\ pc' \in {"down", "construct"} => \A n \in Names : ~ Exists(n)'
      /\ pc' = "newline" => \E x \in disk'[liveFileName'].msgs : stamp'[x] >= now'
      /\ Busy' => gzIdx' < index'
      /\ pc' = "remove" /\ cfg'.age => \A n \in Backups(Found)' : n \in doom' \/ disk'[n].mtime >= now' - MaxAge
  BY <1>1, <1>2, <1>3 DEF AgeBody
<1>8. QED
  BY <1>4, <1>5, <1>6, <1>7 DEF AgeBody

\* A handler is constructed in an empty folder.
LEMMA AgeConstruct ==
    ASSUME TypeInv, AgeBody, Construct \/ Constructed \/ Remove("construct")
    PROVE  AgeBody'
<1>1. pc \in {"down", "construct"} /\ pc' \in {"construct", "idle"}
  BY DEF Construct, Constructed, Remove
<1>2. \A n \in Names : ~ Exists(n)'
  <2>1. \A n \in Names : disk[n] = Absent
    BY <1>1 DEF AgeBody, Exists
  <2>2. CASE Construct \/ Constructed
    BY <2>1, <2>2 DEF Construct, Constructed, Exists
  <2>3. CASE Remove("construct")
    <3>1. /\ NextDoomed \in Names
          /\ \A n \in Names \ {NextDoomed} : disk'[n] = disk[n]
          /\ disk'[NextDoomed] \in {disk[NextDoomed], Absent}
      BY <2>3, RemoveFacts
    <3>2. \A n \in Names : disk'[n] = Absent
      BY <2>1, <3>1
    <3>3. QED
      BY <3>2 DEF Exists
  <2>4. QED
    BY <2>2, <2>3
<1>3. \A n \in Data : n \in Names
  BY DataFacts
<1>4. \A i \in Indices : Name("log", i) \in Names
  BY PairFacts, IndexedFacts
<1>5. \A n \in Indexed : n \in Names
  BY IndexedFacts
<1>6. QED
  BY <1>1, <1>2, <1>3, <1>4, <1>5 DEF AgeBody, Busy

\* The live file is created below every .gz.
LEMMA AgeOpen ==
    ASSUME TypeInv, AgeBody, Open, faults' = faults
    PROVE  AgeBody'
<1>1. /\ pc = "idle" /\ pc' = "body" /\ liveFileName' = liveFileName /\ liveFileName \in Names
      /\ UNCHANGED <<cfg, index, gzIdx, doom, stamp, now>>
      /\ \A m \in Names : m # liveFileName => disk'[m] = disk[m]
  BY OpenFacts, TypeFacts
<1>2. \A m \in Names : m # liveFileName => (Exists(m)' <=> Exists(m)) /\ (Dated(m)' <=> Dated(m))
  BY <1>1 DEF Exists, Dated
<1>3. \A n \in Data : Exists(n)' => Dated(n)' \/ n = liveFileName
  <2> SUFFICES ASSUME NEW n \in Data, Exists(n)', n # liveFileName PROVE Dated(n)'
    OBVIOUS
  <2>1. Exists(n) /\ n \in Names
    BY <1>2, DataFacts
  <2>2. Dated(n)
    BY <1>1, <2>1 DEF AgeBody
  <2>3. QED
    BY <1>2, <2>1, <2>2
<1>4. \A i \in Indices : ~ (Exists(Name("log", i))' /\ Exists(Name("gz", i))')
  <2> SUFFICES ASSUME NEW i \in Indices, Exists(Name("log", i))', Exists(Name("gz", i))' PROVE FALSE
    OBVIOUS
  <2>1. PICK a \in Indexed, b \in Indexed : a = Name("log", i) /\ b = Name("gz", i)
    BY PairFacts
  <2>2. Exists(b) /\ b # liveFileName /\ b.idx = i /\ b \in Names
    BY <1>2, <2>1, PairFacts, IndexedFacts
  <2>3. CASE a = liveFileName
    <3>1. i = index /\ index \in Nat
      BY <2>1, <2>3, NameFields, TypeFacts DEF liveFileName
    <3>2. QED
      BY <1>1, <2>2, <3>1 DEF AgeBody
  <2>4. CASE a # liveFileName
    <3>1. Exists(a)
      BY <1>2, <2>1, <2>4, IndexedFacts
    <3>2. QED
      BY <1>1, <2>1, <2>2, <3>1 DEF AgeBody
  <2>5. QED
    BY <2>3, <2>4
<1>5. \A n \in Indexed : Exists(n)' /\ n.idx >= index => n = liveFileName
  BY <1>1, <1>2, IndexedFacts DEF AgeBody
<1>6. QED
  BY <1>1, <1>3, <1>4, <1>5 DEF AgeBody, Busy

\* An append dates it.
LEMMA AgeWrite ==
    ASSUME TypeInv, StampInv, AgeBody, WriteBody \/ WriteNewline, faults' = faults
    PROVE  AgeBody'
<1>1. /\ pc \in {"body", "newline"} /\ pc' \in {"newline", "rotate", "return"}
      /\ (pc' = "newline") = (pc = "body")
      /\ liveFileName' = liveFileName /\ liveFileName \in Names /\ Exists(liveFileName)
      /\ UNCHANGED <<cfg, index, now>>
      /\ \A m \in Names \ {liveFileName} : disk'[m] = disk[m]
  BY WriteBodyFacts, WriteNewlineFacts
<1>2. /\ nextMsg \in Nat /\ now \in Nat /\ stamp \in [1..MaxMsgs -> Nat]
      /\ \A n \in Names : Exists(n) => \A x \in disk[n].msgs : x \in 1..MaxMsgs /\ x < nextMsg
  <2>1. stamp \in [1..MaxMsgs -> 0..scenario.ticks] /\ scenario.ticks \in Nat
    BY TypeFacts DEF TypeInv, TypeOK
  <2>2. QED
    BY <2>1, TypeFacts, FileFields DEF Fields, StampInv
<1>3. \A n \in Names : Exists(n) => \A x \in disk[n].msgs : stamp'[x] = stamp[x]
  <2>1. stamp' = stamp \/ stamp' = [stamp EXCEPT ![nextMsg] = now]
    BY DEF WriteBody, WriteNewline, history
  <2>2. \A x \in 1..MaxMsgs : x < nextMsg => stamp'[x] = stamp[x]
    <3>1. \A x \in 1..MaxMsgs : x < nextMsg => x # nextMsg
      BY <1>2
    <3>2. QED
      BY <1>2, <2>1, <3>1
  <2>3. QED
    BY <1>2, <2>2
<1>4. /\ disk'[liveFileName].mtime = now
      /\ \E x \in disk'[liveFileName].msgs : stamp'[x] >= now
  <2>1. CASE WriteBody
    <3>1. disk' = Grown(liveFileName, {nextMsg}, size - 1)
          /\ stamp' = [stamp EXCEPT ![nextMsg] = now]
      <4>1. ~ Fault /\ ~ Faults(2)
        BY TypeFacts DEF Fault, Faults
      <4>2. QED
        BY <2>1, <4>1 DEF WriteBody
    <3>2. nextMsg \in 1..MaxMsgs /\ size - 1 \in Nat
      <4>1. nextMsg \in 1..MaxMsgs /\ size \in Sizes
        BY <2>1, WriteBodyFacts
      <4>2. QED
        BY <4>1, Params
    <3>3. PICK ms \in SUBSET (1..MaxMsgs), b \in Nat : ms = {nextMsg} /\ b = size - 1
      BY <3>2
    <3>4. /\ disk'[liveFileName].mtime = now
          /\ disk'[liveFileName].msgs = disk[liveFileName].msgs \cup {nextMsg}
      BY <1>1, <3>1, <3>3, GrownElsewhere
    <3>5. stamp'[nextMsg] = now /\ now >= now
      BY <1>2, <3>1, <3>2
    <3>6. QED
      BY <3>4, <3>5
  <2>2. CASE WriteNewline
    <3>1. disk' = Grown(liveFileName, {}, 1) /\ pc = "newline"
      <4>1. ~ Fault /\ ~ Faults(2)
        BY TypeFacts DEF Fault, Faults
      <4>2. QED
        BY <2>2, <4>1 DEF WriteNewline
    <3>2. PICK ms \in SUBSET (1..MaxMsgs), b \in Nat : ms = {} /\ b = 1
      OBVIOUS
    <3>3. /\ disk'[liveFileName].mtime = now
          /\ disk'[liveFileName].msgs = disk[liveFileName].msgs \cup {}
      BY <1>1, <3>1, <3>2, GrownElsewhere
    <3>4. \E x \in disk[liveFileName].msgs : stamp[x] >= now
      BY <3>1 DEF AgeBody
    <3>5. QED
      BY <1>1, <1>3, <3>3, <3>4
  <2>3. QED
    BY <2>1, <2>2
<1>5. \A n \in Names : Exists(n)' <=> Exists(n)
  <2>1. disk'[liveFileName] # Absent
    BY WriteBodyFacts, WriteNewlineFacts
  <2>2. QED
    BY <1>1, <2>1 DEF Exists
<1>6. \A n \in Data : Exists(n)' => Dated(n)'
  <2> SUFFICES ASSUME NEW n \in Data, Exists(n)' PROVE Dated(n)'
    OBVIOUS
  <2>1. n \in Names /\ Exists(n)
    BY <1>5, DataFacts
  <2>2. CASE n = liveFileName
    BY <1>4, <2>2 DEF Dated
  <2>3. CASE n # liveFileName
    <3>1. Dated(n) /\ disk'[n] = disk[n]
      BY <1>1, <2>1, <2>3 DEF AgeBody
    <3>2. QED
      BY <1>3, <2>1, <3>1 DEF Dated
  <2>4. QED
    BY <2>2, <2>3
<1>7. \A i \in Indices : ~ (Exists(Name("log", i))' /\ Exists(Name("gz", i))')
  BY <1>1, <1>5, PairFacts, IndexedFacts DEF AgeBody
<1>8. \A n \in Indexed : Exists(n)' /\ n.idx >= index => n = liveFileName
  BY <1>1, <1>5, IndexedFacts DEF AgeBody
<1>9. QED
  BY <1>1, <1>4, <1>6, <1>7, <1>8 DEF AgeBody, Busy

\* A rotation leaves the files of all indices below the next.
LEMMA AgeRotate ==
    ASSUME TypeInv, AgeBody, RotateStable \/ RotateIndexed, faults' = faults
    PROVE  AgeBody'
<1>1. /\ pc = "rotate" /\ pc' \in {"gzip", "prune"} /\ UNCHANGED <<cfg, stamp, now>>
      /\ index \in Nat
  BY RotateStableFacts, TypeFacts DEF RotateIndexed, history, bounds, elapsed
<1>2. CASE RotateIndexed
  <2>1. /\ index' = index + 1 /\ gzIdx' = index /\ disk' = disk /\ ~ cfg.stable
    BY <1>2 DEF RotateIndexed
  <2>2. \A n : (Exists(n)' <=> Exists(n)) /\ (Dated(n)' <=> Dated(n))
    BY <1>1, <2>1 DEF Exists, Dated
  <2>3. \A n \in Indexed : ~ (Exists(n) /\ n.idx >= index')
    <3> SUFFICES ASSUME NEW n \in Indexed, Exists(n), n.idx >= index' PROVE FALSE
      OBVIOUS
    <3>1. n.idx \in Nat /\ n.idx >= index
      BY <1>1, <2>1, IndexedFacts
    <3>2. n = Name("log", index)
      BY <1>1, <2>1, <3>1 DEF AgeBody, liveFileName
    <3>3. n.idx = index
      BY <3>2, NameFields
    <3>4. QED
      BY <1>1, <2>1, <3>1, <3>3
  <2>4. \A n \in Data : Exists(n)' => Dated(n)'
    BY <1>1, <2>2 DEF AgeBody
  <2>5. \A i \in Indices : ~ (Exists(Name("log", i))' /\ Exists(Name("gz", i))')
    BY <1>1, <2>2 DEF AgeBody
  <2>6. gzIdx' < index'
    BY <1>1, <2>1
  <2>7. QED
    BY <1>1, <2>2, <2>3, <2>4, <2>5, <2>6 DEF AgeBody, Busy
<1>3. CASE RotateStable
  <2>1. PICK i \in Indices :
          /\ index' = i + 1 /\ i >= index
          /\ disk'[Name("log", i)] = disk[Live] /\ disk'[Live] = Absent
          /\ \A n \in Names : n \notin {Live, Name("log", i)} => disk'[n] = disk[n]
          /\ pc' = IF cfg.compress THEN "gzip" ELSE "prune"
          /\ gzIdx' = i
    BY <1>3, RotateStableSeen, TypeFacts
  <2>2. cfg.stable /\ disk[Live] # Absent /\ liveFileName = Live /\ i \in Nat
    BY <1>3, RotateStableFacts, NameFields
  <2>3. PICK b \in Indexed : b = Name("log", i) /\ b.idx = i /\ b # Live /\ b \in Data
    BY PairFacts, IndexedFacts, DataFacts
  <2>4. /\ disk'[b] = disk[Live] /\ disk'[Live] = Absent
        /\ \A n \in Names : n # Live /\ n # b => disk'[n] = disk[n]
    BY <2>1, <2>3
  <2>5. \A n \in Indexed : Exists(n) => n.idx < index /\ n.idx < i
    <3> SUFFICES ASSUME NEW n \in Indexed, Exists(n) PROVE n.idx < index /\ n.idx < i
      OBVIOUS
    <3>1. n # Live /\ n.idx \in Nat
      BY IndexedFacts
    <3>2. ~ (n.idx >= index)
      BY <1>1, <2>2, <3>1 DEF AgeBody
    <3>3. QED
      BY <1>1, <2>1, <2>2, <3>1, <3>2
  <2>6. \A n \in Data : Exists(n)' => Dated(n)'
    <3> SUFFICES ASSUME NEW n \in Data, Exists(n)' PROVE Dated(n)'
      OBVIOUS
    <3>1. n # Live /\ n \in Names
      BY <2>4, DataFacts DEF Exists
    <3>2. CASE n = b
      <4>1. Dated(Live)
        BY <1>1, <2>2, DataFacts DEF AgeBody, Exists
      <4>2. QED
        BY <1>1, <2>4, <3>2, <4>1 DEF Dated
    <3>3. CASE n # b
      <4>1. disk'[n] = disk[n] /\ Exists(n)
        BY <2>4, <3>1, <3>3 DEF Exists
      <4>2. Dated(n)
        BY <1>1, <4>1 DEF AgeBody
      <4>3. QED
        BY <1>1, <4>1, <4>2 DEF Dated
    <3>4. QED
      BY <3>2, <3>3
  <2>7. \A n \in Indexed : Exists(n)' => n = b \/ Exists(n)
    BY <2>4, IndexedFacts DEF Exists
  <2>8. \A j \in Indices : ~ (Exists(Name("log", j))' /\ Exists(Name("gz", j))')
    <3> SUFFICES ASSUME NEW j \in Indices, Exists(Name("log", j))', Exists(Name("gz", j))' PROVE FALSE
      OBVIOUS
    <3>1. PICK a \in Indexed, g \in Indexed :
              a = Name("log", j) /\ g = Name("gz", j) /\ a.idx = j /\ g.idx = j
      BY PairFacts
    <3>2. Exists(a)' /\ Exists(g)' /\ g # b
      BY <2>3, <3>1, NameFields
    <3>3. Exists(g) /\ (a = b \/ Exists(a))
      BY <2>7, <3>1, <3>2
    <3>4. CASE a = b
      BY <2>2, <2>3, <2>5, <3>1, <3>3, <3>4
    <3>5. CASE Exists(a)
      BY <1>1, <3>1, <3>3, <3>5 DEF AgeBody
    <3>6. QED
      BY <3>3, <3>4, <3>5
  <2>9. \A n \in Indexed : ~ (Exists(n)' /\ n.idx >= index')
    <3> SUFFICES ASSUME NEW n \in Indexed, Exists(n)', n.idx >= index' PROVE FALSE
      OBVIOUS
    <3>1. n.idx \in Nat /\ n.idx <= i
      BY <2>2, <2>3, <2>5, <2>7, IndexedFacts
    <3>2. QED
      BY <2>1, <2>2, <3>1
  <2>10. gzIdx' < index'
    BY <2>1, <2>2
  <2>11. QED
    BY <1>1, <2>6, <2>8, <2>9, <2>10 DEF AgeBody, Busy
<1>4. QED
  BY <1>2, <1>3

\* A compression replaces a plaintext by a .gz that gets its time.
LEMMA AgeGzip ==
    ASSUME TypeInv, StampInv, AgeBody, Gzip, faults' = faults
    PROVE  AgeBody'
<1>1. /\ Busy /\ (Busy' \/ pc' = "prune")
      /\ liveFileName' = liveFileName /\ src' = src /\ dst' = dst /\ tmp' = tmp
      /\ UNCHANGED <<cfg, index, gzIdx, stamp, now>>
      /\ \A n \in Names \ {src, dst, tmp} : disk'[n] = disk[n]
      /\ disk \in [Names -> Files \cup {Absent}]
  BY GzipFacts DEF TypeInv, TypeOK
<1>2. ~ Fault /\ ~ Faults(2)
  BY TypeFacts DEF Fault, Faults
<1>3. PICK i \in Indices : i = gzIdx /\ i \in Nat /\ i < index /\ index \in Nat
  BY <1>1, GzNames, NameFields, TypeFacts DEF AgeBody
<1>4. PICK s \in Indexed, d \in Indexed, t \in Names :
          /\ s = src /\ d = dst /\ t = tmp /\ s # d /\ t \notin Data
          /\ disk[s] \in Files /\ disk[s] # Absent /\ s.idx = i /\ d.idx = i
          /\ s = Name("log", i) /\ d = Name("gz", i)
  BY <1>1, <1>3, GzNames, PairFacts, NameFields DEF src, dst, tmp, Data
<1>5. \A n \in Indexed : n \in Names /\ n \in Data /\ n # t
  BY <1>4, DataFacts
<1>6. pc \in {"gzip", "gzcopy", "gzrename"} => ~ Exists(d)
  BY <1>3, <1>4 DEF AgeBody, Exists
<1>7. \A n \in Data : n # s /\ n # d => disk'[n] = disk[n]
  BY <1>1, <1>4, DataFacts
<1>8. /\ \/ disk'[s] = disk[s] /\ (pc' = "prune" => ~ Exists(d)')
         \/ disk'[s] = Absent /\ pc' = "prune"
      /\ Exists(d)' /\ pc' # "gzstamp" => Dated(d)'
      /\ pc' \notin {"gzstamp", "gzdrop", "prune"} => ~ Exists(d)'
  <2>1. CASE pc = "gzip"
    <3>1. disk' = [disk EXCEPT ![t] = Empty] \/ UNCHANGED disk
      BY <1>4, <2>1 DEF Gzip, GzipCreate, GzipCopy, GzipRename, GzipStamp, GzipDrop, GzipFails, Step
    <3>2. disk'[s] = disk[s] /\ disk'[d] = disk[d]
      BY <1>1, <1>4, <1>5, <3>1
    <3>3. QED
      BY <1>6, <2>1, <3>2 DEF Exists
  <2>2. CASE pc = "gzcopy"
    <3>1. \E f : disk' = [disk EXCEPT ![t] = f]
      BY <1>2, <1>4, <2>2 DEF Gzip, GzipCreate, GzipCopy, GzipRename, GzipStamp, GzipDrop, GzipFails, Step
    <3>2. disk'[s] = disk[s] /\ disk'[d] = disk[d]
      BY <1>1, <1>4, <1>5, <3>1
    <3>3. QED
      BY <1>6, <2>2, <3>2 DEF Exists
  <2>3. CASE pc = "gzrename"
    <3>1. disk' = [disk EXCEPT ![d] = disk[t], ![t] = Absent] /\ pc' = "gzstamp"
      BY <1>2, <1>4, <2>3 DEF Gzip, GzipCreate, GzipCopy, GzipRename, GzipStamp, GzipDrop, GzipFails, Step
    <3>2. disk'[s] = disk[s]
      BY <1>1, <1>4, <1>5, <3>1
    <3>3. QED
      BY <3>1, <3>2
  <2>4. CASE pc = "gzstamp"
    <3>1. disk' = [disk EXCEPT ![d].mtime = disk[s].mtime] /\ pc' = "gzdrop"
      BY <1>2, <1>4, <2>4 DEF Gzip, GzipCreate, GzipCopy, GzipRename, GzipStamp, GzipDrop, GzipFails, Step
    <3>2. disk[d] \in Files /\ disk[d].msgs = disk[s].msgs
      BY <1>4, <2>4, TypeFacts, IndexedFacts DEF StampInv, TypeInv, Control
    <3> DEFINE f == [disk[d] EXCEPT !.mtime = disk[s].mtime]
    <3>3. f.msgs = disk[s].msgs /\ f.mtime = disk[s].mtime
      BY <3>2 DEF Files
    <3>4. disk' = [disk EXCEPT ![d] = f]
      BY <3>1
    <3> HIDE DEF f
    <3>5. disk'[s] = disk[s] /\ disk'[d] = f
      BY <1>1, <1>4, <1>5, <3>4
    <3>6. Dated(s)
      BY <1>4, <1>5, <2>4 DEF AgeBody, Exists
    <3>7. Dated(d)'
      BY <1>1, <3>3, <3>5, <3>6 DEF Dated
    <3>8. pc' # "prune" /\ pc' # "gzstamp" /\ pc' \in {"gzstamp", "gzdrop", "prune"}
      BY <3>1
    <3>9. QED
      BY <3>5, <3>7, <3>8
  <2>5. CASE pc = "gzdrop"
    <3>1. disk' = [disk EXCEPT ![s] = Absent] /\ pc' = "prune"
      BY <1>2, <1>4, <2>5 DEF Gzip, GzipCreate, GzipCopy, GzipRename, GzipStamp, GzipDrop, GzipFails, Step
    <3>2. disk'[s] = Absent /\ disk'[d] = disk[d]
      BY <1>1, <1>4, <1>5, <3>1
    <3>3. Exists(d)' => Dated(d)'
      <4> SUFFICES ASSUME Exists(d)' PROVE Dated(d)'
        OBVIOUS
      <4>1. Exists(d)
        BY <3>2 DEF Exists
      <4>2. Dated(d)
        BY <1>5, <2>5, <4>1 DEF AgeBody
      <4>3. QED
        BY <1>1, <3>2, <4>2 DEF Dated
    <3>4. QED
      BY <3>1, <3>2, <3>3
  <2>6. QED
    BY <1>1, <2>1, <2>2, <2>3, <2>4, <2>5 DEF Busy
<1>9. \A n \in Data : Exists(n)' => Dated(n)' \/ (pc' = "gzstamp" /\ n = dst')
  <2> SUFFICES ASSUME NEW n \in Data, Exists(n)', ~ (pc' = "gzstamp" /\ n = d) PROVE Dated(n)'
    BY <1>1, <1>4
  <2>1. CASE n = d
    BY <1>8, <2>1
  <2>2. CASE n # d
    <3>1. disk'[n] = disk[n]
      BY <1>7, <1>8, <2>2 DEF Exists
    <3>2. Exists(n)
      BY <3>1 DEF Exists
    <3>3. Dated(n)
      BY <1>1, <1>4, <2>2, <3>2 DEF AgeBody, Busy
    <3>4. QED
      BY <1>1, <3>1, <3>3 DEF Dated
  <2>3. QED
    BY <2>1, <2>2
<1>10. \A j \in Indices : Exists(Name("log", j))' /\ Exists(Name("gz", j))'
           => pc' \in {"gzstamp", "gzdrop"} /\ j = gzIdx'
  <2> SUFFICES ASSUME NEW j \in Indices, Exists(Name("log", j))', Exists(Name("gz", j))'
               PROVE  pc' \in {"gzstamp", "gzdrop"} /\ j = gzIdx'
    OBVIOUS
  <2>1. PICK a \in Indexed, g \in Indexed :
            a = Name("log", j) /\ g = Name("gz", j) /\ a.idx = j /\ g.idx = j
    BY PairFacts
  <2>2. CASE j = i
    <3>1. a = s /\ g = d /\ Exists(s)' /\ Exists(d)'
      BY <1>4, <2>1, <2>2
    <3>2. QED
      BY <1>1, <1>3, <1>8, <2>2, <3>1 DEF Exists
  <2>3. CASE j # i
    <3>1. a # s /\ a # d /\ g # s /\ g # d
      BY <1>4, <2>1, <2>3
    <3>2. Exists(a) /\ Exists(g)
      BY <1>5, <1>7, <2>1, <3>1 DEF Exists
    <3>3. QED
      BY <1>3, <2>1, <2>3, <3>2 DEF AgeBody
  <2>4. QED
    BY <2>2, <2>3
<1>11. \A n \in Indexed : Exists(n)' /\ n.idx >= index => n = liveFileName
  <2> SUFFICES ASSUME NEW n \in Indexed, Exists(n)', n.idx >= index PROVE n = liveFileName
    OBVIOUS
  <2>1. n # s /\ n # d
    BY <1>3, <1>4
  <2>2. Exists(n)
    BY <1>5, <1>7, <2>1 DEF Exists
  <2>3. QED
    BY <1>1, <2>2 DEF AgeBody, Busy
<1>12. QED
  BY <1>1, <1>3, <1>9, <1>10, <1>11 DEF AgeBody, Busy

\* What a prune does not list is young enough.
LEMMA AgePrune ==
    ASSUME TypeInv, StampInv, AgeBody, Prune, faults' = faults
    PROVE  AgeBody'
<1>1. pc = "prune" /\ pc' = "remove" /\ UNCHANGED <<disk, cfg, index, gzIdx, stamp, now>>
  BY DEF Prune, process, frame, history, bounds, elapsed
<1>2. \A n : (Exists(n)' <=> Exists(n)) /\ (Dated(n)' <=> Dated(n))
  BY <1>1 DEF Exists, Dated
<1>3. liveFileName' = liveFileName /\ Backups(Found)' = Backups(Found)
  BY <1>1 DEF liveFileName, Backups, Rotated, Listed, Found, Exists
<1>4. \A i \in Indices : ~ (Exists(Name("log", i)) /\ Exists(Name("gz", i)))
  BY <1>1 DEF AgeBody
<1>5. Backups(Found) \subseteq Indexed /\ \A m \in Backups(Found) : Exists(m)
  BY DEF Backups, Rotated, Listed, Found, Indexed
<1>6. \A m, n \in Backups(Found) : m.idx = n.idx => m = n
  <2> SUFFICES ASSUME NEW m \in Backups(Found), NEW n \in Backups(Found), m.idx = n.idx PROVE m = n
    OBVIOUS
  <2>1. /\ m = Name("log", m.idx) \/ m = Name("gz", m.idx)
        /\ n = Name("log", m.idx) \/ n = Name("gz", m.idx)
        /\ m.idx \in Indices /\ Exists(m) /\ Exists(n)
    BY <1>5, PairFacts, IndexedFacts
  <2>2. QED
    BY <1>4, <2>1
<1>7. ASSUME cfg.age, NEW n \in Backups(Found), n \notin doom' PROVE disk[n].mtime >= now - MaxAge
  <2> DEFINE paths(i) == {m \in Backups(Found) : m.idx = i}
             indices == {m.idx : m \in Backups(Found)}
             mtime(i) == Max({disk[m].mtime : m \in paths(i)})
             expired == {i \in indices : cfg.age /\ mtime(i) < now - MaxAge}
             survivors == indices \ expired
             keep == IF MaxFiles = 0 THEN 0 ELSE MaxFiles - 1
             counted == Oldest(survivors, Cardinality(survivors) - keep, LAMBDA i : i)
  <2>1. doom' = UNION {paths(i) : i \in expired \cup counted}
    <3>1. doom' = PruneDoom(Found)
      BY <1>7, PruneFacts DEF ZeroOption
    <3>2. QED
      BY <3>1 DEF PruneDoom
  <2>2. now \in Nat /\ MaxAge \in Nat /\ disk[n].mtime \in Nat
    BY <1>5, Params, IndexedFacts, FileFields DEF Fields
  <2>3. n.idx \in indices /\ n \in paths(n.idx)
    OBVIOUS
  <2>4. n.idx \notin expired
    <3> HIDE DEF expired, counted, paths
    <3>1. QED
      BY <1>7, <2>1, <2>3
  <2>5. ~ (mtime(n.idx) < now - MaxAge)
    BY <1>7, <2>3, <2>4
  <2>6. mtime(n.idx) = disk[n].mtime
    <3>1. PICK t : t = disk[n].mtime
      OBVIOUS
    <3>2. PICK T : T = {disk[m].mtime : m \in paths(n.idx)}
      OBVIOUS
    <3>3. T = {t}
      BY <1>6, <3>1, <3>2
    <3>4. t \in Nat /\ T \in SUBSET Nat /\ T # {} /\ \A u \in T : u <= t
      BY <2>2, <3>1, <3>3
    <3>5. Max(T) \in T
      BY <3>4, MaxOfBounded
    <3>6. QED
      BY <3>1, <3>2, <3>3, <3>5
  <2> HIDE DEF mtime
  <2>7. QED
    BY <2>2, <2>5, <2>6
<1>8. \A n \in Data : Exists(n)' => Dated(n)'
  BY <1>1, <1>2 DEF AgeBody
<1>9. \A n \in Indexed : Exists(n)' /\ n.idx >= index' => n = liveFileName'
  BY <1>1, <1>2, <1>3 DEF AgeBody
<1>10. cfg'.age => \A n \in Backups(Found)' : n \in doom' \/ disk'[n].mtime >= now' - MaxAge
  BY <1>1, <1>3, <1>7
<1>11. QED
  BY <1>1, <1>2, <1>4, <1>8, <1>9, <1>10 DEF AgeBody, Busy

\* A removal leaves the others.
LEMMA AgeRemove ==
    ASSUME TypeInv, AgeBody, Remove("remove"), faults' = faults
    PROVE  AgeBody'
<1>1. /\ NextDoomed \in Names /\ doom' = doom \ {NextDoomed}
      /\ pc = "remove" /\ pc' = "remove" /\ liveFileName' = liveFileName
      /\ UNCHANGED <<cfg, index, gzIdx, stamp, now>>
      /\ \A n \in Names \ {NextDoomed} : disk'[n] = disk[n]
      /\ disk'[NextDoomed] = Absent
  BY RemoveFacts, TypeFacts
<1>2. \A n \in Names : Exists(n)' => n # NextDoomed /\ disk'[n] = disk[n] /\ Exists(n)
  BY <1>1 DEF Exists
<1>3. \A n \in Data : Exists(n)' => Dated(n)'
  BY <1>1, <1>2, DataFacts DEF AgeBody, Dated
<1>4. \A i \in Indices : ~ (Exists(Name("log", i))' /\ Exists(Name("gz", i))')
  BY <1>1, <1>2, PairFacts, IndexedFacts DEF AgeBody
<1>5. \A n \in Indexed : Exists(n)' /\ n.idx >= index' => n = liveFileName'
  BY <1>1, <1>2, IndexedFacts DEF AgeBody
<1>6. cfg'.age => \A n \in Backups(Found)' : n \in doom' \/ disk'[n].mtime >= now' - MaxAge
  <2> SUFFICES ASSUME cfg'.age, NEW n \in Backups(Found)'
               PROVE  n \in doom' \/ disk'[n].mtime >= now' - MaxAge
    OBVIOUS
  <2>1. n \in Names /\ Exists(n)' /\ n # liveFileName
        /\ n.kind \in (IF cfg.compress THEN {"log", "gz"} ELSE {"log"})
    BY <1>1 DEF Backups, Rotated, Listed, Found
  <2>2. n # NextDoomed /\ disk'[n] = disk[n] /\ Exists(n)
    BY <1>2, <2>1
  <2>3. n \in Backups(Found)
    BY <2>1, <2>2 DEF Backups, Rotated, Listed, Found
  <2>4. QED
    BY <1>1, <2>2, <2>3 DEF AgeBody
<1>7. QED
  BY <1>1, <1>3, <1>4, <1>5, <1>6 DEF AgeBody, Busy

\* Every step keeps it, as long as nothing fails.
LEMMA AgeStep == TypeInv /\ StampInv /\ AgeInv /\ [Next]_vars => AgeInv'
<1> SUFFICES ASSUME TypeInv, StampInv, AgeInv, [Next]_vars, faults' = 0, restarts' = 0
             PROVE  AgeBody'
  BY DEF AgeInv
<1>1. AgeBody /\ faults' = faults /\ ~ Crash
  BY Undisturbed
<1>2. CASE Construct \/ Constructed \/ Remove("construct")
  BY <1>1, <1>2, AgeConstruct
<1>3. CASE Open
  BY <1>1, <1>3, AgeOpen
<1>4. CASE WriteBody \/ WriteNewline
  BY <1>1, <1>4, AgeWrite
<1>5. CASE RotateStable \/ RotateIndexed
  BY <1>1, <1>5, AgeRotate
<1>6. CASE Gzip
  BY <1>1, <1>6, AgeGzip
<1>7. CASE Prune
  BY <1>1, <1>7, AgePrune
<1>8. CASE Remove("remove")
  BY <1>1, <1>8, AgeRemove
<1>9. CASE Pruned \/ Return
  <2>1. /\ disk' = disk /\ stamp' = stamp /\ UNCHANGED <<cfg, index>>
        /\ pc \in {"remove", "return"} /\ pc' \in {"return", "idle"}
    BY <1>9 DEF Pruned, Return, process, history
  <2>2. ~ Busy' /\ ~ Busy
    BY <2>1 DEF Busy
  <2>3. QED
    BY <1>1, <2>1, <2>2, AgeKept
<1>10. CASE Tick
  <2>1. /\ disk' = disk /\ stamp' = stamp /\ UNCHANGED <<cfg, index, gzIdx, pc, doom>>
        /\ pc \notin {"newline", "remove"}
    BY <1>10 DEF Tick, process, frame, history
  <2>2. Busy' = Busy
    BY <2>1 DEF Busy
  <2>3. CASE pc \in {"down", "construct"}
    <3>1. \A n \in Names : ~ Exists(n)'
      BY <1>1, <2>1, <2>3 DEF AgeBody, Exists
    <3>2. /\ \A n \in Data : n \in Names
          /\ \A n \in Indexed : n \in Names
          /\ \A i \in Indices : Name("log", i) \in Names
      BY DataFacts, IndexedFacts, PairFacts
    <3>3. QED
      BY <2>1, <2>3, <3>1, <3>2 DEF AgeBody, Busy
  <2>4. CASE pc \notin {"down", "construct"}
    BY <1>1, <2>1, <2>2, <2>4, AgeKept
  <2>5. QED
    BY <2>3, <2>4
<1>11. CASE UNCHANGED vars
  <2>1. UNCHANGED <<disk, stamp, cfg, index, gzIdx, pc, doom, now>>
    BY <1>11 DEF vars, process, frame, history, bounds, elapsed
  <2>2. Busy' = Busy
    BY <2>1 DEF Busy
  <2>3. QED
    BY <1>1, <2>1, <2>2, AgeKept
<1>12. QED
  BY <1>1, <1>2, <1>3, <1>4, <1>5, <1>6, <1>7, <1>8, <1>9, <1>10, <1>11 DEF Next

\* It holds in the empty folder.
LEMMA AgeInit == Init => AgeInv
<1> SUFFICES ASSUME Init PROVE AgeBody
  BY DEF AgeInv
<1>1. pc = "down" /\ \A n \in Names : ~ Exists(n)
  BY DEF Init, Exists
<1>2. /\ \A n \in Data : n \in Names
      /\ \A n \in Indexed : n \in Names
      /\ \A i \in Indices : Name("log", i) \in Names
  BY DataFacts, IndexedFacts, PairFacts
<1>3. QED
  BY <1>1, <1>2 DEF AgeBody, Busy

\* The step NothingOverAge is about, with the message it promises.
Young ==
    pc = "remove" /\ pc' = "return" /\ cfg.age /\ faults = 0 /\ restarts = 0
        => \A n \in Backups(Found)' : \E m \in disk'[n].msgs : now - stamp[m] <= MaxAge

\* What is left when nothing more is to be removed is young.
LEMMA YoungStep ==
    ASSUME TypeInv, AgeInv, [Next]_vars
    PROVE  Young
<1> SUFFICES ASSUME pc = "remove", pc' = "return", cfg.age, faults = 0, restarts = 0,
                    NEW n \in Backups(Found)'
             PROVE  \E m \in disk'[n].msgs : now - stamp[m] <= MaxAge
  BY DEF Young
<1>1. Pruned
  BY DEF Next, Construct, Remove, Constructed, Open, WriteBody, WriteNewline, RotateStable,
         RotateIndexed, Gzip, GzipCreate, GzipCopy, GzipRename, GzipStamp, GzipDrop, GzipFails, Step,
         Prune, Return, Crash, Tick, frame, process, vars
<1>2. AgeBody /\ doom = {} /\ UNCHANGED <<disk, cfg, index>>
  BY <1>1 DEF AgeInv, Pruned, process
<1>3. n \in Backups(Found)
  BY <1>2 DEF Backups, Rotated, Listed, Found, Exists, liveFileName
<1>4. n \in Indexed /\ Exists(n) /\ n \in Data /\ n \in Names
  BY <1>3, IndexedFacts, DataFacts DEF Backups, Rotated, Listed, Found, Indexed
<1>5. PICK x \in disk[n].msgs : stamp[x] >= disk[n].mtime
  BY <1>2, <1>4 DEF AgeBody, Dated
<1>6. disk[n].mtime >= now - MaxAge
  BY <1>2, <1>3 DEF AgeBody
<1>7. disk[n].mtime \in Nat /\ stamp[x] \in Nat /\ now \in Nat /\ MaxAge \in Nat
  BY <1>4, <1>5, FileFields, Params DEF Fields
<1>8. now - stamp[x] <= MaxAge
  BY <1>5, <1>6, <1>7
<1>9. QED
  BY <1>2, <1>5, <1>8

\* A prune leaves no backup whose newest message is past WithMaxAge: rotation and
\* compression keep the modification times it goes by those of the newest message.
THEOREM BackupsStayYoung == Spec => NothingOverAge
<1>1. Init => StampInv /\ AgeInv
  BY LastInit, AgeInit
<1>2. TypeInv /\ TypeInv' /\ StampInv /\ [Next]_vars => StampInv'
  BY StampStep
<1>3. TypeInv /\ StampInv /\ AgeInv /\ [Next]_vars => AgeInv'
  BY AgeStep
<1>4. TypeInv /\ AgeInv /\ [Next]_vars => Young
  BY YoungStep
<1>5. Spec => [][Young]_vars
  BY <1>1, <1>2, <1>3, <1>4, TypeInvAlways, PTL DEF Spec
<1>6. QED
  BY <1>5 DEF Young, NothingOverAge
=============================================================================
