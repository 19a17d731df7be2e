---------------------------- MODULE SharedFolder ----------------------------
(***************************************************************************)
(* One folder written by several handlers of src/handler.go at once:       *)
(* FileByFormatHandler and RotatingFileHandlers without options, each of a *)
(* prefix of its own.  A Write of one handler excludes another of the same *)
(* handler (its mutex), not of another handler.  Both kinds prune the      *)
(* folder with verifyFiles, which counts and removes the *.log files of    *)
(* everybody, in lexical order.                                            *)
(*                                                                         *)
(* Handlers are numbered in the order their names sort.  A file name is    *)
(* the handler and a key: the index of a rotating handler, the place of a  *)
(* generated name among the names of a by-format handler.  A file is the   *)
(* set of its handler's message numbers in it.  A handler writes to the    *)
(* file it opened also when that has been removed in between: only itself  *)
(* could have created it again, so what it writes then is lost.            *)
(*                                                                         *)
(* The folder's name is part of a glob pattern.  One with metacharacters   *)
(* in it matches nothing, or a sibling folder ("logs[1]" matches "logs1"). *)
(***************************************************************************)
EXTENDS Integers, FiniteSets, FiniteSetsExt

CONSTANTS
    Handlers,       \* a set of naturals
    Kinds,          \* the kinds of handler: a subset of AllKinds
    Limit,          \* handler -> maxFiles or maxFilesInFolder
    Places,         \* what a folder's name matches: a subset of AllPlaces
    Recurring,      \* period -> key, for names such as weekdays
    Absent,
    MaxMsgs,        \* bound: messages of one handler
    MaxRestarts     \* bound: process deaths

AllKinds == {"rotating", "dated", "recurring"}
AllPlaces == {"itself", "nothing", "sibling"}
Periods == DOMAIN Recurring

ASSUME SharedFolderAssumption ==
    /\ Handlers \subseteq Nat /\ IsFiniteSet(Handlers) /\ Handlers # {}
    /\ Kinds \subseteq AllKinds /\ Kinds # {}
    /\ Places \subseteq AllPlaces /\ Places # {}
    /\ Limit \in [Handlers -> Nat]
    /\ IsFiniteSet(Periods) /\ Periods # {} /\ Periods = 1..Cardinality(Periods)
    /\ Recurring \in [Periods -> Periods]
    /\ \A S \in SUBSET (1..MaxMsgs) : S # Absent
    /\ MaxMsgs \in Nat /\ MaxRestarts \in Nat

VARIABLES
    kind,       \* handler -> what it is
    place,      \* what the name of the folder matches
    files,      \* name -> set of message numbers, or Absent
    pc,
    key,        \* the key of the file a handler writes to
    last,       \* lastFileName of a by-format handler (0: none yet)
    doom,       \* the files a prune has still to remove
    err,        \* the prune in progress has met an error
    next,       \* history: the next message number of a handler
    period,     \* the clock, as far as the name generators go by it
    mortal,     \* whether the process may die in this behaviour
    restarts

frames == <<pc, key, last, doom, err>>
setup == <<kind, place>>
bounds == <<mortal, restarts>>
vars == <<setup, files, frames, next, period, bounds>>

-----------------------------------------------------------------------------
(* The folder *)

Keys == 1..(MaxMsgs + Cardinality(Periods))
Names == [by : Handlers, key : Keys]
Listed == {n \in Names : files[n] # Absent}
Top == Max(Handlers)

\* The *.log files a glob comes back with.  A sibling folder is that of all
\* handlers but the last, whose own folder's name is the pattern.
Scanned == {n \in Listed : place = "itself" \/ (place = "sibling" /\ n.by # Top)}

\* sort.Strings
SortsBefore(m, n) == m.by < n.by \/ (m.by = n.by /\ m.key < n.key)

OwnFiles(h) == {n \in Listed : n.by = h}
Live(h) == [by |-> h, key |-> key[h]]

\* Mutants: one file more is kept; the last names go first.
VerifyDoomOneMore(h) ==
    {n \in Scanned : Cardinality({m \in Scanned : SortsBefore(n, m)}) > Limit[h]}

VerifyDoomLastFirst(h) ==
    {n \in Scanned : Cardinality({m \in Scanned : SortsBefore(m, n)}) >= Limit[h]}

\* verifyFiles: all but the Limit names that sort last.
VerifyDoom(h) ==
    {n \in Scanned : Cardinality({m \in Scanned : SortsBefore(n, m)}) >= Limit[h]}

-----------------------------------------------------------------------------
Init ==
    /\ kind \in [Handlers -> Kinds] /\ place \in Places
    /\ files = [n \in Names |-> Absent]
    /\ pc = [h \in Handlers |-> "down"]
    /\ key = [h \in Handlers |-> 1]
    /\ last = [h \in Handlers |-> 0]
    /\ doom = [h \in Handlers |-> {}]
    /\ err = [h \in Handlers |-> FALSE]
    /\ next = [h \in Handlers |-> 1]
    /\ period = 1 /\ mortal \in BOOLEAN /\ restarts = 0

At(h, label) == pc[h] = label
GoTo(h, label) == pc' = [pc EXCEPT ![h] = label]

OwnKeys(h) == {n.key : n \in OwnFiles(h) \cap Scanned}

\* Mutants: every process begins with the first index, or from an index of 0.
ResumeFirst(h) == 1

ResumeZero(h) == IF OwnKeys(h) = {} THEN 0 ELSE Max(OwnKeys(h))

\* resumeRotation: the highest index of the handler's own prefix.
ResumeKey(h) == IF OwnKeys(h) = {} THEN 1 ELSE Max(OwnKeys(h))

Construct(h) ==
    /\ At(h, "down")
    /\ key' = [key EXCEPT ![h] = IF kind[h] = "rotating" THEN ResumeKey(h) ELSE 1]
    /\ GoTo(h, "idle")
    /\ UNCHANGED <<setup, files, last, doom, err, next, period, bounds>>

\* The name the handler writes to now: its own index, or what the generator says.
NameKey(h) ==
    CASE kind[h] = "rotating" -> key[h]
      [] kind[h] = "dated" -> period
      [] OTHER -> Recurring[period]

Open(h) ==
    /\ At(h, "idle") /\ next[h] <= MaxMsgs
    /\ key' = [key EXCEPT ![h] = NameKey(h)]
    /\ files' = IF files[Live(h)'] = Absent THEN [files EXCEPT ![Live(h)'] = {}] ELSE files
    /\ GoTo(h, "append")
    /\ UNCHANGED <<setup, last, doom, err, next, period, bounds>>

\* Body, newline and close.
Append(h) ==
    /\ At(h, "append")
    /\ files' = IF files[Live(h)] = Absent THEN files
                ELSE [files EXCEPT ![Live(h)] = @ \cup {next[h]}]
    /\ next' = [next EXCEPT ![h] = @ + 1]

\* A rotating handler prunes when the file has outgrown its cap, which one
\* message of any size may do, and has moved on to the next index by then.
AppendRotating(h) ==
    /\ kind[h] = "rotating"
    /\ Append(h)
    /\ \/ GoTo(h, "idle") /\ UNCHANGED key
       \/ GoTo(h, "glob") /\ key' = [key EXCEPT ![h] = @ + 1]
    /\ UNCHANGED <<setup, last, doom, err, period, bounds>>

\* A by-format handler prunes when the name is not the one of the last Write.
AppendByFormat(h) ==
    /\ kind[h] # "rotating"
    /\ Append(h)
    /\ GoTo(h, IF last[h] = key[h] THEN "idle" ELSE "glob")
    /\ last' = [last EXCEPT ![h] = key[h]]
    /\ UNCHANGED <<setup, key, doom, err, period, bounds>>

\* The listing verifyFiles works from.
Glob(h) ==
    /\ At(h, "glob")
    /\ doom' = [doom EXCEPT ![h] = VerifyDoom(h)]
    /\ GoTo(h, "remove")
    /\ UNCHANGED <<setup, files, key, last, err, next, period, bounds>>

NextDoomed(h) == CHOOSE n \in doom[h] : \A m \in doom[h] : m = n \/ SortsBefore(n, m)

\* os.Remove, for which a file that is gone is an error.
Remove(h) ==
    /\ At(h, "remove") /\ doom[h] # {}
    /\ doom' = [doom EXCEPT ![h] = @ \ {NextDoomed(h)}]
    /\ files' = [files EXCEPT ![NextDoomed(h)] = Absent]
    /\ err' = [err EXCEPT ![h] = @ \/ files[NextDoomed(h)] = Absent]
    /\ UNCHANGED <<setup, pc, key, last, next, period, bounds>>

Return(h) ==
    /\ At(h, "remove") /\ doom[h] = {}
    /\ GoTo(h, "idle")
    /\ err' = [err EXCEPT ![h] = FALSE]
    /\ UNCHANGED <<setup, files, key, last, doom, next, period, bounds>>

Tick ==
    /\ period + 1 \in Periods
    /\ period' = period + 1
    /\ UNCHANGED <<setup, files, frames, next, bounds>>

\* The process, with all its handlers, dies.
Crash ==
    /\ mortal /\ restarts < MaxRestarts
    /\ restarts' = restarts + 1
    /\ pc' = [h \in Handlers |-> "down"]
    /\ key' = [h \in Handlers |-> 1]
    /\ last' = [h \in Handlers |-> 0]
    /\ doom' = [h \in Handlers |-> {}]
    /\ err' = [h \in Handlers |-> FALSE]
    /\ UNCHANGED <<setup, files, next, period, mortal>>

Step(h) ==
    \/ Construct(h) \/ Open(h) \/ AppendRotating(h) \/ AppendByFormat(h)
    \/ Glob(h) \/ Remove(h) \/ Return(h)

Next == (\E h \in Handlers : Step(h)) \/ Tick \/ Crash

Spec == Init /\ [][Next]_vars

-----------------------------------------------------------------------------
\* Every variable has its type.
TypeOK ==
    /\ kind \in [Handlers -> Kinds] /\ place \in Places
    /\ files \in [Names -> {Absent} \cup SUBSET (1..MaxMsgs)]
    /\ pc \in [Handlers -> {"down", "idle", "append", "glob", "remove"}]
    /\ key \in [Handlers -> Keys]
    /\ last \in [Handlers -> Keys \cup {0}]
    /\ doom \in [Handlers -> SUBSET Names]
    /\ err \in [Handlers -> BOOLEAN]
    /\ next \in [Handlers -> 1..(MaxMsgs + 1)]
    /\ period \in Periods /\ mortal \in BOOLEAN /\ restarts \in 0..MaxRestarts

Written(h) == 1..(next[h] - 1)
Retained(h) == UNION {files[n] : n \in OwnFiles(h)}

\* Names that sort in the order of time, forever: dated ones, and indexes as
\* long as no name comes back.  After a death an index does come back when two
\* others have listed the handler's files and one has removed them all before
\* the handler is constructed again; the other then removes what is new.
InOrder(h) ==
    \/ kind[h] = "dated"
    \/ kind[h] = "rotating" /\ (~ mortal \/ Cardinality(Handlers) <= 2)

\* However the prunes of several handlers interleave, with each other and with
\* a handler between opening its file and writing to it, a handler whose names
\* sort in the order of time loses its messages from the oldest on.
LossIsOldestFirst ==
    \A h \in Handlers : InOrder(h) =>
        \A x \in Retained(h), y \in Written(h) : x < y => y \in Retained(h)

\* The handler whose names sort last has a ring (LogRing) to itself: the others
\* make it shorter, and never take its newest message.  This needs maxFiles of 2
\* at least, for the file it has just opened and the one with its newest message,
\* and for dated names a process that leaves no opened file behind by dying.
HasRing == kind[Top] = "rotating" \/ (kind[Top] = "dated" /\ ~ mortal)

Ring == INSTANCE LogRing WITH
    Messages <- 1..MaxMsgs,
    written <- IF HasRing THEN Written(Top) ELSE {},
    retained <- IF HasRing THEN Retained(Top) ELSE {}

TopIsRing == Ring!Spec

FilesBounded ==
    Cardinality(Listed) <= Max({Limit[h] : h \in Handlers})
                              + Cardinality(Handlers) * (restarts + 1)

\* "the maximum number of files in the folder": between Writes there is at most
\* one file more for each handler, which it opened after the last prune, and
\* again for each time the process died before it could prune.  It takes a
\* folder whose name matches itself.
FilesBoundedAtRest ==
    place = "itself" /\ (\A h \in Handlers : pc[h] = "idle") => FilesBounded

\* The same for a folder with any name.
FilesBoundedAnywhere == (\A h \in Handlers : pc[h] = "idle") => FilesBounded

\* A prune leaves the files of other folders alone.
PrunesOwnFolder ==
    place = "sibling" => \A h \in Handlers, n \in Names :
        n \in doom[h] => (n.by = Top <=> h = Top)

\* A prune meets no error when no file operation fails.
PruneNeverFails == \A h \in Handlers : ~ err[h]

\* The message just written is in the folder.
NewestSurvives == \A h \in Handlers : pc[h] = "idle" /\ Written(h) # {}
                      => Max(Written(h)) \in Retained(h)

\* Every prune leaves two files at least.
Roomy == \A h \in Handlers : Limit[h] >= 2
=============================================================================
