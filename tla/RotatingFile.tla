---------------------------- MODULE RotatingFile ----------------------------
(***************************************************************************)
(* RotatingFileHandler of src/handler.go: one process that appends to the  *)
(* live file of a folder, rotates it when it outgrows the cap, optionally  *)
(* compresses the rotated file, prunes old ones, and may die between any   *)
(* two changes it makes to the folder; the next process resumes from what  *)
(* it finds.  Every action changes the folder at most once.                *)
(*                                                                         *)
(* File names are records: kind "log", "gz", "tmp" with the rotation index *)
(* (prefix.<idx>.log, .log.gz, .log.gz.tmp) and "live" for the prefix.log  *)
(* of WithStableCurrentName.  Contents are the numbers of the messages.    *)
(* A message of size s is a trimmed body of s - 1 bytes and a newline.     *)
(* A file operation may fail with an error, which Write returns, or, when  *)
(* the folder is read, without one.                                        *)
(***************************************************************************)
EXTENDS Integers, FiniteSets, FiniteSetsExt

CONSTANTS
    Scenarios,      \* what may happen in a behaviour, see AllScenarios
    MaxFileSize, MaxAge,
    Sizes,          \* message sizes
    Absent,
    MaxIndex,       \* bound: rotation indices
    MaxMsgs         \* bound: messages

Options == [fresh : BOOLEAN, stable : BOOLEAN, age : BOOLEAN, compress : BOOLEAN]

\* A scenario is the options a process may be started with, whether a restart may
\* change more of them than fresh, maxFiles, and the bounds of a behaviour: its
\* messages, process deaths, failing file operations and ticks of the clock.  In a
\* blind one the operations that may fail include those whose errors the code drops.
AllScenarios ==
    [configs : SUBSET Options, toggle : BOOLEAN, blind : BOOLEAN, maxFiles : Nat,
     msgs : 0..MaxMsgs, deaths : Nat, faults : Nat, ticks : Nat]

ASSUME RotatingFileAssumption ==
    /\ Scenarios \subseteq AllScenarios /\ Scenarios # {}
    /\ \A s \in Scenarios : s.configs # {} /\ (s.blind => s.faults > 0)
    /\ {MaxFileSize, MaxAge, MaxIndex, MaxMsgs} \subseteq Nat
    /\ Sizes \subseteq Nat \ {0, 1} /\ IsFiniteSet(Sizes) /\ Sizes # {}
    /\ Absent \notin [msgs : SUBSET (1..MaxMsgs), size : Nat, mtime : Nat]

VARIABLES
    scenario,
    disk,       \* name -> file or Absent
    pc,
    cfg,        \* options of the running process
    index, fileSize, seedErr,   \* the handler's state
    err,        \* an error was met in the Write in progress
    size,       \* size of the message being written
    l,          \* bytes counted in the Write in progress
    gzIdx,      \* index being compressed
    doom,       \* files still to be removed
    nextMsg, written, stamp,    \* history: message numbers, when written
    unreported,                 \* history: an error no Write has returned yet
    now, restarts, faults

process == <<cfg, index, fileSize, seedErr>>
frame == <<err, size, l, gzIdx>>
elapsed == <<scenario, now, restarts>>
failures == <<faults, unreported>>
bounds == <<elapsed, failures>>
history == <<nextMsg, written, stamp>>
vars == <<disk, pc, process, frame, doom, history, bounds>>

-----------------------------------------------------------------------------
(* The folder *)

Indices == 1..MaxIndex
Name(kind, idx) == [kind |-> kind, idx |-> idx]
Live == Name("live", 0)
Names == {Name(k, i) : k \in {"log", "gz", "tmp"}, i \in Indices} \cup {Live}

Exists(n) == disk[n] # Absent
Found == {n \in Names : Exists(n)}
SizeOf(n) == IF Exists(n) THEN disk[n].size ELSE 0
Empty == [msgs |-> {}, size |-> 0, mtime |-> now]

\* What the program sees of the folder when it reads it: all that is there, or less if
\* directory reads or stats fail.  filepath.Glob drops the errors of the first; of the
\* second, backupExists, listBackups and reconcileCompressed do.
Sights == IF scenario.blind THEN SUBSET Found ELSE {Found}
Missed(seen) == IF seen = Found THEN 0 ELSE 1
Listed(kind, seen) == {n \in seen : n.kind = kind}

\* globRotation filtered by parseRotationIndex: the indexed files.
Rotated(includeGz, seen) ==
    Listed("log", seen) \cup IF includeGz THEN Listed("gz", seen) ELSE {}

liveFileName == IF cfg.stable THEN Live ELSE Name("log", index)

\* Position in the lexical order of the *.log names: prefix.log comes last.
LexRank(n) == IF n = Live THEN MaxIndex + 1 ELSE n.idx

\* A stat that fails is taken for a free index.
backupExists(i, includeGz, seen) ==
    Name("log", i) \in seen \/ (includeGz /\ Name("gz", i) \in seen)

\* What a reader of the folder finds.
Readable == UNION {disk[n].msgs : n \in {x \in Names : x.kind # "tmp" /\ Exists(x)}}

MaxFiles == scenario.maxFiles

\* In one step n file operations fail; of Unnoticed the code drops the errors.
Faults(n) == faults + n <= scenario.faults /\ faults' = faults + n /\ unreported' = TRUE
Fault == Faults(1)
Unnoticed(n) == faults + n <= scenario.faults /\ faults' = faults + n /\ UNCHANGED unreported

-----------------------------------------------------------------------------
Init ==
    /\ disk = [n \in Names |-> Absent]
    /\ pc = "down"
    /\ scenario \in Scenarios /\ cfg \in scenario.configs
    /\ index = 1 /\ fileSize = 0 /\ seedErr = FALSE
    /\ err = FALSE /\ size = 0 /\ l = 0 /\ gzIdx = 0 /\ doom = {}
    /\ nextMsg = 1 /\ written = {} /\ stamp = [m \in 1..MaxMsgs |-> 0]
    /\ unreported = FALSE
    /\ now = 0 /\ restarts = 0 /\ faults = 0

\* Mutants: counts the files; resumes a compressed index.
ResumeIndexCount(c, seen) ==
    LET found == Cardinality({n.idx : n \in Rotated(c.compress, seen)})
    IN  IF found = 0 THEN 1 ELSE found

ResumeIndexOfGz(c, seen) ==
    LET found == {n.idx : n \in Rotated(c.compress, seen)}
    IN  IF found = {} THEN 1 ELSE IF c.stable THEN Max(found) + 1 ELSE Max(found)

\* resumeRotation: the index, the file and the size to continue with.
ResumeIndex(c, seen) ==
    LET found == {n.idx : n \in Rotated(c.compress, seen)}
        highest == Max(found)
    IN  IF found = {} THEN 1
        ELSE IF c.stable \/ (c.compress /\ Name("gz", highest) \in seen)
             THEN highest + 1 ELSE highest

ResumeFile(c, seen) == IF c.stable THEN Live ELSE Name("log", ResumeIndex(c, seen))

\* Mutants: the counter starts from nothing; it leaves out the last newline.
ResumeSizeZero(c, seen) == 0

ResumeSizeTrimmed(c, seen) == SizeOf(ResumeFile(c, seen)) - 1

\* The live file of a stable name is looked up whatever the listing has shown.
ResumeSize(c, seen) ==
    IF c.stable \/ ResumeFile(c, seen) \in seen THEN SizeOf(ResumeFile(c, seen)) ELSE 0

\* resetRotation: everything of this ring.
ResetDoom(c, seen) ==
    Rotated(c.compress, seen)
    \cup (IF c.stable /\ Exists(Live) THEN {Live} ELSE {})
    \cup (IF c.compress THEN Listed("tmp", seen) ELSE {})

\* reconcileCompressed: stale temps, and plaintexts beside a .gz.
ReconcileDoom(c, seen) ==
    IF c.compress
    THEN Listed("tmp", seen) \cup {n \in Listed("log", seen) : Name("gz", n.idx) \in seen}
    ELSE {}

StartFresh(c) ==
    \E seen \in Sights :
        /\ index' = 1 /\ fileSize' = 0 /\ seedErr' = FALSE
        /\ doom' = ResetDoom(c, seen) /\ written' = {}
        /\ Unnoticed(Missed(seen))

\* The stat of the file to resume is the one whose error is kept for the first Write.
Resume(c) ==
    \E seen \in Sights, listed \in IF c.compress THEN Sights ELSE {Found} :
        /\ index' = ResumeIndex(c, seen)
        /\ doom' = ReconcileDoom(c, listed) /\ UNCHANGED written
        /\ \/ /\ fileSize' = ResumeSize(c, seen) /\ seedErr' = FALSE
              /\ Unnoticed(Missed(seen) + Missed(listed))
           \/ /\ c.stable \/ ResumeFile(c, seen) \in seen
              /\ fileSize' = 0 /\ seedErr' = TRUE
              /\ Faults(1 + Missed(seen) + Missed(listed))

Construct ==
    /\ pc = "down"
    /\ \E c \in scenario.configs :
        /\ scenario.toggle \/ c = [cfg EXCEPT !.fresh = c.fresh]
        /\ cfg' = c
        /\ IF c.fresh THEN StartFresh(c) ELSE Resume(c)
    /\ index' <= MaxIndex
    /\ pc' = "construct"
    /\ UNCHANGED <<disk, frame, nextMsg, stamp, elapsed>>

\* The order of removals: reset goes through the indexed files in glob order,
\* then the live file and the temps; reconcile takes the temps first; pruning takes
\* the backups past their age, then the others, each from the oldest index on and
\* plaintext before .gz.
RemovalRank(n) ==
    LET kind == CASE n.kind = "log" -> 1 [] n.kind = "gz" -> 2 [] n.kind = "live" -> 3
                  [] OTHER -> IF cfg.fresh THEN 4 ELSE 0
        expired == \A m \in doom : m.idx = n.idx => disk[m].mtime < now - MaxAge
    IN  IF pc = "construct" THEN kind * (MaxIndex + 1) + n.idx
        ELSE LexRank(n) * 4 + kind + IF cfg.age /\ ~ expired THEN (MaxIndex + 2) * 4 ELSE 0

NextDoomed == CHOOSE n \in doom : \A m \in doom : RemovalRank(n) <= RemovalRank(m)

Remove(from) ==
    /\ pc = from /\ doom # {}
    /\ doom' = doom \ {NextDoomed}
    /\ \/ disk' = [disk EXCEPT ![NextDoomed] = Absent] /\ UNCHANGED <<err, seedErr, failures>>
       \/ /\ Fault /\ UNCHANGED disk
          /\ IF from = "construct" THEN seedErr' = TRUE /\ UNCHANGED err
             ELSE err' = TRUE /\ UNCHANGED seedErr
    /\ UNCHANGED <<pc, cfg, index, fileSize, size, l, gzIdx, history, elapsed>>

Constructed ==
    /\ pc = "construct" /\ doom = {}
    /\ pc' = "idle"
    /\ UNCHANGED <<disk, process, frame, doom, history, bounds>>

-----------------------------------------------------------------------------
(* The Write closure *)

\* Mutant: what went wrong at the construction is forgotten.
OpenForgetting ==
    /\ pc = "idle" /\ nextMsg <= scenario.msgs
    /\ seedErr' = FALSE
    /\ size' \in Sizes /\ err' = FALSE /\ l' = 0
    /\ disk' = IF Exists(liveFileName) THEN disk ELSE [disk EXCEPT ![liveFileName] = Empty]
    /\ pc' = "body"
    /\ UNCHANGED <<cfg, index, fileSize, gzIdx, doom, history, bounds>>

\* Write opens (and creates) the live file; a failure ends it with (0, err).
Open ==
    /\ pc = "idle" /\ nextMsg <= scenario.msgs
    /\ seedErr' = FALSE
    /\ \/ /\ \E s \in Sizes : size' = s
          /\ err' = seedErr /\ l' = 0
          /\ disk' = IF Exists(liveFileName) THEN disk
                     ELSE [disk EXCEPT ![liveFileName] = Empty]
          /\ pc' = "body"
          /\ UNCHANGED failures
       \/ /\ faults < scenario.faults /\ faults' = faults + 1 /\ unreported' = FALSE
          /\ UNCHANGED <<disk, pc, err, size, l>>
    /\ UNCHANGED <<cfg, index, fileSize, gzIdx, doom, history, elapsed>>

Grown(n, msgs, bytes) ==
    [disk EXCEPT ![n] = [msgs |-> @.msgs \cup msgs, size |-> @.size + bytes, mtime |-> now]]

\* A failing write may leave some bytes behind and counts none of them.
WriteBody ==
    /\ pc = "body"
    /\ nextMsg' = nextMsg + 1
    /\ stamp' = [stamp EXCEPT ![nextMsg] = now]
    /\ \/ /\ disk' = Grown(liveFileName, {nextMsg}, size - 1)
          /\ l' = size - 1
          /\ written' = written \cup {nextMsg}
          /\ UNCHANGED <<err, failures>>
       \/ /\ Fault /\ err' = TRUE
          /\ \E k \in 0..(size - 2) : disk' = Grown(liveFileName, {}, k)
          /\ UNCHANGED <<l, written>>
    /\ pc' = "newline"
    /\ UNCHANGED <<process, size, gzIdx, doom, elapsed>>

\* Mutant: the counter holds the last message only.
WriteNewlineUncounted ==
    /\ pc = "newline"
    /\ disk' = Grown(liveFileName, {}, 1) /\ l' = l + 1
    /\ fileSize' = l'
    /\ pc' = IF fileSize' > MaxFileSize THEN "rotate" ELSE "return"
    /\ UNCHANGED <<err, failures, cfg, index, seedErr, size, gzIdx, doom, history, elapsed>>

\* The newline, the close, which may fail as well, and the decision to rotate.
WriteNewline ==
    /\ pc = "newline"
    /\ \/ /\ disk' = Grown(liveFileName, {}, 1) /\ l' = l + 1
          /\ UNCHANGED <<err, failures>> \/ (Fault /\ err' = TRUE)
       \/ /\ Fault \/ Faults(2)
          /\ err' = TRUE /\ UNCHANGED <<disk, l>>
    /\ fileSize' = fileSize + l'
    /\ pc' = IF fileSize' > MaxFileSize THEN "rotate" ELSE "return"
    /\ UNCHANGED <<cfg, index, seedErr, size, gzIdx, doom, history, elapsed>>

\* Mutant: the index is neither checked nor advanced.
RotateStableInPlace ==
    /\ pc = "rotate" /\ cfg.stable
    /\ disk' = [disk EXCEPT ![Name("log", index)] = disk[Live], ![Live] = Absent]
    /\ pc' = IF cfg.compress THEN "gzip" ELSE "prune"
    /\ gzIdx' = index /\ fileSize' = 0
    /\ UNCHANGED <<cfg, index, seedErr, err, size, l, doom, history, bounds>>

\* rotate under WithStableCurrentName: the live file becomes the next backup, unless
\* its stat or its rename fails.
RotateStable ==
    /\ pc = "rotate" /\ cfg.stable
    /\ \E seen \in Sights, i \in Indices :
        /\ i >= index /\ ~ backupExists(i, cfg.compress, seen)
        /\ \A j \in index..(i - 1) : backupExists(j, cfg.compress, seen)
        /\ index' = i + 1
        /\ \/ /\ disk' = [disk EXCEPT ![Name("log", i)] = disk[Live], ![Live] = Absent]
              /\ pc' = IF cfg.compress THEN "gzip" ELSE "prune"
              /\ gzIdx' = i
              /\ Unnoticed(Missed(seen)) /\ UNCHANGED err
           \/ /\ Faults(1 + Missed(seen)) /\ err' = TRUE
              /\ pc' = "prune"
              /\ UNCHANGED <<disk, gzIdx>>
    /\ fileSize' = 0
    /\ UNCHANGED <<cfg, seedErr, size, l, doom, history, elapsed>>

\* rotate of an indexed handler: the next index, its size taken from disk.
RotateIndexed ==
    /\ pc = "rotate" /\ ~ cfg.stable
    /\ index < MaxIndex
    /\ index' = index + 1
    /\ \/ fileSize' = SizeOf(Name("log", index')) /\ UNCHANGED <<err, failures>>
       \/ fileSize' = 0 /\ Fault /\ err' = TRUE
    /\ gzIdx' = index
    /\ pc' = IF cfg.compress THEN "gzip" ELSE "prune"
    /\ UNCHANGED <<disk, cfg, seedErr, size, l, doom, history, elapsed>>

-----------------------------------------------------------------------------
(* compressFile; an error leaves the plaintext and removes the temp *)

src == Name("log", gzIdx)
dst == Name("gz", gzIdx)
tmp == Name("tmp", gzIdx)

Step(from, to) ==
    /\ pc = from /\ pc' = to
    /\ UNCHANGED <<process, size, l, gzIdx, doom, history, elapsed>>

\* O_EXCL: a temp that is already there is an error, as are a stat and an open that fail.
GzipCreate ==
    \/ /\ Step("gzip", "gzcopy")
       /\ ~ Exists(tmp)
       /\ disk' = [disk EXCEPT ![tmp] = Empty]
       /\ UNCHANGED <<err, failures>>
    \/ /\ Step("gzip", "prune")
       /\ (Exists(tmp) /\ UNCHANGED failures) \/ Fault
       /\ err' = TRUE /\ UNCHANGED disk

\* Mutant: the plaintext goes with the temp.
GzipFailsDroppingSource(from) ==
    /\ Step(from, "prune")
    /\ Fault /\ err' = TRUE
    /\ disk' = [disk EXCEPT ![tmp] = Absent, ![src] = Absent]

\* The removal of the temp may fail as well.
GzipFails(from) ==
    /\ Step(from, "prune")
    /\ err' = TRUE
    /\ \/ Fault /\ disk' = [disk EXCEPT ![tmp] = Absent]
       \/ Faults(2) /\ UNCHANGED disk

GzipCopy ==
    \/ /\ Step("gzcopy", "gzrename")
       /\ disk' = [disk EXCEPT ![tmp] = [disk[src] EXCEPT !.mtime = now]]
       /\ UNCHANGED <<err, failures>>
    \/ GzipFails("gzcopy")

GzipRename ==
    \/ /\ Step("gzrename", "gzstamp")
       /\ disk' = [disk EXCEPT ![dst] = disk[tmp], ![tmp] = Absent]
       /\ UNCHANGED <<err, failures>>
    \/ GzipFails("gzrename")

\* Mutant: the .gz keeps the time of the compression.
GzipUnstamped == Step("gzstamp", "gzdrop") /\ UNCHANGED <<disk, err, failures>>

GzipStamp ==
    /\ Step("gzstamp", "gzdrop")
    /\ \/ disk' = [disk EXCEPT ![dst].mtime = disk[src].mtime] /\ UNCHANGED <<err, failures>>
       \/ Fault /\ err' = TRUE /\ UNCHANGED disk

GzipDrop ==
    /\ Step("gzdrop", "prune")
    /\ \/ disk' = [disk EXCEPT ![src] = Absent] /\ UNCHANGED <<err, failures>>
       \/ Fault /\ err' = TRUE /\ UNCHANGED disk

-----------------------------------------------------------------------------
(* Pruning *)

\* The n elements of S of the lowest rank.
Oldest(S, n, rank(_)) == {x \in S : Cardinality({y \in S : rank(y) < rank(x)}) < n}

\* verifyFiles: every *.log file, oldest first, down to MaxFiles.
VerifyDoom(seen) ==
    LET files == Listed("log", seen) \cup Listed("live", seen)
    IN  Oldest(files, Cardinality(files) - MaxFiles, LexRank)

\* listBackups: the indexed files except the live one.
Backups(seen) == Rotated(cfg.compress, seen) \ {liveFileName}

\* Mutant: the live file is not counted.
PruneDoomOneMore(seen) ==
    LET paths(i) == {n \in Backups(seen) : n.idx = i}
        indices == {n.idx : n \in Backups(seen)}
    IN  UNION {paths(i) : i \in Oldest(indices, Cardinality(indices) - MaxFiles, LAMBDA i : i)}

\* pruneRotation: backups past their age, then all but the newest MaxFiles - 1.
PruneDoom(seen) ==
    LET paths(i) == {n \in Backups(seen) : n.idx = i}
        indices == {n.idx : n \in Backups(seen)}
        mtime(i) == Max({disk[n].mtime : n \in paths(i)})
        expired == {i \in indices : cfg.age /\ mtime(i) < now - MaxAge}
        survivors == indices \ expired
        keep == IF MaxFiles = 0 THEN 0 ELSE MaxFiles - 1
        counted == Oldest(survivors, Cardinality(survivors) - keep, LAMBDA i : i)
    IN  UNION {paths(i) : i \in expired \cup counted}

ZeroOption(c) == ~ (c.stable \/ c.age \/ c.compress)

Prune ==
    /\ pc = "prune"
    /\ \E seen \in Sights :
        /\ doom' = IF ZeroOption(cfg) THEN VerifyDoom(seen) ELSE PruneDoom(seen)
        /\ Unnoticed(Missed(seen))
    /\ pc' = "remove"
    /\ UNCHANGED <<disk, process, frame, history, elapsed>>

Pruned ==
    /\ pc = "remove" /\ doom = {}
    /\ pc' = "return"
    /\ UNCHANGED <<disk, process, frame, doom, history, bounds>>

\* Write returns l and the joined errors.
Return ==
    /\ pc = "return"
    /\ pc' = "idle"
    /\ err' = FALSE /\ size' = 0 /\ l' = 0 /\ gzIdx' = 0
    /\ unreported' = (unreported /\ ~ err)
    /\ UNCHANGED <<disk, process, doom, history, elapsed, faults>>

-----------------------------------------------------------------------------
\* The process dies, wherever it is; the folder is all that is left.
Crash ==
    /\ pc # "down" /\ restarts < scenario.deaths
    /\ restarts' = restarts + 1
    /\ pc' = "down"
    /\ index' = 1 /\ fileSize' = 0 /\ seedErr' = FALSE /\ unreported' = FALSE
    /\ err' = FALSE /\ size' = 0 /\ l' = 0 /\ gzIdx' = 0 /\ doom' = {}
    /\ UNCHANGED <<scenario, disk, cfg, history, now, faults>>

\* Time passes, but not between a message and its newline, nor while files are
\* removed: pruning works with the time at which it began.
Tick ==
    /\ now < scenario.ticks /\ pc \notin {"newline", "remove"}
    /\ now' = now + 1
    /\ UNCHANGED <<scenario, disk, pc, process, frame, doom, history, restarts, failures>>

Gzip == GzipCreate \/ GzipCopy \/ GzipRename \/ GzipStamp \/ GzipDrop

Next ==
    \/ Construct \/ Remove("construct") \/ Constructed
    \/ Open \/ WriteBody \/ WriteNewline \/ RotateStable \/ RotateIndexed
    \/ Gzip \/ Prune \/ Remove("remove") \/ Pruned \/ Return
    \/ Crash \/ Tick

Spec == Init /\ [][Next]_vars

-----------------------------------------------------------------------------
Files == [msgs : SUBSET (1..MaxMsgs), size : Nat, mtime : 0..scenario.ticks]

\* Every variable has its type: the folder, and the closure's variables.
TypeOK ==
    /\ scenario \in Scenarios
    /\ disk \in [Names -> Files \cup {Absent}]
    /\ pc \in {"down", "construct", "idle", "body", "newline", "rotate", "gzip", "gzcopy",
               "gzrename", "gzstamp", "gzdrop", "prune", "remove", "return"}
    /\ cfg \in scenario.configs
    /\ index \in 1..(MaxIndex + 1) /\ fileSize \in Nat /\ seedErr \in BOOLEAN
    /\ err \in BOOLEAN /\ size \in Sizes \cup {0} /\ l \in Nat
    /\ gzIdx \in 0..MaxIndex /\ doom \subseteq Names
    /\ nextMsg \in 1..(scenario.msgs + 1) /\ written \subseteq 1..scenario.msgs
    /\ stamp \in [1..MaxMsgs -> 0..scenario.ticks] /\ unreported \in BOOLEAN
    /\ now \in 0..scenario.ticks /\ restarts \in 0..scenario.deaths
    /\ faults \in 0..scenario.faults

\* The folder is a ring (LogRing): through rotation, compression, pruning,
\* deaths and restarts it gives up only the oldest data and never the newest,
\* as long as no file operation fails and no age limit takes more away.
HasRing == scenario.faults = 0 /\ \A c \in scenario.configs : ~ c.age

Ring == INSTANCE LogRing WITH
    Messages <- 1..MaxMsgs,
    written <- IF HasRing THEN written ELSE {},
    retained <- IF HasRing THEN Readable \cap written ELSE {}

IsRing == Ring!Spec

\* The same as a state predicate: "resume and preserve prior content across
\* restarts" unless WithFreshStart is given.
RetainedIsSuffix == Ring!Suffix

\* A fresh start may fail to remove a file, which then has a higher index than the
\* new ones; a handler that misses what is there may resume at an old index.
OutOfOrder == scenario.blind \/ (scenario.faults > 0 /\ \E c \in scenario.configs : c.fresh)

TooOld(m) == cfg.age /\ stamp[m] < now - MaxAge

\* A message that reached the disk is there at least until the next one is written or
\* it is too old, whatever is renamed, compressed or pruned, fails with an error or dies.
NewestSurvives ==
    ~ OutOfOrder /\ nextMsg - 1 \in written
        => nextMsg - 1 \in Readable \/ TooOld(nextMsg - 1)

\* The newest of those that reached the disk goes if writes fail half-way after it: what
\* they leave behind fills a file without any message.
NewestOfAllSurvives ==
    ~ OutOfOrder /\ written # {} => Max(written) \in Readable \/ TooOld(Max(written))

\* An error the handler is given is not lost on the way through its closures: if opening,
\* writing, closing, renaming, compressing, stamping or removing a file fails, or the stat
\* of the file it resumes or rotates into, Write returns an error, at once, or on the first
\* Write if that was while the handler was constructed; also when directory reads and the
\* stats of backups fail around it, whose errors are dropped (Unnoticed) and which no
\* Write returns.
FaultsReported == unreported => err \/ seedErr

\* The size counter is the size of the file it stands for, whatever way the
\* handler came to write to that file: created, resumed or rotated into.
SizeCounterExact ==
    pc = "idle" /\ faults = 0 => fileSize = SizeOf(liveFileName)

\* No file outgrows the cap by more than one message, and one more for each
\* time the process died between appending and rotating; an operation that
\* fails (a rename, a write of which some bytes got through, a listing of the folder that
\* misses the file to resume) may add as much.
FileSizeBounded ==
    \A n \in Names : n.kind # "gz" =>
        SizeOf(n) <= (MaxFileSize + Max(Sizes)) * (faults + 1) + Max(Sizes) * restarts

\* A plaintext beside its .gz holds nothing the .gz does not: what makes it
\* right for reconcileCompressed to discard it.  It takes a fresh start that fails
\* to remove a .gz, whose index is then used again, to break it (FreshGz), or a .gz that
\* backupExists does not see.
GzIsComplete ==
    ~ scenario.blind => \A i \in Indices :
        Exists(Name("log", i)) /\ Exists(Name("gz", i))
            => disk[Name("log", i)].msgs \subseteq disk[Name("gz", i)].msgs

\* No rename lands on a file with other content, as long as no stat fails unnoticed.
ContentOnlyGrows ==
    [][\A n \in Names : n.kind # "tmp" /\ Exists(n) /\ Exists(n)' /\ ~ scenario.blind
            => disk[n].msgs \subseteq disk'[n].msgs]_vars

\* "On construction the handler resumes at the highest existing index" and "Any stat/glob
\* error encountered while resolving the resume point is stashed and joined into the first
\* Write's return value" (handler.go:215-226): so one of the two.  A directory read that
\* fails is neither: the listing is empty and the handler starts at 1.
ResumesAtHighest ==
    [][pc = "down" /\ pc' = "construct" /\ ~ cfg'.fresh
        => seedErr' \/ \A i \in Indices : Exists(Name("log", i)) => i <= index']_vars

LogFiles == {LexRank(n) : n \in {x \in Names : x.kind # "tmp" /\ Exists(x)}}

\* "no more than the configured maximum remain in folder": between writes, with
\* a .log/.log.gz pair counting as one file.  With no option given the prune runs
\* before the next live file exists, which makes one more, as does every death
\* before a prune, every file that could not be removed and every prune that did not
\* see all of them.
FilesBoundedAtRest ==
    pc = "idle" => Cardinality(LogFiles)
        <= MaxFiles + restarts + faults + IF ZeroOption(cfg) THEN 1 ELSE 0

\* After a prune every backup left holds a message younger than WithMaxAge: the
\* modification times pruning goes by are the times of the newest message, also
\* those of .gz files, as long as the process does not die while compressing.
NothingOverAge ==
    [][pc = "remove" /\ pc' = "return" /\ cfg.age /\ faults = 0 /\ restarts = 0
        => \A n \in Backups(Found)' : \E m \in disk'[n].msgs : now - stamp[m] <= MaxAge]_vars

-----------------------------------------------------------------------------
(* What the options must be for the folder to keep the promise of LogRing,  *)
(* and compressed backups to be complete                                    *)

\* No fresh start of a compressing handler meets a failing removal or listing.
CleanFresh == \A s \in Scenarios : s.faults = 0 \/ \A c \in s.configs : ~ (c.fresh /\ c.compress)

\* No process compresses while another of the same folder does not.
NoToggle == \A s \in Scenarios : ~ s.toggle

\* Every handler keeps a backup beside the file it will write to: one file is enough
\* only for the prune of a handler without options, which comes before that file.
Roomy ==
    \A s \in Scenarios :
        /\ s.maxFiles >= 1
        /\ \A c \in s.configs : ~ ZeroOption(c) => s.maxFiles >= 2

\* Every handler with an option may keep the file it writes to.
KeepsLive == \A s \in Scenarios : \A c \in s.configs : ZeroOption(c) \/ s.maxFiles >= 1
=============================================================================
