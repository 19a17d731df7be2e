--------------------------- MODULE MCRotatingFile ---------------------------
(* Instances of RotatingFile for TLC: the options of the handler.          *)
EXTENDS RotatingFile

Plain == [fresh |-> FALSE, stable |-> FALSE, age |-> FALSE, compress |-> FALSE]
Stable == [Plain EXCEPT !.stable = TRUE]
Compressed == [Plain EXCEPT !.compress = TRUE]
StableCompressed == [Stable EXCEPT !.compress = TRUE]
Fresh(c) == [c EXCEPT !.fresh = TRUE]
Aged(c) == [c EXCEPT !.age = TRUE]

Scenario(configs, maxFiles, msgs, deaths, fails, ticks) ==
    [configs |-> configs, toggle |-> FALSE, blind |-> FALSE, maxFiles |-> maxFiles,
     msgs |-> msgs, deaths |-> deaths, faults |-> fails, ticks |-> ticks]

\* Every kind of rotation and prune, each with and without WithFreshStart,
\* through two deaths.
Rings == {Plain, Compressed, StableCompressed}
Restarts == Scenario(Rings \cup {Fresh(c) : c \in Rings}, 2, 6, 2, 0, 0)

\* The configurations in which a backup is renamed or compressed, with a death
\* and two failing operations.
Failures == Scenario({Compressed, StableCompressed}, 3, 5, 1, 2, 0)

\* A fresh start that fails to remove a file.
FreshFailures == Scenario({Plain, Stable, Fresh(Plain), Fresh(Stable)}, 2, 4, 1, 1, 0)

\* Writes that fail half-way and fill a file beyond the cap.
TornWrites == Scenario({Plain, Stable}, 2, 5, 1, 2, 0)

\* Every opt-in prune, with and without an age limit, against the clock.
Prunes == Scenario({Stable, Compressed, StableCompressed,
                    Aged(Plain), Aged(Compressed), Aged(StableCompressed)}, 3, 5, 0, 0, 3)

\* Directory reads and stats that fail unnoticed.
Blindness == [Scenario({Plain, Fresh(Plain), StableCompressed}, 2, 4, 1, 2, 0)
              EXCEPT !.blind = TRUE]

AllScenariosChecked == {Restarts, Failures, FreshFailures, TornWrites, Prunes, Blindness}

\* A handler that may fail to read the folder it resumes in.
Unlisted == {[Scenario({Plain, Stable, StableCompressed}, 2, 4, 1, 2, 0) EXCEPT !.blind = TRUE]}

\* WithCompress given in some runs of the process and not in others.
Toggled == {[Scenario({Plain, Compressed}, 3, 5, 2, 0, 0) EXCEPT !.toggle = TRUE]}

\* One file in the folder: the live one, whose rotation is the end of its data.
Single == {Scenario({Stable, Compressed}, 1, 3, 0, 0, 0)}

\* A fresh start of a compressing handler that may fail to remove a file.
FreshGz == {Scenario({Compressed, Fresh(Compressed)}, 3, 5, 2, 1, 0)}

TwoSizes == {2, 4}

\* What the theorems about RotatingFile assume, these scenarios satisfy.
ASSUME CheckedIsProved ==
    Scenarios = AllScenariosChecked => CleanFresh /\ NoToggle /\ Roomy /\ KeepsLive
=============================================================================
