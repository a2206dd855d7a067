------------------------------ MODULE WorkQueue ------------------------------
(***************************************************************************)
(* The conformance runner of Conform/Main.lean: the selected tests of each *)
(* fixture file are split into work units, worker threads take them from a *)
(* shared queue, and main collects what the workers have.                  *)
(*                                                                         *)
(* A test is a file and its number among the selected tests of the file;   *)
(* what a test does is one of three outcomes: it passes, it fails, or it   *)
(* cannot be parsed.                                                       *)
(***************************************************************************)
EXTENDS Naturals, Sequences, FiniteSets, SequencesExt

CONSTANTS
    File,         \* fixture files
    Slow,         \* those with performance tests, whose units go first
    ThreadCounts, \* values of the command-line argument
    Selections,   \* the number of selected tests of each file
    FileSize,     \* bytes of each file
    FileTests,    \* tests of each file, selected or not
    LargeFile     \* the size above which a file is split

QueueAssumption ==
    /\ IsFiniteSet(File)
    /\ Slow \subseteq File
    /\ ThreadCounts \subseteq Nat
    /\ Selections \subseteq [File -> Nat]
    /\ FileSize \in [File -> Nat]
    /\ FileTests \in [File -> Nat]
    /\ LargeFile \in Nat

ASSUME QueueAssumption

VARIABLES
    threads,    \* the argument of this run
    selected,   \* the selected tests of this run
    units,      \* the units, in the order they are to be taken
    next,       \* the shared index of the next unit
    pc,         \* of each worker
    unit,       \* the index of the unit a worker has taken last
    pos,        \* the test of that unit it runs next
    results,    \* what each worker has to report: tests with their outcomes
    discarded,  \* and tests it could not parse
    task,       \* the task main starts or waits for next
    total,      \* the results main has collected
    dropped,    \* the discarded tests main has collected
    exit        \* what main returns

vars == <<threads, selected, units, next, pc, unit, pos, results, discarded,
          task, total, dropped, exit>>

config == <<threads, selected, units>>
workers == <<next, pc, unit, pos, results, discarded>>
main == <<task, total, dropped, exit>>

-----------------------------------------------------------------------------
(***************************************************************************)
(* workUnits.  A unit is a range of the selected tests of a file.          *)
(***************************************************************************)
\* Division of natural numbers in Lean: by 0 it gives 0.
DivNat(a, b) == IF b = 0 THEN 0 ELSE a \div b

SmallerOf(a, b) == IF a <= b THEN a ELSE b
LargerOf(a, b)  == IF a <= b THEN b ELSE a

Pieces(f, n, count) ==
    IF FileSize[f] > LargeFile THEN SmallerOf(count, n) ELSE 1

\* Mutant: the size of a part is rounded down.
ChunkRoundedDown(n, pieces) == DivNat(n, pieces)

Chunk(n, pieces) == DivNat(n + pieces - 1, pieces)

\* names.extract (k * chunk) ((k + 1) * chunk), for k < pieces.
Part(f, n, chunk, k) ==
    [file |-> f, first |-> k * chunk + 1, last |-> SmallerOf((k + 1) * chunk, n)]

FileUnits(f, n, count) ==
    LET pieces == Pieces(f, n, count)
        parts  == {Part(f, n, Chunk(n, pieces), k) : k \in 0 .. pieces - 1}
    IN  IF n = 0 THEN {} ELSE {u \in parts : u.first <= u.last}

Cost(u) ==
    DivNat(FileSize[u.file] * (u.last - u.first + 1), LargerOf(FileTests[u.file], 1))

Before(u, v) ==
    IF (u.file \in Slow) # (v.file \in Slow)
      THEN u.file \in Slow
      ELSE Cost(u) > Cost(v)

\* qsort: any order that does not go against Before.
Sorted(s) == \A i, j \in 1 .. Len(s) : i < j => ~Before(s[j], s[i])

AllUnits(sel, count) == UNION {FileUnits(f, sel[f], count) : f \in File}

-----------------------------------------------------------------------------
(***************************************************************************)
(* The worker of runWorkUnits, with processTests as one action per test.   *)
(***************************************************************************)
WorkerCount == LargerOf(threads, 1)
Worker == 1 .. WorkerCount

\* Mutant: each worker counts for itself.
NextIndexLocal(w) == unit[w] + 1

NextIndex(w) == next + 1

\* `modifyGet' on the shared index, which counts from 0.
Take(w) ==
    /\ pc[w] = "take"
    /\ next < Len(units)
    /\ next' = NextIndex(w)
    /\ unit' = [unit EXCEPT ![w] = next + 1]
    /\ pos' = [pos EXCEPT ![w] = units[next + 1].first]
    /\ pc' = [pc EXCEPT ![w] = "run"]
    /\ UNCHANGED <<config, results, discarded, main>>

\* Mutant: a worker does not look for the end of the queue.
LeaveNever(w) == FALSE /\ UNCHANGED vars

\* No unit is left.
Leave(w) ==
    /\ pc[w] = "take"
    /\ next >= Len(units)
    /\ next' = NextIndex(w)
    /\ pc' = [pc EXCEPT ![w] = "done"]
    /\ UNCHANGED <<config, unit, pos, results, discarded, main>>

RunTest(w, outcome) ==
    LET u    == units[unit[w]]
        test == <<u.file, pos[w]>>
    IN  /\ pc[w] = "run"
        /\ IF outcome = "unparsed"
             THEN /\ discarded' = [discarded EXCEPT ![w] = Append(@, test)]
                  /\ UNCHANGED results
             ELSE /\ results' = [results EXCEPT ![w] = Append(@, <<test, outcome>>)]
                  /\ UNCHANGED discarded
        /\ pos' = [pos EXCEPT ![w] = @ + 1]
        /\ pc' = [pc EXCEPT ![w] = IF pos[w] = u.last THEN "take" ELSE "run"]
        /\ UNCHANGED <<config, next, unit, main>>

\* A file that cannot be read, or another IO error, ends the worker.
Fail(w) ==
    /\ pc[w] = "run"
    /\ pc' = [pc EXCEPT ![w] = "failed"]
    /\ UNCHANGED <<config, next, unit, pos, results, discarded, main>>

-----------------------------------------------------------------------------
(***************************************************************************)
(* The main thread: it starts every worker, then waits for each in turn.   *)
(***************************************************************************)
StartWorker ==
    /\ exit = "starting"
    /\ pc' = [pc EXCEPT ![task] = "take"]
    /\ IF task = WorkerCount
         THEN task' = 1 /\ exit' = "collecting"
         ELSE task' = task + 1 /\ UNCHANGED exit
    /\ UNCHANGED <<config, next, unit, pos, results, discarded, total, dropped>>

\* `IO.ofExcept task.get' throws what the worker threw, out of main.
Collect ==
    /\ exit = "collecting"
    /\ task <= WorkerCount
    /\ \/ /\ pc[task] = "done"
          /\ total' = total \o results[task]
          /\ dropped' = dropped \o discarded[task]
          /\ task' = task + 1
          /\ UNCHANGED exit
       \/ /\ pc[task] = "failed"
          /\ exit' = "exception"
          /\ UNCHANGED <<task, total, dropped>>
    /\ UNCHANGED <<config, workers>>

\* main returns 0 if no result is a failure; it does not look at dropped.
Report ==
    /\ exit = "collecting"
    /\ task > WorkerCount
    /\ exit' = IF \E i \in 1 .. Len(total) : total[i][2] = "failed"
                 THEN "one" ELSE "zero"
    /\ UNCHANGED <<config, workers, task, total, dropped>>

-----------------------------------------------------------------------------
Init ==
    /\ threads \in ThreadCounts
    /\ selected \in Selections
    /\ units \in {s \in SetToSeqs(AllUnits(selected, threads)) : Sorted(s)}
    /\ next = 0
    /\ pc = [w \in Worker |-> "unstarted"]
    /\ unit = [w \in Worker |-> 0]
    /\ pos = [w \in Worker |-> 0]
    /\ results = [w \in Worker |-> <<>>]
    /\ discarded = [w \in Worker |-> <<>>]
    /\ task = 1
    /\ total = <<>>
    /\ dropped = <<>>
    /\ exit = "starting"

Work(w) ==
    \/ Take(w)
    \/ Leave(w)
    \/ \E outcome \in {"passed", "failed", "unparsed"} : RunTest(w, outcome)
    \/ Fail(w)

Main == StartWorker \/ Collect \/ Report

Next == (\E w \in Worker : Work(w)) \/ Main

Spec == Init /\ [][Next]_vars

(***************************************************************************)
(* Every task has a thread of its own (.dedicated), and a test ends.       *)
(***************************************************************************)
FairSpec ==
    /\ Spec
    /\ WF_vars(Main)
    /\ \A w \in 1 .. Max(ThreadCounts \cup {1}) : WF_vars(w \in Worker /\ Work(w))

-----------------------------------------------------------------------------
Test == UNION {{f} \X (1 .. selected[f]) : f \in File}

(***************************************************************************)
(* The shared index gives every unit to one worker: no test is run twice,  *)
(* whichever workers take the units, and however a file is split.          *)
(***************************************************************************)
Reported(w) == {results[w][i][1] : i \in 1 .. Len(results[w])}
                 \cup ToSet(discarded[w])

NoTestTwice ==
    /\ \A w, v \in Worker : w # v => Reported(w) \cap Reported(v) = {}
    /\ \A w \in Worker :
         Cardinality(Reported(w)) = Len(results[w]) + Len(discarded[w])

(***************************************************************************)
(* When main reports, it has every selected test, as a result or as one    *)
(* that could not be parsed: "Split the selected tests of each fixture     *)
(* file into work units" (Main.lean:55).                                   *)
(***************************************************************************)
TestsCollected == {total[i][1] : i \in 1 .. Len(total)} \cup ToSet(dropped)

AllAccounted == exit \in {"zero", "one"} => Test = TestsCollected

(***************************************************************************)
(* main reports only when every worker has come to the end of the queue,   *)
(* however late and after whichever others one of them threw, and then all *)
(* tests are accounted for.                                                *)
(***************************************************************************)
ReportComplete ==
    /\ AllAccounted
    /\ exit \in {"zero", "one"} => \A w \in Worker : pc[w] = "done"

-----------------------------------------------------------------------------
(***************************************************************************)
(* The strengthening of the above that every step of the runner keeps.     *)
(***************************************************************************)
WorkUnit == [file : File, first : Nat, last : Nat]

QueueTypes ==
    /\ threads \in ThreadCounts
    /\ selected \in [File -> Nat]
    /\ units \in Seq(WorkUnit)
    /\ next \in Nat
    /\ pc \in [Worker -> {"unstarted", "take", "run", "done", "failed"}]
    /\ unit \in [Worker -> Nat]
    /\ pos \in [Worker -> Nat]
    /\ results \in [Worker -> Seq((File \X Nat) \X {"passed", "failed"})]
    /\ discarded \in [Worker -> Seq(File \X Nat)]
    /\ task \in Nat \ {0}
    /\ total \in Seq((File \X Nat) \X {"passed", "failed"})
    /\ dropped \in Seq(File \X Nat)
    /\ exit \in {"starting", "collecting", "zero", "one", "exception"}

\* The tests of a unit, and those that a worker has taken and not yet run.
UnitTests(u) == {u.file} \X (u.first .. u.last)
TestsLeft(w) ==
    IF pc[w] = "run" THEN {units[unit[w]].file} \X (pos[w] .. units[unit[w]].last)
    ELSE {}

\* No two units share a test, and together they have those that are selected.
Partitioned ==
    /\ \A i, j \in 1 .. Len(units) :
          i # j => UnitTests(units[i]) \cap UnitTests(units[j]) = {}
    /\ \A i \in 1 .. Len(units) :
          UnitTests(units[i]) \subseteq Test /\ units[i].first <= units[i].last
    /\ threads # 0 => Test \subseteq UNION {UnitTests(units[i]) : i \in 1 .. Len(units)}

\* A running worker is within a unit that no other worker has.
Apart ==
    \A w \in Worker : pc[w] = "run" =>
        /\ unit[w] \in 1 .. Len(units)
        /\ unit[w] <= next
        /\ pos[w] \in units[unit[w]].first .. units[unit[w]].last
        /\ \A v \in Worker : v # w /\ pc[v] = "run" => unit[v] # unit[w]

\* What is reported is neither left to a worker nor left in the queue.
Fresh ==
    \A w \in Worker :
        /\ Reported(w) \subseteq Test
        /\ \A v \in Worker : Reported(w) \cap TestsLeft(v) = {}
        /\ \A j \in 1 .. Len(units) :
              j > next => Reported(w) \cap UnitTests(units[j]) = {}

QueueInv == QueueTypes /\ Partitioned /\ Apart /\ Fresh /\ NoTestTwice

\* Unless a worker failed, a test that was taken is reported or left to a worker.
NothingLost ==
    \/ \E w \in Worker : pc[w] = "failed"
    \/ \A j \in 1 .. Len(units) : j <= next =>
          \A t \in UnitTests(units[j]) :
              \E w \in Worker : t \in Reported(w) \cup TestsLeft(w)

\* Main has what the workers before task report, and these are done.
ReportedBefore == UNION {Reported(w) : w \in {v \in Worker : v < task}}

Collected ==
    /\ exit = "starting" => /\ total = <<>> /\ dropped = <<>>
                            /\ task <= WorkerCount
                            /\ \A w \in Worker : w >= task => pc[w] = "unstarted"
    /\ exit \in {"collecting", "zero", "one"} =>
          /\ \A w \in Worker : w < task => pc[w] = "done"
          /\ TestsCollected = ReportedBefore
    /\ exit \in {"zero", "one"} => task > WorkerCount
    /\ \A w \in Worker : pc[w] = "done" => next >= Len(units)

ReportInv == NothingLost /\ Collected

-----------------------------------------------------------------------------
\* main ends, with a report or an exception.
RunEnds == <>(exit \in {"zero", "one", "exception"})
=============================================================================
