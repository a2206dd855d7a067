----------------------------- MODULE PythonPool -----------------------------
(***************************************************************************)
(* The Python helper processes: the pool of PythonHelper.lean, the server  *)
(* loop of helper_server.py, and what PerformIO.lean and ECDSARECOVER make *)
(* of a call that fails.                                                   *)
(*                                                                         *)
(* Threads call `run' concurrently.  A helper is reached through a pipe    *)
(* for requests and one for responses, and may die at any time: idle,      *)
(* while it runs a script, or halfway through writing a response.  A       *)
(* request is the call it belongs to; of a script only its verdict counts: *)
(* it prints a key, it prints `error', or it raises an exception.          *)
(***************************************************************************)
EXTENDS Naturals, Sequences, FiniteSets

CONSTANTS
    Thread,     \* threads that run conformance tests
    Helper,     \* helper processes, started or not
    NoHelper,   \* what a thread has that has no helper
    MaxCalls,   \* bound: calls a thread makes
    MaxDeaths   \* bound: helpers that die

PoolAssumption ==
    /\ NoHelper \notin Helper
    /\ MaxCalls \in Nat
    /\ MaxDeaths \in Nat

ASSUME PoolAssumption

VARIABLES
    pool,      \* the idle helpers
    pc,        \* where in `run' each thread is
    calls,     \* the calls each thread has begun
    held,      \* the helper a thread has acquired
    line,      \* the response line a thread has read
    result,    \* what the last `run' of a thread came to
    requests,  \* lines in the pipe to a helper
    responses, \* lines in the pipe from a helper
    life,      \* of each helper
    harm       \* how many calls the death of each helper has failed

vars == <<pool, pc, calls, held, line, result, requests, responses, life, harm>>

Verdict == {"key", "error", "raise"}

\* A call is known by its thread and its number.
Call == Thread \X Nat

\* A response, or what a helper that died has written of one.
Line == [call : Call, out : Verdict \cup {"torn"}]

Result == [thrown : BOOLEAN, out : {"", "key", "error"}]

Thrown      == [thrown |-> TRUE,  out |-> ""]
Returned(s) == [thrown |-> FALSE, out |-> s]

\* The call a thread is in.
Current(t) == <<t, calls[t]>>

Goto(t, label) == pc' = [pc EXCEPT ![t] = label]

-----------------------------------------------------------------------------
(***************************************************************************)
(* acquire                                                                 *)
(***************************************************************************)
\* Mutant: the pool is read and not popped.
PeekedPool == pool

PoppedPool == SubSeq(pool, 1, Len(pool) - 1)

\* `modifyGet' is atomic: take the last idle helper, or find that there is none.
Acquire(t) ==
    /\ pc[t] = "idle"
    /\ calls[t] < MaxCalls
    /\ calls' = [calls EXCEPT ![t] = @ + 1]
    /\ \/ /\ pool # <<>>
          /\ pool' = PoppedPool
          /\ held' = [held EXCEPT ![t] = pool[Len(pool)]]
          /\ Goto(t, "send")
       \/ /\ pool = <<>>
          /\ Goto(t, "spawn")
          /\ UNCHANGED <<pool, held>>
    /\ UNCHANGED <<line, result, requests, responses, life, harm>>

\* A process that could not execute python3 is a helper that dies at once.
Spawn(t) ==
    /\ pc[t] = "spawn"
    /\ \E h \in Helper :
         /\ life[h] = "unborn"
         /\ life' = [life EXCEPT ![h] = "alive"]
         /\ held' = [held EXCEPT ![t] = h]
    /\ Goto(t, "send")
    /\ UNCHANGED <<pool, calls, line, result, requests, responses, harm>>

-----------------------------------------------------------------------------
(***************************************************************************)
(* run, once it has a helper.  `run' throws, and forgets the helper, when  *)
(* the helper is seen to be dead; it parses the line only after it has     *)
(* given the helper back.                                                  *)
(***************************************************************************)
Throw(t) ==
    /\ Goto(t, "idle")
    /\ held' = [held EXCEPT ![t] = NoHelper]
    /\ result' = [result EXCEPT ![t] = Thrown]

\* Mutant: the helper is given back as soon as it has the request.
SendAndRelease(t) ==
    LET h == held[t]
    IN  /\ pc[t] = "send"
        /\ life[h] = "alive"
        /\ requests' = [requests EXCEPT ![h] = Append(@, Current(t))]
        /\ pool' = Append(pool, h)
        /\ Goto(t, "receive")
        /\ UNCHANGED <<calls, held, line, result, responses, life, harm>>

Send(t) ==
    LET h == held[t]
    IN  /\ pc[t] = "send"
        /\ life[h] = "alive"
        /\ requests' = [requests EXCEPT ![h] = Append(@, Current(t))]
        /\ Goto(t, "receive")
        /\ UNCHANGED <<pool, calls, held, line, result, responses, life, harm>>

\* Mutant: the helper is given back whatever happens.
BrokenPipeReleases(t) ==
    /\ pc[t] = "send"
    /\ life[held[t]] = "dead"
    /\ Throw(t)
    /\ pool' = Append(pool, held[t])
    /\ harm' = [harm EXCEPT ![held[t]] = @ + 1]
    /\ UNCHANGED <<calls, line, requests, responses, life>>

\* Writing to a helper that is dead.
BrokenPipe(t) ==
    /\ pc[t] = "send"
    /\ life[held[t]] = "dead"
    /\ Throw(t)
    /\ harm' = [harm EXCEPT ![held[t]] = @ + 1]
    /\ UNCHANGED <<pool, calls, line, requests, responses, life>>

Receive(t) ==
    LET h == held[t]
    IN  /\ pc[t] = "receive"
        /\ responses[h] # <<>>
        /\ line' = [line EXCEPT ![t] = Head(responses[h])]
        /\ responses' = [responses EXCEPT ![h] = Tail(@)]
        /\ Goto(t, "release")
        /\ UNCHANGED <<pool, calls, held, result, requests, life, harm>>

\* Mutant: nobody looks for the end of the file.
EndOfFileIgnored(t) == FALSE /\ UNCHANGED vars

\* "The helper died; do not return it to the pool."
EndOfFile(t) ==
    LET h == held[t]
    IN  /\ pc[t] = "receive"
        /\ responses[h] = <<>>
        /\ life[h] = "dead"
        /\ Throw(t)
        /\ harm' = [harm EXCEPT ![h] = @ + 1]
        /\ UNCHANGED <<pool, calls, line, requests, responses, life>>

Release(t) ==
    /\ pc[t] = "release"
    /\ pool' = Append(pool, held[t])
    /\ held' = [held EXCEPT ![t] = NoHelper]
    /\ Goto(t, "parse")
    /\ UNCHANGED <<calls, line, result, requests, responses, life, harm>>

\* {"ok": true} is an answer, {"ok": false} or half a line is an exception.
Parse(t) ==
    /\ pc[t] = "parse"
    /\ result' = [result EXCEPT ![t] =
                    IF line[t].out \in {"key", "error"} THEN Returned(line[t].out)
                    ELSE Thrown]
    /\ Goto(t, "idle")
    /\ UNCHANGED <<pool, calls, held, line, requests, responses, life, harm>>

-----------------------------------------------------------------------------
(***************************************************************************)
(* helper_server.py: one response for each request, in order.  Whatever    *)
(* the script does, short of killing the process, gives a response.        *)
(***************************************************************************)
Serve(h) ==
    /\ life[h] = "alive"
    /\ requests[h] # <<>>
    /\ \E out \in Verdict :
         responses' = [responses EXCEPT ![h] =
                         Append(@, [call |-> Head(requests[h]), out |-> out])]
    /\ requests' = [requests EXCEPT ![h] = Tail(@)]
    /\ UNCHANGED <<pool, pc, calls, held, line, result, life, harm>>

\* A helper dies; if it was running a script it may leave half a line.
Die(h) ==
    /\ life[h] = "alive"
    /\ Cardinality({g \in Helper : life[g] = "dead"}) < MaxDeaths
    /\ life' = [life EXCEPT ![h] = "dead"]
    /\ \/ /\ requests[h] # <<>>
          /\ responses' = [responses EXCEPT ![h] =
                             Append(@, [call |-> Head(requests[h]), out |-> "torn"])]
          /\ harm' = [harm EXCEPT ![h] = @ + 1]
       \/ UNCHANGED <<responses, harm>>
    /\ UNCHANGED <<pool, pc, calls, held, line, result, requests>>

-----------------------------------------------------------------------------
(***************************************************************************)
(* What a caller makes of it: unsafePerformIO panics and goes on with the  *)
(* default String, and ECDSARECOVER pads what is not "error" with zeros.   *)
(***************************************************************************)
UnsafePerformIO(r) == IF r.thrown THEN "" ELSE r.out

EcdsaRecover(s) == CASE s = "error" -> "error"
                     [] s = ""      -> "zeros"
                     [] OTHER       -> s

-----------------------------------------------------------------------------
Init ==
    /\ pool = <<>>
    /\ pc = [t \in Thread |-> "idle"]
    /\ calls = [t \in Thread |-> 0]
    /\ held = [t \in Thread |-> NoHelper]
    /\ line = [t \in Thread |-> [call |-> <<t, 0>>, out |-> "torn"]]
    /\ result = [t \in Thread |-> Returned("error")]
    /\ requests = [h \in Helper |-> <<>>]
    /\ responses = [h \in Helper |-> <<>>]
    /\ life = [h \in Helper |-> "unborn"]
    /\ harm = [h \in Helper |-> 0]

\* What `run' does once it is called.
Proceed(t) ==
    \/ Spawn(t)
    \/ Send(t)
    \/ BrokenPipe(t)
    \/ Receive(t)
    \/ EndOfFile(t)
    \/ Release(t)
    \/ Parse(t)

Next ==
    \/ \E t \in Thread : Acquire(t) \/ Proceed(t)
    \/ \E h \in Helper : Serve(h) \/ Die(h)

Spec == Init /\ [][Next]_vars

(***************************************************************************)
(* A thread in `run' goes on, and a helper that lives ends the script it   *)
(* runs: both are processes the operating system schedules, and no script  *)
(* of EllipticCurvesPy loops forever.                                      *)
(***************************************************************************)
FairSpec ==
    /\ Spec
    /\ \A t \in Thread : WF_vars(Proceed(t))
    /\ \A h \in Helper : WF_vars(Serve(h))

-----------------------------------------------------------------------------
Label == {"idle", "spawn", "send", "receive", "release", "parse"}

\* Every variable has its type; a thread holds a helper exactly while it is
\* between acquire and release.
TypeOK ==
    /\ pool \in Seq(Helper)
    /\ pc \in [Thread -> Label]
    /\ calls \in [Thread -> Nat]
    /\ held \in [Thread -> Helper \cup {NoHelper}]
    /\ line \in [Thread -> Line]
    /\ result \in [Thread -> Result]
    /\ requests \in [Helper -> Seq(Call)]
    /\ responses \in [Helper -> Seq(Line)]
    /\ life \in [Helper -> {"unborn", "alive", "dead"}]
    /\ harm \in [Helper -> Nat]
    /\ \A t \in Thread :
         held[t] # NoHelper <=> pc[t] \in {"send", "receive", "release"}

(***************************************************************************)
(* acquire and release share no helper out twice: it is idle in the pool   *)
(* once, or one thread has it.                                             *)
(***************************************************************************)
Exclusive ==
    /\ \A i, j \in 1 .. Len(pool) : pool[i] = pool[j] => i = j
    /\ \A t \in Thread : held[t] # NoHelper =>
         /\ \A i \in 1 .. Len(pool) : pool[i] # held[t]
         /\ \A u \in Thread : held[u] = held[t] => u = t

(***************************************************************************)
(* The line `run' parses is the answer to its own request, though requests *)
(* and responses carry no number, and helpers fail and die in between.     *)
(***************************************************************************)
OwnAnswer ==
    \A t \in Thread : pc[t] \in {"release", "parse"} => line[t].call = Current(t)

(***************************************************************************)
(* A helper that dies fails at most two calls: the one that finds half a   *)
(* line gives it back, and the next one finds the pipe broken.             *)
(***************************************************************************)
DeathFailsTwo == \A h \in Helper : harm[h] <= 2

(***************************************************************************)
(* `run' "fails, as a failing process would, when the script raises an     *)
(* exception or exits with a nonzero status" (PythonHelper.lean:52-54), so *)
(* ECDSARECOVER, which has an error of its own, reports a failure.         *)
(***************************************************************************)
FailureReported ==
    \A t \in Thread :
        result[t].thrown => EcdsaRecover(UnsafePerformIO(result[t])) = "error"

\* Every call of a helper comes back, with an answer or an exception.
CallsReturn == \A t \in Thread : pc[t] # "idle" ~> pc[t] = "idle"
=============================================================================
