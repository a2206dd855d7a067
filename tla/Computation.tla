----------------------------- MODULE Computation ----------------------------
(***************************************************************************)
(* One sequential computation: a script that a Python helper runs          *)
(* (helper_server.py), or a pure function of the Lean side.  It gets       *)
(* arguments, works on its local variables and answers with a result or    *)
(* an exception, and what called it goes on to the next.  No state         *)
(* outlives a computation.  The modules that extend this one give the      *)
(* steps of each of them.                                                  *)
(***************************************************************************)
EXTENDS Integers, Sequences

CONSTANTS NoAnswer,
          OverflowError, ZeroDivisionError, ValueError, AssertionError,
          NameError

VARIABLES
    task,    \* the name of what is computed, "none" between computations
    argv,    \* its arguments
    locals,  \* its local variables
    answer   \* what it returned or printed, or the exception it raised

computation == <<task, argv, locals, answer>>

Exceptions == {OverflowError, ZeroDivisionError, ValueError, AssertionError,
               NameError}

Idle == task = "none" /\ argv = <<>> /\ locals = <<>> /\ answer = NoAnswer

Start(name, arguments, variables) ==
    /\ task' = name
    /\ argv' = arguments
    /\ locals' = variables
    /\ UNCHANGED answer

Running(name)  == task = name /\ answer = NoAnswer
Answered(name) == task = name /\ answer # NoAnswer

Continue(variables) == locals' = variables /\ UNCHANGED <<task, argv, answer>>
Answer(value)       == answer' = value /\ UNCHANGED <<task, argv, locals>>

\* An exception is answered like any result: what ran the script lives on.
Respond ==
    /\ answer # NoAnswer
    /\ task' = "none"
    /\ argv' = <<>>
    /\ locals' = <<>>
    /\ answer' = NoAnswer
=============================================================================
