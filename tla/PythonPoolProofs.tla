-------------------------- MODULE PythonPoolProofs ---------------------------
(***************************************************************************)
(* The pool of helpers, for any number of threads, helpers, calls and      *)
(* deaths: the types, exclusive use, and whose answer a line is.           *)
(***************************************************************************)
EXTENDS PythonPool, SequenceTheorems, TLAPS

USE DEF Goto, Throw, Thrown, Returned

\* The pool without its last helper.
LEMMA PoppedPoolFacts ==
  ASSUME pool \in Seq(Helper), pool # <<>>
  PROVE  /\ PoppedPool \in Seq(Helper)
         /\ Len(PoppedPool) = Len(pool) - 1
         /\ \A i \in 1 .. Len(pool) - 1 : PoppedPool[i] = pool[i]
         /\ Len(pool) \in Nat \ {0}
         /\ pool[Len(pool)] \in Helper
<1>1. Len(pool) \in Nat \ {0}
  BY EmptySeq
<1>2. \A i \in 1 .. Len(pool) - 1 : pool[i] \in Helper
  BY <1>1
<1>3. /\ PoppedPool \in Seq(Helper)
      /\ Len(PoppedPool) = IF 1 <= Len(pool) - 1 THEN Len(pool) - 1 ELSE 0
      /\ \A i \in 1 .. Len(pool) - 1 - 1 + 1 : PoppedPool[i] = pool[1 + i - 1]
  <2>1. 1 \in Int /\ Len(pool) - 1 \in Int
    BY <1>1
  <2>2. /\ SubSeq(pool, 1, Len(pool) - 1) \in Seq(Helper)
        /\ Len(SubSeq(pool, 1, Len(pool) - 1)) =
             IF 1 <= Len(pool) - 1 THEN Len(pool) - 1 - 1 + 1 ELSE 0
        /\ \A i \in 1 .. Len(pool) - 1 - 1 + 1 :
             SubSeq(pool, 1, Len(pool) - 1)[i] = pool[1 + i - 1]
    BY <1>2, <2>1, SubSeqProperties
  <2> QED BY <2>2, <1>1 DEF PoppedPool
<1>4. pool[Len(pool)] \in Helper
  BY <1>1
<1>5. Len(PoppedPool) = Len(pool) - 1
  <2>1. Len(PoppedPool) = IF 1 <= Len(pool) - 1 THEN Len(pool) - 1 ELSE 0
    BY <1>3
  <2>2. \A n \in Nat \ {0} : (IF 1 <= n - 1 THEN n - 1 ELSE 0) = n - 1
    OBVIOUS
  <2> QED BY <1>1, <2>1, <2>2
<1>6. \A i \in 1 .. Len(pool) - 1 : PoppedPool[i] = pool[i]
  BY <1>1, <1>3
<1> QED BY <1>1, <1>3, <1>4, <1>5, <1>6

-----------------------------------------------------------------------------
\* A step of the pool is one of these.
LEMMA Steps ==
  ASSUME Next
  PROVE  \/ \E t \in Thread : \/ Acquire(t) \/ Spawn(t) \/ Send(t) \/ BrokenPipe(t)
                             \/ Receive(t) \/ EndOfFile(t) \/ Release(t) \/ Parse(t)
         \/ \E h \in Helper : Serve(h) \/ Die(h)
BY DEF Next, Proceed

\* The initial state has the types.
LEMMA TypeInit == Init => TypeOK
BY DEF Init, TypeOK, Line, Call, Result, Verdict, Label

\* A thread holds a helper exactly between acquire and release.
Holding == \A t \in Thread :
    held[t] # NoHelper <=> pc[t] \in {"send", "receive", "release"}

LEMMA HoldsNow ==
  ASSUME TypeOK, NEW t \in Thread, NEW h \in Helper,
         held' = [held EXCEPT ![t] = h], pc' = [pc EXCEPT ![t] = "send"]
  PROVE  /\ held' \in [Thread -> Helper \cup {NoHelper}]
         /\ pc' \in [Thread -> Label]
         /\ Holding'
<1>1. held' \in [Thread -> Helper \cup {NoHelper}] /\ pc' \in [Thread -> Label]
  BY DEF TypeOK, Label
<1>2. \A u \in Thread :
        held'[u] # NoHelper <=> pc'[u] \in {"send", "receive", "release"}
  <2>1. held'[t] = h /\ h # NoHelper /\ pc'[t] = "send"
    <3>1. h # NoHelper
      BY PoolAssumption DEF PoolAssumption
    <3>2. held'[t] = h
      BY DEF TypeOK
    <3>3. pc'[t] = "send"
      BY DEF TypeOK
    <3> QED BY <3>1, <3>2, <3>3
  <2>2. \A u \in Thread : u # t => held'[u] = held[u] /\ pc'[u] = pc[u]
    BY DEF TypeOK
  <2>3. \A u \in Thread :
          held[u] # NoHelper <=> pc[u] \in {"send", "receive", "release"}
    BY DEF TypeOK
  <2> QED BY <2>1, <2>2, <2>3
<1> QED BY <1>1, <1>2 DEF Holding

LEMMA HoldsNoMore ==
  ASSUME TypeOK, NEW t \in Thread,
         held' = [held EXCEPT ![t] = NoHelper], pc' = [pc EXCEPT ![t] = "idle"]
  PROVE  /\ held' \in [Thread -> Helper \cup {NoHelper}]
         /\ Holding'
<1>1. held' \in [Thread -> Helper \cup {NoHelper}]
  BY DEF TypeOK
<1>2. \A u \in Thread :
        held'[u] # NoHelper <=> pc'[u] \in {"send", "receive", "release"}
  BY DEF TypeOK
<1> QED BY <1>1, <1>2 DEF Holding

\* What an action of a thread writes has the types.
LEMMA TypeThread ==
  ASSUME TypeOK, NEW t \in Thread,
         \/ Acquire(t) \/ Spawn(t) \/ Send(t) \/ BrokenPipe(t)
         \/ Receive(t) \/ EndOfFile(t) \/ Release(t) \/ Parse(t)
  PROVE  TypeOK'
<1> USE DEF Label
<1>1. CASE Acquire(t)
  <2>1. CASE pool # <<>>
    <3>1. PoppedPool \in Seq(Helper) /\ pool[Len(pool)] \in Helper
      BY <2>1, PoppedPoolFacts DEF TypeOK
    <3>2. /\ held' = [held EXCEPT ![t] = pool[Len(pool)]]
          /\ pc' = [pc EXCEPT ![t] = "send"]
          /\ calls' = [calls EXCEPT ![t] = @ + 1]
          /\ pool' = PoppedPool
          /\ UNCHANGED <<line, result, requests, responses, life, harm>>
      BY <1>1, <2>1 DEF Acquire
    <3>3. /\ held' \in [Thread -> Helper \cup {NoHelper}]
          /\ pc' \in [Thread -> Label]
          /\ Holding'
      BY <3>1, <3>2, HoldsNow
    <3>4. calls' \in [Thread -> Nat]
      BY <3>2 DEF TypeOK
    <3> QED BY <3>1, <3>2, <3>3, <3>4 DEF TypeOK, Holding
  <2>2. CASE pool = <<>>
    <3>1. /\ pc' = [pc EXCEPT ![t] = "spawn"]
          /\ calls' = [calls EXCEPT ![t] = @ + 1]
          /\ pc[t] = "idle"
          /\ UNCHANGED <<pool, held, line, result, requests, responses, life, harm>>
      BY <1>1, <2>2 DEF Acquire
    <3> QED BY <3>1 DEF TypeOK
  <2> QED BY <2>1, <2>2
<1>2. CASE Spawn(t)
  <2>1. PICK h \in Helper : /\ life' = [life EXCEPT ![h] = "alive"]
                            /\ held' = [held EXCEPT ![t] = h]
    BY <1>2 DEF Spawn
  <2>2. /\ pc' = [pc EXCEPT ![t] = "send"]
        /\ UNCHANGED <<pool, calls, line, result, requests, responses, harm>>
    BY <1>2 DEF Spawn
  <2> QED BY <2>1, <2>2, HoldsNow DEF TypeOK, Holding
<1>3. CASE Send(t)
  <2>1. held[t] \in Helper /\ Current(t) \in Call
    BY <1>3 DEF TypeOK, Send, Current, Call
  <2>2. requests' \in [Helper -> Seq(Call)]
    BY <1>3, <2>1 DEF TypeOK, Send
  <2> QED BY <1>3, <2>1, <2>2 DEF TypeOK, Send
<1>4. CASE BrokenPipe(t)
  <2>1. held[t] \in Helper
    BY <1>4 DEF TypeOK, BrokenPipe
  <2>2. harm' \in [Helper -> Nat]
    <3>1. harm' = [harm EXCEPT ![held[t]] = @ + 1]
      BY <1>4 DEF BrokenPipe
    <3> QED BY <2>1, <3>1 DEF TypeOK
  <2>3. held' \in [Thread -> Helper \cup {NoHelper}] /\ Holding'
    BY <1>4, HoldsNoMore DEF BrokenPipe
  <2> QED BY <1>4, <2>2, <2>3 DEF TypeOK, BrokenPipe, Result, Holding
<1>5. CASE Receive(t)
  <2>1. held[t] \in Helper /\ responses[held[t]] \in Seq(Line) /\ responses[held[t]] # <<>>
    BY <1>5 DEF TypeOK, Receive
  <2>2. Head(responses[held[t]]) \in Line /\ Tail(responses[held[t]]) \in Seq(Line)
    BY <2>1, HeadTailProperties
  <2>3. responses' \in [Helper -> Seq(Line)]
    BY <1>5, <2>1, <2>2 DEF TypeOK, Receive
  <2> QED BY <1>5, <2>2, <2>3 DEF TypeOK, Receive
<1>6. CASE EndOfFile(t)
  <2>1. held[t] \in Helper
    BY <1>6 DEF TypeOK, EndOfFile
  <2>2. harm' \in [Helper -> Nat]
    <3>1. harm' = [harm EXCEPT ![held[t]] = @ + 1]
      BY <1>6 DEF EndOfFile
    <3> QED BY <2>1, <3>1 DEF TypeOK
  <2>3. held' \in [Thread -> Helper \cup {NoHelper}] /\ Holding'
    BY <1>6, HoldsNoMore DEF EndOfFile
  <2> QED BY <1>6, <2>2, <2>3 DEF TypeOK, EndOfFile, Result, Holding
<1>7. CASE Release(t)
  <2>1. held[t] \in Helper
    BY <1>7 DEF TypeOK, Release
  <2> QED BY <1>7, <2>1 DEF TypeOK, Release
<1>8. CASE Parse(t)
  BY <1>8 DEF TypeOK, Parse, Result, Line, Verdict
<1> QED BY <1>1, <1>2, <1>3, <1>4, <1>5, <1>6, <1>7, <1>8

\* And what a helper does.
LEMMA TypeHelper ==
  ASSUME TypeOK, NEW h \in Helper, Serve(h) \/ Die(h)
  PROVE  TypeOK'
<1>1. requests[h] \in Seq(Call)
  BY DEF TypeOK
<1>2. ASSUME NEW out \in Verdict \cup {"torn"}, requests[h] # <<>>
      PROVE  Append(responses[h], [call |-> Head(requests[h]), out |-> out]) \in Seq(Line)
  <2>1. Head(requests[h]) \in Call
    BY <1>1, <1>2, HeadTailProperties
  <2>2. [call |-> Head(requests[h]), out |-> out] \in Line
    BY <2>1 DEF Line
  <2> QED BY <2>2 DEF TypeOK
<1>3. CASE Serve(h)
  <2>1. Tail(requests[h]) \in Seq(Call)
    BY <1>1, <1>3, HeadTailProperties DEF Serve
  <2>2. responses' \in [Helper -> Seq(Line)]
    BY <1>2, <1>3 DEF TypeOK, Serve
  <2> QED BY <1>3, <2>1, <2>2 DEF TypeOK, Serve
<1>4. CASE Die(h)
  <2>1. /\ life' = [life EXCEPT ![h] = "dead"]
        /\ UNCHANGED <<pool, pc, calls, held, line, result, requests>>
    BY <1>4 DEF Die
  <2>2. responses' \in [Helper -> Seq(Line)] /\ harm' \in [Helper -> Nat]
    <3>1. CASE UNCHANGED <<responses, harm>>
      BY <3>1 DEF TypeOK
    <3>2. CASE /\ requests[h] # <<>>
               /\ responses' = [responses EXCEPT ![h] =
                    Append(@, [call |-> Head(requests[h]), out |-> "torn"])]
               /\ harm' = [harm EXCEPT ![h] = @ + 1]
      BY <1>2, <3>2 DEF TypeOK
    <3> QED BY <1>4, <3>1, <3>2 DEF Die
  <2> QED BY <2>1, <2>2 DEF TypeOK
<1> QED BY <1>3, <1>4

(***************************************************************************)
(* Every variable has its type in every reachable state, and a thread      *)
(* holds a helper exactly while it is between acquire and release.         *)
(***************************************************************************)
THEOREM TypeCorrect == Spec => []TypeOK
<1>1. Init => TypeOK
  BY TypeInit
<1>2. TypeOK /\ [Next]_vars => TypeOK'
  <2>1. ASSUME TypeOK, Next PROVE TypeOK'
    BY <2>1, Steps, TypeThread, TypeHelper
  <2>2. ASSUME TypeOK, UNCHANGED vars PROVE TypeOK'
    BY <2>2 DEF vars, TypeOK
  <2> QED BY <2>1, <2>2
<1> QED BY <1>1, <1>2, PTL DEF Spec

-----------------------------------------------------------------------------
(***************************************************************************)
(* Exclusive use.  What is handed out for the first time is a helper that  *)
(* did not exist, so it can be neither in the pool nor with a thread.      *)
(***************************************************************************)
Born ==
    /\ \A i \in 1 .. Len(pool) : life[pool[i]] # "unborn"
    /\ \A t \in Thread : held[t] # NoHelper => life[held[t]] # "unborn"

UseInv == TypeOK /\ Exclusive /\ Born

\* The helpers that are handed out stay where they are, and live on.
LEMMA UseUnchanged ==
  ASSUME UseInv, UNCHANGED <<pool, held>>,
         \A h \in Helper : life[h] # "unborn" => life'[h] # "unborn"
  PROVE  Exclusive' /\ Born'
<1>1. \A i \in 1 .. Len(pool) : pool[i] \in Helper
  BY DEF UseInv, TypeOK
<1>2. \A t \in Thread : held[t] # NoHelper => held[t] \in Helper
  BY DEF UseInv, TypeOK
<1> QED BY <1>1, <1>2 DEF UseInv, Exclusive, Born

\* A helper that dies or is forgotten.
LEMMA UseForgotten ==
  ASSUME UseInv, NEW t \in Thread, held' = [held EXCEPT ![t] = NoHelper],
         UNCHANGED <<pool, life>>
  PROVE  Exclusive' /\ Born'
<1>1. \A u \in Thread : held'[u] # NoHelper => held[u] = held'[u] /\ u # t
  BY DEF UseInv, TypeOK
<1> QED BY <1>1 DEF UseInv, Exclusive, Born

\* A helper nobody has, from nowhere or from the pool.
LEMMA UseTaken ==
  ASSUME UseInv, NEW t \in Thread, NEW h \in Helper, held[t] = NoHelper,
         held' = [held EXCEPT ![t] = h],
         \A u \in Thread : held[u] # h,
         Len(pool') <= Len(pool), Len(pool') \in Nat, Len(pool) \in Nat,
         \A i \in 1 .. Len(pool') : pool'[i] = pool[i] /\ pool[i] # h,
         \A g \in Helper : life[g] # "unborn" \/ g = h => life'[g] # "unborn"
  PROVE  Exclusive' /\ Born'
<1>1. h # NoHelper
  BY PoolAssumption DEF PoolAssumption
<1>2. held'[t] = h /\ \A u \in Thread : u # t => held'[u] = held[u]
  BY DEF UseInv, TypeOK
<1>3. 1 .. Len(pool') \subseteq 1 .. Len(pool)
  OBVIOUS
<1>4. \A i \in 1 .. Len(pool) : pool[i] \in Helper
  BY DEF UseInv, TypeOK
<1>5. \A u \in Thread : held[u] # NoHelper => held[u] \in Helper
  BY DEF UseInv, TypeOK
<1>6. Exclusive'
  <2>1. \A i, j \in 1 .. Len(pool') : pool'[i] = pool'[j] => i = j
    BY <1>3 DEF UseInv, Exclusive
  <2>2. \A u \in Thread : held'[u] # NoHelper =>
          \A i \in 1 .. Len(pool') : pool'[i] # held'[u]
    BY <1>2, <1>3 DEF UseInv, Exclusive
  <2>3. \A u, v \in Thread : held'[u] # NoHelper /\ held'[v] = held'[u] => v = u
    BY <1>1, <1>2 DEF UseInv, Exclusive
  <2> QED BY <2>1, <2>2, <2>3 DEF Exclusive
<1>7. Born'
  <2>1. \A i \in 1 .. Len(pool') : life'[pool'[i]] # "unborn"
    BY <1>3, <1>4 DEF UseInv, Born
  <2>2. \A u \in Thread : held'[u] # NoHelper => life'[held'[u]] # "unborn"
    BY <1>2, <1>5 DEF UseInv, Born
  <2> QED BY <2>1, <2>2 DEF Born
<1> QED BY <1>6, <1>7

LEMMA UseAcquire ==
  ASSUME UseInv, NEW t \in Thread, Acquire(t)
  PROVE  Exclusive' /\ Born'
<1>1. held[t] = NoHelper
  BY DEF UseInv, TypeOK, Acquire
<1>2. CASE pool = <<>>
  BY <1>2, UseUnchanged DEF Acquire
<1>3. CASE pool # <<>>
  <2> DEFINE h == pool[Len(pool)]
  <2>1. pool' = PoppedPool /\ held' = [held EXCEPT ![t] = h] /\ UNCHANGED life
    BY <1>3 DEF Acquire
  <2>2. /\ Len(pool') = Len(pool) - 1
        /\ \A i \in 1 .. Len(pool) - 1 : pool'[i] = pool[i]
        /\ Len(pool) \in Nat \ {0}
        /\ h \in Helper
    BY <1>3, <2>1, PoppedPoolFacts DEF UseInv, TypeOK
  <2>3. Len(pool) \in 1 .. Len(pool)
    BY <2>2
  <2>4. \A u \in Thread : held[u] # h
    BY <2>2, <2>3, PoolAssumption DEF UseInv, Exclusive, PoolAssumption
  <2>5. \A i \in 1 .. Len(pool') : pool'[i] = pool[i] /\ pool[i] # h
    BY <2>2, <2>3 DEF UseInv, Exclusive
  <2>6. life[h] # "unborn"
    BY <2>3 DEF UseInv, Born
  <2>7. \A g \in Helper : life[g] # "unborn" \/ g = h => life'[g] # "unborn"
    BY <2>1, <2>6
  <2>8. Len(pool') <= Len(pool) /\ Len(pool') \in Nat /\ Len(pool) \in Nat
    BY <2>2
  <2> HIDE DEF h
  <2> QED BY <1>1, <2>1, <2>2, <2>4, <2>5, <2>7, <2>8, UseTaken
<1> QED BY <1>2, <1>3

LEMMA UseSpawn ==
  ASSUME UseInv, NEW t \in Thread, Spawn(t)
  PROVE  Exclusive' /\ Born'
<1>1. PICK h \in Helper : /\ life[h] = "unborn"
                          /\ life' = [life EXCEPT ![h] = "alive"]
                          /\ held' = [held EXCEPT ![t] = h]
  BY DEF Spawn
<1>2. held[t] = NoHelper
  BY DEF UseInv, TypeOK, Spawn
<1>6. pool' = pool /\ Len(pool) \in Nat
  <2>1. pool' = pool
    BY DEF Spawn
  <2>2. Len(pool) \in Nat
    BY DEF UseInv, TypeOK
  <2> QED BY <2>1, <2>2
<1>3. \A u \in Thread : held[u] # h
  BY <1>1, PoolAssumption DEF UseInv, Born, PoolAssumption
<1>4. \A i \in 1 .. Len(pool) : pool[i] # h
  BY <1>1 DEF UseInv, Born
<1>5. \A g \in Helper : life[g] # "unborn" \/ g = h => life'[g] # "unborn"
  BY <1>1 DEF UseInv, TypeOK
<1>7. /\ Len(pool') <= Len(pool) /\ Len(pool') \in Nat
      /\ \A i \in 1 .. Len(pool') : pool'[i] = pool[i] /\ pool[i] # h
  BY <1>4, <1>6
<1> QED BY <1>1, <1>2, <1>3, <1>5, <1>6, <1>7, UseTaken

LEMMA UseRelease ==
  ASSUME UseInv, NEW t \in Thread, Release(t)
  PROVE  Exclusive' /\ Born'
<1> DEFINE h == held[t]
           n == Len(pool)
<1>1. /\ h \in Helper /\ h # NoHelper /\ life[h] # "unborn"
      /\ pool' = Append(pool, h)
      /\ held' = [held EXCEPT ![t] = NoHelper]
      /\ UNCHANGED life
  BY DEF UseInv, TypeOK, Born, Release
<1>2. /\ n \in Nat
      /\ Len(pool') = n + 1
      /\ \A i \in 1 .. n : pool'[i] = pool[i]
      /\ pool'[n + 1] = h
  BY <1>1, AppendProperties DEF UseInv, TypeOK
<1>3. \A u \in Thread : held'[u] # NoHelper => held'[u] = held[u] /\ u # t
  BY <1>1 DEF UseInv, TypeOK
<1>4. \A i \in 1 .. n : pool[i] # h
  BY <1>1 DEF UseInv, Exclusive
<1>5. \A i \in 1 .. n + 1 : i \in 1 .. n \/ i = n + 1
  BY <1>2
<1>6. Exclusive'
  <2>1. \A i, j \in 1 .. Len(pool') : pool'[i] = pool'[j] => i = j
    BY <1>2, <1>4, <1>5 DEF UseInv, Exclusive
  <2>2. \A u \in Thread : held'[u] # NoHelper =>
          \A i \in 1 .. Len(pool') : pool'[i] # held'[u]
    BY <1>1, <1>2, <1>3, <1>5 DEF UseInv, Exclusive
  <2>3. \A u, v \in Thread : held'[u] # NoHelper /\ held'[v] = held'[u] => v = u
    BY <1>3 DEF UseInv, Exclusive
  <2> QED BY <2>1, <2>2, <2>3 DEF Exclusive
<1>7. Born'
  BY <1>1, <1>2, <1>3, <1>5 DEF UseInv, Born
<1> QED BY <1>6, <1>7

LEMMA UseStep ==
  ASSUME UseInv, Next
  PROVE  Exclusive' /\ Born'
<1>1. ASSUME NEW t \in Thread,
             \/ Acquire(t) \/ Spawn(t) \/ Send(t) \/ BrokenPipe(t)
             \/ Receive(t) \/ EndOfFile(t) \/ Release(t) \/ Parse(t)
      PROVE  Exclusive' /\ Born'
  <2>1. CASE Acquire(t)
    BY <2>1, UseAcquire
  <2>2. CASE Spawn(t)
    BY <2>2, UseSpawn
  <2>3. CASE Send(t)
    BY <2>3, UseUnchanged DEF Send
  <2>4. CASE BrokenPipe(t)
    BY <2>4, UseForgotten DEF BrokenPipe
  <2>5. CASE Receive(t)
    BY <2>5, UseUnchanged DEF Receive
  <2>6. CASE EndOfFile(t)
    BY <2>6, UseForgotten DEF EndOfFile
  <2>7. CASE Release(t)
    BY <2>7, UseRelease
  <2>8. CASE Parse(t)
    BY <2>8, UseUnchanged DEF Parse
  <2> QED BY <1>1, <2>1, <2>2, <2>3, <2>4, <2>5, <2>6, <2>7, <2>8
<1>2. ASSUME NEW h \in Helper, Serve(h) \/ Die(h)
      PROVE  Exclusive' /\ Born'
  <2>1. CASE Serve(h)
    BY <2>1, UseUnchanged DEF Serve
  <2>2. CASE Die(h)
    <3>1. life' = [life EXCEPT ![h] = "dead"] /\ UNCHANGED <<pool, held>>
      BY <2>2 DEF Die
    <3>2. \A g \in Helper : life[g] # "unborn" => life'[g] # "unborn"
      BY <3>1 DEF UseInv, TypeOK
    <3> QED BY <3>1, <3>2, UseUnchanged
  <2> QED BY <1>2, <2>1, <2>2
<1> QED BY <1>1, <1>2, Steps

LEMMA UseInvariant == Spec => []UseInv
<1>1. Init => UseInv
  <2>1. Init => Exclusive /\ Born
    BY DEF Init, Exclusive, Born
  <2> QED BY <2>1, TypeInit DEF UseInv
<1>2. UseInv /\ TypeOK' /\ [Next]_vars => UseInv'
  <2>1. ASSUME UseInv, UNCHANGED vars PROVE Exclusive' /\ Born'
    BY <2>1, UseUnchanged DEF vars
  <2> QED BY <2>1, UseStep DEF UseInv
<1> QED BY <1>1, <1>2, TypeCorrect, PTL DEF Spec

(***************************************************************************)
(* A helper is idle in the pool once, or with one thread: PythonHelper's   *)
(* acquire and release never share one out twice.                          *)
(***************************************************************************)
THEOREM MutualExclusion == Spec => []Exclusive
<1>1. UseInv => Exclusive
  BY DEF UseInv
<1> QED BY <1>1, UseInvariant, PTL

-----------------------------------------------------------------------------
(***************************************************************************)
(* Whose answer a line is.  A helper nobody waits for has empty pipes (a   *)
(* dead one may have an unread request); one that a thread waits for has   *)
(* either this thread's request or its response, and nothing else.         *)
(***************************************************************************)
Quiet(h) == responses[h] = <<>> /\ (life[h] # "dead" => requests[h] = <<>>)

Asked(h, c) ==
    responses[h] = <<>> /\ (life[h] # "dead" => requests[h] = <<c>>)

Answered(h, c) ==
    /\ \E r \in Line : r.call = c /\ responses[h] = <<r>>
    /\ life[h] # "dead" => requests[h] = <<>>

PipeInv ==
    /\ \A h \in Helper :
         (\A t \in Thread : held[t] = h => pc[t] # "receive") => Quiet(h)
    /\ \A t \in Thread : pc[t] = "receive" =>
         Asked(held[t], Current(t)) \/ Answered(held[t], Current(t))

OwnInv == UseInv /\ PipeInv /\ OwnAnswer

\* A thread that does not wait, before or after, leaves the pipes alone.
LEMMA PipeUnchanged ==
  ASSUME OwnInv, NEW t \in Thread,
         pc[t] # "receive", pc'[t] # "receive",
         \A u \in Thread : u # t => /\ pc'[u] = pc[u] /\ held'[u] = held[u]
                                   /\ calls'[u] = calls[u],
         \A h \in Helper : life'[h] = "dead" <=> life[h] = "dead",
         UNCHANGED <<requests, responses>>
  PROVE  PipeInv'
<1>1. \A h \in Helper : Quiet(h) => Quiet(h)'
  BY DEF Quiet
<1>2. ASSUME NEW h \in Helper,
             \A u \in Thread : held'[u] = h => pc'[u] # "receive"
      PROVE  Quiet(h)'
  <2>1. \A u \in Thread : held[u] = h => pc[u] # "receive"
    BY <1>2
  <2> QED BY <1>1, <2>1 DEF OwnInv, PipeInv
<1>3. ASSUME NEW u \in Thread, pc'[u] = "receive"
      PROVE  Asked(held[u], Current(u))' \/ Answered(held[u], Current(u))'
  <2>1. u # t /\ pc[u] = "receive" /\ held'[u] = held[u] /\ calls'[u] = calls[u]
    BY <1>3
  <2>2. held[u] \in Helper
    BY <2>1 DEF OwnInv, UseInv, TypeOK
  <2>3. Asked(held[u], Current(u)) \/ Answered(held[u], Current(u))
    BY <2>1 DEF OwnInv, PipeInv
  <2> QED BY <2>1, <2>2, <2>3 DEF Asked, Answered, Current
<1> QED BY <1>2, <1>3 DEF PipeInv

\* A line that has been read keeps its owner while its thread stays in its call.
LEMMA OwnUnchanged ==
  ASSUME OwnInv, NEW t \in Thread, pc'[t] \notin {"release", "parse"},
         \A u \in Thread : u # t => /\ pc'[u] = pc[u] /\ line'[u] = line[u]
                                   /\ calls'[u] = calls[u]
  PROVE  OwnAnswer'
BY DEF OwnInv, OwnAnswer, Current

LEMMA OwnAcquire ==
  ASSUME OwnInv, NEW t \in Thread, Acquire(t)
  PROVE  PipeInv' /\ OwnAnswer'
<1>1. /\ pc[t] = "idle" /\ pc'[t] \in {"send", "spawn"}
      /\ UNCHANGED <<line, requests, responses, life>>
  BY DEF OwnInv, UseInv, TypeOK, Acquire
<1>2. \A u \in Thread : u # t => /\ pc'[u] = pc[u] /\ held'[u] = held[u]
                                /\ calls'[u] = calls[u]
  BY DEF OwnInv, UseInv, TypeOK, Acquire
<1>3. pc[t] # "receive" /\ pc'[t] # "receive"
  BY <1>1
<1>4. PipeInv'
  BY <1>1, <1>2, <1>3, PipeUnchanged
<1>5. OwnAnswer'
  BY <1>1, <1>2, OwnUnchanged
<1> QED BY <1>4, <1>5

LEMMA OwnSpawn ==
  ASSUME OwnInv, NEW t \in Thread, Spawn(t)
  PROVE  PipeInv' /\ OwnAnswer'
<1>1. PICK h \in Helper : /\ life[h] = "unborn"
                          /\ life' = [life EXCEPT ![h] = "alive"]
                          /\ held' = [held EXCEPT ![t] = h]
  BY DEF Spawn
<1>2. /\ pc[t] = "spawn" /\ pc'[t] = "send"
      /\ UNCHANGED <<calls, line, requests, responses>>
  BY DEF OwnInv, UseInv, TypeOK, Spawn
<1>3. \A u \in Thread : u # t => pc'[u] = pc[u] /\ held'[u] = held[u]
  BY <1>1 DEF OwnInv, UseInv, TypeOK, Spawn
<1>4. \A g \in Helper : life'[g] = "dead" <=> life[g] = "dead"
  BY <1>1 DEF OwnInv, UseInv, TypeOK
<1>5. PipeInv'
  BY <1>2, <1>3, <1>4, PipeUnchanged
<1>6. OwnAnswer'
  BY <1>2, <1>3, OwnUnchanged
<1> QED BY <1>5, <1>6

\* The request goes into an empty pipe.
LEMMA OwnSend ==
  ASSUME OwnInv, NEW t \in Thread, Send(t)
  PROVE  PipeInv' /\ OwnAnswer'
<1> DEFINE h == held[t]
           c == Current(t)
<1>1. /\ pc[t] = "send" /\ h \in Helper /\ h # NoHelper /\ life[h] = "alive"
      /\ UNCHANGED <<held, calls, line, responses, life>>
  BY DEF OwnInv, UseInv, TypeOK, Send
<1>2. pc'[t] = "receive" /\ \A u \in Thread : u # t => pc'[u] = pc[u]
  BY DEF OwnInv, UseInv, TypeOK, Send
<1>3. \A u \in Thread : held[u] = h => u = t
  BY <1>1 DEF OwnInv, UseInv, Exclusive
<1>4. Quiet(h)
  BY <1>1, <1>3 DEF OwnInv, PipeInv
<1>5. requests'[h] = <<c>> /\ \A g \in Helper : g # h => requests'[g] = requests[g]
  <2>1. requests' = [requests EXCEPT ![h] = Append(@, c)]
    BY DEF Send
  <2>2. requests[h] = <<>>
    BY <1>1, <1>4 DEF Quiet
  <2> QED BY <1>1, <2>1, <2>2 DEF OwnInv, UseInv, TypeOK
<1>6. PipeInv'
  <2>1. ASSUME NEW g \in Helper,
               \A u \in Thread : held'[u] = g => pc'[u] # "receive"
        PROVE  Quiet(g)'
    <3>1. g # h
      BY <1>1, <1>2, <2>1
    <3>2. \A u \in Thread : held[u] = g => pc[u] # "receive"
      BY <1>1, <1>2, <2>1
    <3>3. Quiet(g)
      BY <3>2 DEF OwnInv, PipeInv
    <3> QED BY <1>1, <1>5, <3>1, <3>3 DEF Quiet
  <2>2. ASSUME NEW u \in Thread, pc'[u] = "receive"
        PROVE  Asked(held[u], Current(u))' \/ Answered(held[u], Current(u))'
    <3>1. CASE u = t
      BY <1>1, <1>4, <1>5, <3>1 DEF Asked, Quiet, Current
    <3>2. CASE u # t
      <4>1. pc[u] = "receive" /\ held[u] # h
        BY <1>2, <1>3, <2>2, <3>2
      <4>2. held[u] \in Helper
        BY <4>1 DEF OwnInv, UseInv, TypeOK
      <4>3. Asked(held[u], Current(u)) \/ Answered(held[u], Current(u))
        BY <4>1 DEF OwnInv, PipeInv
      <4> QED BY <1>1, <1>5, <4>1, <4>2, <4>3 DEF Asked, Answered, Current
    <3> QED BY <3>1, <3>2
  <2> QED BY <2>1, <2>2 DEF PipeInv
<1>7. OwnAnswer'
  BY <1>1, <1>2, OwnUnchanged
<1> QED BY <1>6, <1>7

LEMMA OwnRelease ==
  ASSUME OwnInv, NEW t \in Thread, BrokenPipe(t) \/ Release(t) \/ Parse(t)
  PROVE  PipeInv' /\ OwnAnswer'
<1>1. /\ pc[t] \in {"send", "release", "parse"} /\ pc'[t] \in {"idle", "parse"}
      /\ pc'[t] = "parse" => pc[t] = "release"
      /\ UNCHANGED <<calls, line, requests, responses, life>>
  BY DEF OwnInv, UseInv, TypeOK, BrokenPipe, Release, Parse
<1>2. \A u \in Thread : u # t => pc'[u] = pc[u]
  BY DEF OwnInv, UseInv, TypeOK, BrokenPipe, Release, Parse
<1>3. \A u \in Thread : u # t => held'[u] = held[u]
  BY DEF OwnInv, UseInv, TypeOK, BrokenPipe, Release, Parse
<1>4. PipeInv'
  <2>1. pc[t] # "receive" /\ pc'[t] # "receive"
    BY <1>1
  <2> QED BY <1>1, <1>2, <1>3, <2>1, PipeUnchanged
<1>5. OwnAnswer'
  BY <1>1, <1>2 DEF OwnInv, OwnAnswer, Current
<1> QED BY <1>4, <1>5

\* The end of a wait: the pipe of the helper is left quiet.
LEMMA PipeLeft ==
  ASSUME OwnInv, NEW t \in Thread, pc[t] = "receive", pc'[t] # "receive",
         responses'[held[t]] = <<>>,
         life[held[t]] # "dead" => requests[held[t]] = <<>>,
         \A u \in Thread : u # t => pc'[u] = pc[u] /\ held'[u] = held[u],
         \A g \in Helper : g # held[t] => responses'[g] = responses[g],
         UNCHANGED <<calls, requests, life>>
  PROVE  PipeInv'
<1>1. ASSUME NEW g \in Helper,
             \A u \in Thread : held'[u] = g => pc'[u] # "receive",
             g # held[t]
      PROVE  Quiet(g)'
  <2>1. \A u \in Thread : held[u] = g => pc[u] # "receive"
    BY <1>1
  <2>2. Quiet(g)
    BY <2>1 DEF OwnInv, PipeInv
  <2> QED BY <1>1, <2>2 DEF Quiet
<1>2. ASSUME NEW u \in Thread, pc'[u] = "receive"
      PROVE  Asked(held[u], Current(u))' \/ Answered(held[u], Current(u))'
  <2>1. u # t /\ pc[u] = "receive" /\ held'[u] = held[u]
    BY <1>2
  <2>2. held[u] # held[t] /\ held[u] \in Helper
    BY <2>1 DEF OwnInv, UseInv, TypeOK, Exclusive
  <2>3. Asked(held[u], Current(u)) \/ Answered(held[u], Current(u))
    BY <2>1 DEF OwnInv, PipeInv
  <2>4. responses'[held'[u]] = responses[held[u]] /\ Current(u)' = Current(u)
    BY <2>1, <2>2 DEF Current
  <2> QED BY <2>1, <2>3, <2>4 DEF Asked, Answered
<1>3. \A g \in Helper :
        (\A u \in Thread : held'[u] = g => pc'[u] # "receive") => Quiet(g)'
  <2>1. ASSUME NEW g \in Helper, g = held[t] PROVE Quiet(g)'
    BY <2>1 DEF Quiet
  <2> QED BY <1>1, <2>1
<1> QED BY <1>2, <1>3 DEF PipeInv

LEMMA OwnReceive ==
  ASSUME OwnInv, NEW t \in Thread, Receive(t)
  PROVE  PipeInv' /\ OwnAnswer'
<1> DEFINE h == held[t]
<1>1. /\ pc[t] = "receive" /\ h \in Helper /\ responses[h] # <<>>
      /\ line' = [line EXCEPT ![t] = Head(responses[h])]
      /\ responses' = [responses EXCEPT ![h] = Tail(@)]
      /\ UNCHANGED <<calls, held, requests, life>>
  BY DEF OwnInv, UseInv, TypeOK, Receive
<1>2. pc'[t] = "release" /\ \A u \in Thread : u # t => pc'[u] = pc[u]
  BY DEF OwnInv, UseInv, TypeOK, Receive
<1>3. PICK r \in Line : /\ r.call = Current(t) /\ responses[h] = <<r>>
                        /\ life[h] # "dead" => requests[h] = <<>>
  BY <1>1 DEF OwnInv, PipeInv, Asked, Answered
<1>4. Head(responses[h]) = r /\ Tail(responses[h]) = <<>>
  BY <1>3
<1>5. responses'[h] = <<>> /\ \A g \in Helper : g # h => responses'[g] = responses[g]
  BY <1>1, <1>4 DEF OwnInv, UseInv, TypeOK
<1>6. PipeInv'
  <2>1. pc'[t] # "receive" /\ \A u \in Thread : u # t => pc'[u] = pc[u] /\ held'[u] = held[u]
    BY <1>1, <1>2
  <2> QED BY <1>1, <1>3, <1>5, <2>1, PipeLeft
<1>7. OwnAnswer'
  <2>1. line'[t] = r /\ \A u \in Thread : u # t => line'[u] = line[u]
    BY <1>1, <1>4 DEF OwnInv, UseInv, TypeOK
  <2> QED BY <1>1, <1>2, <1>3, <2>1 DEF OwnInv, OwnAnswer, Current
<1> QED BY <1>6, <1>7

LEMMA OwnEndOfFile ==
  ASSUME OwnInv, NEW t \in Thread, EndOfFile(t)
  PROVE  PipeInv' /\ OwnAnswer'
<1>1. /\ pc[t] = "receive" /\ pc'[t] = "idle"
      /\ responses[held[t]] = <<>> /\ life[held[t]] = "dead"
      /\ UNCHANGED <<calls, line, requests, responses, life>>
  BY DEF OwnInv, UseInv, TypeOK, EndOfFile
<1>2. \A u \in Thread : u # t => pc'[u] = pc[u] /\ held'[u] = held[u]
  BY DEF OwnInv, UseInv, TypeOK, EndOfFile
<1>3. PipeInv'
  <2>1. /\ pc'[t] # "receive" /\ responses'[held[t]] = <<>>
        /\ life[held[t]] # "dead" => requests[held[t]] = <<>>
    BY <1>1
  <2> QED BY <1>1, <1>2, <2>1, PipeLeft
<1>4. OwnAnswer'
  BY <1>1, <1>2, OwnUnchanged
<1> QED BY <1>3, <1>4

-----------------------------------------------------------------------------
\* A step of a helper is seen by at most the thread that has it.
LEMMA PipeHelper ==
  ASSUME OwnInv, NEW h \in Helper, Quiet(h) => Quiet(h)',
         \A t \in Thread : pc[t] = "receive" /\ held[t] = h =>
            Asked(h, Current(t))' \/ Answered(h, Current(t))',
         \A g \in Helper : g # h => /\ responses'[g] = responses[g]
                                   /\ requests'[g] = requests[g]
                                   /\ life'[g] = life[g],
         UNCHANGED <<pc, held, calls, line>>
  PROVE  PipeInv' /\ OwnAnswer'
<1>1. ASSUME NEW g \in Helper,
             \A u \in Thread : held'[u] = g => pc'[u] # "receive"
      PROVE  Quiet(g)'
  <2>1. \A u \in Thread : held[u] = g => pc[u] # "receive"
    BY <1>1
  <2>2. Quiet(g)
    BY <2>1 DEF OwnInv, PipeInv
  <2>3. CASE g = h
    BY <2>2, <2>3
  <2>4. CASE g # h
    BY <2>2, <2>4 DEF Quiet
  <2> QED BY <2>3, <2>4
<1>2. ASSUME NEW u \in Thread, pc'[u] = "receive"
      PROVE  Asked(held[u], Current(u))' \/ Answered(held[u], Current(u))'
  <2>1. pc[u] = "receive" /\ held'[u] = held[u] /\ held[u] \in Helper
    BY <1>2 DEF OwnInv, UseInv, TypeOK
  <2>2. CASE held[u] = h
    <3>1. Asked(h, Current(u))' \/ Answered(h, Current(u))'
      BY <2>1, <2>2
    <3> QED BY <2>1, <2>2, <3>1 DEF Asked, Answered
  <2>3. CASE held[u] # h
    <3>1. Asked(held[u], Current(u)) \/ Answered(held[u], Current(u))
      BY <2>1 DEF OwnInv, PipeInv
    <3> QED BY <2>1, <2>3, <3>1 DEF Asked, Answered, Current
  <2> QED BY <2>2, <2>3
<1>3. OwnAnswer'
  BY DEF OwnInv, OwnAnswer, Current
<1> QED BY <1>1, <1>2, <1>3 DEF PipeInv

\* A helper that lives and has a request has it of the one thread that waits.
LEMMA RequestIsAsked ==
  ASSUME OwnInv, NEW h \in Helper, life[h] = "alive", requests[h] # <<>>
  PROVE  /\ ~Quiet(h)
         /\ \A t \in Thread : pc[t] = "receive" /\ held[t] = h =>
               /\ Asked(h, Current(t))
               /\ requests[h] = <<Current(t)>>
               /\ responses[h] = <<>>
               /\ Current(t) \in Call
<1>1. ~Quiet(h)
  BY DEF Quiet
<1>2. ASSUME NEW t \in Thread, pc[t] = "receive", held[t] = h
      PROVE  Asked(h, Current(t)) /\ Current(t) \in Call
  <2>1. Asked(h, Current(t))
    BY <1>2 DEF OwnInv, PipeInv, Answered
  <2>2. Current(t) \in Call
    BY DEF OwnInv, UseInv, TypeOK, Current, Call
  <2> QED BY <2>1, <2>2
<1> QED BY <1>1, <1>2 DEF Asked

\* What it writes, of the answer or of half of it, is for that thread.
LEMMA Answering ==
  ASSUME OwnInv, NEW h \in Helper, life[h] = "alive", requests[h] # <<>>,
         NEW out \in Verdict \cup {"torn"},
         responses' = [responses EXCEPT ![h] =
                         Append(@, [call |-> Head(requests[h]), out |-> out])],
         life'[h] # "dead" => requests'[h] = Tail(requests[h]),
         UNCHANGED <<pc, held, calls>>
  PROVE  \A t \in Thread : pc[t] = "receive" /\ held[t] = h =>
            Answered(h, Current(t))'
<1> SUFFICES ASSUME NEW t \in Thread, pc[t] = "receive", held[t] = h
             PROVE  Answered(h, Current(t))'
  OBVIOUS
<1> DEFINE c == Current(t)
           r == [call |-> c, out |-> out]
<1>1. requests[h] = <<c>> /\ responses[h] = <<>> /\ c \in Call
  BY RequestIsAsked
<1>2. r \in Line /\ r.call = c
  BY <1>1 DEF Line
<1>3. Head(requests[h]) = c /\ Tail(requests[h]) = <<>>
  BY <1>1
<1>4. responses'[h] = <<r>>
  <2>1. responses' = [responses EXCEPT ![h] = Append(@, r)]
    BY <1>3
  <2>2. responses'[h] = Append(responses[h], r)
    BY <2>1 DEF OwnInv, UseInv, TypeOK
  <2> QED BY <1>1, <2>2
<1>5. c' = c
  BY DEF Current
<1> HIDE DEF r
<1> QED BY <1>2, <1>3, <1>4, <1>5 DEF Answered

LEMMA OwnServe ==
  ASSUME OwnInv, NEW h \in Helper, Serve(h)
  PROVE  PipeInv' /\ OwnAnswer'
<1>1. PICK out \in Verdict :
        responses' = [responses EXCEPT ![h] =
                        Append(@, [call |-> Head(requests[h]), out |-> out])]
  BY DEF Serve
<1>2. /\ life[h] = "alive" /\ requests[h] # <<>>
      /\ requests' = [requests EXCEPT ![h] = Tail(@)]
      /\ UNCHANGED <<pc, held, calls, line, life>>
  BY DEF Serve
<1>3. requests'[h] = Tail(requests[h])
  BY <1>2 DEF OwnInv, UseInv, TypeOK
<1>4. \A g \in Helper : g # h => responses'[g] = responses[g] /\ requests'[g] = requests[g]
  BY <1>1, <1>2 DEF OwnInv, UseInv, TypeOK
<1>5. \A t \in Thread : pc[t] = "receive" /\ held[t] = h => Answered(h, Current(t))'
  BY <1>1, <1>2, <1>3, Answering
<1>6. ~Quiet(h)
  BY <1>2, RequestIsAsked
<1> QED BY <1>2, <1>4, <1>5, <1>6, PipeHelper

LEMMA OwnDie ==
  ASSUME OwnInv, NEW h \in Helper, Die(h)
  PROVE  PipeInv' /\ OwnAnswer'
<1>1. /\ life[h] = "alive" /\ life'[h] = "dead"
      /\ \A g \in Helper : g # h => life'[g] = life[g]
      /\ UNCHANGED <<pc, held, calls, line, requests>>
  BY DEF OwnInv, UseInv, TypeOK, Die
<1>2. CASE UNCHANGED responses
  <2>1. Quiet(h) => Quiet(h)'
    BY <1>1, <1>2 DEF Quiet
  <2>2. \A t \in Thread : pc[t] = "receive" /\ held[t] = h =>
          Asked(h, Current(t))' \/ Answered(h, Current(t))'
    BY <1>1, <1>2 DEF OwnInv, PipeInv, Asked, Answered, Current
  <2> QED BY <1>1, <1>2, <2>1, <2>2, PipeHelper
<1>3. CASE /\ requests[h] # <<>>
           /\ responses' = [responses EXCEPT ![h] =
                 Append(@, [call |-> Head(requests[h]), out |-> "torn"])]
  <2>1. \A t \in Thread : pc[t] = "receive" /\ held[t] = h => Answered(h, Current(t))'
    BY <1>1, <1>3, Answering
  <2>2. ~Quiet(h)
    BY <1>1, <1>3, RequestIsAsked
  <2>3. \A g \in Helper : g # h => responses'[g] = responses[g]
    BY <1>3 DEF OwnInv, UseInv, TypeOK
  <2> QED BY <1>1, <2>1, <2>2, <2>3, PipeHelper
<1> QED BY <1>2, <1>3 DEF Die

LEMMA OwnStep ==
  ASSUME OwnInv, Next
  PROVE  PipeInv' /\ OwnAnswer'
BY Steps, OwnAcquire, OwnSpawn, OwnSend, OwnRelease, OwnReceive, OwnEndOfFile,
   OwnServe, OwnDie

(***************************************************************************)
(* The line that run parses is the answer to its own request, although     *)
(* requests and responses carry no number and helpers die in between.      *)
(***************************************************************************)
THEOREM OwnAnswers == Spec => []OwnAnswer
<1>1. Init /\ UseInv => OwnInv
  BY DEF Init, OwnInv, PipeInv, Quiet, OwnAnswer
<1>2. OwnInv /\ UseInv' /\ [Next]_vars => OwnInv'
  <2>1. ASSUME OwnInv, UNCHANGED vars PROVE PipeInv' /\ OwnAnswer'
    <3>1. OwnAnswer'
      BY <2>1 DEF vars, OwnInv, OwnAnswer, Current
    <3>2. PipeInv'
      BY <2>1 DEF vars, OwnInv, PipeInv, Quiet, Asked, Answered, Current
    <3> QED BY <3>1, <3>2
  <2> QED BY <2>1, OwnStep DEF OwnInv
<1>3. OwnInv => OwnAnswer
  BY DEF OwnInv
<1> QED BY <1>1, <1>2, <1>3, UseInvariant, PTL DEF Spec

-----------------------------------------------------------------------------
(***************************************************************************)
(* What a death costs.  A helper that lives has failed nobody; one that    *)
(* has failed two calls has been forgotten.                                *)
(***************************************************************************)
Worn ==
    \A h \in Helper :
        /\ life[h] # "dead" => harm[h] = 0
        /\ harm[h] <= 2
        /\ harm[h] = 2 => /\ \A t \in Thread : held[t] # h
                          /\ \A i \in 1 .. Len(pool) : pool[i] # h

WearInv == UseInv /\ Worn

\* A thread that finds its helper dead forgets it.
LEMMA WornForgotten ==
  ASSUME WearInv, NEW t \in Thread, BrokenPipe(t) \/ EndOfFile(t)
  PROVE  Worn'
<1> DEFINE h == held[t]
<1>1. /\ h \in Helper /\ h # NoHelper /\ life[h] = "dead"
      /\ harm' = [harm EXCEPT ![h] = harm[h] + 1]
      /\ held' = [held EXCEPT ![t] = NoHelper]
      /\ UNCHANGED <<pool, life>>
  BY DEF WearInv, UseInv, TypeOK, BrokenPipe, EndOfFile
<1>2. /\ \A u \in Thread : held'[u] # h
      /\ \A i \in 1 .. Len(pool) : pool[i] # h
  BY <1>1 DEF WearInv, UseInv, TypeOK, Exclusive
<1>3. harm[h] \in Nat /\ harm[h] <= 2 /\ harm[h] # 2
  BY <1>1 DEF WearInv, UseInv, TypeOK, Worn
<1> HIDE DEF h
<1>4. harm'[h] <= 2 /\ \A g \in Helper : g # h => harm'[g] = harm[g]
  BY <1>1, <1>3 DEF WearInv, UseInv, TypeOK
<1>5. \A u \in Thread : held'[u] = held[u] \/ held'[u] = NoHelper
  BY <1>1 DEF WearInv, UseInv, TypeOK
<1> SUFFICES ASSUME NEW g \in Helper
             PROVE  /\ life'[g] # "dead" => harm'[g] = 0
                    /\ harm'[g] <= 2
                    /\ harm'[g] = 2 => /\ \A u \in Thread : held'[u] # g
                                       /\ \A i \in 1 .. Len(pool') : pool'[i] # g
  BY DEF Worn
<1>6. CASE g = h
  BY <1>1, <1>2, <1>4, <1>6
<1>7. CASE g # h
  <2>1. g # NoHelper
    BY PoolAssumption DEF PoolAssumption
  <2> QED BY <1>1, <1>4, <1>5, <1>7, <2>1 DEF WearInv, Worn
<1> QED BY <1>6, <1>7

\* A helper that changes hands has not failed two calls.
LEMMA WornHanded ==
  ASSUME WearInv, NEW t \in Thread, Acquire(t) \/ Spawn(t) \/ Release(t)
  PROVE  Worn'
<1> USE DEF WearInv
<1>1. harm' = harm /\ Len(pool) \in Nat
  BY DEF Acquire, Spawn, Release, UseInv, TypeOK
<1>2. \A g \in Helper : life'[g] # "dead" => life[g] # "dead"
  BY DEF Acquire, Spawn, Release, UseInv, TypeOK
<1>3. CASE Acquire(t)
  <2>1. CASE pool = <<>>
    BY <1>1, <1>2, <1>3, <2>1 DEF Acquire, Worn
  <2>2. CASE pool # <<>>
    <3>1. /\ pool' = PoppedPool /\ held' = [held EXCEPT ![t] = pool[Len(pool)]]
      BY <1>3, <2>2 DEF Acquire
    <3>2. /\ Len(PoppedPool) = Len(pool) - 1 /\ Len(pool) \in 1 .. Len(pool)
          /\ \A i \in 1 .. Len(pool) - 1 : PoppedPool[i] = pool[i]
      BY <1>1, <2>2, PoppedPoolFacts DEF UseInv, TypeOK
    <3>3. \A i \in 1 .. Len(pool') : i \in 1 .. Len(pool) /\ pool'[i] = pool[i]
      BY <1>1, <3>1, <3>2
    <3>4. \A u \in Thread : held'[u] = held[u] \/ held'[u] = pool[Len(pool)]
      BY <3>1 DEF UseInv, TypeOK
    <3> QED BY <1>1, <1>2, <3>2, <3>3, <3>4 DEF Worn
  <2> QED BY <2>1, <2>2
<1>4. CASE Spawn(t)
  <2>1. PICK h \in Helper : life[h] = "unborn" /\ held' = [held EXCEPT ![t] = h]
    BY <1>4 DEF Spawn
  <2>2. harm[h] = 0 /\ pool' = pool
    BY <1>4, <2>1 DEF Spawn, Worn
  <2>3. \A u \in Thread : held'[u] = held[u] \/ held'[u] = h
    BY <2>1 DEF UseInv, TypeOK
  <2> QED BY <1>1, <1>2, <2>2, <2>3 DEF Worn
<1>5. CASE Release(t)
  <2>1. /\ held[t] \in Helper /\ pool' = Append(pool, held[t])
        /\ held' = [held EXCEPT ![t] = NoHelper] /\ life' = life
    BY <1>5 DEF Release, UseInv, TypeOK
  <2>2. \A i \in 1 .. Len(pool') :
          \/ i \in 1 .. Len(pool) /\ pool'[i] = pool[i]
          \/ pool'[i] = held[t]
    BY <1>1, <2>1 DEF UseInv, TypeOK
  <2>3. \A u \in Thread : held'[u] = held[u] \/ held'[u] = NoHelper
    BY <2>1 DEF UseInv, TypeOK
  <2>4. \A g \in Helper : g # NoHelper
    BY PoolAssumption DEF PoolAssumption
  <2> QED BY <1>1, <2>1, <2>2, <2>3, <2>4 DEF Worn
<1> QED BY <1>3, <1>4, <1>5

\* A death with half a response fails its first call.
LEMMA WornDie ==
  ASSUME WearInv, NEW h \in Helper, Die(h)
  PROVE  Worn'
<1>1. /\ life[h] = "alive" /\ life' = [life EXCEPT ![h] = "dead"]
      /\ UNCHANGED <<pool, held>>
      /\ harm' \in {harm, [harm EXCEPT ![h] = harm[h] + 1]}
  BY DEF Die
<1>2. harm[h] = 0
  BY <1>1 DEF WearInv, Worn
<1>3. /\ harm'[h] \in {0, 1}
      /\ \A g \in Helper : g # h => harm'[g] = harm[g]
  BY <1>1, <1>2 DEF WearInv, UseInv, TypeOK
<1>4. life'[h] = "dead" /\ \A g \in Helper : g # h => life'[g] = life[g]
  BY <1>1 DEF WearInv, UseInv, TypeOK
<1> QED BY <1>1, <1>3, <1>4 DEF WearInv, Worn

(***************************************************************************)
(* A helper that dies fails at most two calls, although it may be given    *)
(* back to the pool once after its death: the second call that meets it    *)
(* finds the pipe broken and forgets it.                                   *)
(***************************************************************************)
THEOREM DeathsFailTwo == Spec => []DeathFailsTwo
<1>1. Init /\ UseInv => WearInv
  BY DEF Init, WearInv, Worn
<1>2. WearInv /\ UseInv' /\ [Next]_vars => WearInv'
  <2>1. ASSUME WearInv, UNCHANGED <<pool, held, life, harm>> PROVE Worn'
    BY <2>1 DEF WearInv, Worn
  <2>2. ASSUME WearInv, NEW t \in Thread, Send(t) \/ Receive(t) \/ Parse(t)
        PROVE  Worn'
    BY <2>1, <2>2 DEF Send, Receive, Parse
  <2>3. ASSUME WearInv, NEW h \in Helper, Serve(h)
        PROVE  Worn'
    BY <2>1, <2>3 DEF Serve
  <2>4. ASSUME WearInv, Next PROVE Worn'
    BY <2>2, <2>3, <2>4, Steps, WornForgotten, WornHanded, WornDie
  <2>5. ASSUME WearInv, UNCHANGED vars PROVE Worn'
    BY <2>1, <2>5 DEF vars
  <2> QED BY <2>4, <2>5 DEF WearInv
<1>3. WearInv => DeathFailsTwo
  BY DEF WearInv, Worn, DeathFailsTwo
<1> QED BY <1>1, <1>2, <1>3, UseInvariant, PTL DEF Spec
=============================================================================
