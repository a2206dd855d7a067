# EVMLean in TLA+

EVMLean is an executable formal model of the Ethereum Virtual Machine (Cancun)
in Lean 4: the Yellow Paper's functions Υ, Θ, Λ, Ξ, X, Z, the precompiled
contracts, and a conformance runner that imports the blocks of the Ethereum
tests, with Python scripts and a C library for tries, curves and hashes. This
directory models the parts of it that carry its logic in TLA+,
checks them with TLC on small instances, and proves the properties that matter
most with TLAPS for every value of the constants.

## The system

| Component | State | Operations | Talks to |
|---|---|---|---|
| Account map and substate (`Ethereum/State`, `Ethereum/Maps`, `StateOps.lean`) | σ: address → account (nonce, balance, code, storage, transient storage); A: self-destruct set, refund counter, accessed sets, logs, created accounts | lookups, credits, debits, storage, accessed sets, refunds | read and written by the machine and by Υ |
| Gas schedule (`Gas.lean`, `GasConstants.lean`, `Sat256.lean`) | none | the cost of an instruction in a state | called by Z before every instruction |
| Message-call machine (`Semantics.lean` 150–1070) | a stack of Θ/Λ activations, each with gas, fuel, depth, permission, and the σ and A to give back | one instruction; call and create; the results of Θ and Λ | Υ calls Θ or Λ; call and create recur |
| Transactions (`Semantics.lean` 1083–1196, `TestRunner.lean` 202–395) | σ between transactions | validation, up-front payment, execution, refund, fee, erasure | the block import calls it once per transaction |
| Block import (`TestRunner.lean` 114–673) | the processed blocks, the current σ, gas and receipts of the block, the last substate | header validation, beacon-root call, transactions, withdrawals, block validation, expected exceptions | Υ, Θ, trie roots |
| Test scheduling (`Main.lean`) | a shared queue index, the results of each worker | splitting files in units, taking a unit, collecting the results | starts threads that import blocks |
| Python helpers (`PythonHelper.lean`, `helper_server.py`, `PerformIO.lean`) | the pool of idle helper processes, two pipes to each | acquire, spawn, request, respond, release, fail | every thread, for signatures, tries and curves |
| Scripts (`EllipticCurvesPy`, but for `previous_trie.py`) | none: each runs from its arguments to a line | trie roots with RLP, addition, multiplication and pairing on alt_bn128, BLAKE2, KZG point evaluation; under them integers, fields and curves | a helper runs one per request |
| Pure functions (`UInt256.lean`, `Wheels.lean`, `BlockHeader.lean`, `PrecompiledContracts.lean`, `FFI`) | none | words of the EVM, RLP both ways, the blob gas price, EXPMOD, BLAKE2 | everything |

Behaviours that are hard: recursion through `call` and `create` with state that
is given back on failure; gas that moves between frames with subtractions that
saturate; flags that must survive any nesting (static permission, depth); words
that wrap; forks and expected failures in the block import; worker threads and
helper processes that share a queue and a pool, and a helper that dies; loops
of scripts that nobody interrupts; algorithms written twice, in Python and in
Lean or C, that must agree on every bit; arithmetic with many edges.

What makes each component correct: the machine conserves ether and gas, gives
back exactly what a failed call did, keeps static calls from writing, never
wraps a depth, a nonce or a refund, and always ends; a transaction is executed
once, pays what it used and never more than its sender agreed to; a block is
accepted if and only if it is valid on its own parent, whatever was imported
before it; every selected test is run once and accounted for; a line read from
a helper answers the request of the thread that reads it, and every request is
answered or fails; a number is what the integers say or an exception, an
encoding decodes to what was encoded and a root commits to its entries, the
points and the pairing obey the laws of their groups, and every loop ends.

## The modules

| Module | Models | Kind |
|---|---|---|
| `WorldState` | σ and A with their operations | data and operators |
| `GasSchedule` | the costs of `Gas.lean` | operators |
| `Evm` | X, Xstep, Z, step, call, create, Ξ, Λ, Θ | state machine |
| `EvmInvariants` | what `Evm` keeps true, and the inductive strengthenings | properties |
| `NestedCalls` | what call and create promise a contract | abstract specification |
| `Transaction` | validation, Υ, executeTransaction; it extends `Evm`, whose steps are its Execute | state machine |
| `TransactionInvariants` | the promises of a block's transactions | properties |
| `BlockHeader` | base fee, gas limit and excess blob gas from the parent | operators |
| `BlobGasPrice` | fakeExponential, round by round | computation |
| `BlockImport` | processBlocks, processBlock, validateBlock, preImpliesPost, BLOCKHASH | state machine |
| `BlockImportInvariants` | against the meaning of a block that `BlockImport` defines without regard to imports | properties |
| `PythonPool` | PythonHelper.run, helper_server.py, unsafePerformIO, ECDSARECOVER's reading of a failure | state machine |
| `WorkQueue` | workUnits, runWorkUnits, processTests, main's exit code | state machine |
| `Computation` | one script or pure function at a time: start, step, answer, respond | state machine |
| `Bits`, `PythonInt` | the operators & \| ^ \*\*, the numbers bytes stand for, slices of byte arrays; Python's int (external) | operators |
| `Uint`, `FixedUint`, `UInt256` | the methods of `base_types.py`; the words of the EVM | operators |
| `Words` | one number and one word through one method after another; codings; signed words | computation |
| `Rlp` | both encoders and the decoder | computation |
| `Trie` | `trie_root.py` and what it runs of `trie.py` | computation |
| `ModExp` | EXPMOD | computation |
| `PrimeField`, `GaloisField`, `Field` | `finite_field.py`: two classes and the protocol over them | operators |
| `FieldArithmetic` | the inverse and the power, round by round | computation |
| `EllipticCurve`, `AltBn128` | points, `bn_add.py`, `bn_mul.py`, `snarkv.py` with the Miller loop round by round | operators, computation |
| `Blake2` | `blake2.py` and `ffi.c` in lockstep, round by round | computation |
| `Kzg` | `point_evaluation.py`, `kzg.py` | computation |
| `MCEvm`, `MCTransaction`, `MCBlockImport`, `MCPythonPool`, `MCWorkQueue`, `MCComputations`, `MCFieldInverse` | instances for TLC | |
| `DataTheorems` | what the fold behind every sum returns; smallest counterexamples and recursive functions; powers, bits, digits, remainders | lemmas |
| `EvmProofs`, `EvmAccountProofs` | the machine: types, gas, static calls; accounts, nested calls; ether, refunds | proofs |
| `TransactionProofs`, `BlockImportProofs`, `PythonPoolProofs`, `WorkQueueProofs` | the other state machines | proofs |
| `ComputationProofs` | words and codings, the blob gas price, BLAKE2, KZG, EXPMOD | proofs |

`Transaction` extends `Evm`, which uses `GasSchedule` and `WorldState`;
`BlockImport` uses `BlockHeader`; `MCComputations` joins all computations into
one next-state relation. `NestedCalls` is the abstract specification that `Evm`
implements.

### The message-call machine

The program is a set of mutually recursive functions over `EVM.State`; `Evm`
makes the recursion a stack. `frames` has one record for every Θ or Λ that has
not returned: the owner, source, permission and depth of its execution
environment, its gas, what is left of the fuel of its X, the gas it was given,
what its caller is charged, and the σ and A its failure gives back. `world` and
`sub` are the σ and A of the innermost frame, `halt` is what its X has returned
and Θ or Λ has not used yet, `flag` the z returned last, `origin` is σ₀.

An action is one round of X: Z's checks and charge are the guard (`Executes`
and what each instruction adds), step is the update, so an instruction whose
guard is false is not executed and the frame ends by `Fault`, as it does for
every exception of Z that depends on what is abstracted (stack heights, jump
targets, memory offsets, return data). `Call` and `Create` push a frame with
Θ's transfer or Λ's σ\* done, `CallRefused` and `CreateRefused` are the branch
that does not call, `Resume` is the rest of call or create in the caller with
Θ's or Λ's result (`ThetaResult`, `LambdaResult`), `Finish` the return to Υ.
`RunPrecompile` is a precompiled contract, which costs something and succeeds
or fails. Θ tests the empty account map for failure, so does `ThetaResult`.

Abstracted: a contract's code is any sequence of the instructions in `Ops`
(every program is a path of the machine), its size stands for it; operands are
taken from small sets instead of a stack; the address of a creation is a hash,
so it is any address but the creator's and the precompiles'; instructions on
the stack, memory and pc are one, with any cost of at least 1.

### Transactions

`Transaction` runs `Evm` inside a block: `Pay` is validateTransaction and the
part of Υ up to σ₀, `Execute` every step of Θ or Λ, `Settle` the refund, the
fee, the erasures and the new block state. A transaction is a record of the
fields these functions read; signature, encoding and init code size are good,
the intrinsic gas is a field.

### Block import

`Fixture` is a tree of blocks with honest and lying headers. `Begin`, `Decode`,
`ValidateHeader`, `Transact`, `Withdraw` and `ValidateBlock` are the phases of
the import of one block, `Catch` the handler that accepts an exception the
fixture expects, `Compare` is preImpliesPost. A state is the sequence of what
was done to the genesis state, and a root, bloom or hash is the thing itself,
so that two of them agree exactly when the things do. `TrueState` and `Valid`
say what a block means from its chain alone; the invariants compare.

### Runner and helpers

`WorkQueue` has a program counter for each worker and one for main; reading and
incrementing the shared index is one step (`modifyGet`). `PythonPool` has a
program counter for each thread, a request pipe and a response pipe for each
helper, and helpers that die idle, while they run a script or in the middle of
a line. A pipe is a sequence of lines, a line knows the call it is for only so
that the properties can say whose answer it is: no action reads it.

### Scripts and pure functions

A helper runs one script at a time and a pure function has no state at all, so
`Computation` has one of them running: `task` is its name, `argv` what it was
called with, `locals` its local variables, `answer` its result or exception. An
action is a round of a loop, or a stretch between two. Nothing outlives a
computation. What the loops keep true and what comes out of them is stated
against a definition the code does not use: the exact integers, the multiplier
of a point, the search of a key from a root.

Widths are parameters. The offsets and limits the source writes as 32, 255, 64
or 213 follow from them; only RLP has its real limits (55 and 255 bytes).

- `Words`: a number goes through methods of `Uint`, or through those of
  `FixedUint` and, with the same operands, those of `UInt256`. Beside it runs
  the exact integer. Every operand that is refused is among the operands.
- `Trie`: a hash is a sequence of 32 bytes that tells what was hashed, so it
  does not collide, and a node is embedded or hashed by its real length.
- `AltBn128`: the real class structure, constants of a small curve. In the
  source `ATE_PAIRING_COUNT` is one more than the number whose bits are read;
  so is the constant here.
- `Blake2`: the code sets `v[8:15]`, seven places, to eight words, so `v` has 17;
  the model has them too. The offsets are those of words of `WORD_BYTES` bytes.
- `Kzg`: a point is its multiplier of the generator, a pairing the product of
  two; what `py_ecc` does with encodings is the predicate `KeyValidate`.
- `ModExp`: numbers of any length behind their lengths, and the base made a
  word (`.ofNat`) as the code does.

## The runs

| Run | Asks | States |
|---|---|---|
| `evm_gas` | stipends, cold and warm access, precompiles, memory costs, refused calls, GasRetention 3 so that the 63/64 rule bites: is gas conserved, is there fuel, does it end? | 22,102 |
| `evm_state` | calls of all four kinds, value, creations, collisions, nonce limit, storage, logs, reverts and self-destruction, three frames deep: depth, static protection, ether, codes, nonces, refunds; and does the machine implement `NestedCalls`? | 666,909 |
| `transactions` | two transactions of a block of all three kinds, tips, contention for the block's gas, creations, erasures | 275,847 |
| `block_import` | four imports in any order of fifteen blocks, with any expected exceptions, and the comparison at any point | 59,689 |
| `python_pool` | two threads, two calls each, three helpers, one death at any point | 117,748 |
| `work_queue` | one or two workers, a large and a small file, up to three and one selected tests, every outcome and failure | 18,445 |
| `computations` | every script and pure function on small inputs that are on both sides of each of its limits | 105,221 |
| `block_logs`, `block_forks`, `python_fails`, `work_zero`, `field_inverse` | the findings below | |

Deadlock is checked for the computations, which always go on to the next; the
other systems stop when they are done.

**Bounds.** `MaxDepth` 2 (1024) lets a call be refused for depth and lets a
grandchild succeed while its parent fails, which is what nesting can go wrong
at; `MaxNonce` 2 or 3 (2^64 − 1) makes the cap reachable; `WordSize` 32 or 64 is
above every honest sum, so a wrap shows a missing check; transactions with 4 or
5 units of gas make three to five instructions in all frames together, enough
for a call that writes, a nested call that undoes, and a failure of either. The
fee schedules are small numbers that satisfy what `FeeScheduleAssumption` asks
of the real ones. Three frames of two or three addresses distinguish caller,
callee, third party and a delegated owner. In `BlockImport` four imports are a
fork, a block on each side, and a refused block between any two of them. In
`PythonPool` three helpers are one for each thread and one to replace the dead
one; `MaxDeaths` 1 with two calls per thread lets the next call meet the
broken helper.

In `computations` words have two bytes of two bits, and the operands are both
sides of 0, of the sign bit and of the largest word; two methods in a row let a
number that is none be used. RLP items are strings and lists on both sides of
each limit, two levels deep, and numbers, truth values, dataclasses and what
has no encoding, alone and within lists. Tries have three entries with keys that differ
early, late, or not at all up to the end of one, and a value too long to be
embedded. The curve is the smallest Barreto-Naehrig curve, that of u = 1:
y² = x³ + 5 over F₁₀₃ has 97 points, its sextic twist by 2 + i has 97 · 109,
the embedding degree is 12; every sum of two of its points is taken, and the
twist has points outside the subgroup. The Miller loop would run for
6u + 2 = 8; it runs for 8 + 97, which leads to the same point and has more bits
set. Fields are F₄₉ and F₃₄₃, every element of them. BLAKE2 has words of 8 bits
and 0, 1 or 12 rounds, beyond the 10 rows of its table. KZG is over F₅, where
all polynomials of degree 0, some of degree 2 and every claim about their
values are tried. Excess blob gas goes to twice the fraction.

**Fairness.** `Evm!FairSpec` is weak fairness of the whole next-state relation:
Lean evaluates a total function, which does not stop while a step is left.
`PythonPool!FairSpec` is weak fairness of a thread inside `run` and of a helper
that has a request: the operating system schedules processes, and no script
loops forever; beginning a call and dying have none. `WorkQueue!FairSpec` is
weak fairness of main and of each worker, which `IO.asTask .dedicated` gives a
thread of its own; a test ends because a transaction does (`Termination`). The
computations need none: that their loops end is shown by what each round takes
off a natural number (`LoopsDescend`).

**What breaks them.** Beside the definitions the properties are about stand
mutants of them, each a plausible slip (a dropped guard, the state of the last
block instead of the parent's, a chunk rounded down); none is part of a
specification. Replacing a definition by its mutant makes TLC find the property
violated.

## What is proved

For any addresses, words, fee schedule, checkpoint states, gas, transactions,
trees of blocks, files, number of threads and helpers, widths of words, lengths
of data and rounds of a loop. The assumptions are
named, stand in the modules that declare the constants, and the runs evaluate
them: `WordSizeAssumption`, `WordAssumption`, `AddressAssumption` (there are
finitely many), `NoAccountAssumption`, `FeeScheduleAssumption`,
`MachineAssumption`, `EtherAssumption` (all the ether fits a word),
`RefundAssumption` (a transaction has not the gas to refund more than fits a
word), `TransactionAssumption`, `HeaderAssumption`, `ImportAssumption`,
`ContentAssumption` (a transaction uses no more than its gas limit, no block is
its own ancestor), `PoolAssumption` and `QueueAssumption`; of the computations
`WordAssumption` of `Words` (a word is some bytes of some bits), `NumbersAssumption` (an
exception is not a number), `BlobAssumption`, `BlakeAssumption` (a word of 2^W
values is some bytes, no rotation is longer than a word), `KzgAssumption` and
`ExpModAssumption`.

**Sums.** `DataTheorems` shows of the fold of the community modules what it
returns for no member, for one member more, for two functions that differ in
one place, and how sums compare. A set without the law would have a smallest
subset without it, which is one member away from a subset with it; that
replaces an induction. The same argument gives the functions that are defined
along the parents of blocks (`TreeRecursion`): they exist because no node is
its own ancestor.

**Numbers.** It gives `And`, `ToThe`, `PrefixValues` and `BE` too, which recur
on half of a number, on a smaller one, on a prefix, or on what is left of a
number without its last byte. A set of naturals that is closed under the step
of the recursion (`Induction`, `HalvingInduction`) is all of them, and from
that come the laws of powers, of bits (Xor is associative and commutative, And
with a mask is a remainder, Or and Xor of bits that do not overlap are their
sum) and of what digits write. Two numbers with the same remainder may replace
each other in sums, products and powers; the provers are shown this relation
and never the remainder itself, which keeps nonlinear arithmetic from them.

**The machine.**

- `EvmProofs!TypeCorrect`. `TypeOK` is inductive. What each operator of
  `WorldState` and each result of Θ and Λ returns is a lemma, then one step for
  each action.
- `EvmProofs!GasInvariant`, and from it `DepthIsBounded`,
  `GasAlwaysSettles` and `FuelIsSufficient`. That gas is less than fuel in the
  innermost frame is not inductive: when the callee returns, the caller has
  what the callee gave back. `Solvent` adds that a waiting caller's gas, less
  its charge, plus everything its callee was given, is still below its fuel,
  and that nobody has more gas than it was given nor was given more than its
  caller was charged, which rests on `Gcallstipend <= Gcallvalue`.
- `EvmProofs!StaticCallsAreFrozen`. `StaticFrozen` says that the state is
  the one a static frame was entered with; to survive a return it must hold of
  what that return gives back, so `Frozen` adds that every frame above a static
  one is a static call itself, entered with that same state.
- `EvmAccountProofs`: `CodeComesFromCreation`, `OnlyNewbornAreDestroyed`,
  `NonceIsBounded`, from `AccountInv`. A frame that fails gives back the state
  it was entered with, so each of the three must hold of every saved state:
  `Descends` says how a state and substate come from σ₀. That a created address
  was blank before does not follow from the check of Λ, which reads the state
  of the moment and not σ₀: it needs that nonces do not fall, that storage is
  written only where there is a nonce or code, and that whoever writes it has
  one (`Rooted`, which also must hold of the states saved above the frame).
  `NoncesBelowCap` needs MaxNonce ≥ 1, as Λ gives the new account nonce 1.
- `EvmAccountProofs!CallsCommitOrAbort`: the machine implements `NestedCalls`.
  The mapping is `VisibleStack`, the states saved in the frames and the present
  one; each action is a step that enters, writes, commits or aborts, or leaves
  all that is visible. A creation that succeeds deposits its code in an account
  that exists, which needs `Rooted` of `AccountInv`; code itself is left out of
  what is visible, and `CodeComesFromCreation` is about it.
- `EvmAccountProofs!EtherIsConserved`, from `EtherInv`: of the present state and
  of every saved one the balances sum to no more than at the start, and to as
  much while nothing has self-destructed. The credits of Θ, Λ and SELFDESTRUCT
  are sums of words, which would wrap but for that bound and
  `EtherAssumption`; the debits are covered by what Z has checked.
- `EvmAccountProofs!RefundIsCovered`, from `RefundInv`: the refund counter is at
  least `Rsclear` for each cleared slot, in every state that may come back. The
  counter is a word; `RefundBounded` keeps room in it for all the refunds that
  the gas of every frame can still buy, so it does not wrap.

**Transactions.** `TransactionProofs`, from the machine's invariants.

- `NothingIsReplayed` and `AccountsNeverGo`, from
  `BlockInv`, which composes `AccountInv` with the block: the machine works on
  the state the sender paid from (`Paid`), so what `AccountInv` says of σ₀ is
  said of the block's state with that one sender charged; the nonces of
  executed transactions are below those of their senders (`UsedUp`); what is
  erased was blank before the transaction, so nothing older goes.
- `FeesAlwaysSettle`, from `MoneyInv`: the products and sums of Υ do not wrap,
  because the up-front cost that validateTransaction compares is a natural
  number above each of them (`Affordable`); the machine never has more gas than was
  bought (`GasBought`), so the refund and the fee are within the payment; in
  whatever state comes back the sender has what it had, but for the value it
  sent itself, as no code runs in its name (`SenderKeeps`).
- `NoAccountIsLeftEmpty`, from `FilledInv`, if none was empty before the block:
  the machine makes an account only with a nonce or with value (`SparseInv`),
  and every saved state has none that is empty either.

**Block import.** `BlockImportProofs`, from `ImportInv` (`StatesAreOfChains`):
each processed block has the state of its own chain (`TrueState`) and its parent
before it, and what is executing has come so far to the state, gas, receipts and
nonces that its own chain gives its first transactions (`ExecutingInv`,
`StateInv`); nothing that was imported in between enters these, for any tree.

- `VerdictIsRight` and `BlockHashIsRight` follow; the second from the numbers of
  one chain being the places in the list.
- `AcceptedBlocksAreValid` and `RefusedBlocksAreInvalid` say that the checks of
  the code are those of validity, in both directions. They assume `Quiet`: no
  transaction of a block logs what the last one does not, and no block is
  without transactions. Without it they are false, as the run `block_logs`
  shows; the instance of the run `block_import` is quiet.

**Runner and helpers.**

- `PythonPoolProofs`: `TypeCorrect`; `MutualExclusion`, strengthened by `Born`
  (what is in the pool or held has been started, so a new helper is nobody's);
  `OwnAnswers`, strengthened by `PipeInv` (the pipes of a helper nobody waits
  for are empty, and those of one that a thread waits for have this thread's
  request or its response and nothing else); `DeathsFailTwo`, strengthened by
  `Worn` (a helper that has failed two calls is out of the pool for good).
- `WorkQueueProofs`: `TestsRunOnce`, strengthened by `QueueInv`: what is still
  in the queue, what each worker has reported and what it has ahead are pieces
  of the selected tests that nowhere overlap (`Partitioned`, `Apart`, `Fresh`),
  which rests on the arithmetic of the pieces of a split file. And
  `ReportsAreComplete`, from `ReportInv`: no test leaves the system
  (`NothingLost`) and main has what the workers it waited for had
  (`Collected`). It assumes that the number of threads is not 0, without which
  the run `work_zero` refutes it.

**Computations.** `ComputationProofs` has six theorems, each about the
specification of one computation alone (`BlobSpec`, `BlakeSpec`, `WordsSpec`,
`KzgSpec`, `ModExpSpec`). The run joins all of them and shows the
same properties, and nothing outlives a computation.

- `BlobPriceIsBracketed`: the loop never exceeds the partial sums of the
  exponential series, and the price has at least its first two terms. The
  property is stated with a common denominator (`Scale`), which makes each round
  a division that rounds down. The first round is apart: that its term is whole is
  what the lower bound rests on.
- `BlakeImplementationsAgree`, for any number of rounds. `rotr64` joins the two
  parts of a rotation by Or and Python by Xor, which agree because the parts
  have no bit in common (`RotationsAgree`); that the C code's turned flag word is
  Python's Xor with a mask is a law of masks; and the eight words of IV land in
  the same places although Python's slice is one short.
- `NumbersAreExact`: methods of `Uint` and `FixedUint` in any sequence leave the
  exact integer, or its remainder once one has wrapped, and the word of the EVM
  beside it; what is refused is no number of the class. That needs, between
  two methods, that the number is a word or a natural number and the remainder of the
  exact integer (`NumbersKept`).
- `SignedWordsAreIntegers`: SDIV, SMOD, SLT, SGT, SAR, SIGNEXTEND, BYTE and the
  shifts, which the code builds from absolute values, sign bits and masks, against
  signed integers, and each coding of `base_types.py` against its inverse. The
  invariant says which operands and which code there are (`SignedKept`).
- `OneValueIsProved`: that an honest input is accepted is the identity
  p(s) − p(z) = q(s) · (s − z), which the coefficients of synthetic division
  satisfy one after another (`PrefixValues`), for polynomials of every degree;
  that only these are, and only under one name, follows from the checks. The
  modulus need not be prime for it.
- `PowerOfBaseIsComputed`: a · cⁿ keeps its remainder through the rounds of
  squaring (`ModExpKept`), and the bytes of the result are as many as
  those of the modulus, for the number is below it. It is about bases no longer than a
  word, as the property is, since the code drops the upper bytes of a longer
  one; that the answer has the length of the modulus holds for all.

The proof of `NumbersAreExact` found the model wrong in one place: the reflected
power that leaves a number did not record its operand, so that the property
would have judged a refusal by the operand of the method before it.

**Only model-checked.** Liveness (`Termination`, `CallsReturn`, `RunEnds`) and
the descent of the loops to their ends, which `LoopsDescend` states of all
computations at once. `EncodingInverts` and `RootCommits`: items and tries are
nested data, encoded by `RECURSIVE` operators, and what such an operator computes
for every input needs an induction over data. `BezoutKept`, `PowersExact`,
`PointsAddUp` and `VerdictIsBilinear`: the fields are classes that are built of
each other, with recursive operators, and beyond them these are laws of algebra
(that points form a group, that the pairing is bilinear) that no prover at hand
knows.

## Findings

- `block_logs`: the log bloom of a block is compared with the logs of its last
  transaction only (`TestRunner.lean:144`, `447`); a valid block in which an
  earlier transaction logs is refused.
- `block_forks`: BLOCKHASH indexes all processed blocks by number
  (`StateOps.lean:87-92`); with a fork among them it gives the hash of a block
  that is no ancestor. `BlockHashOnOneChain` shows it right as long as the
  blocks form one chain.
- `python_fails`: a helper's failure becomes the default string
  (`PerformIO.lean:6`), which ECDSARECOVER pads with zeros and returns as a key.
- `work_zero`: with the argument 0 a large file is cut into no pieces, its tests
  are not run, and main reports without them.
- `field_inverse`: `multiplicative_inverse` of a constant of an extension field
  is 0 or an exception (`finite_field.py:318-361`): its first step leaves the
  leading coefficient of the modulus out when the element has degree 0. The
  branch for the second remainder repeats a list instead of scaling its members
  (`:345`). `BezoutKept` shows the other elements right, but for those that end
  in that branch, which get none.

Seen on the way, and not runs: a fixture with a state root is compared with the
block accepted last and not with `lastblockhash` (`TestRunner.lean:669`), which
is why `PassesOnLastBlock` asks that they be the same then; tests that could not
be parsed count neither as passed nor as failed (`Main.lean:153`);
`createdAccounts` keeps the address of a creation whose code deposit failed
(`Semantics.lean:923`); `touchedAccounts` is never filled, so Υ's erasure of
empty accounts has nothing to do, and `NoEmptyAccount` shows that the
transactions leave none; the inverse that fails makes some multiples of a valid
point of the second group raise, so that a valid input of the pairing may be
refused; `FixedUint.__rpow__` checks neither its result nor masks it
(`base_types.py:572-588`); the methods named wrapping say they raise ValueError
and raise OverflowError; `from_signed` takes every integer and wraps below
−2^255; EXPMOD makes its base a word and so loses the upper bytes of one longer
than 32 (`PrecompiledContracts.lean:190`), for which `PowerOfBase` does not
speak; `patricialize` names `Account` and `Receipt`, which are not defined, where
a key ends in a branch (`trie.py:387`), and no caller has such keys;
`rlp.py` imports neither `is_dataclass` nor `astuple` (`rlp.py:58-59`), so that a
dataclass is not encoded, as is meant, and whatever has no encoding raises
NameError and never the `RLPEncodingError` of line 61, which `EncodingInverts`
states and no caller meets, as the tries have bytes and lists only; the
docstring of `GaloisField` has the modulus in another order than the code;
BNF2's says "square root of 1" of i; the decoder of RLP goes on to other branches
on malformed input, and `blake2_f.py` is called by nothing, as the machine uses
the C code.

## Not modelled

Hash functions are taken not to collide; signatures (`coincurve`), the curve
BLS12-381 (`py_ecc`) and the hashes of the libraries are external. Of
`base_types.py` FixedBytes and `slotted_freezable`, which no script calls, are
left out; `previous_trie.py` is a near-copy of `trie.py` that is imported and
never called. The opcode table (`Instr.lean`) is data. The `Theory` directory
holds Lean proofs about the code, not code. JSON, log files, timings, progress
output and the choice of directories are left out of the runner. In the
machine: contents of stack, memory, code and return data, and the price of
EXPMOD, which is any cost of a precompiled contract. In the block import: amounts of
withdrawals, how a transaction changes the state (that is `Transaction`), and
checks that read one header alone, which are two flags. The computations are not
composed with `PythonPool`: a line of a pipe stands for what they answer.

## Plan

1. *Done*: the machine (`WorldState`, `GasSchedule`, `Evm`, `NestedCalls`), the
   transactions, the block import, the runner and the helpers, with their runs;
   the proofs of all their safety properties and of the refinement; the scripts
   and the pure functions, round by round, with proofs of those whose laws are
   arithmetic.
2. *Next, models*: decoding and the opcode table (`Instr.lean`,
   `Operations.lean`): Z's stack requirement against what step pops, jump
   destinations; memory and its expansion (`MachineStateOps.lean`, `Gas.lean`);
   the decoding of transactions and blocks on top of `Rlp`; the price of
   EXPMOD; withdrawals with amounts.
3. *Next, proofs*: the bounds of the base fee; RLP of items that are not
   nested; the power in a field, given the laws of the field.
