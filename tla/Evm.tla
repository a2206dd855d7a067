-------------------------------- MODULE Evm ---------------------------------
(***************************************************************************)
(* The message-call machine of Ethereum/Semantics.lean: X, Xstep, Z, step, *)
(* call, create, Ξ, Λ (Lambda) and Θ, for one transaction.                 *)
(*                                                                         *)
(* The program is a set of mutually recursive functions.  Here the         *)
(* recursion is a stack of frames, one for each Θ or Λ that has not        *)
(* returned; `world' and `sub' are the σ and A of the frame on top, and a  *)
(* frame keeps the σ and A it was entered with, which its failure gives    *)
(* back.  The code of a contract is any sequence of the instructions in    *)
(* Ops, so each action below is one instruction, with Z's charges and      *)
(* exceptions as its guard.  Instructions that only touch the stack, the   *)
(* memory or the pc are all Compute; the exceptions of Z that depend on    *)
(* them are in Fault, which any program may meet at any instruction.       *)
(***************************************************************************)
EXTENDS GasSchedule

CONSTANTS
    Precompile,    \* π, the addresses of the precompiled contracts
    WarmAccount,   \* H_c and the addresses of the transaction's access list
    WarmKey,       \* the storage keys of the access list
    MaxDepth,      \* 1024
    MaxNonce,      \* 2^64 - 1
    MaxCodeSize,   \* 24576
    \* bounds on what a program does
    Ops,           \* the instructions contracts are made of
    StepCost,      \* C' of the instructions under Compute
    MemoryCost,    \* memory expansion and other charges by size
    PrecompileCost,
    AskedGas,      \* the gas operand of the calls
    Wei,           \* values sent, by calls, creations and the transaction
    ReturnedSize,  \* sizes of the data a contract returns
    TxGas,         \* gas of the transaction, less its intrinsic gas
    Checkpoint     \* the account maps σ₀ a transaction may start from

CallOp   == {"CALL", "CALLCODE", "DELEGATECALL", "STATICCALL"}
CreateOp == {"CREATE", "CREATE2"}

MachineAssumption ==
    /\ Precompile \subseteq Address
    /\ WarmAccount \subseteq Address
    /\ WarmKey \subseteq Address \X Slot
    /\ MaxDepth \in Nat
    /\ MaxNonce \in Nat \ {0}
    /\ MaxCodeSize \in Nat
    /\ StepCost \subseteq Nat \ {0}
    /\ MemoryCost \subseteq Nat
    /\ PrecompileCost \subseteq Nat
    /\ AskedGas \subseteq Nat
    /\ Wei \subseteq Uint
    /\ ReturnedSize \subseteq Nat
    /\ TxGas \subseteq Nat
    /\ Checkpoint \subseteq AccountMap

ASSUME MachineAssumption

VARIABLES
    origin,   \* σ₀, the checkpoint state
    frames,   \* the Θ and Λ in progress, innermost last
    world,    \* σ of the innermost
    sub,      \* A of the innermost
    halt,     \* what X has returned for the innermost, until Θ or Λ uses it
    flag,     \* the z returned last, which the caller sees as x
    status    \* "idle", "running" or "done"

vars == <<origin, frames, world, sub, halt, flag, status>>

Frame == [kind   : {"call", "create"},
          owner  : Address,    \* I_a
          source : Address,    \* I_s
          code   : {"program", "empty", "precompile", "invalid"},
          perm   : BOOLEAN,    \* I_w
          depth  : Nat,        \* I_e
          gas    : Nat,
          fuel   : Nat,        \* what is left of X's fuel
          given  : Nat,        \* g, the gas the frame was entered with
          charge : Nat,        \* what the caller pays, less what comes back
          world  : AccountMap, \* σ and A the frame was entered with
          sub    : Substate]

Halt == [cause : {"none", "success", "revert", "error"},
         gas   : Nat,
         size  : Nat,          \* of the returned data
         ef    : BOOLEAN]      \* does it begin with the byte 0xef?

Running  == [cause |-> "none",  gas |-> 0, size |-> 0, ef |-> FALSE]
Failed   == [cause |-> "error", gas |-> 0, size |-> 0, ef |-> FALSE]
Success(g) == [cause |-> "success", gas |-> g, size |-> 0, ef |-> FALSE]

Top == frames[Len(frames)]

SetTop(f) == [frames EXCEPT ![Len(frames)] = f]
Pop       == SubSeq(frames, 1, Len(frames) - 1)

-----------------------------------------------------------------------------
(***************************************************************************)
(* Entering Θ and Λ, up to the fresh state that Ξ hands to X.              *)
(***************************************************************************)
CodeOf(m, t) ==
    IF t \in Precompile THEN "precompile"
    ELSE IF Lookup(m, t).code = 0 THEN "empty"
    ELSE "program"

\* Mutant: X has no round left for the instruction that halts.
ThetaFrameShortOfFuel(m, A, s, r, c, g, e, w, charge) ==
    [kind |-> "call", owner |-> r, source |-> s, code |-> c, perm |-> w,
     depth |-> e, gas |-> g, fuel |-> g, given |-> g, charge |-> charge,
     world |-> m, sub |-> A]

\* Θ(σ, A, s, r, c, g, v, e, w)
ThetaFrame(m, A, s, r, c, g, e, w, charge) ==
    [kind |-> "call", owner |-> r, source |-> s, code |-> c, perm |-> w,
     depth |-> e, gas |-> g, fuel |-> g + 1, given |-> g, charge |-> charge,
     world |-> m, sub |-> A]

\* EIP-7610: the address is taken.
Collides(m, a) ==
    \/ Lookup(m, a).nonce # 0
    \/ Lookup(m, a).code # 0
    \/ Lookup(m, a).storage # ZeroStorage

\* Λ(σ, A, s, g, v, e, w) for the new address a; A has a as accessed already.
LambdaFrame(m, A, s, a, g, e, w, charge) ==
    [kind |-> "create", owner |-> a, source |-> s,
     code |-> IF Collides(m, a) THEN "invalid" ELSE "program", perm |-> w,
     depth |-> e, gas |-> g, fuel |-> g + 1, given |-> g, charge |-> charge,
     world |-> m, sub |-> A]

\* Mutant: a creation leaves no trace of itself.
LambdaSubstateUnrecorded(m, A, a) == A

\* The A* that Λ gives to Ξ.
LambdaSubstate(m, A, a) ==
    IF Collides(m, a) THEN A ELSE [A EXCEPT !.createdAccounts = @ \cup {a}]

\* The σ* that Λ gives to Ξ: the endowment moved, the new account's nonce 1.
LambdaWorld(m, s, a, v) ==
    LET new == [Lookup(m, a) EXCEPT !.nonce   = @ + 1,
                                    !.balance = AddWord(v, @)]
    IN  IF Exists(m, s)
          THEN [m EXCEPT ![s].balance = SubWord(@, v), ![a] = new]
          ELSE m

-----------------------------------------------------------------------------
\* Mutant: Z does not look at the gas.
ExecutesUnpaid(op, memory, cost) ==
    /\ status = "running"
    /\ halt = Running
    /\ op \in Ops
    /\ Top.code = "program"
    /\ Top.fuel > 0

(***************************************************************************)
(* Z and the beginning of step: op may execute when its memory charge and  *)
(* its cost are covered; X has fuel for one more round.                    *)
(***************************************************************************)
Executes(op, memory, cost) ==
    /\ status = "running"
    /\ halt = Running
    /\ op \in Ops
    /\ Top.code = "program"
    /\ Top.fuel > 0
    /\ memory + cost <= Top.gas

Charged(cost) == [Top EXCEPT !.gas = @ - cost, !.fuel = @ - 1]

\* Instructions on the stack, the memory, the pc and the environment.
Compute(memory, cost) ==
    /\ Executes("COMPUTE", memory, cost)
    /\ frames' = SetTop(Charged(memory + cost))
    /\ UNCHANGED <<origin, world, sub, halt, flag, status>>

\* BALANCE, EXTCODESIZE, EXTCODECOPY and EXTCODEHASH.
ReadAccount(a, memory) ==
    /\ Executes("READ", memory, Caccess(a, sub))
    /\ frames' = SetTop(Charged(memory + Caccess(a, sub)))
    /\ sub' = AddAccessedAccount(sub, a)
    /\ UNCHANGED <<origin, world, halt, flag, status>>

Sload(slot) ==
    LET cost == Csload(Top.owner, slot, sub)
    IN  /\ Executes("SLOAD", 0, cost)
        /\ frames' = SetTop(Charged(cost))
        /\ sub' = AddAccessedStorageKey(sub, Top.owner, slot)
        /\ UNCHANGED <<origin, world, halt, flag, status>>

Sstore(slot, new) ==
    LET a    == Top.owner
        orig == StoredWord(origin, a, slot)
        cur  == StoredWord(world, a, slot)
        cost == Csstore(a, slot, orig, cur, new, sub)
        A    == AddAccessedStorageKey(sub, a, slot)
    IN  /\ Executes("SSTORE", 0, cost)
        /\ Top.perm
        /\ Top.gas > Gcallstipend
        /\ frames' = SetTop(Charged(cost))
        /\ world' = StoreWord(world, a, slot, new)
        /\ sub' = IF Exists(world, a)
                    THEN [A EXCEPT !.refundBalance =
                            AddRefund(@, RefundDelta(orig, cur, new))]
                    ELSE sub
        /\ UNCHANGED <<origin, halt, flag, status>>

Tstore(slot, new) ==
    /\ Executes("TSTORE", 0, Gwarmaccess)
    /\ Top.perm
    /\ frames' = SetTop(Charged(Gwarmaccess))
    /\ world' = StoreTransient(world, Top.owner, slot, new)
    /\ UNCHANGED <<origin, sub, halt, flag, status>>

\* LOG0 .. LOG4.
Log(memory) ==
    /\ Executes("LOG", memory, Glog)
    /\ Top.perm
    /\ frames' = SetTop(Charged(memory + Glog))
    /\ sub' = [sub EXCEPT !.logSeries = Append(@, Top.owner)]
    /\ UNCHANGED <<origin, world, halt, flag, status>>

-----------------------------------------------------------------------------
(***************************************************************************)
(* The four calls.  asked, t and v are the operands; v is 0 for            *)
(* DELEGATECALL and STATICCALL.                                            *)
(***************************************************************************)
Recipient(op, t)  == IF op \in {"CALL", "STATICCALL"} THEN t ELSE Top.owner
CallSource(op)    == IF op = "DELEGATECALL" THEN Top.source ELSE Top.owner
CallValues(op)    == IF op \in {"CALL", "CALLCODE"} THEN Wei ELSE {0}

\* Mutant: a call out of a static call may write again.
CallPermOfOpcode(op) == op # "STATICCALL"

CallPerm(op) == Top.perm /\ op # "STATICCALL"

\* Ccall and Ccallgas of the executing call, when its memory is paid for.
CallCost(op, t, v, asked, memory) ==
    Ccall(t, Recipient(op, t), v, asked, Top.gas - memory, world, sub)
CallGas(op, t, v, asked, memory) ==
    Ccallgas(t, Recipient(op, t), v, asked, Top.gas - memory, world, sub)

CallExecutes(op, t, v, asked, memory) ==
    /\ Executes(op, memory, CallCost(op, t, v, asked, memory))
    /\ (~Top.perm /\ op = "CALL") => v = 0

\* Mutants: one of the two conditions of call is dropped.
CallGrantedAnyDepth(v) == v <= Balance(world, Top.owner)
CallGrantedUnfunded(v) == Top.depth < MaxDepth

CallGranted(v) == v <= Balance(world, Top.owner) /\ Top.depth < MaxDepth

Call(op, t, v, asked, memory) ==
    LET r == Recipient(op, t)
        s == CallSource(op)
        A == AddAccessedAccount(sub, t)
    IN  /\ CallExecutes(op, t, v, asked, memory)
        /\ CallGranted(v)
        /\ world' = Transfer(world, s, r, v)
        /\ sub' = A
        /\ frames' = Append(SetTop(Charged(memory)),
                            ThetaFrame(world, A, s, r, CodeOf(world, t),
                                       CallGas(op, t, v, asked, memory),
                                       Top.depth + 1, CallPerm(op),
                                       CallCost(op, t, v, asked, memory)))
        /\ UNCHANGED <<origin, halt, flag, status>>

\* Too little money or too deep: the callee's gas comes straight back.
CallRefused(op, t, v, asked, memory) ==
    LET kept == Monus(CallCost(op, t, v, asked, memory),
                      CallGas(op, t, v, asked, memory))
    IN  /\ CallExecutes(op, t, v, asked, memory)
        /\ ~CallGranted(v)
        /\ frames' = SetTop([Top EXCEPT !.gas = Monus(@ - memory, kept),
                                        !.fuel = @ - 1])
        /\ sub' = AddAccessedAccount(sub, t)
        /\ flag' = FALSE
        /\ UNCHANGED <<origin, world, halt, status>>

-----------------------------------------------------------------------------
(***************************************************************************)
(* CREATE and CREATE2.  The new address is a hash: any but the creator's   *)
(* own and the precompiles'.  The charge for the size of the init code is  *)
(* in memory.                                                              *)
(***************************************************************************)
NewAddress(s) == Address \ (Precompile \cup {s})

CreateExecutes(op, memory) == Executes(op, memory, Gcreate) /\ Top.perm

\* Mutant: the nonce limit of EIP-2681 is dropped.
CreateGrantedAnyNonce(v) ==
    /\ v <= Balance(world, Top.owner)
    /\ Top.depth < MaxDepth

CreateGranted(v) ==
    /\ Lookup(world, Top.owner).nonce < MaxNonce
    /\ v <= Balance(world, Top.owner)
    /\ Top.depth < MaxDepth

Create(op, a, v, memory) ==
    LET s    == Top.owner
        give == L(Top.gas - (memory + Gcreate))
        m    == IncrementNonce(world, s)
        A    == AddAccessedAccount(sub, a)
    IN  /\ CreateExecutes(op, memory)
        /\ CreateGranted(v)
        /\ a \in NewAddress(s)
        /\ world' = LambdaWorld(m, s, a, v)
        /\ sub' = LambdaSubstate(m, A, a)
        /\ frames' = Append(SetTop(Charged(memory + Gcreate)),
                            LambdaFrame(m, A, s, a, give, Top.depth + 1,
                                        Top.perm, give))
        /\ UNCHANGED <<origin, halt, flag, status>>

CreateRefused(op, v, memory) ==
    /\ CreateExecutes(op, memory)
    /\ ~CreateGranted(v)
    /\ frames' = SetTop(Charged(memory + Gcreate))
    /\ flag' = FALSE
    /\ UNCHANGED <<origin, world, sub, halt, status>>

-----------------------------------------------------------------------------
(***************************************************************************)
(* The instructions that halt, and the exceptions.                         *)
(***************************************************************************)
\* X returns h for the innermost frame.
Halts(h) == halt' = h /\ UNCHANGED <<origin, frames, flag, status>>

Halting == status = "running" /\ halt = Running

\* Mutant: a code that ends without a STOP does not halt.
StopWritten ==
    /\ Halting
    /\ Top.code = "program"
    /\ Top.fuel > 0
    /\ Halts(Success(Top.gas))
    /\ UNCHANGED <<world, sub>>

\* STOP, written or met past the end of the code.
Stop ==
    /\ Halting
    /\ Top.code \in {"program", "empty"}
    /\ Top.fuel > 0
    /\ Halts(Success(Top.gas))
    /\ UNCHANGED <<world, sub>>

\* What is returned matters when it is a contract's code.
Return(memory, size, ef) ==
    /\ Executes("RETURN", memory, 0)
    /\ Top.kind = "call" => size = 0
    /\ size = 0 => ~ef
    /\ Halts([cause |-> "success", gas |-> Top.gas - memory,
              size |-> size, ef |-> ef])
    /\ UNCHANGED <<world, sub>>

Revert(memory) ==
    /\ Executes("REVERT", memory, 0)
    /\ Halts([cause |-> "revert", gas |-> Top.gas - memory,
              size |-> 0, ef |-> FALSE])
    /\ UNCHANGED <<world, sub>>

\* Mutant: SELFDESTRUCT erases any contract, as it did before EIP-6780.
AlwaysBorn(a) == TRUE

\* Was a created in this transaction?
Born(a) == a \in sub.createdAccounts

Selfdestruct(r) ==
    LET a    == Top.owner
        born == Born(a)
        cost == Cselfdestruct(a, r, world, sub)
        A    == AddAccessedAccount(sub, r)
    IN  /\ Executes("SELFDESTRUCT", 0, cost)
        /\ Top.perm
        /\ world' = SweepBalance(world, a, r, born)
        /\ sub' = IF born THEN [A EXCEPT !.selfDestructSet = @ \cup {a}] ELSE A
        /\ Halts(Success(Top.gas - cost))

\* An exception of Z or of step, INVALID, or X out of fuel.
Fault ==
    /\ Halting
    /\ Top.code \in {"program", "invalid"}
    /\ Halts(Failed)
    /\ UNCHANGED <<world, sub>>

\* A precompiled contract answers at once; its failure is the empty map.
RunPrecompile ==
    /\ Halting
    /\ Top.code = "precompile"
    /\ \/ Halts(Failed)
       \/ \E cost \in PrecompileCost :
            cost <= Top.gas /\ Halts(Success(Top.gas - cost))
    /\ UNCHANGED <<world, sub>>

-----------------------------------------------------------------------------
(***************************************************************************)
(* The results of Θ and of Λ, from what X returned.                        *)
(***************************************************************************)
\* Mutant: what a failed call accrued is kept.
ThetaResultKeepsSubstate ==
    LET m == IF halt.cause = "success" THEN world ELSE EmptyMap
        z == m # EmptyMap
    IN  [world |-> IF z THEN m ELSE Top.world,
         sub   |-> sub,
         gas   |-> halt.gas,
         z     |-> z]

ThetaResult ==
    LET m == IF halt.cause = "success" THEN world ELSE EmptyMap
        z == m # EmptyMap
    IN  [world |-> IF z THEN m   ELSE Top.world,
         sub   |-> IF z THEN sub ELSE Top.sub,
         gas   |-> halt.gas,
         z     |-> z]

DepositCost == Gcodedeposit * halt.size

\* F, the code deposit fails.
DepositFails ==
    \/ /\ Exists(Top.world, Top.owner)
       /\ Top.world[Top.owner].code # 0 \/ Top.world[Top.owner].nonce # 0
    \/ halt.gas < DepositCost
    \/ halt.size > MaxCodeSize
    \/ halt.ef

\* Mutant: a creation whose deposit fails keeps what its init code did.
DepositFailureKeepsWorld ==
    [world |-> world,
     sub   |-> LambdaSubstate(Top.world, Top.sub, Top.owner),
     gas   |-> 0, z |-> FALSE]

DepositFailure ==
    [world |-> Top.world,
     sub   |-> LambdaSubstate(Top.world, Top.sub, Top.owner),
     gas   |-> 0, z |-> FALSE]

LambdaResult ==
    IF halt.cause # "success"
      THEN [world |-> Top.world, sub |-> Top.sub, gas |-> halt.gas, z |-> FALSE]
    ELSE IF DepositFails
      THEN DepositFailure
    ELSE [world |-> [world EXCEPT ![Top.owner] =
                        [Lookup(world, Top.owner) EXCEPT !.code = halt.size]],
          sub   |-> sub,
          gas   |-> halt.gas - DepositCost, z |-> TRUE]

FrameResult == IF Top.kind = "call" THEN ThetaResult ELSE LambdaResult

\* The rest of call or create, in the caller.
Resume ==
    LET res == FrameResult
    IN  /\ status = "running"
        /\ halt # Running
        /\ Len(frames) > 1
        /\ world' = res.world
        /\ sub' = res.sub
        /\ flag' = res.z
        /\ frames' = [Pop EXCEPT ![Len(frames) - 1].gas =
                        Monus(@, Monus(Top.charge, res.gas))]
        /\ halt' = Running
        /\ UNCHANGED <<origin, status>>

-----------------------------------------------------------------------------
(***************************************************************************)
(* Υ's use of Θ and Λ.  A sender with a transaction has money for it.      *)
(***************************************************************************)
InitialSubstate(warm) ==
    [selfDestructSet |-> {}, refundBalance |-> 0,
     accessedAccounts |-> Precompile \cup WarmAccount \cup warm,
     accessedStorageKeys |-> WarmKey,
     logSeries |-> <<>>, createdAccounts |-> {}]

Sender(m) == {a \in Address : Exists(m, a) /\ m[a].code = 0 /\ m[a].nonce # 0}

StartCall(s, t, v, g) ==
    LET A == InitialSubstate({s, t})
    IN  /\ status = "idle"
        /\ v <= Balance(origin, s)
        /\ world' = Transfer(origin, s, t, v)
        /\ sub' = A
        /\ frames' = <<ThetaFrame(origin, A, s, t, CodeOf(origin, t), g, 0,
                                  TRUE, g)>>
        /\ status' = "running"
        /\ UNCHANGED <<origin, halt, flag>>

StartCreate(s, a, v, g) ==
    LET A == InitialSubstate({s, a})
    IN  /\ status = "idle"
        /\ v <= Balance(origin, s)
        /\ a \in NewAddress(s)
        /\ world' = LambdaWorld(origin, s, a, v)
        /\ sub' = LambdaSubstate(origin, A, a)
        /\ frames' = <<LambdaFrame(origin, A, s, a, g, 0, TRUE, g)>>
        /\ status' = "running"
        /\ UNCHANGED <<origin, halt, flag>>

\* Θ or Λ returns to Υ; halt keeps the gas that is left.
Finish ==
    LET res == FrameResult
    IN  /\ status = "running"
        /\ halt # Running
        /\ Len(frames) = 1
        /\ world' = res.world
        /\ sub' = res.sub
        /\ flag' = res.z
        /\ frames' = <<>>
        /\ halt' = [halt EXCEPT !.gas = res.gas]
        /\ status' = "done"
        /\ UNCHANGED origin

-----------------------------------------------------------------------------
Init ==
    /\ origin \in Checkpoint
    /\ frames = <<>>
    /\ world = origin
    /\ sub = InitialSubstate({})
    /\ halt = Running
    /\ flag = FALSE
    /\ status = "idle"

Start ==
    \E s \in Sender(origin), a \in Address, v \in Wei, g \in TxGas :
        StartCall(s, a, v, g) \/ StartCreate(s, a, v, g)

CallInstruction ==
    \E op \in CallOp, t \in Address, asked \in AskedGas, memory \in MemoryCost :
        \E v \in CallValues(op) : \/ Call(op, t, v, asked, memory)
                                  \/ CallRefused(op, t, v, asked, memory)

CreateInstruction ==
    \E op \in CreateOp, v \in Wei, memory \in MemoryCost :
        \/ \E a \in Address : Create(op, a, v, memory)
        \/ CreateRefused(op, v, memory)

StorageInstruction ==
    \E slot \in Slot : \/ Sload(slot)
                       \/ \E new \in Word : Sstore(slot, new) \/ Tstore(slot, new)

MemoryInstruction ==
    \E memory \in MemoryCost :
        \/ \E cost \in StepCost : Compute(memory, cost)
        \/ \E a \in Address : ReadAccount(a, memory)
        \/ \E size \in ReturnedSize, ef \in BOOLEAN : Return(memory, size, ef)
        \/ Log(memory)
        \/ Revert(memory)

Instruction ==
    \/ CallInstruction
    \/ CreateInstruction
    \/ StorageInstruction
    \/ MemoryInstruction
    \/ \E r \in Address : Selfdestruct(r)
    \/ Stop
    \/ Fault
    \/ RunPrecompile

Next == Start \/ Instruction \/ Resume \/ Finish

Spec == Init /\ [][Next]_vars

\* Evaluating a total function: as long as a step is possible, one is taken.
FairSpec == Spec /\ WF_vars(Next)
=============================================================================
