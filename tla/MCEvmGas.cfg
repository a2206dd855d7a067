SPECIFICATION FairSpec
CONSTANTS
    eoa = eoa  dapp = dapp  lib = lib  fresh = fresh  pre = pre  key = key
    NoAccount = NoAccount
    Address = {eoa, dapp, fresh, pre}
    Precompile = {pre}
    WarmAccount = {fresh}
    WarmKey <- WarmOnes
    Slot = {key}
    Word = {0, 1}
    WordSize = 32
    MaxDepth = 2
    MaxNonce = 3
    MaxCodeSize = 1
    Ops = {"COMPUTE", "READ", "SLOAD", "CALL", "DELEGATECALL", "CREATE2", "RETURN"}
    StepCost = {1}
    MemoryCost = {0, 1}
    PrecompileCost = {1}
    AskedGas = {1, 9}
    Wei = {0, 1}
    ReturnedSize = {0, 1}
    TxGas = {0, 4}
    Checkpoint <- RichMap
    Gwarmaccess = 1  Gcoldaccountaccess = 2  Gcoldsload = 2
    Gsset = 1  Gsreset = 1  Rsclear = 1
    Gselfdestruct = 1  Gcreate = 1  Gcodedeposit = 1
    Gcallvalue = 2  Gcallstipend = 2  Gnewaccount = 1
    Glog = 1  GasRetention = 3
INVARIANTS TypeOK FuelSufficient GasSettles
PROPERTIES Termination
CHECK_DEADLOCK FALSE
