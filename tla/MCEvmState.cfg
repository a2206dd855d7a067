SPECIFICATION Spec
CONSTANTS
    eoa = eoa  dapp = dapp  lib = lib  fresh = fresh  pre = pre  key = key
    NoAccount = NoAccount
    Address = {eoa, dapp, fresh}
    Precompile = {}
    WarmAccount = {}
    WarmKey <- WarmOnes
    Slot = {key}
    Word = {0, 1}
    WordSize = 32
    MaxDepth = 2
    MaxNonce = 2
    MaxCodeSize = 1
    Ops = {"SSTORE", "TSTORE", "LOG", "CALL", "CALLCODE", "DELEGATECALL", "STATICCALL", "CREATE", "SELFDESTRUCT", "RETURN", "REVERT"}
    StepCost = {1}
    MemoryCost = {0}
    PrecompileCost = {1}
    AskedGas = {9}
    Wei = {0, 1}
    ReturnedSize = {0, 1}
    TxGas = {4}
    Checkpoint <- AllMap
    Gwarmaccess = 1  Gcoldaccountaccess = 1  Gcoldsload = 1
    Gsset = 2  Gsreset = 1  Rsclear = 2
    Gselfdestruct = 1  Gcreate = 1  Gcodedeposit = 1
    Gcallvalue = 1  Gcallstipend = 1  Gnewaccount = 0
    Glog = 1  GasRetention = 64
INVARIANTS DepthBounded StaticFrozen EtherConserved OnlyNewbornDestroyed CodeFromCreation NonceBounded RefundCovered
PROPERTIES CallsNest
CHECK_DEADLOCK FALSE
