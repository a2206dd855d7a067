SPECIFICATION BlockSpec
CONSTANTS
    eoa = eoa  dapp = dapp  fresh = fresh  miner = miner  key = key
    NoAccount = NoAccount
    NoRecipient = NoRecipient
    Address = {eoa, dapp, fresh, miner}
    Precompile = {}
    WarmAccount = {miner}
    WarmKey = {}
    Slot = {key}
    Word = {0, 1}
    WordSize = 64
    MaxDepth = 2
    MaxNonce = 9
    MaxCodeSize = 1
    Ops = {"CALL", "CREATE", "SELFDESTRUCT", "REVERT", "RETURN"}
    StepCost = {1}
    MemoryCost = {0}
    PrecompileCost = {1}
    AskedGas = {9}
    Wei = {0, 1}
    ReturnedSize = {0, 1}
    TxGas = {1}
    Checkpoint <- Wealth
    Gwarmaccess = 1  Gcoldaccountaccess = 1  Gcoldsload = 1
    Gsset = 1  Gsreset = 1  Rsclear = 1
    Gselfdestruct = 1  Gcreate = 1  Gcodedeposit = 1
    Gcallvalue = 1  Gcallstipend = 1  Gnewaccount = 0
    Glog = 1  GasRetention = 64
    Transactions <- Pool
    Beneficiary = miner
    BaseFee = 1
    BlobGasPrice = 1
    BlobGas = 2
    MaxBlobs = 1
    BlockGasLimit = 6
    BlockSize = 2
INVARIANTS NoEmptyAccount
PROPERTIES FeesSettle NoReplay AccountsStay
CHECK_DEADLOCK FALSE
