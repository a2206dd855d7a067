SPECIFICATION Spec
CONSTANTS
    blockA = blockA  blockB = blockB  blockC = blockC  blockD = blockD
    orphan = orphan  zero = zero
    lieRoot = lieRoot  lieGas = lieGas  lieNumber = lieNumber  lieFee = lieFee
    lieReceipts = lieReceipts  lieBody = lieBody  lieNonce = lieNonce
    lieBlobs = lieBlobs  lieLimit = lieLimit  garbled = garbled
    t0 = t0  t1 = t1  t2 = t2  t3 = t3  u0 = u0   big = big
    Genesis = Genesis
    ZeroHash = zero
    Fixture <- Tree
    GenesisBlock <- GenesisContent
    TxOf <- QuietTxs
    Expectations <- ExpectedLists
    LastBlocks <- LastOnes
    PostKinds = {"Map"}
    HasBeaconRoots = TRUE
    MaxImports = 4
    MinGasLimit = 3000
    TargetBlobGas = 3
    MaxBlobGas = 6
INVARIANTS BlockHashIsAncestor
CHECK_DEADLOCK FALSE
