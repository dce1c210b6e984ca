\* A server with its transactions and its connection.
SPECIFICATION FairServerSpec
CONSTANTS
    MaxTokens = 3
    MaxLate = 2
    MaxFaults = 2
INVARIANTS
    ServerTypeOK
    OneActive
    UsedOnce
    ToldIsKept
    UseOnRecord
    AllOrNothing
    TablesReady
PROPERTIES
    NewestWins
    TransactionsKeepPolicy
    KeepsTransactions
    EventuallyServes
