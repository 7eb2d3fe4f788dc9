SPECIFICATION TurnSpec
CONSTANTS
    Token = {t1}
    Drainer = {d1, d2}
    BatchSize = 2
    MaxFaults = 2
    MaxOutages = 1
    User = {u1}
    Nobody = Nobody
    LogBatchSize = 2
    MaxLogs = 2
INVARIANTS
    TurnTypeOK
    EachEventInOnePlace
PROPERTIES
    TokenStatesGetTheirTurn
    EveryEventIsLogged
    AnswersSettle
