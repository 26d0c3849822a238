SPECIFICATION Spec
CONSTANTS
    msg = msg
    nbr = nbr
    receipt = receipt
    tx = tx
    Answers = {msg, nbr, receipt, tx}
    Type <- TypeDef
    Passes = {msg, receipt, tx}
    QueueMax = 2
CHECK_DEADLOCK FALSE
INVARIANT OnlyMessages
