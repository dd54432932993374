CONSTANTS
    b1 = b1
    b2 = b2
    b3 = b3
    NumRequests = 4
    PromptLen <- Prompts
    MaxTokens <- Tokens
    Lora <- Adapters
    MaxLoras = 1
    Block = {b1, b2, b3}
    BlockSize = 2
    MaxRunning = 3
    TokenBudget = 4
    MaxModelLen = 6
    MaxBatches = 1
SPECIFICATION Spec
CHECK_DEADLOCK FALSE
INVARIANT AbortsNeverFail
