SPECIFICATION MCSpec
CONSTANTS
    Tasks = {"long", "short", "tight"}
    Agents = {"developer", "research"}
    Tools = {"git", "filesystem"}
    AgentOf <- MCAgentOf
    MaxIterations <- MCMaxIterations
    MaxTokens <- MCMaxTokens
    Floor = 2
    Prompt = 1
    MaxRound <- MCMaxRound
    TypedCalls = TRUE
INVARIANTS
    AloneConversation
    TokensNearBudget
    LoopIsCut
CHECK_DEADLOCK FALSE
