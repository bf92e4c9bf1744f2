SPECIFICATION Spec
CONSTANTS
    minimax = minimax  kimi = kimi  glm5 = glm5  opus = opus
    Callers = {c1, c2}
    Models = {minimax, opus}
    Providers = {"minimax", "anthropic"}
    ProviderOf <- MCProviderOf
    ChainFrom <- MCChainFrom
    MaxRetries = 3
    Threshold = 2
INVARIANTS
    TypeOK
    CountMatchesState
    ExhaustionEarned
PROPERTY
    CallsEnd
\* Once every circuit is half-open without a probe, no call is admitted.
CHECK_DEADLOCK FALSE
