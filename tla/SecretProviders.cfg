\* Two keys of a file and of a memory provider.
SPECIFICATION ProvidersSpec
CONSTANTS
    k1 = k1
    k2 = k2
    Names = {k1, k2}
    Chains <- MCChains
    Envs <- MCEnvs
    Setters = {t1, t2}
    Cap = 1
    MaxValues <- MCMaxValues
    MaxChanges = 2
    EnvValue = EnvValue
    EnvError = EnvError
    NoOne = NoOne
INVARIANTS
    ProvidersTypeOK
    SubscriberIsCurrent
PROPERTY
    FileIsFollowed
CHECK_DEADLOCK FALSE
