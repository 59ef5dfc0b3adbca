SPECIFICATION Spec
CONSTANTS
    first = first
    confirm = confirm
    retry = retry
    Previews = {first}
    Confirms = {confirm, retry}
    TokenOf <- MCTokenOf
    Window = 4
    MaxAttempts = 2
    Backoff <- MCBackoff
    MaxTime = 7
    MaxStarts = 4
    None = None
INVARIANTS
    StartsAreLimited
    RetriesCommitOnce
    RefusalHasACause
PROPERTIES
    EveryCallIsAnswered
    KeepsThePromise
CHECK_DEADLOCK FALSE
