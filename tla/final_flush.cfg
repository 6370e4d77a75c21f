SPECIFICATION Spec
CONSTANTS
    h1 = h1
    h2 = h2
    Hash = {h1, h2}
    MaxSize = 2
    MaxAdds = 1
    MaxFailures = 0
INVARIANT
    FinalFlush
