SPECIFICATION Spec
CONSTANTS
    Sources = {0, 1}
    PreEvent = 1
    PostEvent = 1
    MinInterval = 2
    MaxConcurrent = 1
    Grace = 1
    Finish = 2
    MaxLag = 1
    MaxGeneration = 2
INVARIANT EndIsReported
