SPECIFICATION ProjectionFairSpec
CONSTANTS
    Target = {t1}
    v1 = v1
    Content = {v1, v2}
    Nothing = Nothing
    MaxCommits = 3
    MaxEvents = 2
INVARIANT ExactlyOnce
PROPERTIES
    CatchesUp
    OncePerBreak
CONSTRAINT FirstContent
