\* The labels of the two sides of a pull request tested on a merged commit.
SPECIFICATION Spec
CONSTANTS
    Events <- MergedPullRequest
    PageSize = 2
    MaxPages = 2
CHECK_DEADLOCK FALSE
INVARIANT SidesDoNotMix
