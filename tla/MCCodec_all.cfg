SPECIFICATION MCSpec
CONSTANT Nothing = Nothing
CONSTANT ModestLimit = FALSE
CONSTANT Asked <- MCAsked
CONSTANT Jobs <- MCJobs
CONSTANT Limits = {0, 293, 294, 295, 296, 297, 500, 552, 553, 554, 600, 1232, 1452, 4096, 33000, 65535}
CONSTANT Parts = {"exchange", "wire", "size", "list"}
INVARIANT FilledResponsesAreRead
INVARIANT TesterAcceptsServer
INVARIANT PacketsArrive
INVARIANT FilledResponsesFit
INVARIANT MessagesReadBack
INVARIANT LargestFits
INVARIANT SampledByWeight
PROPERTY ReadingEnds
CHECK_DEADLOCK FALSE
