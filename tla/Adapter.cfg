\* Output, exit and deletion in every interleaving of the five actors; every message
\* that differs from a new one in two members, in every state of the receiver's
\* registry; every command of two short arguments.
CONSTANTS
    MaxOutput = 3
    MaxChanged = 2
    Late = {"VariablesRequest", "StepResponse"}
    Characters <- ShellCharacters
    MaxArgument = 3
    MaxArguments = 2
SPECIFICATION AdapterSpec
INVARIANTS TypeOK OutputIntact MembersSurvive ArgvIsCommand
PROPERTIES DeletedOnce DeletionEnds OutputDrained ReapedExitReported ClassIsFound
