SPECIFICATION DispatchSpec
CONSTANTS
    Nobody = Nobody
    Deployments <- MCDeployments
    Requests <- MCRequests
    Patterns <- MCPatterns
CHECK_DEADLOCK FALSE
INVARIANTS ServersDoAsAsked AnswersAreComplete NothingForbiddenRuns ClientsGetOn
