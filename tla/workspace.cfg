SPECIFICATION Spec
CONSTANTS
    None = None
    Order <- MCOrder
    Inventories <- MCInventories
    Responses <- MCResponses
    Limit = 1
    Caches <- Built
    Queries <- MCQueries
    Openings <- MCOpenings
    Policies <- MCPolicies
    Evidence <- MCEvidence
    States <- MCStates
    Scopes <- MCScopes
INVARIANTS SourcesReachable IssuesPresented
PROPERTIES LinkShown StopsReviewed
CHECK_DEADLOCK FALSE
