SPECIFICATION Spec
CONSTANTS
    Candidate <- MCCandidate
    Catalogs <- MCCatalogs
    Policies <- MCPolicies
    Categories <- MCCategories
    Excluding <- MCExcluding
    Groups <- MCGroups
    Searches <- MCSearches
INVARIANT ListIsTruthful
PROPERTY ChoicesExact
