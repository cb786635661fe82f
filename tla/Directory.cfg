SPECIFICATION DirectorySpec
CONSTANTS
    Ids <- MCIds
    Lists <- MCLists
    ClaimsFor <- MCClaimsFor
    Queries <- MCQueries
    NoClaims = NoClaims
    Hidden = Hidden
INVARIANTS
    SubsetsAgree
    EditsAgree
    ListsMatchTables
    SelectionsArePrefixes
CHECK_DEADLOCK FALSE
