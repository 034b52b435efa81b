SPECIFICATION PackSpec
CONSTANTS
    Releases <- MCReleases
    Folded <- MCFolded
    TypeNames <- MCTypes
    GroupDecls <- MCGroups
    RelDecls <- MCRels
    RoleNames = {"membership"}
    ActKeys = {"act1"}
    Pins <- MCPins
    MaxEdits = 4
INVARIANTS ExpansionExact EachKeepsItsOwn EndsKept
CHECK_DEADLOCK FALSE
