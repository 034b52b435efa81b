SPECIFICATION Spec
CONSTANTS
    fork = fork
    ann = ann
    ben = ben
    guild = guild
    order = order
    stmt = stmt
    yes = yes
    no = no
    Types = {"character", "faction", "decision"}
    Agents = {"character", "faction"}
    Faction = "faction"
    Decision = "decision"
    Relations <- MCRelations
    NoId = NoId
    Ids = {fork, ann, ben, guild, order}
    StmtIds = {stmt}
    Outcomes = {yes, no}
    BaseWorlds <- MCWorlds
    Valids <- MCValids
    Priorities = {0, 2}
    StatusSets = {{"canon"}, {"canon", "draft"}}
    MaxEdits = 2
INVARIANTS IndexClosed OnlyTheStory MoreToldMoreFacts OrderWarned DiffTellsMinds ExpandExact
CHECK_DEADLOCK FALSE
