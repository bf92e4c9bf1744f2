SPECIFICATION Spec
CONSTANTS
    DocSizes = {500, 2500}
    EntrySizes = {100, 400}
    AdrSizes = {100, 7200}
    MaxAdrs = 2
    Backends = {"redis", "qdrant", "neo4j"}
    BriefSkills = {0, 3, 18}
INVARIANTS ContextFits NothingMissing SectionBounded
PROPERTIES BuildEnds
