SPECIFICATION FeedSpec
CONSTANTS
    MaxUsers = 4
    Profile <- MCProfile
    Query <- MCQuery
    None = None
    MyNiche = {}
    LocalMiles = 50
    Year = 2025
    Limit = 2
    MaxChanges = 3
INVARIANTS
    SkippedOnlyByChanges
    RepeatedOnlyByEntries
    ShownAsAsked
