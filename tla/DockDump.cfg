\* Four runs over two stores, one change in between, two kills.
CONSTANTS
    Stores <- TwoStores
    First <- SmallSoups
    Entries = {"a", "b", "c", "d", "e"}
    Undecodable = {"c"}
    Unencodable = {"d"}
    MaxRuns = 4
    MaxChanges = 1
    MaxKills = 2
SPECIFICATION Spec
INVARIANTS Sequential JsonMeansWhole InPlace
PROPERTIES FilesKept ManifestComplete
CHECK_DEADLOCK FALSE
