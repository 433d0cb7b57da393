SPECIFICATION Spec
CONSTANTS
    None = None
    ChunkSize = 4
    ChunkOverlap = 2
    Connection = {1, 2}
    Doc = {1, 2}
    Crash = {1}
    Diagnosis = {1, 2}
    Model = {"hashing", "openai"}
    MaxDocumentSize = 7
    TopK = 1
    MinRelevance = 180000
    ConfidenceFloor = 600000
    CertainThreshold = 800000
    Similarity <- Cosine
    Scenario <- Scenarios
INVARIANTS
    TypeOK
    FactsStayWhole
    ConfidenceGrounded
    SourcesOnRecord
CHECK_DEADLOCK FALSE
