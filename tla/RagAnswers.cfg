SPECIFICATION RagSpec
CONSTANTS
    d1 = d1
    d2 = d2
    r1 = r1
    r2 = r2
    r3 = r3
    None = None
    Docs = {d1, d2}
    Base <- MCBase
    Bodies = {"long", "short", "staffed"}
    Groups = {"public", "staff"}
    ChunksOf <- MCChunksOf
    MaxChunks = 2
    Stripped <- MCStripped
    Named <- MCNamed
    Requests = {r1, r2}
    InitialFiles <- MCFiles
    MaxFaults = 1
    Questions = {"q1"}
    MaxQueries = 2
    Hybrid = TRUE
    Compression = TRUE
    CandidateCount = 2
    TopN = 1
SYMMETRY Symmetry
INVARIANT CitedOnce
PROPERTIES
    SuccessSettles
    CitedAsFiled
