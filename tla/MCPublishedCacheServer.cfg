SPECIFICATION FairSpec
CONSTANTS
    h1 = h1
    h2 = h2
    r1 = r1
    r2 = r2
    i1 = i1
    i2 = i2
    Handlers <- MCHandlers
    Readers <- MCReaders
    Instances = {i1}
    Home <- OneHome
    TTLRunning = FALSE
    MaxVersion = 3
PROPERTY Converges
