CONSTANTS
    Bits <- MCBits
    Unit = 4
    Precision = 2
    RightToLeft = TRUE
    Alphabet <- MCAlphabet
    CrcBits = 5
    CharBits = 2
    CrcPoly = 20
    JsonSamples <- MCJsonSamples
    ForeignTypes <- MCForeignTypes
    XmlSamples <- MCXmlSamples
    Roots <- MCRoots
    Messages <- MCMessages
    MaxCloses = 4
    Contents = {1}
    Texts <- MCTexts
    RequestPaths <- MCRequestPaths
    HandlerSets <- MCHandlerSets
    Lists <- MCLists
    Sizes <- MCSizes
    Chunks <- MCChunks
    Settings <- MCSettings
    SettingPaths <- MCSettingPaths
    MaxUnsigned = 7
    CrcInputs <- MCCrcInputs
    Bases <- MCBases
    MethodsOf <- MCMethodsOf
    Registered <- MCRegistered
SPECIFICATION Spec
INVARIANTS
    DocumentsRead MessageIntact ChainCarries  ResponsesWhole FormatsAgree ObjectsFound
