CONSTANTS
    Characters <- MCCharacters
    Sources <- MCSources
    Keywords <- MCKeywords
    Letters = {"i", "f"}
    MaxInt = 127
    MaxLength = 5
SPECIFICATION Spec
INVARIANTS
    TypeOK
    PlacesAreTrue
    TextIsTiled
    LongestMatch
    StopsAtFirstFault
PROPERTY EveryScanEnds
