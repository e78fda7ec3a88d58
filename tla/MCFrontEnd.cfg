CONSTANTS
    Frames <- MCFrames
    MostDeclared = 11
    MostStated = 7
    MostExpressed = 6
SPECIFICATION Spec
INVARIANTS
    AcceptsItsGrammar
    ErrorAtFirstBadToken
    TreeSaysTheText
    OnlyDerivation
