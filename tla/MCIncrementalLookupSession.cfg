CONSTANTS
  Graph    <- FixtureGraph
  Words    <- FixtureWords
  Alphabet <- FixtureChars
  Cursors  <- MCCursors
  MaxInput = 6
  MaxFed = 6

SPECIFICATION Spec

INVARIANT TypeOK
INVARIANT DecoderStateConsistent
INVARIANT ResultMatchesFixedSet
PROPERTY DictionarySpec
