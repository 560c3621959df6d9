CONSTANTS
  Sources <- Both
  Cap = 4
SPECIFICATION FairSpec
INVARIANTS UnreadIsNext LexemesAreTheTexts TruncationRaises FileLinesAreTrue
PROPERTY ReadingEnds
CHECK_DEADLOCK FALSE
