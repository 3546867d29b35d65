SPECIFICATION Spec
CONSTANTS
  TERM_MAX_COLS = 2
  TERM_MAX_ROWS = 3
  TERM_BACK = 3
  TERM_HISTORY = 2
  TERM_INPUT_MAX = 4
  Glyphs = {"A", "/", " "}
  Unknown = "?"
  Inks = {"A"}
  Sizes <- MCSizes
  Entries <- MCEntries
  Prompt <- MCPrompt
  MaxPending = 1
  CMD_MAX_DEPTH = 3
  VFS_FILE_MAX = 18
  LINE_MAX = 9
  SORT_MAX_LINES = 3
  DEFAULT_LINES = 2
  Counts <- MCCounts
  Order <- MCOrder
  Typed <- MCTyped
  FilesAtFirst <- MCFiles
  ProgramMark = "ELF"
  ProgramSays <- MCSays
  EDIT_MAX_LINES = 3
  EDIT_MAX_COLS = 2
  Letters = {"a", "b"}
  Heights = {1, 2}
  Documents <- MCDocuments
  ControllerRoom = 2
  INT_MAX = 3
  CALC_MAX_INPUT = 11
  VARS_MAX = 2
  VARS_MAX_NAME = 1
  DigitValues <- MCDigits
  NameLetters = {"X", "Y"}
  Keys = {"2", "X", "-", "*", "/", "^"}
  FreeLength = 4
  Sums <- MCSums
  SNAKE_MAX_COLS = 4
  SNAKE_MAX_ROWS = 2
  SnakeCols = 4
  SnakeRows = 2
  MINES_COLS = 3
  MINES_ROWS = 2
  MINES = 1
  TETRIS_COLS = 7
  TETRIS_ROWS = 4
  Drawn = {"I", "O"}
INVARIANTS
  PartsTypeOK
  TerminalRemembers
  BuffersAreTheirOwn
  OutputGoesToItsReader
  InputIsAsSent
  SnakeIsOneBody
  MinesAreFair
PROPERTIES
  ViewStaysOnItsText
  TabOnlyAdds
  EditsOneText
  AnswersAreExact
  LandingTakesFullRows
