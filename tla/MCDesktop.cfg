SPECIFICATION Spec
CONSTANTS
  WINDOW_MAX = 4
  WINDOW_EVENT_CAPACITY = 1
  LAST_ID = 4
  Listens <- MCListens
  SCREEN_WIDTH = 640
  SCREEN_HEIGHT = 480
  DESKTOP_MAX_APPS = 4
  DESKTOP_WORKSPACES = 2
  ARENA_PIXELS = 307200
  Builtins <- MCBuiltins
  Points <- MCPoints
  DividerSteps <- MCSteps
INVARIANTS
  WindowsAreAccountedFor
  ScreenIsShared
  KeyboardIsOnScreen
  ScreenHoldsItsTiles
  OnlyALostReleaseKeepsTheDrag
PROPERTIES
  TaskbarBringsItBack
