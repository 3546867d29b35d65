------------------------------- MODULE Parts --------------------------------
(***************************************************************************)
(* The parts of the system that share no state with one another, side by   *)
(* side: a behaviour is that of one of them. The terminal is taken apart   *)
(* once more, into what it shows, the lines run before and the completion  *)
(* of names, which work on fields of their own.                            *)
(***************************************************************************)
EXTENDS Terminal, Commands, Editor, Ps2, Calculator, Snake, Mines, Tetris

VARIABLES part       \* the one whose behaviour this is

parts_vars == <<part, terminal_vars, commands_vars, editor_vars, ps2_vars, calc_vars,
                snake_vars, mines_vars, tetris_vars>>

Names == {"SCREEN", "HISTORY", "COMPLETION", "COMMANDS", "EDITOR", "PS2", "CALCULATOR",
          "SNAKE", "MINES", "TETRIS"}

Init ==
  /\ part \in Names
  /\ TerminalInit /\ CommandsInit /\ EditorInit /\ Ps2Init /\ CalculatorInit
  /\ SnakeInit /\ MinesInit /\ TetrisInit

TerminalStep ==
  /\ \/ part = "SCREEN" /\ ScreenNext
     \/ part = "HISTORY" /\ HistoryNext
     \/ part = "COMPLETION" /\ NamesNext
  /\ UNCHANGED <<part, commands_vars, editor_vars, ps2_vars, calc_vars, snake_vars, mines_vars, tetris_vars>>

CommandsStep ==
  /\ part = "COMMANDS" /\ CommandsNext
  /\ UNCHANGED <<part, terminal_vars, editor_vars, ps2_vars, calc_vars, snake_vars, mines_vars, tetris_vars>>

EditorStep ==
  /\ part = "EDITOR" /\ EditorNext
  /\ UNCHANGED <<part, terminal_vars, commands_vars, ps2_vars, calc_vars, snake_vars, mines_vars, tetris_vars>>

Ps2Step ==
  /\ part = "PS2" /\ Ps2Next
  /\ UNCHANGED <<part, terminal_vars, commands_vars, editor_vars, calc_vars, snake_vars, mines_vars, tetris_vars>>

CalculatorStep ==
  /\ part = "CALCULATOR" /\ CalculatorNext
  /\ UNCHANGED <<part, terminal_vars, commands_vars, editor_vars, ps2_vars, snake_vars, mines_vars, tetris_vars>>

SnakeStep ==
  /\ part = "SNAKE" /\ SnakeNext
  /\ UNCHANGED <<part, terminal_vars, commands_vars, editor_vars, ps2_vars, calc_vars, mines_vars, tetris_vars>>

MinesStep ==
  /\ part = "MINES" /\ MinesNext
  /\ UNCHANGED <<part, terminal_vars, commands_vars, editor_vars, ps2_vars, calc_vars, snake_vars, tetris_vars>>

TetrisStep ==
  /\ part = "TETRIS" /\ TetrisNext
  /\ UNCHANGED <<part, terminal_vars, commands_vars, editor_vars, ps2_vars, calc_vars, snake_vars, mines_vars>>

Next ==
  \/ TerminalStep \/ CommandsStep \/ EditorStep \/ Ps2Step \/ CalculatorStep
  \/ SnakeStep \/ MinesStep \/ TetrisStep

Spec == Init /\ [][Next]_parts_vars

\* The states of every part have their types, and the editor's cursor is on a
\* character of the text and in the window.
PartsTypeOK ==
  /\ part \in Names
  /\ TerminalTypeOK /\ CommandsTypeOK /\ EditorTypeOK /\ Ps2TypeOK /\ CalculatorTypeOK
  /\ SnakeTypeOK /\ MinesTypeOK /\ TetrisTypeOK
=============================================================================
