------------------------------- MODULE Snake --------------------------------
(***************************************************************************)
(* The game of snake (user/snake.c): the body is a ring of cells in the    *)
(* order the snake stood on them, beside a table of the cells that are     *)
(* taken. Turns are read several times between two steps.                  *)
(***************************************************************************)
EXTENDS Integers, Sequences

CONSTANTS SNAKE_MAX_COLS, SNAKE_MAX_ROWS,   \* MAX_COLS, MAX_ROWS: what the arrays hold
          SnakeCols, SnakeRows              \* cols, rows: what the window holds

ASSUME SnakeAssumption ==
  /\ SNAKE_MAX_COLS \in Nat /\ SNAKE_MAX_ROWS \in Nat
  /\ SnakeCols \in 4..SNAKE_MAX_COLS /\ SnakeRows \in 1..SNAKE_MAX_ROWS

VARIABLES phase,     \* "TITLE", "PLAYING" or "GAME OVER"
          snake      \* the statics of the program

snake_vars == <<phase, snake>>

MAX_CELLS == SNAKE_MAX_COLS * SNAKE_MAX_ROWS
cell_at(row, col) == row * SNAKE_MAX_COLS + col
row_of(cell) == cell \div SNAKE_MAX_COLS
col_of(cell) == cell % SNAKE_MAX_COLS
BoardCells == {cell_at(row, col) : row \in 0..SnakeRows - 1, col \in 0..SnakeCols - 1}
after_place(place) == IF place + 1 >= MAX_CELLS THEN 0 ELSE place + 1
before_place(place) == IF place > 0 THEN place - 1 ELSE MAX_CELLS - 1

\* The loader zeroes the statics (the same in the model for what is not one).
NoSnake ==
  [taken |-> {}, order |-> [place \in 0..MAX_CELLS - 1 |-> 0], head_at |-> 0, tail_at |-> 0,
   length |-> 0, dir |-> <<0, 0>>, turned |-> FALSE, apple |-> 0]

push_head(s, cell) ==
  [s EXCEPT !.taken = @ \cup {cell}, !.order[s.head_at] = cell,
            !.head_at = after_place(@), !.length = @ + 1]

\* What is left in the ring is not read again: the model forgets it.
pop_tail(s) ==
  [s EXCEPT !.taken = @ \ {s.order[s.tail_at]}, !.order[s.tail_at] = 0,
            !.tail_at = after_place(@), !.length = @ - 1]

\* Any free cell, and cell 0 when there is none.
place_apple(s) == IF BoardCells \subseteq s.taken THEN {0} ELSE BoardCells \ s.taken

----------------------------------------------------------------------------
(* Steps *)

Right == <<1, 0>>
KeyDirections == {<<0, -1>>, <<0, 1>>, <<-1, 0>>, Right}
opposite(dir) == <<-dir[1], -dir[2]>>

new_game ==
  LET start == cell_at(SnakeRows \div 2, SnakeCols \div 4)
      body == push_head(push_head(push_head([NoSnake EXCEPT !.dir = Right], start),
                                  start + 1), start + 2)
  IN  /\ phase \in {"TITLE", "GAME OVER"}
      /\ phase' = "PLAYING"
      /\ \E apple \in place_apple(body) : snake' = [body EXCEPT !.apple = apple]

\* Mutant: every press between two steps turns.
TurnsAgain(s, dir) == dir \notin {s.dir, opposite(s.dir)}

turns(s, dir) == ~s.turned /\ dir \notin {s.dir, opposite(s.dir)}

\* An arrow key, read in one of the slices between two steps.
read_keys(dir) ==
  /\ phase = "PLAYING"
  /\ snake' = IF turns(snake, dir) THEN [snake EXCEPT !.dir = dir, !.turned = TRUE] ELSE snake
  /\ UNCHANGED phase

head_of(s) == s.order[before_place(s.head_at)]
ahead(s) == [col |-> col_of(head_of(s)) + s.dir[1], row |-> row_of(head_of(s)) + s.dir[2]]
on_board(at) == at.col \in 0..SnakeCols - 1 /\ at.row \in 0..SnakeRows - 1

\* The tail leaves before the head arrives, unless the snake eats.
advance ==
  /\ phase = "PLAYING"
  /\ LET at == ahead(snake)
         next == cell_at(at.row, at.col)
         eating == next = snake.apple
         freed == IF eating THEN snake ELSE pop_tail(snake)
         moved == [push_head(freed, next) EXCEPT !.turned = FALSE]
     IN  IF ~on_board(at) THEN phase' = "GAME OVER" /\ UNCHANGED snake
         ELSE IF next \in freed.taken THEN phase' = "GAME OVER" /\ snake' = freed
         ELSE /\ UNCHANGED phase
              /\ \E apple \in IF eating THEN place_apple(moved) ELSE {snake.apple} :
                    snake' = [moved EXCEPT !.apple = apple]

\* Escape, anywhere. The program is started again later.
leave_snake == phase' = "TITLE" /\ snake' = NoSnake

SnakeInit == phase = "TITLE" /\ snake = NoSnake

SnakeNext == new_game \/ (\E dir \in KeyDirections : read_keys(dir)) \/ advance \/ leave_snake

----------------------------------------------------------------------------
(* Properties *)

SnakeTypeOK ==
  /\ phase \in {"TITLE", "PLAYING", "GAME OVER"}
  /\ snake.length \in 0..MAX_CELLS /\ {snake.head_at, snake.tail_at} \subseteq 0..MAX_CELLS - 1

body(s) == [i \in 1..s.length |-> s.order[(s.tail_at + i - 1) % MAX_CELLS]]
beside(a, b) ==
  \/ row_of(a) = row_of(b) /\ col_of(a) - col_of(b) \in {-1, 1}
  \/ col_of(a) = col_of(b) /\ row_of(a) - row_of(b) \in {-1, 1}

\* While it lives, the ring and the table describe one and the same snake: from
\* tail to head it goes over each taken cell of the board once, from a cell to
\* the one beside it, wherever the ring has wrapped. The apple lies beside it as
\* long as there is room, and no two presses between two steps point the head
\* at its own neck (snake.c:95-116, 142-190, 232-245).
SnakeIsOneBody ==
  phase = "PLAYING" =>
    /\ {body(snake)[i] : i \in 1..snake.length} = snake.taken /\ snake.taken \subseteq BoardCells
    /\ \A i, j \in 1..snake.length : body(snake)[i] = body(snake)[j] => i = j
    /\ \A i \in 2..snake.length : beside(body(snake)[i - 1], body(snake)[i])
    /\ snake.apple \in snake.taken => snake.taken = BoardCells
    /\ on_board(ahead(snake)) =>
         cell_at(ahead(snake).row, ahead(snake).col) # body(snake)[snake.length - 1]
=============================================================================
