------------------------------- MODULE Tetris -------------------------------
(***************************************************************************)
(* The game of falling pieces (user/tetris.c): every move is tried against *)
(* the board before it happens, and a landing locks the piece and clears   *)
(* the rows it filled, from the bottom up and in place.                    *)
(***************************************************************************)
EXTENDS Integers, Sequences, FiniteSets

CONSTANTS TETRIS_COLS, TETRIS_ROWS,
          Drawn           \* the pieces the model draws from

VARIABLES tetris_on,      \* whether the title screen has been left
          board,          \* the filled cells of each row (not their colours)
          piece, rot, at, \* the piece, its rotation, and <<px, py>>
          over

tetris_vars == <<tetris_on, board, piece, rot, at, over>>

\* One mask of 16 bits for each rotation, bit 4 * r + c (the table PIECES).
PIECES == [I |-> << 240, 17476, 240, 17476>>, J |-> <<113, 550, 1136, 802>>,
           L |-> <<116, 1570, 368, 547>>,     O |-> <<102, 102, 102, 102>>,
           S |-> <<54, 1122, 54, 1122>>,      T |-> <<114, 610, 624, 562>>,
           Z |-> <<99, 612, 99, 612>>]

ASSUME TetrisAssumption ==
  /\ TETRIS_COLS \in Nat /\ TETRIS_COLS >= 7 /\ TETRIS_ROWS \in Nat /\ TETRIS_ROWS >= 2
  /\ Drawn # {} /\ Drawn \subseteq DOMAIN PIECES

BoardRows == 1..TETRIS_ROWS           \* from the top
BoardColumns == 0..TETRIS_COLS - 1
Start == <<3, 1>>                     \* px and py of spawn
EmptyBoard == [y \in BoardRows |-> {}]

\* <<column, row>> of the piece's cells, with its square of four at a place.
mask_of == [p \in DOMAIN PIECES, r \in 1..4 |->
              {bit \in 0..15 : (PIECES[p][r] \div 2^bit) % 2 = 1}]
cells_of(p, r, place) ==
  {<<place[1] + (bit % 4), place[2] + (bit \div 4)>> : bit \in mask_of[p, r]}

fits(b, p, r, place) ==
  \A c \in cells_of(p, r, place) :
     c[1] \in BoardColumns /\ c[2] \in BoardRows /\ c[1] \notin b[c[2]]

----------------------------------------------------------------------------
(* Landing *)

lock_piece(b, p, r, place) ==
  [y \in BoardRows |-> b[y] \cup {c[1] : c \in {d \in cells_of(p, r, place) : d[2] = y}}]

\* Row y goes, and those above it come down by one.
without_row(b, y) ==
  [k \in BoardRows |-> IF k = 1 THEN {} ELSE IF k <= y THEN b[k - 1] ELSE b[k]]

\* Mutant: the row that came down is passed over.
PassesOver(y) == y - 1

looked_at_next(y) == y

\* The loop over the rows, from the bottom. A row that came down is looked at too.
next_row(loop) ==
  IF loop.y = 0 THEN loop
  ELSE IF loop.b[loop.y] # BoardColumns THEN [loop EXCEPT !.y = @ - 1]
  ELSE [b |-> without_row(loop.b, loop.y), y |-> looked_at_next(loop.y)]

\* Each turn passes a row or takes one away.
clear_lines(b) ==
  LET after[k \in 0..2 * TETRIS_ROWS] ==
        IF k = 0 THEN [b |-> b, y |-> TETRIS_ROWS] ELSE next_row(after[k - 1])
  IN  after[2 * TETRIS_ROWS].b

----------------------------------------------------------------------------
(* Steps *)

\* A piece on a board.
spawn(b) ==
  /\ tetris_on' = TRUE
  /\ board' = b
  /\ \E p \in Drawn : piece' = p /\ over' = ~fits(b, p, 1, Start)
  /\ rot' = 1 /\ at' = Start

\* Any key leaves the title screen; after the end it takes Enter.
reset == (~tetris_on \/ over) /\ spawn(EmptyBoard)

playing == tetris_on /\ ~over

move(r, place) ==
  /\ playing
  /\ fits(board, piece, r, place)
  /\ rot' = r /\ at' = place
  /\ UNCHANGED <<tetris_on, board, piece, over>>

Left == move(rot, <<at[1] - 1, at[2]>>)
MoveRight == move(rot, <<at[1] + 1, at[2]>>)
Turn == move((rot % 4) + 1, at)
one_down == <<at[1], at[2] + 1>>

\* KEY_DOWN, or gravity while the piece still falls.
Fall == move(rot, one_down)

\* Gravity, when it does not. When gravity steps is left to chance.
Land ==
  /\ playing
  /\ ~fits(board, piece, rot, one_down)
  /\ spawn(clear_lines(lock_piece(board, piece, rot, at)))

TetrisInit ==
  /\ tetris_on = FALSE /\ board = EmptyBoard /\ piece = "I" /\ rot = 1 /\ at = Start
  /\ over = FALSE

\* Escape. The program is started again later.
leave_tetris ==
  /\ tetris_on' = FALSE /\ board' = EmptyBoard /\ piece' = "I" /\ rot' = 1 /\ at' = Start
  /\ over' = FALSE

TetrisNext == reset \/ Left \/ MoveRight \/ Turn \/ Fall \/ Land \/ leave_tetris

----------------------------------------------------------------------------
(* Properties *)

TetrisTypeOK ==
  /\ board \in [BoardRows -> SUBSET BoardColumns] /\ piece \in DOMAIN PIECES /\ rot \in 1..4
  /\ {tetris_on, over} \subseteq BOOLEAN

full_rows(b) == {y \in BoardRows : b[y] = BoardColumns}
full_below(b, y) == Cardinality({z \in full_rows(b) : z > y})

\* Each row that is not full comes down by as many rows as are full below it,
\* and where none comes to lie it is empty.
Fallen(b) ==
  [y \in BoardRows |-> UNION {b[o] : o \in {z \in BoardRows \ full_rows(b) : z + full_below(b, z) = y}}]

\* A landing takes away exactly the rows that are full, however many, and every
\* other row keeps its order; at no other time does the board change under a
\* falling piece, and a piece in play lies on empty ground inside the board
\* (tetris.c:57-75, 97-130).
LandingTakesFullRows ==
  [][/\ (playing /\ playing') => fits(board', piece', rot', at')
     /\ (playing /\ tetris_on' /\ board' # board) =>
          board' = Fallen(lock_piece(board, piece, rot, at))]_tetris_vars
=============================================================================
