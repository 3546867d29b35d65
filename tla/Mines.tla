------------------------------- MODULE Mines --------------------------------
(***************************************************************************)
(* The game of mines (user/mines.c): what lies under each square, what it  *)
(* shows, and the counts the game is won by. The mines are only dealt at   *)
(* the first click, and one square can open many.                          *)
(***************************************************************************)
EXTENDS Integers, FiniteSets, SequencesExt

CONSTANTS MINES_COLS, MINES_ROWS, MINES

ASSUME MinesAssumption ==
  /\ {MINES_COLS, MINES_ROWS, MINES} \subseteq Nat \ {0}
  /\ MINES < MINES_COLS * MINES_ROWS

VARIABLES field,      \* mined, shown, opened, flagged, dealt, over
          hover,      \* the square under the pointer
          was_down    \* bit 0 of buttons_was

mines_vars == <<field, hover, was_down>>

Squares == 0..MINES_COLS * MINES_ROWS - 1
NoSquare == -1

new_board ==
  [mined |-> {}, shown |-> [sq \in Squares |-> "COVERED"], opened |-> 0, flagged |-> 0,
   dealt |-> FALSE, over |-> "PLAYING"]

\* What the double loops of deal and of uncover go over, which is the square too.
around(square) ==
  {sq \in Squares : /\ (sq % MINES_COLS) - (square % MINES_COLS) \in -1..1
                    /\ (sq \div MINES_COLS) - (square \div MINES_COLS) \in -1..1}
touching(mined, square) == Cardinality((around(square) \ {square}) \cap mined)

\* Mutant: the first square is as good as any.
Anywhere(safe) == {mined \in SUBSET Squares : Cardinality(mined) = MINES}

deal(safe) == {mined \in SUBSET (Squares \ {safe}) : Cardinality(mined) = MINES}

----------------------------------------------------------------------------
(* Opening squares *)

\* What a square that comes off the flood fill's stack puts on. A square is open
\* from when it goes on.
filled_from(f, square) ==
  IF touching(f.mined, square) # 0 THEN {}
  ELSE {next \in around(square) : f.shown[next] = "COVERED"}

opened_too(f, squares) ==
  [f EXCEPT !.shown = [sq \in Squares |-> IF sq \in squares THEN "OPEN" ELSE @[sq]],
            !.opened = @ + Cardinality(squares)]

\* The square on top of the stack comes off.
off_the_stack(at) ==
  IF at.to_open = <<>> THEN at
  ELSE LET more == filled_from(at.f, Last(at.to_open))
       IN  [f |-> opened_too(at.f, more), to_open |-> Front(at.to_open) \o SetToSeq(more)]

\* No square goes on twice, so that the stack is empty after as many steps as
\* there are squares.
fill(f, start) ==
  LET after[k \in 0..Cardinality(Squares)] ==
        IF k = 0 THEN [f |-> opened_too(f, {start}), to_open |-> <<start>>]
        ELSE off_the_stack(after[k - 1])
  IN  after[Cardinality(Squares)].f

uncover(f, start) ==
  IF f.shown[start] # "COVERED" THEN f
  ELSE IF start \in f.mined
       THEN [f EXCEPT !.over = "HIT A MINE",
                      !.shown = [sq \in Squares |-> IF sq \in f.mined THEN "OPEN" ELSE @[sq]]]
  ELSE LET open == fill(f, start)
       IN  IF open.opened = Cardinality(Squares) - MINES THEN [open EXCEPT !.over = "CLEARED"]
           ELSE open

\* The field after a click on a square, for every way the mines may lie.
click(f, square) ==
  IF square = NoSquare \/ f.over # "PLAYING" THEN {f}
  ELSE IF f.shown[square] = "FLAG" THEN {f}
  ELSE {uncover([f EXCEPT !.mined = mined, !.dealt = TRUE], square) :
          mined \in IF f.dealt THEN {f.mined} ELSE deal(square)}

----------------------------------------------------------------------------
(* Events *)

\* EV_POINTER: a click is the event in which the button turns on.
Pointer ==
  \E square \in Squares \cup {NoSquare}, down \in BOOLEAN :
     /\ hover' = square /\ was_down' = down
     /\ \E f \in IF down /\ ~was_down THEN click(field, square) ELSE {field} : field' = f

toggle_flag ==
  /\ field' = IF hover = NoSquare \/ field.over # "PLAYING" THEN field
              ELSE IF field.shown[hover] = "OPEN" THEN field
              ELSE IF field.shown[hover] = "FLAG"
                   THEN [field EXCEPT !.shown[hover] = "COVERED", !.flagged = @ - 1]
              ELSE [field EXCEPT !.shown[hover] = "FLAG", !.flagged = @ + 1]
  /\ UNCHANGED <<hover, was_down>>

DealAgain == field' = new_board /\ UNCHANGED <<hover, was_down>>

\* Escape. The program is started again later.
leave_mines == field' = new_board /\ hover' = NoSquare /\ was_down' = FALSE

MinesInit == field = new_board /\ hover = NoSquare /\ was_down = FALSE

MinesNext == Pointer \/ toggle_flag \/ DealAgain \/ leave_mines

----------------------------------------------------------------------------
(* Properties *)

MinesTypeOK ==
  /\ field.mined \subseteq Squares /\ field.shown \in [Squares -> {"COVERED", "OPEN", "FLAG"}]
  /\ hover \in Squares \cup {NoSquare} /\ was_down \in BOOLEAN

showing(state) == {sq \in Squares : field.shown[sq] = state}

\* The game is fair: a mine only shows when the game is lost, and it is never
\* lost at the first click; it is won exactly when every other square is open,
\* whatever was flagged and opened in which order; and the number of flags is
\* the number of flags until a mine blows them away (mines.c:151-161, 202-238).
MinesAreFair ==
  /\ field.over = "PLAYING" => showing("OPEN") \cap field.mined = {}
  /\ field.over = "HIT A MINE" => field.opened > 0
  /\ field.opened = Cardinality(showing("OPEN") \ field.mined)
  /\ field.over = "CLEARED" <=> field.dealt /\ Squares \ field.mined = showing("OPEN")
  /\ field.over # "HIT A MINE" => field.flagged = Cardinality(showing("FLAG"))
=============================================================================
