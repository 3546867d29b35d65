------------------------------ MODULE Terminal ------------------------------
(***************************************************************************)
(* The terminal: a grid of characters that scrolls (term.c), the ring of   *)
(* lines that have left it with the view onto them (termback.c), the line  *)
(* being typed with its history, and the completion of a name (cmdtab.c).  *)
(*                                                                         *)
(* Rows, columns and places in the ring are counted from 0 as in the code. *)
(***************************************************************************)
EXTENDS Integers, FiniteSets, Sequences, SequencesExt

CONSTANTS TERM_MAX_COLS, TERM_MAX_ROWS,
          TERM_BACK,        \* lines the ring keeps
          TERM_HISTORY,     \* lines the arrows reach
          TERM_INPUT_MAX,   \* room for the line being typed, with its end
          Glyphs,           \* characters the font knows
          Unknown,          \* and one it does not
          Inks,             \* what commands print, of those
          Sizes,            \* <<cols, rows>> the tiles come in
          Entries,          \* the names in each directory, by what it is called
          Prompt,           \* what goes before the line
          MaxPending        \* bound: newlines with nothing printed after them

Blank == " "
Newline == "\n"
Slash == "/"

\* The ring is longer than the screen is high.
ASSUME TerminalAssumption ==
  /\ {TERM_MAX_COLS, TERM_MAX_ROWS, TERM_BACK, TERM_HISTORY} \subseteq Nat \ {0}
  /\ TERM_INPUT_MAX \in Nat \ {0, 1} /\ TERM_MAX_ROWS <= TERM_BACK
  /\ Unknown \notin Glyphs /\ Inks \cup {Blank, Slash} \subseteq Glyphs /\ Prompt \in Seq(Glyphs)
  /\ Sizes \subseteq Nat \X Nat /\ MaxPending \in Nat
  /\ \A place \in DOMAIN Entries :
       IsFiniteSet(Entries[place]) /\ Entries[place] \subseteq Seq(Glyphs)

VARIABLES term,    \* struct term
          paper,   \* ghost: the rows that left the top, the last TERM_BACK of them
          ran      \* ghost: the lines run, the last TERM_HISTORY that were not empty

terminal_vars == <<term, paper, ran>>

Columns == 0..(TERM_MAX_COLS - 1)
BlankRow == [x \in Columns |-> Blank]
blank_grid == [y \in 0..(TERM_MAX_ROWS - 1) |-> BlankRow]

clamp(value, low, high) ==
  IF value < low THEN low ELSE IF value > high THEN high ELSE value

term_init(cols, rows) ==
  [cells |-> blank_grid, row |-> 0, column |-> 0,
   cols |-> clamp(cols, 1, TERM_MAX_COLS), rows |-> clamp(rows, 1, TERM_MAX_ROWS),
   input |-> <<>>, history |-> <<>>, history_at |-> 0,
   back |-> [i \in 0..(TERM_BACK - 1) |-> BlankRow],
   back_count |-> 0, back_next |-> 0, back_view |-> 0]

----------------------------------------------------------------------------
(* The lines that have left the grid *)

termback_to_bottom(t) == [t EXCEPT !.back_view = 0]

\* The top row as the ring keeps it: what the terminal is too narrow for is cut.
top_row(t) == [x \in Columns |-> IF x < t.cols THEN t.cells[0][x] ELSE Blank]

\* Mutant: the view keeps its distance to the newest line.
ViewStaysPut(t, count) == t.back_view

\* The view stays on its text until it is on the oldest line.
view_after(t, count) ==
  IF t.back_view > 0 /\ t.back_view < count THEN t.back_view + 1 ELSE t.back_view

termback_keep(t) ==
  LET count == IF t.back_count < TERM_BACK THEN t.back_count + 1 ELSE t.back_count
  IN  [t EXCEPT !.back[t.back_next] = top_row(t),
                !.back_next = (@ + 1) % TERM_BACK,
                !.back_count = count,
                !.back_view = view_after(t, count)]

\* A page less one line, and no further than there are lines.
termback_scroll(t, pages) ==
  LET step == IF t.rows > 1 THEN t.rows - 1 ELSE 1
  IN  [t EXCEPT !.back_view = clamp(@ + step * pages, 0, t.back_count)]

\* Mutant: the place is counted from the oldest line, wrapped or not.
FromTheFront(t, up) == (TERM_BACK - up) % TERM_BACK

ring_place(t, up) == (t.back_next + TERM_BACK - up) % TERM_BACK

\* Line `line' of what is looked at.
termback_row(t, line) ==
  LET up == t.back_view - line
  IN  CASE up <= 0 -> t.cells[-up]
        [] up > 0 /\ up <= t.back_count -> t.back[ring_place(t, up)]
        [] OTHER -> BlankRow

----------------------------------------------------------------------------
(* The grid *)

term_resize(t, cols, rows) ==
  LET wide == clamp(cols, 1, TERM_MAX_COLS)
      high == clamp(rows, 1, TERM_MAX_ROWS)
  IN  [t EXCEPT !.cols = wide, !.rows = high,
                !.row = IF @ >= high THEN high - 1 ELSE @,
                !.column = IF @ >= wide THEN wide - 1 ELSE @]

term_clear(t) ==
  termback_to_bottom([t EXCEPT !.cells = blank_grid, !.row = 0, !.column = 0])

scroll(t) ==
  [termback_keep(t) EXCEPT !.cells =
     [y \in DOMAIN @ |->
        CASE y + 1 < t.rows -> [x \in Columns |-> IF x < t.cols THEN @[y + 1][x] ELSE @[y][x]]
          [] y + 1 = t.rows -> BlankRow
          [] OTHER -> @[y]]]

term_newline(t) == [t EXCEPT !.column = 0, !.row = @ + 1]
wrapped(t) == IF t.column >= t.cols THEN term_newline(t) ELSE t
full(t) == t.row >= t.rows

\* The row is made when something is put on it, one row for any number of
\* newlines before.
make_room(t) == IF full(t) THEN [scroll(t) EXCEPT !.row = t.rows - 1] ELSE t

\* One character of term_print.
printed(t, ch) ==
  LET at == make_room(wrapped(t))
  IN  [at EXCEPT !.cells[at.row][at.column] = ch, !.column = @ + 1]

put(t, ch) == IF ch = Newline THEN term_newline(t) ELSE printed(t, ch)

\* The rows that have left the grid once `ch' is put on it.
last(n, list) == IF Len(list) <= n THEN list ELSE SubSeq(list, Len(list) - n + 1, Len(list))
left_after(t, rows, ch) ==
  IF ch # Newline /\ full(wrapped(t)) THEN last(TERM_BACK, Append(rows, top_row(t))) ELSE rows

----------------------------------------------------------------------------
(* The line being typed *)

with_input(t, line) == [t EXCEPT !.input = line]

remembered(lines, line) ==
  Append(IF Len(lines) = TERM_HISTORY THEN Tail(lines) ELSE lines, line)

\* A key for the line: whichever it is, the view goes back to the bottom.
term_backspace(t) ==
  with_input(termback_to_bottom(t), IF t.input = <<>> THEN <<>> ELSE Front(t.input))

term_enter(t) ==
  LET history == IF t.input = <<>> THEN t.history ELSE remembered(t.history, t.input)
  IN  [termback_to_bottom(t) EXCEPT !.history = history, !.history_at = Len(history),
                                    !.input = <<>>]

term_type(t, ch) ==
  IF Len(t.input) + 1 >= TERM_INPUT_MAX \/ ch \notin Glyphs THEN termback_to_bottom(t)
  ELSE [termback_to_bottom(t) EXCEPT !.input = Append(@, ch),
                                     !.history_at = Len(t.history)]

term_set_input(t, line) ==
  IF Len(line) + 1 >= TERM_INPUT_MAX THEN t ELSE with_input(termback_to_bottom(t), line)

term_history_step(t, back) ==
  LET at == IF back THEN t.history_at - 1 ELSE t.history_at + 1
  IN  IF at < 0 \/ at > Len(t.history) THEN t
      ELSE [t EXCEPT !.history_at = at,
                     !.input = IF at = Len(t.history) THEN <<>> ELSE t.history[at + 1]]

----------------------------------------------------------------------------
(* Finishing a name. The code matches names whatever their case; here a      *)
(* glyph stands for a letter in either.                                    *)

last_of(ch, line) ==
  LET at == {i \in DOMAIN line : line[i] = ch}
  IN  IF at = {} THEN 0 ELSE CHOOSE i \in at : \A j \in at : j <= i

\* Everything up to the last blank is left alone, and of the word after it the
\* part up to its last slash says where to look.
word(line) == SubSeq(line, last_of(Blank, line) + 1, Len(line))
where_to_look(line) ==
  LET slash == last_of(Slash, word(line))
  IN  SubSeq(word(line), 1, IF slash > 1 THEN slash - 1 ELSE slash)
kept(line) == last_of(Blank, line) + last_of(Slash, word(line))
partial(line) == SubSeq(line, kept(line) + 1, Len(line))

begins_with(line) ==
  IF where_to_look(line) \notin DOMAIN Entries THEN {}
  ELSE {name \in Entries[where_to_look(line)] : IsPrefix(partial(line), name)}

\* Mutant: the first match is never cut to what the others have in common.
NeverCut(names) == CHOOSE name \in names : \A other \in names : Len(other) <= Len(name)

\* The longest beginning all of them have in common.
shared_beginning(names) == LongestCommonPrefix(names)

cut_to_fit(line) ==
  SubSeq(line, 1, IF Len(line) < TERM_INPUT_MAX THEN Len(line) ELSE TERM_INPUT_MAX - 1)

is_directory(line, name) ==
  SubSeq(word(line), 1, last_of(Slash, word(line))) \o name \in DOMAIN Entries

\* A slash after a directory, when that is the one match.
slash_after(line, names) ==
  IF Cardinality(names) = 1 /\ is_directory(line, shared_beginning(names)) THEN <<Slash>> ELSE <<>>

cmd_complete(line) ==
  LET names == begins_with(line)
  IN  cut_to_fit(SubSeq(line, 1, kept(line)) \o shared_beginning(names) \o slash_after(line, names))

\* cmdtab_show, under the prompt and the line: every name it could have meant.
listing(line) ==
  LET shown(name) == name \o (IF is_directory(line, name) THEN <<Slash>> ELSE <<>>) \o <<Newline>>
  IN  Prompt \o line \o <<Newline>>
        \o FlattenSeq(SetToSeq({shown(name) : name \in begins_with(line)}))

----------------------------------------------------------------------------
(* What happens to a terminal *)

TerminalInit ==
  /\ term = term_init(TERM_MAX_COLS, TERM_MAX_ROWS)
  /\ paper = <<>>
  /\ ran = <<>>

\* Output of a command, a character at a time.
Output(ch) ==
  /\ ch = Newline => term.row < term.rows + MaxPending
  /\ term' = put(term, ch)
  /\ paper' = left_after(term, paper, ch)
  /\ UNCHANGED ran

\* A relayout repaints every app on the screen, and the terminal is given its
\* size again, another one or the same (paint_app).
Resize ==
  /\ \E size \in Sizes : term' = term_resize(term, size[1], size[2])
  /\ UNCHANGED <<paper, ran>>

Clear == term' = term_clear(term) /\ UNCHANGED <<paper, ran>>

Page == /\ \E pages \in {1, -1} : term' = termback_scroll(term, pages)
        /\ UNCHANGED <<paper, ran>>

Type(keys) == /\ \E ch \in keys : term' = term_type(term, ch)
              /\ UNCHANGED <<paper, ran>>

Backspace == term' = term_backspace(term) /\ UNCHANGED <<paper, ran>>

Enter ==
  /\ term' = term_enter(term)
  /\ ran' = IF term.input = <<>> THEN ran ELSE last(TERM_HISTORY, Append(ran, term.input))
  /\ UNCHANGED paper

Arrow == /\ \E back \in BOOLEAN : term' = term_history_step(term, back)
         /\ UNCHANGED <<paper, ran>>

\* What a text leaves on the grid, and of the rows that have left it.
printed_all(t, rows, text) ==
  LET after[i \in 0..Len(text)] ==
        IF i = 0 THEN [t |-> t, left |-> rows]
        ELSE LET at == after[i - 1]
             IN  [t |-> put(at.t, text[i]), left |-> left_after(at.t, at.left, text[i])]
  IN  after[Len(text)]

\* A name nothing begins with leaves the line alone; one that may still be
\* several has them listed.
Tab ==
  LET names == begins_with(term.input)
      out == IF Cardinality(names) > 1 THEN listing(term.input) ELSE <<>>
      after == printed_all(term, paper, out)
  IN  /\ names # {}
      /\ term' = term_set_input(after.t, cmd_complete(term.input))
      /\ paper' = after.left
      /\ UNCHANGED ran

\* Output, the history and the names meet in little more than the view, so each
\* is looked at by itself.
ScreenNext == \/ \E ch \in Inks \cup {Newline} : Output(ch)
              \/ Resize \/ Clear \/ Page \/ Backspace
HistoryNext == Type(Inks) \/ Backspace \/ Enter \/ Arrow
NamesNext == Type(Glyphs \cup {Unknown}) \/ Backspace \/ Tab

----------------------------------------------------------------------------
(* Properties *)

TerminalTypeOK ==
  /\ term.cols \in 1..TERM_MAX_COLS /\ term.rows \in 1..TERM_MAX_ROWS
  /\ term.row \in 0..(TERM_MAX_ROWS + MaxPending + 1) /\ term.column \in 0..term.cols
  /\ \A y \in DOMAIN term.cells : term.cells[y] \in [Columns -> Glyphs \cup {Blank}]
  /\ Len(term.input) < TERM_INPUT_MAX
  /\ Len(term.history) <= TERM_HISTORY /\ term.history_at \in 0..Len(term.history)
  /\ term.back_view \in 0..term.back_count /\ term.back_count \in 0..TERM_BACK
  /\ term.back_next \in 0..(TERM_BACK - 1)

seen(t, line) == [x \in 0..(t.cols - 1) |-> termback_row(t, line)[x]]

\* However far back the view is, it shows the lines that left the grid, oldest
\* first, and then the grid, none missing and none twice, while the ring wraps
\* and the size changes (termback.c:77-96).
ScrollbackIsOneText ==
  LET lines == paper \o [y \in 1..term.rows |-> term.cells[y - 1]]
  IN  /\ term.back_count = Len(paper)
      /\ \A view \in 0..term.back_count, line \in 0..(term.rows - 1) :
           termback_row([term EXCEPT !.back_view = view], line)
             = lines[Len(paper) - view + line + 1]

\* What somebody reads stays where it is while output arrives, whether the grid
\* scrolls under it or not, save the row that is written on, until the line they
\* are on is the oldest the ring can hold (termback.c:16-21).
ViewStaysOnItsText ==
  [][term' # term => \A ch \in Inks, line \in 0..(term.rows - 1) :
       (/\ term.back_view > 0 /\ Output(ch)
        /\ IF full(wrapped(term)) THEN term.back_view < TERM_BACK
           ELSE line - term.back_view # wrapped(term).row)
       => seen(term', line) = seen(term, line)]_terminal_vars

\* The history is what was run, the last lines of it, with no blank ones
\* (term.c:213-231).
HistoryIsWhatWasRun == term.history = ran

\* What left the grid and what was run can be read again as it was.
TerminalRemembers == ScrollbackIsOneText /\ HistoryIsWhatWasRun

\* Finishing a name only adds to the line: what was typed stays, and every name
\* it could have meant it still can (cmdtab.c:6-17).
TabOnlyAdds ==
  [][(term' # term /\ Tab)
       => /\ IsPrefix(term.input, term'.input)
          /\ Cardinality(begins_with(term.input)) > 1
               => begins_with(term'.input) = begins_with(term.input)]_terminal_vars
=============================================================================
