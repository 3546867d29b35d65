------------------------------- MODULE Editor -------------------------------
(***************************************************************************)
(* The editor: a document of lines with a cursor and a view (editor.c),    *)
(* and how it opens and saves a file (main.c).                             *)
(*                                                                         *)
(* Lines are counted from 1 here; a column is the number of characters     *)
(* before the cursor.                                                      *)
(***************************************************************************)
EXTENDS Integers, Sequences, SequencesExt

CONSTANTS EDIT_MAX_LINES, EDIT_MAX_COLS,
          Letters,        \* characters the font knows
          Heights,        \* lines of text a tile of the editor shows
          Documents       \* texts a file may hold

LineEnd == "\n"

ASSUME EditorAssumption ==
  /\ {EDIT_MAX_LINES, EDIT_MAX_COLS} \subseteq Nat \ {0} /\ Heights \subseteq Nat \ {0}
  /\ Documents \subseteq Seq(Letters \cup {LineEnd})

VARIABLES editor,   \* struct editor
          on_file   \* what the file holds (forgotten once the document changes)

editor_vars == <<editor, on_file>>

editor_init ==
  [lines |-> << <<>> >>, cursor_line |-> 1, cursor_column |-> 0, top_line |-> 1,
   visible_lines |-> 1, changed |-> FALSE]

----------------------------------------------------------------------------
(* A text as lines, and back *)

\* Past the last line, and past the end of one, nothing more fits.
loaded_line(lines, ch) ==
  IF ch = LineEnd THEN Append(lines, <<>>)
  ELSE IF Len(Last(lines)) >= EDIT_MAX_COLS THEN lines
  ELSE [lines EXCEPT ![Len(lines)] = Append(@, ch)]

editor_load(text) ==
  LET after[i \in 0..Len(text)] ==
        IF i = 0 THEN << <<>> >> ELSE loaded_line(after[i - 1], text[i])
      all == after[Len(text)]
  IN  [editor_init EXCEPT !.lines = IF Len(all) <= EDIT_MAX_LINES THEN all
                                    ELSE SubSeq(all, 1, EDIT_MAX_LINES)]

\* It always fits a file (editor.h:37-38).
editor_text(e) ==
  FlattenSeq([i \in DOMAIN e.lines |-> IF i = 1 THEN e.lines[i] ELSE <<LineEnd>> \o e.lines[i]])

----------------------------------------------------------------------------
(* Keys *)

here(e) == e.lines[e.cursor_line]
before_cursor(e) == SubSeq(here(e), 1, e.cursor_column)
after_cursor(e) == SubSeq(here(e), e.cursor_column + 1, Len(here(e)))

\* Mutant: the line just under the window counts as on it.
OneTooFar(e) ==
  IF e.cursor_line < e.top_line THEN [e EXCEPT !.top_line = e.cursor_line]
  ELSE IF e.cursor_line > e.top_line + e.visible_lines
       THEN [e EXCEPT !.top_line = e.cursor_line - e.visible_lines + 1]
  ELSE e

follow_cursor(e) ==
  IF e.cursor_line < e.top_line THEN [e EXCEPT !.top_line = e.cursor_line]
  ELSE IF e.cursor_line >= e.top_line + e.visible_lines
       THEN [e EXCEPT !.top_line = e.cursor_line - e.visible_lines + 1]
  ELSE e

editor_insert(e, ch) ==
  IF Len(here(e)) >= EDIT_MAX_COLS THEN e
  ELSE follow_cursor([e EXCEPT !.lines[e.cursor_line] = before_cursor(e) \o <<ch>> \o after_cursor(e),
                               !.cursor_column = @ + 1, !.changed = TRUE])

\* What was after the cursor becomes the next line.
editor_newline(e) ==
  IF Len(e.lines) >= EDIT_MAX_LINES THEN e
  ELSE follow_cursor([e EXCEPT
         !.lines = InsertAt([@ EXCEPT ![e.cursor_line] = before_cursor(e)],
                            e.cursor_line + 1, after_cursor(e)),
         !.cursor_line = @ + 1, !.cursor_column = 0, !.changed = TRUE])

rubbed_out(e) ==
  follow_cursor([e EXCEPT !.lines[e.cursor_line] = Front(before_cursor(e)) \o after_cursor(e),
                          !.cursor_column = @ - 1, !.changed = TRUE])

\* Mutant: the cursor goes to the start of the line that took the other in.
JoinedAtTheStart(e) ==
  LET above == e.lines[e.cursor_line - 1]
  IN  follow_cursor([e EXCEPT
        !.lines = RemoveAt([@ EXCEPT ![e.cursor_line - 1] = above \o here(e)], e.cursor_line),
        !.cursor_line = @ - 1, !.changed = TRUE])

\* At the start of a line, it joins the one above.
joined(e) ==
  LET above == e.lines[e.cursor_line - 1]
  IN  follow_cursor([e EXCEPT
        !.lines = RemoveAt([@ EXCEPT ![e.cursor_line - 1] = above \o here(e)], e.cursor_line),
        !.cursor_line = @ - 1, !.cursor_column = Len(above), !.changed = TRUE])

editor_backspace(e) ==
  IF e.cursor_column > 0 THEN rubbed_out(e)
  ELSE IF e.cursor_line = 1 \/ Len(e.lines[e.cursor_line - 1]) + Len(here(e)) > EDIT_MAX_COLS THEN e
  ELSE joined(e)

within(low, n, high) == IF n < low THEN low ELSE IF n > high THEN high ELSE n

editor_move(e, columns, lines) ==
  LET line == within(1, e.cursor_line + lines, Len(e.lines))
  IN  follow_cursor([e EXCEPT !.cursor_line = line,
                              !.cursor_column = within(0, @ + columns, Len(e.lines[line]))])

editor_home(e) == [e EXCEPT !.cursor_column = 0]
editor_end(e) == [e EXCEPT !.cursor_column = Len(here(e))]

editor_fit(e, height) == follow_cursor([e EXCEPT !.visible_lines = height])

----------------------------------------------------------------------------
(* What happens to it *)

EditorInit == editor = editor_init /\ on_file = <<>>

\* A file that is not there, or cannot be read, is opened empty.
Open ==
  \E text \in Documents \cup {<<>>} : editor' = editor_load(text) /\ on_file' = text

\* The window is laid out and the editor painted.
Fit == /\ \E height \in Heights : editor' = editor_fit(editor, height)
       /\ UNCHANGED on_file

Key(e) ==
  /\ editor' = e
  /\ on_file' = IF e.changed THEN <<>> ELSE on_file

EditKey == \/ \E ch \in Letters : Key(editor_insert(editor, ch))
           \/ Key(editor_newline(editor))
           \/ Key(editor_backspace(editor))
MoveKey == \/ \E d \in {<<0, -1>>, <<0, 1>>, <<-1, 0>>, <<1, 0>>} : Key(editor_move(editor, d[1], d[2]))
           \/ Key(editor_home(editor)) \/ Key(editor_end(editor))

\* Control and O.
Save == editor' = [editor EXCEPT !.changed = FALSE] /\ on_file' = editor_text(editor)

\* With no room for it, the write has emptied the file before it is refused.
RefusedSave == editor_text(editor) # <<>> /\ on_file' = <<>> /\ UNCHANGED editor

EditorNext == Open \/ Fit \/ EditKey \/ MoveKey \/ Save \/ RefusedSave

----------------------------------------------------------------------------
(* Properties *)

\* The cursor is on a character of the document or behind its line's last one,
\* and in the window, however lines are split, joined and left, and the window
\* made smaller (editor.c:140-151, 246-307).
CursorIsOnTheText ==
  /\ editor.cursor_line \in DOMAIN editor.lines
  /\ editor.cursor_column \in 0..Len(here(editor))
  /\ editor.cursor_line \in editor.top_line..(editor.top_line + editor.visible_lines - 1)

EditorTypeOK ==
  /\ Len(editor.lines) \in 1..EDIT_MAX_LINES
  /\ \A i \in DOMAIN editor.lines : Len(editor.lines[i]) <= EDIT_MAX_COLS
  /\ CursorIsOnTheText

\* The document is one text and the cursor a place in it: a key takes out the
\* character before that place, puts one in there, moves it, or does nothing.
place(e) ==
  Len(editor_text([e EXCEPT !.lines = Append(SubSeq(@, 1, e.cursor_line - 1), before_cursor(e))]))
EditsOneText ==
  [][(editor' # editor /\ EditKey) =>
       LET text == editor_text(editor)
           at == place(editor)
       IN  \/ \E ch \in Letters \cup {LineEnd} :
                editor_text(editor') = InsertAt(text, at + 1, ch) /\ place(editor') = at + 1
           \/ /\ at > 0 /\ place(editor') = at - 1
              /\ editor_text(editor') = RemoveAt(text, at)]_editor_vars

\* main.c:1250-1251 refuses to save a part "over the whole of one", "the worst
\* thing an editor can do": what was opened and saved as it is, is the same.
SavesTheWhole ==
  [][(Save /\ ~editor.changed /\ on_file # <<>>) => on_file' = on_file]_editor_vars
=============================================================================
