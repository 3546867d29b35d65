------------------------------ MODULE Commands ------------------------------
(***************************************************************************)
(* What a line typed at the prompt does: the arrow and the bars (cmd.c,    *)
(* cmdline.c), the sink a command writes to (cmdout.c), the filters        *)
(* (cmdtext.c, cmdsort.c), the commands on files (cmdfs.c) and RUN, which  *)
(* runs the lines of a file and so calls cmd_run again (cmdrun.c).         *)
(*                                                                         *)
(* A line is a sequence of words and a text a sequence of words and        *)
(* newlines; blanks and the case of letters are left out, and so is what   *)
(* goes to the screen. Files are by name; Vfs has how they are kept.       *)
(***************************************************************************)
EXTENDS Integers, FiniteSets, Sequences, SequencesExt, TLC

CONSTANTS CMD_MAX_DEPTH,
          VFS_FILE_MAX,     \* words a file, and a buffer, can hold
          LINE_MAX,         \* words of a script's line that are kept
          SORT_MAX_LINES,
          DEFAULT_LINES,    \* HEAD and TAIL, when nobody said
          Counts,           \* the words that are numbers, and which
          Order,            \* the words SORT can tell apart, least first
          Typed,            \* the lines somebody types
          FilesAtFirst,     \* the files there are, by name
          ProgramMark,      \* what a program file begins with
          ProgramSays       \* external: what running it prints

ASSUME CommandsAssumption ==
  /\ {CMD_MAX_DEPTH, VFS_FILE_MAX, LINE_MAX, SORT_MAX_LINES} \subseteq Nat \ {0}
  /\ DEFAULT_LINES \in Nat /\ \A word \in DOMAIN Counts : Counts[word] \in Nat
  /\ \A line \in Typed : line \in Seq(STRING) /\ Len(line) <= LINE_MAX
  /\ \A name \in DOMAIN FilesAtFirst : FilesAtFirst[name] \in Seq(STRING)
  /\ ProgramSays \in Seq(STRING)

VARIABLES stack,     \* the calls of cmd_run under way, the outermost first
          depth,     \* and what cmd_run counts of them
          out,       \* context->out: the screen, or the line that captures
          input,     \* context->input: a pipe, or nothing
          pipes,     \* pipe_a and pipe_b of every level
          script,    \* the copies of script files
          running,
          files,
          wish       \* context->open_editor

commands_vars == <<stack, depth, out, input, pipes, script, running, files, wish>>

Levels == 0..(CMD_MAX_DEPTH - 1)
Screen == -1
Nothing == <<>>     \* no pipe
NoName == ""
NoScript == -1
NewLine == "\n"
Said == "SAID"       \* any of the messages
ToFile == ">"
Bar == "|"

----------------------------------------------------------------------------
(* Cutting a line up *)

cut_to(n, text) == IF Len(text) <= n THEN text ELSE SubSeq(text, 1, n)
first_of(w, line) == SelectInSeq(line, LAMBDA x : x = w)

\* Before the arrow, and the one word after it.
cmd_split_redirect(line) ==
  LET at == first_of(ToFile, line)
  IN  [command |-> SubSeq(line, 1, at - 1), target |-> cut_to(1, SubSeq(line, at + 1, Len(line)))]

is_redirect(line) ==
  /\ first_of(ToFile, line) # 0
  /\ cmd_split_redirect(line).command # <<>> /\ cmd_split_redirect(line).target # <<>>

cmd_split_pipe(line) ==
  LET at == first_of(Bar, line)
  IN  IF at = 0 THEN [first |-> line, rest |-> <<>>, more |-> FALSE]
      ELSE [first |-> SubSeq(line, 1, at - 1), rest |-> SubSeq(line, at + 1, Len(line)), more |-> TRUE]

----------------------------------------------------------------------------
(* Text in, less text out *)

\* A newline at the very end does not begin another line.
with_word(lines, w) ==
  IF w = NewLine THEN Append(lines, <<>>) ELSE [lines EXCEPT ![Len(lines)] = Append(@, w)]
lines_of(text) ==
  LET read[n \in 0..Len(text)] ==
        IF n = 0 THEN << <<>> >> ELSE with_word(read[n - 1], text[n])
      all == read[Len(text)]
  IN  IF Last(all) = <<>> THEN Front(all) ELSE all

\* The lines that are shown, by where they stand.
put_shown(lines, shown) ==
  FlattenSeq([i \in DOMAIN lines |-> IF i \in shown THEN Append(lines[i], NewLine) ELSE <<>>])

cat(text) == IF text = <<>> THEN <<Said, NewLine>> ELSE Append(text, NewLine)

grep(needle, text) ==
  LET lines == lines_of(text)
      found == {i \in DOMAIN lines : needle \in Range(lines[i])}
  IN  IF found = {} THEN <<Said, needle, NewLine>> ELSE put_shown(lines, found)

head(n, text) == put_shown(lines_of(text), 1..n)
tail(n, text) ==
  LET lines == lines_of(text)
  IN  put_shown(lines, (Len(lines) - n + 1)..Len(lines))

\* The shorter first when it is a beginning of the other.
before(a, b) ==
  \E i \in 0..Len(a) :
     /\ i < Len(b) /\ SubSeq(a, 1, i) = SubSeq(b, 1, i)
     /\ \/ i = Len(a)
        \/ i < Len(a) /\ first_of(a[i + 1], Order) < first_of(b[i + 1], Order)

\* The first that none of those from the i-th on comes before.
least_from(lines, i) ==
  LET least[j \in i..Len(lines)] ==
        IF j = i THEN i
        ELSE LET so_far == least[j - 1] IN IF before(lines[j], lines[so_far]) THEN j ELSE so_far
  IN  least[Len(lines)]

swapped(lines, i, j) == [lines EXCEPT ![i] = lines[j], ![j] = lines[i]]

sorted(lines) ==
  LET after[i \in 0..Len(lines)] ==
        IF i = 0 THEN lines
        ELSE LET so_far == after[i - 1] IN swapped(so_far, i, least_from(so_far, i))
  IN  after[Len(lines)]

sort(text) ==
  LET lines == lines_of(text)
      kept == sorted(cut_to(SORT_MAX_LINES, lines))
  IN  put_shown(kept, DOMAIN kept)
        \o (IF Len(lines) > SORT_MAX_LINES THEN <<Said, NewLine>> ELSE <<>>)

number_word(n) == ToString(n)

wc(text, path) ==
  LET breaks == Cardinality({i \in DOMAIN text : text[i] = NewLine})
  IN  <<number_word(IF text = <<>> THEN 0 ELSE breaks + 1), number_word(Len(text) - breaks),
        number_word(Len(text))>> \o path \o <<NewLine>>

----------------------------------------------------------------------------
(* The commands: what each may print, and what it makes of the files. A    *)
(* write there is no room for is refused; what the file held is gone by    *)
(* then, as the room is given back first (vfs_write).                      *)

complaint(words) == words \o <<Said, NewLine>>
a_file(path) == Len(path) = 1 /\ path[1] \in DOMAIN files

\* A name wins over the pipe.
has_input(path) == IF path = <<>> THEN input # Nothing ELSE a_file(path)
cmd_input_text(path) == IF path = <<>> THEN pipes[input] ELSE files[path[1]]

count_and_path(rest) ==
  IF rest # <<>> /\ rest[1] \in DOMAIN Counts
  THEN [count |-> Counts[rest[1]], path |-> Tail(rest)]
  ELSE [count |-> DEFAULT_LINES, path |-> rest]

\* <<the filter's path, what it makes of a text>>
Filters == {"CAT", "GREP", "HEAD", "TAIL", "SORT", "WC"}
path_of(name, rest) ==
  CASE name = "GREP" -> Tail(rest)
    [] name \in {"HEAD", "TAIL"} -> count_and_path(rest).path
    [] OTHER -> rest
filtered(name, rest, text) ==
  CASE name = "CAT" -> cat(text)
    [] name = "GREP" -> grep(rest[1], text)
    [] name = "HEAD" -> head(count_and_path(rest).count, text)
    [] name = "TAIL" -> tail(count_and_path(rest).count, text)
    [] name = "SORT" -> sort(text)
    [] OTHER -> wc(text, rest)

filter_says(name, rest) ==
  IF (name = "GREP" /\ rest = <<>>) \/ ~has_input(path_of(name, rest)) THEN complaint(<<>>)
  ELSE filtered(name, rest, cmd_input_text(path_of(name, rest)))

put_in(fs, name, text) == [n \in DOMAIN fs \cup {name} |-> IF n = name THEN text ELSE fs[n]]
written(name, text) == put_in(files, name, text)
without(name) == [n \in DOMAIN files \ {name} |-> files[n]]

Changers == {"RM", "TOUCH", "WRITE", "CP", "MV"}

can_change(name, rest) ==
  CASE name = "RM" -> a_file(rest)
    [] name = "TOUCH" -> Len(rest) = 1
    [] name = "WRITE" -> rest # <<>>
    [] OTHER -> Len(rest) = 2 /\ a_file(<<rest[1]>>) /\ ~a_file(<<rest[2]>>)

changed(name, rest) ==
  CASE name = "RM" -> without(rest[1])
    [] name = "TOUCH" -> IF a_file(rest) THEN files ELSE written(rest[1], <<>>)
    [] name = "WRITE" -> written(rest[1], Tail(rest))
    [] name = "CP" -> written(rest[2], files[rest[1]])
    [] OTHER -> put_in(without(rest[1]), rest[2], files[rest[1]])

Answer(says, fs, wanted) == [says |-> says, files |-> fs, wish |-> wanted]

\* The files after a write, a new file or a copy that was refused.
not_written(name, text) ==
  (IF name \in DOMAIN files THEN {} ELSE {files})
    \cup (IF text = <<>> THEN {} ELSE {written(name, <<>>)})
refusals(name, rest) ==
  CASE name = "WRITE" -> not_written(rest[1], Tail(rest))
    [] name = "TOUCH" -> IF a_file(rest) THEN {} ELSE {files}
    [] name = "CP" -> {files}
    [] OTHER -> {}

changer_answers(name, rest) ==
  LET complaining(fs) == Answer(complaint(cut_to(1, rest)), fs, wish)
  IN  IF ~can_change(name, rest) THEN {complaining(files)}
      ELSE {Answer(<<>>, changed(name, rest), wish)}
             \cup {complaining(fs) : fs \in refusals(name, rest)}

edit_answer(rest) ==
  IF rest = <<>> THEN Answer(complaint(<<>>), files, wish) ELSE Answer(<<>>, files, rest[1])

is_program(path) == a_file(path) /\ cut_to(1, files[path[1]]) = <<ProgramMark>>
runs_lines(words) == words # <<>> /\ words[1] = "RUN" /\ a_file(Tail(words)) /\ ~is_program(Tail(words))

\* run_one, but for a file of commands.
answers(words) ==
  IF words = <<>> THEN {Answer(<<>>, files, wish)}
  ELSE LET name == words[1]
           rest == Tail(words)
           says(text) == {Answer(text, files, wish)}
       IN  CASE name = "ECHO" -> says(Append(rest, NewLine))
             [] name = "CLEAR" -> says(<<>>)
             [] name = "EDIT" -> {edit_answer(rest)}
             [] name \in Filters -> says(filter_says(name, rest))
             [] name \in Changers -> changer_answers(name, rest)
             [] name = "RUN" /\ is_program(rest) -> says(ProgramSays)
             [] OTHER -> says(complaint(<<name>>))

----------------------------------------------------------------------------
(* The calls of cmd_run. `kept', `read' and `said' are ghosts: the text a  *)
(* line carries to its next stage and the file it runs, as they were, and  *)
(* everything printed for the stage it captures.                           *)

NewLineCall(line) ==
  [left |-> IF is_redirect(line) THEN cmd_split_redirect(line).command ELSE line,
   target |-> IF is_redirect(line) THEN cmd_split_redirect(line).target ELSE <<>>,
   n |-> 0, phase |-> "stage", carried |-> Nothing, held |-> Nothing, over |-> FALSE,
   screen |-> out, caller_input |-> input, script |-> NoScript, at |-> 0,
   kept |-> <<>>, read |-> <<>>, said |-> <<>>]

Top == stack[Len(stack)]
Level == Len(stack) - 1
with_top(call) == [stack EXCEPT ![Len(stack)] = call]

pipe_of(n, level) == <<IF n % 2 = 0 THEN "a" ELSE "b", level>>

is_last(call) == ~cmd_split_pipe(call.left).more
captures(call) == ~is_last(call) \/ call.target # <<>>

\* A line that is too deep, or whose arrow has nothing either side of it, is
\* answered with a message and no more.
cmd_run(calls, line) ==
  CASE depth >= CMD_MAX_DEPTH -> stack' = calls /\ UNCHANGED depth
    [] depth < CMD_MAX_DEPTH /\ first_of(ToFile, line) # 0 /\ ~is_redirect(line) ->
         stack' = calls /\ UNCHANGED depth
    [] OTHER -> stack' = Append(calls, NewLineCall(line)) /\ depth' = depth + 1

CommandsInit ==
  /\ stack = <<>> /\ depth = 0 /\ out = Screen /\ input = Nothing
  /\ pipes = [p \in {"a", "b"} \X Levels |-> <<>>]
  /\ script = [l \in Levels |-> <<>>] /\ running = 0
  /\ files = FilesAtFirst /\ wish = NoName

TypeLine ==
  /\ stack = <<>>
  /\ \E line \in Typed : cmd_run(<<>>, line)
  /\ wish' = NoName
  /\ UNCHANGED <<out, input, pipes, script, running, files>>

\* The last stage writes where the line itself does, unless it goes to a file.
StartStage ==
  /\ stack # <<>> /\ Top.phase = "stage"
  /\ LET held == pipe_of(Top.n, Level)
     IN  IF captures(Top)
         THEN /\ stack' = with_top([Top EXCEPT !.phase = "command", !.held = held,
                                               !.over = FALSE, !.said = <<>>])
              /\ pipes' = [pipes EXCEPT ![held] = <<>>]
              /\ out' = Level
         ELSE /\ stack' = with_top([Top EXCEPT !.phase = "command"])
              /\ out' = Top.screen
              /\ UNCHANGED pipes
  /\ input' = Top.carried
  /\ UNCHANGED <<depth, script, running, files, wish>>

command == cmd_split_pipe(Top.left).first

\* Ghost: the line that captures what the innermost one prints.
Readers == {i \in DOMAIN stack : captures(stack[i])}
reader == CHOOSE i \in Readers : \A j \in Readers : j <= i

\* cmd_print, into the buffer of the line context->out belongs to.
printed_to(calls, text) ==
  IF out = Screen THEN calls
  ELSE [calls EXCEPT ![out + 1].over = @ \/ Len(pipes[calls[out + 1].held] \o text) > VFS_FILE_MAX]

RunCommand ==
  /\ stack # <<>> /\ Top.phase = "command" /\ ~runs_lines(command)
  /\ \E answer \in answers(command) :
       LET ended == with_top([Top EXCEPT !.phase = "ran"])
           heard == IF Readers = {} THEN ended ELSE [ended EXCEPT ![reader].said = @ \o answer.says]
       IN  /\ stack' = printed_to(heard, answer.says)
           /\ pipes' = IF out = Screen THEN pipes
                       ELSE [pipes EXCEPT ![stack[out + 1].held] = cut_to(VFS_FILE_MAX, @ \o answer.says)]
           /\ files' = answer.files
           /\ wish' = answer.wish
  /\ UNCHANGED <<depth, out, input, script, running>>

\* Mutant: one copy of the script for every depth.
OneCopy(r) == 0

copy_of(r) == r

\* RUN reads its file once. (The refusal at CMD_MAX_DEPTH is never met: cmd_run
\* refuses the line first.)
OpenScript ==
  /\ stack # <<>> /\ Top.phase = "command" /\ runs_lines(command)
  /\ LET text == files[command[2]]
     IN  /\ script' = [script EXCEPT ![copy_of(running)] = text]
         /\ stack' = with_top([Top EXCEPT !.phase = "script", !.script = copy_of(running), !.at = 0, !.read = text])
  /\ running' = running + 1
  /\ UNCHANGED <<depth, out, input, pipes, files, wish>>

NextLine ==
  /\ stack # <<>> /\ Top.phase = "script" /\ Top.at < Len(lines_of(script[Top.script]))
  /\ LET line == cut_to(LINE_MAX, lines_of(script[Top.script])[Top.at + 1])
         calls == with_top([Top EXCEPT !.at = @ + 1])
     IN  IF line = <<>> \/ line[1] = "#" THEN stack' = calls /\ UNCHANGED depth
         ELSE cmd_run(calls, line)
  /\ UNCHANGED <<out, input, pipes, script, running, files, wish>>

EndScript ==
  /\ stack # <<>> /\ Top.phase = "script" /\ Top.at >= Len(lines_of(script[Top.script]))
  /\ stack' = with_top([Top EXCEPT !.phase = "ran", !.script = NoScript, !.read = <<>>])
  /\ running' = running - 1
  /\ UNCHANGED <<depth, out, input, pipes, script, files, wish>>

NextStage ==
  /\ stack # <<>> /\ Top.phase = "ran" /\ ~is_last(Top)
  /\ stack' = with_top([Top EXCEPT !.phase = "stage", !.left = cmd_split_pipe(@).rest, !.n = @ + 1,
                                   !.carried = Top.held, !.kept = pipes[Top.held]])
  /\ UNCHANGED <<depth, out, input, pipes, script, running, files, wish>>

\* Mutant: context->out is left as the last stage had it.
LeftAsItIs(call) == out

caller_out(call) == call.screen

\* One newline comes off the end of what goes to a file.
trimmed(text) == IF text # <<>> /\ Last(text) = NewLine THEN Front(text) ELSE text

EndLine ==
  /\ stack # <<>> /\ Top.phase = "ran" /\ is_last(Top)
  /\ stack' = Front(stack)
  /\ depth' = depth - 1
  /\ out' = caller_out(Top)
  /\ input' = Top.caller_input
  /\ files' \in IF Top.target = <<>> THEN {files}
                ELSE LET text == trimmed(pipes[Top.held])
                     IN  {written(Top.target[1], text)} \cup not_written(Top.target[1], text)
  /\ UNCHANGED <<pipes, script, running, wish>>

CommandsNext ==
  \/ TypeLine \/ StartStage \/ RunCommand \/ OpenScript
  \/ NextLine \/ EndScript \/ NextStage \/ EndLine

----------------------------------------------------------------------------
(* Properties *)

CommandsTypeOK ==
  /\ Len(stack) <= CMD_MAX_DEPTH
  /\ out \in Levels \cup {Screen}
  /\ input = Nothing \/ input \in DOMAIN pipes
  /\ \A p \in DOMAIN pipes : Len(pipes[p]) <= VFS_FILE_MAX

\* Whatever the lines inside it do, a line finds what it carries to its next
\* stage, and the file it is running, as they were (cmd.c:188-197, cmdrun.c:22-28).
BuffersAreTheirOwn ==
  \A i \in DOMAIN stack :
     /\ stack[i].carried # Nothing => pipes[stack[i].carried] = stack[i].kept
     /\ stack[i].phase = "script" => script[stack[i].script] = stack[i].read

\* What a command prints reaches the innermost line that captures it, all of it
\* and in order as far as there is room, and a line that lost some knows; and
\* when nothing runs, nothing is left of what ran (cmd.c:235-346).
OutputGoesToItsReader ==
  /\ depth = Len(stack)
  /\ running = Cardinality({i \in DOMAIN stack : stack[i].phase = "script"})
  /\ stack = <<>> => out = Screen /\ input = Nothing
  /\ \A i \in DOMAIN stack :
       (captures(stack[i]) /\ stack[i].phase # "stage")
         => /\ pipes[stack[i].held] = cut_to(VFS_FILE_MAX, stack[i].said)
            /\ stack[i].over = (Len(stack[i].said) > VFS_FILE_MAX)
=============================================================================
