------------------------------ MODULE MainLoop ------------------------------
(***************************************************************************)
(* The loop of kmain: one key, then every packet the mouse has, then the   *)
(* queues of the three apps that read theirs.  The desktop looks at a key  *)
(* or a press before the windows do.  A line entered in the Terminal may   *)
(* open the Editor or run a program, and the loop stands still inside the  *)
(* program, which may have one window (winsys.c).                          *)
(*                                                                         *)
(* phase says where in a pass the loop is: "keys" before the keyboard is   *)
(* asked, "drain_keys" while the Terminal reads its queue after a key,     *)
(* "packets" while the mouse is asked, "drain_packets" while the Terminal  *)
(* reads its queue after the last packet, "halted" after fail().           *)
(***************************************************************************)
EXTENDS Desktop

CONSTANTS Builtins,      \* the windows kmain opens, "DEMO" the first of them
          Points,        \* where the pointer may be when a packet comes
          DividerSteps   \* {-5, 5} in the code

ASSUME LoopAssumption ==
  /\ Builtins \in Seq(STRING) /\ Len(Builtins) \in 1..DESKTOP_MAX_APPS
  /\ \A name \in {"DEMO", "TERMINAL", "EDITOR"} : \E i \in DOMAIN Builtins : Builtins[i] = name
  /\ Builtins[1] = "DEMO"
  /\ DividerSteps \subseteq Int
  /\ Points \subseteq [x : Int, y : Int]

VARIABLES desk,             \* the desktop and the window manager
          launcher_open,
          mouse_left_down,
          drag,             \* rect_drag_state.active: Demo's rectangle is held
          phase,
          packets,          \* whether the mouse had one in this pass
          missed,           \* whether Demo's queue was full for the last release
          program           \* the program the Terminal is running

vars == <<desk, launcher_open, mouse_left_down, drag, phase, packets, missed, program>>

window_of(name) == CHOOSE i \in DOMAIN Builtins : Builtins[i] = name
demo_window_id == window_of("DEMO")
terminal_window_id == window_of("TERMINAL")
editor_window_id == window_of("EDITOR")

\* The apps that do something with a press, a release or a line.
ASSUME ListenersAssumption ==
  {<<demo_window_id, "DOWN">>, <<demo_window_id, "UP">>, <<terminal_window_id, "ENTER">>}
    \subseteq Listens

NoProgram == [running |-> FALSE, window_id |-> WINDOW_ID_NONE]

added[n \in 0..Len(Builtins)] ==
  IF n = 0 THEN desktop_init ELSE desktop_add(added[n - 1]).d

\* kmain: Demo alone on the screen, and the keyboard is its own.
Booted ==
  LET built == added[Len(Builtins)]
      alone == [built EXCEPT !.apps = [i \in DOMAIN @ |-> [@[i] EXCEPT !.hidden = i # 1]]]
  IN  desktop_relayout([alone EXCEPT !.wm = window_focus(@, 1)])

Init ==
  /\ desk = Booted.d
  /\ launcher_open = FALSE
  /\ mouse_left_down = FALSE
  /\ drag = FALSE
  /\ phase = IF Booted.ok THEN "keys" ELSE "halted"
  /\ packets = FALSE
  /\ missed = FALSE
  /\ program = NoProgram

\* relayout_desktop: the machine stops when the screen cannot hold the tiles.
relayout_desktop(d, next) ==
  \E r \in {desktop_relayout(d)} :
    desk' = r.d /\ phase' = IF r.ok THEN next ELSE "halted"

\* A relayout for a change that was made.
relayout_if(r, next) ==
  IF r.ok THEN relayout_desktop(r.d, next) ELSE desk' = r.d /\ phase' = next

----------------------------------------------------------------------------
(* handle_shortcut: the keys of the desktop itself *)

Shortcut == phase = "keys" /\ ~program.running
Claimed == UNCHANGED <<mouse_left_down, drag, packets, missed, program>>

CloseLauncher ==
  /\ Shortcut
  /\ launcher_open
  /\ launcher_open' = FALSE
  /\ phase' = "packets"
  /\ UNCHANGED desk
  /\ Claimed

StepFocus(step) ==
  /\ Shortcut
  /\ desk' = desktop_focus_step(desk, step)
  /\ phase' = "packets"
  /\ UNCHANGED launcher_open
  /\ Claimed

SwitchWorkspace(to) ==
  /\ Shortcut
  /\ relayout_if(desktop_switch_workspace(desk, to), "packets")
  /\ UNCHANGED launcher_open
  /\ Claimed

HideFocused ==
  /\ Shortcut
  /\ relayout_if(desktop_set_hidden(desk, window_focused(desk.wm), TRUE), "packets")
  /\ UNCHANGED launcher_open
  /\ Claimed

ShowAll ==
  /\ Shortcut
  /\ relayout_if([ok |-> \E i \in DOMAIN desk.apps : desk.apps[i].hidden,
                  d |-> [desk EXCEPT !.apps = [i \in DOMAIN @ |->
                                                [@[i] EXCEPT !.hidden = FALSE]]]],
                 "packets")
  /\ UNCHANGED launcher_open
  /\ Claimed

\* The focused window goes on; the one looking stays.
MoveFocused ==
  /\ Shortcut
  /\ relayout_if(desktop_move_to_workspace(desk, window_focused(desk.wm),
                                           (desk.workspace % DESKTOP_WORKSPACES) + 1),
                 "packets")
  /\ UNCHANGED launcher_open
  /\ Claimed

\* Mutant: the divider may go anywhere.
GoesAnywhere(percent) == percent

\* The divider stops before a column is too narrow for a tile.
divider(percent) == IF percent < 20 THEN 20 ELSE IF percent > 80 THEN 80 ELSE percent

MoveDivider(step) ==
  LET percent == divider(desk.percent + step)
  IN  /\ Shortcut
      /\ relayout_if([ok |-> percent # desk.percent,
                      d |-> [desk EXCEPT !.percent = percent]], "packets")
      /\ UNCHANGED launcher_open
      /\ Claimed

NoKey ==
  /\ Shortcut
  /\ phase' = "packets"
  /\ UNCHANGED <<desk, launcher_open>>
  /\ Claimed

----------------------------------------------------------------------------
(* The apps read their queues *)

\* rect_drag_begin and rect_drag_end over Demo's events: `held' says whether
\* the presses among them are on the rectangle.  What counts is what comes
\* after the last release.
dragged(events, before, held) ==
  LET ups == {i \in DOMAIN events : events[i] = "UP"}
      downs == {i \in DOMAIN events : events[i] = "DOWN"}
  IN  \/ before /\ ups = {}
      \/ held /\ \E i \in downs : \A j \in ups : j < i

\* drain_demo_events, with the manager `wm' before it.
DemoReads(d) ==
  /\ desk' = [d EXCEPT !.wm = emptied(@, demo_window_id)]
  /\ \E held \in BOOLEAN :
       drag' = dragged(window_get(d.wm, demo_window_id).events, drag, held)
  /\ missed' = (missed /\ drag')

\* A key nobody claims goes to the focused window, and the apps are drained.
TypeKey(key) ==
  /\ Shortcut
  /\ DemoReads([desk EXCEPT !.wm = window_route_key(@, key)])
  /\ phase' = "drain_keys"
  /\ UNCHANGED <<launcher_open, mouse_left_down, packets, program>>

\* open_in_editor
editor_opened(d, next) ==
  LET shown == desktop_set_hidden(d, editor_window_id, FALSE)
  IN  \E r \in {IF shown.ok THEN desktop_relayout(shown.d) ELSE [ok |-> TRUE, d |-> d]} :
        /\ desk' = [r.d EXCEPT !.wm = window_focus(@, editor_window_id)]
        /\ phase' = IF r.ok THEN next ELSE "halted"

Draining == phase \in {"drain_keys", "drain_packets"} /\ ~program.running
terminal_queue == window_get(desk.wm, terminal_window_id).events

\* One event of the Terminal's queue.  The line ENTER ends may open the Editor
\* or start a program; every other event stays inside the Terminal.
TerminalReads ==
  LET entered == Head(terminal_queue) = "ENTER"
  IN  /\ Draining
      /\ terminal_queue # <<>>
      /\ \E rest \in {[desk EXCEPT !.wm = popped(@, terminal_window_id)]} :
         \/ desk' = rest /\ UNCHANGED <<phase, program>>
         \/ entered /\ editor_opened(rest, phase) /\ UNCHANGED program
         \/ /\ entered
            /\ desk' = rest
            /\ program' = [NoProgram EXCEPT !.running = TRUE]
            /\ UNCHANGED phase
      /\ UNCHANGED <<launcher_open, mouse_left_down, drag, packets, missed>>

\* The Editor's queue is the last, and the pass goes on.
EditorReads ==
  /\ Draining
  /\ terminal_queue = <<>>
  /\ desk' = [desk EXCEPT !.wm = emptied(@, editor_window_id)]
  /\ phase' = IF phase = "drain_keys" THEN "packets" ELSE "keys"
  /\ packets' = FALSE
  /\ UNCHANGED <<launcher_open, mouse_left_down, drag, missed, program>>

----------------------------------------------------------------------------
(* A press on the desktop itself: the launcher, the taskbar, a title bar *)

LAUNCHER_ROW == 22
LAUNCHER_MENU_WIDTH == 200
FONT_HEIGHT == 8

\* Row i of the menu, over the whole width a click is looked for.
launcher_entry(count, i) ==
  Area(BAR_PAD,
       SCREEN_HEIGHT - TILE_BOTTOM_BAR - ((count + 1) * LAUNCHER_ROW + 12)
         + 8 + i * LAUNCHER_ROW - 4,
       LAUNCHER_MENU_WIDTH, FONT_HEIGHT + 8)

launcher_entry_at(d, where) ==
  LET hit == {i \in 1..Len(d.apps) : contains(launcher_entry(Len(d.apps), i), where)}
  IN  IF hit = {} THEN 0 ELSE CHOOSE i \in hit : \A j \in hit : i <= j

Press(claimed, ok, launcher, d) ==
  [claimed |-> claimed, ok |-> ok, launcher |-> launcher, d |-> d]

\* Mutant: the workspace of the window is not switched to.
ShownWhereItIs(d, i) ==
  LET shown == desktop_set_hidden(d, d.apps[i].id, FALSE)
      r == IF shown.ok THEN desktop_relayout(shown.d) ELSE [ok |-> TRUE, d |-> d]
  IN  Press(TRUE, r.ok, FALSE,
            [r.d EXCEPT !.wm = window_focus(@, d.apps[i].id)])

\* What a taskbar button and an entry of the launcher do: bring a window here,
\* or go where it is, and give it the keyboard.
brought_back(d, i) ==
  LET shown == desktop_set_hidden(d, d.apps[i].id, FALSE)
      switched == desktop_switch_workspace(shown.d, d.apps[i].workspace)
      r == IF shown.ok \/ switched.ok THEN desktop_relayout(switched.d)
           ELSE [ok |-> TRUE, d |-> d]
  IN  Press(TRUE, r.ok, FALSE,
            [r.d EXCEPT !.wm = window_focus(@, d.apps[i].id)])

\* Close and hide both put the window away; the rest of a title is the app's.
title_bar_press(d, id, where) ==
  LET area == window_get(d.wm, id).geometry
      x == where.x - area.x
      on(button) == x >= button.x /\ x < button.x + button.width
      put == desktop_set_hidden(d, id, TRUE)
      r == IF put.ok THEN desktop_relayout(put.d) ELSE put
  IN  IF /\ where.y - area.y \in TILE_BORDER..(TILE_BORDER + SHELL_TITLE_HEIGHT - 1)
         /\ on(shell_close_button(area.width)) \/ on(shell_hide_button(area.width))
      THEN Press(TRUE, r.ok \/ ~put.ok, FALSE, r.d)
      ELSE Press(FALSE, TRUE, FALSE, d)

desktop_press(d, where) ==
  LET entry == launcher_entry_at(d, where)
      task == desktop_taskbar_hit(d, where)
      hit == window_hit_test(d.wm, where)
  IN  CASE launcher_open /\ entry # 0 -> brought_back(d, entry)
        [] launcher_open /\ entry = 0 -> Press(TRUE, TRUE, FALSE, d)
        [] ~launcher_open /\ contains(shell_launcher_button(Screen), where) ->
             Press(TRUE, TRUE, TRUE, d)
        [] OTHER -> IF task # 0 THEN brought_back(d, task)
                    ELSE IF hit # WINDOW_ID_NONE THEN title_bar_press(d, hit, where)
                    ELSE Press(FALSE, TRUE, FALSE, d)

routed(d, type, where) == [d EXCEPT !.wm = window_route_pointer(@, type, where)]

\* Whether Demo, which has the pointer, has no room for a release after the
\* moves of the same packet.
demo_full(moves) ==
  /\ desk.wm.capture = demo_window_id
  /\ Len(window_get(desk.wm, demo_window_id).events) + moves >= WINDOW_EVENT_CAPACITY

\* The windows' part of a packet: a press, a move, a release.
packet_routed(d, to, down, move, up) ==
  LET pressed == IF down THEN routed(d, "DOWN", to) ELSE d
      moved == IF move THEN routed(pressed, "MOVE", to) ELSE pressed
  IN  IF up THEN routed(moved, "UP", to) ELSE moved

\* One packet: where the pointer now is, whether that is another place than
\* before, and whether the left button is down.  A press is the desktop's
\* first.  A program's polls have packets of their own (program_poll_input), so
\* the place before may be any.
Packet(to, move, left) ==
  LET press == left /\ ~mouse_left_down
      up == ~left /\ mouse_left_down
  IN  /\ phase = "packets" /\ ~program.running
      /\ packets' = TRUE
      /\ mouse_left_down' = left
      /\ \E p \in {IF press THEN desktop_press(desk, to)
                    ELSE Press(FALSE, TRUE, launcher_open, desk)} :
           /\ desk' = packet_routed(p.d, to, press /\ ~p.claimed, move, up)
           /\ launcher_open' = p.launcher
           /\ phase' = IF p.ok THEN "packets" ELSE "halted"
      /\ missed' = (missed \/ (up /\ demo_full(IF move THEN 1 ELSE 0)))
      /\ UNCHANGED <<drag, program>>

\* The controller has no more: the apps are drained if it had any.
EndOfPackets ==
  /\ phase = "packets" /\ ~program.running
  /\ \/ packets /\ DemoReads(desk) /\ phase' = "drain_packets"
     \/ ~packets /\ phase' = "keys" /\ UNCHANGED <<desk, drag, missed>>
  /\ UNCHANGED <<launcher_open, mouse_left_down, packets, program>>

----------------------------------------------------------------------------
(* The program: its window, and the pointer that moves while it is asked for *)

ProgramOpens ==
  LET made == desktop_add(desk)
  IN  /\ program.running
      /\ program.window_id = WINDOW_ID_NONE
      /\ made.ok
      /\ program' = [program EXCEPT !.window_id = made.id]
      /\ relayout_desktop(made.d, phase)
      /\ UNCHANGED <<launcher_open, mouse_left_down, drag, packets, missed>>

\* Mutant: the window goes and the others keep the tiles they had.
RemovedOnly(d, id, next) == desk' = desktop_remove(d, id) /\ phase' = next

window_released(d, id, next) ==
  IF desktop_index_of(d, id) = 0 THEN desk' = d /\ phase' = next
  ELSE relayout_desktop(desktop_remove(d, id), next)

ProgramCloses ==
  /\ program.running
  /\ program.window_id # WINDOW_ID_NONE
  /\ program' = [program EXCEPT !.window_id = WINDOW_ID_NONE]
  /\ window_released(desk, program.window_id, phase)
  /\ UNCHANGED <<launcher_open, mouse_left_down, drag, packets, missed>>

\* The end of a program, whichever way, takes its window with it.
ProgramEnds ==
  /\ program.running
  /\ program' = NoProgram
  /\ window_released(desk, program.window_id, phase)
  /\ UNCHANGED <<launcher_open, mouse_left_down, drag, packets, missed>>

----------------------------------------------------------------------------
Next ==
  \/ CloseLauncher
  \/ \E step \in {-1, 1} : StepFocus(step)
  \/ \E to \in 1..DESKTOP_WORKSPACES : SwitchWorkspace(to)
  \/ HideFocused
  \/ ShowAll
  \/ MoveFocused
  \/ \E step \in DividerSteps : MoveDivider(step)
  \/ NoKey
  \/ \E key \in {"ENTER", "OTHER"} : TypeKey(key)
  \/ TerminalReads
  \/ EditorReads
  \/ \E to \in Points, move, left \in BOOLEAN : Packet(to, move, left)
  \/ EndOfPackets
  \/ ProgramOpens
  \/ ProgramCloses
  \/ ProgramEnds

Spec == Init /\ [][Next]_vars

----------------------------------------------------------------------------
(* Properties *)

\* Every variable has its type, and a pass is in one of its phases.
TypeOK ==
  /\ ManagerTypeOK(desk.wm)
  /\ \A i \in DOMAIN desk.apps :
       desk.apps[i] \in [id : WindowId, hidden : BOOLEAN,
                         workspace : 1..DESKTOP_WORKSPACES,
                         frame : [start : Nat, width : Nat, height : Nat]]
  /\ Len(desk.apps) <= DESKTOP_MAX_APPS
  /\ desk.workspace \in 1..DESKTOP_WORKSPACES
  /\ desk.percent \in 20..80
  /\ {launcher_open, mouse_left_down, drag, packets, missed, program.running} \subseteq BOOLEAN
  /\ phase \in {"keys", "drain_keys", "packets", "drain_packets", "halted"}
  /\ program.window_id \in WindowId \cup {WINDOW_ID_NONE}

\* Everything has its type, no queue holds more than it can, and windows, entries
\* of the desktop and the program agree on who there is: one
\* entry a window, the windows of kmain for good, at most one more and that is
\* the program's, and an identifier that comes back names nobody else
\* (window.c:59-60, winsys.c:166-171).
WindowsAreAccountedFor ==
  LET ids == [i \in DOMAIN desk.apps |-> desk.apps[i].id]
  IN  /\ TypeOK
      /\ TableIsSound(desk.wm)
      /\ IsInjective(ids)
      /\ ToSet(ids) = LiveIds(desk.wm)
      /\ \A i \in DOMAIN Builtins : i \in DOMAIN ids /\ ids[i] = i
      /\ ToSet(ids) = DOMAIN Builtins \cup ({program.window_id} \ {WINDOW_ID_NONE})

\* Tiles do not overlap, and an app that draws, the program that keeps the
\* machine included, draws into nobody else's pixels (desktop.c:185-193).
ScreenIsShared ==
  phase # "halted" => PixelsAreOwned(desk) /\ TilesAreApart(desk)

\* With something on the screen, the keyboard does not talk to a window that
\* is not there (desktop.c:240-244).
KeyboardIsOnScreen ==
  LET focused == window_focused(desk.wm)
  IN  (phase # "halted" /\ VisibleApps(desk) # {} /\ focused # WINDOW_ID_NONE)
        => desktop_on_screen(desk, desktop_index_of(desk, focused))

\* Demo holds its rectangle no longer than the button is down, unless its
\* queue was full and the release is among the events dropped (event.c:16,
\* main.c:2437-2440).
OnlyALostReleaseKeepsTheDrag ==
  (drag /\ ~mouse_left_down /\ phase = "keys")
     => missed

\* A click on a taskbar button ends with that window on the screen and the
\* keyboard with it, wherever it was (main.c:1971-1973).
TaskbarBringsItBack ==
  [][\A to \in Points, i \in 1..Len(desk.apps) :
       (/\ phase = "packets" /\ ~mouse_left_down /\ mouse_left_down'
        /\ phase' # "halted" /\ ~launcher_open
        /\ desktop_taskbar_hit(desk, to) = i
        /\ \E move \in BOOLEAN : Packet(to, move, TRUE))
       => /\ desktop_on_screen(desk', i)
          /\ window_focused(desk'.wm) = desk.apps[i].id]_vars

\* No key, press or program takes the screen to where its tiles no longer fit:
\* the machine would stop (main.c:1651-1678).
ScreenHoldsItsTiles == phase # "halted"
=============================================================================
