----------------------------- MODULE MCDesktop -----------------------------
(* Instances of MainLoop: three windows of kmain and one of a program, two
   workspaces, and a pointer that visits one place of each kind. *)
EXTENDS MainLoop

MCBuiltins == <<"DEMO", "TERMINAL", "EDITOR">>
MCSteps == {-30}
MCListens == {<<1, "DOWN">>, <<1, "UP">>, <<2, "ENTER">>}

At(x, y) == [x |-> x, y |-> y]

\* On a screen of 640 by 480: in the left column, where the menu of the
\* launcher also is when it is open; on the close button of a window at the
\* right edge; on the taskbar button of the second window; on the mark of the
\* launcher.
MCPoints == {At(100, 400), At(620, 48), At(210, 460), At(20, 460)}

\* MoveDivider takes the divider one way only, as every position multiplies the
\* states; wherever else it may be there is a layout, and the arena holds it.
ASSUME EveryDividerFits ==
  \A percent \in 20..80, n \in 1..DESKTOP_MAX_APPS :
    LET tiles == tile_layout(Screen, percent, n)
    IN  tiles # <<>> /\ taken(tiles)[n] <= ARENA_PIXELS
=============================================================================
