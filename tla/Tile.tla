------------------------------- MODULE Tile --------------------------------
(***************************************************************************)
(* Where the visible windows go (tile.c), and where on the screen the      *)
(* shell looks for a click (shell.c): arithmetic on rectangles.            *)
(***************************************************************************)
EXTENDS Windows

CONSTANTS SCREEN_WIDTH, SCREEN_HEIGHT

ASSUME ScreenAssumption == SCREEN_WIDTH \in Nat /\ SCREEN_HEIGHT \in Nat

TILE_TOP_BAR == 28
TILE_BOTTOM_BAR == 34
TILE_OUTER_GAP == 10
TILE_INNER_GAP == 8
TILE_BORDER == 2
TILE_MIN_WIDTH == 120
TILE_MIN_HEIGHT == 80

SHELL_TITLE_HEIGHT == 18
BAR_PAD == 6
TASK_WIDTH == 150
TASK_GAP == 4
LAUNCHER_WIDTH == 40

area_make(x, y, width, height) ==
  IF width <= 0 \/ height <= 0 THEN area_none ELSE Area(x, y, width, height)

tile_workspace(screen) ==
  area_make(TILE_OUTER_GAP, TILE_TOP_BAR + TILE_OUTER_GAP,
            screen.width - 2 * TILE_OUTER_GAP,
            screen.height - TILE_TOP_BAR - TILE_BOTTOM_BAR - 2 * TILE_OUTER_GAP)

\* Mutant: every row has the same height, whatever division leaves over.
EvenRows(area, count) ==
  LET each == (area.height - TILE_INNER_GAP * (count - 1)) \div count
  IN  [i \in 1..count |->
        area_make(area.x, area.y + (i - 1) * (each + TILE_INNER_GAP), area.width, each)]

\* Rows of one column, the last of which takes what division leaves over, and
\* none at all when they would be too small.
split_rows(area, count) ==
  LET each == (area.height - TILE_INNER_GAP * (count - 1)) \div count
      top(i) == area.y + (i - 1) * (each + TILE_INNER_GAP)
  IN  IF each < TILE_MIN_HEIGHT \/ area.width < TILE_MIN_WIDTH THEN <<>>
      ELSE [i \in 1..count |->
              area_make(area.x, top(i), area.width,
                        IF i = count THEN area.y + area.height - top(i) ELSE each)]

\* Two columns, or the whole workspace for one window: every tile or no tile.
tile_layout(screen, percent, count) ==
  LET work == tile_workspace(screen)
      left_count == count \div 2
      usable == work.width - TILE_INNER_GAP
      clamped == IF percent < 10 THEN 10 ELSE IF percent > 90 THEN 90 ELSE percent
      left_width == (usable * clamped) \div 100
      left == split_rows(area_make(work.x, work.y, left_width, work.height), left_count)
      right == split_rows(area_make(work.x + left_width + TILE_INNER_GAP, work.y,
                                    usable - left_width, work.height),
                          count - left_count)
  IN  CASE count = 0 \/ work = area_none -> <<>>
        [] count = 1 /\ work # area_none -> split_rows(work, 1)
        [] OTHER -> IF left = <<>> \/ right = <<>> THEN <<>> ELSE left \o right

Screen == [width |-> SCREEN_WIDTH, height |-> SCREEN_HEIGHT]

----------------------------------------------------------------------------
(* The parts of a tile and of the taskbar *)

\* The n-th button from the right of a title: close is the first, hide the
\* second; none in a tile too narrow for it.
title_button(width, n) ==
  LET size == SHELL_TITLE_HEIGHT - 6
      x == width - TILE_BORDER - n * (size + 4)
  IN  IF x <= TILE_BORDER THEN area_none ELSE area_make(x, TILE_BORDER + 3, size, size)
shell_close_button(width) == title_button(width, 1)
shell_hide_button(width) == title_button(width, 2)

shell_launcher_button(screen) ==
  area_make(BAR_PAD, screen.height - TILE_BOTTOM_BAR + 4, LAUNCHER_WIDTH,
            TILE_BOTTOM_BAR - 8)

task_button(screen, index) ==
  area_make(BAR_PAD + LAUNCHER_WIDTH + BAR_PAD + (index - 1) * (TASK_WIDTH + TASK_GAP),
            screen.height - TILE_BOTTOM_BAR + 4, TASK_WIDTH, TILE_BOTTOM_BAR - 8)

\* The button a point is on, and 0 for none: the ones past the first that
\* does not fit on the screen are not there.
shell_task_at(screen, count, at) ==
  LET fits(i) == LET b == task_button(screen, i) IN b.x + b.width <= screen.width
      hit == {i \in 1..count : /\ \A j \in 1..i : fits(j)
                               /\ contains(task_button(screen, i), at)}
  IN  IF hit = {} THEN 0 ELSE CHOOSE i \in hit : \A j \in hit : i <= j

----------------------------------------------------------------------------
(* What tiles are worth *)

Apart(a, b) ==
  \/ a.x + a.width <= b.x \/ b.x + b.width <= a.x
  \/ a.y + a.height <= b.y \/ b.y + b.height <= a.y

Within(a, b) ==
  /\ a.x >= b.x /\ a.x + a.width <= b.x + b.width
  /\ a.y >= b.y /\ a.y + a.height <= b.y + b.height
=============================================================================
