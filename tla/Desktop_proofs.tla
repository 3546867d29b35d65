--------------------------- MODULE Desktop_proofs ---------------------------
(***************************************************************************)
(* What the loop of kmain keeps on the desktop, whatever the size of the   *)
(* screen, the number of windows, apps and workspaces, and the places a    *)
(* pointer may be: the windows are accounted for, the screen and the arena *)
(* are shared out without overlap, the keyboard is on the screen, and on a *)
(* screen with room for its apps the machine does not halt.                *)
(***************************************************************************)
EXTENDS MainLoop, Iteration_proofs

----------------------------------------------------------------------------
(* Tiles *)

GeometryType == [x : Int, y : Int, width : Nat, height : Nat]

\* A smaller number has a smaller multiple.
LEMMA TimesUp ==
  ASSUME NEW a \in Nat, NEW b \in Nat, NEW k \in Nat, a <= b
  PROVE  a * k <= b * k /\ a * k \in Nat /\ b * k \in Nat
BY SMT

\* The multiples of the next number and of the one before.
LEMMA TimesNext ==
  ASSUME NEW a \in Int, NEW k \in Int
  PROVE  (a + 1) * k = a * k + k /\ (a - 1) * k = a * k - k /\ a * k \in Int
BY SMT

\* What \div leaves: less than one divisor is lost.
LEMMA Quotients ==
  ASSUME NEW a \in Int, NEW n \in Nat \ {0}
  PROVE  /\ a \div n \in Int
         /\ n * (a \div n) <= a /\ a < n * (a \div n) + n
BY SMT

\* Rows of one column: of a size for a window, the right number of them, all of
\* the column's width, one below the other and within the column.
RowsIn(rows, area, n) ==
  /\ rows \in [1..n -> GeometryType]
  /\ \A i \in 1..n : /\ rows[i].x = area.x /\ rows[i].width = area.width
                     /\ rows[i].width > 0 /\ rows[i].height > 0
                     /\ rows[i].y >= area.y
                     /\ rows[i].y + rows[i].height <= area.y + area.height
  /\ \A i, j \in 1..n : i < j => rows[i].y + rows[i].height <= rows[j].y

\* A column cut into rows: typed, as wide as the column, under one another inside it.
LEMMA SplitRows ==
  ASSUME NEW area \in GeometryType, NEW n \in Nat \ {0}, split_rows(area, n) # <<>>
  PROVE  RowsIn(split_rows(area, n), area, n)
<1> DEFINE each == (area.height - TILE_INNER_GAP * (n - 1)) \div n
           x == area.x
           y == area.y
           w == area.width
           h == area.height
           K == each + TILE_INNER_GAP
           top(i) == y + (i - 1) * K
           rows == [i \in 1..n |-> area_make(x, top(i), w, IF i = n THEN y + h - top(i) ELSE each)]
<1>1. x \in Int /\ y \in Int /\ w \in Nat /\ h \in Nat
  BY DEF GeometryType
<1>2. each >= TILE_MIN_HEIGHT /\ w >= TILE_MIN_WIDTH /\ split_rows(area, n) = rows
  <2>1. ~(each < TILE_MIN_HEIGHT \/ w < TILE_MIN_WIDTH)
    BY DEF split_rows
  <2>2. each \in Int
    BY <1>1, Quotients DEF TILE_INNER_GAP
  <2>3. split_rows(area, n) = rows
    BY <2>1 DEF split_rows
  <2> HIDE DEF each
  <2> QED
    BY <1>1, <2>1, <2>2, <2>3 DEF TILE_MIN_HEIGHT, TILE_MIN_WIDTH
<1>3. each \in Nat /\ each >= 80 /\ n * each <= h - 8 * (n - 1) /\ w >= 120
  <2>1. h - 8 * (n - 1) \in Int
    BY <1>1
  <2>2. each \in Int /\ n * each <= h - 8 * (n - 1)
    BY <2>1, Quotients DEF TILE_INNER_GAP
  <2> HIDE DEF each
  <2> QED
    BY <1>2, <2>2 DEF TILE_MIN_HEIGHT, TILE_MIN_WIDTH
<1> HIDE DEF each, x, y, w, h
<1>4. K \in Nat /\ K = each + 8
  BY <1>3 DEF TILE_INNER_GAP
<1>5. (n - 1) * K + each <= h
  <2>1. n * K = n * each + n * 8
    BY <1>3, <1>4
  <2>2. (n - 1) * K = n * K - K
    BY <1>4, TimesNext
  <2>3. n * each \in Nat /\ n * K \in Nat
    BY <1>3, <1>4
  <2> HIDE DEF K
  <2> QED
    BY <1>1, <1>3, <1>4, <2>1, <2>2, <2>3
<1> HIDE DEF K
<1>6. \A i \in 1..n : (i - 1) * K \in Nat /\ (i - 1) * K <= (n - 1) * K
  BY <1>4, TimesUp
<1>7. \A i, j \in 1..n : i < j => (i - 1) * K + each + 8 <= (j - 1) * K
  <2> TAKE i \in 1..n, j \in 1..n
  <2> HAVE i < j
  <2>1. i * K <= (j - 1) * K
    BY <1>4, TimesUp
  <2>2. (i - 1) * K = i * K - K /\ i * K \in Int
    BY <1>4, TimesNext
  <2> QED
    BY <1>3, <1>4, <1>6, <2>1, <2>2
<1> DEFINE high(i) == IF i = n THEN y + h - top(i) ELSE each
<1>8. ASSUME NEW i \in 1..n
      PROVE  /\ top(i) \in Int /\ high(i) \in Int /\ high(i) >= each
             /\ top(i) >= y /\ top(i) + high(i) <= y + h
  <2> DEFINE u == (i - 1) * K
             v == (n - 1) * K
  <2>1. u \in Nat /\ v \in Nat /\ u <= v /\ v + each <= h /\ (i = n => u = v)
    BY <1>5, <1>6
  <2>2. top(i) = y + u
    OBVIOUS
  <2>3. high(i) = IF i = n THEN (y + h) - (y + u) ELSE each
    BY <1>1, <2>1
  <2> HIDE DEF u, v, top, high
  <2> QED
    BY <1>1, <1>3, <2>1, <2>2, <2>3
<1>9. ASSUME NEW i \in 1..n
      PROVE  rows[i] = [x |-> x, y |-> top(i), width |-> w, height |-> high(i)]
  <2>1. rows[i] = area_make(x, top(i), w, high(i))
    OBVIOUS
  <2> HIDE DEF rows, top, high
  <2>2. w > 0 /\ high(i) > 0
    BY <1>1, <1>3, <1>8
  <2> QED
    BY <1>1, <1>3, <1>8, <2>1, <2>2 DEF area_make, Area
<1>10. ASSUME NEW i \in 1..n, NEW j \in 1..n, i < j
       PROVE  top(i) + high(i) <= top(j)
  <2>1. (i - 1) * K + each + 8 <= (j - 1) * K /\ (i - 1) * K \in Nat /\ (j - 1) * K \in Nat
    BY <1>6, <1>7, <1>10
  <2>2. i # n
    BY <1>10
  <2> QED
    BY <1>1, <1>3, <2>1, <2>2
<1>11. DOMAIN rows = 1..n
  OBVIOUS
<1>12. rows = [i \in 1..n |-> rows[i]]
  OBVIOUS
<1> HIDE DEF rows, top, high
<1>13. ASSUME NEW i \in 1..n
       PROVE  /\ rows[i] \in GeometryType
              /\ rows[i].x = x /\ rows[i].width = w /\ rows[i].width > 0 /\ rows[i].height > 0
              /\ rows[i].y >= y /\ rows[i].y + rows[i].height <= y + h
              /\ rows[i].y = top(i) /\ rows[i].height = high(i)
  <2>1. rows[i] = [x |-> x, y |-> top(i), width |-> w, height |-> high(i)]
    BY <1>9
  <2>2. /\ top(i) \in Int /\ high(i) \in Int /\ high(i) >= each
        /\ top(i) >= y /\ top(i) + high(i) <= y + h
    BY <1>8
  <2>3. /\ rows[i].x = x /\ rows[i].width = w
        /\ rows[i].y = top(i) /\ rows[i].height = high(i)
    BY <2>1
  <2>4. high(i) \in Nat /\ high(i) > 0 /\ w > 0
    BY <1>1, <1>3, <2>2
  <2>5. rows[i] \in GeometryType
    BY <1>1, <2>1, <2>2, <2>4 DEF GeometryType
  <2> QED
    BY <2>2, <2>3, <2>4, <2>5
<1>14. \A i, j \in 1..n : i < j => rows[i].y + rows[i].height <= rows[j].y
  BY <1>10, <1>13
<1> QED
  BY <1>2, <1>12, <1>13, <1>14 DEF RowsIn, x, y, w, h

\* A layout: a tile for each window, of a size for one, in the workspace, no two
\* of which overlap.
Layout(tiles, n) ==
  /\ tiles \in [1..n -> GeometryType]
  /\ \A i \in 1..n : /\ tiles[i].width > 0 /\ tiles[i].height > 0
                     /\ Within(tiles[i], tile_workspace(Screen))
  /\ \A i, j \in 1..n : i # j => Apart(tiles[i], tiles[j])

\* The area between the bars, when the screen has room for one.
LEMMA WorkspaceIs ==
  /\ tile_workspace(Screen) \in GeometryType
  /\ tile_workspace(Screen) # area_none =>
       /\ tile_workspace(Screen) = [x |-> 10, y |-> 38, width |-> SCREEN_WIDTH - 20,
                                    height |-> SCREEN_HEIGHT - 82]
       /\ SCREEN_WIDTH > 20 /\ SCREEN_HEIGHT > 82
<1> DEFINE w == SCREEN_WIDTH - 2 * TILE_OUTER_GAP
           h == SCREEN_HEIGHT - TILE_TOP_BAR - TILE_BOTTOM_BAR - 2 * TILE_OUTER_GAP
<1>1. w = SCREEN_WIDTH - 20 /\ h = SCREEN_HEIGHT - 82 /\ w \in Int /\ h \in Int
  BY ScreenAssumption DEF TILE_OUTER_GAP, TILE_TOP_BAR, TILE_BOTTOM_BAR
<1>2. tile_workspace(Screen) = area_make(10, 38, w, h)
  BY DEF tile_workspace, Screen, TILE_OUTER_GAP, TILE_TOP_BAR
<1> HIDE DEF w, h
<1>3. CASE w <= 0 \/ h <= 0
  <2>1. tile_workspace(Screen) = area_none
    BY <1>2, <1>3 DEF area_make
  <2> QED
    BY <2>1 DEF area_none, Area, GeometryType
<1>4. CASE w > 0 /\ h > 0
  <2>1. tile_workspace(Screen) = [x |-> 10, y |-> 38, width |-> w, height |-> h]
    BY <1>1, <1>2, <1>4 DEF area_make, Area
  <2>2. w \in Nat /\ h \in Nat
    BY <1>1, <1>4
  <2> QED
    BY <1>1, <1>4, <2>1, <2>2, ScreenAssumption DEF GeometryType
<1> QED
  BY <1>1, <1>3, <1>4

\* The same of a column built in place, as tile_layout builds its two.
LEMMA SplitArea ==
  ASSUME NEW x \in Int, NEW y \in Int, NEW w \in Int, NEW h \in Int, NEW n \in Nat \ {0},
         split_rows(area_make(x, y, w, h), n) # <<>>
  PROVE  /\ area_make(x, y, w, h) = [x |-> x, y |-> y, width |-> w, height |-> h]
         /\ area_make(x, y, w, h) \in GeometryType
         /\ RowsIn(split_rows(area_make(x, y, w, h), n), area_make(x, y, w, h), n)
<1>1. CASE w <= 0 \/ h <= 0
  <2>1. area_make(x, y, w, h) = area_none
    BY <1>1 DEF area_make
  <2>2. area_none.width = 0
    BY DEF area_none, Area
  <2>3. split_rows(area_none, n) = <<>>
    BY <2>2 DEF split_rows, TILE_MIN_WIDTH
  <2> QED
    BY <2>1, <2>3
<1>2. CASE w > 0 /\ h > 0
  <2>1. area_make(x, y, w, h) = [x |-> x, y |-> y, width |-> w, height |-> h]
    BY <1>2 DEF area_make, Area
  <2>2. area_make(x, y, w, h) \in GeometryType
    BY <1>2, <2>1 DEF GeometryType
  <2> QED
    BY <2>1, <2>2, SplitRows
<1> QED
  BY <1>1, <1>2


\* A function of 1..n is a sequence.
LEMMA FunctionIsSeq ==
  ASSUME NEW S, NEW n \in Nat, NEW f \in [1..n -> S]
  PROVE  f \in Seq(S) /\ Len(f) = n /\ DOMAIN f = 1..n
OBVIOUS

\* One sequence after the other.
IsJoined(h, f, g, m, n, S) ==
  /\ h \in [1..(m + n) -> S]
  /\ \A i \in 1..(m + n) : h[i] = IF i <= m THEN f[i] ELSE g[i - m]

\* What the concatenation of two sequences is, place by place.
LEMMA Joined ==
  ASSUME NEW S, NEW m \in Nat, NEW n \in Nat, NEW f \in [1..m -> S], NEW g \in [1..n -> S]
  PROVE  IsJoined(f \o g, f, g, m, n, S)
<1> DEFINE h == f \o g
<1>1. f \in Seq(S) /\ Len(f) = m /\ g \in Seq(S) /\ Len(g) = n
  BY FunctionIsSeq
<1>2. h \in Seq(S) /\ Len(h) = m + n
  BY <1>1
<1>4. \A i \in 1..(m + n) : h[i] = IF i <= m THEN f[i] ELSE g[i - m]
  BY <1>1
<1> HIDE DEF h
<1>5. h \in [1..(m + n) -> S]
  BY <1>2
<1> QED
  BY <1>4, <1>5 DEF IsJoined, h

\* The tiles stand in two columns (the left may be empty), each from the top down.
Stacked(tiles, n, m, lw, rw) ==
  LET work == tile_workspace(Screen)
  IN  /\ m \in 0..n /\ lw \in Nat /\ rw \in Nat /\ lw + rw <= SCREEN_WIDTH
      /\ \A i \in 1..n :
           /\ tiles[i].width = IF i <= m THEN lw ELSE rw
           /\ work.y <= tiles[i].y /\ tiles[i].y + tiles[i].height <= work.y + work.height
      /\ \A i, j \in 1..n : (i < j /\ (j <= m \/ i > m)) =>
                              tiles[i].y + tiles[i].height <= tiles[j].y

\* One app has the whole area between the bars.
LEMMA SingleTile ==
  ASSUME NEW percent \in 20..80, NEW n \in Nat, n = 1, tile_layout(Screen, percent, n) # <<>>
  PROVE  /\ tile_workspace(Screen) # area_none
         /\ tile_layout(Screen, percent, n) = split_rows(tile_workspace(Screen), 1)
<1>1. ~(percent < 10) /\ ~(percent > 90) /\ ~(n = 0)
  OBVIOUS
<1>2. tile_workspace(Screen) # area_none
  BY <1>1 DEF tile_layout
<1>3. tile_layout(Screen, percent, n) = split_rows(tile_workspace(Screen), 1)
  BY <1>1, <1>2 DEF tile_layout
<1> QED
  BY <1>2, <1>3

\* So the layout of one app is sound.
LEMMA OneTile ==
  ASSUME NEW percent \in 20..80, NEW n \in Nat, n = 1, tile_layout(Screen, percent, n) # <<>>
  PROVE  /\ Layout(tile_layout(Screen, percent, n), n)
         /\ Stacked(tile_layout(Screen, percent, n), n, 0, 0, SCREEN_WIDTH - 20)
         /\ tile_workspace(Screen) # area_none
<1> DEFINE work == tile_workspace(Screen)
           rows == split_rows(work, 1)
<1>1. work # area_none /\ tile_layout(Screen, percent, n) = rows
  BY SingleTile
<1>3. work \in GeometryType /\ work.width = SCREEN_WIDTH - 20 /\ SCREEN_WIDTH > 20
  BY <1>1, WorkspaceIs
<1>4. RowsIn(rows, work, 1)
  <2> HIDE DEF work
  <2> QED
    BY <1>1, <1>3, SplitRows
<1> HIDE DEF rows, work
<1>5. Layout(rows, n)
  BY <1>3, <1>4 DEF Layout, RowsIn, Within, Apart, GeometryType, work
<1>6. Stacked(rows, n, 0, 0, SCREEN_WIDTH - 20)
  BY <1>3, <1>4, ScreenAssumption DEF Stacked, RowsIn, GeometryType, work
<1> QED
  BY <1>1, <1>5, <1>6 DEF work

\* The layout of several apps is sound: two columns that do not meet.
LEMMA ManyTiles ==
  ASSUME NEW percent \in 20..80, NEW n \in Nat, n >= 2, tile_layout(Screen, percent, n) # <<>>
  PROVE  /\ Layout(tile_layout(Screen, percent, n), n)
         /\ \E m, lw, rw : Stacked(tile_layout(Screen, percent, n), n, m, lw, rw)
         /\ tile_workspace(Screen) # area_none
<1> DEFINE work == tile_workspace(Screen)
           m == n \div 2
           usable == work.width - TILE_INNER_GAP
           lw == (usable * percent) \div 100
           rw == usable - lw
           left == split_rows(area_make(work.x, work.y, lw, work.height), m)
           rx == work.x + lw + TILE_INNER_GAP
           right == split_rows(area_make(rx, work.y, rw, work.height), n - m)
           tiles == tile_layout(Screen, percent, n)
<1>1. ~(percent < 10) /\ ~(percent > 90) /\ ~(n = 0) /\ ~(n = 1)
  OBVIOUS
<1>2. work # area_none
  BY <1>1 DEF tile_layout
<1>3. tiles = IF left = <<>> \/ right = <<>> THEN <<>> ELSE left \o right
  BY <1>1, <1>2 DEF tile_layout
<1>4. left # <<>> /\ right # <<>> /\ tiles = left \o right
  BY <1>3
<1>5. m \in Nat \ {0} /\ n - m \in Nat \ {0} /\ m <= n
  OBVIOUS
<1>6. /\ work \in GeometryType /\ work.x \in Int /\ work.y \in Int
      /\ work.width \in Nat /\ work.height \in Nat /\ work.width = SCREEN_WIDTH - 20
  BY <1>2, WorkspaceIs DEF GeometryType
<1>7. usable \in Int /\ usable = work.width - 8 /\ usable * percent \in Int
  BY <1>6 DEF TILE_INNER_GAP
<1>8. lw \in Int /\ rw \in Int /\ lw + rw = usable
  <2> HIDE DEF usable
  <2>1. lw \in Int
    BY <1>7, Quotients
  <2> HIDE DEF lw
  <2> QED
    BY <1>7, <2>1
<1>9. rx \in Int /\ rx = work.x + lw + 8
  <2> HIDE DEF usable, lw, rw, work
  <2> QED
    BY <1>6, <1>8 DEF TILE_INNER_GAP
<1> HIDE DEF usable, lw, rw, rx, work, m, tiles
<1> DEFINE wh == work.height
           wy == work.y
<1>23. wh \in Int /\ wy \in Int
  BY <1>6
<1> DEFINE la == area_make(work.x, work.y, lw, work.height)
           ra == area_make(rx, work.y, rw, work.height)
<1>10. /\ la = [x |-> work.x, y |-> work.y, width |-> lw, height |-> work.height]
       /\ la \in GeometryType /\ RowsIn(left, la, m)
  <2> DEFINE wx == work.x
  <2>1. wx \in Int /\ split_rows(area_make(wx, wy, lw, wh), m) # <<>>
    BY <1>4, <1>6
  <2> HIDE DEF wx, wy, wh
  <2>2. /\ area_make(wx, wy, lw, wh) = [x |-> wx, y |-> wy, width |-> lw, height |-> wh]
        /\ area_make(wx, wy, lw, wh) \in GeometryType
        /\ RowsIn(split_rows(area_make(wx, wy, lw, wh), m), area_make(wx, wy, lw, wh), m)
    BY <1>5, <1>8, <1>23, <2>1, SplitArea
  <2> QED
    BY <2>2 DEF wx, wy, wh
<1>11. /\ ra = [x |-> rx, y |-> work.y, width |-> rw, height |-> work.height]
       /\ ra \in GeometryType /\ RowsIn(right, ra, n - m)
  <2> DEFINE k == n - m
  <2>1. k \in Nat \ {0} /\ split_rows(area_make(rx, wy, rw, wh), k) # <<>>
    BY <1>4, <1>5
  <2> HIDE DEF wy, wh, k
  <2>2. /\ area_make(rx, wy, rw, wh) = [x |-> rx, y |-> wy, width |-> rw, height |-> wh]
        /\ area_make(rx, wy, rw, wh) \in GeometryType
        /\ RowsIn(split_rows(area_make(rx, wy, rw, wh), k), area_make(rx, wy, rw, wh), k)
    <3>1. rx \in Int /\ rw \in Int
      BY <1>8, <1>9
    <3> QED
      BY <1>23, <2>1, <3>1, SplitArea
  <2> QED
    BY <2>2 DEF wy, wh, k
<1>12. lw \in Nat /\ rw \in Nat
  BY <1>10, <1>11 DEF GeometryType
<1> HIDE DEF la, ra, left, right
<1>13. left \in [1..m -> GeometryType] /\ right \in [1..(n - m) -> GeometryType]
  BY <1>10, <1>11 DEF RowsIn
<1>14. /\ tiles \in [1..n -> GeometryType]
       /\ \A i \in 1..n : tiles[i] = IF i <= m THEN left[i] ELSE right[i - m]
  <2> DEFINE k == n - m
  <2>1. m + k = n /\ k \in Nat /\ m \in Nat
    BY <1>5
  <2>2. right \in [1..k -> GeometryType]
    BY <1>13
  <2> HIDE DEF k
  <2>3. IsJoined(left \o right, left, right, m, k, GeometryType)
    BY <1>13, <2>1, <2>2, Joined
  <2> QED
    BY <1>4, <2>1, <2>3 DEF IsJoined
<1>15. ASSUME NEW i \in 1..n
       PROVE  /\ tiles[i].width > 0 /\ tiles[i].height > 0
              /\ tiles[i].width = IF i <= m THEN lw ELSE rw
              /\ tiles[i].x = IF i <= m THEN work.x ELSE rx
              /\ work.y <= tiles[i].y /\ tiles[i].y + tiles[i].height <= work.y + work.height
  <2>1. CASE i <= m
    <3>1. i \in 1..m /\ tiles[i] = left[i]
      BY <1>5, <1>14, <2>1
    <3> QED
      BY <1>10, <2>1, <3>1 DEF RowsIn
  <2>2. CASE ~(i <= m)
    <3>1. i - m \in 1..(n - m) /\ tiles[i] = right[i - m]
      BY <1>5, <1>14, <2>2
    <3> QED
      BY <1>11, <2>2, <3>1 DEF RowsIn
  <2> QED
    BY <2>1, <2>2
<1>16. ASSUME NEW i \in 1..n, NEW j \in 1..n, i < j, j <= m \/ i > m
       PROVE  tiles[i].y + tiles[i].height <= tiles[j].y
  <2>1. CASE j <= m
    <3>1. i \in 1..m /\ j \in 1..m /\ tiles[i] = left[i] /\ tiles[j] = left[j]
      BY <1>5, <1>14, <1>16, <2>1
    <3> QED
      BY <1>10, <1>16, <3>1 DEF RowsIn
  <2>2. CASE i > m
    <3>1. /\ i - m \in 1..(n - m) /\ j - m \in 1..(n - m) /\ i - m < j - m
          /\ tiles[i] = right[i - m] /\ tiles[j] = right[j - m]
      BY <1>5, <1>14, <1>16, <2>2
    <3> QED
      BY <1>11, <3>1 DEF RowsIn
  <2> QED
    BY <1>16, <2>1, <2>2
<1>17. Stacked(tiles, n, m, lw, rw)
  <2>1. m \in 0..n /\ lw + rw <= SCREEN_WIDTH
    BY <1>5, <1>6, <1>7, <1>8, ScreenAssumption
  <2> QED
    BY <1>12, <1>15, <1>16, <2>1 DEF Stacked, work
<1>18. \A i \in 1..n : tiles[i] \in GeometryType
  BY <1>14
<1>19. ASSUME NEW i \in 1..n PROVE Within(tiles[i], work)
  <2>1. tiles[i].x \in Int /\ tiles[i].y \in Int /\ tiles[i].width \in Nat /\ tiles[i].height \in Nat
    BY <1>18 DEF GeometryType
  <2> DEFINE wx == work.x
             ww == work.width
             ix == tiles[i].x
             iw == tiles[i].width
  <2>5. wx \in Int /\ ww \in Nat /\ usable = ww - 8 /\ rx = wx + lw + 8
    BY <1>6, <1>7, <1>9
  <2>6. ix = (IF i <= m THEN wx ELSE rx) /\ iw = (IF i <= m THEN lw ELSE rw)
    BY <1>15
  <2>4. tiles[i].x >= work.x /\ tiles[i].x + tiles[i].width <= work.x + work.width
    <3> HIDE DEF wx, ww, ix, iw
    <3>1. ix >= wx /\ ix + iw <= wx + ww
      BY <1>5, <1>8, <1>12, <2>5, <2>6
    <3> QED
      BY <3>1 DEF wx, ww, ix, iw
  <2> QED
    BY <1>6, <1>15, <2>1, <2>4 DEF Within
<1>20. ASSUME NEW i \in 1..n, NEW j \in 1..n, i < j PROVE Apart(tiles[i], tiles[j])
  <2>1. CASE j <= m \/ i > m
    BY <1>16, <1>20, <2>1 DEF Apart
  <2>2. CASE i <= m /\ ~(j <= m)
    <3>1. tiles[i].x + tiles[i].width <= tiles[j].x
      BY <1>6, <1>9, <1>12, <1>15, <2>2
    <3> QED
      BY <3>1 DEF Apart
  <2> QED
    BY <1>5, <1>20, <2>1, <2>2
<1>21. \A i, j \in 1..n : i # j => Apart(tiles[i], tiles[j])
  <2>1. \A a, b : Apart(a, b) => Apart(b, a)
    BY DEF Apart
  <2>2. \A i, j \in 1..n : i # j => (i < j \/ j < i)
    OBVIOUS
  <2> QED
    BY <1>20, <2>1, <2>2
<1>22. Layout(tiles, n)
  BY <1>14, <1>15, <1>19, <1>21 DEF Layout, work
<1> QED
  BY <1>2, <1>17, <1>22 DEF work, tiles


----------------------------------------------------------------------------
(* The arena *)

\* The pixels taken, tile by tile.
Sums(sum, tiles, n) ==
  /\ sum \in [0..n -> Nat] /\ sum[0] = 0
  /\ \A k \in 1..n : Pixels(tiles[k]) \in Nat /\ sum[k] = sum[k - 1] + Pixels(tiles[k])

\* There are sums of any numbers.
Adds(g, more) == /\ g \in [Nat -> Nat] /\ g[0] = 0
                 /\ \A k \in Nat : g[k + 1] = g[k] + more[k + 1]

\* A function that adds up a given sequence of numbers.
LEMMA AddsExist ==
  ASSUME NEW more, \A k \in Nat : more[k] \in Nat
  PROVE  \E g : Adds(g, more)
<1> DEFINE S == Nat
           start == 0
           step == [k \in Nat |-> [x \in S |-> x + more[k]]]
           g == Iterate(step, start)
<1>1. start \in S /\ step \in [Nat -> [S -> S]]
  OBVIOUS
<1>2. /\ g \in [Nat -> S] /\ g[0] = start
      /\ \A k \in Nat : g[k + 1] = step[k + 1][g[k]]
  <2> HIDE DEF step, start, S
  <2> QED
    BY <1>1, IterateWalks
<1> HIDE DEF g
<1>3. ASSUME NEW k \in Nat PROVE g[k + 1] = g[k] + more[k + 1]
  <2>1. g[k] \in S /\ k + 1 \in Nat
    BY <1>2
  <2>2. step[k + 1][g[k]] = g[k] + more[k + 1]
    BY <2>1
  <2> QED
    BY <1>2, <2>2
<1>4. Adds(g, more)
  BY <1>2, <1>3 DEF Adds
<1> QED
  BY <1>4

\* What `taken' is: the sum of the pixels of the slices before.
LEMMA TakenIs ==
  ASSUME NEW n \in Nat, NEW tiles \in [1..n -> GeometryType]
  PROVE  Sums(taken(tiles), tiles, n)
<1> DEFINE Body(f) == [k \in 0..n |-> IF k = 0 THEN 0 ELSE f[k - 1] + Pixels(tiles[k])]
           more == [k \in Nat |-> IF k \in 1..n THEN Pixels(tiles[k]) ELSE 0]
<1>1. \A k \in 1..n : Pixels(tiles[k]) \in Nat
  <2> TAKE k \in 1..n
  <2> DEFINE w == tiles[k].width
             h == tiles[k].height
  <2>1. w \in Nat /\ h \in Nat
    BY DEF GeometryType
  <2>2. Pixels(tiles[k]) = w * h
    BY DEF Pixels
  <2> HIDE DEF w, h
  <2> QED
    BY <2>1, <2>2
<1>2. \A k \in Nat : more[k] \in Nat
  BY <1>1
<1>3. \A k \in 1..n : more[k] = Pixels(tiles[k])
  OBVIOUS
<1> HIDE DEF more
<1>4. PICK g : Adds(g, more)
  BY <1>2, AddsExist
<1> DEFINE f == [k \in 0..n |-> g[k]]
<1>7. f = Body(f)
  <2>1. ASSUME NEW k \in 0..n, k # 0 PROVE g[k] = f[k - 1] + Pixels(tiles[k])
    <3>1. k - 1 \in Nat /\ (k - 1) + 1 = k /\ k \in 1..n /\ k - 1 \in 0..n
      BY <2>1
    <3>2. g[k] = g[k - 1] + more[k]
      BY <1>4, <3>1 DEF Adds
    <3> QED
      BY <1>3, <3>1, <3>2
  <2>2. g[0] = 0
    BY <1>4 DEF Adds
  <2> QED
    BY <2>1, <2>2
<1> HIDE DEF f
<1>8. taken(tiles) = CHOOSE h : h = Body(h)
  <2>1. Len(tiles) = n
    BY FunctionIsSeq
  <2> QED
    BY <2>1 DEF taken
<1>9. taken(tiles) = Body(taken(tiles))
  <2> DEFINE Is(h) == h = Body(h)
  <2>1. \E h : Is(h)
    BY <1>7
  <2>2. taken(tiles) = CHOOSE h : Is(h)
    BY <1>8
  <2> HIDE DEF Is
  <2>3. Is(taken(tiles))
    BY <2>1, <2>2
  <2> QED
    BY <2>3 DEF Is
<1> DEFINE sum == taken(tiles)
<1> HIDE DEF sum
<1>10. sum = Body(sum)
  BY <1>9 DEF sum
<1>11. sum[0] = 0 /\ \A k \in 1..n : sum[k] = sum[k - 1] + Pixels(tiles[k])
  <2>1. \A k \in 0..n : sum[k] = IF k = 0 THEN 0 ELSE sum[k - 1] + Pixels(tiles[k])
    BY <1>10
  <2> QED
    BY <2>1
<1>12. \A k \in Nat : k \in 0..n => sum[k] \in Nat
  <2> DEFINE Bad == {k \in Nat : k \in 0..n /\ sum[k] \notin Nat}
  <2> SUFFICES ASSUME Bad # {} PROVE FALSE
    OBVIOUS
  <2>1. PICK k \in Bad : \A j \in Bad : k <= j
    <3> QED
      BY LeastNat
  <2>2. k \in 0..n /\ k # 0
    BY <1>11, <2>1
  <2>3. k - 1 \in Nat /\ k - 1 \in 0..n /\ k \in 1..n /\ k - 1 \notin Bad
    BY <2>1, <2>2
  <2>4. sum[k - 1] \in Nat /\ sum[k] = sum[k - 1] + Pixels(tiles[k])
    BY <1>11, <2>3
  <2> QED
    BY <1>1, <2>1, <2>3, <2>4
<1>13. sum \in [0..n -> Nat]
  <2>1. DOMAIN sum = 0..n /\ sum = [k \in 0..n |-> sum[k]]
    BY <1>10
  <2> QED
    BY <1>12, <2>1
<1> QED
  BY <1>1, <1>11, <1>13 DEF Sums, sum

\* The places in the arena rise.
LEMMA SumsRise ==
  ASSUME NEW n \in Nat, NEW tiles, NEW sum, Sums(sum, tiles, n), NEW i \in 0..n, NEW j \in 0..n, i <= j
  PROVE  sum[i] <= sum[j]
<1> DEFINE Bad == {k \in Nat : k \in i..n /\ ~(sum[i] <= sum[k])}
<1> SUFFICES ASSUME Bad # {} PROVE FALSE
  OBVIOUS
<1>1. PICK k \in Bad : \A x \in Bad : k <= x
  BY LeastNat
<1>2. k \in i..n /\ ~(sum[i] <= sum[k]) /\ k \in 0..n
  BY <1>1
<1>3. sum[i] \in Nat /\ sum[k] \in Nat
  BY <1>2 DEF Sums
<1>4. k # i
  BY <1>2, <1>3
<1>5. k - 1 \in Nat /\ k - 1 \in i..n /\ k \in 1..n /\ k - 1 \notin Bad /\ k - 1 \in 0..n
  BY <1>1, <1>2, <1>4
<1>6. sum[i] <= sum[k - 1] /\ sum[k - 1] \in Nat
  BY <1>5 DEF Sums
<1>7. sum[k] = sum[k - 1] + Pixels(tiles[k]) /\ Pixels(tiles[k]) \in Nat
  BY <1>5 DEF Sums
<1> QED
  BY <1>2, <1>3, <1>6, <1>7

\* A piece of a column fits below another.
LEMMA TimesSum ==
  ASSUME NEW a \in Nat, NEW h \in Nat, NEW b \in Nat, NEW w \in Nat, a + h <= b
  PROVE  a * w + h * w <= b * w /\ a * w \in Nat /\ h * w \in Nat /\ b * w \in Nat
<1> DEFINE c == a + h
<1>1. c \in Nat /\ c <= b
  OBVIOUS
<1>2. c * w = a * w + h * w
  BY SMT
<1> HIDE DEF c
<1>3. c * w <= b * w
  BY <1>1, TimesUp
<1> QED
  BY <1>2, <1>3

\* Tiles in columns take no more than the screen has.
LEMMA StackFits ==
  ASSUME NEW n \in Nat \ {0}, NEW tiles \in [1..n -> GeometryType], NEW m, NEW lw, NEW rw,
         Stacked(tiles, n, m, lw, rw), tile_workspace(Screen) # area_none,
         NEW sum, Sums(sum, tiles, n)
  PROVE  sum[n] <= SCREEN_WIDTH * SCREEN_HEIGHT
<1> DEFINE work == tile_workspace(Screen)
           y0 == work.y
           H == work.height
           high(k) == tiles[k].height
           deep(k) == tiles[k].y + tiles[k].height - y0
<1>1. y0 = 38 /\ H = SCREEN_HEIGHT - 82 /\ H \in Nat /\ SCREEN_WIDTH \in Nat /\ SCREEN_HEIGHT \in Nat
  BY WorkspaceIs, ScreenAssumption
<1> HIDE DEF y0, H
<1>2. m \in 0..n /\ lw \in Nat /\ rw \in Nat /\ lw + rw <= SCREEN_WIDTH
  BY DEF Stacked
<1>3. ASSUME NEW k \in 1..n
      PROVE  /\ high(k) \in Nat /\ deep(k) \in Nat /\ high(k) <= deep(k) /\ deep(k) <= H
             /\ Pixels(tiles[k]) = IF k <= m THEN high(k) * lw ELSE high(k) * rw
  <2> DEFINE w == tiles[k].width
             h == tiles[k].height
             y == tiles[k].y
  <2>1. h \in Nat /\ y \in Int /\ w \in Nat
    BY DEF GeometryType
  <2>2. /\ w = IF k <= m THEN lw ELSE rw
        /\ y0 <= y /\ y + h <= y0 + H
    BY DEF Stacked, y0, H
  <2>3. Pixels(tiles[k]) = w * h /\ high(k) = h /\ deep(k) = y + h - y0
    BY DEF Pixels
  <2> HIDE DEF w, h, y, high, deep
  <2>4. w * h = h * w
    BY <2>1
  <2>5. /\ high(k) \in Nat /\ deep(k) \in Nat /\ high(k) <= deep(k) /\ deep(k) <= H
    BY <1>1, <2>1, <2>2, <2>3
  <2> QED
    BY <2>2, <2>3, <2>4, <2>5
<1>4. ASSUME NEW k \in 2..n, k <= m \/ k - 1 > m
      PROVE  deep(k - 1) + high(k) <= deep(k)
  <2> DEFINE y == tiles[k].y
             y1 == tiles[k - 1].y
             h1 == tiles[k - 1].height
             h == tiles[k].height
  <2>1. k - 1 \in 1..n /\ k \in 1..n /\ k - 1 < k
    OBVIOUS
  <2>2. y \in Int /\ y1 \in Int /\ h1 \in Nat /\ h \in Nat
    BY <2>1 DEF GeometryType
  <2>3. y1 + h1 <= y
    BY <1>4, <2>1 DEF Stacked
  <2> HIDE DEF y, y1, h1, h
  <2>4. deep(k - 1) = y1 + h1 - y0 /\ deep(k) = y + h - y0 /\ high(k) = h
    BY DEF y, y1, h1, h
  <2> QED
    BY <1>1, <2>2, <2>3, <2>4
<1> HIDE DEF high, deep
<1> DEFINE B(k) == IF k = 0 THEN 0 ELSE IF k <= m THEN deep(k) * lw ELSE H * lw + deep(k) * rw
<1>5. ASSUME NEW k \in 1..n PROVE B(k - 1) + Pixels(tiles[k]) <= B(k) /\ B(k - 1) \in Nat /\ B(k) \in Nat
  <2>1. high(k) \in Nat /\ deep(k) \in Nat /\ high(k) <= deep(k) /\ deep(k) <= H
    BY <1>3
  <2>2. H * lw \in Nat /\ deep(k) * lw \in Nat /\ deep(k) * rw \in Nat /\ H * rw \in Nat
    BY <1>1, <1>2, <2>1
  <2>3. CASE k = 1
    <3>1. high(k) * lw <= deep(k) * lw /\ high(k) * rw <= deep(k) * rw
      BY <1>2, <2>1, TimesUp
    <3>2. high(k) * lw \in Nat /\ high(k) * rw \in Nat
      BY <1>2, <2>1
    <3>3. Pixels(tiles[k]) = IF k <= m THEN high(k) * lw ELSE high(k) * rw
      BY <1>3
    <3> QED
      BY <2>2, <2>3, <3>1, <3>2, <3>3
  <2>4. CASE k # 1
    <3>1. k \in 2..n /\ k - 1 \in 1..n /\ k - 1 # 0
      BY <2>4
    <3>2. high(k - 1) \in Nat /\ deep(k - 1) \in Nat /\ deep(k - 1) <= H
      BY <1>3, <3>1
    <3>3. deep(k - 1) * lw <= H * lw /\ deep(k - 1) * lw \in Nat /\ deep(k - 1) * rw \in Nat
      BY <1>1, <1>2, <3>2, TimesUp
    <3>4. Pixels(tiles[k]) = IF k <= m THEN high(k) * lw ELSE high(k) * rw
      BY <1>3
    <3>5. CASE k <= m
      <4>1. deep(k - 1) * lw + high(k) * lw <= deep(k) * lw
        BY <1>2, <1>4, <2>1, <3>1, <3>2, <3>5, TimesSum
      <4>2. k - 1 <= m
        BY <1>2, <3>5
      <4> QED
        BY <2>2, <3>1, <3>3, <3>4, <3>5, <4>1, <4>2
    <3>6. CASE ~(k <= m) /\ k - 1 <= m
      <4>1. high(k) * rw <= deep(k) * rw /\ high(k) * rw \in Nat
        BY <1>2, <2>1, TimesUp
      <4> QED
        BY <2>2, <3>1, <3>3, <3>4, <3>6, <4>1
    <3>7. CASE ~(k <= m) /\ ~(k - 1 <= m)
      <4>1. deep(k - 1) * rw + high(k) * rw <= deep(k) * rw /\ high(k) * rw \in Nat
        <5>1. k - 1 > m
          BY <1>2, <3>7
        <5>2. deep(k - 1) + high(k) <= deep(k)
          BY <1>4, <3>1, <5>1
        <5> QED
          BY <1>2, <2>1, <3>2, <5>2, TimesSum
      <4> QED
        BY <2>2, <3>1, <3>3, <3>4, <3>7, <4>1
    <3> QED
      BY <3>5, <3>6, <3>7
  <2> QED
    BY <2>3, <2>4
<1>6. B(0) = 0
  OBVIOUS
<1>7. B(n) <= SCREEN_WIDTH * SCREEN_HEIGHT
  <2>1. n \in 1..n
    OBVIOUS
  <2>2. deep(n) \in Nat /\ deep(n) <= H
    BY <1>3, <2>1
  <2>3. /\ deep(n) * lw <= H * lw /\ deep(n) * rw <= H * rw
        /\ H * lw \in Nat /\ H * rw \in Nat /\ deep(n) * lw \in Nat /\ deep(n) * rw \in Nat
    BY <1>1, <1>2, <2>2, TimesUp
  <2>4. B(n) <= H * lw + H * rw
    BY <2>1, <2>3
  <2>5. H * lw + H * rw = (lw + rw) * H
    BY <1>1, <1>2
  <2>6. (lw + rw) * H <= SCREEN_WIDTH * H
    BY <1>1, <1>2, TimesUp
  <2>7. SCREEN_WIDTH * H <= SCREEN_WIDTH * SCREEN_HEIGHT
    <3>1. H * SCREEN_WIDTH <= SCREEN_HEIGHT * SCREEN_WIDTH
      BY <1>1, TimesUp
    <3> QED
      BY <1>1, <3>1
  <2>8. B(n) \in Nat
    BY <1>5, <2>1
  <2>9. SCREEN_WIDTH * H \in Nat /\ SCREEN_WIDTH * SCREEN_HEIGHT \in Nat /\ (lw + rw) * H \in Nat
    BY <1>1, <1>2
  <2> HIDE DEF B
  <2> QED
    BY <2>3, <2>4, <2>5, <2>6, <2>7, <2>8, <2>9
<1> HIDE DEF B
<1>8. \A k \in Nat : k \in 0..n => sum[k] <= B(k)
  <2> DEFINE Bad == {k \in Nat : k \in 0..n /\ ~(sum[k] <= B(k))}
  <2> SUFFICES ASSUME Bad # {} PROVE FALSE
    OBVIOUS
  <2>1. PICK k \in Bad : \A j \in Bad : k <= j
    BY LeastNat
  <2>2. k \in 0..n /\ ~(sum[k] <= B(k)) /\ k # 0
    BY <1>6, <2>1 DEF Sums
  <2>3. k - 1 \in Nat /\ k - 1 \in 0..n /\ k \in 1..n /\ k - 1 \notin Bad
    BY <2>1, <2>2
  <2>4. sum[k - 1] <= B(k - 1) /\ sum[k - 1] \in Nat /\ sum[k] \in Nat
    BY <2>2, <2>3 DEF Sums
  <2>5. sum[k] = sum[k - 1] + Pixels(tiles[k]) /\ Pixels(tiles[k]) \in Nat
    BY <2>3 DEF Sums
  <2>6. B(k - 1) + Pixels(tiles[k]) <= B(k) /\ B(k - 1) \in Nat /\ B(k) \in Nat
    BY <1>5, <2>3
  <2> QED
    BY <2>2, <2>4, <2>5, <2>6
<1>9. sum[n] <= B(n) /\ sum[n] \in Nat
  BY <1>8 DEF Sums
<1>10. B(n) \in Nat /\ SCREEN_WIDTH * SCREEN_HEIGHT \in Nat
  BY <1>1, <1>5
<1> QED
  BY <1>7, <1>9, <1>10


----------------------------------------------------------------------------
(* Types *)

Manager ==
  [slots : [Slots -> WindowType], next_id : WindowId, capture : WindowId \cup {WINDOW_ID_NONE}]

AppType == [id : WindowId, hidden : BOOLEAN, workspace : 1..DESKTOP_WORKSPACES,
            frame : [start : Nat, width : Nat, height : Nat]]

DesktopType ==
  [wm : Manager, apps : Seq(AppType), workspace : 1..DESKTOP_WORKSPACES, percent : 20..80]

----------------------------------------------------------------------------
(* The window manager *)

\* A window of its type whose queue has no more than it holds.
WindowOK(w) == w \in WindowType /\ Len(w.events) <= WINDOW_EVENT_CAPACITY

\* The same window, whoever has the keyboard and whatever it was told.
SameWindow(w, v) ==
  /\ v.id = w.id /\ v.geometry = w.geometry
  /\ v.minimized = w.minimized /\ v.surface = w.surface

SoundManager(wm) ==
  /\ wm \in Manager
  /\ \A s \in Slots : WindowOK(wm.slots[s])
  /\ \A s, t \in Slots :
       (wm.slots[s].id = wm.slots[t].id /\ wm.slots[s].id # WINDOW_ID_NONE) => s = t
  /\ \A s \in Slots : wm.slots[s].focused => wm.slots[s].id # WINDOW_ID_NONE
  /\ \A s, t \in Slots : (wm.slots[s].focused /\ wm.slots[t].focused) => s = t
  /\ wm.capture \in LiveIds(wm) \cup {WINDOW_ID_NONE}

SameWindows(wm, wn) == \A s \in Slots : SameWindow(wm.slots[s], wn.slots[s])

\* Told and no more: nobody's keyboard has changed.
SameFocus(wm, wn) == \A s \in Slots : wn.slots[s].focused = wm.slots[s].focused

\* An event pushed on a window's queue changes nothing else of the window, and keeps it
\* sound.
LEMMA PushKeeps ==
  ASSUME NEW w, WindowOK(w), NEW event
  PROVE  /\ WindowOK(window_event_push(w, event))
         /\ SameWindow(w, window_event_push(w, event))
         /\ window_event_push(w, event).focused = w.focused
<1>1. CASE Len(w.events) >= WINDOW_EVENT_CAPACITY \/ w.id \notin Listeners
  BY <1>1 DEF window_event_push, SameWindow
<1>2. CASE ~(Len(w.events) >= WINDOW_EVENT_CAPACITY \/ w.id \notin Listeners)
  <2> DEFINE e == IF <<w.id, event>> \in Listens THEN event ELSE "OTHER"
             v == [w EXCEPT !.events = Append(@, e)]
  <2>1. e \in EventTypes
    BY WindowsAssumption DEF EventTypes
  <2>2. window_event_push(w, event) = v
    BY <1>2 DEF window_event_push
  <2>3. w \in WindowType /\ Len(w.events) < WINDOW_EVENT_CAPACITY /\ w.events \in Seq(EventTypes)
    BY <1>2, WindowsAssumption DEF WindowOK, WindowType
  <2> HIDE DEF e
  <2>4. Append(w.events, e) \in Seq(EventTypes) /\ Len(Append(w.events, e)) <= WINDOW_EVENT_CAPACITY
    BY <2>1, <2>3, WindowsAssumption
  <2>5. WindowOK(v) /\ SameWindow(w, v) /\ v.focused = w.focused
    BY <2>3, <2>4 DEF WindowOK, WindowType, SameWindow
  <2> QED
    BY <2>2, <2>5
<1> QED
  BY <1>1, <1>2

\* An id the table knows is in exactly one slot.
LEMMA SlotForId ==
  ASSUME NEW wm, SoundManager(wm), NEW id, known(wm, id)
  PROVE  /\ slot_for_id(wm, id) \in Slots
         /\ wm.slots[slot_for_id(wm, id)].id = id
         /\ id # WINDOW_ID_NONE /\ id \in WindowId
         /\ WindowOK(window_get(wm, id)) /\ window_get(wm, id).id = id
         /\ \A s \in Slots : wm.slots[s].id = id => s = slot_for_id(wm, id)
<1>1. slot_for_id(wm, id) \in slots_of(wm, id)
  BY DEF known, slot_for_id
<1>2. slot_for_id(wm, id) \in Slots /\ wm.slots[slot_for_id(wm, id)].id = id /\ id # WINDOW_ID_NONE
  BY <1>1 DEF slots_of
<1>3. WindowOK(window_get(wm, id)) /\ window_get(wm, id).id = id
  BY <1>2 DEF SoundManager, window_get
<1>4. id \in WindowId
  BY <1>2, <1>3 DEF WindowOK, WindowType
<1>5. \A s \in Slots : wm.slots[s].id = id => s = slot_for_id(wm, id)
  BY <1>2 DEF SoundManager
<1> QED
  BY <1>2, <1>3, <1>4, <1>5

\* Any window of the manager is known by its identifier.
LEMMA LiveKnown ==
  ASSUME NEW wm, NEW id
  PROVE  known(wm, id) <=> (id \in LiveIds(wm) /\ id # WINDOW_ID_NONE)
BY DEF known, slots_of, LiveIds

\* A window replaced by the same one, which is given the keyboard only when no
\* other window has it.
LEMMA SetKeeps ==
  ASSUME NEW wm, SoundManager(wm), NEW id, known(wm, id),
         NEW v, WindowOK(v), SameWindow(window_get(wm, id), v),
         v.focused => \A s \in Slots : wm.slots[s].focused => wm.slots[s].id = id
  PROVE  /\ SoundManager(set_window(wm, id, v)) /\ SameWindows(wm, set_window(wm, id, v))
         /\ v.focused = window_get(wm, id).focused => SameFocus(wm, set_window(wm, id, v))
         /\ set_window(wm, id, v).capture = wm.capture
         /\ window_get(set_window(wm, id, v), id) = v
         /\ \A other : (other # id /\ known(wm, other)) =>
              window_get(set_window(wm, id, v), other) = window_get(wm, other)
<1> DEFINE slot == slot_for_id(wm, id)
           wn == set_window(wm, id, v)
<1>1. /\ slot \in Slots /\ wm.slots[slot].id = id /\ id # WINDOW_ID_NONE
      /\ window_get(wm, id) = wm.slots[slot]
  BY SlotForId DEF window_get
<1>2. wn = [wm EXCEPT !.slots[slot] = v]
  BY DEF set_window
<1>3. wm \in Manager /\ v \in WindowType /\ wm.slots \in [Slots -> WindowType]
  BY DEF SoundManager, WindowOK, Manager
<1>4. wn \in Manager /\ wn.slots = [wm.slots EXCEPT ![slot] = v] /\ wn.capture = wm.capture
  BY <1>1, <1>2, <1>3 DEF Manager
<1>5. \A s \in Slots : wn.slots[s] = IF s = slot THEN v ELSE wm.slots[s]
  BY <1>3, <1>4
<1> HIDE DEF wn, slot
<1>6. SameWindows(wm, wn)
  BY <1>1, <1>5 DEF SameWindows, SameWindow
<1>7. LiveIds(wn) = LiveIds(wm)
  BY <1>6 DEF LiveIds, SameWindows, SameWindow
<1>8. SoundManager(wn)
  <2>1. \A s \in Slots : WindowOK(wn.slots[s])
    BY <1>5 DEF SoundManager
  <2>2. \A s \in Slots : wn.slots[s].id = wm.slots[s].id
    BY <1>6 DEF SameWindows, SameWindow
  <2>3. \A s \in Slots : wn.slots[s].focused => wn.slots[s].id # WINDOW_ID_NONE
    BY <1>1, <1>5, <2>2 DEF SoundManager
  <2>4. ASSUME NEW s \in Slots, NEW t \in Slots, wn.slots[s].focused, wn.slots[t].focused
        PROVE  s = t
    <3>1. CASE s = slot \/ t = slot
      BY <1>1, <1>5, <2>4, <3>1 DEF SoundManager
    <3>2. CASE s # slot /\ t # slot
      BY <1>5, <2>4, <3>2 DEF SoundManager
    <3> QED
      BY <3>1, <3>2
  <2>5. \A s, t \in Slots :
          (wn.slots[s].id = wn.slots[t].id /\ wn.slots[s].id # WINDOW_ID_NONE) => s = t
    BY <2>2 DEF SoundManager
  <2>6. wn.capture \in LiveIds(wn) \cup {WINDOW_ID_NONE}
    BY <1>4, <1>7 DEF SoundManager
  <2> QED
    BY <1>4, <2>1, <2>3, <2>4, <2>5, <2>6 DEF SoundManager
<1>9. v.focused = window_get(wm, id).focused => SameFocus(wm, wn)
  BY <1>1, <1>5 DEF SameFocus
<1>10. \A other : slots_of(wn, other) = slots_of(wm, other)
  BY <1>6 DEF slots_of, SameWindows, SameWindow
<1>11. window_get(wn, id) = v
  <2>1. slot_for_id(wn, id) = slot
    BY <1>10 DEF slot_for_id, slot
  <2> QED
    BY <1>1, <1>5, <2>1 DEF window_get
<1>12. ASSUME NEW other, other # id, known(wm, other)
       PROVE  window_get(wn, other) = window_get(wm, other)
  <2>1. slot_for_id(wm, other) \in Slots /\ slot_for_id(wm, other) # slot
    BY <1>1, <1>12, SlotForId
  <2>2. slot_for_id(wn, other) = slot_for_id(wm, other)
    BY <1>10 DEF slot_for_id
  <2> QED
    BY <1>5, <2>1, <2>2 DEF window_get
<1> QED
  BY <1>4, <1>6, <1>8, <1>9, <1>11, <1>12 DEF wn


\* window_focused answers with the one window that has the keyboard, when there is one.
LEMMA FocusIs ==
  ASSUME NEW wm, SoundManager(wm)
  PROVE  /\ \A s \in Slots : wm.slots[s].focused => window_focused(wm) = wm.slots[s].id
         /\ (\A s \in Slots : ~wm.slots[s].focused) => window_focused(wm) = WINDOW_ID_NONE
         /\ window_focused(wm) = WINDOW_ID_NONE => \A s \in Slots : ~wm.slots[s].focused
         /\ window_focused(wm) # WINDOW_ID_NONE =>
              known(wm, window_focused(wm)) /\ window_get(wm, window_focused(wm)).focused
<1> DEFINE focused == {s \in Slots : wm.slots[s].focused}
<1>1. CASE focused = {}
  BY <1>1 DEF window_focused
<1>2. CASE focused # {}
  <2>1. PICK s0 \in focused : TRUE
    BY <1>2
  <2>2. focused = {s0} /\ s0 \in Nat /\ s0 \in Slots
    BY <2>1 DEF SoundManager, Slots
  <2> DEFINE first == CHOOSE s \in focused : \A t \in focused : s <= t
  <2>3. first = s0
    BY <2>2
  <2>4. window_focused(wm) = wm.slots[s0].id
    BY <1>2, <2>3 DEF window_focused
  <2>5. wm.slots[s0].id # WINDOW_ID_NONE /\ wm.slots[s0].focused
    BY <2>2 DEF SoundManager
  <2>6. \A s \in Slots : wm.slots[s].focused => s = s0
    BY <2>2
  <2>7. known(wm, wm.slots[s0].id)
    BY <2>2, <2>5 DEF known, slots_of
  <2>8. slot_for_id(wm, wm.slots[s0].id) = s0
    BY <2>2, <2>7, SlotForId
  <2>9. window_get(wm, wm.slots[s0].id).focused
    BY <2>5, <2>8 DEF window_get
  <2> HIDE DEF focused, first
  <2> QED
    BY <2>2, <2>4, <2>5, <2>6, <2>7, <2>9
<1> QED
  BY <1>1, <1>2

\* The keyboard's window depends on nothing else.
LEMMA FocusSame ==
  ASSUME NEW wm, SoundManager(wm), NEW wn, SoundManager(wn),
         SameWindows(wm, wn), SameFocus(wm, wn)
  PROVE  window_focused(wn) = window_focused(wm)
<1>1. \A s \in Slots : wn.slots[s].focused = wm.slots[s].focused /\ wn.slots[s].id = wm.slots[s].id
  BY DEF SameWindows, SameFocus, SameWindow
<1>2. {s \in Slots : wn.slots[s].focused} = {s \in Slots : wm.slots[s].focused}
  BY <1>1
<1> DEFINE focused == {s \in Slots : wm.slots[s].focused}
           first == CHOOSE s \in focused : \A t \in focused : s <= t
<1>3. CASE focused = {}
  BY <1>2, <1>3 DEF window_focused
<1>4. CASE focused # {}
  <2>1. PICK s0 \in focused : TRUE
    BY <1>4
  <2>2. focused = {s0} /\ s0 \in Nat /\ s0 \in Slots
    BY <2>1 DEF SoundManager, Slots
  <2>3. first \in Slots
    BY <2>2
  <2>4. window_focused(wn) = wn.slots[first].id /\ window_focused(wm) = wm.slots[first].id
    BY <1>2, <1>4 DEF window_focused
  <2> HIDE DEF first
  <2> QED
    BY <1>1, <2>3, <2>4
<1> QED
  BY <1>3, <1>4

\* Nobody but the window that has the keyboard has it.
LEMMA OnlyItsFocus ==
  ASSUME NEW wm, SoundManager(wm), NEW id, known(wm, id), window_get(wm, id).focused
  PROVE  \A s \in Slots : wm.slots[s].focused => wm.slots[s].id = id
<1>1. /\ slot_for_id(wm, id) \in Slots /\ wm.slots[slot_for_id(wm, id)].id = id
      /\ wm.slots[slot_for_id(wm, id)].focused
  BY SlotForId DEF window_get
<1>2. \A s \in Slots : wm.slots[s].focused => s = slot_for_id(wm, id)
  BY <1>1 DEF SoundManager
<1> QED
  BY <1>1, <1>2

\* Windows told of something and no more.
Told(wm, wn) ==
  /\ SoundManager(wn) /\ SameWindows(wm, wn) /\ SameFocus(wm, wn) /\ wn.capture = wm.capture
  /\ window_focused(wn) = window_focused(wm)

\* Nothing at all is the least that can be told.
LEMMA SameIsTold ==
  ASSUME NEW wm, SoundManager(wm)
  PROVE  Told(wm, wm)
BY DEF Told, SameWindows, SameWindow, SameFocus

\* Posting an event changes one window's queue.
LEMMA PostTells ==
  ASSUME NEW wm, SoundManager(wm), NEW id, NEW event
  PROVE  Told(wm, window_post_event(wm, id, event))
<1>1. CASE ~known(wm, id)
  BY <1>1, SameIsTold DEF window_post_event
<1>2. CASE known(wm, id)
  <2> DEFINE v == window_event_push(window_get(wm, id), event)
  <2>1. WindowOK(v) /\ SameWindow(window_get(wm, id), v) /\ v.focused = window_get(wm, id).focused
    BY <1>2, SlotForId, PushKeeps
  <2> HIDE DEF v
  <2>2. v.focused => \A s \in Slots : wm.slots[s].focused => wm.slots[s].id = id
    BY <1>2, <2>1, OnlyItsFocus
  <2> DEFINE wn == set_window(wm, id, v)
  <2>3. SoundManager(wn) /\ SameWindows(wm, wn) /\ SameFocus(wm, wn) /\ wn.capture = wm.capture
    BY <1>2, <2>1, <2>2, SetKeeps
  <2>4. wn = window_post_event(wm, id, event)
    BY <1>2 DEF window_post_event, v
  <2> HIDE DEF wn
  <2>5. window_focused(wn) = window_focused(wm)
    BY <2>3, FocusSame
  <2> QED
    BY <2>3, <2>4, <2>5 DEF Told
<1> QED
  BY <1>1, <1>2

\* What window_next_event and the draining of a queue leave.
LEMMA SetEventsTells ==
  ASSUME NEW wm, SoundManager(wm), NEW id, known(wm, id), NEW q \in Seq(EventTypes),
         Len(q) <= WINDOW_EVENT_CAPACITY
  PROVE  Told(wm, set_window(wm, id, [window_get(wm, id) EXCEPT !.events = q]))
<1> DEFINE w == window_get(wm, id)
           v == [w EXCEPT !.events = q]
<1>1. WindowOK(w)
  BY SlotForId
<1>2. WindowOK(v) /\ SameWindow(w, v) /\ v.focused = w.focused
  <2> HIDE DEF w
  <2> QED
    BY <1>1 DEF WindowOK, WindowType, SameWindow
<1> HIDE DEF v
<1>3. v.focused => \A s \in Slots : wm.slots[s].focused => wm.slots[s].id = id
  BY <1>2, OnlyItsFocus
<1> DEFINE wn == set_window(wm, id, v)
<1>4. SoundManager(wn) /\ SameWindows(wm, wn) /\ SameFocus(wm, wn) /\ wn.capture = wm.capture
  BY <1>2, <1>3, SetKeeps
<1> HIDE DEF wn
<1>5. window_focused(wn) = window_focused(wm)
  BY <1>4, FocusSame
<1> QED
  BY <1>4, <1>5 DEF Told, wn, v

\* Taking an event out changes one window's queue.
LEMMA PoppedTells ==
  ASSUME NEW wm, SoundManager(wm), NEW id, known(wm, id), window_get(wm, id).events # <<>>
  PROVE  Told(wm, popped(wm, id))
<1>1. WindowOK(window_get(wm, id))
  BY SlotForId
<1>2. /\ window_get(wm, id).events \in Seq(EventTypes)
      /\ Len(window_get(wm, id).events) <= WINDOW_EVENT_CAPACITY
  BY <1>1 DEF WindowOK, WindowType
<1> DEFINE e == window_get(wm, id).events
<1>3. Tail(e) \in Seq(EventTypes) /\ Len(Tail(e)) <= WINDOW_EVENT_CAPACITY
  <2> HIDE DEF e
  <2> QED
    BY <1>2, WindowsAssumption DEF e
<1>4. popped(wm, id) = set_window(wm, id, [window_get(wm, id) EXCEPT !.events = Tail(e)])
  BY DEF popped
<1> HIDE DEF e
<1> QED
  BY <1>3, <1>4, SetEventsTells

\* Emptying a queue changes one window's queue.
LEMMA EmptiedTells ==
  ASSUME NEW wm, SoundManager(wm), NEW id
  PROVE  Told(wm, emptied(wm, id))
<1>1. CASE ~known(wm, id)
  BY <1>1, SameIsTold DEF emptied
<1>2. CASE known(wm, id)
  <2>1. << >> \in Seq(EventTypes) /\ Len(<< >>) <= WINDOW_EVENT_CAPACITY
    BY WindowsAssumption
  <2>2. emptied(wm, id) = set_window(wm, id, [window_get(wm, id) EXCEPT !.events = << >>])
    BY <1>2 DEF emptied
  <2> QED
    BY <1>2, <2>1, <2>2, SetEventsTells
<1> QED
  BY <1>1, <1>2

\* Nobody has the keyboard.
NoFocus(wm) == \A s \in Slots : ~wm.slots[s].focused

\* Taking the keyboard from the window that has it leaves none with it.
LEMMA UnfocusedKeeps ==
  ASSUME NEW wm, SoundManager(wm)
  PROVE  /\ SoundManager(unfocused(wm, window_focused(wm)))
         /\ SameWindows(wm, unfocused(wm, window_focused(wm)))
         /\ unfocused(wm, window_focused(wm)).capture = wm.capture
         /\ NoFocus(unfocused(wm, window_focused(wm)))
<1> DEFINE old == window_focused(wm)
<1>1. CASE ~known(wm, old)
  <2>1. unfocused(wm, old) = wm
    BY <1>1 DEF unfocused
  <2>2. NoFocus(wm)
    BY <1>1, FocusIs DEF NoFocus
  <2> QED
    BY <2>1, <2>2 DEF SameWindows, SameWindow
<1>2. CASE known(wm, old)
  <2> DEFINE w == window_get(wm, old)
             u == [w EXCEPT !.focused = FALSE]
             v == window_event_push(u, "OTHER")
             wn == set_window(wm, old, v)
  <2>1. WindowOK(w)
    BY <1>2, SlotForId
  <2>2. WindowOK(u) /\ SameWindow(w, u) /\ ~u.focused
    <3> HIDE DEF w
    <3> QED
      BY <2>1 DEF WindowOK, WindowType, SameWindow
  <2>3. WindowOK(v) /\ SameWindow(u, v) /\ ~v.focused
    <3> HIDE DEF u
    <3> QED
      BY <2>2, PushKeeps
  <2>4. SameWindow(w, v)
    <3> HIDE DEF u, v
    <3> QED
      BY <2>2, <2>3 DEF SameWindow
  <2> HIDE DEF v
  <2>5. SoundManager(wn) /\ SameWindows(wm, wn) /\ wn.capture = wm.capture
    BY <1>2, <2>3, <2>4, SetKeeps
  <2>6. wn = [wm EXCEPT !.slots[slot_for_id(wm, old)] = v]
    BY DEF set_window
  <2>7. wm.slots \in [Slots -> WindowType] /\ wm \in Manager
    BY DEF SoundManager, Manager
  <2>8. \A s \in Slots : wn.slots[s] = IF s = slot_for_id(wm, old) THEN v ELSE wm.slots[s]
    BY <2>6, <2>7 DEF Manager
  <2>9. \A s \in Slots : s # slot_for_id(wm, old) => ~wm.slots[s].focused
    <3>1. slot_for_id(wm, old) \in Slots /\ wm.slots[slot_for_id(wm, old)].id = old
          /\ \A s \in Slots : wm.slots[s].id = old => s = slot_for_id(wm, old)
      BY <1>2, SlotForId
    <3>2. \A s \in Slots : wm.slots[s].focused => old = wm.slots[s].id
      BY FocusIs
    <3> QED
      BY <3>1, <3>2
  <2>10. NoFocus(wn)
    BY <2>3, <2>8, <2>9 DEF NoFocus
  <2>11. unfocused(wm, old) = wn
    BY <1>2 DEF unfocused, v
  <2> HIDE DEF wn
  <2> QED
    BY <2>5, <2>10, <2>11
<1> QED
  BY <1>1, <1>2

\* Giving it to a window, when none has it, gives it to that one alone.
LEMMA FocusedOnKeeps ==
  ASSUME NEW wm, SoundManager(wm), NoFocus(wm), NEW id, known(wm, id)
  PROVE  /\ SoundManager(focused_on(wm, id))
         /\ SameWindows(wm, focused_on(wm, id))
         /\ focused_on(wm, id).capture = wm.capture
         /\ window_focused(focused_on(wm, id)) = id
<1> DEFINE w == window_get(wm, id)
           u == [w EXCEPT !.focused = TRUE]
           v == window_event_push(u, "OTHER")
           wn == set_window(wm, id, v)
<1>1. WindowOK(w)
  BY SlotForId
<1>2. WindowOK(u) /\ SameWindow(w, u) /\ u.focused
  <2> HIDE DEF w
  <2> QED
    BY <1>1 DEF WindowOK, WindowType, SameWindow
<1>3. WindowOK(v) /\ SameWindow(u, v) /\ v.focused
  <2> HIDE DEF u
  <2> QED
    BY <1>2, PushKeeps
<1>4. SameWindow(w, v)
  <2> HIDE DEF u, v
  <2> QED
    BY <1>2, <1>3 DEF SameWindow
<1> HIDE DEF v
<1>5. SoundManager(wn) /\ SameWindows(wm, wn) /\ wn.capture = wm.capture /\ window_get(wn, id) = v
  BY <1>3, <1>4, SetKeeps DEF NoFocus
<1>6. wn = focused_on(wm, id)
  BY DEF focused_on, v
<1> HIDE DEF wn
<1>7. known(wn, id)
  BY <1>5 DEF known, slots_of, SameWindows, SameWindow
<1>8. slot_for_id(wn, id) \in Slots /\ wn.slots[slot_for_id(wn, id)] = v /\ v.id = id
  BY <1>5, <1>7, SlotForId DEF window_get
<1>9. window_focused(wn) = id
  BY <1>3, <1>5, <1>8, FocusIs
<1> QED
  BY <1>5, <1>6, <1>9


\* One of the two: a remainder that goes once round at most.
LEMMA Remainders ==
  ASSUME NEW L \in Nat \ {0}, NEW a \in Nat
  PROVE  /\ a < L => a % L = a
         /\ (a >= L /\ a < 2 * L) => a % L = a - L
         /\ a % L \in 0..(L - 1)
<1>1. a % L \in 0..(L - 1) /\ a = L * (a \div L) + (a % L) /\ a \div L \in Nat
  OBVIOUS
<1> DEFINE q == a \div L
           r == a % L
<1>2. q \in Nat /\ r \in Nat /\ r < L /\ a = L * q + r
  BY <1>1
<1> HIDE DEF q, r
<1>3. ASSUME a < L PROVE q = 0
  <2>1. q >= 1 => L * q >= L
    BY <1>2
  <2> QED
    BY <1>2, <1>3, <2>1
<1>4. ASSUME a >= L, a < 2 * L PROVE q = 1
  <2>1. q >= 2 => L * q >= 2 * L
    BY <1>2
  <2>2. q = 0 => L * q = 0
    BY <1>2
  <2> QED
    BY <1>2, <1>4, <2>1, <2>2
<1>5. (q = 0 => L * q = 0) /\ (q = 1 => L * q = L)
  OBVIOUS
<1> QED
  BY <1>1, <1>2, <1>3, <1>4, <1>5 DEF r

\* window_focus moves the keyboard to a window that is not minimised, and nothing else.
LEMMA FocusKeeps ==
  ASSUME NEW wm, SoundManager(wm), NEW id
  PROVE  /\ SoundManager(window_focus(wm, id))
         /\ SameWindows(wm, window_focus(wm, id))
         /\ window_focus(wm, id).capture = wm.capture
         /\ window_focused(window_focus(wm, id)) =
              IF id # WINDOW_ID_NONE /\ (~known(wm, id) \/ window_get(wm, id).minimized)
              THEN window_focused(wm) ELSE id
<1> DEFINE refused == id # WINDOW_ID_NONE /\ (~known(wm, id) \/ window_get(wm, id).minimized)
           old == window_focused(wm)
<1>1. CASE refused \/ id = old
  <2>1. CASE id = WINDOW_ID_NONE
    <3>1. ~known(wm, old)
      BY <1>1, <2>1 DEF known, slots_of
    <3>2. window_focus(wm, id) = wm
      BY <1>1, <2>1, <3>1 DEF window_focus, unfocused
    <3> QED
      BY <1>1, <2>1, <3>2 DEF SameWindows, SameWindow
  <2>2. CASE id # WINDOW_ID_NONE
    <3>1. window_focus(wm, id) = wm
      BY <1>1, <2>2 DEF window_focus
    <3> QED
      BY <1>1, <3>1 DEF SameWindows, SameWindow
  <2> QED
    BY <2>1, <2>2
<1>2. CASE ~refused /\ id # old /\ id = WINDOW_ID_NONE
  <2>1. window_focus(wm, id) = unfocused(wm, old)
    BY <1>2 DEF window_focus
  <2> DEFINE un == unfocused(wm, old)
  <2>2. SoundManager(un) /\ SameWindows(wm, un) /\ un.capture = wm.capture /\ NoFocus(un)
    BY UnfocusedKeeps
  <2> HIDE DEF un
  <2>3. window_focused(un) = WINDOW_ID_NONE
    BY <2>2, FocusIs DEF NoFocus
  <2> QED
    BY <1>2, <2>1, <2>2, <2>3 DEF un
<1>3. CASE ~refused /\ id # old /\ id # WINDOW_ID_NONE
  <2> DEFINE un == unfocused(wm, old)
             fo == focused_on(un, id)
  <2>1. window_focus(wm, id) = fo
    BY <1>3 DEF window_focus
  <2>2. SoundManager(un) /\ SameWindows(wm, un) /\ un.capture = wm.capture /\ NoFocus(un)
    BY UnfocusedKeeps
  <2> HIDE DEF un
  <2>3. known(un, id)
    BY <1>3, <2>2 DEF known, slots_of, SameWindows, SameWindow
  <2>4. SoundManager(fo) /\ SameWindows(un, fo) /\ fo.capture = un.capture /\ window_focused(fo) = id
    BY <2>2, <2>3, FocusedOnKeeps
  <2> HIDE DEF fo
  <2>5. SameWindows(wm, fo)
    BY <2>2, <2>4 DEF SameWindows, SameWindow
  <2> QED
    BY <1>3, <2>1, <2>2, <2>4, <2>5
<1> QED
  BY <1>1, <1>2, <1>3

\* What is under the pointer is drawn.
LEMMA HitIsDrawn ==
  ASSUME NEW wm, SoundManager(wm), NEW at, window_hit_test(wm, at) # WINDOW_ID_NONE
  PROVE  /\ known(wm, window_hit_test(wm, at))
         /\ ~window_get(wm, window_hit_test(wm, at)).minimized
         /\ window_hit_test(wm, at) \in LiveIds(wm)
<1> DEFINE hit == {s \in LiveSlots(wm) : ~wm.slots[s].minimized /\ contains(wm.slots[s].geometry, at)}
           s0 == CHOOSE s \in hit : TRUE
<1>1. hit # {} /\ window_hit_test(wm, at) = wm.slots[s0].id
  BY DEF window_hit_test
<1>2. s0 \in hit
  BY <1>1
<1>3. s0 \in Slots /\ wm.slots[s0].id # WINDOW_ID_NONE /\ ~wm.slots[s0].minimized
  BY <1>2 DEF LiveSlots
<1> HIDE DEF s0, hit
<1>4. known(wm, wm.slots[s0].id) /\ wm.slots[s0].id \in LiveIds(wm)
  BY <1>3 DEF known, slots_of, LiveIds
<1>5. slot_for_id(wm, wm.slots[s0].id) = s0
  BY <1>3, <1>4, SlotForId
<1> QED
  BY <1>1, <1>3, <1>4, <1>5 DEF window_get

\* A key changes the queue of the window it goes to.
LEMMA RouteKeyTells ==
  ASSUME NEW wm, SoundManager(wm), NEW key
  PROVE  Told(wm, window_route_key(wm, key))
BY PostTells DEF window_route_key

\* A new holder of the pointer.
LEMMA CaptureKeeps ==
  ASSUME NEW wm, SoundManager(wm), NEW c \in LiveIds(wm) \cup {WINDOW_ID_NONE}
  PROVE  /\ SoundManager([wm EXCEPT !.capture = c]) /\ SameWindows(wm, [wm EXCEPT !.capture = c])
         /\ window_focused([wm EXCEPT !.capture = c]) = window_focused(wm)
         /\ [wm EXCEPT !.capture = c].slots = wm.slots /\ [wm EXCEPT !.capture = c].capture = c
<1> DEFINE wn == [wm EXCEPT !.capture = c]
<1>1. wm \in Manager
  BY DEF SoundManager
<1>2. LiveIds(wm) \subseteq WindowId
  BY <1>1 DEF LiveIds, Manager, WindowType
<1>3. wn \in Manager /\ wn.slots = wm.slots /\ wn.capture = c
  BY <1>1, <1>2 DEF Manager
<1> HIDE DEF wn
<1>4. LiveIds(wn) = LiveIds(wm)
  BY <1>3 DEF LiveIds
<1>5. SoundManager(wn)
  BY <1>3, <1>4 DEF SoundManager
<1>6. SameWindows(wm, wn) /\ SameFocus(wm, wn)
  BY <1>3 DEF SameWindows, SameWindow, SameFocus
<1>7. window_focused(wn) = window_focused(wm)
  BY <1>5, <1>6, FocusSame
<1> QED
  BY <1>3, <1>5, <1>6, <1>7 DEF wn

PointerTypes == {"DOWN", "UP", "MOVE"}

\* A pointer event keeps the table, and a press moves the keyboard to the window under
\* it.
LEMMA RouteKeeps ==
  ASSUME NEW wm, SoundManager(wm), NEW type \in PointerTypes, NEW at
  PROVE  /\ SoundManager(window_route_pointer(wm, type, at))
         /\ SameWindows(wm, window_route_pointer(wm, type, at))
         /\ window_focused(window_route_pointer(wm, type, at)) =
              IF type = "DOWN" THEN window_hit_test(wm, at) ELSE window_focused(wm)
<1> DEFINE target == pointer_target(wm, type, at)
           pressed == IF type = "DOWN" THEN window_focus(wm, target) ELSE wm
           holder == CASE type = "DOWN" -> target
                       [] type = "UP" -> WINDOW_ID_NONE
                       [] type = "MOVE" -> IF known(wm, wm.capture) THEN wm.capture
                                           ELSE WINDOW_ID_NONE
           told == window_post_event(pressed, target, type)
<1>1. window_route_pointer(wm, type, at) = [told EXCEPT !.capture = holder]
  BY DEF window_route_pointer
<1>2. type = "DOWN" => target = window_hit_test(wm, at)
  BY DEF pointer_target
<1>3. holder \in LiveIds(wm) \cup {WINDOW_ID_NONE}
  <2>1. CASE type = "DOWN"
    <3>1. holder = window_hit_test(wm, at)
      BY <1>2, <2>1
    <3> QED
      BY <3>1, HitIsDrawn
  <2>2. CASE type = "UP"
    BY <2>2
  <2>3. CASE type = "MOVE"
    BY <2>3 DEF SoundManager
  <2> QED
    BY <2>1, <2>2, <2>3 DEF PointerTypes
<1> HIDE DEF holder
<1>4. /\ SoundManager(pressed) /\ SameWindows(wm, pressed)
      /\ window_focused(pressed) = IF type = "DOWN" THEN window_hit_test(wm, at) ELSE window_focused(wm)
  <2>1. CASE type = "DOWN"
    <3>1. pressed = window_focus(wm, window_hit_test(wm, at))
      BY <1>2, <2>1
    <3>2. window_hit_test(wm, at) # WINDOW_ID_NONE =>
            /\ known(wm, window_hit_test(wm, at))
            /\ ~window_get(wm, window_hit_test(wm, at)).minimized
      BY HitIsDrawn
    <3> HIDE DEF pressed
    <3> QED
      BY <2>1, <3>1, <3>2, FocusKeeps
  <2>2. CASE type # "DOWN"
    BY <2>2 DEF SameWindows, SameWindow
  <2> QED
    BY <2>1, <2>2
<1> HIDE DEF pressed
<1>5. Told(pressed, told)
  BY <1>4, PostTells
<1> HIDE DEF told
<1>6. SoundManager(told) /\ SameWindows(wm, told) /\ window_focused(told) = window_focused(pressed)
  BY <1>4, <1>5 DEF Told, SameWindows, SameWindow
<1>7. holder \in LiveIds(told) \cup {WINDOW_ID_NONE}
  BY <1>3, <1>6 DEF LiveIds, SameWindows, SameWindow
<1> DEFINE wn == [told EXCEPT !.capture = holder]
<1>8. SoundManager(wn) /\ SameWindows(told, wn) /\ window_focused(wn) = window_focused(told)
  BY <1>6, <1>7, CaptureKeeps
<1> HIDE DEF wn
<1>9. SameWindows(wm, wn)
  BY <1>6, <1>8 DEF SameWindows, SameWindow
<1>10. window_route_pointer(wm, type, at) = wn
  BY <1>1 DEF wn
<1> QED
  BY <1>4, <1>6, <1>8, <1>9, <1>10



\* The keyboard stays with the same window, in the same slot.
LEMMA FocusStays ==
  ASSUME NEW wm, SoundManager(wm), NEW wn, SoundManager(wn),
         \A s \in Slots : wn.slots[s].focused = wm.slots[s].focused,
         \A s \in Slots : wm.slots[s].focused => wn.slots[s].id = wm.slots[s].id
  PROVE  window_focused(wn) = window_focused(wm)
<1>1. CASE \E s \in Slots : wm.slots[s].focused
  <2>1. PICK s \in Slots : wm.slots[s].focused
    BY <1>1
  <2>2. window_focused(wm) = wm.slots[s].id
    BY <2>1, FocusIs
  <2>3. wn.slots[s].focused /\ wn.slots[s].id = wm.slots[s].id
    BY <2>1
  <2>4. window_focused(wn) = wn.slots[s].id
    BY <2>3, FocusIs
  <2> QED
    BY <2>2, <2>3, <2>4
<1>2. CASE \A s \in Slots : ~wm.slots[s].focused
  <2>1. window_focused(wm) = WINDOW_ID_NONE
    BY <1>2, FocusIs
  <2>2. \A s \in Slots : ~wn.slots[s].focused
    BY <1>2
  <2>3. window_focused(wn) = WINDOW_ID_NONE
    BY <2>2, FocusIs
  <2> QED
    BY <2>1, <2>3
<1> QED
  BY <1>1, <1>2

\* The k-th identifier take_id tries.
tried(wm, k) == ((wm.next_id - 1 + k) % LAST_ID) + 1

\* The ids window_create tries are all different.
LEMMA TriedAre ==
  ASSUME NEW n \in WindowId
  PROVE  /\ \A k \in 0..WINDOW_MAX : ((n - 1 + k) % LAST_ID) + 1 \in WindowId
         /\ ((n - 1 + 0) % LAST_ID) + 1 = n
         /\ \A j, k \in 0..(WINDOW_MAX - 1) :
              ((n - 1 + j) % LAST_ID) + 1 = ((n - 1 + k) % LAST_ID) + 1 => j = k
<1>1. LAST_ID \in Nat \ {0} /\ WINDOW_MAX \in Nat /\ WINDOW_MAX <= LAST_ID /\ n \in 1..LAST_ID
  BY WindowsAssumption DEF WindowId
<1>2. ASSUME NEW k \in 0..WINDOW_MAX PROVE ((n - 1 + k) % LAST_ID) + 1 \in WindowId
  <2>1. n - 1 + k \in Nat
    BY <1>1
  <2>2. (n - 1 + k) % LAST_ID \in 0..(LAST_ID - 1)
    BY <1>1, <2>1, Remainders
  <2> QED
    BY <1>1, <2>2 DEF WindowId
<1>3. ((n - 1 + 0) % LAST_ID) + 1 = n
  <2>1. n - 1 \in Nat /\ n - 1 < LAST_ID /\ n - 1 + 0 = n - 1
    BY <1>1
  <2>2. (n - 1) % LAST_ID = n - 1
    BY <1>1, <2>1, Remainders
  <2> QED
    BY <1>1, <2>1, <2>2
<1>4. ASSUME NEW j \in 0..(WINDOW_MAX - 1), NEW k \in 0..(WINDOW_MAX - 1),
             ((n - 1 + j) % LAST_ID) + 1 = ((n - 1 + k) % LAST_ID) + 1
      PROVE  j = k
  <2> DEFINE a == n - 1 + j
             b == n - 1 + k
  <2>1. a \in Nat /\ b \in Nat /\ a < 2 * LAST_ID /\ b < 2 * LAST_ID
    BY <1>1
  <2>6. a = n - 1 + j /\ b = n - 1 + k
    OBVIOUS
  <2>7. (a % LAST_ID) + 1 = (b % LAST_ID) + 1
    BY <1>4
  <2> HIDE DEF a, b
  <2>2. a % LAST_ID \in 0..(LAST_ID - 1) /\ b % LAST_ID \in 0..(LAST_ID - 1)
    BY <1>1, <2>1, Remainders
  <2>3. a % LAST_ID = IF a < LAST_ID THEN a ELSE a - LAST_ID
    <3>1. /\ a < LAST_ID => a % LAST_ID = a
          /\ (a >= LAST_ID /\ a < 2 * LAST_ID) => a % LAST_ID = a - LAST_ID
      BY <1>1, <2>1, Remainders
    <3> QED
      BY <1>1, <2>1, <3>1
  <2>4. b % LAST_ID = IF b < LAST_ID THEN b ELSE b - LAST_ID
    <3>1. /\ b < LAST_ID => b % LAST_ID = b
          /\ (b >= LAST_ID /\ b < 2 * LAST_ID) => b % LAST_ID = b - LAST_ID
      BY <1>1, <2>1, Remainders
    <3> QED
      BY <1>1, <2>1, <3>1
  <2>5. a % LAST_ID = b % LAST_ID
    BY <2>2, <2>7
  <2> QED
    BY <1>1, <2>1, <2>3, <2>4, <2>5, <2>6
<1> QED
  BY <1>2, <1>3, <1>4

\* When a slot is free, one of the identifiers tried is.
LEMMA TakesAnother ==
  ASSUME NEW wm, SoundManager(wm), NEW free \in Slots, wm.slots[free].id = WINDOW_ID_NONE
  PROVE  /\ take_id(wm) \in WindowId /\ ~known(wm, take_id(wm))
         /\ ~known(wm, wm.next_id) => take_id(wm) = wm.next_id
<1> DEFINE nth(k) == tried(wm, k)
           open == {k \in 0..WINDOW_MAX : ~known(wm, nth(k))}
<1>1. wm.next_id \in WindowId /\ WINDOW_MAX \in Nat \ {0}
  BY WindowsAssumption DEF SoundManager, Manager
<1>2. /\ \A k \in 0..WINDOW_MAX : nth(k) \in WindowId
      /\ nth(0) = wm.next_id
      /\ \A j, k \in 0..(WINDOW_MAX - 1) : nth(j) = nth(k) => j = k
  BY <1>1, TriedAre DEF tried
<1> HIDE DEF nth
<1>3. open # {}
  <2> SUFFICES ASSUME open = {} PROVE FALSE
    OBVIOUS
  <2>1. \A k \in 0..(WINDOW_MAX - 1) : known(wm, nth(k))
    BY <1>1
  <2> DEFINE S == 0..(WINDOW_MAX - 1)
             T == Slots \ {free}
             f == [k \in S |-> slot_for_id(wm, nth(k))]
  <2>2. ASSUME NEW k \in S
        PROVE  /\ slot_for_id(wm, nth(k)) \in Slots
               /\ wm.slots[slot_for_id(wm, nth(k))].id = nth(k) /\ nth(k) # WINDOW_ID_NONE
    BY <2>1, SlotForId
  <2>3. f \in [S -> T]
    BY <2>2
  <2>4. IsFiniteSet(Slots) /\ Cardinality(Slots) = WINDOW_MAX
    BY <1>1, FS_Interval DEF Slots
  <2>5. IsFiniteSet(T) /\ Cardinality(T) = WINDOW_MAX - 1
    BY <2>4, FS_RemoveElement
  <2>6. IsFiniteSet(S) /\ Cardinality(S) = WINDOW_MAX
    BY <1>1, FS_Interval
  <2> HIDE DEF S, T
  <2>7. PICK j \in S, k \in S : j # k /\ f[j] = f[k]
    <3> HIDE DEF f
    <3> QED
      BY <1>1, <2>3, <2>5, <2>6, FS_PigeonHole
  <2>8. nth(j) = nth(k)
    BY <2>2, <2>7
  <2> QED
    BY <1>2, <2>7, <2>8 DEF S
<1> DEFINE k0 == CHOOSE k \in open : \A j \in open : k <= j
<1>4. k0 \in open
  <2>1. open \in SUBSET Nat
    OBVIOUS
  <2> HIDE DEF open
  <2>2. \E k \in open : \A j \in open : k <= j
    BY <1>3, <2>1, LeastNat
  <2> QED
    BY <2>2
<1>5. take_id(wm) = nth(k0)
  BY DEF take_id, nth, tried
<1>6. ~known(wm, wm.next_id) => k0 = 0
  <2> SUFFICES ASSUME ~known(wm, wm.next_id) PROVE k0 = 0
    OBVIOUS
  <2>1. 0 \in open /\ \A j \in open : 0 <= j
    BY <1>1, <1>2
  <2>2. \A k \in open : (\A j \in open : k <= j) => k = 0
    BY <2>1
  <2>3. \E k \in open : \A j \in open : k <= j
    BY <2>1
  <2> HIDE DEF open
  <2> QED
    BY <2>2, <2>3
<1> HIDE DEF k0
<1> QED
  BY <1>2, <1>4, <1>5, <1>6

\* The slot a new window gets.
NewWindow(id, geometry) == [FreeSlot EXCEPT !.id = id, !.geometry = geometry]

\* A new window is sound.
LEMMA NewWindowOK ==
  ASSUME NEW id \in WindowId \cup {WINDOW_ID_NONE}, NEW geometry \in GeometryType
  PROVE  /\ WindowOK(NewWindow(id, geometry)) /\ NewWindow(id, geometry).id = id
         /\ ~NewWindow(id, geometry).focused /\ ~NewWindow(id, geometry).minimized
         /\ NewWindow(id, geometry).geometry = geometry
<1>1. << >> \in Seq(EventTypes) /\ Len(<< >>) <= WINDOW_EVENT_CAPACITY
  BY WindowsAssumption
<1> QED
  BY <1>1 DEF WindowOK, WindowType, NewWindow, FreeSlot, area_none, Area, GeometryType

\* So is a free slot.
LEMMA FreeSlotOK == WindowOK(FreeSlot) /\ FreeSlot.id = WINDOW_ID_NONE /\ ~FreeSlot.focused
<1>1. << >> \in Seq(EventTypes) /\ Len(<< >>) <= WINDOW_EVENT_CAPACITY
  BY WindowsAssumption
<1> QED
  BY <1>1 DEF WindowOK, WindowType, FreeSlot, area_none, Area

\* A window made: `slot' is the first free one.
Made(wm, geometry, made, slot) ==
  /\ slot \in Slots /\ wm.slots[slot].id = WINDOW_ID_NONE
  /\ \A s \in Slots : wm.slots[s].id = WINDOW_ID_NONE => slot <= s
  /\ made.id = take_id(wm) /\ made.id \in WindowId /\ ~known(wm, made.id)
  /\ SoundManager(made.wm)
  /\ made.wm.slots = [wm.slots EXCEPT ![slot] = NewWindow(made.id, geometry)]
  /\ made.wm.next_id = following(made.id) /\ made.wm.capture = wm.capture
  /\ LiveIds(made.wm) = LiveIds(wm) \cup {made.id}
  /\ window_focused(made.wm) = window_focused(wm)

\* The id after one is an id, and the next number short of the last.
LEMMA FollowingIs ==
  ASSUME NEW id \in WindowId
  PROVE  following(id) \in WindowId /\ (id < LAST_ID => following(id) = id + 1)
<1>1. LAST_ID \in Nat \ {0} /\ id \in 1..LAST_ID /\ id \in Nat
  BY WindowsAssumption DEF WindowId
<1>2. id % LAST_ID \in 0..(LAST_ID - 1) /\ (id < LAST_ID => id % LAST_ID = id)
  BY <1>1, Remainders
<1> QED
  BY <1>1, <1>2 DEF following, WindowId

\* A window_create that succeeds makes one window with an id no other has.
LEMMA CreateMakes ==
  ASSUME NEW wm, SoundManager(wm), NEW geometry \in GeometryType,
         window_create(wm, geometry).ok
  PROVE  \E slot : Made(wm, geometry, window_create(wm, geometry), slot)
<1> DEFINE free == {s \in Slots : wm.slots[s].id = WINDOW_ID_NONE}
           slot == CHOOSE s \in free : \A t \in free : s <= t
           id == take_id(wm)
           made == window_create(wm, geometry)
           wn == [wm EXCEPT !.slots[slot] = NewWindow(id, geometry), !.next_id = following(id)]
<1>1. free # {}
  BY DEF window_create
<1>2. made.id = id /\ made.wm = wn
  BY <1>1 DEF window_create, NewWindow
<1>3. slot \in free /\ \A t \in free : slot <= t
  <2>1. free \in SUBSET Nat
    BY DEF Slots
  <2> HIDE DEF free
  <2>2. \E s \in free : \A t \in free : s <= t
    BY <1>1, <2>1, LeastNat
  <2> QED
    BY <2>2
<1> HIDE DEF slot
<1>4. slot \in Slots /\ wm.slots[slot].id = WINDOW_ID_NONE /\ \A s \in Slots : wm.slots[s].id = WINDOW_ID_NONE => slot <= s
  BY <1>3
<1>5. id \in WindowId /\ ~known(wm, id)
  BY <1>4, TakesAnother
<1> HIDE DEF id, free
<1> DEFINE new == NewWindow(id, geometry)
<1>6. WindowOK(new) /\ new.id = id /\ ~new.focused
  BY <1>5, NewWindowOK
<1> HIDE DEF new
<1>7. wm \in Manager /\ wm.slots \in [Slots -> WindowType] /\ new \in WindowType /\ following(id) \in WindowId
  BY <1>5, <1>6, FollowingIs DEF SoundManager, Manager, WindowOK
<1>8. /\ wn \in Manager /\ wn.slots = [wm.slots EXCEPT ![slot] = new]
      /\ wn.next_id = following(id) /\ wn.capture = wm.capture
  BY <1>4, <1>7 DEF Manager, new
<1> HIDE DEF wn
<1>9. \A s \in Slots : wn.slots[s] = IF s = slot THEN new ELSE wm.slots[s]
  BY <1>7, <1>8
<1>10. id # WINDOW_ID_NONE
  BY <1>5 DEF WindowId, WINDOW_ID_NONE
<1>11. \A s \in Slots : wm.slots[s].id # id
  BY <1>5, <1>10 DEF known, slots_of
<1>12. LiveIds(wn) = LiveIds(wm) \cup {id}
  <2>1. \A x : x \in LiveIds(wn) <=> (x # WINDOW_ID_NONE /\ \E s \in Slots : wn.slots[s].id = x)
    BY DEF LiveIds
  <2>2. \A x : x \in LiveIds(wm) <=> (x # WINDOW_ID_NONE /\ \E s \in Slots : wm.slots[s].id = x)
    BY DEF LiveIds
  <2>3. ASSUME NEW x PROVE x \in LiveIds(wn) <=> (x \in LiveIds(wm) \/ x = id)
    <3>1. ASSUME x \in LiveIds(wn), x # id PROVE x \in LiveIds(wm)
      BY <1>6, <1>9, <2>1, <2>2, <3>1
    <3>2. ASSUME x \in LiveIds(wm) PROVE x \in LiveIds(wn)
      <4>1. PICK s \in Slots : wm.slots[s].id = x
        BY <2>2, <3>2
      <4>2. s # slot
        BY <1>4, <2>2, <3>2, <4>1
      <4> QED
        BY <1>9, <2>1, <2>2, <3>2, <4>1, <4>2
    <3>3. id \in LiveIds(wn)
      BY <1>4, <1>6, <1>9, <1>10, <2>1
    <3> QED
      BY <3>1, <3>2, <3>3
  <2> QED
    BY <2>3
<1>13. SoundManager(wn)
  <2>1. \A s \in Slots : WindowOK(wn.slots[s])
    BY <1>6, <1>9 DEF SoundManager
  <2>2. ASSUME NEW s \in Slots, NEW t \in Slots,
               wn.slots[s].id = wn.slots[t].id, wn.slots[s].id # WINDOW_ID_NONE
        PROVE  s = t
    <3>1. CASE s = slot \/ t = slot
      BY <1>6, <1>9, <1>11, <2>2, <3>1
    <3>2. CASE s # slot /\ t # slot
      BY <1>9, <2>2, <3>2 DEF SoundManager
    <3> QED
      BY <3>1, <3>2
  <2>3. \A s \in Slots : wn.slots[s].focused => s # slot /\ wm.slots[s].focused
    BY <1>6, <1>9
  <2>4. /\ \A s \in Slots : wn.slots[s].focused => wn.slots[s].id # WINDOW_ID_NONE
        /\ \A s, t \in Slots : (wn.slots[s].focused /\ wn.slots[t].focused) => s = t
    BY <1>9, <2>3 DEF SoundManager
  <2>5. wn.capture \in LiveIds(wn) \cup {WINDOW_ID_NONE}
    BY <1>8, <1>12 DEF SoundManager
  <2> QED
    BY <1>8, <2>1, <2>2, <2>4, <2>5 DEF SoundManager
<1>14. window_focused(wn) = window_focused(wm)
  <2>1. ~wm.slots[slot].focused
    BY <1>4 DEF SoundManager
  <2>2. \A s \in Slots : wn.slots[s].focused = wm.slots[s].focused
    <3>1. \A s \in Slots : wm.slots[s].focused \in BOOLEAN /\ wn.slots[s].focused \in BOOLEAN
      BY <1>7, <1>8 DEF Manager, WindowType
    <3> QED
      BY <1>6, <1>9, <2>1, <3>1
  <2>3. \A s \in Slots : wm.slots[s].focused => wn.slots[s].id = wm.slots[s].id
    BY <1>9, <2>1
  <2> QED
    BY <1>13, <2>2, <2>3, FocusStays
<1>15. Made(wm, geometry, made, slot)
  <2> HIDE DEF made
  <2> QED
    BY <1>2, <1>4, <1>5, <1>8, <1>12, <1>13, <1>14 DEF Made, id, new
<1> QED
  BY <1>15

\* window_destroy removes the one window and frees its slot.
LEMMA DestroyKeeps ==
  ASSUME NEW wm, SoundManager(wm), NEW id, known(wm, id)
  PROVE  /\ SoundManager(window_destroy(wm, id))
         /\ LiveIds(window_destroy(wm, id)) = LiveIds(wm) \ {id}
         /\ \A s \in Slots : window_destroy(wm, id).slots[s] =
              IF wm.slots[s].id = id THEN FreeSlot ELSE wm.slots[s]
<1> DEFINE slot == slot_for_id(wm, id)
           wn == window_destroy(wm, id)
<1>1. /\ slot \in Slots /\ wm.slots[slot].id = id /\ id # WINDOW_ID_NONE
      /\ \A s \in Slots : wm.slots[s].id = id => s = slot
  BY SlotForId
<1>2. wn = [wm EXCEPT !.slots[slot] = FreeSlot,
                      !.capture = IF @ = id THEN WINDOW_ID_NONE ELSE @]
  BY DEF window_destroy
<1>3. wm \in Manager /\ wm.slots \in [Slots -> WindowType] /\ FreeSlot \in WindowType
  BY FreeSlotOK DEF SoundManager, Manager, WindowOK
<1>4. /\ wn \in Manager /\ wn.slots = [wm.slots EXCEPT ![slot] = FreeSlot]
      /\ wn.capture = IF wm.capture = id THEN WINDOW_ID_NONE ELSE wm.capture
  <2> DEFINE held == IF wm.capture = id THEN WINDOW_ID_NONE ELSE wm.capture
             table == [wm.slots EXCEPT ![slot] = FreeSlot]
  <2>1. wn = [wm EXCEPT !.slots = table, !.capture = held]
    BY <1>2, <1>3 DEF Manager
  <2>2. held \in WindowId \cup {WINDOW_ID_NONE} /\ table \in [Slots -> WindowType]
    BY <1>3 DEF Manager
  <2> HIDE DEF held, table
  <2>3. wn \in Manager /\ wn.slots = table /\ wn.capture = held
    BY <1>3, <2>1, <2>2 DEF Manager
  <2> QED
    BY <2>3 DEF held, table
<1> HIDE DEF wn, slot
<1>5. \A s \in Slots : wn.slots[s] = IF s = slot THEN FreeSlot ELSE wm.slots[s]
  BY <1>3, <1>4
<1>6. \A s \in Slots : wn.slots[s] = IF wm.slots[s].id = id THEN FreeSlot ELSE wm.slots[s]
  BY <1>1, <1>5
<1>7. LiveIds(wn) = LiveIds(wm) \ {id}
  <2>1. \A x : x \in LiveIds(wn) <=> (x # WINDOW_ID_NONE /\ \E s \in Slots : wn.slots[s].id = x)
    BY DEF LiveIds
  <2>2. \A x : x \in LiveIds(wm) <=> (x # WINDOW_ID_NONE /\ \E s \in Slots : wm.slots[s].id = x)
    BY DEF LiveIds
  <2>3. \A x : x \in LiveIds(wn) <=> (x \in LiveIds(wm) /\ x # id)
    BY <1>6, <2>1, <2>2, FreeSlotOK
  <2> QED
    BY <2>3
<1>8. SoundManager(wn)
  <2>1. \A s \in Slots : WindowOK(wn.slots[s])
    BY <1>5, FreeSlotOK DEF SoundManager
  <2>2. \A s \in Slots : wn.slots[s].id # WINDOW_ID_NONE => wn.slots[s] = wm.slots[s]
    BY <1>5, FreeSlotOK
  <2>3. \A s \in Slots : wn.slots[s].focused => wn.slots[s] = wm.slots[s]
    BY <1>5, FreeSlotOK
  <2>4. \A s, t \in Slots :
          (wn.slots[s].id = wn.slots[t].id /\ wn.slots[s].id # WINDOW_ID_NONE) => s = t
    BY <2>2 DEF SoundManager
  <2>5. /\ \A s \in Slots : wn.slots[s].focused => wn.slots[s].id # WINDOW_ID_NONE
        /\ \A s, t \in Slots : (wn.slots[s].focused /\ wn.slots[t].focused) => s = t
    BY <2>3 DEF SoundManager
  <2>6. wn.capture \in LiveIds(wn) \cup {WINDOW_ID_NONE}
    BY <1>4, <1>7 DEF SoundManager
  <2> QED
    BY <1>4, <2>1, <2>4, <2>5, <2>6 DEF SoundManager
<1> QED
  BY <1>6, <1>7, <1>8 DEF wn


----------------------------------------------------------------------------
(* The entries of the desktop *)

AppIds(d) == {d.apps[i].id : i \in 1..Len(d.apps)}

\* A desktop of its type, whose entries and windows are the same, one for one.
DeskOK(d) ==
  /\ d \in DesktopType /\ Len(d.apps) <= DESKTOP_MAX_APPS
  /\ SoundManager(d.wm)
  /\ \A i, j \in 1..Len(d.apps) : d.apps[i].id = d.apps[j].id => i = j
  /\ LiveIds(d.wm) = AppIds(d)

\* The same windows in the same entries, wherever they now are.
Rearranged(d, e) ==
  /\ DeskOK(e) /\ Len(e.apps) = Len(d.apps)
  /\ \A i \in 1..Len(d.apps) : e.apps[i].id = d.apps[i].id

\* A desktop with the same windows and the same apps is the old one rearranged.
LEMMA Rearrange ==
  ASSUME NEW d, DeskOK(d), NEW e, e \in DesktopType, SoundManager(e.wm),
         \A s \in Slots : e.wm.slots[s].id = d.wm.slots[s].id,
         Len(e.apps) = Len(d.apps),
         \A i \in 1..Len(d.apps) : e.apps[i].id = d.apps[i].id
  PROVE  Rearranged(d, e)
<1>1. LiveIds(e.wm) = LiveIds(d.wm)
  BY DEF LiveIds
<1>2. AppIds(e) = AppIds(d)
  BY DEF AppIds
<1> QED
  BY <1>1, <1>2 DEF Rearranged, DeskOK

\* Rearranging twice is rearranging.
LEMMA RearrangedTwice ==
  ASSUME NEW d, NEW e, NEW f, Rearranged(d, e), Rearranged(e, f)
  PROVE  Rearranged(d, f)
BY DEF Rearranged

\* So is doing nothing.
LEMMA RearrangedSelf == ASSUME NEW d, DeskOK(d) PROVE Rearranged(d, d)
BY DEF Rearranged

\* Where an identifier is in the table.
Indexed(d) ==
  /\ \A i \in 1..Len(d.apps) : desktop_index_of(d, d.apps[i].id) = i
  /\ \A id : /\ desktop_index_of(d, id) \in 0..Len(d.apps)
             /\ desktop_index_of(d, id) # 0 =>
                  /\ desktop_index_of(d, id) \in 1..Len(d.apps)
                  /\ d.apps[desktop_index_of(d, id)].id = id
             /\ desktop_index_of(d, id) = 0 => \A i \in 1..Len(d.apps) : d.apps[i].id # id

\* desktop_index_of finds the app whose window it is asked for.
LEMMA IndexIs ==
  ASSUME NEW d, DeskOK(d)
  PROVE  Indexed(d)
<1>1. Len(d.apps) \in Nat
  BY DEF DeskOK, DesktopType
<1>2. ASSUME NEW id
      PROVE  \/ /\ desktop_index_of(d, id) = 0
                /\ \A i \in 1..Len(d.apps) : d.apps[i].id # id
             \/ /\ desktop_index_of(d, id) \in 1..Len(d.apps)
                /\ d.apps[desktop_index_of(d, id)].id = id
  <2> DEFINE hit == {i \in 1..Len(d.apps) : d.apps[i].id = id}
             first == CHOOSE i \in hit : \A j \in hit : i <= j
  <2>1. desktop_index_of(d, id) = IF hit = {} THEN 0 ELSE first
    BY DEF desktop_index_of
  <2>2. CASE hit = {}
    BY <2>1, <2>2
  <2>3. CASE hit # {}
    <3>1. hit \in SUBSET Nat
      BY <1>1
    <3>2. first \in hit
      <4> HIDE DEF hit
      <4>1. \E i \in hit : \A j \in hit : i <= j
        BY <2>3, <3>1, LeastNat
      <4> QED
        BY <4>1
    <3> HIDE DEF first
    <3> QED
      BY <2>1, <2>3, <3>2
  <2> QED
    BY <2>2, <2>3
<1>3. \A i \in 1..Len(d.apps) : desktop_index_of(d, d.apps[i].id) = i
  <2> TAKE i \in 1..Len(d.apps)
  <2>1. /\ desktop_index_of(d, d.apps[i].id) \in 1..Len(d.apps)
        /\ d.apps[desktop_index_of(d, d.apps[i].id)].id = d.apps[i].id
    BY <1>2
  <2> QED
    BY <2>1 DEF DeskOK
<1>4. ASSUME NEW id
      PROVE  /\ desktop_index_of(d, id) \in 0..Len(d.apps)
             /\ desktop_index_of(d, id) # 0 =>
                  /\ desktop_index_of(d, id) \in 1..Len(d.apps)
                  /\ d.apps[desktop_index_of(d, id)].id = id
             /\ desktop_index_of(d, id) = 0 => \A i \in 1..Len(d.apps) : d.apps[i].id # id
  <2> DEFINE x == desktop_index_of(d, id)
  <2>1. \/ x = 0 /\ \A i \in 1..Len(d.apps) : d.apps[i].id # id
        \/ x \in 1..Len(d.apps) /\ d.apps[x].id = id
    BY <1>2
  <2> HIDE DEF x
  <2>2. /\ x \in 0..Len(d.apps)
        /\ x # 0 => x \in 1..Len(d.apps) /\ d.apps[x].id = id
        /\ x = 0 => \A i \in 1..Len(d.apps) : d.apps[i].id # id
    BY <1>1, <2>1
  <2> QED
    BY <2>2 DEF x
<1> QED
  BY <1>3, <1>4 DEF Indexed

\* A window and its entry.
LEMMA EntryOf ==
  ASSUME NEW d, DeskOK(d), NEW s \in LiveSlots(d.wm)
  PROVE  /\ desktop_index_of(d, d.wm.slots[s].id) \in 1..Len(d.apps)
         /\ d.apps[desktop_index_of(d, d.wm.slots[s].id)].id = d.wm.slots[s].id
         /\ d.wm.slots[s].id # WINDOW_ID_NONE /\ s \in Slots
<1>1. s \in Slots /\ d.wm.slots[s].id # WINDOW_ID_NONE
  BY DEF LiveSlots
<1>2. d.wm.slots[s].id \in LiveIds(d.wm)
  BY <1>1 DEF LiveIds
<1>3. d.wm.slots[s].id \in AppIds(d)
  BY <1>2 DEF DeskOK
<1>4. PICK i \in 1..Len(d.apps) : d.apps[i].id = d.wm.slots[s].id
  BY <1>3 DEF AppIds
<1>5. desktop_index_of(d, d.wm.slots[s].id) = i
  BY <1>4, IndexIs DEF Indexed
<1> QED
  BY <1>1, <1>4, <1>5

\* The other way: an entry and its window.
LEMMA WindowOf ==
  ASSUME NEW d, DeskOK(d), NEW i \in 1..Len(d.apps)
  PROVE  /\ known(d.wm, d.apps[i].id) /\ d.apps[i].id # WINDOW_ID_NONE
         /\ d.apps[i].id \in WindowId
         /\ \E s \in LiveSlots(d.wm) : /\ d.wm.slots[s].id = d.apps[i].id
                                       /\ window_get(d.wm, d.apps[i].id) = d.wm.slots[s]
<1>1. d.apps[i].id \in AppIds(d)
  BY DEF AppIds
<1>2. d.apps[i].id \in LiveIds(d.wm)
  BY <1>1 DEF DeskOK
<1>3. known(d.wm, d.apps[i].id) /\ d.apps[i].id # WINDOW_ID_NONE
  BY <1>2, LiveKnown DEF LiveIds
<1>4. SoundManager(d.wm)
  BY DEF DeskOK
<1>5. /\ slot_for_id(d.wm, d.apps[i].id) \in Slots
      /\ d.wm.slots[slot_for_id(d.wm, d.apps[i].id)].id = d.apps[i].id
      /\ d.apps[i].id \in WindowId
  BY <1>3, <1>4, SlotForId
<1>6. slot_for_id(d.wm, d.apps[i].id) \in LiveSlots(d.wm)
  BY <1>3, <1>5 DEF LiveSlots
<1> QED
  BY <1>3, <1>5, <1>6 DEF window_get

\* A desktop on which nothing but the manager has changed, its windows where
\* they were.
OnlyManager(d, e) ==
  /\ Rearranged(d, e) /\ SameWindows(d.wm, e.wm)
  /\ e.apps = d.apps /\ e.workspace = d.workspace /\ e.percent = d.percent

\* A desktop whose table alone changed, its windows being the same ones.
LEMMA ManagerChanged ==
  ASSUME NEW d, DeskOK(d), NEW wn, SoundManager(wn), SameWindows(d.wm, wn)
  PROVE  /\ OnlyManager(d, [d EXCEPT !.wm = wn])
         /\ [d EXCEPT !.wm = wn].wm = wn
<1> DEFINE e == [d EXCEPT !.wm = wn]
<1>1. d \in DesktopType /\ wn \in Manager
  BY DEF DeskOK, SoundManager
<1>2. /\ e \in DesktopType /\ e.wm = wn /\ e.apps = d.apps
      /\ e.workspace = d.workspace /\ e.percent = d.percent
  BY <1>1 DEF DesktopType
<1> HIDE DEF e
<1>3. \A s \in Slots : e.wm.slots[s].id = d.wm.slots[s].id
  BY <1>2 DEF SameWindows, SameWindow
<1>4. Rearranged(d, e)
  BY <1>2, <1>3, Rearrange
<1>5. OnlyManager(d, e)
  BY <1>2, <1>4 DEF OnlyManager
<1> QED
  BY <1>2, <1>5 DEF e

\* What is on the screen is as it was.
SameScreen(d, e) ==
  /\ VisibleApps(e) = VisibleApps(d)
  /\ \A i : desktop_on_screen(e, i) <=> desktop_on_screen(d, i)
  /\ \A id : desktop_index_of(e, id) = desktop_index_of(d, id)

\* The same apps on the same workspace are on the screen.
LEMMA SameTableSameScreen ==
  ASSUME NEW d, NEW e, e.apps = d.apps, e.workspace = d.workspace
  PROVE  SameScreen(d, e)
<1>1. \A i : desktop_on_screen(e, i) <=> desktop_on_screen(d, i)
  BY DEF desktop_on_screen
<1>2. VisibleApps(e) = VisibleApps(d)
  BY <1>1 DEF VisibleApps
<1>3. \A id : desktop_index_of(e, id) = desktop_index_of(d, id)
  BY DEF desktop_index_of
<1> QED
  BY <1>1, <1>2, <1>3 DEF SameScreen

\* Each window has its part of the screen and its pixels.
Shared(d) == PixelsAreOwned(d) /\ TilesAreApart(d)

\* Where only queues and focus changed, the tiles are as they were.
LEMMA SharedStays ==
  ASSUME NEW d, NEW e, OnlyManager(d, e), Shared(d)
  PROVE  Shared(e)
<1>1. SameScreen(d, e)
  BY SameTableSameScreen DEF OnlyManager
<1>2. \A s \in Slots : SameWindow(d.wm.slots[s], e.wm.slots[s])
  BY DEF OnlyManager, SameWindows
<1>3. LiveSlots(e.wm) = LiveSlots(d.wm)
  BY <1>2 DEF LiveSlots, SameWindow
<1>4. \A s \in LiveSlots(d.wm) : SameWindow(d.wm.slots[s], e.wm.slots[s])
  BY <1>2 DEF LiveSlots
<1>5. e.apps = d.apps
  BY DEF OnlyManager
<1>6. PixelsAreOwned(e)
  <2>1. \A i, j \in 1..Len(e.apps) : i # j => SlicesApart(e.apps[i].frame, e.apps[j].frame)
    BY <1>5 DEF Shared, PixelsAreOwned
  <2>2. ASSUME NEW s \in LiveSlots(e.wm)
        PROVE  LET w == e.wm.slots[s]
               IN  /\ w.minimized <=> ~desktop_on_screen(e, desktop_index_of(e, w.id))
                   /\ w.minimized => w.surface = 0
                   /\ ~w.minimized =>
                        /\ w.surface = desktop_index_of(e, w.id)
                        /\ e.apps[w.surface].frame.width = w.geometry.width
                        /\ e.apps[w.surface].frame.height = w.geometry.height
    <3> DEFINE w == e.wm.slots[s]
               v == d.wm.slots[s]
    <3>1. w.id = v.id /\ w.geometry = v.geometry /\ w.minimized = v.minimized /\ w.surface = v.surface
      BY <1>3, <1>4, <2>2 DEF SameWindow
    <3>2. /\ v.minimized <=> ~desktop_on_screen(d, desktop_index_of(d, v.id))
          /\ v.minimized => v.surface = 0
          /\ ~v.minimized =>
               /\ v.surface = desktop_index_of(d, v.id)
               /\ d.apps[v.surface].frame.width = v.geometry.width
               /\ d.apps[v.surface].frame.height = v.geometry.height
      BY <1>3, <2>2 DEF Shared, PixelsAreOwned
    <3>3. /\ desktop_index_of(e, v.id) = desktop_index_of(d, v.id)
          /\ desktop_on_screen(e, desktop_index_of(d, v.id)) <=> desktop_on_screen(d, desktop_index_of(d, v.id))
      BY <1>1 DEF SameScreen
    <3> HIDE DEF w, v
    <3>4. /\ w.minimized <=> ~desktop_on_screen(e, desktop_index_of(e, w.id))
          /\ w.minimized => w.surface = 0
          /\ ~w.minimized =>
               /\ w.surface = desktop_index_of(e, w.id)
               /\ e.apps[w.surface].frame.width = w.geometry.width
               /\ e.apps[w.surface].frame.height = w.geometry.height
      BY <1>5, <3>1, <3>2, <3>3
    <3> QED
      BY <3>4 DEF w
  <2> QED
    BY <2>1, <2>2 DEF PixelsAreOwned
<1>7. TilesAreApart(e)
  BY <1>3, <1>4 DEF Shared, TilesAreApart, SameWindow
<1> QED
  BY <1>6, <1>7 DEF Shared

\* The place of an app in the layout.
LEMMA PlacesAre ==
  ASSUME NEW d, DeskOK(d)
  PROVE  /\ IsFiniteSet(VisibleApps(d)) /\ Cardinality(VisibleApps(d)) \in Nat
         /\ Cardinality(VisibleApps(d)) <= DESKTOP_MAX_APPS
         /\ Cardinality(VisibleApps(d)) = 0 <=> VisibleApps(d) = {}
         /\ \A i \in VisibleApps(d) : place_of(d, i) \in 1..Cardinality(VisibleApps(d))
         /\ \A i, j \in VisibleApps(d) : i < j => place_of(d, i) < place_of(d, j)
<1> DEFINE V == VisibleApps(d)
           upto(i) == {j \in V : j <= i}
<1>1. Len(d.apps) \in Nat /\ Len(d.apps) <= DESKTOP_MAX_APPS /\ DESKTOP_MAX_APPS \in Nat
  BY DesktopAssumption, WindowsAssumption DEF DeskOK, DesktopType
<1>2. V \subseteq 1..Len(d.apps)
  BY DEF VisibleApps
<1>3. IsFiniteSet(1..Len(d.apps)) /\ Cardinality(1..Len(d.apps)) = Len(d.apps)
  BY <1>1, FS_Interval
<1>4. IsFiniteSet(V) /\ Cardinality(V) <= Len(d.apps) /\ Cardinality(V) \in Nat
  BY <1>2, <1>3, FS_Subset, FS_CardinalityType
<1>5. Cardinality(V) = 0 <=> V = {}
  BY <1>4, FS_EmptySet
<1> HIDE DEF V
<1>6. ASSUME NEW i \in V
      PROVE  /\ IsFiniteSet(upto(i)) /\ Cardinality(upto(i)) \in 1..Cardinality(V)
  <2>1. upto(i) \subseteq V /\ i \in upto(i)
    BY <1>1, <1>2
  <2> HIDE DEF upto
  <2>2. IsFiniteSet(upto(i)) /\ Cardinality(upto(i)) <= Cardinality(V) /\ Cardinality(upto(i)) \in Nat
    BY <1>4, <2>1, FS_Subset, FS_CardinalityType
  <2>3. Cardinality(upto(i)) # 0
    BY <2>1, <2>2, FS_EmptySet
  <2> QED
    BY <1>4, <2>2, <2>3
<1>7. ASSUME NEW i \in V, NEW j \in V, i < j
      PROVE  Cardinality(upto(i)) < Cardinality(upto(j))
  <2>1. upto(i) \subseteq upto(j) /\ j \in upto(j) /\ j \notin upto(i)
    <3>1. \A x \in V : x \in Int
      BY <1>1, <1>2
    <3>2. i \in Int /\ j \in Int /\ j <= j /\ ~(j <= i)
      BY <1>7, <3>1
    <3>3. \A x \in V : x <= i => x <= j
      BY <1>7, <3>1, <3>2
    <3> QED
      BY <3>2, <3>3
  <2>2. IsFiniteSet(upto(j)) /\ IsFiniteSet(upto(i)) /\ Cardinality(upto(j)) \in Nat /\ Cardinality(upto(i)) \in Nat
    BY <1>6
  <2> HIDE DEF upto
  <2>3. upto(i) # upto(j)
    BY <2>1
  <2> QED
    BY <2>1, <2>2, <2>3, FS_Subset
<1>8. \A i : place_of(d, i) = Cardinality(upto(i))
  BY DEF place_of, V
<1>9. /\ \A i \in V : place_of(d, i) \in 1..Cardinality(V)
      /\ \A i, j \in V : i < j => place_of(d, i) < place_of(d, j)
  BY <1>6, <1>7, <1>8
<1>10. Cardinality(V) <= DESKTOP_MAX_APPS
  BY <1>1, <1>4
<1> QED
  BY <1>4, <1>5, <1>9, <1>10 DEF V


----------------------------------------------------------------------------
(* The layout *)

FrameType == [start : Nat, width : Nat, height : Nat]

\* A tile for each app on the screen.
Tiled(d, tiles) == VisibleApps(d) # {} => Layout(tiles, Cardinality(VisibleApps(d)))

\* The apps on the screen are those the layout counts.
LEMMA OnScreenIsVisible ==
  ASSUME NEW d, NEW i
  PROVE  desktop_on_screen(d, i) <=> i \in VisibleApps(d)
BY DEF VisibleApps, desktop_on_screen

\* An app that is on the screen, its place, tile and frame.
Placed(d, tiles, i, k) ==
  /\ k \in 1..Cardinality(VisibleApps(d)) /\ place_of(d, i) = k
  /\ tiles[k] \in GeometryType /\ tiles[k].width > 0 /\ tiles[k].height > 0
  /\ Within(tiles[k], tile_workspace(Screen))
  /\ frame_given(d, i, tiles)
       = [start |-> taken(tiles)[k - 1], width |-> tiles[k].width, height |-> tiles[k].height]
  /\ frame_given(d, i, tiles) \in FrameType

\* An app on the screen has its tile, and the arena's place for it.
LEMMA FrameGiven ==
  ASSUME NEW d, DeskOK(d), NEW tiles, Tiled(d, tiles), NEW i, desktop_on_screen(d, i)
  PROVE  Placed(d, tiles, i, place_of(d, i))
<1> DEFINE n == Cardinality(VisibleApps(d))
           k == place_of(d, i)
<1>1. i \in VisibleApps(d)
  BY OnScreenIsVisible
<1>2. n \in Nat /\ k \in 1..n
  BY <1>1, PlacesAre
<1>3. Layout(tiles, n)
  BY <1>1 DEF Tiled
<1>4. tiles \in [1..n -> GeometryType]
  BY <1>3 DEF Layout
<1>5. Sums(taken(tiles), tiles, n)
  BY <1>2, <1>4, TakenIs
<1>6. frame_given(d, i, tiles)
        = [start |-> taken(tiles)[k - 1], width |-> tiles[k].width, height |-> tiles[k].height]
  BY DEF frame_given, frame_of
<1> HIDE DEF n, k
<1>7. k - 1 \in 0..n /\ taken(tiles)[k - 1] \in Nat
  BY <1>2, <1>5 DEF Sums
<1>8. /\ tiles[k] \in GeometryType /\ tiles[k].width > 0 /\ tiles[k].height > 0
      /\ Within(tiles[k], tile_workspace(Screen))
  BY <1>2, <1>3, <1>4 DEF Layout
<1>9. frame_given(d, i, tiles) \in FrameType
  BY <1>6, <1>7, <1>8 DEF FrameType, GeometryType
<1> QED
  BY <1>2, <1>6, <1>8, <1>9 DEF Placed, n, k

\* The surface an app is given is typed.
LEMMA FrameTyped ==
  ASSUME NEW d, DeskOK(d), NEW tiles, Tiled(d, tiles), NEW i
  PROVE  frame_given(d, i, tiles) \in FrameType
<1>1. CASE desktop_on_screen(d, i)
  BY <1>1, FrameGiven DEF Placed
<1>2. CASE ~desktop_on_screen(d, i)
  BY <1>2 DEF frame_given, surface_none, FrameType
<1> QED
  BY <1>1, <1>2

\* Two apps are never given the same part of the arena.
LEMMA FramesApart ==
  ASSUME NEW d, DeskOK(d), NEW tiles, Tiled(d, tiles),
         NEW i \in 1..Len(d.apps), NEW j \in 1..Len(d.apps), i # j
  PROVE  SlicesApart(frame_given(d, i, tiles), frame_given(d, j, tiles))
<1>1. Pixels(surface_none) = 0
  BY DEF Pixels, surface_none
<1>2. CASE ~desktop_on_screen(d, i) \/ ~desktop_on_screen(d, j)
  BY <1>1, <1>2 DEF frame_given, SlicesApart
<1>3. ASSUME NEW a \in 1..Len(d.apps), NEW b \in 1..Len(d.apps), a < b,
             desktop_on_screen(d, a), desktop_on_screen(d, b)
      PROVE  frame_given(d, a, tiles).start + Pixels(frame_given(d, a, tiles))
               <= frame_given(d, b, tiles).start
  <2> DEFINE n == Cardinality(VisibleApps(d))
             k == place_of(d, a)
             l == place_of(d, b)
             f == frame_given(d, a, tiles)
             g == frame_given(d, b, tiles)
             sum == taken(tiles)
  <2>1. a \in VisibleApps(d) /\ b \in VisibleApps(d)
    BY <1>3, OnScreenIsVisible
  <2>2. n \in Nat /\ k \in 1..n /\ l \in 1..n /\ k < l
    BY <1>3, <2>1, PlacesAre
  <2>3. tiles \in [1..n -> GeometryType]
    BY <2>1 DEF Tiled, Layout
  <2>4. Sums(sum, tiles, n)
    BY <2>2, <2>3, TakenIs
  <2>5. /\ f = [start |-> sum[k - 1], width |-> tiles[k].width, height |-> tiles[k].height]
        /\ g = [start |-> sum[l - 1], width |-> tiles[l].width, height |-> tiles[l].height]
    BY <1>3, FrameGiven DEF Placed
  <2> HIDE DEF n, k, l, f, g, sum
  <2>6. Pixels(f) = Pixels(tiles[k])
    BY <2>5 DEF Pixels
  <2>7. sum[k] = sum[k - 1] + Pixels(tiles[k])
    BY <2>2, <2>4 DEF Sums
  <2>8. k \in 0..n /\ l - 1 \in 0..n /\ k <= l - 1
    BY <2>2
  <2>9. sum[k] <= sum[l - 1]
    BY <2>2, <2>4, <2>8, SumsRise
  <2>10. f.start + Pixels(f) <= g.start
    BY <2>5, <2>6, <2>7, <2>9
  <2> QED
    BY <2>10 DEF f, g
<1>4. CASE desktop_on_screen(d, i) /\ desktop_on_screen(d, j)
  <2>1. Len(d.apps) \in Nat
    BY DEF DeskOK, DesktopType
  <2>2. i < j \/ j < i
    BY <2>1
  <2>3. CASE i < j
    BY <1>3, <1>4, <2>3 DEF SlicesApart
  <2>4. CASE j < i
    BY <1>3, <1>4, <2>4 DEF SlicesApart
  <2> QED
    BY <2>2, <2>3, <2>4
<1> QED
  BY <1>2, <1>4

\* A window of the desktop after the layout.
WindowPlaced(d, w, v, tiles) ==
  /\ WindowOK(v) /\ v.id = w.id /\ v.focused = w.focused /\ v.events = w.events
  /\ LET i == desktop_index_of(d, w.id)
     IN  /\ desktop_on_screen(d, i) =>
              ~v.minimized /\ v.surface = i /\ v.geometry = tiles[place_of(d, i)]
         /\ ~desktop_on_screen(d, i) => v.minimized /\ v.surface = 0

\* What the layout makes of one window.
LEMMA WindowLaidOut ==
  ASSUME NEW d, DeskOK(d), NEW tiles, Tiled(d, tiles), NEW s \in LiveSlots(d.wm)
  PROVE  WindowPlaced(d, d.wm.slots[s], window_laid_out(d, d.wm.slots[s], tiles), tiles)
<1> DEFINE w == d.wm.slots[s]
           i == desktop_index_of(d, w.id)
           v == window_laid_out(d, w, tiles)
<1>1. i \in 1..Len(d.apps) /\ w.id # WINDOW_ID_NONE /\ s \in Slots
  BY EntryOf
<1>2. WindowOK(w) /\ w \in WindowType
  BY <1>1 DEF DeskOK, SoundManager, WindowOK
<1>3. i \in Nat
  BY <1>1 DEF DeskOK, DesktopType
<1>4. CASE desktop_on_screen(d, i)
  <2> DEFINE g == tiles[place_of(d, i)]
  <2>1. g \in GeometryType
    BY <1>4, FrameGiven DEF Placed
  <2>2. v = [w EXCEPT !.geometry = g, !.minimized = FALSE, !.surface = i]
    BY <1>1, <1>4 DEF window_laid_out
  <2> HIDE DEF g, v, w, i
  <2>3. /\ v \in WindowType /\ v.id = w.id /\ v.focused = w.focused /\ v.events = w.events
        /\ ~v.minimized /\ v.surface = i /\ v.geometry = g
    BY <1>2, <1>3, <2>1, <2>2 DEF WindowType, GeometryType
  <2> QED
    BY <1>2, <1>4, <2>3 DEF WindowPlaced, WindowOK, g, i, v, w
<1>5. CASE ~desktop_on_screen(d, i)
  <2>1. v = [w EXCEPT !.geometry = area_none, !.minimized = TRUE, !.surface = 0]
    BY <1>1, <1>5 DEF window_laid_out
  <2>2. area_none \in GeometryType
    BY DEF area_none, Area, GeometryType
  <2> HIDE DEF v, w, i
  <2>3. /\ v \in WindowType /\ v.id = w.id /\ v.focused = w.focused /\ v.events = w.events
        /\ v.minimized /\ v.surface = 0
    BY <1>2, <2>1, <2>2 DEF WindowType, GeometryType
  <2> QED
    BY <1>2, <1>5, <2>3 DEF WindowPlaced, WindowOK, i, v, w
<1> QED
  BY <1>4, <1>5

\* The desktop after the layout, its entries but for their frames as they were.
OnlyLaidOut(d, e) ==
  /\ Rearranged(d, e) /\ SameScreen(d, e)
  /\ e.workspace = d.workspace /\ e.percent = d.percent
  /\ \A i \in 1..Len(d.apps) : /\ e.apps[i].id = d.apps[i].id
                               /\ e.apps[i].hidden = d.apps[i].hidden
                               /\ e.apps[i].workspace = d.apps[i].workspace
  /\ window_focused(e.wm) = window_focused(d.wm) /\ e.wm.capture = d.wm.capture
  /\ \A s \in Slots : /\ e.wm.slots[s].events = d.wm.slots[s].events
                      /\ e.wm.slots[s].id = d.wm.slots[s].id

\* What it makes of the desktop: every window on its tile, none overlapping.
LEMMA LaysOut ==
  ASSUME NEW d, DeskOK(d), NEW tiles, Tiled(d, tiles)
  PROVE  OnlyLaidOut(d, laid_out(d, tiles)) /\ Shared(laid_out(d, tiles))
<1> DEFINE e == laid_out(d, tiles)
           table == [s \in Slots |-> window_laid_out(d, d.wm.slots[s], tiles)]
           wn == [d.wm EXCEPT !.slots = table]
           entry(i) == [d.apps[i] EXCEPT !.frame = frame_given(d, i, tiles)]
           entries == [i \in DOMAIN d.apps |-> entry(i)]
<1>1. /\ d \in DesktopType /\ d.wm \in Manager /\ d.apps \in Seq(AppType)
      /\ SoundManager(d.wm) /\ Len(d.apps) \in Nat /\ DOMAIN d.apps = 1..Len(d.apps)
  BY DEF DeskOK, DesktopType
<1>2. e = [d EXCEPT !.wm = wn, !.apps = entries]
  BY <1>1 DEF laid_out, DesktopType
<1>3. ASSUME NEW i \in 1..Len(d.apps)
      PROVE  /\ entry(i) \in AppType /\ entry(i).id = d.apps[i].id
             /\ entry(i).hidden = d.apps[i].hidden /\ entry(i).workspace = d.apps[i].workspace
             /\ entry(i).frame = frame_given(d, i, tiles)
  <2> DEFINE a == d.apps[i]
             f == frame_given(d, i, tiles)
  <2>1. a \in AppType /\ f \in FrameType
    BY <1>1, FrameTyped
  <2> HIDE DEF a, f
  <2>2. LET b == [a EXCEPT !.frame = f]
        IN  /\ b \in AppType /\ b.id = a.id /\ b.hidden = a.hidden
            /\ b.workspace = a.workspace /\ b.frame = f
    BY <2>1 DEF AppType, FrameType
  <2> QED
    BY <2>2 DEF a, f
<1>4. \A i \in 1..Len(d.apps) : entries[i] = entry(i)
  BY <1>1
<1>5. entries \in Seq(AppType) /\ Len(entries) = Len(d.apps)
  <2>1. entries \in [1..Len(d.apps) -> AppType]
    BY <1>1, <1>3
  <2> HIDE DEF entries
  <2> QED
    BY <1>1, <2>1, FunctionIsSeq
<1>6. ASSUME NEW s \in LiveSlots(d.wm)
      PROVE  WindowPlaced(d, d.wm.slots[s], table[s], tiles) /\ s \in Slots
  <2>1. s \in Slots
    BY DEF LiveSlots
  <2> QED
    BY <2>1, WindowLaidOut
<1>7. ASSUME NEW s \in Slots, s \notin LiveSlots(d.wm) PROVE table[s] = d.wm.slots[s]
  <2>1. d.wm.slots[s].id = WINDOW_ID_NONE
    BY <1>7 DEF LiveSlots
  <2>2. window_laid_out(d, d.wm.slots[s], tiles) = d.wm.slots[s]
    BY <2>1 DEF window_laid_out
  <2> QED
    BY <2>2
<1>8. ASSUME NEW s \in Slots
      PROVE  /\ WindowOK(table[s]) /\ table[s].id = d.wm.slots[s].id
             /\ table[s].focused = d.wm.slots[s].focused
             /\ table[s].events = d.wm.slots[s].events
  <2>1. WindowOK(d.wm.slots[s])
    BY <1>1 DEF SoundManager
  <2> HIDE DEF table
  <2> QED
    BY <1>6, <1>7, <2>1 DEF WindowPlaced
<1>9. table \in [Slots -> WindowType]
  <2>1. \A s \in Slots : table[s] \in WindowType
    BY <1>8 DEF WindowOK
  <2> QED
    BY <2>1
<1> HIDE DEF table, entries, entry
<1>10. wn \in Manager /\ wn.slots = table /\ wn.capture = d.wm.capture
  BY <1>1, <1>9 DEF Manager
<1> HIDE DEF wn
<1>11. /\ e \in DesktopType /\ e.wm = wn /\ e.apps = entries
       /\ e.workspace = d.workspace /\ e.percent = d.percent
  BY <1>1, <1>2, <1>5, <1>10 DEF DesktopType
<1> HIDE DEF e
<1>12. LiveIds(wn) = LiveIds(d.wm) /\ LiveSlots(wn) = LiveSlots(d.wm)
  BY <1>8, <1>10 DEF LiveIds, LiveSlots
<1>13. SoundManager(wn)
  <2>1. \A s \in Slots : /\ WindowOK(wn.slots[s]) /\ wn.slots[s].id = d.wm.slots[s].id
                         /\ wn.slots[s].focused = d.wm.slots[s].focused
    BY <1>8, <1>10
  <2> QED
    BY <1>1, <1>10, <1>12, <2>1 DEF SoundManager
<1>14. window_focused(wn) = window_focused(d.wm)
  <2>1. \A s \in Slots : wn.slots[s].focused = d.wm.slots[s].focused
    BY <1>8, <1>10
  <2>2. \A s \in Slots : d.wm.slots[s].focused => wn.slots[s].id = d.wm.slots[s].id
    BY <1>8, <1>10
  <2> QED
    BY <1>1, <1>13, <2>1, <2>2, FocusStays
<1>15. Rearranged(d, e)
  <2>1. \A s \in Slots : e.wm.slots[s].id = d.wm.slots[s].id
    BY <1>8, <1>10, <1>11
  <2>2. Len(e.apps) = Len(d.apps) /\ \A i \in 1..Len(d.apps) : e.apps[i].id = d.apps[i].id
    BY <1>3, <1>4, <1>5, <1>11
  <2> QED
    BY <1>11, <1>13, <2>1, <2>2, Rearrange
<1>16. \A i \in 1..Len(d.apps) : /\ e.apps[i].id = d.apps[i].id
                                 /\ e.apps[i].hidden = d.apps[i].hidden
                                 /\ e.apps[i].workspace = d.apps[i].workspace
                                 /\ e.apps[i].frame = frame_given(d, i, tiles)
  BY <1>3, <1>4, <1>11
<1>17. Len(e.apps) = Len(d.apps)
  BY <1>5, <1>11
<1>18. SameScreen(d, e)
  <2>1. \A i : desktop_on_screen(e, i) <=> desktop_on_screen(d, i)
    BY <1>11, <1>16, <1>17 DEF desktop_on_screen
  <2>2. VisibleApps(e) = VisibleApps(d)
    BY <1>17, <2>1 DEF VisibleApps
  <2>3. \A id : desktop_index_of(e, id) = desktop_index_of(d, id)
    <3> TAKE id
    <3> DEFINE first(hit) == IF hit = {} THEN 0 ELSE CHOOSE i \in hit : \A j \in hit : i <= j
               after == {i \in 1..Len(e.apps) : e.apps[i].id = id}
               before == {i \in 1..Len(d.apps) : d.apps[i].id = id}
    <3>1. after = before
      BY <1>16, <1>17
    <3>2. desktop_index_of(e, id) = first(after) /\ desktop_index_of(d, id) = first(before)
      BY DEF desktop_index_of
    <3> HIDE DEF first, after, before
    <3> QED
      BY <3>1, <3>2
  <2> QED
    BY <2>1, <2>2, <2>3 DEF SameScreen
<1>19. OnlyLaidOut(d, e)
  BY <1>8, <1>10, <1>11, <1>14, <1>15, <1>16, <1>18 DEF OnlyLaidOut
<1>20. PixelsAreOwned(e)
  <2>1. \A i, j \in 1..Len(e.apps) : i # j => SlicesApart(e.apps[i].frame, e.apps[j].frame)
    BY <1>16, <1>17, FramesApart
  <2>2. ASSUME NEW s \in LiveSlots(e.wm)
        PROVE  LET w == e.wm.slots[s]
               IN  /\ w.minimized <=> ~desktop_on_screen(e, desktop_index_of(e, w.id))
                   /\ w.minimized => w.surface = 0
                   /\ ~w.minimized =>
                        /\ w.surface = desktop_index_of(e, w.id)
                        /\ e.apps[w.surface].frame.width = w.geometry.width
                        /\ e.apps[w.surface].frame.height = w.geometry.height
    <3> DEFINE w == e.wm.slots[s]
               i == desktop_index_of(d, d.wm.slots[s].id)
    <3>1. s \in LiveSlots(d.wm) /\ WindowPlaced(d, d.wm.slots[s], w, tiles)
      BY <1>6, <1>10, <1>11, <1>12, <2>2
    <3>2. /\ w.id = d.wm.slots[s].id
          /\ desktop_on_screen(d, i) =>
               ~w.minimized /\ w.surface = i /\ w.geometry = tiles[place_of(d, i)]
          /\ ~desktop_on_screen(d, i) => w.minimized /\ w.surface = 0
      BY <3>1 DEF WindowPlaced
    <3>3. i \in 1..Len(d.apps)
      BY <3>1, EntryOf
    <3> HIDE DEF w, i
    <3>4. desktop_index_of(e, w.id) = i
      BY <1>18, <3>2 DEF SameScreen, i
    <3>5. desktop_on_screen(e, i) <=> desktop_on_screen(d, i)
      BY <1>18 DEF SameScreen
    <3>6. ASSUME desktop_on_screen(d, i)
          PROVE  /\ e.apps[i].frame.width = tiles[place_of(d, i)].width
                 /\ e.apps[i].frame.height = tiles[place_of(d, i)].height
      <4>1. frame_given(d, i, tiles) = [start |-> taken(tiles)[place_of(d, i) - 1],
                                        width |-> tiles[place_of(d, i)].width,
                                        height |-> tiles[place_of(d, i)].height]
        BY <3>6, FrameGiven DEF Placed
      <4> QED
        BY <1>16, <3>3, <4>1
    <3>7. /\ w.minimized <=> ~desktop_on_screen(e, desktop_index_of(e, w.id))
          /\ w.minimized => w.surface = 0
          /\ ~w.minimized =>
               /\ w.surface = desktop_index_of(e, w.id)
               /\ e.apps[w.surface].frame.width = w.geometry.width
               /\ e.apps[w.surface].frame.height = w.geometry.height
      <4>1. CASE desktop_on_screen(d, i)
        BY <3>2, <3>4, <3>5, <3>6, <4>1
      <4>2. CASE ~desktop_on_screen(d, i)
        BY <3>2, <3>4, <3>5, <4>2
      <4> QED
        BY <4>1, <4>2
    <3> QED
      BY <3>7 DEF w
  <2> QED
    BY <2>1, <2>2 DEF PixelsAreOwned
<1>21. TilesAreApart(e)
  <2> DEFINE w(s) == e.wm.slots[s]
             i(s) == desktop_index_of(d, d.wm.slots[s].id)
             k(s) == place_of(d, i(s))
             n == Cardinality(VisibleApps(d))
  <2>1. ASSUME NEW s \in LiveSlots(e.wm), ~w(s).minimized
        PROVE  /\ i(s) \in VisibleApps(d) /\ w(s).geometry = tiles[k(s)]
               /\ k(s) \in 1..n
               /\ Within(tiles[k(s)], tile_workspace(Screen))
               /\ i(s) \in 1..Len(d.apps) /\ d.apps[i(s)].id = d.wm.slots[s].id
    <3>1. s \in LiveSlots(d.wm) /\ WindowPlaced(d, d.wm.slots[s], w(s), tiles)
      BY <1>6, <1>10, <1>11, <1>12, <2>1
    <3>2. desktop_on_screen(d, i(s)) /\ w(s).geometry = tiles[k(s)]
      BY <2>1, <3>1 DEF WindowPlaced
    <3>3. i(s) \in VisibleApps(d)
      BY <3>2, OnScreenIsVisible
    <3>4. k(s) \in 1..n /\ Within(tiles[k(s)], tile_workspace(Screen))
      BY <3>2, FrameGiven DEF Placed
    <3>5. i(s) \in 1..Len(d.apps) /\ d.apps[i(s)].id = d.wm.slots[s].id
      BY <3>1, EntryOf
    <3> QED
      BY <3>2, <3>3, <3>4, <3>5
  <2>2. ASSUME NEW s \in LiveSlots(e.wm), ~w(s).minimized,
               NEW t \in LiveSlots(e.wm), ~w(t).minimized, s # t
        PROVE  Apart(w(s).geometry, w(t).geometry)
    <3>1. s \in Slots /\ t \in Slots /\ d.wm.slots[s].id # WINDOW_ID_NONE
      BY <1>11, <1>12 DEF LiveSlots
    <3>2. d.wm.slots[s].id # d.wm.slots[t].id
      BY <1>1, <2>2, <3>1 DEF SoundManager
    <3>3. i(s) # i(t)
      BY <2>1, <2>2, <3>2
    <3>4. i(s) \in VisibleApps(d) /\ i(t) \in VisibleApps(d)
      BY <2>1, <2>2
    <3>5. k(s) # k(t)
      <4>1. i(s) \in 1..Len(d.apps) /\ i(t) \in 1..Len(d.apps)
        BY <2>1, <2>2
      <4>2. i(s) < i(t) \/ i(t) < i(s)
        BY <1>1, <3>3, <4>1
      <4>3. k(s) < k(t) \/ k(t) < k(s)
        BY <3>4, <4>2, PlacesAre
      <4>4. k(s) \in 1..n /\ k(t) \in 1..n /\ n \in Nat
        BY <2>1, <2>2, PlacesAre
      <4> HIDE DEF k, i
      <4> QED
        BY <4>3, <4>4
    <3>6. Layout(tiles, n)
      BY <3>4 DEF Tiled
    <3>7. k(s) \in 1..n /\ k(t) \in 1..n /\ w(s).geometry = tiles[k(s)] /\ w(t).geometry = tiles[k(t)]
      BY <2>1, <2>2
    <3> HIDE DEF w, k, n
    <3> QED
      BY <3>5, <3>6, <3>7 DEF Layout
  <2> QED
    BY <2>1, <2>2 DEF TilesAreApart
<1> QED
  BY <1>19, <1>20, <1>21 DEF Shared, e


----------------------------------------------------------------------------
(* Presses and releases *)

Ups(events) == {i \in DOMAIN events : events[i] = "UP"}
Downs(events) == {i \in DOMAIN events : events[i] = "DOWN"}

\* No window heard a press or a release, and the pointer is whose it was.
Hushed(w, v) == v.id = w.id /\ Ups(v.events) = Ups(w.events) /\ Downs(v.events) = Downs(w.events)
Calm(wm, wn) ==
  wn.capture = wm.capture /\ \A s \in Slots : Hushed(wm.slots[s], wn.slots[s])

\* Two steps that bring no button's event bring none.
LEMMA CalmTwice ==
  ASSUME NEW wm, NEW wn, NEW wo, Calm(wm, wn), Calm(wn, wo)
  PROVE  Calm(wm, wo)
BY DEF Calm, Hushed

\* Nor does doing nothing.
LEMMA CalmSelf == ASSUME NEW wm PROVE Calm(wm, wm)
BY DEF Calm, Hushed

\* An event that is not a button's brings no button's event.
LEMMA PushHushed ==
  ASSUME NEW w, WindowOK(w), NEW event, event \notin {"UP", "DOWN"}
  PROVE  Hushed(w, window_event_push(w, event))
<1> DEFINE e == IF <<w.id, event>> \in Listens THEN event ELSE "OTHER"
           v == [w EXCEPT !.events = Append(@, e)]
           old == w.events
           new == v.events
<1>1. w \in WindowType /\ old \in Seq(EventTypes) /\ e \notin {"UP", "DOWN"}
  BY DEF WindowOK, WindowType
<1>2. CASE Len(w.events) >= WINDOW_EVENT_CAPACITY \/ w.id \notin Listeners
  BY <1>2 DEF window_event_push, Hushed
<1>3. CASE ~(Len(w.events) >= WINDOW_EVENT_CAPACITY \/ w.id \notin Listeners)
  <2>1. window_event_push(w, event) = v
    BY <1>3 DEF window_event_push
  <2> HIDE DEF e
  <2>2. new = Append(old, e)
    BY <1>1 DEF WindowType
  <2> HIDE DEF v, old, new
  <2>3. /\ DOMAIN new = 1..(Len(old) + 1) /\ DOMAIN old = 1..Len(old) /\ Len(old) \in Nat
        /\ new[Len(old) + 1] = e /\ \A i \in 1..Len(old) : new[i] = old[i]
    BY <1>1, <2>2
  <2>4. Ups(new) = Ups(old) /\ Downs(new) = Downs(old)
    BY <1>1, <2>3 DEF Ups, Downs
  <2>5. v.id = w.id
    BY <1>1 DEF WindowType, v
  <2> QED
    BY <2>1, <2>4, <2>5 DEF Hushed, new, old
<1> QED
  BY <1>2, <1>3

\* Nor does a change of one window that brings it none.
LEMMA SetHushed ==
  ASSUME NEW wm, SoundManager(wm), NEW id, known(wm, id), NEW v,
         Hushed(window_get(wm, id), v)
  PROVE  Calm(wm, set_window(wm, id, v))
<1> DEFINE slot == slot_for_id(wm, id)
           wn == set_window(wm, id, v)
<1>1. slot \in Slots /\ window_get(wm, id) = wm.slots[slot]
  BY SlotForId DEF window_get
<1>2. wm \in Manager
  BY DEF SoundManager
<1>3. wn = [wm EXCEPT !.slots[slot] = v]
  BY DEF set_window
<1> HIDE DEF slot, wn
<1>4. wn.capture = wm.capture /\ wn.slots = [wm.slots EXCEPT ![slot] = v]
  BY <1>2, <1>3 DEF Manager
<1>5. \A s \in Slots : wn.slots[s] = IF s = slot THEN v ELSE wm.slots[s]
  BY <1>2, <1>4 DEF Manager
<1>6. \A s \in Slots : Hushed(wm.slots[s], wn.slots[s])
  BY <1>1, <1>5 DEF Hushed
<1> QED
  BY <1>4, <1>6 DEF Calm, wn

\* Nor does the word of a change of focus.
LEMMA FocusedHushed ==
  ASSUME NEW w, WindowOK(w), NEW b \in BOOLEAN
  PROVE  Hushed(w, window_event_push([w EXCEPT !.focused = b], "OTHER"))
<1> DEFINE u == [w EXCEPT !.focused = b]
<1>1. WindowOK(u) /\ u.events = w.events
  BY DEF WindowOK, WindowType
<1> HIDE DEF u
<1>2. Hushed(u, window_event_push(u, "OTHER"))
  BY <1>1, PushHushed
<1> QED
  BY <1>1, <1>2 DEF Hushed, u

\* Nor does taking the keyboard away.
LEMMA UnfocusedCalm ==
  ASSUME NEW wm, SoundManager(wm), NEW old
  PROVE  Calm(wm, unfocused(wm, old))
<1>1. CASE ~known(wm, old)
  BY <1>1, CalmSelf DEF unfocused
<1>2. CASE known(wm, old)
  <2>1. WindowOK(window_get(wm, old))
    BY <1>2, SlotForId
  <2>2. Hushed(window_get(wm, old),
               window_event_push([window_get(wm, old) EXCEPT !.focused = FALSE], "OTHER"))
    BY <2>1, FocusedHushed
  <2> QED
    BY <1>2, <2>2, SetHushed DEF unfocused
<1> QED
  BY <1>1, <1>2

\* Nor does giving it.
LEMMA FocusCalm ==
  ASSUME NEW wm, SoundManager(wm), NEW id
  PROVE  Calm(wm, window_focus(wm, id))
<1> DEFINE old == window_focused(wm)
           mid == unfocused(wm, old)
<1>1. Calm(wm, mid)
  BY UnfocusedCalm
<1>2. CASE ~(id # WINDOW_ID_NONE /\ (~known(wm, id) \/ window_get(wm, id).minimized))
           /\ id # old /\ id # WINDOW_ID_NONE
  <2>1. window_focus(wm, id) = focused_on(mid, id)
    BY <1>2 DEF window_focus
  <2>2. SoundManager(mid) /\ SameWindows(wm, mid)
    BY UnfocusedKeeps
  <2> HIDE DEF mid
  <2>3. known(mid, id)
    BY <1>2, <2>2 DEF known, slots_of, SameWindows, SameWindow
  <2>4. WindowOK(window_get(mid, id))
    BY <2>2, <2>3, SlotForId
  <2>5. Hushed(window_get(mid, id),
               window_event_push([window_get(mid, id) EXCEPT !.focused = TRUE], "OTHER"))
    BY <2>4, FocusedHushed
  <2>6. Calm(mid, focused_on(mid, id))
    BY <2>2, <2>3, <2>5, SetHushed DEF focused_on
  <2> QED
    BY <1>1, <2>1, <2>6, CalmTwice
<1>3. CASE (id # WINDOW_ID_NONE /\ (~known(wm, id) \/ window_get(wm, id).minimized))
           \/ id = old \/ id = WINDOW_ID_NONE
  <2>1. window_focus(wm, id) = wm \/ window_focus(wm, id) = mid
    <3> HIDE DEF mid
    <3>1. CASE id # WINDOW_ID_NONE /\ (~known(wm, id) \/ window_get(wm, id).minimized)
      <4>1. CASE id = old
        BY <3>1, <4>1 DEF window_focus
      <4>2. CASE id # old
        BY <3>1, <4>2 DEF window_focus
      <4> QED
        BY <4>1, <4>2
    <3>2. CASE ~(id # WINDOW_ID_NONE /\ (~known(wm, id) \/ window_get(wm, id).minimized))
      <4>1. CASE id = old /\ id # WINDOW_ID_NONE
        BY <3>2, <4>1 DEF window_focus
      <4>2. CASE id # old /\ id = WINDOW_ID_NONE
        BY <3>2, <4>2 DEF window_focus, mid
      <4>3. CASE id = old /\ id = WINDOW_ID_NONE
        <5>1. ~known(wm, old)
          BY <4>3 DEF known, slots_of
        <5>2. mid = wm
          BY <5>1 DEF mid, unfocused
        <5> QED
          BY <3>2, <4>3, <5>2 DEF window_focus, mid
      <4> QED
        BY <1>3, <3>2, <4>1, <4>2, <4>3
    <3> QED
      BY <3>1, <3>2
  <2> QED
    BY <1>1, <2>1, CalmSelf
<1> QED
  BY <1>2, <1>3

----------------------------------------------------------------------------
(* The keyboard and the screen *)

\* With something on the screen, the keyboard's window is there.
FocusShown(d) ==
  (VisibleApps(d) # {} /\ window_focused(d.wm) # WINDOW_ID_NONE)
    => desktop_on_screen(d, desktop_index_of(d, window_focused(d.wm)))

Settled(d) == Shared(d) /\ FocusShown(d)

\* Where the screen is shared out, a window is minimised unless its app is on the
\* screen.
LEMMA ShownIsDrawn ==
  ASSUME NEW d, DeskOK(d), Shared(d), NEW i \in 1..Len(d.apps)
  PROVE  window_get(d.wm, d.apps[i].id).minimized <=> ~desktop_on_screen(d, i)
<1>1. PICK s \in LiveSlots(d.wm) : /\ d.wm.slots[s].id = d.apps[i].id
                                   /\ window_get(d.wm, d.apps[i].id) = d.wm.slots[s]
  BY WindowOf
<1>2. desktop_index_of(d, d.wm.slots[s].id) = i
  BY <1>1, IndexIs DEF Indexed
<1>3. d.wm.slots[s].minimized <=> ~desktop_on_screen(d, desktop_index_of(d, d.wm.slots[s].id))
  BY DEF Shared, PixelsAreOwned
<1> QED
  BY <1>1, <1>2, <1>3

\* The keyboard given to a window the desktop has.
FocusedOn(d, e, id) ==
  /\ OnlyManager(d, e) /\ SameScreen(d, e) /\ Calm(d.wm, e.wm)
  /\ Shared(d) => Shared(e)
  /\ window_focused(e.wm) \in {id, window_focused(d.wm)}

\* The keyboard given to an app of the desktop.
LEMMA GivesFocus ==
  ASSUME NEW d, DeskOK(d), NEW id
  PROVE  FocusedOn(d, [d EXCEPT !.wm = window_focus(@, id)], id)
<1> DEFINE wn == window_focus(d.wm, id)
           e == [d EXCEPT !.wm = wn]
<1>1. SoundManager(d.wm)
  BY DEF DeskOK
<1>2. SoundManager(wn) /\ SameWindows(d.wm, wn)
  BY <1>1, FocusKeeps
<1>3. Calm(d.wm, wn)
  BY <1>1, FocusCalm
<1>4. window_focused(wn) \in {id, window_focused(d.wm)}
  BY <1>1, FocusKeeps
<1> HIDE DEF wn
<1>5. OnlyManager(d, e) /\ e.wm = wn
  BY <1>2, ManagerChanged
<1> HIDE DEF e
<1>6. SameScreen(d, e)
  BY <1>5, SameTableSameScreen DEF OnlyManager
<1>7. Shared(d) => Shared(e)
  BY <1>5, SharedStays
<1>8. FocusedOn(d, e, id)
  BY <1>3, <1>4, <1>5, <1>6, <1>7 DEF FocusedOn
<1> QED
  BY <1>8 DEF e, wn

\* A window on the screen takes it, any other is refused.
LEMMA GivesFocusTo ==
  ASSUME NEW d, DeskOK(d), Shared(d), NEW i \in 1..Len(d.apps)
  PROVE  LET e == [d EXCEPT !.wm = window_focus(@, d.apps[i].id)]
         IN  /\ FocusedOn(d, e, d.apps[i].id)
             /\ window_focused(e.wm) = IF desktop_on_screen(d, i) THEN d.apps[i].id
                                       ELSE window_focused(d.wm)
             /\ (desktop_on_screen(d, i) \/ FocusShown(d)) => FocusShown(e)
<1> DEFINE id == d.apps[i].id
           wn == window_focus(d.wm, id)
           e == [d EXCEPT !.wm = wn]
<1>1. FocusedOn(d, e, id)
  BY GivesFocus
<1>2. e.wm = wn
  BY DEF DeskOK, DesktopType
<1>3. known(d.wm, id) /\ id # WINDOW_ID_NONE
  BY WindowOf
<1>4. window_get(d.wm, id).minimized <=> ~desktop_on_screen(d, i)
  BY ShownIsDrawn
<1>5. SoundManager(d.wm) /\ desktop_index_of(d, id) = i
  BY IndexIs DEF DeskOK, Indexed
<1> HIDE DEF id
<1>6. window_focused(wn) = IF id # WINDOW_ID_NONE /\ (~known(d.wm, id) \/ window_get(d.wm, id).minimized)
                           THEN window_focused(d.wm) ELSE id
  BY <1>5, FocusKeeps
<1> HIDE DEF wn, e
<1>7. window_focused(e.wm) = IF desktop_on_screen(d, i) THEN id ELSE window_focused(d.wm)
  BY <1>2, <1>3, <1>4, <1>6
<1>8. (desktop_on_screen(d, i) \/ FocusShown(d)) => FocusShown(e)
  BY <1>1, <1>5, <1>7 DEF FocusShown, FocusedOn, SameScreen
<1> QED
  BY <1>1, <1>7, <1>8 DEF e, wn, id

\* What focus_settled leaves.
LEMMA Settles ==
  ASSUME NEW d, DeskOK(d), Shared(d)
  PROVE  /\ OnlyManager(d, focus_settled(d)) /\ SameScreen(d, focus_settled(d))
         /\ Calm(d.wm, focus_settled(d).wm) /\ Settled(focus_settled(d))
<1> DEFINE visible == VisibleApps(d)
           first == CHOOSE i \in visible : \A j \in visible : i <= j
           e == focus_settled(d)
<1>1. CASE desktop_on_screen(d, desktop_index_of(d, window_focused(d.wm))) \/ visible = {}
  <2>1. e = d
    BY <1>1 DEF focus_settled
  <2>2. FocusShown(d)
    BY <1>1 DEF FocusShown
  <2>3. OnlyManager(d, d)
    BY RearrangedSelf DEF OnlyManager, SameWindows, SameWindow
  <2>4. SameScreen(d, d)
    BY DEF SameScreen
  <2> QED
    BY <2>1, <2>2, <2>3, <2>4, CalmSelf DEF Settled
<1>2. CASE ~(desktop_on_screen(d, desktop_index_of(d, window_focused(d.wm))) \/ visible = {})
  <2>1. visible \in SUBSET Nat /\ visible \subseteq 1..Len(d.apps)
    BY DEF VisibleApps, DeskOK, DesktopType
  <2>2. first \in visible
    <3> HIDE DEF visible
    <3>1. \E i \in visible : \A j \in visible : i <= j
      BY <1>2, <2>1, LeastNat
    <3> QED
      BY <3>1
  <2>3. e = [d EXCEPT !.wm = window_focus(@, d.apps[first].id)]
    BY <1>2 DEF focus_settled
  <2>4. first \in 1..Len(d.apps) /\ desktop_on_screen(d, first)
    BY <2>1, <2>2, OnScreenIsVisible
  <2> HIDE DEF first, e
  <2>5. FocusedOn(d, e, d.apps[first].id) /\ FocusShown(e)
    BY <2>3, <2>4, GivesFocusTo
  <2> QED
    BY <2>5 DEF FocusedOn, Settled, e
<1> QED
  BY <1>1, <1>2


----------------------------------------------------------------------------
(* The operations of the desktop *)

\* A change that was made or not, and nobody told but of the keyboard.
Changed(d, r) ==
  /\ r.ok \in BOOLEAN /\ Rearranged(d, r.d) /\ Calm(d.wm, r.d.wm)
  /\ ~r.ok => r.d = d

Relaid(d, r) ==
  /\ Changed(d, r) /\ SameScreen(d, r.d)
  /\ r.ok => Settled(r.d)

\* desktop_relayout, when there is room: the screen shared out, the keyboard on it.
LEMMA Relayouts ==
  ASSUME NEW d, DeskOK(d)
  PROVE  Relaid(d, desktop_relayout(d))
<1> DEFINE count == Cardinality(VisibleApps(d))
           tiles == tile_layout(Screen, d.percent, count)
           r == desktop_relayout(d)
           e == laid_out(d, tiles)
           f == focus_settled(e)
           full == count # 0 /\ (tiles = <<>> \/ taken(tiles)[count] > ARENA_PIXELS)
<1>1. CASE full
  <2>1. r = [ok |-> FALSE, d |-> d]
    BY <1>1 DEF desktop_relayout
  <2>2. SameScreen(d, d) /\ Rearranged(d, d) /\ Calm(d.wm, d.wm)
    BY RearrangedSelf, CalmSelf DEF SameScreen
  <2> QED
    BY <2>1, <2>2 DEF Relaid, Changed
<1>2. CASE ~full
  <2>1. r = [ok |-> TRUE, d |-> f]
    BY <1>2 DEF desktop_relayout
  <2>2. count \in Nat /\ (count = 0 <=> VisibleApps(d) = {}) /\ d.percent \in 20..80
    BY PlacesAre DEF DeskOK, DesktopType
  <2>3. Tiled(d, tiles)
    <3> SUFFICES ASSUME count # 0 PROVE Layout(tiles, count)
      BY <2>2 DEF Tiled
    <3>1. tiles # <<>>
      BY <1>2
    <3> HIDE DEF count
    <3>2. CASE count = 1
      BY <2>2, <3>1, <3>2, OneTile
    <3>3. CASE count # 1
      <4>1. count >= 2
        BY <2>2, <3>3
      <4> QED
        BY <2>2, <3>1, <4>1, ManyTiles
    <3> QED
      BY <3>2, <3>3
  <2> HIDE DEF full, tiles, count
  <2>4. OnlyLaidOut(d, e) /\ Shared(e)
    BY <2>3, LaysOut
  <2>5. Rearranged(d, e) /\ SameScreen(d, e) /\ DeskOK(e)
    BY <2>4 DEF OnlyLaidOut, Rearranged
  <2>6. Calm(d.wm, e.wm)
    BY <2>4 DEF OnlyLaidOut, Calm, Hushed, Ups, Downs
  <2> HIDE DEF e
  <2>7. OnlyManager(e, f) /\ SameScreen(e, f) /\ Calm(e.wm, f.wm) /\ Settled(f)
    BY <2>4, <2>5, Settles
  <2> HIDE DEF f, r
  <2>8. Rearranged(d, f) /\ Calm(d.wm, f.wm)
    BY <2>5, <2>6, <2>7, RearrangedTwice, CalmTwice DEF OnlyManager
  <2>9. SameScreen(d, f)
    BY <2>5, <2>7 DEF SameScreen
  <2>10. Relaid(d, r)
    BY <2>1, <2>7, <2>8, <2>9 DEF Relaid, Changed
  <2> QED
    BY <2>10 DEF r
<1> QED
  BY <1>1, <1>2

\* The keyboard given to an app on the screen, or left where it is.
LEMMA StepsTo ==
  ASSUME NEW d, DeskOK(d), NEW step \in Int
  PROVE  \/ desktop_focus_step(d, step) = d
         \/ \E i \in 1..Len(d.apps) :
              /\ desktop_on_screen(d, i)
              /\ desktop_focus_step(d, step) = [d EXCEPT !.wm = window_focus(@, d.apps[i].id)]
<1> DEFINE here == desktop_index_of(d, window_focused(d.wm))
           start == IF here = 0 THEN 1 ELSE here
           at(n) == ((start - 1 + n * step) % Len(d.apps)) + 1
           shown == {n \in 1..Len(d.apps) : desktop_on_screen(d, at(n))}
           n0 == CHOOSE n \in shown : \A m \in shown : n <= m
<1>1. CASE shown = {}
  BY <1>1 DEF desktop_focus_step
<1>2. CASE shown # {}
  <2>1. shown \in SUBSET Nat
    BY DEF DeskOK, DesktopType
  <2>2. n0 \in shown
    <3> HIDE DEF shown
    <3>1. \E n \in shown : \A m \in shown : n <= m
      BY <1>2, <2>1, LeastNat
    <3> QED
      BY <3>1
  <2>3. desktop_focus_step(d, step) = [d EXCEPT !.wm = window_focus(@, d.apps[at(n0)].id)]
    BY <1>2 DEF desktop_focus_step
  <2> HIDE DEF n0
  <2>4. desktop_on_screen(d, at(n0))
    BY <2>2
  <2> HIDE DEF at
  <2>5. at(n0) \in 1..Len(d.apps)
    BY <2>4 DEF desktop_on_screen
  <2> QED
    BY <2>3, <2>4, <2>5
<1> QED
  BY <1>1, <1>2

\* Stepping the focus along keeps the desktop settled.
LEMMA FocusSteps ==
  ASSUME NEW d, DeskOK(d), NEW step \in Int
  PROVE  /\ Rearranged(d, desktop_focus_step(d, step))
         /\ Calm(d.wm, desktop_focus_step(d, step).wm)
         /\ desktop_focus_step(d, step).apps = d.apps
         /\ desktop_focus_step(d, step).workspace = d.workspace
         /\ Settled(d) => Settled(desktop_focus_step(d, step))
<1>1. CASE desktop_focus_step(d, step) = d
  BY <1>1, RearrangedSelf, CalmSelf
<1>2. ASSUME NEW i \in 1..Len(d.apps), desktop_on_screen(d, i),
             desktop_focus_step(d, step) = [d EXCEPT !.wm = window_focus(@, d.apps[i].id)]
      PROVE  /\ Rearranged(d, desktop_focus_step(d, step))
             /\ Calm(d.wm, desktop_focus_step(d, step).wm)
             /\ desktop_focus_step(d, step).apps = d.apps
             /\ desktop_focus_step(d, step).workspace = d.workspace
             /\ Settled(d) => Settled(desktop_focus_step(d, step))
  <2> DEFINE e == desktop_focus_step(d, step)
  <2>1. FocusedOn(d, e, d.apps[i].id)
    BY <1>2, GivesFocus
  <2>2. Shared(d) => FocusShown(e)
    BY <1>2, GivesFocusTo
  <2> HIDE DEF e
  <2>3. /\ Rearranged(d, e) /\ Calm(d.wm, e.wm) /\ e.apps = d.apps /\ e.workspace = d.workspace
        /\ Settled(d) => Settled(e)
    BY <2>1, <2>2 DEF FocusedOn, OnlyManager, Settled
  <2> QED
    BY <2>3 DEF e
<1> QED
  BY <1>1, <1>2, StepsTo

\* A table with the same windows in the same places.
LEMMA TableChanged ==
  ASSUME NEW d, DeskOK(d), NEW table \in Seq(AppType), Len(table) = Len(d.apps),
         \A i \in 1..Len(d.apps) : table[i].id = d.apps[i].id
  PROVE  LET e == [d EXCEPT !.apps = table]
         IN  /\ Rearranged(d, e) /\ e.wm = d.wm /\ e.apps = table /\ e.workspace = d.workspace
             /\ Calm(d.wm, e.wm)
<1> DEFINE e == [d EXCEPT !.apps = table]
<1>1. d \in DesktopType
  BY DEF DeskOK
<1>2. e \in DesktopType /\ e.wm = d.wm /\ e.apps = table /\ e.workspace = d.workspace
  BY <1>1 DEF DesktopType
<1> HIDE DEF e
<1>3. Rearranged(d, e)
  BY <1>2, Rearrange DEF DeskOK
<1> QED
  BY <1>2, <1>3, CalmSelf DEF e

\* One entry given another that has the same identifier.
LEMMA EntryChanged ==
  ASSUME NEW d, DeskOK(d), NEW i \in 1..Len(d.apps), NEW a \in AppType, a.id = d.apps[i].id
  PROVE  LET e == [d EXCEPT !.apps[i] = a]
         IN  /\ Rearranged(d, e) /\ e.wm = d.wm /\ e.workspace = d.workspace /\ Calm(d.wm, e.wm)
             /\ e.apps[i] = a /\ \A j \in 1..Len(d.apps) : j # i => e.apps[j] = d.apps[j]
<1> DEFINE table == [d.apps EXCEPT ![i] = a]
           e == [d EXCEPT !.apps[i] = a]
<1>1. d \in DesktopType /\ d.apps \in Seq(AppType)
  BY DEF DeskOK, DesktopType
<1>2. e = [d EXCEPT !.apps = table]
  BY <1>1 DEF DesktopType
<1>3. /\ table \in Seq(AppType) /\ Len(table) = Len(d.apps) /\ table[i] = a
      /\ \A j \in 1..Len(d.apps) : j # i => table[j] = d.apps[j]
  BY <1>1
<1> HIDE DEF table, e
<1>4. \A j \in 1..Len(d.apps) : table[j].id = d.apps[j].id
  BY <1>3
<1>5. Rearranged(d, e) /\ e.wm = d.wm /\ e.apps = table /\ e.workspace = d.workspace /\ Calm(d.wm, e.wm)
  BY <1>2, <1>3, <1>4, TableChanged
<1> QED
  BY <1>3, <1>5 DEF e

\* What set_hidden leaves: the entry hidden or not, and the others as they were.
Hid(d, e, i, hidden) ==
  /\ Rearranged(d, e) /\ Calm(d.wm, e.wm) /\ e.workspace = d.workspace
  /\ e.apps[i].hidden = hidden
  /\ \A j \in 1..Len(d.apps) : e.apps[j].workspace = d.apps[j].workspace

\* Hiding or showing one app changes its mark alone.
LEMMA Hides ==
  ASSUME NEW d, DeskOK(d), NEW i \in 1..Len(d.apps), NEW hidden \in BOOLEAN
  PROVE  Hid(d, set_hidden(d, i, hidden), i, hidden)
<1> DEFINE a == [d.apps[i] EXCEPT !.hidden = hidden]
           put == [d EXCEPT !.apps[i].hidden = hidden]
<1>1. d \in DesktopType /\ d.apps[i] \in AppType
  BY DEF DeskOK, DesktopType
<1>2. put = [d EXCEPT !.apps[i] = a]
  BY <1>1 DEF DesktopType
<1>3. a \in AppType /\ a.id = d.apps[i].id /\ a.hidden = hidden /\ a.workspace = d.apps[i].workspace
  BY <1>1 DEF AppType
<1> HIDE DEF a, put
<1>4. /\ Rearranged(d, put) /\ put.wm = d.wm /\ put.workspace = d.workspace /\ Calm(d.wm, put.wm)
      /\ put.apps[i] = a /\ \A j \in 1..Len(d.apps) : j # i => put.apps[j] = d.apps[j]
  BY <1>2, <1>3, EntryChanged
<1>5. Hid(d, put, i, hidden)
  BY <1>3, <1>4 DEF Hid
<1>6. CASE hidden /\ window_focused(d.wm) = d.apps[i].id
  <2> DEFINE e == desktop_focus_step(put, 1)
  <2>1. DeskOK(put)
    BY <1>4 DEF Rearranged
  <2>2. Rearranged(put, e) /\ Calm(put.wm, e.wm) /\ e.apps = put.apps /\ e.workspace = put.workspace
    <3>1. 1 \in Int
      OBVIOUS
    <3> QED
      BY <2>1, <3>1, FocusSteps
  <2> HIDE DEF e
  <2>3. Rearranged(d, e) /\ Calm(d.wm, e.wm)
    BY <1>4, <2>2, RearrangedTwice, CalmTwice
  <2>4. Hid(d, e, i, hidden)
    BY <1>5, <2>2, <2>3 DEF Hid
  <2>5. set_hidden(d, i, hidden) = e
    BY <1>6 DEF set_hidden, put, e
  <2> QED
    BY <2>4, <2>5
<1>7. CASE ~(hidden /\ window_focused(d.wm) = d.apps[i].id)
  <2>1. set_hidden(d, i, hidden) = put
    BY <1>7 DEF set_hidden, put
  <2> QED
    BY <1>5, <2>1
<1> QED
  BY <1>6, <1>7

\* So does desktop_set_hidden, when the window has an app.
LEMMA SetsHidden ==
  ASSUME NEW d, DeskOK(d), NEW id, NEW hidden \in BOOLEAN
  PROVE  /\ Changed(d, desktop_set_hidden(d, id, hidden))
         /\ desktop_index_of(d, id) # 0 =>
              Hid(d, desktop_set_hidden(d, id, hidden).d, desktop_index_of(d, id), hidden)
<1> DEFINE i == desktop_index_of(d, id)
<1>1. i # 0 => i \in 1..Len(d.apps)
  BY IndexIs DEF Indexed
<1>2. CASE i = 0 \/ (i # 0 /\ d.apps[i].hidden = hidden)
  <2>1. desktop_set_hidden(d, id, hidden) = [ok |-> FALSE, d |-> d]
    BY <1>2 DEF desktop_set_hidden
  <2>2. Rearranged(d, d) /\ Calm(d.wm, d.wm)
    BY RearrangedSelf, CalmSelf
  <2> HIDE DEF i
  <2>3. i # 0 => Hid(d, d, i, hidden)
    BY <1>2, <2>2 DEF Hid
  <2> QED
    BY <2>1, <2>2, <2>3 DEF Changed, i
<1>3. CASE ~(i = 0 \/ (i # 0 /\ d.apps[i].hidden = hidden))
  <2>1. desktop_set_hidden(d, id, hidden) = [ok |-> TRUE, d |-> set_hidden(d, i, hidden)]
    BY <1>3 DEF desktop_set_hidden
  <2> HIDE DEF i
  <2>2. Hid(d, set_hidden(d, i, hidden), i, hidden)
    BY <1>1, <1>3, Hides
  <2> QED
    BY <2>1, <2>2 DEF Changed, Hid, i
<1> QED
  BY <1>2, <1>3

\* Switching workspaces changes which is shown alone.
LEMMA Switches ==
  ASSUME NEW d, DeskOK(d), NEW to
  PROVE  LET r == desktop_switch_workspace(d, to)
         IN  /\ Changed(d, r) /\ r.d.apps = d.apps /\ r.d.wm = d.wm
             /\ to \in 1..DESKTOP_WORKSPACES => r.d.workspace = to
<1> DEFINE r == desktop_switch_workspace(d, to)
           e == [d EXCEPT !.workspace = to]
<1>1. CASE to \notin 1..DESKTOP_WORKSPACES \/ to = d.workspace
  <2>1. r = [ok |-> FALSE, d |-> d]
    BY <1>1 DEF desktop_switch_workspace
  <2> QED
    BY <1>1, <2>1, RearrangedSelf, CalmSelf DEF Changed
<1>2. CASE ~(to \notin 1..DESKTOP_WORKSPACES \/ to = d.workspace)
  <2>1. r = [ok |-> TRUE, d |-> e]
    BY <1>2 DEF desktop_switch_workspace
  <2>2. e \in DesktopType /\ e.wm = d.wm /\ e.apps = d.apps /\ e.workspace = to
    BY <1>2 DEF DeskOK, DesktopType
  <2> HIDE DEF e, r
  <2>3. Rearranged(d, e) /\ Calm(d.wm, e.wm)
    BY <2>2, Rearrange, CalmSelf DEF DeskOK
  <2>4. /\ Changed(d, r) /\ r.d.apps = d.apps /\ r.d.wm = d.wm
        /\ to \in 1..DESKTOP_WORKSPACES => r.d.workspace = to
    BY <2>1, <2>2, <2>3 DEF Changed
  <2> QED
    BY <2>4 DEF r
<1> QED
  BY <1>1, <1>2

\* Moving an app to another workspace changes its workspace alone.
LEMMA Moves ==
  ASSUME NEW d, DeskOK(d), NEW id, NEW to
  PROVE  Changed(d, desktop_move_to_workspace(d, id, to))
<1> DEFINE i == desktop_index_of(d, id)
           r == desktop_move_to_workspace(d, id, to)
           stays == to \notin 1..DESKTOP_WORKSPACES \/ i = 0 \/ (i # 0 /\ d.apps[i].workspace = to)
<1>1. CASE stays
  <2>1. r = [ok |-> FALSE, d |-> d]
    BY <1>1 DEF desktop_move_to_workspace
  <2> QED
    BY <2>1, RearrangedSelf, CalmSelf DEF Changed
<1>2. CASE ~stays
  <2> DEFINE a == [d.apps[i] EXCEPT !.workspace = to]
             e == [d EXCEPT !.apps[i].workspace = to]
  <2>1. r = [ok |-> TRUE, d |-> e]
    BY <1>2 DEF desktop_move_to_workspace
  <2>2. i \in 1..Len(d.apps) /\ to \in 1..DESKTOP_WORKSPACES
    BY <1>2, IndexIs DEF Indexed
  <2>3. d \in DesktopType /\ d.apps[i] \in AppType
    BY <2>2 DEF DeskOK, DesktopType
  <2> HIDE DEF i
  <2>4. e = [d EXCEPT !.apps[i] = a]
    BY <2>2, <2>3 DEF DesktopType
  <2>5. a \in AppType /\ a.id = d.apps[i].id
    BY <2>2, <2>3 DEF AppType
  <2> HIDE DEF a, e, r
  <2>6. Rearranged(d, e) /\ Calm(d.wm, e.wm)
    BY <2>2, <2>4, <2>5, EntryChanged
  <2>7. Changed(d, r)
    BY <2>1, <2>6 DEF Changed
  <2> QED
    BY <2>7 DEF r
<1> QED
  BY <1>1, <1>2

\* Showing every hidden app changes the marks alone.
LEMMA ShowsAll ==
  ASSUME NEW d, DeskOK(d)
  PROVE  Changed(d, [ok |-> \E i \in DOMAIN d.apps : d.apps[i].hidden,
                     d |-> [d EXCEPT !.apps = [i \in DOMAIN @ |->
                                                 [@[i] EXCEPT !.hidden = FALSE]]]])
<1> DEFINE entry(i) == [d.apps[i] EXCEPT !.hidden = FALSE]
           table == [i \in DOMAIN d.apps |-> entry(i)]
           e == [d EXCEPT !.apps = table]
           some == \E i \in DOMAIN d.apps : d.apps[i].hidden
<1>1. /\ d \in DesktopType /\ d.apps \in Seq(AppType) /\ DOMAIN d.apps = 1..Len(d.apps)
      /\ Len(d.apps) \in Nat
  BY DEF DeskOK, DesktopType
<1>2. ASSUME NEW i \in 1..Len(d.apps)
      PROVE  /\ entry(i) \in AppType /\ entry(i).id = d.apps[i].id
             /\ ~d.apps[i].hidden => entry(i) = d.apps[i]
  <2> DEFINE b == d.apps[i]
  <2>1. b \in AppType
    BY <1>1
  <2> HIDE DEF b
  <2>2. LET c == [b EXCEPT !.hidden = FALSE]
        IN  c \in AppType /\ c.id = b.id /\ (~b.hidden => c = b)
    BY <2>1 DEF AppType
  <2> QED
    BY <2>2 DEF b
<1>3. \A i \in 1..Len(d.apps) : table[i] = entry(i)
  BY <1>1
<1>4. table \in Seq(AppType) /\ Len(table) = Len(d.apps) /\ DOMAIN table = DOMAIN d.apps
  <2>1. table \in [1..Len(d.apps) -> AppType]
    BY <1>1, <1>2
  <2> HIDE DEF table
  <2> QED
    BY <1>1, <2>1, FunctionIsSeq
<1>5. ~some => table = d.apps
  <2> SUFFICES ASSUME ~some PROVE table = d.apps
    OBVIOUS
  <2>1. \A i \in 1..Len(d.apps) : table[i] = d.apps[i]
    BY <1>1, <1>2, <1>3
  <2> HIDE DEF table
  <2>2. table \in [1..Len(d.apps) -> AppType] /\ d.apps \in [1..Len(d.apps) -> AppType]
    BY <1>1, <1>4
  <2> QED
    BY <2>1, <2>2
<1> HIDE DEF table, entry
<1>6. Rearranged(d, e) /\ Calm(d.wm, e.wm)
  <2>1. \A i \in 1..Len(d.apps) : table[i].id = d.apps[i].id
    BY <1>2, <1>3
  <2> QED
    BY <1>4, <2>1, TableChanged
<1>7. ~some => e = d
  BY <1>1, <1>5 DEF DesktopType
<1>8. some \in BOOLEAN
  OBVIOUS
<1> HIDE DEF some, e
<1>9. Changed(d, [ok |-> some, d |-> e])
  BY <1>6, <1>7, <1>8 DEF Changed
<1> QED
  BY <1>9 DEF some, e, table, entry

\* Moving the divider changes the divider alone.
LEMMA MovesDivider ==
  ASSUME NEW d, DeskOK(d), NEW step \in Int
  PROVE  Changed(d, [ok |-> divider(d.percent + step) # d.percent,
                     d |-> [d EXCEPT !.percent = divider(d.percent + step)]])
<1> DEFINE percent == divider(d.percent + step)
           e == [d EXCEPT !.percent = percent]
<1>1. d \in DesktopType /\ d.percent \in 20..80
  BY DEF DeskOK, DesktopType
<1>2. percent \in 20..80
  BY <1>1 DEF divider
<1> HIDE DEF percent
<1>3. e \in DesktopType /\ e.wm = d.wm /\ e.apps = d.apps /\ (percent = d.percent => e = d)
  BY <1>1, <1>2 DEF DesktopType
<1> HIDE DEF e
<1>4. Rearranged(d, e) /\ Calm(d.wm, e.wm)
  BY <1>3, Rearrange, CalmSelf DEF DeskOK
<1>5. Changed(d, [ok |-> percent # d.percent, d |-> e])
  BY <1>3, <1>4 DEF Changed
<1> QED
  BY <1>5 DEF percent, e


----------------------------------------------------------------------------
(* Windows come and go *)

\* The windows of kmain and the one a program has, if it has one.
Accounts(d, w) ==
  /\ DeskOK(d) /\ w \in WindowId \cup {WINDOW_ID_NONE} /\ w \notin DOMAIN Builtins
  /\ \A i \in DOMAIN Builtins : i \in 1..Len(d.apps) /\ d.apps[i].id = i
  /\ AppIds(d) = DOMAIN Builtins \cup ({w} \ {WINDOW_ID_NONE})

\* The apps the machine starts with fit into the table of windows.
LEMMA BuiltinsAre ==
  \E n \in 1..DESKTOP_MAX_APPS : DOMAIN Builtins = 1..n /\ n <= WINDOW_MAX /\ n <= LAST_ID
<1> DEFINE n == Len(Builtins)
<1>1. n \in 1..DESKTOP_MAX_APPS /\ DOMAIN Builtins = 1..n
  BY LoopAssumption
<1> HIDE DEF n
<1> QED
  BY <1>1, DesktopAssumption, WindowsAssumption

\* A rearranged desktop has an app for every window and a window for every app, if it
\* had.
LEMMA AccountsStay ==
  ASSUME NEW d, NEW e, NEW w, Accounts(d, w), Rearranged(d, e)
  PROVE  Accounts(e, w)
<1>1. AppIds(e) = AppIds(d)
  BY DEF AppIds, Rearranged
<1> QED
  BY <1>1 DEF Accounts, Rearranged

\* A window added: a new identifier, at the end of the table.
Added(d, r) ==
  LET n == Len(d.apps)
  IN  /\ DeskOK(r.d) /\ r.id \in WindowId /\ r.id \notin AppIds(d)
      /\ Len(r.d.apps) = n + 1 /\ r.d.apps[n + 1].id = r.id
      /\ \A i \in 1..n : r.d.apps[i] = d.apps[i]
      /\ AppIds(r.d) = AppIds(d) \cup {r.id}
      /\ r.d.wm.capture = d.wm.capture
      /\ \E slot : /\ Made(d.wm, Area(0, 0, 64, 64), window_create(d.wm, Area(0, 0, 64, 64)), slot)
                   /\ r.d.wm = window_create(d.wm, Area(0, 0, 64, 64)).wm
                   /\ r.id = window_create(d.wm, Area(0, 0, 64, 64)).id

\* desktop_add makes one window and one app for it.
LEMMA Adds2 ==
  ASSUME NEW d, DeskOK(d), desktop_add(d).ok
  PROVE  Added(d, desktop_add(d))
<1> DEFINE g == Area(0, 0, 64, 64)
           made == window_create(d.wm, g)
           n == Len(d.apps)
           a == App(made.id, d.workspace)
           table == Append(d.apps, a)
           e == [d EXCEPT !.wm = made.wm, !.apps = table]
           r == desktop_add(d)
<1>1. n < DESKTOP_MAX_APPS /\ made.ok /\ r = [ok |-> TRUE, id |-> made.id, d |-> e]
  <2>1. ~(n >= DESKTOP_MAX_APPS \/ ~made.ok)
    <3> SUFFICES ASSUME n >= DESKTOP_MAX_APPS \/ ~made.ok PROVE ~r.ok
      OBVIOUS
    <3>1. r = [ok |-> FALSE, id |-> WINDOW_ID_NONE, d |-> d]
      BY DEF desktop_add
    <3> QED
      BY <3>1
  <2>2. r = [ok |-> TRUE, id |-> made.id, d |-> e]
    BY <2>1 DEF desktop_add
  <2>3. n \in Nat /\ DESKTOP_MAX_APPS \in Nat
    BY DesktopAssumption, WindowsAssumption DEF DeskOK, DesktopType
  <2> HIDE DEF made, r, e, n
  <2>4. n < DESKTOP_MAX_APPS
    BY <2>1, <2>3
  <2> QED
    BY <2>1, <2>2, <2>4
<1>2. d \in DesktopType /\ n \in Nat /\ d.apps \in Seq(AppType) /\ SoundManager(d.wm)
  BY DEF DeskOK, DesktopType
<1>3. g \in GeometryType
  BY DEF Area, GeometryType
<1> HIDE DEF r
<1>4. PICK slot : Made(d.wm, g, made, slot)
  <2> HIDE DEF g
  <2> QED
    BY <1>1, <1>2, <1>3, CreateMakes
<1> HIDE DEF g, made
<1>5. /\ made.id \in WindowId /\ ~known(d.wm, made.id) /\ SoundManager(made.wm)
      /\ LiveIds(made.wm) = LiveIds(d.wm) \cup {made.id} /\ made.wm.capture = d.wm.capture
  BY <1>4 DEF Made
<1>6. made.wm \in Manager /\ made.id # WINDOW_ID_NONE
  BY <1>5 DEF SoundManager, WindowId, WINDOW_ID_NONE
<1>7. a \in AppType /\ a.id = made.id
  <2>1. d.workspace \in 1..DESKTOP_WORKSPACES
    BY <1>2 DEF DesktopType
  <2> QED
    BY <1>5, <2>1 DEF App, AppType, surface_none
<1> HIDE DEF a
<1>8. /\ table \in Seq(AppType) /\ Len(table) = n + 1 /\ table[n + 1] = a
      /\ \A i \in 1..n : table[i] = d.apps[i]
  BY <1>2, <1>7
<1> HIDE DEF table
<1>9. e \in DesktopType /\ e.wm = made.wm /\ e.apps = table
  BY <1>2, <1>6, <1>8 DEF DesktopType
<1> HIDE DEF e, n
<1>10. made.id \notin AppIds(d)
  <2>1. made.id \notin LiveIds(d.wm)
    BY <1>5, <1>6, LiveKnown
  <2> QED
    BY <2>1 DEF DeskOK
<1>11. AppIds(e) = AppIds(d) \cup {made.id}
  <2>1. AppIds(e) = {table[i].id : i \in 1..(n + 1)}
    BY <1>8, <1>9 DEF AppIds
  <2>2. AppIds(d) = {d.apps[i].id : i \in 1..n}
    BY DEF AppIds, n
  <2>3. \A i \in 1..(n + 1) : i \in 1..n \/ i = n + 1
    BY <1>2
  <2>4. n + 1 \in 1..(n + 1) /\ \A i \in 1..n : i \in 1..(n + 1)
    BY <1>2
  <2> QED
    BY <1>7, <1>8, <2>1, <2>2, <2>3, <2>4
<1>12. ASSUME NEW i \in 1..(n + 1), NEW j \in 1..(n + 1), e.apps[i].id = e.apps[j].id
       PROVE  i = j
  <2>1. \A k \in 1..n : table[k].id = d.apps[k].id /\ table[k].id # made.id
    BY <1>8, <1>10 DEF AppIds, n
  <2>2. table[n + 1].id = made.id
    BY <1>7, <1>8
  <2>3. i \in 1..n \/ i = n + 1
    BY <1>2
  <2>4. j \in 1..n \/ j = n + 1
    BY <1>2
  <2>5. CASE i \in 1..n /\ j \in 1..n
    BY <1>9, <1>12, <2>1, <2>5 DEF DeskOK, n
  <2>6. CASE i = n + 1 \/ j = n + 1
    BY <1>9, <1>12, <2>1, <2>2, <2>3, <2>4, <2>6
  <2> QED
    BY <2>3, <2>4, <2>5, <2>6
<1>13. n + 1 <= DESKTOP_MAX_APPS
  BY <1>1, <1>2, DesktopAssumption, WindowsAssumption
<1>14. DeskOK(e)
  <2>1. LiveIds(e.wm) = AppIds(e)
    BY <1>5, <1>9, <1>11 DEF DeskOK
  <2> QED
    BY <1>5, <1>8, <1>9, <1>12, <1>13, <2>1 DEF DeskOK
<1>15. r.d = e /\ r.id = made.id
  BY <1>1
<1>16. /\ DeskOK(r.d) /\ r.id \in WindowId /\ r.id \notin AppIds(d)
       /\ Len(r.d.apps) = n + 1 /\ r.d.apps[n + 1].id = r.id
       /\ \A i \in 1..n : r.d.apps[i] = d.apps[i]
       /\ AppIds(r.d) = AppIds(d) \cup {r.id}
       /\ r.d.wm.capture = d.wm.capture
       /\ Made(d.wm, g, made, slot) /\ r.d.wm = made.wm /\ r.id = made.id
  BY <1>4, <1>5, <1>7, <1>8, <1>9, <1>10, <1>11, <1>14, <1>15
<1>17. Added(d, r)
  BY <1>16 DEF Added, made, g, n
<1> QED
  BY <1>17 DEF r

\* Every window there was is as it was.
LEMMA AddKeeps ==
  ASSUME NEW d, DeskOK(d), NEW r, Added(d, r)
  PROVE  \A s \in LiveSlots(d.wm) : r.d.wm.slots[s] = d.wm.slots[s]
<1> DEFINE made == window_create(d.wm, Area(0, 0, 64, 64))
<1>1. PICK slot : Made(d.wm, Area(0, 0, 64, 64), made, slot) /\ r.d.wm = made.wm
  BY DEF Added
<1> HIDE DEF made
<1>2. /\ made.wm.slots = [d.wm.slots EXCEPT ![slot] = NewWindow(made.id, Area(0, 0, 64, 64))]
      /\ d.wm.slots[slot].id = WINDOW_ID_NONE
  BY <1>1 DEF Made
<1>3. d.wm.slots \in [Slots -> WindowType]
  BY DEF DeskOK, SoundManager, Manager
<1> QED
  BY <1>1, <1>2, <1>3 DEF LiveSlots

\* A program's window is added and nobody else is touched.
LEMMA AccountsAdd ==
  ASSUME NEW d, Accounts(d, WINDOW_ID_NONE), NEW r, Added(d, r)
  PROVE  Accounts(r.d, r.id)
<1>1. PICK n \in 1..DESKTOP_MAX_APPS : DOMAIN Builtins = 1..n
  BY BuiltinsAre
<1>2. AppIds(d) = DOMAIN Builtins
  BY DEF Accounts
<1>3. r.id # WINDOW_ID_NONE /\ r.id \in WindowId
  BY DEF Added, WindowId, WINDOW_ID_NONE
<1>4. r.id \notin DOMAIN Builtins
  BY <1>2 DEF Added
<1>5. AppIds(r.d) = DOMAIN Builtins \cup ({r.id} \ {WINDOW_ID_NONE})
  BY <1>2, <1>3 DEF Added
<1>6. Len(d.apps) \in Nat
  BY DEF Accounts, DeskOK, DesktopType
<1>7. \A i \in DOMAIN Builtins : i \in 1..Len(r.d.apps) /\ r.d.apps[i].id = i
  BY <1>6 DEF Accounts, Added
<1> QED
  BY <1>3, <1>4, <1>5, <1>7 DEF Accounts, Added

\* An entry taken out, and the ones after it moved down.
TakenOut(e, d, k) ==
  /\ Len(e.apps) = Len(d.apps) - 1
  /\ \A i \in 1..(Len(d.apps) - 1) : e.apps[i] = d.apps[IF i < k THEN i ELSE i + 1]

\* The length of a concatenation.
LEMMA LengthsAdd ==
  ASSUME NEW S, NEW f \in Seq(S), NEW g \in Seq(S)
  PROVE  Len(f \o g) = Len(f) + Len(g)
OBVIOUS

\* What is left of a sequence that lost one place.
LEMMA RemovesAt ==
  ASSUME NEW S, NEW q \in Seq(S), NEW k \in 1..Len(q)
  PROVE  /\ RemoveAt(q, k) \in Seq(S) /\ Len(RemoveAt(q, k)) = Len(q) - 1
         /\ \A i \in 1..(Len(q) - 1) : RemoveAt(q, k)[i] = q[IF i < k THEN i ELSE i + 1]
<1> DEFINE n == Len(q)
           f == SubSeq(q, 1, k - 1)
           g == SubSeq(q, k + 1, n)
           h == f \o g
<1>1. n \in Nat /\ k \in Nat /\ k >= 1 /\ k <= n
  OBVIOUS
<1>2. f \in Seq(S) /\ Len(f) = k - 1 /\ \A i \in 1..(k - 1) : f[i] = q[i]
  BY <1>1
<1>3. g \in Seq(S) /\ Len(g) = n - k /\ \A i \in 1..(n - k) : g[i] = q[k + i]
  BY <1>1
<1>4. RemoveAt(q, k) = h
  BY DEF RemoveAt
<1> HIDE DEF f, g, n
<1>5. h \in Seq(S) /\ Len(h) = n - 1
  <2>1. h \in Seq(S)
    BY <1>2, <1>3
  <2>2. Len(h) = Len(f) + Len(g)
    BY <1>2, <1>3, LengthsAdd
  <2> HIDE DEF h
  <2> QED
    BY <1>1, <1>2, <1>3, <2>1, <2>2
<1>6. ASSUME NEW i \in 1..(n - 1) PROVE h[i] = q[IF i < k THEN i ELSE i + 1]
  <2>1. CASE i < k
    <3>1. i \in 1..(k - 1)
      BY <1>1, <2>1
    <3>2. h[i] = f[i]
      BY <1>2, <1>3, <3>1
    <3> QED
      BY <1>2, <2>1, <3>1, <3>2
  <2>2. CASE ~(i < k)
    <3>1. i - (k - 1) \in 1..(n - k) /\ k + (i - (k - 1)) = i + 1
      BY <1>1, <2>2
    <3>2. h[i] = g[i - (k - 1)]
      BY <1>1, <1>2, <1>3, <2>2, <3>1
    <3>3. g[i - (k - 1)] = q[k + (i - (k - 1))]
      BY <1>3, <3>1
    <3> QED
      BY <2>2, <3>1, <3>2, <3>3
  <2> QED
    BY <2>1, <2>2
<1> QED
  BY <1>4, <1>5, <1>6 DEF n

\* A window and its entry gone.
Removed(d, e, id) ==
  /\ DeskOK(e) /\ TakenOut(e, d, desktop_index_of(d, id))
  /\ AppIds(e) = AppIds(d) \ {id}
  /\ \A s \in LiveSlots(d.wm) : d.wm.slots[s].id # id => e.wm.slots[s] = d.wm.slots[s]
  /\ e.wm.capture = IF d.wm.capture = id THEN WINDOW_ID_NONE ELSE d.wm.capture

\* desktop_remove removes the one window and its app.
LEMMA Removes ==
  ASSUME NEW d, DeskOK(d), NEW id, desktop_index_of(d, id) # 0
  PROVE  Removed(d, desktop_remove(d, id), id)
<1> DEFINE k == desktop_index_of(d, id)
           wn == window_destroy(d.wm, id)
           table == RemoveAt(d.apps, k)
           e == desktop_remove(d, id)
           n == Len(d.apps)
<1>1. /\ d \in DesktopType /\ n \in Nat /\ d.apps \in Seq(AppType) /\ SoundManager(d.wm)
      /\ n <= DESKTOP_MAX_APPS /\ DESKTOP_MAX_APPS \in Nat
  BY DesktopAssumption, WindowsAssumption DEF DeskOK, DesktopType
<1>2. k \in 1..n /\ d.apps[k].id = id
  BY IndexIs DEF Indexed
<1>3. e = [d EXCEPT !.wm = wn, !.apps = table]
  BY DEF desktop_remove
<1> HIDE DEF k
<1>4. known(d.wm, id)
  BY <1>2, WindowOf
<1>5. /\ SoundManager(wn) /\ LiveIds(wn) = LiveIds(d.wm) \ {id}
      /\ \A s \in Slots : wn.slots[s] = IF d.wm.slots[s].id = id THEN FreeSlot ELSE d.wm.slots[s]
  BY <1>1, <1>4, DestroyKeeps
<1>6. wn.capture = IF d.wm.capture = id THEN WINDOW_ID_NONE ELSE d.wm.capture
  BY <1>1, <1>4 DEF window_destroy, SoundManager, Manager
<1> HIDE DEF wn
<1>7. /\ table \in Seq(AppType) /\ Len(table) = n - 1
      /\ \A i \in 1..(n - 1) : table[i] = d.apps[IF i < k THEN i ELSE i + 1]
  BY <1>1, <1>2, RemovesAt
<1> HIDE DEF table
<1>8. e \in DesktopType /\ e.wm = wn /\ e.apps = table
  <2>1. wn \in Manager
    BY <1>5 DEF SoundManager
  <2> QED
    BY <1>1, <1>3, <1>7, <2>1 DEF DesktopType
<1> HIDE DEF e
<1>9. TakenOut(e, d, k)
  BY <1>7, <1>8 DEF TakenOut
<1> DEFINE from(i) == IF i < k THEN i ELSE i + 1
<1>10. \A i \in 1..(n - 1) : from(i) \in 1..n /\ from(i) # k /\ table[i] = d.apps[from(i)]
  BY <1>1, <1>2, <1>7
<1>11. \A i, j \in 1..(n - 1) : from(i) = from(j) => i = j
  BY <1>1, <1>2
<1>12. ASSUME NEW j \in 1..n, j # k PROVE \E i \in 1..(n - 1) : from(i) = j
  <2>1. CASE j < k
    <3>1. j \in 1..(n - 1) /\ from(j) = j
      BY <1>1, <1>2, <2>1
    <3> QED
      BY <3>1
  <2>2. CASE ~(j < k)
    <3>1. j - 1 \in 1..(n - 1) /\ from(j - 1) = j
      BY <1>1, <1>2, <1>12, <2>2
    <3> QED
      BY <3>1
  <2> QED
    BY <2>1, <2>2
<1> HIDE DEF from, n
<1>13. AppIds(e) = AppIds(d) \ {id}
  <2>1. AppIds(e) = {table[i].id : i \in 1..(n - 1)}
    BY <1>7, <1>8 DEF AppIds
  <2>2. AppIds(d) = {d.apps[i].id : i \in 1..n}
    BY DEF AppIds, n
  <2>3. \A j \in 1..n : j # k => d.apps[j].id # id
    BY <1>2 DEF DeskOK, n
  <2>4. ASSUME NEW x \in AppIds(e) PROVE x \in AppIds(d) \ {id}
    BY <1>10, <2>1, <2>2, <2>3
  <2>5. ASSUME NEW x \in AppIds(d), x # id PROVE x \in AppIds(e)
    <3>1. PICK j \in 1..n : x = d.apps[j].id
      BY <2>2
    <3>2. j # k
      BY <1>2, <2>5, <3>1
    <3>3. PICK i \in 1..(n - 1) : from(i) = j
      BY <1>12, <3>2
    <3> QED
      BY <1>10, <2>1, <3>1, <3>3
  <2> QED
    BY <2>4, <2>5
<1>14. ASSUME NEW i \in 1..(n - 1), NEW j \in 1..(n - 1), e.apps[i].id = e.apps[j].id
       PROVE  i = j
  <2>1. from(i) = from(j)
    BY <1>8, <1>10, <1>14 DEF DeskOK, n
  <2> QED
    BY <1>11, <2>1
<1>15. DeskOK(e)
  <2>1. LiveIds(e.wm) = AppIds(e)
    BY <1>5, <1>8, <1>13 DEF DeskOK
  <2>2. Len(e.apps) = n - 1 /\ n - 1 <= DESKTOP_MAX_APPS
    BY <1>1, <1>7, <1>8 DEF n
  <2> QED
    BY <1>5, <1>8, <1>14, <2>1, <2>2 DEF DeskOK
<1>16. \A s \in LiveSlots(d.wm) : d.wm.slots[s].id # id => e.wm.slots[s] = d.wm.slots[s]
  BY <1>5, <1>8 DEF LiveSlots
<1> QED
  BY <1>6, <1>8, <1>9, <1>13, <1>15, <1>16 DEF Removed, e, k

\* So the windows stay accounted for when the program's is removed.
LEMMA AccountsRemove ==
  ASSUME NEW d, NEW w, Accounts(d, w), w # WINDOW_ID_NONE, NEW e, Removed(d, e, w)
  PROVE  Accounts(e, WINDOW_ID_NONE)
<1> DEFINE k == desktop_index_of(d, w)
<1>1. PICK n \in 1..DESKTOP_MAX_APPS : DOMAIN Builtins = 1..n
  BY BuiltinsAre
<1>2. w \in AppIds(d)
  BY DEF Accounts
<1>3. k \in 1..Len(d.apps) /\ d.apps[k].id = w
  <2>1. DeskOK(d)
    BY DEF Accounts
  <2>2. k # 0
    BY <1>2, <2>1, IndexIs DEF Indexed, AppIds
  <2> QED
    BY <2>1, <2>2, IndexIs DEF Indexed
<1>4. Len(d.apps) \in Nat /\ n \in Nat /\ n >= 1
  BY DesktopAssumption, WindowsAssumption DEF Accounts, DeskOK, DesktopType
<1>5. k \notin 1..n
  BY <1>1, <1>3 DEF Accounts
<1>6. TakenOut(e, d, k)
  BY DEF Removed
<1> HIDE DEF k
<1>7. ASSUME NEW i \in 1..n PROVE i \in 1..Len(e.apps) /\ e.apps[i].id = i
  <2>1. i \in 1..Len(d.apps) /\ d.apps[i].id = i
    BY <1>1 DEF Accounts
  <2>2. i < k /\ i \in 1..(Len(d.apps) - 1)
    BY <1>3, <1>4, <1>5, <2>1
  <2>3. e.apps[i] = d.apps[i] /\ Len(e.apps) = Len(d.apps) - 1
    BY <1>6, <2>2 DEF TakenOut
  <2> QED
    BY <2>1, <2>2, <2>3
<1>8. AppIds(e) = DOMAIN Builtins \cup ({WINDOW_ID_NONE} \ {WINDOW_ID_NONE})
  BY DEF Accounts, Removed
<1>9. WINDOW_ID_NONE \notin DOMAIN Builtins
  BY <1>1, <1>4 DEF WINDOW_ID_NONE
<1> QED
  BY <1>1, <1>7, <1>8, <1>9 DEF Accounts, Removed

\* An identifier of no entry.
LEMMA NoneHasNoEntry ==
  ASSUME NEW d, DeskOK(d)
  PROVE  desktop_index_of(d, WINDOW_ID_NONE) = 0
<1>1. \A i \in 1..Len(d.apps) : d.apps[i].id # WINDOW_ID_NONE
  BY WindowOf
<1> QED
  BY <1>1, IndexIs DEF Indexed


----------------------------------------------------------------------------
(* The start *)

\* The desktop with the first k windows of kmain.
Built(d, k) ==
  /\ DeskOK(d) /\ Len(d.apps) = k /\ \A i \in 1..k : d.apps[i].id = i
  /\ \A s \in Slots : d.wm.slots[s].id = IF s <= k THEN s ELSE WINDOW_ID_NONE
  /\ k < LAST_ID => d.wm.next_id = k + 1
  /\ d.wm.capture = WINDOW_ID_NONE /\ \A s \in Slots : d.wm.slots[s].events = <<>>

\* Before anything is added the desktop is empty.
LEMMA BuiltNone == Built(desktop_init, 0)
<1> DEFINE d == desktop_init
           wm == window_manager_init
<1>1. WindowOK(FreeSlot) /\ FreeSlot.id = WINDOW_ID_NONE /\ ~FreeSlot.focused
  BY FreeSlotOK
<1>2. FreeSlot.events = <<>>
  BY DEF FreeSlot
<1>3. 1 \in WindowId
  BY WindowsAssumption DEF WindowId
<1>4. /\ wm.slots = [s \in Slots |-> FreeSlot] /\ wm.next_id = 1 /\ wm.capture = WINDOW_ID_NONE
      /\ wm \in Manager
  BY <1>1, <1>3 DEF window_manager_init, Manager, WindowOK
<1>5. \A s \in Slots : wm.slots[s] = FreeSlot
  BY <1>4
<1> HIDE DEF wm
<1>6. SoundManager(wm)
  BY <1>1, <1>4, <1>5 DEF SoundManager
<1>7. LiveIds(wm) = {}
  BY <1>1, <1>5 DEF LiveIds
<1>8. d.wm = wm /\ d.apps = <<>> /\ d.workspace = 1 /\ d.percent = 50 /\ d = [wm |-> wm, apps |-> <<>>, workspace |-> 1, percent |-> 50]
  BY DEF desktop_init, wm
<1>9. d \in DesktopType
  <2>1. 1 \in 1..DESKTOP_WORKSPACES /\ 50 \in 20..80 /\ <<>> \in Seq(AppType)
    BY DesktopAssumption
  <2> QED
    BY <1>4, <1>8, <2>1 DEF DesktopType
<1> HIDE DEF d
<1>10. Len(d.apps) = 0 /\ 0 <= DESKTOP_MAX_APPS
  BY <1>8, DesktopAssumption, WindowsAssumption
<1>11. AppIds(d) = {}
  BY <1>10 DEF AppIds
<1>12. DeskOK(d)
  BY <1>6, <1>7, <1>8, <1>9, <1>10, <1>11 DEF DeskOK
<1>13. \A s \in Slots : d.wm.slots[s].id = IF s <= 0 THEN s ELSE WINDOW_ID_NONE
  BY <1>1, <1>5, <1>8, WindowsAssumption DEF Slots
<1> QED
  BY <1>2, <1>4, <1>5, <1>8, <1>10, <1>12, <1>13 DEF Built, d

\* Each app added at the start has a window of its own.
LEMMA BuiltMore ==
  ASSUME NEW k \in Nat, k < DESKTOP_MAX_APPS, NEW d, Built(d, k)
  PROVE  Built(desktop_add(d).d, k + 1)
<1> DEFINE g == Area(0, 0, 64, 64)
           made == window_create(d.wm, g)
           r == desktop_add(d)
           e == r.d
<1>1. /\ k + 1 <= DESKTOP_MAX_APPS /\ k + 1 <= WINDOW_MAX /\ k + 1 <= LAST_ID /\ k < LAST_ID
      /\ k + 1 \in Slots /\ k + 1 \in Nat /\ DESKTOP_MAX_APPS \in Nat
  BY DesktopAssumption, WindowsAssumption DEF Slots
<1>2. DeskOK(d) /\ SoundManager(d.wm) /\ Len(d.apps) = k
  BY DEF Built, DeskOK
<1>3. d.wm.slots[k + 1].id = WINDOW_ID_NONE
  <2>1. ~(k + 1 <= k)
    OBVIOUS
  <2> QED
    BY <1>1, <2>1 DEF Built
<1>4. made.ok
  <2>1. {s \in Slots : d.wm.slots[s].id = WINDOW_ID_NONE} # {}
    BY <1>1, <1>3
  <2> QED
    BY <2>1 DEF window_create
<1> HIDE DEF g
<1>5. r.ok
  <2>1. ~(Len(d.apps) >= DESKTOP_MAX_APPS)
    BY <1>1, <1>2
  <2>2. ~(Len(d.apps) >= DESKTOP_MAX_APPS \/ ~made.ok)
    BY <1>4, <2>1
  <2> HIDE DEF made
  <2>3. r = [ok |-> TRUE, id |-> made.id,
             d |-> [d EXCEPT !.wm = made.wm, !.apps = Append(@, App(made.id, d.workspace))]]
    BY <2>2 DEF desktop_add, made, g
  <2> QED
    BY <2>3
<1>6. Added(d, r)
  BY <1>2, <1>5, Adds2
<1> HIDE DEF r, made
<1>7. PICK slot : Made(d.wm, g, made, slot) /\ e.wm = made.wm /\ r.id = made.id
  BY <1>6 DEF Added, g, made
<1>8. slot = k + 1
  <2>1. slot \in Slots /\ d.wm.slots[slot].id = WINDOW_ID_NONE
        /\ \A s \in Slots : d.wm.slots[s].id = WINDOW_ID_NONE => slot <= s
    BY <1>7 DEF Made
  <2>2. slot <= k + 1
    BY <1>1, <1>3, <2>1
  <2>3. slot \in Nat /\ slot # WINDOW_ID_NONE
    BY <2>1 DEF Slots, WINDOW_ID_NONE
  <2>4. ~(slot <= k)
    BY <2>1, <2>3 DEF Built
  <2> QED
    BY <1>1, <2>2, <2>3, <2>4
<1>9. made.id = k + 1
  <2>1. d.wm.next_id = k + 1
    BY <1>1 DEF Built
  <2>2. ~known(d.wm, k + 1)
    <3>1. ASSUME NEW s \in Slots, d.wm.slots[s].id = k + 1 PROVE FALSE
      <4>1. s \in Nat /\ k + 1 # WINDOW_ID_NONE
        BY DEF Slots, WINDOW_ID_NONE
      <4>2. s <= k /\ s = k + 1
        BY <3>1, <4>1 DEF Built
      <4> QED
        BY <4>1, <4>2
    <3> QED
      BY <3>1 DEF known, slots_of
  <2>3. take_id(d.wm) = d.wm.next_id
    BY <1>1, <1>2, <1>3, <2>1, <2>2, TakesAnother
  <2> QED
    BY <1>7, <2>1, <2>3 DEF Made
<1>10. /\ e.wm.slots = [d.wm.slots EXCEPT ![k + 1] = NewWindow(k + 1, g)]
       /\ e.wm.next_id = following(k + 1) /\ e.wm.capture = WINDOW_ID_NONE
  BY <1>7, <1>8, <1>9 DEF Made, Built
<1>11. /\ DeskOK(e) /\ Len(e.apps) = k + 1 /\ e.apps[k + 1].id = k + 1
       /\ \A i \in 1..k : e.apps[i] = d.apps[i]
  BY <1>2, <1>6, <1>7, <1>9 DEF Added
<1>12. \A i \in 1..(k + 1) : e.apps[i].id = i
  <2>1. \A i \in 1..(k + 1) : i \in 1..k \/ i = k + 1
    OBVIOUS
  <2> QED
    BY <1>11, <2>1 DEF Built
<1>13. \A s \in Slots : e.wm.slots[s] = IF s = k + 1 THEN NewWindow(k + 1, g) ELSE d.wm.slots[s]
  BY <1>2, <1>10 DEF SoundManager, Manager
<1>14. NewWindow(k + 1, g).id = k + 1 /\ NewWindow(k + 1, g).events = <<>>
  BY DEF NewWindow, FreeSlot
<1>15. ASSUME NEW s \in Slots
       PROVE  /\ e.wm.slots[s].id = IF s <= k + 1 THEN s ELSE WINDOW_ID_NONE
              /\ e.wm.slots[s].events = <<>>
  <2>1. s \in Nat
    BY DEF Slots
  <2>2. CASE s = k + 1
    BY <1>13, <1>14, <2>2
  <2>3. CASE s # k + 1
    <3>1. e.wm.slots[s] = d.wm.slots[s] /\ (s <= k <=> s <= k + 1)
      BY <1>13, <2>1, <2>3
    <3> QED
      BY <3>1 DEF Built
  <2> QED
    BY <2>2, <2>3
<1>16. k + 1 < LAST_ID => e.wm.next_id = (k + 1) + 1
  <2>1. k + 1 \in WindowId
    BY <1>1, WindowsAssumption DEF WindowId
  <2> QED
    BY <1>10, <2>1, FollowingIs
<1> QED
  BY <1>10, <1>11, <1>12, <1>15, <1>16 DEF Built, r

\* The recursive definition of `added' is one.
LEMMA AddedIs ==
  /\ added[0] = desktop_init
  /\ \A k \in 1..Len(Builtins) : added[k] = desktop_add(added[k - 1]).d
<1> DEFINE n == Len(Builtins)
           Body(f) == [k \in 0..n |-> IF k = 0 THEN desktop_init ELSE desktop_add(f[k - 1]).d]
           S == {d \in DesktopType : DeskOK(d)}
           step == [k \in Nat |-> [d \in S |-> desktop_add(d).d]]
           g == Iterate(step, desktop_init)
           f == [k \in 0..n |-> g[k]]
<1>1. n \in Nat
  BY LoopAssumption, DesktopAssumption, WindowsAssumption
<1>2. desktop_init \in S
  BY BuiltNone DEF Built, DeskOK
<1>3. ASSUME NEW d \in S PROVE desktop_add(d).d \in S
  <2>1. CASE desktop_add(d).ok
    BY <2>1, Adds2 DEF Added, DeskOK
  <2>2. CASE ~desktop_add(d).ok
    <3>1. desktop_add(d).d = d
      BY <2>2 DEF desktop_add
    <3> QED
      BY <3>1
  <2> QED
    BY <2>1, <2>2
<1> HIDE DEF S
<1>4. step \in [Nat -> [S -> S]]
  BY <1>3
<1>5. /\ g \in [Nat -> S] /\ g[0] = desktop_init
      /\ \A k \in Nat : g[k + 1] = step[k + 1][g[k]]
  <2> DEFINE start == desktop_init
  <2> HIDE DEF step, start
  <2>1. start \in S
    BY <1>2 DEF start
  <2>2. /\ Iterate(step, start) \in [Nat -> S] /\ Iterate(step, start)[0] = start
        /\ \A k \in Nat : Iterate(step, start)[k + 1] = step[k + 1][Iterate(step, start)[k]]
    BY <1>4, <2>1, IterateWalks
  <2> QED
    BY <2>2 DEF start
<1> HIDE DEF g, n
<1>6. f = Body(f)
  <2>1. ASSUME NEW k \in 0..n, k # 0 PROVE g[k] = desktop_add(f[k - 1]).d
    <3>1. k - 1 \in Nat /\ (k - 1) + 1 = k /\ k \in Nat /\ k - 1 \in 0..n
      BY <1>1, <2>1
    <3>2. g[k] = step[k][g[k - 1]] /\ g[k - 1] \in S
      BY <1>5, <3>1
    <3>3. step[k][g[k - 1]] = desktop_add(g[k - 1]).d
      BY <3>1, <3>2
    <3> QED
      BY <3>1, <3>2, <3>3
  <2> QED
    BY <1>5, <2>1
<1> HIDE DEF f, step
<1>7. added = Body(added)
  <2> DEFINE Is(h) == h = Body(h)
  <2>1. \E h : Is(h)
    BY <1>6
  <2>2. added = CHOOSE h : Is(h)
    BY DEF added, n
  <2> HIDE DEF Is
  <2>3. Is(added)
    BY <2>1, <2>2
  <2> QED
    BY <2>3 DEF Is
<1>8. \A k \in 0..n : added[k] = IF k = 0 THEN desktop_init ELSE desktop_add(added[k - 1]).d
  BY <1>7
<1> QED
  BY <1>1, <1>8 DEF n

\* So has every app the machine starts with.
LEMMA AllBuilt == Built(added[Len(Builtins)], Len(Builtins))
<1> DEFINE n == Len(Builtins)
           Bad == {k \in Nat : k \in 0..n /\ ~Built(added[k], k)}
<1>1. n \in Nat /\ n <= DESKTOP_MAX_APPS /\ DESKTOP_MAX_APPS \in Nat
  BY LoopAssumption, DesktopAssumption, WindowsAssumption
<1>2. Bad = {}
  <2> SUFFICES ASSUME Bad # {} PROVE FALSE
    OBVIOUS
  <2>1. PICK k \in Bad : \A j \in Bad : k <= j
    BY LeastNat
  <2>2. k \in 0..n /\ ~Built(added[k], k)
    BY <2>1
  <2>3. k # 0
    BY <2>2, AddedIs, BuiltNone
  <2>4. k - 1 \in Nat /\ k - 1 \in 0..n /\ k \in 1..n /\ k - 1 \notin Bad /\ (k - 1) + 1 = k
    BY <2>1, <2>2, <2>3
  <2>5. Built(added[k - 1], k - 1) /\ k - 1 < DESKTOP_MAX_APPS
    BY <1>1, <2>4
  <2>6. added[k] = desktop_add(added[k - 1]).d
    BY <2>4, AddedIs
  <2>7. Built(desktop_add(added[k - 1]).d, (k - 1) + 1)
    BY <2>4, <2>5, BuiltMore
  <2> QED
    BY <2>2, <2>4, <2>6, <2>7
<1> QED
  BY <1>1, <1>2

\* No press and no release waits in a queue.
Silent(wm) == \A s \in Slots : Ups(wm.slots[s].events) = {} /\ Downs(wm.slots[s].events) = {}

\* A desktop with no button's event waiting has none after a step that brings none.
LEMMA SilentStays ==
  ASSUME NEW wm, Silent(wm), NEW wn, Calm(wm, wn)
  PROVE  Silent(wn)
BY DEF Silent, Calm, Hushed

\* The desktop kmain shows first.
LEMMA BootedIs ==
  /\ Booted.ok \in BOOLEAN
  /\ Accounts(Booted.d, WINDOW_ID_NONE)
  /\ Booted.ok => Settled(Booted.d)
  /\ Booted.d.wm.capture = WINDOW_ID_NONE /\ Silent(Booted.d.wm)
  /\ \E given : DeskOK(given) /\ Booted = desktop_relayout(given)
<1> DEFINE n == Len(Builtins)
           b == added[n]
           entry(i) == [b.apps[i] EXCEPT !.hidden = i # 1]
           table == [i \in DOMAIN b.apps |-> entry(i)]
           alone == [b EXCEPT !.apps = table]
           given == [alone EXCEPT !.wm = window_focus(@, 1)]
           r == desktop_relayout(given)
<1>1. Booted = r
  BY DEF Booted
<1>2. Built(b, n) /\ n \in Nat /\ DOMAIN Builtins = 1..n
  BY AllBuilt, LoopAssumption, DesktopAssumption, WindowsAssumption
<1> HIDE DEF b, n
<1>3. /\ DeskOK(b) /\ b \in DesktopType /\ b.apps \in Seq(AppType) /\ Len(b.apps) = n
      /\ DOMAIN b.apps = 1..n
  BY <1>2 DEF Built, DeskOK, DesktopType
<1>4. ASSUME NEW i \in 1..n PROVE entry(i) \in AppType /\ entry(i).id = b.apps[i].id
  <2> DEFINE a == b.apps[i]
  <2>1. a \in AppType
    BY <1>3
  <2>2. (i # 1) \in BOOLEAN
    OBVIOUS
  <2> DEFINE p == i # 1
  <2> HIDE DEF a, p
  <2>3. LET c == [a EXCEPT !.hidden = p] IN c \in AppType /\ c.id = a.id
    BY <2>1, <2>2 DEF AppType, p
  <2> QED
    BY <2>3 DEF a, p
<1> HIDE DEF entry
<1>5. table \in Seq(AppType) /\ Len(table) = n /\ \A i \in 1..n : table[i].id = b.apps[i].id
  <2>1. table \in [1..n -> AppType]
    BY <1>3, <1>4
  <2>2. \A i \in 1..n : table[i] = entry(i)
    BY <1>3
  <2> HIDE DEF table
  <2> QED
    BY <1>2, <1>4, <2>1, <2>2, FunctionIsSeq
<1> HIDE DEF table
<1>6. Rearranged(b, alone) /\ alone.wm = b.wm /\ DeskOK(alone)
  BY <1>3, <1>5, TableChanged DEF Rearranged
<1> HIDE DEF alone
<1>7. FocusedOn(alone, given, 1)
  BY <1>6, GivesFocus
<1> HIDE DEF given
<1>8. Rearranged(alone, given) /\ Calm(alone.wm, given.wm) /\ DeskOK(given)
  BY <1>7 DEF FocusedOn, OnlyManager, Rearranged
<1>9. Relaid(given, r)
  BY <1>8, Relayouts
<1>0. \E g : DeskOK(g) /\ r = desktop_relayout(g)
  BY <1>8
<1> HIDE DEF r
<1>10. /\ r.ok \in BOOLEAN /\ Rearranged(given, r.d) /\ Calm(given.wm, r.d.wm)
       /\ r.ok => Settled(r.d)
  BY <1>9 DEF Relaid, Changed
<1>11. Rearranged(b, r.d) /\ Calm(b.wm, r.d.wm)
  <2>1. Rearranged(b, given)
    BY <1>6, <1>8, RearrangedTwice
  <2>2. Calm(b.wm, given.wm)
    BY <1>6, <1>8
  <2> QED
    BY <1>10, <2>1, <2>2, RearrangedTwice, CalmTwice
<1>12. b.wm.capture = WINDOW_ID_NONE /\ Silent(b.wm)
  BY <1>2 DEF Built, Silent, Ups, Downs
<1>13. r.d.wm.capture = WINDOW_ID_NONE /\ Silent(r.d.wm)
  BY <1>11, <1>12, SilentStays DEF Calm
<1>14. Accounts(b, WINDOW_ID_NONE)
  <2>1. WINDOW_ID_NONE \notin DOMAIN Builtins
    BY <1>2 DEF WINDOW_ID_NONE
  <2>2. \A i \in 1..n : b.apps[i].id = i
    BY <1>2 DEF Built
  <2>3. AppIds(b) = 1..n
    BY <1>3, <2>2 DEF AppIds
  <2> QED
    BY <1>2, <1>3, <2>1, <2>2, <2>3 DEF Accounts
<1>15. Accounts(r.d, WINDOW_ID_NONE)
  BY <1>11, <1>14, AccountsStay
<1> QED
  BY <1>0, <1>1, <1>10, <1>13, <1>15


----------------------------------------------------------------------------
(* The loop *)

\* relayout_desktop settles the desktop or halts the machine.
LEMMA RelaysOut ==
  ASSUME NEW d, DeskOK(d), NEW next, relayout_desktop(d, next)
  PROVE  /\ Rearranged(d, desk') /\ Calm(d.wm, desk'.wm) /\ phase' \in {next, "halted"}
         /\ phase' # "halted" => Settled(desk')
<1> DEFINE r == desktop_relayout(d)
<1>1. desk' = r.d /\ phase' = IF r.ok THEN next ELSE "halted"
  BY DEF relayout_desktop
<1>2. Relaid(d, r)
  BY Relayouts
<1> HIDE DEF r
<1> QED
  BY <1>1, <1>2 DEF Relaid, Changed

\* So it does where it is called after a change, and the rest stays settled.
LEMMA RelaysOutIf ==
  ASSUME NEW r, DeskOK(desk), Changed(desk, r), NEW next, relayout_if(r, next)
  PROVE  /\ Rearranged(desk, desk') /\ Calm(desk.wm, desk'.wm) /\ phase' \in {next, "halted"}
         /\ (phase' # "halted" /\ Settled(desk)) => Settled(desk')
<1>1. r.ok \in BOOLEAN /\ Rearranged(desk, r.d) /\ Calm(desk.wm, r.d.wm) /\ (~r.ok => r.d = desk)
  BY DEF Changed
<1>2. CASE r.ok
  <2>1. relayout_desktop(r.d, next)
    BY <1>2 DEF relayout_if
  <2>2. DeskOK(r.d)
    BY <1>1 DEF Rearranged
  <2>3. /\ Rearranged(r.d, desk') /\ Calm(r.d.wm, desk'.wm) /\ phase' \in {next, "halted"}
        /\ phase' # "halted" => Settled(desk')
    BY <2>1, <2>2, RelaysOut
  <2> QED
    BY <1>1, <2>3, RearrangedTwice, CalmTwice
<1>3. CASE ~r.ok
  <2>1. desk' = r.d /\ phase' = next
    BY <1>3 DEF relayout_if
  <2> QED
    BY <1>1, <1>3, <2>1
<1> QED
  BY <1>2, <1>3

\* Windows told, or the pointer's holder changed: the screen is as it was.
LEMMA ManagerStays ==
  ASSUME NEW d, DeskOK(d), NEW wn, SoundManager(wn), SameWindows(d.wm, wn)
  PROVE  LET e == [d EXCEPT !.wm = wn]
         IN  /\ Rearranged(d, e) /\ e.wm = wn /\ SameScreen(d, e)
             /\ e.apps = d.apps /\ e.workspace = d.workspace
             /\ Shared(d) => Shared(e)
             /\ (Settled(d) /\ window_focused(wn) = window_focused(d.wm)) => Settled(e)
<1> DEFINE e == [d EXCEPT !.wm = wn]
<1>1. OnlyManager(d, e) /\ e.wm = wn
  BY ManagerChanged
<1> HIDE DEF e
<1>2. SameScreen(d, e) /\ (Shared(d) => Shared(e))
  BY <1>1, SameTableSameScreen, SharedStays DEF OnlyManager
<1>3. (Settled(d) /\ window_focused(wn) = window_focused(d.wm)) => Settled(e)
  BY <1>1, <1>2 DEF Settled, FocusShown, SameScreen
<1> QED
  BY <1>1, <1>2, <1>3 DEF OnlyManager, e

\* A desktop where only queues and focus changed is rearranged.
LEMMA TellsStay ==
  ASSUME NEW d, DeskOK(d), NEW wn, Told(d.wm, wn)
  PROVE  LET e == [d EXCEPT !.wm = wn]
         IN  /\ Rearranged(d, e) /\ e.wm = wn
             /\ Settled(d) => Settled(e)
BY ManagerStays DEF Told

\* What the pointer does to the windows.
LEMMA RoutedStays ==
  ASSUME NEW d, DeskOK(d), NEW type \in PointerTypes, NEW to
  PROVE  /\ Rearranged(d, routed(d, type, to))
         /\ routed(d, type, to).wm = window_route_pointer(d.wm, type, to)
         /\ SameScreen(d, routed(d, type, to))
         /\ Settled(d) => Settled(routed(d, type, to))
<1> DEFINE wn == window_route_pointer(d.wm, type, to)
           e == [d EXCEPT !.wm = wn]
           hit == window_hit_test(d.wm, to)
<1>1. routed(d, type, to) = e
  BY DEF routed
<1>2. SoundManager(d.wm)
  BY DEF DeskOK
<1>3. /\ SoundManager(wn) /\ SameWindows(d.wm, wn)
      /\ window_focused(wn) = IF type = "DOWN" THEN hit ELSE window_focused(d.wm)
  BY <1>2, RouteKeeps
<1> HIDE DEF wn
<1>4. /\ Rearranged(d, e) /\ e.wm = wn /\ SameScreen(d, e) /\ (Shared(d) => Shared(e))
      /\ (Settled(d) /\ window_focused(wn) = window_focused(d.wm)) => Settled(e)
  BY <1>3, ManagerStays
<1>5. CASE type # "DOWN"
  BY <1>1, <1>3, <1>4, <1>5 DEF wn
<1>6. CASE type = "DOWN"
  <2> HIDE DEF e
  <2>1. SUFFICES ASSUME Settled(d) PROVE Settled(e)
    BY <1>1, <1>4 DEF wn
  <2>2. Shared(d) /\ window_focused(e.wm) = hit
    BY <1>3, <1>4, <1>6, <2>1 DEF Settled
  <2>3. CASE hit = WINDOW_ID_NONE
    BY <1>4, <2>2, <2>3 DEF Settled, FocusShown
  <2>4. CASE hit # WINDOW_ID_NONE
    <3>1. hit \in LiveIds(d.wm) /\ ~window_get(d.wm, hit).minimized
      BY <1>2, <2>4, HitIsDrawn
    <3>2. PICK i \in 1..Len(d.apps) : d.apps[i].id = hit
      BY <3>1 DEF DeskOK, AppIds
    <3> HIDE DEF hit
    <3>3. desktop_on_screen(d, i)
      BY <2>2, <3>1, <3>2, ShownIsDrawn
    <3>4. desktop_index_of(d, hit) = i
      BY <3>2, IndexIs DEF Indexed
    <3>5. desktop_on_screen(e, desktop_index_of(e, hit))
      BY <1>4, <3>3, <3>4 DEF SameScreen
    <3> QED
      BY <1>4, <2>2, <3>5 DEF Settled, FocusShown
  <2> QED
    BY <2>3, <2>4
<1> QED
  BY <1>5, <1>6

\* A press on the desktop itself.
Pressed(d, p) ==
  /\ p.ok \in BOOLEAN /\ p.launcher \in BOOLEAN /\ p.claimed \in BOOLEAN
  /\ Rearranged(d, p.d) /\ Calm(d.wm, p.d.wm)
  /\ (p.ok /\ Settled(d)) => Settled(p.d)

\* The desktop left as it is.
Untouched(d, p) ==
  p.ok = TRUE /\ p.d = d /\ p.claimed \in BOOLEAN /\ p.launcher \in BOOLEAN

\* A press that falls on nothing.
LEMMA NotPressed ==
  ASSUME NEW d, DeskOK(d), NEW p, Untouched(d, p)
  PROVE  Pressed(d, p)
BY RearrangedSelf, CalmSelf DEF Pressed, Untouched

\* The desktop laid out anew after changes, or left alone when there were none,
\* and the keyboard given to a window of it.
PressMade(d, c, made, i) ==
  LET r == IF made THEN desktop_relayout(c) ELSE [ok |-> TRUE, d |-> d]
  IN  Press(TRUE, r.ok, FALSE, [r.d EXCEPT !.wm = window_focus(@, d.apps[i].id)])

\* The press goes well, and the app `i' is on the screen with the keyboard.
Gives(d, p, i) ==
  /\ Pressed(d, p) /\ p.claimed
  /\ (p.ok /\ Settled(d)) => /\ desktop_on_screen(p.d, i)
                            /\ window_focused(p.d.wm) = d.apps[i].id

\* A press that gives the keyboard to an app on the screen.
LEMMA PressGives ==
  ASSUME NEW d, DeskOK(d), NEW c, Rearranged(d, c), Calm(d.wm, c.wm), NEW made \in BOOLEAN,
         NEW i \in 1..Len(d.apps), desktop_on_screen(IF made THEN c ELSE d, i)
  PROVE  Gives(d, PressMade(d, c, made, i), i)
<1> DEFINE r == IF made THEN desktop_relayout(c) ELSE [ok |-> TRUE, d |-> d]
           from == IF made THEN c ELSE d
           id == d.apps[i].id
           e == [r.d EXCEPT !.wm = window_focus(@, id)]
           p == Press(TRUE, r.ok, FALSE, e)
<1>0. desktop_on_screen(from, i)
  OBVIOUS
<1>1. /\ r.ok \in BOOLEAN /\ Rearranged(d, r.d) /\ Calm(d.wm, r.d.wm) /\ SameScreen(from, r.d)
      /\ (r.ok /\ Settled(d)) => Settled(r.d)
  <2>1. CASE made
    <3>1. DeskOK(c)
      BY DEF Rearranged
    <3>2. Relaid(c, r) /\ from = c
      BY <2>1, <3>1, Relayouts
    <3> HIDE DEF r, from
    <3>3. Rearranged(c, r.d) /\ Calm(c.wm, r.d.wm)
      BY <3>2 DEF Relaid, Changed
    <3>4. Rearranged(d, r.d) /\ Calm(d.wm, r.d.wm)
      BY <3>3, RearrangedTwice, CalmTwice
    <3> QED
      BY <3>2, <3>4 DEF Relaid, Changed
  <2>2. CASE ~made
    <3>1. r = [ok |-> TRUE, d |-> d] /\ from = d
      BY <2>2
    <3> HIDE DEF r, from
    <3> QED
      BY <3>1, RearrangedSelf, CalmSelf DEF SameScreen
  <2> QED
    BY <2>1, <2>2
<1> HIDE DEF r, from
<1>2. DeskOK(r.d) /\ i \in 1..Len(r.d.apps) /\ r.d.apps[i].id = id
  BY <1>1 DEF Rearranged
<1> HIDE DEF id
<1>3. FocusedOn(r.d, e, id)
  BY <1>2, GivesFocus
<1>4. Shared(r.d) =>
        /\ window_focused(e.wm) = IF desktop_on_screen(r.d, i) THEN id ELSE window_focused(r.d.wm)
        /\ (desktop_on_screen(r.d, i) \/ FocusShown(r.d)) => FocusShown(e)
  <2> SUFFICES ASSUME Shared(r.d)
               PROVE  /\ window_focused(e.wm) = IF desktop_on_screen(r.d, i) THEN id ELSE window_focused(r.d.wm)
                      /\ (desktop_on_screen(r.d, i) \/ FocusShown(r.d)) => FocusShown(e)
    OBVIOUS
  <2>1. e = [r.d EXCEPT !.wm = window_focus(@, r.d.apps[i].id)]
    BY <1>2
  <2> HIDE DEF e
  <2> QED
    BY <1>2, <2>1, GivesFocusTo
<1> HIDE DEF e
<1>5. Rearranged(d, e) /\ Calm(d.wm, e.wm) /\ SameScreen(r.d, e)
  BY <1>1, <1>3, RearrangedTwice, CalmTwice DEF FocusedOn, OnlyManager
<1>6. (r.ok /\ Settled(d)) => Settled(e)
  BY <1>1, <1>3, <1>4 DEF Settled, FocusedOn
<1>7. p.ok = r.ok /\ p.d = e /\ p.claimed /\ ~p.launcher /\ p.claimed \in BOOLEAN /\ p.launcher \in BOOLEAN
  BY DEF Press
<1>8. Pressed(d, p)
  BY <1>1, <1>5, <1>6, <1>7 DEF Pressed
<1>9. (p.ok /\ Settled(d)) => desktop_on_screen(p.d, i) /\ window_focused(p.d.wm) = id
  <2> HIDE DEF p
  <2> SUFFICES ASSUME p.ok, Settled(d)
               PROVE  desktop_on_screen(p.d, i) /\ window_focused(p.d.wm) = id
    OBVIOUS
  <2>1. Settled(r.d) /\ desktop_on_screen(r.d, i)
    BY <1>0, <1>1, <1>7 DEF SameScreen
  <2>2. window_focused(e.wm) = id
    BY <1>4, <2>1 DEF Settled
  <2>3. desktop_on_screen(e, i)
    BY <1>5, <2>1 DEF SameScreen
  <2> QED
    BY <1>7, <2>2, <2>3
<1>10. p = PressMade(d, c, made, i)
  BY DEF PressMade, p, e, r, id
<1>11. p.claimed
  BY <1>7
<1> HIDE DEF p
<1> QED
  BY <1>8, <1>9, <1>10, <1>11 DEF Gives, id

\* A taskbar button or an entry of the launcher: the window is on the screen and
\* has the keyboard.
LEMMA BringsBack ==
  ASSUME NEW d, DeskOK(d), NEW i \in 1..Len(d.apps)
  PROVE  Gives(d, brought_back(d, i), i)
<1> DEFINE id == d.apps[i].id
           shown == desktop_set_hidden(d, id, FALSE)
           there == d.apps[i].workspace
           switched == desktop_switch_workspace(shown.d, there)
           made == shown.ok \/ switched.ok
           c == switched.d
<1>0. d.apps[i] \in AppType
  BY DEF DeskOK, DesktopType
<1>1. desktop_index_of(d, id) = i /\ i # 0
  BY IndexIs DEF Indexed, DeskOK, DesktopType
<1>2. Changed(d, shown) /\ Hid(d, shown.d, i, FALSE)
  BY <1>1, SetsHidden
<1>3. shown.ok \in BOOLEAN /\ Rearranged(d, shown.d) /\ Calm(d.wm, shown.d.wm) /\ (~shown.ok => shown.d = d)
  BY <1>2 DEF Changed
<1>4. shown.d.apps[i].hidden = FALSE /\ shown.d.apps[i].workspace = there
  BY <1>2 DEF Hid
<1>5. there \in 1..DESKTOP_WORKSPACES
  BY <1>0 DEF AppType
<1>6. brought_back(d, i) = PressMade(d, c, made, i)
  BY DEF brought_back, PressMade
<1> HIDE DEF shown, there
<1>7. DeskOK(shown.d)
  BY <1>3 DEF Rearranged
<1>8. /\ Changed(shown.d, switched) /\ c.apps = shown.d.apps /\ c.wm = shown.d.wm
      /\ c.workspace = there
  BY <1>5, <1>7, Switches
<1> HIDE DEF switched
<1>9. switched.ok \in BOOLEAN /\ Rearranged(shown.d, c) /\ Calm(shown.d.wm, c.wm) /\ (~switched.ok => c = shown.d)
  BY <1>8 DEF Changed
<1>10. made \in BOOLEAN
  BY <1>3, <1>9
<1>11. ~made => c = d
  BY <1>3, <1>9
<1>12. Rearranged(d, c) /\ Calm(d.wm, c.wm)
  BY <1>3, <1>9, RearrangedTwice, CalmTwice
<1>13. desktop_on_screen(IF made THEN c ELSE d, i)
  <2>1. i \in 1..Len(c.apps)
    BY <1>12 DEF Rearranged
  <2>2. desktop_on_screen(c, i)
    BY <1>4, <1>8, <2>1 DEF desktop_on_screen
  <2> HIDE DEF made, c
  <2> QED
    BY <1>11, <2>2
<1> HIDE DEF made, c
<1> QED
  BY <1>6, <1>10, <1>12, <1>13, PressGives

----------------------------------------------------------------------------
(* A press on the desktop itself *)

\* The first of some numbers, and 0 for none.
first_of(S) == IF S = {} THEN 0 ELSE CHOOSE i \in S : \A j \in S : i <= j

\* The first of a set of places, or 0.
LEMMA FirstOf ==
  ASSUME NEW n \in Nat, NEW S \in SUBSET (1..n)
  PROVE  first_of(S) \in 0..n /\ (first_of(S) # 0 => first_of(S) \in S)
<1>1. CASE S = {}
  <2>1. first_of(S) = 0
    BY <1>1 DEF first_of
  <2> QED
    BY <2>1
<1>2. CASE S # {}
  <2>1. S \in SUBSET Nat
    OBVIOUS
  <2>2. \E i \in S : \A j \in S : i <= j
    BY <1>2, <2>1, LeastNat
  <2>3. first_of(S) \in S
    BY <1>2, <2>2 DEF first_of
  <2>4. first_of(S) \in 1..n
    BY <2>3
  <2> QED
    BY <2>3, <2>4
<1> QED
  BY <1>1, <1>2

\* The entry of the launcher under the pointer is an app's.
LEMMA LauncherEntry ==
  ASSUME NEW d, DeskOK(d), NEW where
  PROVE  launcher_entry_at(d, where) \in 0..Len(d.apps)
<1> DEFINE n == Len(d.apps)
           S == {i \in 1..n : contains(launcher_entry(n, i), where)}
           v == launcher_entry_at(d, where)
<1>1. n \in Nat
  BY DEF DeskOK, DesktopType
<1>2. v = first_of(S)
  BY DEF launcher_entry_at, first_of
<1>3. S \in SUBSET (1..n)
  OBVIOUS
<1> HIDE DEF n, S, v
<1>4. v \in 0..n
  BY <1>1, <1>2, <1>3, FirstOf
<1> QED
  BY <1>4 DEF n, v

\* The button of the task bar under the pointer is an app's.
LEMMA TaskEntry ==
  ASSUME NEW d, DeskOK(d), NEW where
  PROVE  /\ desktop_taskbar_hit(d, where) \in 0..Len(d.apps)
         /\ desktop_taskbar_hit(d, where) # 0 =>
              contains(task_button(Screen, desktop_taskbar_hit(d, where)), where)
<1> DEFINE n == Len(d.apps)
           fits(i) == LET b == task_button(Screen, i) IN b.x + b.width <= Screen.width
           on(i) == (\A j \in 1..i : fits(j)) /\ contains(task_button(Screen, i), where)
           S == {i \in 1..n : on(i)}
           v == desktop_taskbar_hit(d, where)
<1>1. n \in Nat
  BY DEF DeskOK, DesktopType
<1>2. v = first_of(S)
  BY DEF desktop_taskbar_hit, shell_task_at, first_of
<1>3. S \in SUBSET (1..n)
  OBVIOUS
<1>4. \A i \in S : contains(task_button(Screen, i), where)
  OBVIOUS
<1> HIDE DEF n, S, v
<1>5. v \in 0..n /\ (v # 0 => v \in S)
  BY <1>1, <1>2, <1>3, FirstOf
<1>6. v # 0 => contains(task_button(Screen, v), where)
  BY <1>4, <1>5
<1> QED
  BY <1>5, <1>6 DEF n, v

\* The buttons of the taskbar stand to the right of the launcher's.
LEMMA TaskButton ==
  ASSUME NEW d, DeskOK(d), NEW where, where.x \in Int, desktop_taskbar_hit(d, where) # 0
  PROVE  ~contains(shell_launcher_button(Screen), where)
<1> DEFINE i == desktop_taskbar_hit(d, where)
           x == where.x
<1>1. i \in 0..Len(d.apps) /\ i # 0 /\ contains(task_button(Screen, i), where) /\ Len(d.apps) \in Nat
  BY TaskEntry DEF DeskOK, DesktopType
<1> HIDE DEF i
<1>2. i \in Nat /\ i >= 1
  BY <1>1
<1>3. task_button(Screen, i).x = 52 + (i - 1) * 154
  BY <1>2 DEF task_button, area_make, Area, TILE_BOTTOM_BAR, BAR_PAD, LAUNCHER_WIDTH,
              TASK_WIDTH, TASK_GAP
<1>4. x >= 52 + (i - 1) * 154
  BY <1>1, <1>3 DEF contains
<1>5. shell_launcher_button(Screen).x = 6 /\ shell_launcher_button(Screen).width = 40
  BY DEF shell_launcher_button, area_make, Area, TILE_BOTTOM_BAR, BAR_PAD, LAUNCHER_WIDTH
<1>6. ~contains(shell_launcher_button(Screen), where) \/ x < 46
  BY <1>5 DEF contains
<1> HIDE DEF x
<1>7. x \in Int
  BY DEF x
<1>8. (i - 1) * 154 >= 0
  BY <1>2
<1> QED
  BY <1>2, <1>4, <1>6, <1>7, <1>8

\* A press on a title bar.
LEMMA TitlePress ==
  ASSUME NEW d, DeskOK(d), NEW id, NEW where
  PROVE  Pressed(d, title_bar_press(d, id, where))
<1> DEFINE put == desktop_set_hidden(d, id, TRUE)
           r == IF put.ok THEN desktop_relayout(put.d) ELSE put
           p == Press(TRUE, r.ok \/ ~put.ok, FALSE, r.d)
           q == Press(FALSE, TRUE, FALSE, d)
<1>1. title_bar_press(d, id, where) = p \/ title_bar_press(d, id, where) = q
  BY DEF title_bar_press
<1>0. Pressed(d, q)
  <2>1. Untouched(d, q)
    BY DEF Untouched, Press
  <2> HIDE DEF q
  <2> QED
    BY <2>1, NotPressed
<1>2. Changed(d, put)
  BY SetsHidden
<1> HIDE DEF put
<1>3. put.ok \in BOOLEAN /\ Rearranged(d, put.d) /\ Calm(d.wm, put.d.wm) /\ (~put.ok => put.d = d)
  BY <1>2 DEF Changed
<1>4. ASSUME put.ok PROVE Pressed(d, p)
  <2>1. DeskOK(put.d)
    BY <1>3 DEF Rearranged
  <2>2. r = desktop_relayout(put.d)
    BY <1>4
  <2>3. Relaid(put.d, r)
    BY <2>1, <2>2, Relayouts
  <2> HIDE DEF r
  <2>4. r.ok \in BOOLEAN /\ Rearranged(put.d, r.d) /\ Calm(put.d.wm, r.d.wm) /\ (r.ok => Settled(r.d))
    BY <2>3 DEF Relaid, Changed
  <2>5. Rearranged(d, r.d) /\ Calm(d.wm, r.d.wm)
    BY <1>3, <2>4, RearrangedTwice, CalmTwice
  <2>6. p.ok = r.ok /\ p.d = r.d /\ p.claimed = TRUE /\ p.launcher = FALSE
    BY <1>4, <2>4 DEF Press
  <2> HIDE DEF p
  <2> QED
    BY <2>4, <2>5, <2>6 DEF Pressed
<1>5. ASSUME ~put.ok PROVE Pressed(d, p)
  <2>1. Untouched(d, p)
    BY <1>3, <1>5 DEF Untouched, Press
  <2> HIDE DEF p
  <2> QED
    BY <2>1, NotPressed
<1>6. Pressed(d, p)
  BY <1>3, <1>4, <1>5
<1> HIDE DEF p, q
<1> QED
  BY <1>0, <1>1, <1>6

\* A press anywhere: the desktop is rearranged, and settled if there was room.
LEMMA DesktopPress ==
  ASSUME NEW d, DeskOK(d), NEW where
  PROVE  Pressed(d, desktop_press(d, where))
<1> DEFINE entry == launcher_entry_at(d, where)
           task == desktop_taskbar_hit(d, where)
           p == desktop_press(d, where)
<1> SUFFICES Pressed(d, p)
  OBVIOUS
<1>1. \/ entry # 0 /\ p = brought_back(d, entry)
      \/ task # 0 /\ p = brought_back(d, task)
      \/ p = title_bar_press(d, window_hit_test(d.wm, where), where)
      \/ p = Press(TRUE, TRUE, FALSE, d) \/ p = Press(TRUE, TRUE, TRUE, d)
      \/ p = Press(FALSE, TRUE, FALSE, d)
  BY DEF desktop_press
<1>2. entry \in 0..Len(d.apps) /\ task \in 0..Len(d.apps) /\ Len(d.apps) \in Nat
  BY LauncherEntry, TaskEntry DEF DeskOK, DesktopType
<1> HIDE DEF p, entry, task
<1>3. ASSUME NEW i \in 0..Len(d.apps), i # 0, p = brought_back(d, i)
      PROVE  Pressed(d, p)
  <2>1. i \in 1..Len(d.apps)
    BY <1>2, <1>3
  <2>2. Gives(d, p, i)
    BY <1>3, <2>1, BringsBack
  <2> QED
    BY <2>2 DEF Gives
<1>4. CASE p = title_bar_press(d, window_hit_test(d.wm, where), where)
  BY <1>4, TitlePress
<1>5. CASE \/ p = Press(TRUE, TRUE, FALSE, d) \/ p = Press(TRUE, TRUE, TRUE, d)
           \/ p = Press(FALSE, TRUE, FALSE, d)
  <2>1. /\ Untouched(d, Press(TRUE, TRUE, FALSE, d)) /\ Untouched(d, Press(TRUE, TRUE, TRUE, d))
        /\ Untouched(d, Press(FALSE, TRUE, FALSE, d))
    BY DEF Untouched, Press
  <2>2. Untouched(d, p)
    BY <1>5, <2>1
  <2> QED
    BY <2>2, NotPressed
<1> QED
  BY <1>1, <1>2, <1>3, <1>4, <1>5

\* A click on a button of the taskbar, with the launcher closed.
LEMMA TaskPress ==
  ASSUME NEW d, DeskOK(d), NEW where, where.x \in Int, ~launcher_open,
         desktop_taskbar_hit(d, where) # 0
  PROVE  desktop_press(d, where) = brought_back(d, desktop_taskbar_hit(d, where))
<1>1. ~contains(shell_launcher_button(Screen), where)
  BY TaskButton
<1> QED
  BY <1>1 DEF desktop_press

----------------------------------------------------------------------------
(* The Editor opened, and a program's window gone *)

\* The three windows that read their queues: each of the windows of kmain, and no
\* two of them the same.
LEMMA NamesAre ==
  /\ {demo_window_id, terminal_window_id, editor_window_id} \subseteq DOMAIN Builtins
  /\ DOMAIN Builtins \subseteq 1..LAST_ID
  /\ demo_window_id # terminal_window_id /\ demo_window_id # editor_window_id
  /\ terminal_window_id # editor_window_id
  /\ demo_window_id # 0 /\ terminal_window_id # 0 /\ editor_window_id # 0
<1>1. \A name \in {"DEMO", "TERMINAL", "EDITOR"} :
         window_of(name) \in DOMAIN Builtins /\ Builtins[window_of(name)] = name
  BY LoopAssumption DEF window_of
<1>2. PICK n \in 1..DESKTOP_MAX_APPS : DOMAIN Builtins = 1..n /\ n <= LAST_ID
  BY BuiltinsAre
<1>3. DOMAIN Builtins \subseteq 1..LAST_ID
  BY <1>2, WindowsAssumption
<1> QED
  BY <1>1, <1>2, <1>3 DEF demo_window_id, terminal_window_id, editor_window_id

\* EDIT brings the editor to the screen, or halts the machine.
LEMMA EditorOpens ==
  ASSUME NEW d, DeskOK(d), NEW next, editor_opened(d, next)
  PROVE  /\ Rearranged(d, desk') /\ Calm(d.wm, desk'.wm) /\ phase' \in {next, "halted"}
         /\ (phase' # "halted" /\ Settled(d)) => Settled(desk')
<1> DEFINE put == desktop_set_hidden(d, editor_window_id, FALSE)
           r == IF put.ok THEN desktop_relayout(put.d) ELSE [ok |-> TRUE, d |-> d]
<1>1. desk' = [r.d EXCEPT !.wm = window_focus(@, editor_window_id)]
      /\ phase' = IF r.ok THEN next ELSE "halted"
  BY DEF editor_opened
<1>2. Changed(d, put)
  BY SetsHidden
<1> HIDE DEF put
<1>3. put.ok \in BOOLEAN /\ Rearranged(d, put.d) /\ Calm(d.wm, put.d.wm) /\ (~put.ok => put.d = d)
  BY <1>2 DEF Changed
<1>4. r.ok \in BOOLEAN /\ Rearranged(d, r.d) /\ Calm(d.wm, r.d.wm) /\ ((r.ok /\ Settled(d)) => Settled(r.d))
  <2>1. CASE put.ok
    <3>1. DeskOK(put.d)
      BY <1>3 DEF Rearranged
    <3>2. Relaid(put.d, r)
      BY <2>1, <3>1, Relayouts
    <3> HIDE DEF r
    <3>3. r.ok \in BOOLEAN /\ Rearranged(put.d, r.d) /\ Calm(put.d.wm, r.d.wm) /\ (r.ok => Settled(r.d))
      BY <3>2 DEF Relaid, Changed
    <3> QED
      BY <1>3, <3>3, RearrangedTwice, CalmTwice
  <2>2. CASE ~put.ok
    <3>1. r.ok = TRUE /\ r.d = d
      BY <2>2
    <3> HIDE DEF r
    <3> QED
      BY <3>1, RearrangedSelf, CalmSelf
  <2> QED
    BY <1>3, <2>1, <2>2
<1> HIDE DEF r
<1>5. DeskOK(r.d)
  BY <1>4 DEF Rearranged
<1>6. FocusedOn(r.d, desk', editor_window_id)
  BY <1>1, <1>5, GivesFocus
<1>7. Rearranged(r.d, desk') /\ Calm(r.d.wm, desk'.wm)
  BY <1>6 DEF FocusedOn, OnlyManager
<1>8. Settled(r.d) => Settled(desk')
  <2> SUFFICES ASSUME Settled(r.d) PROVE Settled(desk')
    OBVIOUS
  <2> DEFINE i == desktop_index_of(r.d, editor_window_id)
  <2>1. Shared(r.d) /\ FocusShown(r.d)
    BY DEF Settled
  <2>2. CASE i = 0
    <3>1. ~known(r.d.wm, editor_window_id)
      <4>1. editor_window_id \notin AppIds(r.d)
        BY <1>5, <2>2, IndexIs DEF Indexed, AppIds
      <4>2. editor_window_id \notin LiveIds(r.d.wm)
        BY <1>5, <4>1 DEF DeskOK
      <4> QED
        BY <4>2, LiveKnown
    <3>2. window_focused(desk'.wm) = window_focused(r.d.wm)
      <4>1. SoundManager(r.d.wm)
        BY <1>5 DEF DeskOK
      <4>2. desk'.wm = window_focus(r.d.wm, editor_window_id)
        BY <1>1, <1>5 DEF DeskOK, DesktopType
      <4>3. editor_window_id # WINDOW_ID_NONE
        BY NamesAre DEF WINDOW_ID_NONE
      <4> QED
        BY <3>1, <4>1, <4>2, <4>3, FocusKeeps
    <3> QED
      BY <1>6, <2>1, <3>2 DEF FocusedOn, SameScreen, Settled, FocusShown
  <2>3. CASE i # 0
    <3>1. i \in 1..Len(r.d.apps) /\ r.d.apps[i].id = editor_window_id
      BY <1>5, <2>3, IndexIs DEF Indexed
    <3>2. desk' = [r.d EXCEPT !.wm = window_focus(@, r.d.apps[i].id)]
      BY <1>1, <3>1
    <3> HIDE DEF i
    <3>3. FocusShown(desk')
      BY <1>5, <2>1, <3>1, <3>2, GivesFocusTo
    <3> QED
      BY <1>6, <2>1, <3>3 DEF FocusedOn, Settled
  <2> QED
    BY <2>2, <2>3
<1>9. Rearranged(d, desk') /\ Calm(d.wm, desk'.wm)
  BY <1>4, <1>7, RearrangedTwice, CalmTwice
<1> QED
  BY <1>1, <1>4, <1>8, <1>9

----------------------------------------------------------------------------
(* The rectangle held in Demo *)

QueueOf(wm) == window_get(wm, demo_window_id).events

\* Demo holds its rectangle, or will once it has read its queue.
Holds(wm, held) == dragged(QueueOf(wm), held, TRUE)

\* No press and no release for Demo, and the pointer its own as before.
DemoKept(wm, wn) ==
  /\ wn.capture = demo_window_id <=> wm.capture = demo_window_id
  /\ Ups(QueueOf(wn)) = Ups(QueueOf(wm)) /\ Downs(QueueOf(wn)) = Downs(QueueOf(wm))

\* What the demo's loop makes of the events waiting for it.
LEMMA DraggedIs ==
  ASSUME NEW q, NEW before, NEW held
  PROVE  dragged(q, before, held) <=>
           \/ before /\ Ups(q) = {}
           \/ held /\ \E i \in Downs(q) : \A j \in Ups(q) : j < i
BY DEF dragged, Ups, Downs

\* A step that keeps the demo's queue keeps what it holds.
LEMMA HoldsSame ==
  ASSUME NEW wm, NEW wn, DemoKept(wm, wn), NEW b
  PROVE  Holds(wn, b) <=> Holds(wm, b)
BY DraggedIs DEF Holds, DemoKept

\* Two steps that keep the demo's queue keep it.
LEMMA KeptTwice ==
  ASSUME NEW wm, NEW wn, NEW wo, DemoKept(wm, wn), DemoKept(wn, wo)
  PROVE  DemoKept(wm, wo)
BY DEF DemoKept

\* Doing nothing keeps it.
LEMMA KeptSelf == ASSUME NEW wm PROVE DemoKept(wm, wm)
BY DEF DemoKept

\* The built-in windows are always in the table.
LEMMA DemoKnown ==
  ASSUME NEW d, NEW w, Accounts(d, w)
  PROVE  /\ known(d.wm, demo_window_id) /\ known(d.wm, terminal_window_id)
         /\ known(d.wm, editor_window_id) /\ SoundManager(d.wm) /\ DeskOK(d)
BY NamesAre, LiveKnown DEF Accounts, DeskOK, WINDOW_ID_NONE

\* A step that brings no button's event keeps what the demo's queue holds.
LEMMA CalmKept ==
  ASSUME NEW wm, NEW wn, Calm(wm, wn), known(wm, demo_window_id)
  PROVE  DemoKept(wm, wn)
<1> DEFINE id == demo_window_id
<1>1. slots_of(wn, id) = slots_of(wm, id)
  BY DEF slots_of, Calm, Hushed
<1>2. slot_for_id(wn, id) = slot_for_id(wm, id)
  BY <1>1 DEF slot_for_id
<1>3. slot_for_id(wm, id) \in Slots
  BY DEF slot_for_id, known, slots_of
<1>4. Hushed(window_get(wm, id), window_get(wn, id))
  BY <1>2, <1>3 DEF window_get, Calm
<1> QED
  BY <1>4 DEF Calm, DemoKept, QueueOf, Hushed

\* A window a message is posted to, and the others.
LEMMA PostIs ==
  ASSUME NEW wm, SoundManager(wm), NEW id, known(wm, id), NEW target, NEW event
  PROVE  LET wn == window_post_event(wm, target, event)
         IN  /\ wn.capture = wm.capture
             /\ window_get(wn, id) = IF target = id THEN window_event_push(window_get(wm, id), event)
                                     ELSE window_get(wm, id)
<1> DEFINE v == window_event_push(window_get(wm, target), event)
           wn == window_post_event(wm, target, event)
<1>1. CASE ~known(wm, target)
  BY <1>1 DEF window_post_event
<1>2. CASE known(wm, target)
  <2>1. WindowOK(window_get(wm, target))
    BY <1>2, SlotForId
  <2>2. /\ WindowOK(v) /\ SameWindow(window_get(wm, target), v)
        /\ v.focused = window_get(wm, target).focused
    BY <2>1, PushKeeps
  <2>3. v.focused => \A s \in Slots : wm.slots[s].focused => wm.slots[s].id = target
    BY <1>2, <2>2, OnlyItsFocus
  <2>4. wn = set_window(wm, target, v)
    BY <1>2 DEF window_post_event
  <2>5. v = window_event_push(window_get(wm, target), event)
    OBVIOUS
  <2> HIDE DEF v, wn
  <2>6. /\ wn.capture = wm.capture /\ window_get(wn, target) = v
        /\ \A other : (other # target /\ known(wm, other)) => window_get(wn, other) = window_get(wm, other)
    BY <1>2, <2>2, <2>3, <2>4, SetKeeps
  <2> QED
    BY <2>5, <2>6 DEF wn
<1> QED
  BY <1>1, <1>2

\* An event posted that is not a button's brings no button's event.
LEMMA PostCalm ==
  ASSUME NEW wm, SoundManager(wm), NEW id, NEW event, event \notin {"UP", "DOWN"}
  PROVE  Calm(wm, window_post_event(wm, id, event))
<1>1. CASE ~known(wm, id)
  BY <1>1, CalmSelf DEF window_post_event
<1>2. CASE known(wm, id)
  <2>1. Hushed(window_get(wm, id), window_event_push(window_get(wm, id), event))
    BY <1>2, SlotForId, PushHushed
  <2> QED
    BY <1>2, <2>1, SetHushed DEF window_post_event
<1> QED
  BY <1>1, <1>2

\* What a queue is after an event: as it was, or longer by one.
LEMMA PushIs ==
  ASSUME NEW w, WindowOK(w), NEW event
  PROVE  LET q == w.events
             r == window_event_push(w, event).events
         IN  /\ Len(q) \in Nat /\ Len(r) \in Nat /\ Len(r) <= Len(q) + 1
             /\ DOMAIN q = 1..Len(q)
             /\ r = q \/ \E e \in {event, "OTHER"} :
                           /\ DOMAIN r = 1..(Len(q) + 1) /\ r[Len(q) + 1] = e
                           /\ \A i \in 1..Len(q) : r[i] = q[i]
                           /\ <<w.id, event>> \in Listens => e = event
             /\ (<<w.id, event>> \in Listens /\ Len(q) < WINDOW_EVENT_CAPACITY) => r # q
<1> DEFINE q == w.events
           e == IF <<w.id, event>> \in Listens THEN event ELSE "OTHER"
           v == [w EXCEPT !.events = Append(@, e)]
           r == window_event_push(w, event).events
<1>1. w \in WindowType /\ q \in Seq(EventTypes)
  BY DEF WindowOK, WindowType
<1>2. Len(q) \in Nat /\ DOMAIN q = 1..Len(q)
  BY <1>1
<1>3. e \in {event, "OTHER"} /\ (<<w.id, event>> \in Listens => e = event)
  OBVIOUS
<1>4. <<w.id, event>> \in Listens => w.id \in Listeners
  BY DEF Listeners
<1>5. CASE Len(q) >= WINDOW_EVENT_CAPACITY \/ w.id \notin Listeners
  <2>1. r = q
    BY <1>5 DEF window_event_push
  <2> QED
    BY <1>2, <1>4, <1>5, <2>1, WindowsAssumption
<1>6. CASE ~(Len(q) >= WINDOW_EVENT_CAPACITY \/ w.id \notin Listeners)
  <2>1. window_event_push(w, event) = v
    BY <1>6 DEF window_event_push
  <2> HIDE DEF e
  <2>2. r = Append(q, e)
    BY <1>1, <2>1 DEF WindowType
  <2> HIDE DEF q, r
  <2>3. /\ DOMAIN r = 1..(Len(q) + 1) /\ Len(r) = Len(q) + 1 /\ r[Len(q) + 1] = e
        /\ \A i \in 1..Len(q) : r[i] = q[i]
    <3>1. q \in Seq(EventTypes \cup {event}) /\ e \in EventTypes \cup {event}
      <4>1. q \in Seq(EventTypes)
        BY <1>1
      <4>2. e \in EventTypes \cup {event}
        BY <1>3 DEF EventTypes
      <4>3. q \in Seq(EventTypes \cup {event})
        BY <4>1
      <4> QED
        BY <4>2, <4>3
    <3> QED
      BY <1>2, <2>2, <3>1
  <2>4. r # q
    BY <1>2, <2>3
  <2> QED
    BY <1>2, <1>3, <2>3, <2>4 DEF q, r
<1> QED
  BY <1>5, <1>6

\* A release ends what was held when there is room for it.
LEMMA PushUp ==
  ASSUME NEW w, WindowOK(w), NEW b
  PROVE  LET q == w.events
             r == window_event_push(w, "UP").events
         IN  /\ dragged(r, b, TRUE) => dragged(q, b, TRUE)
             /\ (<<w.id, "UP">> \in Listens /\ Len(q) < WINDOW_EVENT_CAPACITY)
                  => ~dragged(r, b, TRUE)
<1> DEFINE q == w.events
           r == window_event_push(w, "UP").events
           n == Len(q)
<1>1. /\ n \in Nat /\ DOMAIN q = 1..n
      /\ r = q \/ \E e \in {"UP", "OTHER"} :
                    /\ DOMAIN r = 1..(n + 1) /\ r[n + 1] = e
                    /\ \A i \in 1..n : r[i] = q[i]
                    /\ <<w.id, "UP">> \in Listens => e = "UP"
      /\ (<<w.id, "UP">> \in Listens /\ n < WINDOW_EVENT_CAPACITY) => r # q
  BY PushIs
<1> HIDE DEF q, r, n
<1>2. CASE r = q
  BY <1>1, <1>2 DEF n, q, r
<1>3. ASSUME NEW e \in {"UP", "OTHER"},
             DOMAIN r = 1..(n + 1), r[n + 1] = e, \A i \in 1..n : r[i] = q[i],
             <<w.id, "UP">> \in Listens => e = "UP"
      PROVE  /\ dragged(r, b, TRUE) => dragged(q, b, TRUE)
             /\ <<w.id, "UP">> \in Listens => ~dragged(r, b, TRUE)
  <2>1. Ups(r) = Ups(q) \cup (IF e = "UP" THEN {n + 1} ELSE {})
    BY <1>1, <1>3 DEF Ups
  <2>2. Downs(r) = Downs(q) \cup (IF e = "DOWN" THEN {n + 1} ELSE {})
    BY <1>1, <1>3 DEF Downs
  <2>3. Ups(q) \subseteq 1..n /\ Downs(q) \subseteq 1..n
    BY <1>1 DEF Ups, Downs
  <2>4. CASE e = "UP"
    <3>1. ~dragged(r, b, TRUE)
      <4>1. n + 1 \in Ups(r) /\ Downs(r) = Downs(q)
        BY <2>1, <2>2, <2>4
      <4>2. ~\E i \in Downs(r) : \A j \in Ups(r) : j < i
        BY <1>1, <2>3, <4>1
      <4> QED
        BY <4>1, <4>2, DraggedIs
    <3> QED
      BY <3>1
  <2>5. CASE e # "UP"
    <3>1. e = "OTHER"
      BY <1>3, <2>5
    <3>2. Ups(r) = Ups(q) /\ Downs(r) = Downs(q)
      BY <2>1, <2>2, <3>1
    <3> QED
      BY <1>3, <2>5, <3>2, DraggedIs
  <2> QED
    BY <2>4, <2>5
<1>4. (<<w.id, "UP">> \in Listens /\ n < WINDOW_EVENT_CAPACITY) => r # q
  BY <1>1
<1>5. /\ dragged(r, b, TRUE) => dragged(q, b, TRUE)
      /\ (<<w.id, "UP">> \in Listens /\ n < WINDOW_EVENT_CAPACITY) => ~dragged(r, b, TRUE)
  BY <1>1, <1>3, <1>4
<1> QED
  BY <1>5 DEF n, q, r

----------------------------------------------------------------------------
(* The pointer and Demo *)

\* Who hears the pointer, and what is left of the manager otherwise.
LEMMA RouteIs ==
  ASSUME NEW wm, SoundManager(wm), NEW type \in {"MOVE", "UP"}, NEW at
  PROVE  LET t == pointer_target(wm, type, at)
             wn == window_route_pointer(wm, type, at)
             told == window_post_event(wm, t, type)
         IN  /\ wn.slots = told.slots
             /\ \A id : window_get(wn, id) = window_get(told, id)
             /\ type = "MOVE" => wn.capture = wm.capture
             /\ type = "UP" => wn.capture = WINDOW_ID_NONE
             /\ known(wm, wm.capture) => t = wm.capture
<1> DEFINE t == pointer_target(wm, type, at)
           wn == window_route_pointer(wm, type, at)
           told == window_post_event(wm, t, type)
           holder == CASE type = "DOWN" -> t
                       [] type = "UP" -> WINDOW_ID_NONE
                       [] type = "MOVE" -> IF known(wm, wm.capture) THEN wm.capture
                                           ELSE WINDOW_ID_NONE
<1>1. wn = [told EXCEPT !.capture = holder]
  BY DEF window_route_pointer
<1>2. type = "MOVE" => holder = wm.capture
  <2>1. wm.capture # WINDOW_ID_NONE => known(wm, wm.capture)
    BY LiveKnown DEF SoundManager
  <2> QED
    BY <2>1
<1>3. type = "UP" => holder = WINDOW_ID_NONE
  OBVIOUS
<1>4. known(wm, wm.capture) => t = wm.capture
  BY DEF pointer_target
<1>5. told \in Manager
  BY PostTells DEF Told, SoundManager
<1> HIDE DEF t, holder, told
<1>6. wn.slots = told.slots /\ wn.capture = holder
  BY <1>1, <1>5 DEF Manager
<1> HIDE DEF wn
<1>7. \A id : window_get(wn, id) = window_get(told, id)
  BY <1>6 DEF window_get, slot_for_id, slots_of
<1> QED
  BY <1>2, <1>3, <1>4, <1>6, <1>7 DEF t, wn, told

\* A movement adds at most one event, and no button's, to the demo's queue.
LEMMA MoveKept ==
  ASSUME NEW wm, SoundManager(wm), known(wm, demo_window_id), NEW at
  PROVE  LET wn == window_route_pointer(wm, "MOVE", at)
         IN  /\ DemoKept(wm, wn) /\ wn.capture = wm.capture
             /\ Len(QueueOf(wn)) <= Len(QueueOf(wm)) + 1
             /\ Len(QueueOf(wn)) \in Nat /\ Len(QueueOf(wm)) \in Nat
<1> DEFINE t == pointer_target(wm, "MOVE", at)
           wn == window_route_pointer(wm, "MOVE", at)
           told == window_post_event(wm, t, "MOVE")
           w == window_get(wm, demo_window_id)
<1>1. /\ \A id : window_get(wn, id) = window_get(told, id)
      /\ wn.capture = wm.capture
  BY RouteIs
<1>2. window_get(told, demo_window_id) = IF t = demo_window_id THEN window_event_push(w, "MOVE") ELSE w
  BY PostIs
<1>3. WindowOK(w)
  BY SlotForId
<1>4. Calm(wm, told)
  BY PostCalm
<1>5. DemoKept(wm, told)
  BY <1>4, CalmKept
<1>6. Len(w.events) \in Nat /\ Len(window_event_push(w, "MOVE").events) \in Nat
      /\ Len(window_event_push(w, "MOVE").events) <= Len(w.events) + 1
  BY <1>3, PushIs
<1>7. told.capture = wm.capture
  BY <1>4 DEF Calm
<1> HIDE DEF t, wn, told
<1>8. QueueOf(wn) = QueueOf(told) /\ QueueOf(wm) = w.events
  BY <1>1 DEF QueueOf
<1>9. QueueOf(told) = w.events \/ QueueOf(told) = window_event_push(w, "MOVE").events
  BY <1>2 DEF QueueOf
<1> HIDE DEF w
<1>10. DemoKept(wm, wn)
  BY <1>1, <1>5, <1>7, <1>8 DEF DemoKept
<1> QED
  BY <1>1, <1>6, <1>8, <1>9, <1>10 DEF wn

\* A release: what Demo held it holds no longer when it has the pointer and room.
LEMMA UpEnds ==
  ASSUME NEW wm, SoundManager(wm), known(wm, demo_window_id), NEW at, NEW b
  PROVE  LET wn == window_route_pointer(wm, "UP", at)
         IN  /\ Holds(wn, b) => Holds(wm, b)
             /\ (wm.capture = demo_window_id /\ Len(QueueOf(wm)) < WINDOW_EVENT_CAPACITY)
                  => ~Holds(wn, b)
<1> DEFINE t == pointer_target(wm, "UP", at)
           wn == window_route_pointer(wm, "UP", at)
           told == window_post_event(wm, t, "UP")
           w == window_get(wm, demo_window_id)
           r == window_event_push(w, "UP")
<1>1. /\ \A id : window_get(wn, id) = window_get(told, id)
      /\ known(wm, wm.capture) => t = wm.capture
  BY RouteIs
<1>2. window_get(told, demo_window_id) = IF t = demo_window_id THEN r ELSE w
  BY PostIs
<1>3. WindowOK(w) /\ w.id = demo_window_id
  BY SlotForId
<1>4. <<demo_window_id, "UP">> \in Listens
  BY ListenersAssumption
<1>5. /\ dragged(r.events, b, TRUE) => dragged(w.events, b, TRUE)
      /\ Len(w.events) < WINDOW_EVENT_CAPACITY => ~dragged(r.events, b, TRUE)
  BY <1>3, <1>4, PushUp
<1> HIDE DEF t, wn, told, r
<1>6. QueueOf(wn) = IF t = demo_window_id THEN r.events ELSE w.events
  BY <1>1, <1>2 DEF QueueOf
<1>7. QueueOf(wm) = w.events
  BY DEF QueueOf
<1> HIDE DEF w
<1>8. Holds(wn, b) => Holds(wm, b)
  BY <1>5, <1>6, <1>7 DEF Holds
<1>9. (wm.capture = demo_window_id /\ Len(QueueOf(wm)) < WINDOW_EVENT_CAPACITY) => ~Holds(wn, b)
  BY <1>1, <1>5, <1>6, <1>7 DEF Holds
<1> QED
  BY <1>8, <1>9 DEF wn

\* A press: Demo has the pointer then, or has heard nothing.
LEMMA DownKept ==
  ASSUME NEW wm, SoundManager(wm), known(wm, demo_window_id), NEW at, NEW b
  PROVE  LET wn == window_route_pointer(wm, "DOWN", at)
         IN  wn.capture = demo_window_id \/ (Holds(wn, b) <=> Holds(wm, b))
<1> DEFINE t == pointer_target(wm, "DOWN", at)
           wn == window_route_pointer(wm, "DOWN", at)
           pressed == window_focus(wm, t)
           told == window_post_event(pressed, t, "DOWN")
<1>1. wn = [told EXCEPT !.capture = t]
  BY DEF window_route_pointer
<1>2. SoundManager(pressed) /\ SameWindows(wm, pressed)
  BY FocusKeeps
<1>3. Calm(wm, pressed)
  BY FocusCalm
<1>4. DemoKept(wm, pressed)
  BY <1>3, CalmKept
<1>5. known(pressed, demo_window_id)
  BY <1>3 DEF Calm, Hushed, known, slots_of
<1>6. t # demo_window_id => window_get(told, demo_window_id) = window_get(pressed, demo_window_id)
  BY <1>2, <1>5, PostIs
<1>7. told \in Manager
  BY <1>2, PostTells DEF Told, SoundManager
<1> HIDE DEF t, told, pressed
<1>8. wn.slots = told.slots /\ wn.capture = t
  BY <1>1, <1>7 DEF Manager
<1> HIDE DEF wn
<1>9. \A id : window_get(wn, id) = window_get(told, id)
  BY <1>8 DEF window_get, slot_for_id, slots_of
<1>10. t # demo_window_id => QueueOf(wn) = QueueOf(pressed)
  BY <1>6, <1>9 DEF QueueOf
<1>11. Holds(pressed, b) <=> Holds(wm, b)
  BY <1>4, HoldsSame
<1> QED
  BY <1>8, <1>10, <1>11 DEF Holds, wn

----------------------------------------------------------------------------
(* The inductive invariant *)

Phases == {"keys", "drain_keys", "packets", "drain_packets", "halted"}
ProgramType == [running : BOOLEAN, window_id : WindowId \cup {WINDOW_ID_NONE}]

Typed ==
  /\ launcher_open \in BOOLEAN /\ mouse_left_down \in BOOLEAN /\ drag \in BOOLEAN
  /\ packets \in BOOLEAN /\ missed \in BOOLEAN
  /\ phase \in Phases /\ program \in ProgramType
  /\ ~program.running => program.window_id = WINDOW_ID_NONE

\* What Demo holds, or will hold once it has read its queue, it holds while the
\* button is down and the pointer is its own, unless a release was dropped.
HeldByTheButton ==
  (Holds(desk.wm, drag) /\ ~missed) => mouse_left_down /\ desk.wm.capture = demo_window_id

\* A release waits in Demo's queue only between two packets.
NoReleaseWaits == (phase # "packets" \/ ~packets) => Ups(QueueOf(desk.wm)) = {}

IInv ==
  /\ Typed
  /\ Accounts(desk, program.window_id)
  /\ phase # "halted" => Settled(desk) /\ HeldByTheButton /\ NoReleaseWaits

\* A step that leaves Demo, the button and the program alone.
Unmoved ==
  /\ mouse_left_down' = mouse_left_down /\ drag' = drag /\ missed' = missed
  /\ program' = program /\ launcher_open' \in BOOLEAN /\ packets' \in BOOLEAN

\* The invariant is kept by a step that only rearranges.
LEMMA StaysSo ==
  ASSUME IInv, phase # "halted", Unmoved, Rearranged(desk, desk'), DemoKept(desk.wm, desk'.wm),
         phase' \in Phases, phase' # "halted" => Settled(desk'),
         (phase' # "halted" /\ (phase' # "packets" \/ ~packets')) => (phase # "packets" \/ ~packets)
  PROVE  IInv'
<1>1. Typed'
  BY DEF IInv, Typed, Unmoved
<1>2. Accounts(desk, program.window_id)'
  BY AccountsStay DEF IInv, Unmoved
<1>3. HeldByTheButton'
  <2>1. Holds(desk'.wm, drag) <=> Holds(desk.wm, drag)
    BY HoldsSame
  <2>2. desk'.wm.capture = demo_window_id <=> desk.wm.capture = demo_window_id
    BY DEF DemoKept
  <2> QED
    BY <2>1, <2>2 DEF IInv, HeldByTheButton, Unmoved
<1>4. phase' # "halted" => NoReleaseWaits'
  BY DEF IInv, NoReleaseWaits, DemoKept
<1> QED
  BY <1>1, <1>2, <1>3, <1>4 DEF IInv

\* A key the desktop claims.
LEMMA ClaimsKey ==
  ASSUME IInv, Shortcut, Claimed, launcher_open' \in BOOLEAN,
         Rearranged(desk, desk'), Calm(desk.wm, desk'.wm), phase' \in {"packets", "halted"},
         (phase' # "halted" /\ Settled(desk)) => Settled(desk')
  PROVE  IInv'
<1>1. phase = "keys" /\ phase # "halted"
  BY DEF Shortcut
<1>2. Unmoved
  BY DEF Claimed, Unmoved, IInv, Typed
<1>3. DemoKept(desk.wm, desk'.wm)
  BY CalmKept, DemoKnown DEF IInv
<1>4. phase' \in Phases /\ (phase' # "halted" => Settled(desk'))
  BY <1>1 DEF Phases, IInv
<1> QED
  BY <1>1, <1>2, <1>3, <1>4, StaysSo

\* By a shortcut that lays the desktop out again.
LEMMA Relays ==
  ASSUME IInv, Shortcut, Claimed, launcher_open' = launcher_open, NEW r, Changed(desk, r),
         relayout_if(r, "packets")
  PROVE  IInv'
<1>1. DeskOK(desk)
  BY DEF IInv, Accounts
<1>2. /\ Rearranged(desk, desk') /\ Calm(desk.wm, desk'.wm) /\ phase' \in {"packets", "halted"}
      /\ (phase' # "halted" /\ Settled(desk)) => Settled(desk')
  BY <1>1, RelaysOutIf
<1>3. launcher_open' \in BOOLEAN
  BY DEF IInv, Typed
<1> QED
  BY <1>2, <1>3, ClaimsKey

\* By a shortcut that changes only the launcher.
LEMMA LeavesDesk ==
  ASSUME IInv, Shortcut, Claimed, launcher_open' \in BOOLEAN, desk' = desk, phase' = "packets"
  PROVE  IInv'
<1>1. Rearranged(desk, desk') /\ Calm(desk.wm, desk'.wm)
  BY RearrangedSelf, CalmSelf DEF IInv, Accounts
<1> QED
  BY <1>1, ClaimsKey

\* The keys of the desktop.
LEMMA ShortcutKeys ==
  ASSUME IInv
  PROVE  /\ CloseLauncher => IInv'
         /\ \A step \in {-1, 1} : StepFocus(step) => IInv'
         /\ \A to \in 1..DESKTOP_WORKSPACES : SwitchWorkspace(to) => IInv'
         /\ HideFocused => IInv'
         /\ ShowAll => IInv'
         /\ MoveFocused => IInv'
         /\ \A step \in DividerSteps : MoveDivider(step) => IInv'
         /\ NoKey => IInv'
<1>0. DeskOK(desk)
  BY DEF IInv, Accounts
<1>1. CloseLauncher => IInv'
  BY LeavesDesk DEF CloseLauncher
<1>2. ASSUME NEW step \in {-1, 1}, StepFocus(step) PROVE IInv'
  <2>1. /\ Rearranged(desk, desk') /\ Calm(desk.wm, desk'.wm) /\ (Settled(desk) => Settled(desk'))
    BY <1>0, <1>2, FocusSteps DEF StepFocus
  <2>2. Shortcut /\ Claimed /\ launcher_open' \in BOOLEAN /\ phase' \in {"packets", "halted"}
    BY <1>2 DEF StepFocus, IInv, Typed
  <2> QED
    BY <2>1, <2>2, ClaimsKey
<1>3. ASSUME NEW to \in 1..DESKTOP_WORKSPACES, SwitchWorkspace(to) PROVE IInv'
  <2>1. Changed(desk, desktop_switch_workspace(desk, to))
    BY <1>0, Switches
  <2> QED
    BY <1>3, <2>1, Relays DEF SwitchWorkspace
<1>4. ASSUME HideFocused PROVE IInv'
  <2>1. Changed(desk, desktop_set_hidden(desk, window_focused(desk.wm), TRUE))
    BY <1>0, SetsHidden
  <2> QED
    BY <1>4, <2>1, Relays DEF HideFocused
<1>5. ASSUME ShowAll PROVE IInv'
  <2> DEFINE r == [ok |-> \E i \in DOMAIN desk.apps : desk.apps[i].hidden,
                   d |-> [desk EXCEPT !.apps = [i \in DOMAIN @ |->
                                                 [@[i] EXCEPT !.hidden = FALSE]]]]
  <2>1. Changed(desk, r)
    BY <1>0, ShowsAll
  <2>2. Shortcut /\ Claimed /\ launcher_open' = launcher_open /\ relayout_if(r, "packets")
    BY <1>5 DEF ShowAll
  <2> HIDE DEF r
  <2> QED
    BY <2>1, <2>2, Relays
<1>6. ASSUME MoveFocused PROVE IInv'
  <2> DEFINE r == desktop_move_to_workspace(desk, window_focused(desk.wm),
                                            (desk.workspace % DESKTOP_WORKSPACES) + 1)
  <2>1. Changed(desk, r)
    BY <1>0, Moves
  <2>2. Shortcut /\ Claimed /\ launcher_open' = launcher_open /\ relayout_if(r, "packets")
    BY <1>6 DEF MoveFocused
  <2> HIDE DEF r
  <2> QED
    BY <2>1, <2>2, Relays
<1>7. ASSUME NEW step \in DividerSteps, MoveDivider(step) PROVE IInv'
  <2> DEFINE r == [ok |-> divider(desk.percent + step) # desk.percent,
                   d |-> [desk EXCEPT !.percent = divider(desk.percent + step)]]
  <2>0. step \in Int
    BY LoopAssumption
  <2>1. Changed(desk, r)
    BY <1>0, <2>0, MovesDivider
  <2>2. Shortcut /\ Claimed /\ launcher_open' = launcher_open /\ relayout_if(r, "packets")
    BY <1>7 DEF MoveDivider
  <2> HIDE DEF r
  <2> QED
    BY <2>1, <2>2, Relays
<1>8. ASSUME NoKey PROVE IInv'
  BY <1>8, LeavesDesk DEF NoKey, IInv, Typed
<1> QED
  BY <1>1, <1>2, <1>3, <1>4, <1>5, <1>6, <1>7, <1>8

----------------------------------------------------------------------------
(* The apps read *)

\* A queue emptied or read from: the others are as they were.
LEMMA ReadIs ==
  ASSUME NEW wm, SoundManager(wm), NEW id, known(wm, id), NEW q \in Seq(EventTypes),
         Len(q) <= WINDOW_EVENT_CAPACITY
  PROVE  LET wn == set_window(wm, id, [window_get(wm, id) EXCEPT !.events = q])
         IN  /\ wn.capture = wm.capture /\ window_get(wn, id).events = q
             /\ \A other : (other # id /\ known(wm, other)) =>
                  window_get(wn, other) = window_get(wm, other)
<1> DEFINE w == window_get(wm, id)
           v == [w EXCEPT !.events = q]
           wn == set_window(wm, id, v)
<1>1. WindowOK(w) /\ w \in WindowType
  BY SlotForId DEF WindowOK
<1>2. WindowOK(v) /\ SameWindow(w, v) /\ v.focused = w.focused /\ v.events = q
  BY <1>1 DEF WindowOK, SameWindow, WindowType
<1>3. v.focused => \A s \in Slots : wm.slots[s].focused => wm.slots[s].id = id
  BY <1>2, OnlyItsFocus
<1> HIDE DEF v
<1>4. /\ wn.capture = wm.capture /\ window_get(wn, id) = v
      /\ \A other : (other # id /\ known(wm, other)) => window_get(wn, other) = window_get(wm, other)
  BY <1>2, <1>3, SetKeeps
<1> QED
  BY <1>2, <1>4 DEF v

\* Emptying one queue leaves the others.
LEMMA EmptiedIs ==
  ASSUME NEW wm, SoundManager(wm), NEW id, known(wm, id)
  PROVE  /\ emptied(wm, id).capture = wm.capture /\ window_get(emptied(wm, id), id).events = <<>>
         /\ \A other : (other # id /\ known(wm, other)) =>
              window_get(emptied(wm, id), other) = window_get(wm, other)
<1> DEFINE q == <<>>
<1>1. q \in Seq(EventTypes) /\ Len(q) <= WINDOW_EVENT_CAPACITY
  BY WindowsAssumption
<1>2. emptied(wm, id) = set_window(wm, id, [window_get(wm, id) EXCEPT !.events = q])
  BY DEF emptied
<1>3. SUFFICES
        /\ emptied(wm, id).capture = wm.capture /\ window_get(emptied(wm, id), id).events = q
        /\ \A other : (other # id /\ known(wm, other)) =>
             window_get(emptied(wm, id), other) = window_get(wm, other)
  OBVIOUS
<1> HIDE DEF q
<1> QED
  BY <1>1, <1>2, ReadIs

\* Taking an event from one queue leaves the others.
LEMMA PoppedIs ==
  ASSUME NEW wm, SoundManager(wm), NEW id, known(wm, id), window_get(wm, id).events # <<>>
  PROVE  /\ popped(wm, id).capture = wm.capture
         /\ \A other : (other # id /\ known(wm, other)) =>
              window_get(popped(wm, id), other) = window_get(wm, other)
<1> DEFINE w == window_get(wm, id)
           q == Tail(w.events)
<1>1. w \in WindowType /\ Len(w.events) <= WINDOW_EVENT_CAPACITY
  BY SlotForId DEF WindowOK
<1>2. q \in Seq(EventTypes) /\ Len(q) <= WINDOW_EVENT_CAPACITY
  BY <1>1, WindowsAssumption DEF WindowType
<1>3. popped(wm, id) = set_window(wm, id, [w EXCEPT !.events = q])
  BY DEF popped
<1> HIDE DEF q
<1> QED
  BY <1>2, <1>3, ReadIs

\* Another window than Demo's is read.
LEMMA OthersRead ==
  ASSUME NEW wm, NEW wn, wn.capture = wm.capture,
         window_get(wn, demo_window_id) = window_get(wm, demo_window_id)
  PROVE  DemoKept(wm, wn)
BY DEF DemoKept, QueueOf

\* Demo reads its queue.
LEMMA DemoHasRead ==
  ASSUME IInv, phase # "halted", NEW d, Rearranged(desk, d), DemoKept(desk.wm, d.wm), Settled(d),
         DemoReads(d), phase' \in Phases \ {"halted"}, packets' \in BOOLEAN,
         mouse_left_down' = mouse_left_down, program' = program, launcher_open' = launcher_open
  PROVE  IInv'
<1> DEFINE wn == emptied(d.wm, demo_window_id)
<1>1. Accounts(d, program.window_id)
  BY AccountsStay DEF IInv
<1>2. SoundManager(d.wm) /\ known(d.wm, demo_window_id) /\ DeskOK(d)
  BY <1>1, DemoKnown
<1>3. Told(d.wm, wn) /\ wn.capture = d.wm.capture /\ QueueOf(wn) = <<>>
  BY <1>2, EmptiedTells, EmptiedIs DEF QueueOf
<1>4. desk' = [d EXCEPT !.wm = wn]
  BY DEF DemoReads
<1> HIDE DEF wn
<1>5. Rearranged(d, desk') /\ desk'.wm = wn /\ Settled(desk')
  BY <1>2, <1>3, <1>4, TellsStay
<1>6. Accounts(desk', program.window_id)
  BY <1>1, <1>5, AccountsStay
<1>7. drag' \in BOOLEAN /\ missed' \in BOOLEAN
  BY DEF DemoReads, IInv, Typed, dragged
<1>8. Typed'
  BY <1>7 DEF IInv, Typed
<1>9. Ups(QueueOf(desk'.wm)) = {} /\ Downs(QueueOf(desk'.wm)) = {}
  BY <1>3, <1>5 DEF Ups, Downs
<1>10. Holds(desk'.wm, drag') => drag'
  BY <1>9, DraggedIs DEF Holds
<1>11. drag' => Holds(d.wm, drag)
  <2>1. PICK held \in BOOLEAN : drag' = dragged(QueueOf(d.wm), drag, held)
    BY DEF DemoReads, QueueOf
  <2> QED
    BY <2>1, DraggedIs DEF Holds
<1>12. drag' /\ ~missed' => ~missed
  BY DEF DemoReads, IInv, Typed
<1>13. HeldByTheButton'
  <2>1. Holds(d.wm, drag) <=> Holds(desk.wm, drag)
    BY HoldsSame
  <2>2. desk'.wm.capture = demo_window_id <=> desk.wm.capture = demo_window_id
    BY <1>3, <1>5 DEF DemoKept
  <2>3. HeldByTheButton
    BY DEF IInv
  <2> QED
    BY <1>10, <1>11, <1>12, <2>1, <2>2, <2>3 DEF HeldByTheButton
<1>14. NoReleaseWaits'
  BY <1>9 DEF NoReleaseWaits
<1> QED
  BY <1>5, <1>6, <1>8, <1>13, <1>14 DEF IInv

\* The invariant is kept when a key goes to a window.
LEMMA KeyTyped ==
  ASSUME IInv, NEW key \in {"ENTER", "OTHER"}, TypeKey(key)
  PROVE  IInv'
<1> DEFINE wn == window_route_key(desk.wm, key)
           d == [desk EXCEPT !.wm = wn]
<1>1. DeskOK(desk) /\ SoundManager(desk.wm) /\ known(desk.wm, demo_window_id)
  BY DemoKnown DEF IInv
<1>2. Told(desk.wm, wn)
  BY <1>1, RouteKeyTells
<1>3. Calm(desk.wm, wn)
  BY <1>1, PostCalm DEF window_route_key
<1> HIDE DEF wn
<1>4. phase = "keys" /\ phase # "halted" /\ Settled(desk)
  BY DEF TypeKey, Shortcut, IInv
<1>5. Rearranged(desk, d) /\ d.wm = wn /\ Settled(d)
  BY <1>1, <1>2, <1>4, TellsStay
<1>6. DemoKept(desk.wm, d.wm)
  BY <1>1, <1>3, <1>5, CalmKept
<1>7. /\ DemoReads(d) /\ phase' \in Phases \ {"halted"} /\ packets' \in BOOLEAN
      /\ mouse_left_down' = mouse_left_down /\ program' = program /\ launcher_open' = launcher_open
  BY DEF TypeKey, wn, Phases, IInv, Typed
<1> HIDE DEF d
<1> QED
  BY <1>4, <1>5, <1>6, <1>7, DemoHasRead

\* When no packet is left and the demo reads its events.
LEMMA PacketsEnd ==
  ASSUME IInv, EndOfPackets
  PROVE  IInv'
<1>1. phase = "packets" /\ phase # "halted" /\ Settled(desk) /\ DeskOK(desk)
  BY DEF EndOfPackets, IInv, Accounts
<1>2. Rearranged(desk, desk) /\ DemoKept(desk.wm, desk.wm)
  BY <1>1, RearrangedSelf, KeptSelf
<1>3. CASE packets
  <2>1. /\ DemoReads(desk) /\ phase' \in Phases \ {"halted"} /\ packets' \in BOOLEAN
        /\ mouse_left_down' = mouse_left_down /\ program' = program /\ launcher_open' = launcher_open
    BY <1>3 DEF EndOfPackets, Phases, IInv, Typed
  <2> QED
    BY <1>1, <1>2, <2>1, DemoHasRead
<1>4. CASE ~packets
  <2>1. desk' = desk /\ Unmoved /\ phase' = "keys"
    BY <1>4 DEF EndOfPackets, Unmoved, IInv, Typed
  <2> QED
    BY <1>1, <1>2, <1>4, <2>1, StaysSo DEF Phases
<1> QED
  BY <1>3, <1>4 DEF IInv, Typed

\* One event of the Terminal's queue.
LEMMA TerminalHasRead ==
  ASSUME IInv, TerminalReads
  PROVE  IInv'
<1> DEFINE wn == popped(desk.wm, terminal_window_id)
           rest == [desk EXCEPT !.wm = wn]
<1>1. /\ DeskOK(desk) /\ SoundManager(desk.wm) /\ known(desk.wm, demo_window_id)
      /\ known(desk.wm, terminal_window_id)
  BY DemoKnown DEF IInv
<1>2. phase \in {"drain_keys", "drain_packets"} /\ ~program.running
      /\ window_get(desk.wm, terminal_window_id).events # <<>>
  BY DEF TerminalReads, Draining, terminal_queue
<1>3. phase # "halted" /\ phase \in Phases /\ Settled(desk) /\ program.window_id = WINDOW_ID_NONE
  BY <1>2 DEF IInv, Typed, Phases
<1>4. Told(desk.wm, wn)
  BY <1>1, <1>2, PoppedTells
<1>5. wn.capture = desk.wm.capture
      /\ window_get(wn, demo_window_id) = window_get(desk.wm, demo_window_id)
  BY <1>1, <1>2, PoppedIs, NamesAre
<1>6. /\ \/ desk' = rest /\ UNCHANGED <<phase, program>>
         \/ editor_opened(rest, phase) /\ UNCHANGED program
         \/ /\ desk' = rest
            /\ program' = [NoProgram EXCEPT !.running = TRUE]
            /\ UNCHANGED phase
      /\ UNCHANGED <<launcher_open, mouse_left_down, drag, packets, missed>>
  BY DEF TerminalReads
<1> HIDE DEF wn
<1>7. Rearranged(desk, rest) /\ rest.wm = wn /\ Settled(rest)
  BY <1>1, <1>3, <1>4, TellsStay
<1>8. DemoKept(desk.wm, rest.wm)
  BY <1>5, <1>7, OthersRead
<1>9. Accounts(rest, program.window_id)
  BY <1>7, AccountsStay DEF IInv
<1>10. DeskOK(rest) /\ known(rest.wm, demo_window_id)
  BY <1>9, DemoKnown
<1> HIDE DEF rest
<1>11. CASE desk' = rest /\ UNCHANGED <<phase, program>>
  <2>1. Unmoved /\ phase' = phase /\ packets' = packets
    BY <1>6, <1>11 DEF Unmoved, IInv, Typed
  <2> QED
    BY <1>3, <1>7, <1>8, <1>11, <2>1, StaysSo
<1>12. CASE editor_opened(rest, phase) /\ UNCHANGED program
  <2>1. Unmoved /\ packets' = packets
    BY <1>6, <1>12 DEF Unmoved, IInv, Typed
  <2>2. /\ Rearranged(rest, desk') /\ Calm(rest.wm, desk'.wm) /\ phase' \in {phase, "halted"}
        /\ (phase' # "halted" /\ Settled(rest)) => Settled(desk')
    BY <1>10, <1>12, EditorOpens
  <2>3. Rearranged(desk, desk') /\ DemoKept(desk.wm, desk'.wm)
    BY <1>7, <1>8, <1>10, <2>2, RearrangedTwice, CalmKept, KeptTwice
  <2>4. phase' \in Phases
    BY <1>3, <2>2 DEF Phases
  <2> QED
    BY <1>3, <1>7, <2>1, <2>2, <2>3, <2>4, StaysSo
<1>13. CASE desk' = rest /\ program' = [NoProgram EXCEPT !.running = TRUE] /\ UNCHANGED phase
  <2>1. program' = [running |-> TRUE, window_id |-> WINDOW_ID_NONE]
    BY <1>13 DEF NoProgram
  <2>2. program'.window_id = program.window_id /\ program'.running = TRUE /\ program' \in ProgramType
    BY <1>3, <2>1 DEF ProgramType
  <2>3. Typed'
    BY <1>3, <1>6, <1>13, <2>2 DEF IInv, Typed
  <2>4. Accounts(desk', program'.window_id)
    BY <1>9, <1>13, <2>2
  <2>5. HeldByTheButton'
    <3>1. Holds(rest.wm, drag) <=> Holds(desk.wm, drag)
      BY <1>8, HoldsSame
    <3>2. rest.wm.capture = demo_window_id <=> desk.wm.capture = demo_window_id
      BY <1>8 DEF DemoKept
    <3>3. HeldByTheButton
      BY <1>3 DEF IInv
    <3> QED
      BY <1>6, <1>13, <3>1, <3>2, <3>3 DEF HeldByTheButton
  <2>6. NoReleaseWaits'
    BY <1>3, <1>6, <1>8, <1>13 DEF IInv, NoReleaseWaits, DemoKept
  <2> QED
    BY <1>7, <1>13, <2>3, <2>4, <2>5, <2>6 DEF IInv
<1> QED
  BY <1>6, <1>11, <1>12, <1>13

\* When the editor reads its own.
LEMMA EditorHasRead ==
  ASSUME IInv, EditorReads
  PROVE  IInv'
<1> DEFINE wn == emptied(desk.wm, editor_window_id)
<1>1. /\ DeskOK(desk) /\ SoundManager(desk.wm) /\ known(desk.wm, demo_window_id)
      /\ known(desk.wm, editor_window_id)
  BY DemoKnown DEF IInv
<1>2. /\ phase \in {"drain_keys", "drain_packets"} /\ desk' = [desk EXCEPT !.wm = wn]
      /\ phase' \in {"packets", "keys"} /\ packets' = FALSE
      /\ UNCHANGED <<launcher_open, mouse_left_down, drag, missed, program>>
  BY DEF EditorReads, Draining
<1>3. phase # "halted" /\ phase # "packets" /\ Settled(desk) /\ phase' \in Phases
  BY <1>2 DEF IInv, Phases
<1>4. Told(desk.wm, wn) /\ wn.capture = desk.wm.capture
      /\ window_get(wn, demo_window_id) = window_get(desk.wm, demo_window_id)
  BY <1>1, EmptiedTells, EmptiedIs, NamesAre
<1> HIDE DEF wn
<1>5. Rearranged(desk, desk') /\ desk'.wm = wn /\ Settled(desk')
  BY <1>1, <1>2, <1>3, <1>4, TellsStay
<1>6. DemoKept(desk.wm, desk'.wm)
  BY <1>4, <1>5, OthersRead
<1>7. Unmoved
  BY <1>2 DEF Unmoved, IInv, Typed
<1> QED
  BY <1>3, <1>5, <1>6, <1>7, StaysSo

----------------------------------------------------------------------------
(* The packets of the mouse *)

\* The move of a packet, when it has one.
movedOn(d, to, move) == IF move THEN routed(d, "MOVE", to) ELSE d

\* What a packet's movement makes of the desktop.
LEMMA MovesOn ==
  ASSUME NEW d, DeskOK(d), known(d.wm, demo_window_id), NEW to, NEW move \in BOOLEAN
  PROVE  LET e == movedOn(d, to, move)
         IN  /\ Rearranged(d, e) /\ (Settled(d) => Settled(e)) /\ SameScreen(d, e)
             /\ window_focused(e.wm) = window_focused(d.wm)
             /\ DemoKept(d.wm, e.wm)
             /\ Len(QueueOf(e.wm)) <= Len(QueueOf(d.wm)) + (IF move THEN 1 ELSE 0)
             /\ Len(QueueOf(e.wm)) \in Nat /\ Len(QueueOf(d.wm)) \in Nat
             /\ known(e.wm, demo_window_id)
<1> DEFINE e == movedOn(d, to, move)
<1>0. SoundManager(d.wm)
  BY DEF DeskOK
<1>1. CASE move
  <2> DEFINE f == routed(d, "MOVE", to)
             wn == window_route_pointer(d.wm, "MOVE", to)
  <2>1. e = f
    BY <1>1 DEF movedOn
  <2>2. "MOVE" \in PointerTypes /\ "MOVE" # "DOWN"
    BY DEF PointerTypes
  <2>3. Rearranged(d, f) /\ f.wm = wn /\ SameScreen(d, f) /\ (Settled(d) => Settled(f))
    BY <2>2, RoutedStays
  <2>4. window_focused(wn) = window_focused(d.wm) /\ SameWindows(d.wm, wn)
    BY <1>0, <2>2, RouteKeeps
  <2>5. /\ DemoKept(d.wm, wn)
        /\ Len(QueueOf(wn)) <= Len(QueueOf(d.wm)) + 1
        /\ Len(QueueOf(wn)) \in Nat /\ Len(QueueOf(d.wm)) \in Nat
    BY <1>0, MoveKept
  <2>6. known(wn, demo_window_id)
    BY <2>4 DEF known, slots_of, SameWindows, SameWindow
  <2> HIDE DEF e, f, wn
  <2> QED
    BY <1>1, <2>1, <2>3, <2>4, <2>5, <2>6 DEF e
<1>2. CASE ~move
  <2>1. e = d
    BY <1>2 DEF movedOn
  <2>2. Len(QueueOf(d.wm)) \in Nat
    BY <1>0, SlotForId DEF QueueOf, WindowOK, WindowType
  <2>3. SameScreen(d, d)
    BY DEF SameScreen
  <2> HIDE DEF e
  <2> QED
    BY <1>2, <2>1, <2>2, <2>3, RearrangedSelf, KeptSelf DEF e
<1> QED
  BY <1>1, <1>2

\* What a packet does, one case for each thing that happens to the button.
PacketDoes(to, move, left, p, e) ==
  /\ phase = "packets" /\ ~program.running /\ packets' = TRUE /\ mouse_left_down' = left
  /\ desk' = e /\ launcher_open' = p.launcher
  /\ phase' = IF p.ok THEN "packets" ELSE "halted"
  /\ drag' = drag /\ program' = program

\* A packet presses the button, leaves it alone or releases it (main.c, mouse handling
\* in the loop).
LEMMA PacketCases ==
  ASSUME IInv, NEW to, NEW move \in BOOLEAN, NEW left \in BOOLEAN, Packet(to, move, left)
  PROVE  \/ /\ left /\ ~mouse_left_down /\ missed' = missed
            /\ LET p == desktop_press(desk, to)
                   d == IF p.claimed THEN p.d ELSE routed(p.d, "DOWN", to)
               IN  PacketDoes(to, move, left, p, movedOn(d, to, move))
         \/ /\ left = mouse_left_down /\ missed' = missed
            /\ PacketDoes(to, move, left, Press(FALSE, TRUE, launcher_open, desk),
                          movedOn(desk, to, move))
         \/ /\ ~left /\ mouse_left_down
            /\ missed' = (missed \/ demo_full(IF move THEN 1 ELSE 0))
            /\ PacketDoes(to, move, left, Press(FALSE, TRUE, launcher_open, desk),
                          routed(movedOn(desk, to, move), "UP", to))
<1> DEFINE press == left /\ ~mouse_left_down
           up == ~left /\ mouse_left_down
           p == IF press THEN desktop_press(desk, to)
                ELSE Press(FALSE, TRUE, launcher_open, desk)
           e == packet_routed(p.d, to, press /\ ~p.claimed, move, up)
<1>1. /\ PacketDoes(to, move, left, p, e)
      /\ missed' = (missed \/ (up /\ demo_full(IF move THEN 1 ELSE 0)))
  BY DEF Packet, PacketDoes
<1>2. mouse_left_down \in BOOLEAN /\ missed \in BOOLEAN
  BY DEF IInv, Typed
<1>3. CASE press
  <2> DEFINE q == desktop_press(desk, to)
             d == IF q.claimed THEN q.d ELSE routed(q.d, "DOWN", to)
  <2>1. p = q /\ ~up
    BY <1>3
  <2>2. q.claimed \in BOOLEAN
    BY DesktopPress DEF Pressed, IInv, Accounts
  <2>3. e = packet_routed(q.d, to, ~q.claimed, move, FALSE)
    BY <1>3, <2>1, <2>2
  <2>4. packet_routed(q.d, to, ~q.claimed, move, FALSE) = movedOn(d, to, move)
    BY <2>2 DEF packet_routed, movedOn
  <2>5. PacketDoes(to, move, left, q, movedOn(d, to, move))
    BY <1>1, <2>1, <2>3, <2>4
  <2>6. missed' = missed
    BY <1>1, <1>2, <2>1
  <2> QED
    BY <1>3, <2>5, <2>6
<1>4. CASE ~press /\ ~up
  <2> DEFINE q == Press(FALSE, TRUE, launcher_open, desk)
  <2>1. p = q /\ q.d = desk
    BY <1>4 DEF Press
  <2>2. e = movedOn(desk, to, move)
    BY <1>4, <2>1 DEF packet_routed, movedOn
  <2> QED
    BY <1>1, <1>2, <1>4, <2>1, <2>2
<1>5. CASE up
  <2> DEFINE q == Press(FALSE, TRUE, launcher_open, desk)
  <2>1. p = q /\ q.d = desk /\ ~press
    BY <1>5 DEF Press
  <2>2. e = routed(movedOn(desk, to, move), "UP", to)
    BY <1>5, <2>1 DEF packet_routed, movedOn
  <2> QED
    BY <1>1, <1>2, <1>5, <2>1, <2>2
<1> QED
  BY <1>3, <1>4, <1>5

\* The invariant is kept by a packet whose desktop is settled and whose drag is the
\* button's.
LEMMA PacketLeaves ==
  ASSUME IInv, NEW to, NEW move, NEW left \in BOOLEAN, NEW p, NEW e, PacketDoes(to, move, left, p, e),
         p.launcher \in BOOLEAN, missed' \in BOOLEAN, Rearranged(desk, e),
         p.ok => Settled(e), HeldByTheButton'
  PROVE  IInv'
<1>1. phase' \in {"packets", "halted"} /\ (phase' # "halted" => p.ok)
  BY DEF PacketDoes
<1>2. Typed'
  BY <1>1 DEF PacketDoes, IInv, Typed, Phases
<1>3. Accounts(desk, program.window_id)'
  BY AccountsStay DEF IInv, PacketDoes
<1>4. phase' # "halted" => Settled(desk)' /\ NoReleaseWaits'
  BY <1>1 DEF PacketDoes, NoReleaseWaits
<1> QED
  BY <1>2, <1>3, <1>4 DEF IInv

\* The press and the move of a packet: Demo holds nothing it does not have the
\* pointer for.
LEMMA PressRouted ==
  ASSUME NEW d, DeskOK(d), known(d.wm, demo_window_id), NEW p, Pressed(d, p), NEW to, NEW move \in BOOLEAN
  PROVE  LET c == IF p.claimed THEN p.d ELSE routed(p.d, "DOWN", to)
             e == movedOn(c, to, move)
         IN  /\ Rearranged(d, e) /\ ((p.ok /\ Settled(d)) => Settled(e))
             /\ \A b \in BOOLEAN : Holds(e.wm, b) => e.wm.capture = demo_window_id \/ Holds(d.wm, b)
<1> DEFINE c == IF p.claimed THEN p.d ELSE routed(p.d, "DOWN", to)
           e == movedOn(c, to, move)
<1>1. /\ p.claimed \in BOOLEAN /\ Rearranged(d, p.d) /\ Calm(d.wm, p.d.wm)
      /\ (p.ok /\ Settled(d)) => Settled(p.d)
  BY DEF Pressed
<1>2. DeskOK(p.d) /\ SoundManager(p.d.wm) /\ known(p.d.wm, demo_window_id)
  BY <1>1 DEF Rearranged, DeskOK, Calm, Hushed, known, slots_of
<1>3. DemoKept(d.wm, p.d.wm)
  BY <1>1, CalmKept
<1>4. /\ Rearranged(p.d, c) /\ (Settled(p.d) => Settled(c))
      /\ \A b \in BOOLEAN : c.wm.capture = demo_window_id \/ (Holds(c.wm, b) <=> Holds(p.d.wm, b))
  <2>1. CASE p.claimed
    <3>1. c = p.d
      BY <2>1
    <3> HIDE DEF c
    <3> QED
      BY <1>2, <3>1, RearrangedSelf
  <2>2. CASE ~p.claimed
    <3>1. c = routed(p.d, "DOWN", to)
      BY <2>2
    <3>2. "DOWN" \in PointerTypes
      BY DEF PointerTypes
    <3> HIDE DEF c
    <3>3. /\ Rearranged(p.d, c) /\ c.wm = window_route_pointer(p.d.wm, "DOWN", to)
          /\ (Settled(p.d) => Settled(c))
      BY <1>2, <3>1, <3>2, RoutedStays
    <3> QED
      BY <1>2, <3>3, DownKept
  <2> QED
    BY <1>1, <2>1, <2>2
<1> HIDE DEF c
<1>5. DeskOK(c) /\ known(c.wm, demo_window_id)
  <2>1. DeskOK(c) /\ LiveIds(c.wm) = LiveIds(p.d.wm)
    BY <1>2, <1>4 DEF Rearranged, DeskOK, AppIds
  <2> QED
    BY <1>2, <2>1, LiveKnown
<1>6. Rearranged(c, e) /\ (Settled(c) => Settled(e)) /\ DemoKept(c.wm, e.wm)
  BY <1>5, MovesOn
<1> HIDE DEF e
<1>7. Rearranged(d, e)
  BY <1>1, <1>4, <1>6, RearrangedTwice
<1>8. ASSUME NEW b \in BOOLEAN, Holds(e.wm, b), e.wm.capture # demo_window_id
      PROVE  Holds(d.wm, b)
  <2>1. Holds(c.wm, b) /\ c.wm.capture # demo_window_id
    BY <1>6, <1>8, HoldsSame DEF DemoKept
  <2>2. Holds(p.d.wm, b)
    BY <1>4, <2>1
  <2> QED
    BY <1>3, <2>2, HoldsSame
<1> QED
  BY <1>1, <1>4, <1>6, <1>7, <1>8 DEF e, c

\* Every packet is one of those.
LEMMA PacketKeeps ==
  ASSUME IInv, NEW to, NEW move \in BOOLEAN, NEW left \in BOOLEAN, Packet(to, move, left)
  PROVE  IInv'
<1>1. DeskOK(desk) /\ SoundManager(desk.wm) /\ known(desk.wm, demo_window_id)
  BY DemoKnown DEF IInv
<1>2. /\ phase # "halted" /\ Settled(desk) /\ HeldByTheButton /\ launcher_open \in BOOLEAN
      /\ mouse_left_down \in BOOLEAN /\ missed \in BOOLEAN /\ drag \in BOOLEAN
  BY DEF Packet, IInv, Typed
<1>3. CASE /\ left /\ ~mouse_left_down /\ missed' = missed
           /\ LET p == desktop_press(desk, to)
                  d == IF p.claimed THEN p.d ELSE routed(p.d, "DOWN", to)
              IN  PacketDoes(to, move, left, p, movedOn(d, to, move))
  <2> DEFINE p == desktop_press(desk, to)
             c == IF p.claimed THEN p.d ELSE routed(p.d, "DOWN", to)
             e == movedOn(c, to, move)
  <2>1. PacketDoes(to, move, left, p, e)
    BY <1>3
  <2>2. Pressed(desk, p)
    BY <1>1, DesktopPress
  <2> HIDE DEF p
  <2>3. /\ Rearranged(desk, e) /\ ((p.ok /\ Settled(desk)) => Settled(e))
        /\ \A b \in BOOLEAN : Holds(e.wm, b) => e.wm.capture = demo_window_id \/ Holds(desk.wm, b)
    BY <1>1, <2>2, PressRouted
  <2> HIDE DEF c, e
  <2>4. p.launcher \in BOOLEAN /\ missed' \in BOOLEAN
    BY <1>2, <1>3, <2>2 DEF Pressed
  <2>5. desk' = e /\ drag' = drag /\ mouse_left_down' = left
    BY <2>1 DEF PacketDoes
  <2>6. HeldByTheButton'
    BY <1>2, <1>3, <2>3, <2>5 DEF HeldByTheButton
  <2> QED
    BY <1>2, <2>1, <2>3, <2>4, <2>6, PacketLeaves
<1>4. CASE /\ left = mouse_left_down /\ missed' = missed
           /\ PacketDoes(to, move, left, Press(FALSE, TRUE, launcher_open, desk),
                         movedOn(desk, to, move))
  <2> DEFINE p == Press(FALSE, TRUE, launcher_open, desk)
             e == movedOn(desk, to, move)
  <2>1. PacketDoes(to, move, left, p, e)
    BY <1>4
  <2>2. p.launcher \in BOOLEAN /\ missed' \in BOOLEAN
    BY <1>2, <1>4 DEF Press
  <2>3. Rearranged(desk, e) /\ (Settled(desk) => Settled(e)) /\ DemoKept(desk.wm, e.wm)
    BY <1>1, MovesOn
  <2> HIDE DEF p, e
  <2>4. desk' = e /\ drag' = drag /\ mouse_left_down' = left
    BY <2>1 DEF PacketDoes
  <2>5. HeldByTheButton'
    <3>1. Holds(e.wm, drag) <=> Holds(desk.wm, drag)
      BY <2>3, HoldsSame
    <3> QED
      BY <1>2, <1>4, <2>3, <2>4, <3>1 DEF HeldByTheButton, DemoKept
  <2> QED
    BY <1>2, <2>1, <2>2, <2>3, <2>5, PacketLeaves
<1>5. CASE /\ ~left /\ mouse_left_down
           /\ missed' = (missed \/ demo_full(IF move THEN 1 ELSE 0))
           /\ PacketDoes(to, move, left, Press(FALSE, TRUE, launcher_open, desk),
                         routed(movedOn(desk, to, move), "UP", to))
  <2> DEFINE p == Press(FALSE, TRUE, launcher_open, desk)
             c == movedOn(desk, to, move)
             e == routed(c, "UP", to)
             n == IF move THEN 1 ELSE 0
  <2>1. PacketDoes(to, move, left, p, e)
    BY <1>5
  <2>2. p.launcher \in BOOLEAN /\ missed' \in BOOLEAN
    BY <1>2, <1>5 DEF Press, demo_full
  <2>3. /\ Rearranged(desk, c) /\ (Settled(desk) => Settled(c)) /\ DemoKept(desk.wm, c.wm)
        /\ Len(QueueOf(c.wm)) <= Len(QueueOf(desk.wm)) + n
        /\ Len(QueueOf(c.wm)) \in Nat /\ Len(QueueOf(desk.wm)) \in Nat
        /\ known(c.wm, demo_window_id)
    BY <1>1, MovesOn
  <2>4. demo_full(n) <=> /\ desk.wm.capture = demo_window_id
                         /\ Len(QueueOf(desk.wm)) + n >= WINDOW_EVENT_CAPACITY
    BY DEF demo_full, QueueOf
  <2>5. n \in Nat /\ missed' = (missed \/ demo_full(n))
    BY <1>5
  <2> HIDE DEF p, c, n
  <2>6. DeskOK(c) /\ SoundManager(c.wm) /\ "UP" \in PointerTypes
    BY <2>3 DEF Rearranged, DeskOK, PointerTypes
  <2>7. Rearranged(c, e) /\ e.wm = window_route_pointer(c.wm, "UP", to) /\ (Settled(c) => Settled(e))
    BY <2>6, RoutedStays
  <2> HIDE DEF e
  <2>8. /\ Holds(e.wm, drag) => Holds(c.wm, drag)
        /\ (c.wm.capture = demo_window_id /\ Len(QueueOf(c.wm)) < WINDOW_EVENT_CAPACITY)
             => ~Holds(e.wm, drag)
    BY <2>3, <2>6, <2>7, UpEnds
  <2>9. desk' = e /\ drag' = drag /\ mouse_left_down' = left
    BY <2>1 DEF PacketDoes
  <2>10. HeldByTheButton'
    <3> SUFFICES ASSUME Holds(e.wm, drag), ~missed'
                 PROVE  FALSE
      BY <2>9 DEF HeldByTheButton
    <3>1. Holds(c.wm, drag)
      BY <2>8
    <3>2. Holds(desk.wm, drag) /\ ~missed /\ ~demo_full(n)
      BY <1>2, <2>3, <2>5, <3>1, HoldsSame
    <3>3. desk.wm.capture = demo_window_id
      BY <1>2, <3>2 DEF HeldByTheButton
    <3>4. Len(QueueOf(desk.wm)) + n < WINDOW_EVENT_CAPACITY
      BY <2>3, <2>4, <2>5, <3>2, <3>3, WindowsAssumption
    <3>5. c.wm.capture = demo_window_id /\ Len(QueueOf(c.wm)) < WINDOW_EVENT_CAPACITY
      BY <2>3, <2>5, <3>3, <3>4, WindowsAssumption DEF DemoKept
    <3> QED
      BY <2>8, <3>5
  <2>11. Rearranged(desk, e) /\ Settled(e)
    BY <1>2, <2>3, <2>7, RearrangedTwice
  <2> QED
    BY <1>2, <2>1, <2>2, <2>10, <2>11, PacketLeaves
<1> QED
  BY <1>3, <1>4, <1>5, PacketCases

----------------------------------------------------------------------------
(* The program's window *)

\* A window that stays in its slot.
LEMMA SlotKept ==
  ASSUME NEW wm, SoundManager(wm), NEW wn, SoundManager(wn), NEW id, known(wm, id),
         \A s \in LiveSlots(wm) : wm.slots[s].id = id => wn.slots[s] = wm.slots[s]
  PROVE  known(wn, id) /\ window_get(wn, id) = window_get(wm, id)
<1> DEFINE slot == slot_for_id(wm, id)
<1>1. slot \in Slots /\ wm.slots[slot].id = id /\ id # WINDOW_ID_NONE
  BY SlotForId
<1>2. slot \in LiveSlots(wm) /\ wn.slots[slot] = wm.slots[slot]
  BY <1>1 DEF LiveSlots
<1> HIDE DEF slot
<1>3. known(wn, id)
  BY <1>1, <1>2 DEF known, slots_of
<1>4. slot = slot_for_id(wn, id)
  BY <1>1, <1>2, <1>3, SlotForId
<1> QED
  BY <1>2, <1>3, <1>4 DEF window_get, slot

\* A program's window comes or goes: Demo hears nothing.
LEMMA ProgramMoves ==
  ASSUME IInv, NEW d, NEW w, Accounts(d, w), DemoKept(desk.wm, d.wm),
         Rearranged(d, desk'), Calm(d.wm, desk'.wm), phase' \in {phase, "halted"},
         phase' # "halted" => Settled(desk'), program' \in ProgramType, program'.window_id = w,
         ~program'.running => w = WINDOW_ID_NONE,
         UNCHANGED <<launcher_open, mouse_left_down, drag, packets, missed>>
  PROVE  IInv'
<1>1. phase' \in Phases /\ (phase' # "halted" => phase' = phase)
  BY DEF IInv, Typed, Phases
<1>2. Typed'
  BY <1>1 DEF IInv, Typed
<1>3. Accounts(desk, program.window_id)'
  BY AccountsStay
<1>4. DemoKept(desk.wm, desk'.wm)
  BY DemoKnown, CalmKept, KeptTwice
<1>5. ASSUME phase' # "halted" PROVE HeldByTheButton' /\ NoReleaseWaits'
  <2>1. phase # "halted" /\ phase' = phase /\ HeldByTheButton /\ NoReleaseWaits
    BY <1>1, <1>5 DEF IInv
  <2>2. Holds(desk'.wm, drag) <=> Holds(desk.wm, drag)
    BY <1>4, HoldsSame
  <2>3. /\ desk'.wm.capture = demo_window_id <=> desk.wm.capture = demo_window_id
        /\ Ups(QueueOf(desk'.wm)) = Ups(QueueOf(desk.wm))
    BY <1>4 DEF DemoKept
  <2> QED
    BY <2>1, <2>2, <2>3 DEF HeldByTheButton, NoReleaseWaits
<1> QED
  BY <1>2, <1>3, <1>5 DEF IInv

\* When a program opens its window.
LEMMA OpensWindow ==
  ASSUME IInv, ProgramOpens
  PROVE  IInv'
<1> DEFINE made == desktop_add(desk)
<1>1. /\ program.running /\ program.window_id = WINDOW_ID_NONE /\ made.ok
      /\ program' = [program EXCEPT !.window_id = made.id] /\ relayout_desktop(made.d, phase)
      /\ UNCHANGED <<launcher_open, mouse_left_down, drag, packets, missed>>
  BY DEF ProgramOpens
<1>2. Accounts(desk, WINDOW_ID_NONE) /\ DeskOK(desk) /\ SoundManager(desk.wm)
      /\ known(desk.wm, demo_window_id) /\ program \in ProgramType
  BY <1>1, DemoKnown DEF IInv, Typed
<1>3. Added(desk, made)
  BY <1>1, <1>2, Adds2
<1> HIDE DEF made
<1>4. DeskOK(made.d) /\ SoundManager(made.d.wm) /\ made.d.wm.capture = desk.wm.capture
      /\ made.id \in WindowId
  BY <1>3 DEF Added, DeskOK
<1>5. \A s \in LiveSlots(desk.wm) : made.d.wm.slots[s] = desk.wm.slots[s]
  BY <1>2, <1>3, AddKeeps
<1>6. DemoKept(desk.wm, made.d.wm)
  BY <1>2, <1>4, <1>5, SlotKept, OthersRead
<1>7. Accounts(made.d, made.id)
  BY <1>2, <1>3, AccountsAdd
<1>8. /\ Rearranged(made.d, desk') /\ Calm(made.d.wm, desk'.wm) /\ phase' \in {phase, "halted"}
      /\ phase' # "halted" => Settled(desk')
  BY <1>1, <1>4, RelaysOut
<1>9. program' \in ProgramType /\ program'.window_id = made.id /\ program'.running = TRUE
  BY <1>1, <1>2, <1>4 DEF ProgramType
<1> QED
  BY <1>1, <1>6, <1>7, <1>8, <1>9, ProgramMoves

\* When its window is taken from it.
LEMMA ReleasesWindow ==
  ASSUME IInv, program.running, window_released(desk, program.window_id, phase),
         program' \in ProgramType, program'.window_id = WINDOW_ID_NONE,
         UNCHANGED <<launcher_open, mouse_left_down, drag, packets, missed>>
  PROVE  IInv'
<1> DEFINE w == program.window_id
           e == desktop_remove(desk, w)
<1>1. Accounts(desk, w) /\ DeskOK(desk) /\ SoundManager(desk.wm) /\ known(desk.wm, demo_window_id)
  BY DemoKnown DEF IInv
<1>2. CASE desktop_index_of(desk, w) = 0
  <2>1. w = WINDOW_ID_NONE
    <3>1. w \notin AppIds(desk)
      BY <1>1, <1>2, IndexIs DEF Indexed, AppIds
    <3> QED
      BY <1>1, <3>1 DEF Accounts
  <2>2. desk' = desk /\ phase' = phase
    BY <1>2 DEF window_released
  <2>3. Rearranged(desk, desk') /\ Calm(desk.wm, desk'.wm) /\ DemoKept(desk.wm, desk.wm)
    BY <1>1, <2>2, RearrangedSelf, CalmSelf, KeptSelf
  <2>4. phase' # "halted" => Settled(desk')
    BY <2>2 DEF IInv
  <2> QED
    BY <1>1, <2>1, <2>2, <2>3, <2>4, ProgramMoves
<1>3. CASE desktop_index_of(desk, w) # 0
  <2>1. relayout_desktop(e, phase)
    BY <1>3 DEF window_released
  <2>2. Removed(desk, e, w)
    BY <1>1, <1>3, Removes
  <2>3. w # WINDOW_ID_NONE
    BY <1>1, <1>3, NoneHasNoEntry
  <2> HIDE DEF e
  <2>4. Accounts(e, WINDOW_ID_NONE)
    BY <1>1, <2>2, <2>3, AccountsRemove
  <2>5. DeskOK(e) /\ SoundManager(e.wm)
    BY <2>4 DEF Accounts, DeskOK
  <2>6. w # demo_window_id
    BY <1>1, NamesAre DEF Accounts
  <2>7. \A s \in LiveSlots(desk.wm) : desk.wm.slots[s].id = demo_window_id => e.wm.slots[s] = desk.wm.slots[s]
    BY <2>2, <2>6 DEF Removed
  <2>8. window_get(e.wm, demo_window_id) = window_get(desk.wm, demo_window_id)
    BY <1>1, <2>5, <2>7, SlotKept
  <2>9. e.wm.capture = demo_window_id <=> desk.wm.capture = demo_window_id
    BY <2>2, <2>6, NamesAre DEF Removed, WINDOW_ID_NONE
  <2>10. DemoKept(desk.wm, e.wm)
    BY <2>8, <2>9 DEF DemoKept, QueueOf
  <2>11. /\ Rearranged(e, desk') /\ Calm(e.wm, desk'.wm) /\ phase' \in {phase, "halted"}
         /\ phase' # "halted" => Settled(desk')
    BY <2>1, <2>5, RelaysOut
  <2> QED
    BY <2>4, <2>10, <2>11, ProgramMoves
<1> QED
  BY <1>2, <1>3

\* When it closes its window, or ends with it open.
LEMMA ClosesWindow ==
  ASSUME IInv, ProgramCloses \/ ProgramEnds
  PROVE  IInv'
<1>1. program \in ProgramType
  BY DEF IInv, Typed
<1>2. CASE ProgramCloses
  <2>1. program' \in ProgramType /\ program'.window_id = WINDOW_ID_NONE
    BY <1>1, <1>2 DEF ProgramCloses, ProgramType
  <2> QED
    BY <1>2, <2>1, ReleasesWindow DEF ProgramCloses
<1>3. CASE ProgramEnds
  <2>1. program' \in ProgramType /\ program'.window_id = WINDOW_ID_NONE
    BY <1>3 DEF ProgramEnds, NoProgram, ProgramType
  <2> QED
    BY <1>3, <2>1, ReleasesWindow DEF ProgramEnds
<1> QED
  BY <1>2, <1>3

----------------------------------------------------------------------------
(* Every step *)

\* The machine starts in the invariant.
LEMMA InitHolds == Init => IInv
<1> SUFFICES ASSUME Init PROVE IInv
  OBVIOUS
<1>1. /\ Accounts(Booted.d, WINDOW_ID_NONE) /\ (Booted.ok => Settled(Booted.d))
      /\ Booted.d.wm.capture = WINDOW_ID_NONE /\ Silent(Booted.d.wm)
  BY BootedIs
<1>2. /\ desk = Booted.d /\ launcher_open = FALSE /\ mouse_left_down = FALSE /\ drag = FALSE
      /\ phase = (IF Booted.ok THEN "keys" ELSE "halted") /\ packets = FALSE /\ missed = FALSE
      /\ program = [running |-> FALSE, window_id |-> WINDOW_ID_NONE]
  BY DEF Init, NoProgram
<1>3. Accounts(desk, program.window_id)
  BY <1>1, <1>2
<1>4. Typed
  BY <1>2 DEF Typed, Phases, ProgramType
<1>5. Ups(QueueOf(desk.wm)) = {} /\ Downs(QueueOf(desk.wm)) = {}
  <2>1. SoundManager(desk.wm) /\ known(desk.wm, demo_window_id)
    BY <1>3, DemoKnown
  <2>2. slot_for_id(desk.wm, demo_window_id) \in Slots
    BY <2>1, SlotForId
  <2> QED
    BY <1>1, <1>2, <2>2 DEF Silent, QueueOf, window_get
<1>6. ~Holds(desk.wm, drag)
  BY <1>2, <1>5, DraggedIs DEF Holds
<1> QED
  BY <1>1, <1>2, <1>3, <1>4, <1>5, <1>6 DEF IInv, HeldByTheButton, NoReleaseWaits

\* A step that changes nothing keeps it.
LEMMA Stutters == ASSUME IInv, UNCHANGED vars PROVE IInv'
BY DEF IInv, vars, Typed, HeldByTheButton, NoReleaseWaits

\* Every step keeps it.
LEMMA NextKeeps == IInv /\ [Next]_vars => IInv'
<1> SUFFICES ASSUME IInv, [Next]_vars PROVE IInv'
  OBVIOUS
<1>1. CASE \/ CloseLauncher
           \/ \E step \in {-1, 1} : StepFocus(step)
           \/ \E to \in 1..DESKTOP_WORKSPACES : SwitchWorkspace(to)
           \/ HideFocused
           \/ ShowAll
           \/ MoveFocused
           \/ \E step \in DividerSteps : MoveDivider(step)
           \/ NoKey
  <2>1. CASE \E step \in {-1, 1} : StepFocus(step)
    BY <2>1, ShortcutKeys
  <2>2. CASE \E to \in 1..DESKTOP_WORKSPACES : SwitchWorkspace(to)
    BY <2>2, ShortcutKeys
  <2>3. CASE \E step \in DividerSteps : MoveDivider(step)
    BY <2>3, ShortcutKeys
  <2>4. CASE CloseLauncher \/ HideFocused \/ ShowAll \/ MoveFocused \/ NoKey
    BY <2>4, ShortcutKeys
  <2> QED
    BY <1>1, <2>1, <2>2, <2>3, <2>4
<1>2. CASE \E key \in {"ENTER", "OTHER"} : TypeKey(key)
  BY <1>2, KeyTyped
<1>3. CASE TerminalReads \/ EditorReads \/ EndOfPackets
  BY <1>3, TerminalHasRead, EditorHasRead, PacketsEnd
<1>4. CASE \E to \in Points, move, left \in BOOLEAN : Packet(to, move, left)
  BY <1>4, PacketKeeps
<1>5. CASE ProgramOpens \/ ProgramCloses \/ ProgramEnds
  BY <1>5, OpensWindow, ClosesWindow
<1>6. CASE UNCHANGED vars
  BY <1>6, Stutters
<1> QED
  BY <1>1, <1>2, <1>3, <1>4, <1>5, <1>6 DEF Next

\* So it always holds.
LEMMA IInvHolds == Spec => []IInv
<1>1. Init => IInv
  BY InitHolds
<1>2. IInv /\ [Next]_vars => IInv'
  BY NextKeeps
<1> QED
  BY <1>1, <1>2, PTL DEF Spec

----------------------------------------------------------------------------
(* The properties *)

\* At most one window has the keyboard.
LEMMA FocusIsOne ==
  ASSUME NEW wm, SoundManager(wm)
  PROVE  Cardinality({s \in Slots : wm.slots[s].focused}) <= 1
<1> DEFINE F == {s \in Slots : wm.slots[s].focused}
<1> SUFFICES Cardinality(F) <= 1
  OBVIOUS
<1>1. CASE F = {}
  BY <1>1, FS_EmptySet
<1>2. CASE F # {}
  <2>1. PICK s : s \in F
    BY <1>2
  <2>2. F = {s}
    BY <2>1 DEF SoundManager
  <2>3. Cardinality({s}) = 1
    BY FS_Singleton
  <2> HIDE DEF F
  <2> QED
    BY <2>2, <2>3
<1> QED
  BY <1>1, <1>2

\* A sound manager is typed and its table is sound.
LEMMA ManagerIsTyped ==
  ASSUME NEW wm, SoundManager(wm)
  PROVE  ManagerTypeOK(wm) /\ TableIsSound(wm)
<1>1. /\ wm \in Manager /\ \A s \in Slots : WindowOK(wm.slots[s])
  BY DEF SoundManager
<1>2. ManagerTypeOK(wm)
  BY <1>1 DEF ManagerTypeOK, Manager, WindowOK
<1>3. TableIsSound(wm)
  BY FocusIsOne DEF TableIsSound, SoundManager
<1> QED
  BY <1>2, <1>3

\* The windows are accounted for.
LEMMA Accounted == IInv => WindowsAreAccountedFor
<1> SUFFICES ASSUME IInv PROVE WindowsAreAccountedFor
  OBVIOUS
<1> DEFINE ids == [i \in DOMAIN desk.apps |-> desk.apps[i].id]
           n == Len(desk.apps)
<1>1. /\ Accounts(desk, program.window_id) /\ DeskOK(desk) /\ SoundManager(desk.wm)
      /\ desk.apps \in Seq(AppType) /\ desk.workspace \in 1..DESKTOP_WORKSPACES
      /\ desk.percent \in 20..80 /\ n <= DESKTOP_MAX_APPS
  BY DEF IInv, Accounts, DeskOK, DesktopType
<1>2. n \in Nat /\ DOMAIN desk.apps = 1..n /\ \A i \in 1..n : desk.apps[i] \in AppType
  BY <1>1
<1>3. TypeOK
  <2>1. {launcher_open, mouse_left_down, drag, packets, missed, program.running} \subseteq BOOLEAN
    BY DEF IInv, Typed, ProgramType
  <2>2. /\ phase \in {"keys", "drain_keys", "packets", "drain_packets", "halted"}
        /\ program.window_id \in WindowId \cup {WINDOW_ID_NONE}
    BY DEF IInv, Typed, ProgramType, Phases
  <2>3. ManagerTypeOK(desk.wm)
    BY <1>1, ManagerIsTyped
  <2> QED
    BY <1>1, <1>2, <2>1, <2>2, <2>3 DEF TypeOK, AppType
<1>4. DOMAIN ids = 1..n /\ \A i \in 1..n : ids[i] = desk.apps[i].id
  BY <1>2
<1> HIDE DEF ids
<1>5. IsInjective(ids)
  BY <1>1, <1>4 DEF IsInjective, DeskOK
<1>6. ToSet(ids) = AppIds(desk)
  BY <1>4 DEF ToSet, AppIds
<1>7. /\ ToSet(ids) = LiveIds(desk.wm)
      /\ \A i \in DOMAIN Builtins : i \in DOMAIN ids /\ ids[i] = i
      /\ ToSet(ids) = DOMAIN Builtins \cup ({program.window_id} \ {WINDOW_ID_NONE})
  BY <1>1, <1>4, <1>6 DEF Accounts, DeskOK
<1>8. TableIsSound(desk.wm)
  BY <1>1, ManagerIsTyped
<1> QED
  BY <1>3, <1>5, <1>7, <1>8 DEF WindowsAreAccountedFor, ids

\* Every window in the table belongs to one app and every app to one window, the
\* program's included, whatever is opened, closed, hidden or moved, at any number of
\* windows and apps (desktop_add, desktop_remove and their callers in main.c).
THEOREM WindowsAccounted == Spec => []WindowsAreAccountedFor
BY IInvHolds, Accounted, PTL

\* Unless the machine has halted, the apps on the screen have tiles that do not
\* overlap, inside the screen and between its bars, and parts of the arena of their
\* own; the others are minimised (desktop_relayout, tile_layout), at any size of screen
\* and any number of apps.
THEOREM ScreenShared == Spec => []ScreenIsShared
<1>1. IInv => ScreenIsShared
  BY DEF IInv, Settled, Shared, ScreenIsShared
<1> QED
  BY <1>1, IInvHolds, PTL

\* The keyboard is never with a window that is not drawn, and some window has it while
\* one is drawn (desktop_relayout, window_focus).
THEOREM KeyboardOnScreen == Spec => []KeyboardIsOnScreen
<1>1. IInv => KeyboardIsOnScreen
  BY DEF IInv, Settled, FocusShown, KeyboardIsOnScreen
<1> QED
  BY <1>1, IInvHolds, PTL

\* The demo's drag goes on without the button only after a release found its queue full
\* (main.c, window_event_push).
THEOREM DragEnds == Spec => []OnlyALostReleaseKeepsTheDrag
<1>1. IInv => OnlyALostReleaseKeepsTheDrag
  <2> SUFFICES ASSUME IInv, drag, ~mouse_left_down, phase = "keys"
               PROVE  missed
    BY DEF OnlyALostReleaseKeepsTheDrag
  <2>1. HeldByTheButton /\ NoReleaseWaits
    BY DEF IInv
  <2>2. Ups(QueueOf(desk.wm)) = {}
    BY <2>1 DEF NoReleaseWaits
  <2>3. Holds(desk.wm, drag)
    BY <2>2, DraggedIs DEF Holds
  <2> QED
    BY <2>1, <2>3 DEF HeldByTheButton, IInv, Typed
<1> QED
  BY <1>1, IInvHolds, PTL

\* A press on an app's button of the task bar puts it on the screen with the keyboard.
LEMMA ClickBrings ==
  ASSUME IInv, NEW to \in Points, NEW i \in 1..Len(desk.apps), NEW move \in BOOLEAN,
         ~mouse_left_down, phase' # "halted", ~launcher_open,
         desktop_taskbar_hit(desk, to) = i, Packet(to, move, TRUE)
  PROVE  desktop_on_screen(desk', i) /\ window_focused(desk'.wm) = desk.apps[i].id
<1> DEFINE p == desktop_press(desk, to)
           d == IF p.claimed THEN p.d ELSE routed(p.d, "DOWN", to)
           e == movedOn(d, to, move)
<1>1. DeskOK(desk) /\ known(desk.wm, demo_window_id) /\ Len(desk.apps) \in Nat
  BY DemoKnown DEF IInv, DeskOK, DesktopType
<1>2. PacketDoes(to, move, TRUE, p, e)
  BY PacketCases
<1>3. to.x \in Int /\ i # 0
  BY <1>1, LoopAssumption
<1>4. p = brought_back(desk, i)
  BY <1>1, <1>3, TaskPress
<1>5. Gives(desk, p, i)
  BY <1>1, <1>4, BringsBack
<1> HIDE DEF p
<1>6. Pressed(desk, p) /\ p.claimed /\ p.ok /\ Settled(desk)
  BY <1>2, <1>5 DEF PacketDoes, Gives, IInv
<1>7. desktop_on_screen(p.d, i) /\ window_focused(p.d.wm) = desk.apps[i].id /\ d = p.d
  BY <1>5, <1>6 DEF Gives
<1> HIDE DEF d
<1>8. DeskOK(d) /\ known(d.wm, demo_window_id)
  BY <1>1, <1>6, <1>7 DEF Pressed, Rearranged, DeskOK, Calm, Hushed, known, slots_of
<1>9. SameScreen(d, e) /\ window_focused(e.wm) = window_focused(d.wm)
  BY <1>8, MovesOn
<1> HIDE DEF e
<1> QED
  BY <1>2, <1>7, <1>9 DEF PacketDoes, SameScreen

\* A press on a button of the task bar brings that app back, from wherever it was,
\* unless the machine halted (desktop_press, desktop_taskbar_hit).
THEOREM TaskbarBringsBack == Spec => TaskbarBringsItBack
<1> DEFINE Back ==
      \A to \in Points, i \in 1..Len(desk.apps) :
        (/\ phase = "packets" /\ ~mouse_left_down /\ mouse_left_down'
         /\ phase' # "halted" /\ ~launcher_open
         /\ desktop_taskbar_hit(desk, to) = i
         /\ \E move \in BOOLEAN : Packet(to, move, TRUE))
        => /\ desktop_on_screen(desk', i)
           /\ window_focused(desk'.wm) = desk.apps[i].id
<1>1. IInv /\ [Next]_vars => [Back]_vars
  BY ClickBrings
<1> QED
  BY <1>1, IInvHolds, PTL DEF TaskbarBringsItBack, Spec

----------------------------------------------------------------------------
(* A screen with room *)

\* Two columns of the least width the divider leaves, and rows of the least
\* height for half of the windows there may be.
HasRoom ==
  /\ SCREEN_WIDTH >= 628
  /\ SCREEN_HEIGHT >= 88 * ((DESKTOP_MAX_APPS + 1) \div 2) + 74

\* A column 120 wide with 88 for every row can be cut.
LEMMA RowsFit ==
  ASSUME NEW area \in GeometryType, NEW n \in Nat \ {0}, area.width >= 120, area.height >= 88 * n - 8
  PROVE  split_rows(area, n) # <<>>
<1> DEFINE a == area.height - TILE_INNER_GAP * (n - 1)
           each == a \div n
           h == area.height
           w == area.width
<1>1. h \in Nat /\ w \in Nat
  BY DEF GeometryType
<1>2. a = h - 8 * (n - 1) /\ a \in Int
  BY <1>1 DEF TILE_INNER_GAP
<1> HIDE DEF a, h
<1>3. a >= 80 * n
  BY <1>1, <1>2 DEF h
<1>4. each \in Int /\ a < n * each + n
  BY <1>2, Quotients
<1> HIDE DEF each
<1>5. each >= 80
  <2> SUFFICES ASSUME each < 80 PROVE FALSE
    BY <1>4
  <2> DEFINE k == 79 - each
  <2>1. k \in Nat /\ each = 79 - k
    BY <1>4
  <2> HIDE DEF k
  <2>2. n * each = 79 * n - n * k /\ n * k \in Nat
    BY <2>1
  <2> QED
    BY <1>2, <1>3, <1>4, <2>2
<1>6. ~(each < TILE_MIN_HEIGHT \/ w < TILE_MIN_WIDTH)
  BY <1>1, <1>4, <1>5 DEF TILE_MIN_HEIGHT, TILE_MIN_WIDTH, w
<1>7. \E f : split_rows(area, n) = [i \in 1..n |-> f[i]]
  <2> DEFINE top(i) == area.y + (i - 1) * (each + TILE_INNER_GAP)
             f == [i \in 1..n |->
                    area_make(area.x, top(i), area.width,
                              IF i = n THEN area.y + area.height - top(i) ELSE each)]
  <2>1. split_rows(area, n) = f
    BY <1>6 DEF split_rows, each, a, w
  <2>2. f = [i \in 1..n |-> f[i]]
    OBVIOUS
  <2> HIDE DEF f
  <2> QED
    BY <2>1, <2>2
<1>8. \A f : [i \in 1..n |-> f[i]] # <<>>
  <2> TAKE f
  <2>1. 1 \in DOMAIN [i \in 1..n |-> f[i]] /\ 1 \notin DOMAIN <<>>
    OBVIOUS
  <2> QED
    BY <2>1
<1> QED
  BY <1>7, <1>8

\* An area of some size is what was asked for.
LEMMA AreaIs ==
  ASSUME NEW x \in Int, NEW y \in Int, NEW w \in Int, NEW h \in Int, w > 0, h > 0
  PROVE  /\ area_make(x, y, w, h) \in GeometryType
         /\ area_make(x, y, w, h).width = w /\ area_make(x, y, w, h).height = h
<1>1. area_make(x, y, w, h) = [x |-> x, y |-> y, width |-> w, height |-> h]
  BY DEF area_make, Area
<1> QED
  BY <1>1 DEF GeometryType

\* The same of a column built in place.
LEMMA ColumnFits ==
  ASSUME NEW x \in Int, NEW y \in Int, NEW w \in Int, NEW h \in Int, NEW n \in Nat \ {0},
         w >= 120, h >= 88 * n - 8
  PROVE  /\ split_rows(area_make(x, y, w, h), n) # <<>>
         /\ split_rows(area_make(x, y, w, h), n) \in [1..n -> GeometryType]
<1> DEFINE area == area_make(x, y, w, h)
<1>1. w > 0 /\ h > 0
  OBVIOUS
<1>2. area \in GeometryType /\ area.width = w /\ area.height = h
  BY <1>1, AreaIs
<1> HIDE DEF area
<1>3. split_rows(area, n) # <<>>
  BY <1>2, RowsFit
<1>4. split_rows(area, n) \in [1..n -> GeometryType]
  BY <1>2, <1>3, SplitRows DEF RowsIn
<1> QED
  BY <1>3, <1>4 DEF area

\* However the divider stands, both columns of 600 pixels are 120 wide.
LEMMA ColumnsAre ==
  ASSUME NEW usable \in Nat, usable >= 600, NEW percent \in 20..80
  PROVE  LET lw == (usable * percent) \div 100
         IN  lw \in Int /\ lw >= 120 /\ usable - lw \in Int /\ usable - lw >= 120
<1> DEFINE a == usable * percent
           lw == a \div 100
<1>1. 600 * percent <= a /\ a \in Nat
  BY TimesUp
<1>2. 20 * usable <= percent * usable /\ percent * usable <= 80 * usable
  BY TimesUp
<1>3. a = percent * usable
  OBVIOUS
<1> HIDE DEF a
<1>4. lw \in Int /\ 100 * lw <= a /\ a < 100 * lw + 100
  BY <1>1, Quotients
<1> HIDE DEF lw
<1>5. a >= 12000 /\ a <= 80 * usable
  BY <1>1, <1>2, <1>3
<1>6. lw >= 120
  BY <1>1, <1>4, <1>5
<1>7. usable - lw \in Int /\ usable - lw >= 120
  BY <1>1, <1>4, <1>5
<1> QED
  BY <1>4, <1>6, <1>7 DEF lw, a

\* So with room enough every number of apps can be laid out.
LEMMA LayoutFits ==
  ASSUME HasRoom, NEW percent \in 20..80, NEW n \in 1..DESKTOP_MAX_APPS
  PROVE  tile_layout(Screen, percent, n) # <<>>
<1> DEFINE work == tile_workspace(Screen)
           m == n \div 2
           usable == work.width - TILE_INNER_GAP
           lw == (usable * percent) \div 100
           rw == usable - lw
           left == split_rows(area_make(work.x, work.y, lw, work.height), m)
           rx == work.x + lw + TILE_INNER_GAP
           right == split_rows(area_make(rx, work.y, rw, work.height), n - m)
           tiles == tile_layout(Screen, percent, n)
           R == (DESKTOP_MAX_APPS + 1) \div 2
<1>0. DESKTOP_MAX_APPS \in Nat /\ n \in Nat \ {0} /\ R \in Nat /\ R >= 1
  BY DesktopAssumption, WindowsAssumption
<1>1. ~(percent < 10) /\ ~(percent > 90) /\ ~(n = 0)
  OBVIOUS
<1>2. n - m \in Nat \ {0} /\ n - m <= R /\ m \in Nat /\ m <= n - m /\ (n # 1 => m # 0)
  BY <1>0
<1>3. SCREEN_WIDTH \in Nat /\ SCREEN_HEIGHT \in Nat /\ SCREEN_WIDTH >= 628 /\ SCREEN_HEIGHT >= 88 * R + 74
  BY ScreenAssumption DEF HasRoom
<1>5. work = [x |-> 10, y |-> 38, width |-> SCREEN_WIDTH - 20, height |-> SCREEN_HEIGHT - 82]
  <2> HIDE DEF R
  <2>1. SCREEN_WIDTH - 20 > 0 /\ SCREEN_HEIGHT - 82 > 0
    BY <1>0, <1>3
  <2> QED
    BY <1>3, <2>1 DEF tile_workspace, area_make, Area, Screen, TILE_OUTER_GAP, TILE_TOP_BAR, TILE_BOTTOM_BAR
<1> DEFINE wh == work.height
           wy == work.y
           wx == work.x
           ww == work.width
<1>6. wx = 10 /\ wy = 38 /\ ww = SCREEN_WIDTH - 20 /\ wh = SCREEN_HEIGHT - 82
  BY <1>5
<1>7. work # area_none
  <2>1. area_none.width = 0
    BY DEF area_none, Area
  <2> QED
    BY <1>3, <1>6, <2>1
<1>8. wh >= 88 * (n - m) - 8 /\ wh >= 88 * m - 8 /\ wh \in Int /\ wx \in Int /\ wy \in Int
      /\ ww \in Int /\ ww >= 120
  <2> HIDE DEF m, R, work
  <2> QED
    BY <1>0, <1>2, <1>3, <1>6
<1>9. work \in GeometryType
  <2> HIDE DEF R
  <2> QED
    BY <1>0, <1>3, <1>5 DEF GeometryType
<1>10. CASE n = 1
  <2>1. tiles = split_rows(work, 1)
    BY <1>1, <1>7, <1>10 DEF tile_layout
  <2>2. work.width >= 120 /\ work.height >= 88 * 1 - 8
    BY <1>2, <1>8, <1>10
  <2> HIDE DEF work
  <2>3. split_rows(work, 1) # <<>>
    BY <1>9, <2>2, RowsFit
  <2> QED
    BY <2>1, <2>3
<1>11. CASE n # 1
  <2>1. tiles = IF left = <<>> \/ right = <<>> THEN <<>> ELSE left \o right
    BY <1>1, <1>7, <1>11 DEF tile_layout
  <2>2. usable \in Nat /\ usable >= 600
    BY <1>3, <1>6 DEF TILE_INNER_GAP
  <2> HIDE DEF usable
  <2>3. lw \in Int /\ lw >= 120 /\ rw \in Int /\ rw >= 120
    BY <2>2, ColumnsAre
  <2> HIDE DEF lw, rw
  <2>4. rx \in Int
    <3> HIDE DEF work
    <3> QED
      BY <1>8, <2>3 DEF TILE_INNER_GAP
  <2> HIDE DEF rx, m
  <2>5. left # <<>> /\ left \in [1..m -> GeometryType]
    <3>1. m \in Nat \ {0}
      BY <1>2, <1>11
    <3>2. split_rows(area_make(wx, wy, lw, wh), m) # <<>>
          /\ split_rows(area_make(wx, wy, lw, wh), m) \in [1..m -> GeometryType]
      <4> HIDE DEF wx, wy, wh
      <4> QED
        BY <1>8, <2>3, <3>1, ColumnFits
    <3> QED
      BY <3>2
  <2> DEFINE k == n - m
  <2>6. right # <<>> /\ right \in [1..k -> GeometryType]
    <3>1. k \in Nat \ {0} /\ wh >= 88 * k - 8
      BY <1>2, <1>8
    <3>2. split_rows(area_make(rx, wy, rw, wh), k) # <<>>
          /\ split_rows(area_make(rx, wy, rw, wh), k) \in [1..k -> GeometryType]
      <4> HIDE DEF wy, wh, k
      <4> QED
        BY <1>8, <2>3, <2>4, <3>1, ColumnFits
    <3> QED
      BY <3>2
  <2>7. k \in Nat \ {0} /\ m \in Nat
    BY <1>2
  <2> HIDE DEF left, right, k
  <2>8. left \o right \in [1..(m + k) -> GeometryType]
    BY <2>5, <2>6, <2>7, Joined DEF IsJoined
  <2>9. 1 \in DOMAIN (left \o right) /\ 1 \notin DOMAIN <<>>
    BY <2>7, <2>8
  <2> QED
    BY <2>1, <2>5, <2>6, <2>9
<1> QED
  BY <1>10, <1>11

\* And desktop_relayout never fails.
LEMMA RelayoutFits ==
  ASSUME HasRoom, NEW d, DeskOK(d)
  PROVE  desktop_relayout(d).ok
<1> DEFINE count == Cardinality(VisibleApps(d))
           tiles == tile_layout(Screen, d.percent, count)
           full == count # 0 /\ (tiles = <<>> \/ taken(tiles)[count] > ARENA_PIXELS)
<1>1. desktop_relayout(d).ok = ~full
  BY DEF desktop_relayout
<1>2. count \in Nat /\ count <= DESKTOP_MAX_APPS /\ d.percent \in 20..80
  BY PlacesAre DEF DeskOK, DesktopType
<1>3. ASSUME count # 0 PROVE tiles # <<>> /\ ~(taken(tiles)[count] > ARENA_PIXELS)
  <2> HIDE DEF count
  <2>1. count \in 1..DESKTOP_MAX_APPS
    BY <1>2, <1>3
  <2>2. tiles # <<>>
    BY <1>2, <2>1, LayoutFits
  <2>3. /\ Layout(tiles, count) /\ \E m, lw, rw : Stacked(tiles, count, m, lw, rw)
        /\ tile_workspace(Screen) # area_none
    <3>1. CASE count = 1
      BY <1>2, <2>2, <3>1, OneTile
    <3>2. CASE count # 1
      <4>1. count >= 2
        BY <1>2, <1>3, <3>2
      <4> QED
        BY <1>2, <2>2, <4>1, ManyTiles
    <3> QED
      BY <3>1, <3>2
  <2> HIDE DEF tiles
  <2>4. tiles \in [1..count -> GeometryType]
    BY <2>3 DEF Layout
  <2>5. Sums(taken(tiles), tiles, count)
    BY <1>2, <2>4, TakenIs
  <2>6. taken(tiles)[count] \in Nat
    BY <1>2, <2>5 DEF Sums
  <2> DEFINE sum == taken(tiles)
  <2>7. Sums(sum, tiles, count) /\ count \in Nat \ {0}
    BY <1>2, <1>3, <2>5
  <2> HIDE DEF sum
  <2>8. sum[count] <= SCREEN_WIDTH * SCREEN_HEIGHT
    BY <2>3, <2>4, <2>7, StackFits
  <2>9. SCREEN_WIDTH * SCREEN_HEIGHT \in Nat /\ SCREEN_WIDTH * SCREEN_HEIGHT <= ARENA_PIXELS
        /\ ARENA_PIXELS \in Nat
    BY ScreenAssumption, DesktopAssumption
  <2> DEFINE all == SCREEN_WIDTH * SCREEN_HEIGHT
  <2>10. sum[count] <= all /\ all \in Nat /\ all <= ARENA_PIXELS /\ sum[count] \in Nat
    BY <2>6, <2>8, <2>9 DEF sum
  <2> HIDE DEF all
  <2>11. ~(sum[count] > ARENA_PIXELS)
    BY <2>9, <2>10
  <2> QED
    BY <2>2, <2>11 DEF sum
<1> QED
  BY <1>1, <1>3

\* Nothing of the desktop stops the machine when every layout fits.
LEMMA RelaysOn ==
  ASSUME HasRoom, NEW d, DeskOK(d), NEW next, relayout_desktop(d, next)
  PROVE  phase' = next
BY RelayoutFits DEF relayout_desktop

\* Nor does a change that is followed by it.
LEMMA RelaysOnIf ==
  ASSUME HasRoom, NEW d, NEW r, Changed(d, r), NEW next, relayout_if(r, next)
  PROVE  phase' = next
<1>1. CASE r.ok
  BY <1>1, RelaysOn DEF relayout_if, Changed, Rearranged
<1>2. CASE ~r.ok
  BY <1>2 DEF relayout_if
<1> QED
  BY <1>1, <1>2

\* Nor a shortcut.
LEMMA ClaimsOn ==
  ASSUME HasRoom, IInv
  PROVE  /\ \A to \in 1..DESKTOP_WORKSPACES : SwitchWorkspace(to) => phase' # "halted"
         /\ HideFocused => phase' # "halted"
         /\ ShowAll => phase' # "halted"
         /\ MoveFocused => phase' # "halted"
         /\ \A step \in DividerSteps : MoveDivider(step) => phase' # "halted"
<1>0. DeskOK(desk)
  BY DEF IInv, Accounts
<1>1. ASSUME NEW r, Changed(desk, r), relayout_if(r, "packets") PROVE phase' # "halted"
  BY <1>1, RelaysOnIf
<1>3. ASSUME NEW to \in 1..DESKTOP_WORKSPACES, SwitchWorkspace(to) PROVE phase' # "halted"
  <2>1. Changed(desk, desktop_switch_workspace(desk, to))
    BY <1>0, Switches
  <2> QED
    BY <1>1, <1>3, <2>1 DEF SwitchWorkspace
<1>4. ASSUME HideFocused PROVE phase' # "halted"
  <2>1. Changed(desk, desktop_set_hidden(desk, window_focused(desk.wm), TRUE))
    BY <1>0, SetsHidden
  <2> QED
    BY <1>1, <1>4, <2>1 DEF HideFocused
<1>5. ASSUME ShowAll PROVE phase' # "halted"
  <2> DEFINE r == [ok |-> \E i \in DOMAIN desk.apps : desk.apps[i].hidden,
                   d |-> [desk EXCEPT !.apps = [i \in DOMAIN @ |->
                                                 [@[i] EXCEPT !.hidden = FALSE]]]]
  <2>1. Changed(desk, r)
    BY <1>0, ShowsAll
  <2>2. relayout_if(r, "packets")
    BY <1>5 DEF ShowAll
  <2> HIDE DEF r
  <2> QED
    BY <1>1, <2>1, <2>2
<1>6. ASSUME MoveFocused PROVE phase' # "halted"
  <2> DEFINE r == desktop_move_to_workspace(desk, window_focused(desk.wm),
                                            (desk.workspace % DESKTOP_WORKSPACES) + 1)
  <2>1. Changed(desk, r)
    BY <1>0, Moves
  <2>2. relayout_if(r, "packets")
    BY <1>6 DEF MoveFocused
  <2> HIDE DEF r
  <2> QED
    BY <1>1, <2>1, <2>2
<1>7. ASSUME NEW step \in DividerSteps, MoveDivider(step) PROVE phase' # "halted"
  <2> DEFINE r == [ok |-> divider(desk.percent + step) # desk.percent,
                   d |-> [desk EXCEPT !.percent = divider(desk.percent + step)]]
  <2>0. step \in Int
    BY LoopAssumption
  <2>1. Changed(desk, r)
    BY <1>0, <2>0, MovesDivider
  <2>2. relayout_if(r, "packets")
    BY <1>7 DEF MoveDivider
  <2> HIDE DEF r
  <2> QED
    BY <1>1, <2>1, <2>2
<1> QED
  BY <1>3, <1>4, <1>5, <1>6, <1>7

\* Nor bringing an app back.
LEMMA BringsBackFits ==
  ASSUME HasRoom, NEW d, DeskOK(d), NEW i \in 1..Len(d.apps)
  PROVE  brought_back(d, i).ok
<1> DEFINE shown == desktop_set_hidden(d, d.apps[i].id, FALSE)
           switched == desktop_switch_workspace(shown.d, d.apps[i].workspace)
           r == IF shown.ok \/ switched.ok THEN desktop_relayout(switched.d)
                ELSE [ok |-> TRUE, d |-> d]
<1>1. brought_back(d, i).ok = r.ok
  BY DEF brought_back, Press
<1>2. DeskOK(shown.d)
  BY SetsHidden DEF Changed, Rearranged
<1> HIDE DEF shown
<1>3. DeskOK(switched.d)
  BY <1>2, Switches DEF Changed, Rearranged
<1> HIDE DEF switched
<1>4. r.ok
  BY <1>3, RelayoutFits
<1> QED
  BY <1>1, <1>4

\* Nor a press.
LEMMA PressFits ==
  ASSUME HasRoom, NEW d, DeskOK(d), NEW where
  PROVE  desktop_press(d, where).ok
<1> DEFINE entry == launcher_entry_at(d, where)
           task == desktop_taskbar_hit(d, where)
           p == desktop_press(d, where)
           hit == window_hit_test(d.wm, where)
<1> SUFFICES p.ok
  OBVIOUS
<1>1. \/ entry # 0 /\ p = brought_back(d, entry)
      \/ task # 0 /\ p = brought_back(d, task)
      \/ p = title_bar_press(d, hit, where)
      \/ p = Press(TRUE, TRUE, FALSE, d) \/ p = Press(TRUE, TRUE, TRUE, d)
      \/ p = Press(FALSE, TRUE, FALSE, d)
  BY DEF desktop_press
<1>2. entry \in 0..Len(d.apps) /\ task \in 0..Len(d.apps) /\ Len(d.apps) \in Nat
  BY LauncherEntry, TaskEntry DEF DeskOK, DesktopType
<1> HIDE DEF p, entry, task, hit
<1>3. ASSUME NEW i \in 0..Len(d.apps), i # 0, p = brought_back(d, i)
      PROVE  p.ok
  <2>1. i \in 1..Len(d.apps)
    BY <1>2, <1>3
  <2> QED
    BY <1>3, <2>1, BringsBackFits
<1>4. CASE p = title_bar_press(d, hit, where)
  <2> DEFINE put == desktop_set_hidden(d, hit, TRUE)
             r == IF put.ok THEN desktop_relayout(put.d) ELSE put
             fine == r.ok \/ ~put.ok
  <2>1. p = Press(TRUE, fine, FALSE, r.d) \/ p = Press(FALSE, TRUE, FALSE, d)
    BY <1>4 DEF title_bar_press
  <2>2. DeskOK(put.d) /\ put.ok \in BOOLEAN
    BY SetsHidden DEF Changed, Rearranged
  <2> HIDE DEF put
  <2>3. fine = TRUE
    BY <2>2, RelayoutFits
  <2> HIDE DEF r, fine
  <2>4. CASE p = Press(TRUE, fine, FALSE, r.d)
    BY <2>3, <2>4 DEF Press
  <2>5. CASE p = Press(FALSE, TRUE, FALSE, d)
    BY <2>5 DEF Press
  <2> QED
    BY <2>1, <2>4, <2>5
<1>5. CASE \/ p = Press(TRUE, TRUE, FALSE, d) \/ p = Press(TRUE, TRUE, TRUE, d)
           \/ p = Press(FALSE, TRUE, FALSE, d)
  BY <1>5 DEF Press
<1> QED
  BY <1>1, <1>2, <1>3, <1>4, <1>5

\* Nor EDIT.
LEMMA EditorFits ==
  ASSUME HasRoom, NEW d, DeskOK(d), NEW next, editor_opened(d, next)
  PROVE  phase' = next
<1> DEFINE put == desktop_set_hidden(d, editor_window_id, FALSE)
           r == IF put.ok THEN desktop_relayout(put.d) ELSE [ok |-> TRUE, d |-> d]
<1>1. phase' = IF r.ok THEN next ELSE "halted"
  BY DEF editor_opened
<1>2. DeskOK(put.d)
  BY SetsHidden DEF Changed, Rearranged
<1> HIDE DEF put
<1>3. r.ok
  BY <1>2, RelayoutFits
<1> QED
  BY <1>1, <1>3

\* Nor the layout at the start.
LEMMA StartFits ==
  ASSUME HasRoom
  PROVE  Booted.ok
BY BootedIs, RelayoutFits

\* Nor any step.
LEMMA NextFits ==
  ASSUME HasRoom, IInv, phase # "halted", Next
  PROVE  phase' # "halted"
<1>0. DeskOK(desk) /\ phase \in Phases
  BY DEF IInv, Accounts, Typed
<1>1. CASE \/ CloseLauncher
           \/ \E step \in {-1, 1} : StepFocus(step)
           \/ NoKey
  BY <1>1 DEF CloseLauncher, StepFocus, NoKey
<1>2. CASE \E to \in 1..DESKTOP_WORKSPACES : SwitchWorkspace(to)
  BY <1>2, ClaimsOn
<1>3. CASE HideFocused \/ ShowAll \/ MoveFocused
  BY <1>3, ClaimsOn
<1>4. CASE \E step \in DividerSteps : MoveDivider(step)
  BY <1>4, ClaimsOn
<1>5. CASE \E key \in {"ENTER", "OTHER"} : TypeKey(key)
  BY <1>5 DEF TypeKey
<1>6. CASE TerminalReads
  <2> DEFINE rest == [desk EXCEPT !.wm = popped(@, terminal_window_id)]
  <2>1. phase' = phase \/ editor_opened(rest, phase)
    BY <1>6 DEF TerminalReads
  <2>2. DeskOK(rest)
    <3> DEFINE wn == popped(desk.wm, terminal_window_id)
    <3>1. known(desk.wm, terminal_window_id) /\ SoundManager(desk.wm)
      BY DemoKnown DEF IInv
    <3>2. Told(desk.wm, wn)
      BY <1>6, <3>1, PoppedTells DEF TerminalReads, terminal_queue
    <3> HIDE DEF wn
    <3>3. Rearranged(desk, [desk EXCEPT !.wm = wn])
      BY <1>0, <3>2, TellsStay
    <3> QED
      BY <3>3 DEF Rearranged, wn
  <2> HIDE DEF rest
  <2> QED
    BY <2>1, <2>2, EditorFits
<1>7. CASE EditorReads
  BY <1>7 DEF EditorReads
<1>8. ASSUME NEW to \in Points, NEW move \in BOOLEAN, NEW left \in BOOLEAN, Packet(to, move, left)
      PROVE  phase' # "halted"
  <2>1. desktop_press(desk, to).ok
    BY <1>0, PressFits
  <2>2. Press(FALSE, TRUE, launcher_open, desk).ok
    BY DEF Press
  <2> QED
    BY <1>8, <2>1, <2>2 DEF Packet
<1>9. CASE EndOfPackets
  BY <1>9 DEF EndOfPackets
<1>10. CASE ProgramOpens
  <2>1. DeskOK(desktop_add(desk).d)
    BY <1>0, <1>10, Adds2 DEF Added, ProgramOpens
  <2>2. relayout_desktop(desktop_add(desk).d, phase)
    BY <1>10 DEF ProgramOpens
  <2> QED
    BY <2>1, <2>2, RelaysOn
<1>11. CASE ProgramCloses \/ ProgramEnds
  <2>1. window_released(desk, program.window_id, phase)
    BY <1>11 DEF ProgramCloses, ProgramEnds
  <2>2. CASE desktop_index_of(desk, program.window_id) = 0
    BY <2>1, <2>2 DEF window_released
  <2>3. CASE desktop_index_of(desk, program.window_id) # 0
    <3>1. DeskOK(desktop_remove(desk, program.window_id))
      BY <1>0, <2>3, Removes DEF Removed
    <3> QED
      BY <2>1, <2>3, <3>1, RelaysOn DEF window_released
  <2> QED
    BY <2>2, <2>3
<1> QED
  BY <1>1, <1>2, <1>3, <1>4, <1>5, <1>6, <1>7, <1>8, <1>9, <1>10, <1>11 DEF Next

\* On a screen with room for the apps there can be, which the code's own sizes leave
\* from 628 by 338 on, no layout ever fails, so the machine never halts for want of
\* room (the calls of fail() where a layout failed, main.c).
THEOREM MachineNeverStops == ASSUME HasRoom PROVE Spec => []ScreenHoldsItsTiles
<1>1. Init => ScreenHoldsItsTiles
  BY StartFits DEF Init, ScreenHoldsItsTiles
<1>2. IInv /\ ScreenHoldsItsTiles /\ [Next]_vars => ScreenHoldsItsTiles'
  BY NextFits DEF ScreenHoldsItsTiles, vars
<1> QED
  BY <1>1, <1>2, IInvHolds, PTL DEF Spec
=============================================================================
