-------------------------------- MODULE Plane -------------------------------
(***************************************************************************)
(* The program plane (plane.c): art, a sequence of rows, is drawn frame by *)
(* frame from right to left.  The screen is a function from <<row, column>>*)
(* to characters: what a terminal makes of the escape codes that draw_char *)
(* sends.  eraser.c draws with the same code, and parses areas N:M.        *)
(***************************************************************************)
EXTENDS Strings

Cells(rows, cols) == {<<r, c>> : r \in 0 .. rows - 1, c \in 0 .. cols - 1}
Blank(rows, cols) == [p \in Cells(rows, cols) |-> " "]

\* Nothing is drawn outside the screen (draw_char).
draw_art(screen, art, r, c) ==
    [p \in DOMAIN screen |->
        LET row == p[1] - r + 1
            col == p[2] - c + 1
        IN  IF row \in DOMAIN art THEN IF col \in DOMAIN art[row] THEN art[row][col] ELSE screen[p]
            ELSE screen[p]]

\* What draw_art returns: the last column that is drawn.
ArtWidth(art) == LET lens == {Len(art[i]) : i \in DOMAIN art}
                 IN  (CHOOSE n \in lens : \A k \in lens : k <= n) - 1

\* From the right edge until only the last column is left at the left edge; what
\* fprintf_reset clears afterwards is not needed.
fly(screen, art, rows, cols, altitude) ==
    LET frame[c \in -ArtWidth(art) .. cols] ==
            draw_art(IF c = cols THEN screen ELSE frame[c + 1], art, rows - altitude, c)
    IN  frame[-ArtWidth(art)]

-----------------------------------------------------------------------------
\* "N:M", each with atoi, which stops at the colon.
parse_mn(a) ==
    LET colons == {k \in DOMAIN a : a[k] = ":"}
    IN  <<atoi(a), IF colons = {} THEN atoi(<<>>) ELSE atoi(SubSeq(a, LeastOf(colons) + 1, Len(a)))>>
=============================================================================
