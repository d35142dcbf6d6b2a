------------------------------- MODULE Matrix -------------------------------
(***************************************************************************)
(* The picture of cmatrix.c: streams of characters that fall down the      *)
(* columns of the screen.  The code of a column never looks at another     *)
(* one, so one column is followed.  Which character a cell holds and its   *)
(* colour are left out; that the lowest one may be bright is not.          *)
(***************************************************************************)
EXTENDS Integers, FiniteSetsExt

CONSTANT Heights    \* the rows a terminal may have

VARIABLES
    LINES,
    chars,          \* the rows whose val is a character; row 0 is not shown
    unused,         \* val of row 0 is -1, and not the ' ' of every other row
    bright,         \* the rows whose bold is 2; nothing tells 0 from 1
    length, spaces  \* of the newest stream, and left until the next one

column == <<chars, unused, bright, length, spaces>>
vars == <<LINES, column>>

(* Both after initscr() and after a change of the size.                     *)
AtLeastTen(n) == IF n < 10 THEN 10 ELSE n

(* rand() % (LINES - 3) + 3 and rand() % LINES + 1                          *)
Lengths == 3..LINES - 1
Spaces == 1..LINES

(* var_init(): the length drawn here is drawn again before it is used.      *)
Init == /\ LINES \in {AtLeastTen(h) : h \in Heights}
        /\ chars = {} /\ unused = TRUE /\ bright = {}
        /\ length = 3 /\ spaces \in Spaces

resize_screen == /\ LINES' \in {AtLeastTen(h) : h \in Heights}
                 /\ chars' = {} /\ unused' = TRUE /\ bright' = {}
                 /\ length' = 3 /\ spaces' \in Spaces'

-----------------------------------------------------------------------------
(* A stream is a run of characters without a gap.                           *)
Upper(rows) == {i \in rows : i - 1 \notin rows}
Lower(rows) == {i \in rows : i + 1 \notin rows}

Free == unused /\ 1 \notin chars
Starts == Free /\ spaces = 0

(* The first stream keeps its upper end until it is longer than `length',   *)
(* so it grows; every other one loses it, so it moves.                      *)
FirstGrows(rows) ==
    /\ rows # {}
    /\ Min(Lower(rows)) < LINES
    /\ Min(Lower(rows)) - Min(rows) + 1 <= length'

(* The streams that only leave the screen are not counted as moving.        *)
Moving(rows) == (Lower(rows) \ {LINES}) \
                   (IF FirstGrows(rows) THEN {Min(Lower(rows))} ELSE {})

Lost_FirstOnly(rows) ==         \* Mutant: the length is not looked at.
    IF rows = {} THEN {} ELSE Upper(rows) \ {Min(rows)}
Lost(rows) == IF FirstGrows(rows) THEN Upper(rows) \ {Min(rows)} ELSE Upper(rows)

(* A stream that moves leaves row 0 to the next one.                        *)
Vacated_Never(rows) == unused /\ 0 \notin rows   \* Mutant: row 0 gets no -1.
Vacated(rows) == Moving(rows) # {} \/ (unused /\ 0 \notin rows)

(* Every stream gets a character below its lower end, bright if that was,   *)
(* or leaves the screen there.                                              *)
Scroll(rows, lit) ==
    /\ chars' = (rows \union {e + 1 : e \in Lower(rows)})
                   \ (Lost(rows) \union {LINES + 1}
                        \union (IF Moving(rows) # {} THEN {0} ELSE {}))
    /\ unused' = Vacated(rows)
    /\ bright' = {IF e \in Lower(rows) THEN e + 1 ELSE e : e \in lit} \ {LINES + 1}

(* One round of the main loop: the blanks before a stream are counted, the  *)
(* next stream starts in row 0 when they are used up, and all are moved.    *)
Frame == /\ IF Starts
            THEN /\ length' \in Lengths /\ spaces' \in Spaces
                 /\ \E lit \in {bright, bright \union {0}} : Scroll(chars \union {0}, lit)
            ELSE /\ length' = length
                 /\ spaces' = IF Free THEN spaces - 1 ELSE spaces
                 /\ Scroll(chars, bright)
         /\ UNCHANGED LINES

Next == Frame \/ resize_screen

(* What is drawn: row i of the column is shown in row i - 1 of the screen.  *)
Shown(y) == CASE y + 1 \in bright -> "white"
              [] y + 1 \in chars \ bright -> "coloured"
              [] OTHER -> "nothing"

-----------------------------------------------------------------------------
TypeOK == /\ LINES \in Nat
          /\ chars \subseteq 0..LINES /\ bright \subseteq 0..LINES
          /\ unused \in BOOLEAN
          /\ length \in Lengths /\ spaces \in 0..LINES

(* A white cell is the lowest character of a stream: nothing is shown below *)
(* it, and there is never a white blank.                                    *)
WhiteLeads == \A y \in 0..LINES - 1 :
                 Shown(y) = "white" => /\ y + 1 \in chars
                                       /\ y < LINES - 1 => Shown(y + 1) = "nothing"

(* A frame moves every stream down by one row: none stops, merges with the  *)
(* one before it or falls apart; all but the first, which may still grow,   *)
(* keep their lengths; the only new one starts at the top.                  *)
Falls ==
    LET falling == IF chars = {} \/ Lower(chars) = {LINES}
                   THEN Upper(chars) ELSE Upper(chars) \ {Min(chars)}
    IN  /\ Lower(chars') \ {LINES} = ({e + 1 : e \in Lower(chars)} \ {LINES, LINES + 1})
                                       \union (IF Starts THEN {1} ELSE {})
        /\ \A u \in falling : u < LINES => u + 1 \in Upper(chars')
        /\ Cardinality(Upper(chars')) <= Cardinality(Upper(chars)) + (IF Starts THEN 1 ELSE 0)
=============================================================================
