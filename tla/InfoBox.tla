------------------------------ MODULE InfoBox ------------------------------
(***************************************************************************)
(* info_box.c: the box that tells how to wake the screen, drawn over the   *)
(* picture of any saver and moved from time to time.  The saver under it   *)
(* is one that does not paint over it, as train.c; the size of the         *)
(* terminal may change between two frames.                                 *)
(***************************************************************************)
EXTENDS Integers

CONSTANTS Sizes,        \* <<rows, columns>> a terminal may have
          BoxWidth      \* of the message and its padding

VARIABLES LINES, COLS,
          interval,     \* 0 if no box is wanted
          box,          \* <<row, column>> of its corner; negative at first
          painted       \* the cells that show a part of a box

vars == <<LINES, COLS, interval, box, painted>>

BoxHeight == 3
Unplaced == <<-1, -1>>
Screen == (0..LINES - 1) \X (0..COLS - 1)
Footprint(corner) == (corner[1]..corner[1] + BoxHeight - 1)
                       \X (corner[2]..corner[2] + BoxWidth - 1)
Fits == BoxWidth <= COLS /\ BoxHeight <= LINES

Init == /\ \E s \in Sizes : LINES = s[1] /\ COLS = s[2]
        /\ interval \in 0..1
        /\ box = Unplaced /\ painted = {}

(* The terminal forgets what no longer fits.                                *)
Resize == /\ \E s \in Sizes : LINES' = s[1] /\ COLS' = s[2]
          /\ painted' = painted \intersect Screen'
          /\ UNCHANGED <<interval, box>>

LeastOf(a, b) == IF a < b THEN a ELSE b

Draw(corner, left) == /\ box' = corner
                      /\ painted' = left \union (Footprint(corner) \intersect Screen)
                      /\ UNCHANGED <<LINES, COLS, interval>>

(* The interval is over, or this is the first box: the old one is blanked   *)
(* before the new one is placed anywhere on the screen.                     *)
Relocate_Unerased == /\ interval > 0 /\ Fits    \* Mutant: no clear_rect().
                     /\ \E corner \in (0..LINES - BoxHeight) \X (0..COLS - BoxWidth) :
                          Draw(corner, painted)
Relocate == /\ interval > 0 /\ Fits
            /\ \E corner \in (0..LINES - BoxHeight) \X (0..COLS - BoxWidth) :
                 Draw(corner, IF box = Unplaced THEN painted ELSE painted \ Footprint(box))

(* Otherwise it stays, but for what a smaller terminal makes necessary.     *)
Stay == /\ interval > 0 /\ Fits
        /\ box # Unplaced
        /\ Draw(<<LeastOf(box[1], LINES - BoxHeight), LeastOf(box[2], COLS - BoxWidth)>>, painted)

Next == Relocate \/ Stay \/ Resize

-----------------------------------------------------------------------------
TypeOK == /\ LINES \in Nat /\ COLS \in Nat /\ interval \in 0..1
          /\ box \in {Unplaced} \union (Nat \X Nat)

(* Whatever becomes of the size of the terminal, nothing of a box is left   *)
(* on the screen outside the place where it is blanked next, and nothing is *)
(* painted off the screen.                                                  *)
NoGhost == /\ painted \subseteq Screen
           /\ painted \subseteq Footprint(box)
=============================================================================
