------------------------------- MODULE Train -------------------------------
(***************************************************************************)
(* The picture of train.c: an engine that crosses the screen from the      *)
(* right to the left, again and again, and the smoke it leaves.  Of the    *)
(* three engines only the D51 is ever drawn: nothing sets LOGO, C51, FLY   *)
(* or ACCIDENT.  Of the puffs, which do not touch each other, one is       *)
(* followed; the columns it drifts through are left out.                   *)
(***************************************************************************)
EXTENDS Integers

CONSTANTS Sizes,            \* <<rows, columns>> a terminal may have
          Randoms,          \* what rand() may return
          LENGTH, FUNNEL,   \* of the engine
          MaxSmoke          \* the puffs there is room for

VARIABLES LINES, COLS,
          train_random, train_rnd,
          x,                \* where the engine is drawn next
          sum,              \* the number of the next puff
          puff              \* the number of the one followed, its row, its form

vars == <<LINES, COLS, train_random, train_rnd, x, sum, puff>>

HEIGHT == 10
PATTERNS == 6
SMOKEPTNS == 16
dy(ptrn) == CASE ptrn = 0 -> 2 [] ptrn \in 1..3 -> 1 [] OTHER -> 0

NoPuff == [n |-> -1]

Init == /\ \E s \in Sizes : LINES = s[1] /\ COLS = s[2]
        /\ train_random \in BOOLEAN
        /\ train_rnd \in IF train_random THEN Randoms ELSE {0}
        /\ x = COLS - 1
        /\ sum = 0 /\ puff = NoPuff

(* The row of the engine's top, worked out anew for every frame.            *)
Row == IF ~train_random THEN LINES \div 2 - 5
       ELSE IF LINES - 1 - HEIGHT < 1 THEN 0
       ELSE 1 + (train_rnd % (LINES - 1 - HEIGHT))

(* Which of the engine's drawings is shown.                                 *)
Pattern == (LENGTH + x) % PATTERNS

(* add_smoke(): every fourth column all puffs rise and change, and a new    *)
(* one appears over the funnel; when there is no room left, the numbers     *)
(* start again and the older puffs stay where they are.                     *)
Risen == IF puff.n \in 0..sum - 1
         THEN [puff EXCEPT !.y = @ - dy(puff.ptrn),
                           !.ptrn = IF @ < SMOKEPTNS - 1 THEN @ + 1 ELSE @]
         ELSE puff

add_smoke(y) ==
    LET n == IF sum >= MaxSmoke THEN 0 ELSE sum
    IN  /\ sum' = n + 1
        /\ \/ puff' = [n |-> n, y |-> y, ptrn |-> 0]
           \/ puff.n # n /\ puff' = Risen

(* One step of the inner loop.                                              *)
add_D51 == /\ x >= -LENGTH
           /\ IF (x + FUNNEL) % 4 = 0 THEN add_smoke(Row - 1) ELSE UNCHANGED <<sum, puff>>
           /\ x' = x - 1
           /\ UNCHANGED <<LINES, COLS, train_random, train_rnd>>

(* The engine has left the screen: the next pass, at another height if that *)
(* is asked for.                                                            *)
Pass == /\ x < -LENGTH
        /\ train_rnd' \in IF train_random THEN Randoms ELSE {0}
        /\ x' = COLS - 1
        /\ UNCHANGED <<LINES, COLS, train_random, sum, puff>>

(* getch() lets ncurses take the new size of the terminal.                  *)
Resize == /\ \E s \in Sizes : LINES' = s[1] /\ COLS' = s[2]
          /\ UNCHANGED <<train_random, train_rnd, x, sum, puff>>

Next == add_D51 \/ Pass \/ Resize

-----------------------------------------------------------------------------
TypeOK == /\ LINES \in Nat /\ COLS \in Nat
          /\ train_random \in BOOLEAN /\ train_rnd \in Randoms \union {0}
          /\ x \in Int

(* No drawing, puff or form of one is looked up outside its table: there    *)
(* are MaxSmoke puffs, though the saver never stops making them.            *)
TablesHold == /\ x >= -LENGTH => Pattern \in 0..PATTERNS - 1
              /\ sum \in 0..MaxSmoke
              /\ puff.n < MaxSmoke
              /\ puff # NoPuff => puff.ptrn \in 0..SMOKEPTNS - 1

(* At a random height the engine is all on the screen, with a row above it, *)
(* if it fits at all.                                                       *)
AllOnScreen == train_random /\ LINES >= HEIGHT + 2 => Row >= 1 /\ Row + HEIGHT <= LINES - 1
=============================================================================
