------------------------------- MODULE Pipes -------------------------------
(***************************************************************************)
(* The picture of wetpipes.c: two or three pipes on a row of bricks, under *)
(* water, and the bubbles that rise from them to the surface.  No bubble   *)
(* touches the place of another, so one at a time is followed.             *)
(***************************************************************************)
EXTENDS Integers, FiniteSets

CONSTANT Sizes      \* <<rows, columns>> a terminal may have

VARIABLES LINES, COLS,
          pipes,        \* from left to right
          sky_h,        \* kept by wetpipes_main() from frame to frame
          bubble

vars == <<LINES, COLS, pipes, sky_h, bubble>>

BRICK_ROWS == 2
MIN_PIPE_HEIGHT == 4
FLANGE_ROWS == 2
MIN_PIPE_GAP == 3
MAX_STREAMS_PER_PIPE == 12
TRANSITION_LOCKOUT_FRAMES == 6
Kinds == {"green", "gray"}
Period == [colon |-> 3, dot |-> 2, small |-> 4, large |-> 5, fat |-> 7]

Least(a, b) == IF a < b THEN a ELSE b
Most(a, b) == IF a > b THEN a ELSE b

Screens == {<<Most(s[1], 10), Most(s[2], 10)>> : s \in Sizes}
brick_top(lines) == lines - BRICK_ROWS
SkyHeight(lines) == Most((lines * 10) \div 100, 1)
MaxHeight(lines) == Most((lines * 30) \div 100, MIN_PIPE_HEIGHT)

-----------------------------------------------------------------------------
(* compute_pipes().  The shaft gets narrower by two until the pipes fit the *)
(* screen, and at five pipes are dropped: what is tried, and what fits.     *)
Tries(count) == ({count} \X {13, 11, 9, 7, 5}) \union ((1..count) \X {5})

Fits(t, cols) == t[1] * (t[2] + 2) + (t[1] - 1) * MIN_PIPE_GAP <= cols

FirstFit(t, count, cols) ==
    /\ Fits(t, cols)
    /\ \A u \in Tries(count) : Fits(u, cols) => \/ u[1] < t[1]
                                                \/ u[1] = t[1] /\ u[2] <= t[2]

(* Pipe i of n, in the middle of its slot.                                  *)
Left(i, n, shaft, cols) ==
    (i - 1) * (cols \div n) + (cols \div n - (shaft + 2)) \div 2

(* Of two pipes or more, one is of the other kind than the rest if need be. *)
Mixed(kind) == Cardinality(DOMAIN kind) >= 2 => {kind[i] : i \in DOMAIN kind} = Kinds

Layouts(lines, cols) ==
    UNION {LET n == t[1] IN
           {[i \in 1..n |-> [x |-> Left(i, n, t[2], cols), shaft_w |-> t[2],
                             y_top |-> brick_top(lines) - height[i],
                             height |-> height[i], kind |-> kind[i]]] :
              height \in [1..n -> MIN_PIPE_HEIGHT..MaxHeight(lines)],
              kind \in {k \in [1..n -> Kinds] : Mixed(k)}} :
             t \in UNION {{u \in Tries(count) : FirstFit(u, count, cols)} : count \in 2..3}}

(* The columns of the streams of a pipe, over its shaft.                    *)
stream_count(p) == Least(MAX_STREAMS_PER_PIPE, p.shaft_w - 1)
stream_x(p) == {p.x + 2 + (s * (p.shaft_w - 2)) \div (stream_count(p) - 1) :
                  s \in 0..stream_count(p) - 1}

Gone == [alive |-> FALSE]

Init == /\ \E s \in Screens : LINES = s[1] /\ COLS = s[2]
        /\ pipes \in Layouts(LINES, COLS)
        /\ sky_h = SkyHeight(LINES)
        /\ bubble = Gone

(* The new pipes have no bubbles.                                           *)
resize_screen_OldSky ==     \* Mutant: the surface stays where it was.
    \E s \in Screens : /\ LINES' = s[1] /\ COLS' = s[2]
                       /\ pipes' \in Layouts(s[1], s[2])
                       /\ bubble' = Gone
                       /\ UNCHANGED sky_h
resize_screen ==
    \E s \in Screens : /\ LINES' = s[1] /\ COLS' = s[2]
                       /\ pipes' \in Layouts(s[1], s[2])
                       /\ bubble' = Gone
                       /\ sky_h' = SkyHeight(s[1])

-----------------------------------------------------------------------------
(* bubble_maybe_grow(): what a kind may become.                             *)
Grown(kind) == CASE kind = "dot" -> {"colon", "small"}
                 [] kind = "small" -> {"large", "fat"}
                 [] OTHER -> {}

Emitted(p) == [alive |-> TRUE, pipe |-> p, y |-> pipes[p].y_top - 1, kind |-> "dot",
               lockout |-> TRANSITION_LOCKOUT_FRAMES, floating |-> FALSE, moves |-> 0]

(* A bubble that sits on its pipe waits, grows, or lets go of it for good.  *)
Sits(b) == IF b.lockout > 0
           THEN {[b EXCEPT !.lockout = @ - 1]}
           ELSE {[b EXCEPT !.kind = k, !.lockout = TRANSITION_LOCKOUT_FRAMES] :
                   k \in Grown(b.kind)}
                \union {[b EXCEPT !.floating = TRUE, !.moves = 0]}

(* One that floats rises in the time of its kind, and bursts at the surface. *)
Floats(b) ==
    IF b.moves + 1 < Period[b.kind] THEN [b EXCEPT !.moves = @ + 1]
    ELSE IF b.y - 1 < sky_h THEN Gone ELSE [b EXCEPT !.y = @ - 1, !.moves = 0]

Moved(b) == IF ~b.alive THEN {b} ELSE IF b.floating THEN {Floats(b)} ELSE Sits(b)

(* update_bubbles(): a free place may be chosen for a new bubble, which is  *)
(* then moved like the others.                                              *)
Frame == /\ \E b \in {bubble} \union
                       (IF bubble.alive THEN {} ELSE {Emitted(p) : p \in DOMAIN pipes}) :
              bubble' \in Moved(b)
         /\ UNCHANGED <<LINES, COLS, pipes, sky_h>>

Next == Frame \/ resize_screen

-----------------------------------------------------------------------------
(* What the canvas shows in a cell: draw_frame() with draw_pipe() and       *)
(* draw_bricks(), each of which paints over those before it.  The bricks    *)
(* fill their rows.                                                         *)
Covers(p, y, x) == \/ y \in p.y_top..p.y_top + FLANGE_ROWS - 1 /\ x \in p.x..p.x + p.shaft_w + 1
                   \/ /\ y \in p.y_top + FLANGE_ROWS..p.y_top + p.height - 1
                      /\ x \in p.x + 1..p.x + p.shaft_w
draw_bricks == brick_top(LINES)..brick_top(LINES) + BRICK_ROWS - 1
Canvas(y, x) ==
    IF y \in draw_bricks THEN "bricks"
    ELSE IF y < brick_top(LINES) /\ \E i \in DOMAIN pipes : Covers(pipes[i], y, x) THEN "pipe"
    ELSE IF y < Least(SkyHeight(LINES), brick_top(LINES)) THEN "sky"
    ELSE "water"

(* Over a copy of the canvas, which hides the bubbles of the frame before,  *)
(* each bubble is drawn in its cell: the one followed, in some column of    *)
(* its pipe's streams.                                                      *)
draw_bubbles == IF bubble.alive
                THEN {<<bubble.y, x>> : x \in stream_x(pipes[bubble.pipe])} ELSE {}

TypeOK == /\ LINES \in Nat /\ COLS \in Nat /\ sky_h \in Nat
          /\ \A i \in DOMAIN pipes : pipes[i].kind \in Kinds
          /\ bubble.alive => bubble.pipe \in DOMAIN pipes /\ bubble.kind \in DOMAIN Period

(* Every pipe is on the screen and under water with room for a bubble over  *)
(* it, stands on the bricks, and leaves the next one alone; not all of them *)
(* are of one kind.                                                         *)
PipesStand ==
    /\ \A i \in DOMAIN pipes :
          /\ pipes[i].x >= 0 /\ pipes[i].x + pipes[i].shaft_w + 2 <= COLS
          /\ pipes[i].y_top > SkyHeight(LINES)
          /\ pipes[i].y_top + pipes[i].height = brick_top(LINES)
          /\ pipes[i].height > FLANGE_ROWS
          /\ \A j \in DOMAIN pipes :
                i < j => pipes[i].x + pipes[i].shaft_w + 2 <= pipes[j].x
    /\ Cardinality(DOMAIN pipes) >= 2 => {pipes[i].kind : i \in DOMAIN pipes} = Kinds

(* Wherever a bubble is drawn, there is water, and its own pipe below.      *)
BubbleInWater ==
    \A cell \in draw_bubbles :
        /\ Canvas(cell[1], cell[2]) = "water"
        /\ Canvas(pipes[bubble.pipe].y_top + FLANGE_ROWS, cell[2]) = "pipe"
=============================================================================
