------------------------------ MODULE Pictures ------------------------------
(***************************************************************************)
(* What the screen savers draw once their child runs.  The pictures and    *)
(* the box over them only meet on the screen, whose size they all follow,  *)
(* so one of them is followed at a time.                                   *)
(***************************************************************************)
EXTENDS Integers

CONSTANTS Heights, PipesSizes, TrainSizes, BoxSizes,
          Randoms, LENGTH, FUNNEL, MaxSmoke, BoxWidth

ASSUME PicturesAssumption ==
    /\ Heights \subseteq Nat
    /\ PipesSizes \union TrainSizes \union BoxSizes \subseteq (Nat \ {0}) \X (Nat \ {0})
    /\ Randoms \subseteq Nat /\ Randoms # {}
    /\ {LENGTH, FUNNEL} \subseteq Nat /\ {MaxSmoke, BoxWidth} \subseteq Nat \ {0}

VARIABLES picture, LINES, COLS,
          chars, unused, bright, length, spaces,
          pipes, sky_h, bubble,
          train_random, train_rnd, x, sum, puff,
          interval, box, painted

column == <<chars, unused, bright, length, spaces>>
scene == <<pipes, sky_h, bubble>>
train == <<train_random, train_rnd, x, sum, puff>>
overlay == <<interval, box, painted>>
vars == <<picture, LINES, COLS, column, scene, train, overlay>>

cmatrix == INSTANCE Matrix
wetpipes == INSTANCE Pipes WITH Sizes <- PipesSizes
sl == INSTANCE Train WITH Sizes <- TrainSizes
info_box == INSTANCE InfoBox WITH Sizes <- BoxSizes

Absent == "absent"
NoColumn == /\ chars = Absent /\ unused = Absent /\ bright = Absent
            /\ length = Absent /\ spaces = Absent
NoScene == pipes = Absent /\ sky_h = Absent /\ bubble = Absent
NoTrain == /\ train_random = Absent /\ train_rnd = Absent /\ x = Absent
           /\ sum = Absent /\ puff = Absent
NoOverlay == interval = Absent /\ box = Absent /\ painted = Absent

Init == \/ /\ picture = "cmatrix" /\ cmatrix!Init /\ COLS = 80
           /\ NoScene /\ NoTrain /\ NoOverlay
        \/ picture = "wetpipes" /\ wetpipes!Init /\ NoColumn /\ NoTrain /\ NoOverlay
        \/ picture = "train" /\ sl!Init /\ NoColumn /\ NoScene /\ NoOverlay
        \/ picture = "info_box" /\ info_box!Init /\ NoColumn /\ NoScene /\ NoTrain

Matrix == picture = "cmatrix" /\ UNCHANGED <<picture, COLS, scene, train, overlay>>
Pipes == picture = "wetpipes" /\ UNCHANGED <<picture, column, train, overlay>>
Train == picture = "train" /\ UNCHANGED <<picture, column, scene, overlay>>
Box == picture = "info_box" /\ UNCHANGED <<picture, column, scene, train>>

Next == \/ Matrix /\ cmatrix!Next
        \/ Pipes /\ wetpipes!Next
        \/ Train /\ sl!Next
        \/ Box /\ info_box!Next

(* The savers' loops sleep between two frames and wait for nothing.         *)
Fairness == /\ WF_vars(Matrix /\ cmatrix!Frame)
            /\ WF_vars(Pipes /\ wetpipes!Frame)
            /\ WF_vars(Train /\ (sl!add_D51 \/ sl!Pass))

Spec == Init /\ [][Next]_vars /\ Fairness

-----------------------------------------------------------------------------
(* The values of every picture's variables, while it is followed.           *)
TypeOK == /\ picture = "cmatrix" => cmatrix!TypeOK
          /\ picture = "wetpipes" => wetpipes!TypeOK
          /\ picture = "train" => sl!TypeOK
          /\ picture = "info_box" => info_box!TypeOK

(* Whatever size the terminal takes, everything drawn is where it belongs:  *)
(* white characters lead, pipes stand on the bricks and under water, with   *)
(* their bubbles in it, and the engine is on the screen.                    *)
InPlace == /\ picture = "cmatrix" => cmatrix!WhiteLeads
           /\ picture = "wetpipes" => wetpipes!PipesStand /\ wetpipes!BubbleInWater
           /\ picture = "train" => sl!TablesHold /\ sl!AllOnScreen

(* No part of the box that has moved or been cut off stays behind.          *)
NoGhost == picture = "info_box" => info_box!NoGhost

(* Between two changes of the size, every frame of cmatrix moves all        *)
(* streams down by one row, without merging, splitting or stopping one.     *)
StreamsFall == [][picture = "cmatrix" => cmatrix!resize_screen \/ cmatrix!Falls]_vars

(* No picture freezes: streams start again and again (unless the size keeps *)
(* changing), every bubble comes to its end, every train is followed by     *)
(* another one.                                                             *)
KeepsMoving ==
    /\ \/ []<>(picture = "cmatrix" => cmatrix!Starts)
       \/ []<><<Matrix /\ cmatrix!resize_screen>>_vars
    /\ []<>(picture = "wetpipes" => ~bubble.alive)
    /\ []<>(picture = "train" => x = COLS - 1)
=============================================================================
