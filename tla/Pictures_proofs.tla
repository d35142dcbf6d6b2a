-------------------------- MODULE Pictures_proofs --------------------------
(***************************************************************************)
(* What is proved of the pictures: each has an invariant that its steps    *)
(* keep, on terminals of any size, with a message of any width and         *)
(* whatever rand() returns, and one of them is followed at a time.         *)
(***************************************************************************)
EXTENDS Pictures, FiniteSetTheorems, WellFoundedInduction, TLAPS

-----------------------------------------------------------------------------
(* The wake-key box                                                        *)

(* The invariant of the box.  Before it is placed nothing is painted, which *)
(* is why the first one may be drawn without blanking the place it has not  *)
(* had.                                                                     *)
TypeInv == /\ LINES \in Nat /\ COLS \in Nat /\ interval \in 0..1
           /\ box = info_box!Unplaced \/ box \in Nat \X Nat
PlacedInv == /\ TypeInv
             /\ info_box!NoGhost
             /\ box = info_box!Unplaced => painted = {}

USE DEF info_box!BoxHeight

(* What the lemmas about the box need to know of the constants.             *)
LEMMA Parameters == BoxSizes \subseteq Nat \X Nat /\ BoxWidth \in Nat
  BY PicturesAssumption

(* At first there is no box and nothing painted.                            *)
LEMMA NoBoxAtFirst == ASSUME info_box!Init PROVE PlacedInv
  <1>1. PICK s \in BoxSizes : LINES = s[1] /\ COLS = s[2]
    BY DEF info_box!Init
  <1>2. LINES \in Nat /\ COLS \in Nat
    BY <1>1, Parameters
  <1>3. QED
    BY <1>2 DEF info_box!Init, PlacedInv, TypeInv, info_box!NoGhost

(* What is painted after a box is drawn in a place that holds all that was  *)
(* left of the last one.                                                    *)
LEMMA DrawnInPlace ==
  ASSUME TypeInv, NEW corner \in Nat \X Nat, NEW left \in SUBSET info_box!Screen,
         left \subseteq info_box!Footprint(corner), info_box!Draw(corner, left)
  PROVE  PlacedInv'
  <1>1. LINES' = LINES /\ COLS' = COLS /\ box' = corner
        /\ painted' = left \union (info_box!Footprint(corner) \intersect info_box!Screen)
        /\ interval' = interval
    BY DEF info_box!Draw
  <1>2. info_box!Screen' = info_box!Screen /\ info_box!Footprint(box)' = info_box!Footprint(corner)
    BY <1>1 DEF info_box!Screen, info_box!Footprint
  <1>3. TypeInv'
    BY <1>1 DEF TypeInv
  <1>4. info_box!NoGhost'
    BY <1>1, <1>2 DEF info_box!NoGhost
  <1>5. box' # info_box!Unplaced
    BY <1>1 DEF info_box!Unplaced
  <1>6. QED
    BY <1>3, <1>4, <1>5 DEF PlacedInv

(* Blanking the old place leaves nothing of the old box.                    *)
LEMMA RelocateKeeps == ASSUME PlacedInv, info_box!Relocate PROVE PlacedInv'
  <1>1. PICK corner \in (0..LINES - info_box!BoxHeight) \X (0..COLS - BoxWidth) :
          info_box!Draw(corner, IF box = info_box!Unplaced THEN painted ELSE painted \ info_box!Footprint(box))
    BY DEF info_box!Relocate
  <1>2. (IF box = info_box!Unplaced THEN painted ELSE painted \ info_box!Footprint(box)) = {}
    BY DEF PlacedInv, info_box!NoGhost
  <1>3. corner \in Nat \X Nat
    BY Parameters DEF PlacedInv, TypeInv
  <1>4. info_box!Draw(corner, {})
    BY <1>1, <1>2
  <1>5. QED
    BY <1>3, <1>4, DrawnInPlace DEF PlacedInv

(* A box moved up or left because the screen got smaller covers all that    *)
(* the screen still shows of it.                                            *)
LEMMA StayKeeps == ASSUME PlacedInv, info_box!Stay PROVE PlacedInv'
  <1> DEFINE corner == <<info_box!LeastOf(box[1], LINES - info_box!BoxHeight), info_box!LeastOf(box[2], COLS - BoxWidth)>>
  <1>1. LINES \in Nat /\ COLS \in Nat /\ box \in Nat \X Nat /\ BoxWidth <= COLS /\ 3 <= LINES
    BY DEF PlacedInv, TypeInv, info_box!Stay, info_box!Fits
  <1>2. corner \in Nat \X Nat
    BY Parameters, <1>1 DEF info_box!LeastOf
  <1>3. painted \subseteq info_box!Screen /\ painted \subseteq info_box!Footprint(box)
    BY DEF PlacedInv, info_box!NoGhost
  <1>4. painted \subseteq info_box!Footprint(corner)
    <2> SUFFICES ASSUME NEW c \in painted PROVE c \in info_box!Footprint(corner)
      OBVIOUS
    <2>1. PICK r \in 0..LINES - 1, k \in 0..COLS - 1 : c = <<r, k>>
      BY <1>3 DEF info_box!Screen
    <2>2. r \in box[1]..box[1] + 2 /\ k \in box[2]..box[2] + BoxWidth - 1
      BY Parameters, <1>1, <1>3, <2>1 DEF info_box!Footprint
    <2>3. r \in corner[1]..corner[1] + 2
      BY Parameters, <1>1, <2>1, <2>2 DEF info_box!LeastOf
    <2>4. k \in corner[2]..corner[2] + BoxWidth - 1
      BY Parameters, <1>1, <2>1, <2>2 DEF info_box!LeastOf
    <2>5. QED
      BY Parameters, <1>1, <2>1, <2>3, <2>4 DEF info_box!Footprint
  <1>5. info_box!Draw(corner, painted)
    BY DEF info_box!Stay
  <1> HIDE DEF corner
  <1>6. QED
    BY <1>2, <1>3, <1>4, <1>5, DrawnInPlace DEF PlacedInv

(* The terminal cuts off what no longer fits, and the box stays remembered. *)
LEMMA ResizeKeeps == ASSUME PlacedInv, info_box!Resize PROVE PlacedInv'
  <1>1. PICK s \in BoxSizes : LINES' = s[1] /\ COLS' = s[2]
    BY DEF info_box!Resize
  <1>2. LINES' \in Nat /\ COLS' \in Nat
    BY <1>1, Parameters
  <1>3. box' = box /\ interval' = interval /\ painted' = painted \intersect info_box!Screen'
    BY DEF info_box!Resize
  <1>4. info_box!Footprint(box)' = info_box!Footprint(box)
    BY <1>3 DEF info_box!Footprint
  <1>5. QED
    BY <1>2, <1>3, <1>4 DEF PlacedInv, TypeInv, info_box!NoGhost

-----------------------------------------------------------------------------
(* The streams of a column                                                 *)

(* Only the lowest character of a stream is white.                          *)
ColumnInv == /\ LINES \in Nat /\ LINES >= 10
             /\ chars \subseteq 0..LINES
             /\ bright \subseteq cmatrix!Lower(chars)

LEMMA LeastRow ==
  ASSUME NEW S \in SUBSET Nat, S # {}
  PROVE  cmatrix!Min(S) \in S /\ \A n \in S : cmatrix!Min(S) <= n
  <1> DEFINE R == {ss \in Nat \X Nat : ss[1] < ss[2]}
  <1>1. IsWellFoundedOn(R, Nat)
    BY NatLessThanWellFounded, Zenon DEF OpToRel
  <1> HIDE DEF R
  <1>2. PICK m \in S : \A n \in S : <<n, m>> \notin R
    BY <1>1, WFMin
  <1>3. ASSUME NEW n \in S PROVE m <= n
    <2>1. n \in Nat /\ m \in Nat
      OBVIOUS
    <2>2. ~(n < m)
      BY <1>2, <2>1 DEF R
    <2>3. QED
      BY <2>1, <2>2
  <1>4. QED
    BY <1>3 DEF cmatrix!Min

(* The streams that a frame moves: those there were, and one that starts.   *)
Rows == chars \union (IF cmatrix!Starts THEN {0} ELSE {})

LEMMA RowsLower ==
  ASSUME ColumnInv
  PROVE  /\ Rows \subseteq 0..LINES
         /\ cmatrix!Lower(Rows) = cmatrix!Lower(chars) \union (IF cmatrix!Starts THEN {0} ELSE {})
  <1>1. LINES \in Nat /\ LINES >= 10 /\ chars \subseteq 0..LINES
    BY DEF ColumnInv
  <1>2. CASE ~cmatrix!Starts
    BY <1>1, <1>2 DEF Rows
  <1>3. CASE cmatrix!Starts
    <2>1. 1 \notin chars /\ Rows = chars \union {0}
      BY <1>3 DEF Rows, cmatrix!Starts, cmatrix!Free
    <2>2. cmatrix!Lower(Rows) = {i \in chars \union {0} : i + 1 \notin chars /\ i + 1 # 0}
      BY <2>1 DEF cmatrix!Lower
    <2>3. \A i \in chars \union {0} : i + 1 # 0
      BY <1>1
    <2>4. 0 \in {i \in chars \union {0} : i + 1 \notin chars}
      BY <2>1
    <2>5. cmatrix!Lower(Rows) = {i \in chars : i + 1 \notin chars} \union {0}
      BY <2>2, <2>3, <2>4
    <2>6. QED
      BY <1>1, <1>3, <2>1, <2>5 DEF cmatrix!Lower
  <1>4. QED
    BY <1>2, <1>3

LEMMA FrameScrolls ==
  ASSUME cmatrix!Frame
  PROVE  /\ LINES' = LINES
         /\ \E lit \in SUBSET (bright \union (IF cmatrix!Starts THEN {0} ELSE {})) :
               cmatrix!Scroll(Rows, lit)
  BY DEF cmatrix!Frame, Rows

(* Which rows hold a character after a frame.                               *)
LEMMA RowsAfter ==
  ASSUME ColumnInv, cmatrix!Frame
  PROVE  /\ chars' \subseteq 0..LINES
         /\ \A i \in 1..LINES : i \in chars' <=> /\ i \in Rows \/ i - 1 \in cmatrix!Lower(Rows)
                                               /\ i \notin cmatrix!Lost(Rows)
         /\ 0 \in chars' => 0 \in Rows
  <1>1. PICK lit : cmatrix!Scroll(Rows, lit)
    BY FrameScrolls
  <1>2. /\ LINES \in Nat /\ Rows \subseteq 0..LINES
        /\ cmatrix!Lower(Rows) \subseteq 0..LINES
    BY RowsLower DEF ColumnInv, cmatrix!Lower
  <1>3. chars' = (Rows \union {e + 1 : e \in cmatrix!Lower(Rows)})
                   \ (cmatrix!Lost(Rows) \union {LINES + 1}
                        \union (IF cmatrix!Moving(Rows) # {} THEN {0} ELSE {}))
    BY <1>1 DEF cmatrix!Scroll
  <1>4. chars' \subseteq 0..LINES
    BY <1>2, <1>3
  <1>5. 0 \in chars' => 0 \in Rows
    BY <1>2, <1>3
  <1>6. ASSUME NEW i \in 1..LINES
        PROVE  i \in chars' <=> /\ i \in Rows \/ i - 1 \in cmatrix!Lower(Rows)
                               /\ i \notin cmatrix!Lost(Rows)
    BY <1>2, <1>3
  <1>7. QED
    BY <1>4, <1>5, <1>6

(* The upper end of a stream goes, unless it is the first and grows.        *)
LEMMA UpperLost ==
  ASSUME ColumnInv, NEW i \in cmatrix!Upper(Rows), i \notin cmatrix!Lost(Rows)
  PROVE  /\ cmatrix!FirstGrows(Rows)
         /\ i = cmatrix!Min(Rows)
         /\ \A n \in Rows : i <= n
  <1>1. i \in Rows /\ Rows \subseteq Nat
    BY RowsLower DEF ColumnInv, cmatrix!Upper
  <1>2. i = cmatrix!Min(Rows) /\ cmatrix!FirstGrows(Rows)
    BY DEF cmatrix!Lost
  <1>3. QED
    BY <1>1, <1>2, LeastRow

LEMMA OnlyUpperLost == cmatrix!Lost(Rows) \subseteq cmatrix!Upper(Rows)
  BY DEF cmatrix!Lost

(* A frame moves every lower end down by one row.                           *)
LEMMA LowerMoves ==
  ASSUME ColumnInv, cmatrix!Frame, NEW e \in cmatrix!Lower(Rows), e < LINES
  PROVE  e + 1 \in cmatrix!Lower(chars')
  <1>1. LINES \in Nat /\ e \in 0..LINES /\ e \in Rows /\ e + 1 \notin Rows
    BY RowsLower DEF ColumnInv, cmatrix!Lower
  <1>2. e + 1 \in chars'
    BY <1>1, RowsAfter, OnlyUpperLost DEF cmatrix!Upper
  <1>3. e + 2 \notin chars'
    <2> SUFFICES ASSUME e + 2 \in chars' PROVE FALSE
      OBVIOUS
    <2>1. e + 2 \in 1..LINES
      BY <1>1, RowsAfter
    <2>2. e + 2 \in Rows /\ e + 2 \notin cmatrix!Lost(Rows)
      BY <1>1, <2>1, RowsAfter DEF cmatrix!Lower
    <2>3. e + 2 \in cmatrix!Upper(Rows)
      BY <1>1, <2>2 DEF cmatrix!Upper
    <2>4. QED
      BY <1>1, <2>2, <2>3, UpperLost
  <1>4. QED
    BY <1>1, <1>2, <1>3 DEF cmatrix!Lower

(* and there is no other lower end on the screen.                           *)
LEMMA LowerComes ==
  ASSUME ColumnInv, cmatrix!Frame, NEW i \in cmatrix!Lower(chars'), i # LINES
  PROVE  i - 1 \in cmatrix!Lower(Rows)
  <1>1. LINES \in Nat /\ i \in 0..LINES - 1 /\ i \in chars' /\ i + 1 \notin chars'
    BY RowsAfter DEF ColumnInv, cmatrix!Lower
  <1>2. i \notin Rows
    <2> SUFFICES ASSUME i \in Rows PROVE FALSE
      OBVIOUS
    <2>1. i + 1 \in cmatrix!Lost(Rows) \/ ~(i + 1 \in Rows \/ i \in cmatrix!Lower(Rows))
      BY <1>1, RowsAfter
    <2>2. i + 1 \notin cmatrix!Upper(Rows)
      BY <1>1 DEF cmatrix!Upper
    <2>3. i + 1 \in Rows \/ i \in cmatrix!Lower(Rows)
      BY DEF cmatrix!Lower
    <2>4. QED
      BY <2>1, <2>2, <2>3, OnlyUpperLost
  <1>3. QED
    BY <1>1, <1>2, RowsAfter

LEMMA FrameKeeps == ASSUME ColumnInv, cmatrix!Frame PROVE ColumnInv'
  <1>1. PICK lit \in SUBSET (bright \union (IF cmatrix!Starts THEN {0} ELSE {})) :
          cmatrix!Scroll(Rows, lit)
    BY FrameScrolls
  <1>2. lit \subseteq cmatrix!Lower(Rows)
    BY RowsLower DEF ColumnInv
  <1>3. bright' = {IF e \in cmatrix!Lower(Rows) THEN e + 1 ELSE e : e \in lit} \ {LINES + 1}
    BY <1>1 DEF cmatrix!Scroll
  <1>4. ASSUME NEW b \in bright' PROVE b \in cmatrix!Lower(chars')
    <2>1. PICK e \in cmatrix!Lower(Rows) : b = e + 1 /\ b # LINES + 1
      BY <1>2, <1>3
    <2>2. LINES \in Nat /\ e \in 0..LINES
      BY RowsLower DEF ColumnInv, cmatrix!Lower
    <2>3. QED
      BY <2>1, <2>2, LowerMoves
  <1>5. LINES' = LINES /\ chars' \subseteq 0..LINES
    BY FrameScrolls, RowsAfter
  <1>6. cmatrix!Lower(chars)' = cmatrix!Lower(chars')
    BY DEF cmatrix!Lower
  <1>7. QED
    BY <1>4, <1>5, <1>6 DEF ColumnInv


(* The upper ends of a frame are those there were, where one stays, or      *)
(* those one row below.                                                     *)
LEMMA UpperComes ==
  ASSUME ColumnInv, cmatrix!Frame, NEW i \in cmatrix!Upper(chars')
  PROVE  \E u \in cmatrix!Upper(Rows) : i = IF u \in chars' THEN u ELSE u + 1
  <1>1. /\ LINES \in Nat /\ Rows \subseteq 0..LINES
        /\ i \in 0..LINES /\ i \in chars' /\ i - 1 \notin chars'
    BY RowsLower, RowsAfter DEF ColumnInv, cmatrix!Upper
  <1>2. CASE i \in cmatrix!Upper(Rows)
    BY <1>1, <1>2
  <1>3. CASE i \notin cmatrix!Upper(Rows)
    <2>1. i - 1 \in Rows
      BY <1>1, <1>3, RowsAfter DEF cmatrix!Upper, cmatrix!Lower
    <2>2. i - 1 \in cmatrix!Upper(Rows)
      <3>1. CASE i - 1 = 0
        BY <1>1, <2>1, <3>1 DEF cmatrix!Upper
      <3>2. CASE i - 1 # 0
        <4>1. i - 1 \in 1..LINES
          BY <1>1, <2>1, <3>2
        <4>2. i - 1 \in cmatrix!Lost(Rows)
          BY <1>1, <2>1, <4>1, RowsAfter
        <4>3. QED
          BY <4>2, OnlyUpperLost
      <3>3. QED
        BY <3>1, <3>2
    <2>3. QED
      BY <1>1, <2>2
  <1>4. QED
    BY <1>2, <1>3

LEMMA NoMoreStreams ==
  ASSUME ColumnInv, cmatrix!Frame
  PROVE  Cardinality(cmatrix!Upper(chars'))
           <= Cardinality(cmatrix!Upper(chars)) + (IF cmatrix!Starts THEN 1 ELSE 0)
  <1> DEFINE old == cmatrix!Upper(chars)
             moved == cmatrix!Upper(Rows)
             new == cmatrix!Upper(chars')
             f == [u \in moved |-> IF u \in chars' THEN u ELSE u + 1]
             image == {f[u] : u \in moved}
  <1>1. IsFiniteSet(0..LINES)
    BY FS_Interval DEF ColumnInv
  <1>2. IsFiniteSet(old) /\ IsFiniteSet(moved)
    <2>1. old \in SUBSET (0..LINES) /\ moved \in SUBSET (0..LINES)
      BY RowsLower DEF ColumnInv, cmatrix!Upper
    <2>2. QED
      BY <1>1, <2>1, FS_Subset
  <1>3. new \subseteq image
    BY UpperComes
  <1>4. f \in Surjection(moved, image)
    BY DEF Surjection
  <1>5. IsFiniteSet(image) /\ Cardinality(image) <= Cardinality(moved)
    <2> HIDE DEF f, image, moved
    <2>1. QED
      BY <1>2, <1>4, FS_Surjection
  <1>6. IsFiniteSet(new) /\ Cardinality(new) <= Cardinality(image)
    <2> HIDE DEF new, image
    <2>1. QED
      BY <1>3, <1>5, FS_Subset
  <1>7. Cardinality(moved) <= Cardinality(old) + (IF cmatrix!Starts THEN 1 ELSE 0)
    <2>1. CASE ~cmatrix!Starts
      <3>1. moved = old
        BY <2>1 DEF Rows
      <3>2. QED
        BY <1>2, <2>1, <3>1, FS_CardinalityType
    <2>2. CASE cmatrix!Starts
      <3>1. moved \subseteq old \union {0}
        BY <2>2 DEF Rows, cmatrix!Upper
      <3>2. IsFiniteSet(old \union {0}) /\ Cardinality(old \union {0}) <= Cardinality(old) + 1
        <4> HIDE DEF old
        <4>1. Cardinality(old) \in Nat
          BY <1>2, FS_CardinalityType
        <4>2. /\ IsFiniteSet(old \union {0})
              /\ Cardinality(old \union {0}) = IF 0 \in old THEN Cardinality(old) ELSE Cardinality(old) + 1
          BY <1>2, FS_AddElement, Zenon
        <4>3. QED
          BY <4>1, <4>2
      <3>3. Cardinality(moved) <= Cardinality(old \union {0})
        <4> HIDE DEF old, moved
        <4>1. QED
          BY <3>1, <3>2, FS_Subset
      <3>4. Cardinality(moved) \in Nat /\ Cardinality(old \union {0}) \in Nat /\ Cardinality(old) \in Nat
        <4> HIDE DEF old, moved
        <4>1. QED
          BY <1>2, <3>2, FS_CardinalityType
      <3>5. QED
        BY <2>2, <3>2, <3>3, <3>4
    <2>3. QED
      BY <2>1, <2>2
  <1>8. /\ Cardinality(new) \in Nat /\ Cardinality(image) \in Nat
        /\ Cardinality(moved) \in Nat /\ Cardinality(old) \in Nat
    <2> HIDE DEF old, moved, new, image
    <2>1. QED
      BY <1>2, <1>5, <1>6, FS_CardinalityType
  <1> HIDE DEF old, moved, new, image
  <1>9. Cardinality(new) <= Cardinality(old) + (IF cmatrix!Starts THEN 1 ELSE 0)
    BY <1>5, <1>6, <1>7, <1>8
  <1>10. QED
    BY <1>9 DEF old, new

(* A stream that falls leaves its highest row and has the one below.        *)
LEMMA UpperMoves ==
  ASSUME ColumnInv, cmatrix!Frame, NEW u \in cmatrix!Upper(chars), u < LINES,
         chars = {} \/ cmatrix!Lower(chars) = {LINES} \/ u # cmatrix!Min(chars)
  PROVE  u + 1 \in cmatrix!Upper(chars')
  <1>1. /\ LINES \in Nat /\ LINES >= 10 /\ chars \subseteq 0..LINES /\ Rows \subseteq 0..LINES
        /\ u \in chars /\ u - 1 \notin chars /\ u \in 0..LINES /\ u \in Rows
    BY RowsLower DEF ColumnInv, cmatrix!Upper, Rows
  <1>2. u \in cmatrix!Upper(Rows)
    BY <1>1 DEF cmatrix!Upper, Rows, cmatrix!Starts, cmatrix!Free
  <1>3. u \in cmatrix!Lost(Rows)
    <2> SUFFICES ASSUME u \notin cmatrix!Lost(Rows) PROVE FALSE
      OBVIOUS
    <2>1. cmatrix!FirstGrows(Rows) /\ \A n \in Rows : u <= n
      BY <1>2, UpperLost
    <2>2. \A n \in chars : u <= n
      BY <2>1 DEF Rows
    <2>3. cmatrix!Min(chars) = u
      <3>1. chars \in SUBSET Nat /\ chars # {}
        BY <1>1
      <3>2. cmatrix!Min(chars) \in chars /\ cmatrix!Min(chars) <= u
        BY <1>1, <3>1, LeastRow
      <3>3. QED
        <4>1. u <= cmatrix!Min(chars)
          BY <2>2, <3>2
        <4>2. cmatrix!Min(chars) \in Nat /\ u \in Nat
          BY <1>1, <3>1, <3>2, Zenon
        <4>3. QED
          BY <3>2, <4>1, <4>2
    <2>4. cmatrix!Lower(chars) = {LINES}
      BY <1>1, <2>3
    <2>5. ~cmatrix!Starts
      <3> SUFFICES ASSUME cmatrix!Starts PROVE FALSE
        OBVIOUS
      <3>1. u = 0 /\ 1 \notin chars
        BY <1>1, <2>1 DEF Rows, cmatrix!Starts, cmatrix!Free
      <3>2. 0 \in cmatrix!Lower(chars)
        BY <1>1, <3>1 DEF cmatrix!Lower
      <3>3. QED
        BY <1>1, <2>4, <3>2
    <2>6. cmatrix!Lower(Rows) = {LINES}
      BY <2>4, <2>5 DEF Rows
    <2>7. cmatrix!Min(cmatrix!Lower(Rows)) = LINES
      BY <1>1, <2>6, LeastRow
    <2>8. QED
      BY <1>1, <2>1, <2>7 DEF cmatrix!FirstGrows
  <1>4. u \notin chars'
    <2>1. CASE u = 0
      <3>1. cmatrix!Scroll(Rows, bright) \/ \E lit : cmatrix!Scroll(Rows, lit)
        BY FrameScrolls
      <3>2. QED
        BY <1>3, <3>1 DEF cmatrix!Scroll
    <2>2. CASE u # 0
      BY <1>1, <1>3, <2>2, RowsAfter
    <2>3. QED
      BY <2>1, <2>2
  <1>5. u + 1 \in chars'
    <2>1. u + 1 \in Rows \/ u \in cmatrix!Lower(Rows)
      BY <1>1 DEF cmatrix!Lower
    <2>2. u + 1 \notin cmatrix!Lost(Rows)
      BY <1>1, OnlyUpperLost DEF cmatrix!Upper
    <2>3. QED
      BY <1>1, <2>1, <2>2, RowsAfter
  <1>6. QED
    BY <1>1, <1>4, <1>5 DEF cmatrix!Upper

LEMMA FrameFalls == ASSUME ColumnInv, cmatrix!Frame PROVE cmatrix!Falls
  <1> DEFINE below == {e + 1 : e \in cmatrix!Lower(chars)}
  <1>1. LINES \in Nat /\ LINES >= 10 /\ chars' \subseteq 0..LINES /\ Rows \subseteq 0..LINES
    BY RowsLower, RowsAfter DEF ColumnInv
  <1>2. cmatrix!Lower(chars') \ {LINES}
          = (below \ {LINES, LINES + 1}) \union (IF cmatrix!Starts THEN {1} ELSE {})
    <2>1. ASSUME NEW i \in cmatrix!Lower(chars') \ {LINES}
          PROVE  i \in (below \ {LINES, LINES + 1}) \union (IF cmatrix!Starts THEN {1} ELSE {})
      <3>1. i \in 0..LINES - 1
        BY <1>1 DEF cmatrix!Lower
      <3>2. i - 1 \in cmatrix!Lower(chars) \/ (cmatrix!Starts /\ i - 1 = 0)
        BY LowerComes, RowsLower
      <3>3. i = (i - 1) + 1
        BY <3>1
      <3>4. QED
        BY <1>1, <3>1, <3>2, <3>3
    <2>2. ASSUME NEW i \in (below \ {LINES, LINES + 1}) \union (IF cmatrix!Starts THEN {1} ELSE {})
          PROVE  i \in cmatrix!Lower(chars') \ {LINES}
      <3>1. PICK e \in cmatrix!Lower(Rows) : i = e + 1 /\ i # LINES /\ i # LINES + 1
        <4>1. CASE i \in below \ {LINES, LINES + 1}
          BY <4>1, RowsLower
        <4>2. CASE cmatrix!Starts /\ i = 1
          BY <1>1, <4>2, RowsLower
        <4>3. QED
          BY <4>1, <4>2
      <3>2. e \in 0..LINES
        BY <1>1 DEF cmatrix!Lower
      <3>3. QED
        BY <1>1, <3>1, <3>2, LowerMoves
    <2>3. QED
      BY <2>1, <2>2
  <1>3. \A u \in IF chars = {} \/ cmatrix!Lower(chars) = {LINES}
               THEN cmatrix!Upper(chars) ELSE cmatrix!Upper(chars) \ {cmatrix!Min(chars)} :
          u < LINES => u + 1 \in cmatrix!Upper(chars')
    BY UpperMoves
  <1>4. \A S : cmatrix!Cardinality(S) = Cardinality(S)
    BY DEF cmatrix!Cardinality, Cardinality
  <1>5. QED
    BY <1>2, <1>3, <1>4, NoMoreStreams DEF cmatrix!Falls

(* A column starts empty, at first and when the size changes.               *)
LEMMA TenRows == ASSUME NEW n \in {cmatrix!AtLeastTen(h) : h \in Heights} PROVE n \in Nat /\ n >= 10
  BY PicturesAssumption DEF cmatrix!AtLeastTen

LEMMA ColumnAtFirst == ASSUME cmatrix!Init PROVE ColumnInv
  BY TenRows DEF cmatrix!Init, ColumnInv

LEMMA ColumnKeeps == ASSUME ColumnInv, cmatrix!Next PROVE ColumnInv'
  <1>1. CASE cmatrix!Frame
    BY <1>1, FrameKeeps
  <1>2. CASE cmatrix!resize_screen
    <2>1. LINES' \in Nat /\ LINES' >= 10
      BY <1>2, TenRows DEF cmatrix!resize_screen
    <2>2. chars' = {} /\ bright' = {}
      BY <1>2 DEF cmatrix!resize_screen
    <2>3. QED
      BY <2>1, <2>2 DEF ColumnInv
  <1>3. QED
    BY <1>1, <1>2 DEF cmatrix!Next

(* What is not needed for where the streams are: of the blanks before the   *)
(* next stream, no more are counted than there are.                         *)
ColumnTypes == unused \in BOOLEAN /\ length \in cmatrix!Lengths /\ spaces \in 0..LINES

LEMMA ColumnTypesAtFirst == ASSUME cmatrix!Init PROVE ColumnTypes
  <1>1. LINES \in Nat /\ LINES >= 10
    BY TenRows DEF cmatrix!Init
  <1>2. QED
    BY <1>1 DEF cmatrix!Init, ColumnTypes, cmatrix!Lengths, cmatrix!Spaces

LEMMA ColumnTypesKept ==
  ASSUME ColumnInv, ColumnTypes, cmatrix!Next PROVE ColumnTypes'
  <1> USE DEF ColumnTypes, cmatrix!Lengths, cmatrix!Spaces
  <1>1. CASE cmatrix!resize_screen
    <2>1. LINES' \in Nat /\ LINES' >= 10
      BY <1>1, TenRows DEF cmatrix!resize_screen
    <2>2. unused' \in BOOLEAN
      BY <1>1 DEF cmatrix!resize_screen
    <2>3. spaces' \in 0..LINES'
      BY <1>1, <2>1 DEF cmatrix!resize_screen
    <2>4. length' \in 3..LINES' - 1
      <3>1. length' = 3
        BY <1>1 DEF cmatrix!resize_screen
      <3>2. \A n \in Nat : n >= 10 => 3 \in 3..n - 1
        OBVIOUS
      <3>3. QED
        BY <2>1, <3>1, <3>2
    <2>5. QED
      BY <2>2, <2>3, <2>4
  <1>2. CASE cmatrix!Frame
    <2>1. LINES' = LINES /\ LINES \in Nat
      BY <1>2 DEF cmatrix!Frame, ColumnInv
    <2>2. unused' \in BOOLEAN
      <3>1. PICK lit : cmatrix!Scroll(Rows, lit)
        BY <1>2, FrameScrolls
      <3>2. cmatrix!Vacated(Rows) \in BOOLEAN
        BY DEF cmatrix!Vacated
      <3>3. QED
        BY <3>1, <3>2 DEF cmatrix!Scroll
    <2>3. length' \in 3..LINES - 1
      BY <1>2 DEF cmatrix!Frame
    <2>4. spaces' \in 0..LINES
      <3>1. CASE cmatrix!Starts
        BY <1>2, <2>1, <3>1 DEF cmatrix!Frame
      <3>2. CASE ~cmatrix!Starts
        BY <1>2, <2>1, <3>2 DEF cmatrix!Frame, cmatrix!Starts
      <3>3. QED
        BY <3>1, <3>2
    <2>5. QED
      BY <2>1, <2>2, <2>3, <2>4
  <1>3. QED
    BY <1>1, <1>2 DEF cmatrix!Next

LEMMA ColumnShown == ASSUME ColumnInv PROVE cmatrix!WhiteLeads
  <1> SUFFICES ASSUME NEW y \in 0..LINES - 1, cmatrix!Shown(y) = "white"
               PROVE  y + 1 \in chars /\ (y < LINES - 1 => cmatrix!Shown(y + 1) = "nothing")
    BY DEF cmatrix!WhiteLeads
  <1>1. y + 1 \in bright
    BY DEF cmatrix!Shown
  <1>2. y + 1 \in chars /\ y + 1 + 1 \notin chars
    BY <1>1 DEF ColumnInv, cmatrix!Lower
  <1>3. y + 1 + 1 \notin bright
    BY <1>2 DEF ColumnInv, cmatrix!Lower
  <1>4. QED
    BY <1>2, <1>3 DEF cmatrix!Shown

-----------------------------------------------------------------------------
(* The engine                                                              *)

(* There are never more puffs than there is room for, nor forms of one.     *)
Puffs == [n : 0..MaxSmoke - 1, y : Int, ptrn : 0..15]
EngineInv == /\ LINES \in Nat /\ COLS \in Nat
             /\ train_random \in BOOLEAN /\ train_rnd \in Randoms \union {0}
             /\ x \in Int /\ sum \in 0..MaxSmoke
             /\ puff \in {sl!NoPuff} \union Puffs

LEMMA TrainParameters ==
  /\ TrainSizes \subseteq Nat \X Nat /\ Randoms \subseteq Nat
  /\ LENGTH \in Nat /\ FUNNEL \in Nat /\ MaxSmoke \in Nat /\ MaxSmoke # 0
  BY PicturesAssumption

LEMMA EngineAtFirst == ASSUME sl!Init PROVE EngineInv
  BY TrainParameters DEF sl!Init, EngineInv

LEMMA EngineKeeps == ASSUME EngineInv, sl!Next PROVE EngineInv'
  <1> USE TrainParameters DEF EngineInv
  <1>1. CASE sl!add_D51
    <2>1. sl!Row - 1 \in Int
      BY DEF sl!Row, sl!HEIGHT
    <2>2. ASSUME NEW y \in Int, sl!add_smoke(y)
          PROVE  sum' \in 0..MaxSmoke /\ puff' \in {sl!NoPuff} \union Puffs
      <3> DEFINE n == IF sum >= MaxSmoke THEN 0 ELSE sum
      <3>1. n \in 0..MaxSmoke - 1 /\ sum' = n + 1
        BY <2>2 DEF sl!add_smoke
      <3>2. CASE puff' = [n |-> n, y |-> y, ptrn |-> 0]
        BY <3>1, <3>2 DEF Puffs
      <3>3. CASE puff' = sl!Risen
        <4>1. CASE puff = sl!NoPuff
          BY <3>1, <3>3, <4>1 DEF sl!Risen, sl!NoPuff
        <4>2. CASE puff \in Puffs
          <5> DEFINE row == puff.y - sl!dy(puff.ptrn)
                     form == IF puff.ptrn < 15 THEN puff.ptrn + 1 ELSE puff.ptrn
          <5>1. row \in Int /\ form \in 0..15
            BY <4>2 DEF Puffs, sl!dy
          <5>2. \A r \in Int, f \in 0..15 : [puff EXCEPT !.y = r, !.ptrn = f] \in Puffs
            BY <4>2 DEF Puffs
          <5>3. sl!Risen \in {puff, [puff EXCEPT !.y = row, !.ptrn = form]}
            BY DEF sl!Risen, sl!SMOKEPTNS
          <5> HIDE DEF row, form
          <5>4. sl!Risen \in Puffs
            BY <4>2, <5>1, <5>2, <5>3
          <5>5. sum' \in 0..MaxSmoke
            BY <3>1
          <5>6. QED
            BY <3>3, <5>4, <5>5
        <4>3. QED
          BY <4>1, <4>2
      <3>4. QED
        BY <2>2, <3>1, <3>2, <3>3 DEF sl!add_smoke
    <2>3. sum' \in 0..MaxSmoke /\ puff' \in {sl!NoPuff} \union Puffs
      BY <1>1, <2>1, <2>2 DEF sl!add_D51
    <2>4. QED
      BY <1>1, <2>3 DEF sl!add_D51
  <1>2. CASE sl!Pass
    <2>1. train_rnd' \in Randoms \union {0}
      BY <1>2 DEF sl!Pass
    <2>2. QED
      BY <1>2, <2>1 DEF sl!Pass
  <1>3. CASE sl!Resize
    <2>1. PICK s \in TrainSizes : LINES' = s[1] /\ COLS' = s[2]
      BY <1>3 DEF sl!Resize
    <2>2. LINES' \in Nat /\ COLS' \in Nat
      BY <2>1
    <2>3. QED
      BY <1>3, <2>2 DEF sl!Resize
  <1>4. QED
    BY <1>1, <1>2, <1>3 DEF sl!Next

LEMMA EngineInPlace == ASSUME EngineInv PROVE sl!TablesHold /\ sl!AllOnScreen
  <1> USE TrainParameters DEF EngineInv
  <1>1. x >= -LENGTH => sl!Pattern \in 0..sl!PATTERNS - 1
    BY DEF sl!Pattern, sl!PATTERNS
  <1>2. puff.n < MaxSmoke /\ (puff # sl!NoPuff => puff.ptrn \in 0..sl!SMOKEPTNS - 1)
    BY DEF sl!NoPuff, Puffs, sl!SMOKEPTNS
  <1>3. ASSUME train_random, LINES >= 12 PROVE sl!Row >= 1 /\ sl!Row + 10 <= LINES - 1
    <2>1. LINES - 1 - 10 \in Nat /\ LINES - 1 - 10 > 0
      BY <1>3
    <2>2. train_rnd % (LINES - 1 - 10) \in 0..(LINES - 1 - 10) - 1
      BY <2>1
    <2>3. QED
      BY <1>3, <2>1, <2>2 DEF sl!Row, sl!HEIGHT
  <1>4. QED
    BY <1>1, <1>2, <1>3 DEF sl!TablesHold, sl!AllOnScreen, sl!HEIGHT

-----------------------------------------------------------------------------
(* The pipes and their bubbles                                             *)

(* What compute_pipes() may come to: one to three pipes that fit the        *)
(* screen, each in the middle of its slot.                                  *)
Widths == {5, 7, 9, 11, 13}
Slots(n, w, cols) == n \in 1..3 /\ w \in Widths /\ n * (w + 2) + (n - 1) * 3 <= cols
Pipe(n, w, h, k, lines, cols) ==
    [i \in 1..n |-> [x |-> wetpipes!Left(i, n, w, cols), shaft_w |-> w,
                     y_top |-> wetpipes!brick_top(lines) - h[i],
                     height |-> h[i], kind |-> k[i]]]

LEMMA LayoutShape ==
  ASSUME NEW lines \in Nat, NEW cols \in Nat, NEW ps \in wetpipes!Layouts(lines, cols)
  PROVE  \E n, w : /\ Slots(n, w, cols)
                   /\ \E h \in [1..n -> 4..wetpipes!MaxHeight(lines)],
                         k \in {f \in [1..n -> wetpipes!Kinds] : wetpipes!Mixed(f)} :
                        ps = Pipe(n, w, h, k, lines, cols)
  <1>1. PICK count, t :
          /\ count \in 2..3 /\ t \in wetpipes!Tries(count)
          /\ wetpipes!FirstFit(t, count, cols)
          /\ \E h \in [1..t[1] -> 4..wetpipes!MaxHeight(lines)],
                k \in {f \in [1..t[1] -> wetpipes!Kinds] : wetpipes!Mixed(f)} :
               ps = Pipe(t[1], t[2], h, k, lines, cols)
    BY DEF wetpipes!Layouts, Pipe, wetpipes!MIN_PIPE_HEIGHT
  <1>2. t[1] \in 1..3 /\ t[2] \in Widths
    BY <1>1 DEF wetpipes!Tries, Widths
  <1>3. Slots(t[1], t[2], cols)
    BY <1>1, <1>2 DEF Slots, wetpipes!FirstFit, wetpipes!Fits, wetpipes!MIN_PIPE_GAP
  <1>4. QED
    BY <1>1, <1>3

(* The slots are wide enough, and do not touch.                             *)
LEMMA SlotsApart ==
  ASSUME NEW cols \in Nat, NEW n, NEW w, Slots(n, w, cols), NEW i \in 1..n
  PROVE  /\ wetpipes!Left(i, n, w, cols) \in Nat
         /\ wetpipes!Left(i, n, w, cols) + w + 2 <= cols
         /\ \A j \in 1..n :
              i < j => wetpipes!Left(i, n, w, cols) + w + 2 <= wetpipes!Left(j, n, w, cols)
  <1> DEFINE s == cols \div n
             h == (s - (w + 2)) \div 2
  <1>1. n \in 1..3 /\ w \in 5..13 /\ n * (w + 2) + (n - 1) * 3 <= cols
    BY DEF Slots, Widths
  <1>2. s \in Nat /\ n * s <= cols /\ w + 2 <= s
    <2>1. CASE n = 1
      BY <1>1, <2>1
    <2>2. CASE n = 2
      BY <1>1, <2>2
    <2>3. CASE n = 3
      BY <1>1, <2>3
    <2>4. QED
      BY <1>1, <2>1, <2>2, <2>3
  <1> HIDE DEF s
  <1>3. h \in Nat /\ h + w + 2 <= s
    BY <1>1, <1>2
  <1> HIDE DEF h
  <1>4. \A j \in 1..n : wetpipes!Left(j, n, w, cols) = (j - 1) * s + h
    BY DEF wetpipes!Left, s, h
  <1>5. \A j \in 1..n : /\ (j - 1) * s \in Nat /\ (j - 1) * s + s <= n * s
                        /\ i < j => (i - 1) * s + s <= (j - 1) * s
    <2>1. CASE n = 1
      BY <1>2, <2>1
    <2>2. CASE n = 2
      BY <1>2, <2>2
    <2>3. CASE n = 3
      BY <1>2, <2>3
    <2>4. QED
      BY <1>1, <2>1, <2>2, <2>3
  <1>6. (i - 1) * s \in Nat /\ (i - 1) * s + s <= n * s
    BY <1>5
  <1>7. n * s \in Nat
    BY <1>1, <1>2
  <1>8. wetpipes!Left(i, n, w, cols) \in Nat /\ wetpipes!Left(i, n, w, cols) + w + 2 <= cols
    BY <1>1, <1>2, <1>3, <1>4, <1>6, <1>7
  <1>9. ASSUME NEW j \in 1..n, i < j
        PROVE  wetpipes!Left(i, n, w, cols) + w + 2 <= wetpipes!Left(j, n, w, cols)
    <2>1. (j - 1) * s \in Nat /\ (i - 1) * s + s <= (j - 1) * s
      BY <1>5, <1>9
    <2>2. QED
      BY <1>1, <1>2, <1>3, <1>4, <1>6, <2>1
  <1>10. QED
    BY <1>8, <1>9

(* What the pipes of a layout are good for, whatever the screen: each one   *)
(* stands on the bricks under the sky, beside the others.                   *)
Stands(p, lines, cols) ==
    /\ p.x \in Nat /\ p.shaft_w \in Widths /\ p.x + p.shaft_w + 2 <= cols
    /\ p.height \in Nat /\ p.height >= 4
    /\ p.y_top = lines - 2 - p.height /\ p.y_top > wetpipes!SkyHeight(lines)
Placed(ps, lines, cols) ==
    /\ \A i \in DOMAIN ps : Stands(ps[i], lines, cols) /\ ps[i].kind \in wetpipes!Kinds
    /\ DOMAIN ps \subseteq Nat
    /\ \A i, j \in DOMAIN ps : i < j => ps[i].x + ps[i].shaft_w + 2 <= ps[j].x
    /\ wetpipes!Cardinality(DOMAIN ps) >= 2 => {ps[i].kind : i \in DOMAIN ps} = wetpipes!Kinds
SceneInv == /\ LINES \in Nat /\ LINES >= 10 /\ COLS \in Nat
            /\ sky_h = wetpipes!SkyHeight(LINES)
            /\ Placed(pipes, LINES, COLS)

LEMMA SkyIsNat == ASSUME NEW lines \in Nat PROVE wetpipes!SkyHeight(lines) \in Nat
  BY DEF wetpipes!SkyHeight, wetpipes!Most

LEMMA LayoutStands ==
  ASSUME NEW lines \in Nat, lines >= 10, NEW cols \in Nat,
         NEW ps \in wetpipes!Layouts(lines, cols)
  PROVE  Placed(ps, lines, cols)
  <1>1. PICK n, w : /\ Slots(n, w, cols)
                    /\ \E h \in [1..n -> 4..wetpipes!MaxHeight(lines)],
                          k \in {f \in [1..n -> wetpipes!Kinds] : wetpipes!Mixed(f)} :
                         ps = Pipe(n, w, h, k, lines, cols)
    BY LayoutShape
  <1>2. PICK h \in [1..n -> 4..wetpipes!MaxHeight(lines)],
             k \in {f \in [1..n -> wetpipes!Kinds] : wetpipes!Mixed(f)} :
          ps = Pipe(n, w, h, k, lines, cols)
    BY <1>1
  <1>3. /\ n \in 1..3 /\ w \in Widths /\ DOMAIN ps = 1..n
        /\ \A i \in 1..n : /\ ps[i].x = wetpipes!Left(i, n, w, cols)
                           /\ ps[i].shaft_w = w
                           /\ ps[i].y_top = lines - 2 - h[i]
                           /\ ps[i].height = h[i]
                           /\ ps[i].kind = k[i]
    BY <1>1, <1>2 DEF Slots, Pipe, wetpipes!brick_top, wetpipes!BRICK_ROWS
  <1>4. ASSUME NEW i \in 1..n PROVE Stands(ps[i], lines, cols)
    <2>1. h[i] \in Nat /\ h[i] >= 4 /\ h[i] <= wetpipes!MaxHeight(lines)
      BY <1>2 DEF wetpipes!MaxHeight, wetpipes!Most, wetpipes!MIN_PIPE_HEIGHT
    <2>2. lines - 2 - h[i] > wetpipes!SkyHeight(lines)
      BY <2>1 DEF wetpipes!MaxHeight, wetpipes!SkyHeight, wetpipes!Most,
                  wetpipes!MIN_PIPE_HEIGHT
    <2>3. /\ wetpipes!Left(i, n, w, cols) \in Nat
          /\ wetpipes!Left(i, n, w, cols) + w + 2 <= cols
      BY <1>1, SlotsApart
    <2>4. QED
      BY <1>3, <2>1, <2>2, <2>3 DEF Stands
  <1>5. ASSUME NEW i \in DOMAIN ps, NEW j \in DOMAIN ps, i < j
        PROVE  ps[i].x + ps[i].shaft_w + 2 <= ps[j].x
    <2>1. wetpipes!Left(i, n, w, cols) + w + 2 <= wetpipes!Left(j, n, w, cols)
      BY <1>1, <1>3, <1>5, SlotsApart
    <2>2. QED
      BY <1>3, <2>1
  <1>6. wetpipes!Cardinality(DOMAIN ps) >= 2 =>
          {ps[i].kind : i \in DOMAIN ps} = wetpipes!Kinds
    <2>1. DOMAIN k = 1..n
      BY <1>2
    <2>2. {ps[i].kind : i \in 1..n} = {k[i] : i \in 1..n}
      BY <1>3, SMTT(30)
    <2>3. QED
      BY <1>2, <1>3, <2>1, <2>2 DEF wetpipes!Mixed
  <1>7. /\ DOMAIN ps \subseteq Nat
        /\ \A i \in DOMAIN ps : Stands(ps[i], lines, cols) /\ ps[i].kind \in wetpipes!Kinds
    BY <1>3, <1>4
  <1>8. QED
    BY <1>5, <1>6, <1>7 DEF Placed

LEMMA SceneStands == ASSUME SceneInv PROVE wetpipes!PipesStand
  <1>1. ASSUME NEW i \in DOMAIN pipes
        PROVE  /\ pipes[i].x >= 0 /\ pipes[i].x + pipes[i].shaft_w + 2 <= COLS
               /\ pipes[i].y_top > wetpipes!SkyHeight(LINES)
               /\ pipes[i].y_top + pipes[i].height = LINES - 2
               /\ pipes[i].height > 2
    BY DEF SceneInv, Placed, Stands, Widths
  <1>2. QED
    BY <1>1 DEF SceneInv, Placed, wetpipes!PipesStand, wetpipes!brick_top, wetpipes!BRICK_ROWS,
                wetpipes!FLANGE_ROWS

(* The streams of a pipe are over its shaft.                                *)
LEMMA StreamsOverShaft ==
  ASSUME NEW p, p.x \in Nat, p.shaft_w \in Widths, NEW c \in wetpipes!stream_x(p)
  PROVE  c \in p.x + 2..p.x + p.shaft_w
  <1> DEFINE w == p.shaft_w
             n == wetpipes!stream_count(p)
  <1>1. PICK s \in 0..n - 1 : c = p.x + 2 + (s * (w - 2)) \div (n - 1)
    BY DEF wetpipes!stream_x
  <1>2. n - 1 = w - 2
    BY DEF Widths, wetpipes!stream_count, wetpipes!Least, wetpipes!MAX_STREAMS_PER_PIPE
  <1>3. s \in 0..w - 2
    BY <1>1, <1>2
  <1>4. (s * (w - 2)) \div (w - 2) = s
    BY <1>3 DEF Widths
  <1>5. w \in Nat
    BY DEF Widths
  <1>6. c = p.x + 2 + s
    BY <1>1, <1>2, <1>4
  <1>7. QED
    BY <1>3, <1>5, <1>6

(* A bubble is between the surface and its pipe.                            *)
BubbleKinds == {"dot", "colon", "small", "large", "fat"}
Bubbles(p) == [alive : {TRUE}, pipe : {p}, y : sky_h..pipes[p].y_top - 1, kind : BubbleKinds,
               lockout : Nat, floating : BOOLEAN, moves : Int]
BubbleInv == bubble = wetpipes!Gone \/ \E p \in DOMAIN pipes : bubble \in Bubbles(p)

LEMMA BubbleFloats ==
  ASSUME SceneInv, BubbleInv PROVE wetpipes!BubbleInWater
  <1> SUFFICES ASSUME bubble.alive, NEW c \in wetpipes!stream_x(pipes[bubble.pipe])
               PROVE  /\ wetpipes!Canvas(bubble.y, c) = "water"
                      /\ wetpipes!Canvas(pipes[bubble.pipe].y_top + 2, c) = "pipe"
    BY DEF wetpipes!BubbleInWater, wetpipes!draw_bubbles, wetpipes!FLANGE_ROWS
  <1>0. wetpipes!draw_bricks = LINES - 2..LINES - 1
    <2>1. LINES \in Nat
      BY DEF SceneInv
    <2>2. LINES - 2 + 2 - 1 = LINES - 1
      BY <2>1
    <2> QED BY <2>2 DEF wetpipes!draw_bricks, wetpipes!brick_top, wetpipes!BRICK_ROWS
  <1>1. PICK p \in DOMAIN pipes : bubble \in Bubbles(p)
    BY DEF BubbleInv, wetpipes!Gone
  <1>2. /\ bubble.pipe = p /\ bubble.y \in Int
        /\ sky_h <= bubble.y /\ bubble.y < pipes[p].y_top
    BY <1>1 DEF Bubbles, SceneInv, Placed, Stands, wetpipes!SkyHeight, wetpipes!Most
  <1>3. /\ LINES \in Nat /\ p \in Nat /\ DOMAIN pipes \subseteq Nat
        /\ sky_h = wetpipes!SkyHeight(LINES) /\ sky_h \in Nat
        /\ \A i \in DOMAIN pipes : Stands(pipes[i], LINES, COLS)
        /\ \A i, j \in DOMAIN pipes : i < j => pipes[i].x + pipes[i].shaft_w + 2 <= pipes[j].x
    BY SkyIsNat DEF SceneInv, Placed
  <1>4. c \in pipes[p].x + 2..pipes[p].x + pipes[p].shaft_w
    BY <1>2, <1>3, StreamsOverShaft DEF Stands
  <1>5. ASSUME NEW i \in DOMAIN pipes PROVE ~wetpipes!Covers(pipes[i], bubble.y, c)
    <2>1. /\ pipes[i].x \in Nat /\ pipes[i].shaft_w \in Nat /\ pipes[i].y_top \in Int
          /\ pipes[p].x \in Nat /\ pipes[p].shaft_w \in Nat /\ pipes[p].y_top \in Int
          /\ c \in Nat
      BY <1>3, <1>4 DEF Stands, Widths
    <2>2. CASE i = p
      BY <1>2, <2>1, <2>2 DEF wetpipes!Covers, wetpipes!FLANGE_ROWS
    <2>3. CASE i < p
      <3>1. pipes[i].x + pipes[i].shaft_w + 2 <= pipes[p].x
        BY <1>3, <2>3
      <3>2. c > pipes[i].x + pipes[i].shaft_w + 1
        BY <1>4, <2>1, <3>1
      <3>3. QED
        BY <2>1, <3>2 DEF wetpipes!Covers
    <2>4. CASE p < i
      <3>1. pipes[p].x + pipes[p].shaft_w + 2 <= pipes[i].x
        BY <1>3, <2>4
      <3>2. c < pipes[i].x
        BY <1>4, <2>1, <3>1
      <3>3. QED
        BY <2>1, <3>2 DEF wetpipes!Covers
    <2>5. QED
      BY <1>3, <2>2, <2>3, <2>4
  <1>6. /\ pipes[p].x \in Nat /\ pipes[p].shaft_w \in Nat
        /\ pipes[p].height \in Nat /\ pipes[p].height >= 4
        /\ pipes[p].y_top = LINES - 2 - pipes[p].height /\ pipes[p].y_top > sky_h
    BY <1>3 DEF Stands, Widths
  <1>7. wetpipes!Canvas(bubble.y, c) = "water"
    <2>1. bubble.y \notin LINES - 2..LINES - 1 /\ bubble.y < LINES - 2
      BY <1>2, <1>3, <1>6
    <2>2. ~(bubble.y < wetpipes!Least(wetpipes!SkyHeight(LINES), LINES - 2))
      BY <1>2, <1>3, <1>6 DEF wetpipes!Least
    <2>3. QED
      BY <1>0, <1>5, <2>1, <2>2 DEF wetpipes!Canvas, wetpipes!brick_top, wetpipes!BRICK_ROWS
  <1>8. wetpipes!Canvas(pipes[p].y_top + 2, c) = "pipe"
    <2> DEFINE row == pipes[p].y_top + 2
    <2>1. /\ row \notin LINES - 2..LINES - 1 /\ row < LINES - 2
          /\ ~(row < wetpipes!Least(wetpipes!SkyHeight(LINES), LINES - 2))
      BY <1>3, <1>6 DEF wetpipes!Least
    <2>2. wetpipes!Covers(pipes[p], row, c)
      BY <1>3, <1>4, <1>6 DEF wetpipes!Covers, wetpipes!FLANGE_ROWS
    <2> HIDE DEF row
    <2>3. wetpipes!Canvas(row, c) = "pipe"
      BY <1>0, <2>1, <2>2 DEF wetpipes!Canvas, wetpipes!brick_top, wetpipes!BRICK_ROWS
    <2>4. QED
      BY <2>3 DEF row
  <1>9. QED
    BY <1>2, <1>7, <1>8

LEMMA ScreenSizes ==
  ASSUME NEW s \in wetpipes!Screens
  PROVE  s[1] \in Nat /\ s[1] >= 10 /\ s[2] \in Nat
  <1>1. PICK z \in PipesSizes : s = <<wetpipes!Most(z[1], 10), wetpipes!Most(z[2], 10)>>
    BY DEF wetpipes!Screens
  <1>2. z[1] \in Nat /\ z[2] \in Nat
    BY PicturesAssumption
  <1>3. QED
    BY <1>1, <1>2 DEF wetpipes!Most

LEMMA SceneAtFirst == ASSUME wetpipes!Init PROVE SceneInv /\ BubbleInv
  <1>1. PICK s \in wetpipes!Screens : LINES = s[1] /\ COLS = s[2]
    BY DEF wetpipes!Init
  <1>2. LINES \in Nat /\ LINES >= 10 /\ COLS \in Nat
    BY <1>1, ScreenSizes
  <1>3. QED
    BY <1>2, LayoutStands DEF wetpipes!Init, SceneInv, BubbleInv

LEMMA SceneKeeps == ASSUME SceneInv, BubbleInv, wetpipes!Next PROVE SceneInv' /\ BubbleInv'
  <1>1. CASE wetpipes!resize_screen
    <2>1. PICK s \in wetpipes!Screens :
            /\ LINES' = s[1] /\ COLS' = s[2]
            /\ pipes' \in wetpipes!Layouts(s[1], s[2])
            /\ bubble' = wetpipes!Gone
            /\ sky_h' = wetpipes!SkyHeight(s[1])
      BY <1>1 DEF wetpipes!resize_screen
    <2>2. LINES' \in Nat /\ LINES' >= 10 /\ COLS' \in Nat
      BY <2>1, ScreenSizes
    <2>3. SceneInv'
      <3>1. Placed(pipes', LINES', COLS')
        BY <2>1, <2>2, LayoutStands
      <3>2. QED
        BY <2>1, <2>2, <3>1 DEF SceneInv, Placed, Stands, wetpipes!SkyHeight
    <2>4. QED
      BY <2>1, <2>3 DEF BubbleInv, wetpipes!Gone
  <1>2. CASE wetpipes!Frame
    <2>1. /\ LINES' = LINES /\ COLS' = COLS /\ pipes' = pipes /\ sky_h' = sky_h
          /\ \E b \in {bubble} \union
                       (IF bubble.alive THEN {} ELSE {wetpipes!Emitted(p) : p \in DOMAIN pipes}) :
               bubble' \in wetpipes!Moved(b)
      BY <1>2 DEF wetpipes!Frame
    <2>2. SceneInv'
      BY <2>1 DEF SceneInv, Placed, Stands, wetpipes!SkyHeight
    <2>3. \A p \in DOMAIN pipes : /\ sky_h \in Nat /\ pipes[p].y_top \in Int
                                  /\ pipes[p].y_top > sky_h
      BY SkyIsNat DEF SceneInv, Placed, Stands
    <2>4. PICK b : /\ bubble' \in wetpipes!Moved(b)
                   /\ b = wetpipes!Gone \/ \E p \in DOMAIN pipes : b \in Bubbles(p)
      <3>1. PICK b \in {bubble} \union
                       (IF bubble.alive THEN {} ELSE {wetpipes!Emitted(p) : p \in DOMAIN pipes}) :
               bubble' \in wetpipes!Moved(b)
        BY <2>1
      <3>2. ASSUME NEW p \in DOMAIN pipes PROVE wetpipes!Emitted(p) \in Bubbles(p)
        BY <2>3, <3>2 DEF wetpipes!Emitted, Bubbles, BubbleKinds,
                          wetpipes!TRANSITION_LOCKOUT_FRAMES
      <3>3. QED
        BY <3>1, <3>2 DEF BubbleInv
    <2>5. b = wetpipes!Gone => bubble' = wetpipes!Gone
      <3>1. wetpipes!Gone.alive = FALSE
        BY DEF wetpipes!Gone
      <3>2. b = wetpipes!Gone => wetpipes!Moved(b) = {b}
        BY <3>1, Zenon DEF wetpipes!Moved
      <3>3. QED
        BY <2>4, <3>2
    <2>6. ASSUME NEW p \in DOMAIN pipes, b \in Bubbles(p)
          PROVE  bubble' = wetpipes!Gone \/ bubble' \in Bubbles(p)
      <3>1. b.alive = TRUE /\ b.y \in sky_h..pipes[p].y_top - 1 /\ b.lockout \in Nat
            /\ b.floating \in BOOLEAN /\ b.moves \in Int
        BY <2>6 DEF Bubbles
      <3>2. CASE b.floating
        <4>1. bubble' = wetpipes!Floats(b)
          BY <2>4, <3>1, <3>2 DEF wetpipes!Moved
        <4>2. \A m \in Int : [b EXCEPT !.moves = m] \in Bubbles(p)
          BY <2>6 DEF Bubbles
        <4>3. \A y \in sky_h..pipes[p].y_top - 1, m \in Int :
                [b EXCEPT !.y = y, !.moves = m] \in Bubbles(p)
          BY <2>6 DEF Bubbles
        <4>4. \/ wetpipes!Floats(b) = [b EXCEPT !.moves = b.moves + 1]
              \/ wetpipes!Floats(b) = wetpipes!Gone
              \/ /\ wetpipes!Floats(b) = [b EXCEPT !.y = b.y - 1, !.moves = 0]
                 /\ ~(b.y - 1 < sky_h)
          BY DEF wetpipes!Floats
        <4>5. b.moves + 1 \in Int /\ (~(b.y - 1 < sky_h) => b.y - 1 \in sky_h..pipes[p].y_top - 1)
          BY <2>3, <3>1
        <4>6. [b EXCEPT !.moves = b.moves + 1] \in Bubbles(p)
          BY <4>2, <4>5
        <4>7. ASSUME ~(b.y - 1 < sky_h)
              PROVE  [b EXCEPT !.y = b.y - 1, !.moves = 0] \in Bubbles(p)
          <5>1. b.y - 1 \in sky_h..pipes[p].y_top - 1 /\ 0 \in Int
            BY <4>5, <4>7
          <5>2. QED
            BY <4>3, <5>1
        <4>8. QED
          BY <4>1, <4>4, <4>6, <4>7
      <3>3. CASE ~b.floating
        <4>1. bubble' \in wetpipes!Sits(b)
          BY <2>4, <3>1, <3>3 DEF wetpipes!Moved
        <4>2. \A n \in Nat : [b EXCEPT !.lockout = n] \in Bubbles(p)
          BY <2>6 DEF Bubbles
        <4>3. \A k \in wetpipes!Grown(b.kind) : k \in BubbleKinds
          BY DEF wetpipes!Grown, BubbleKinds
        <4>4. ASSUME NEW k \in BubbleKinds
              PROVE  [b EXCEPT !.kind = k, !.lockout = 6] \in Bubbles(p)
          BY <2>6 DEF Bubbles, BubbleKinds
        <4>5. \A f \in BOOLEAN, m \in Int : [b EXCEPT !.floating = f, !.moves = m] \in Bubbles(p)
          BY <2>6 DEF Bubbles
        <4>6. \/ bubble' = [b EXCEPT !.lockout = b.lockout - 1] /\ b.lockout > 0
              \/ \E k \in wetpipes!Grown(b.kind) :
                   bubble' = [b EXCEPT !.kind = k, !.lockout = 6]
              \/ bubble' = [b EXCEPT !.floating = TRUE, !.moves = 0]
          BY <4>1 DEF wetpipes!Sits, wetpipes!TRANSITION_LOCKOUT_FRAMES
        <4>7. b.lockout > 0 => [b EXCEPT !.lockout = b.lockout - 1] \in Bubbles(p)
          BY <3>1, <4>2
        <4>8. \A k \in wetpipes!Grown(b.kind) : [b EXCEPT !.kind = k, !.lockout = 6] \in Bubbles(p)
          BY <4>3, <4>4
        <4>9. [b EXCEPT !.floating = TRUE, !.moves = 0] \in Bubbles(p)
          <5>1. 0 \in Int /\ TRUE \in BOOLEAN
            OBVIOUS
          <5>2. QED
            BY <4>5, <5>1, Zenon
        <4>10. QED
          BY <4>6, <4>7, <4>8, <4>9
      <3>4. QED
        BY <3>2, <3>3
    <2>7. ASSUME NEW p \in DOMAIN pipes PROVE Bubbles(p)' = Bubbles(p)
      BY <2>1 DEF Bubbles
    <2>8. BubbleInv'
      BY <2>1, <2>4, <2>5, <2>6, <2>7 DEF BubbleInv, Bubbles
    <2>9. QED
      BY <2>2, <2>8
  <1>3. QED
    BY <1>1, <1>2 DEF wetpipes!Next

-----------------------------------------------------------------------------
(* All pictures                                                            *)

(* The one that is followed keeps its invariant.                            *)
PictureInv == /\ picture = "cmatrix" => ColumnInv /\ ColumnTypes
              /\ picture = "wetpipes" => SceneInv /\ BubbleInv
              /\ picture = "train" => EngineInv
              /\ picture = "info_box" => PlacedInv

LEMMA PicturesAtFirst == ASSUME Init PROVE PictureInv
  BY ColumnAtFirst, ColumnTypesAtFirst, SceneAtFirst, EngineAtFirst, NoBoxAtFirst DEF Init, PictureInv

LEMMA PicturesKeep == ASSUME PictureInv, [Next]_vars PROVE PictureInv'
  <1>1. CASE UNCHANGED vars
    <2> USE <1>1 DEF vars, column, scene, train, overlay, PictureInv
    <2>1. picture = "cmatrix" => ColumnInv' /\ ColumnTypes'
      BY DEF ColumnInv, ColumnTypes, cmatrix!Lower, cmatrix!Lengths
    <2>2. picture = "wetpipes" => SceneInv' /\ BubbleInv'
      BY DEF SceneInv, Placed, Stands, wetpipes!SkyHeight, BubbleInv, Bubbles
    <2>3. picture = "train" => EngineInv'
      BY DEF EngineInv
    <2>4. picture = "info_box" => PlacedInv'
      BY DEF PlacedInv, TypeInv, info_box!NoGhost, info_box!Screen, info_box!Footprint
    <2>5. QED
      BY <2>1, <2>2, <2>3, <2>4
  <1>2. CASE Matrix /\ cmatrix!Next
    BY <1>2, ColumnKeeps, ColumnTypesKept DEF Matrix, PictureInv
  <1>3. CASE Pipes /\ wetpipes!Next
    BY <1>3, SceneKeeps DEF Pipes, PictureInv
  <1>4. CASE Train /\ sl!Next
    BY <1>4, EngineKeeps DEF Train, PictureInv
  <1>5. CASE Box /\ info_box!Next
    BY <1>5, RelocateKeeps, StayKeeps, ResizeKeeps DEF Box, info_box!Next, PictureInv
  <1>6. QED
    BY <1>1, <1>2, <1>3, <1>4, <1>5 DEF Next

LEMMA PicturesAlways == Spec => []PictureInv
  BY PicturesAtFirst, PicturesKeep, PTL DEF Spec

(* Every picture's variables keep their types, whatever sizes the terminal  *)
(* takes and whatever rand() returns.                                       *)
THEOREM TypeCorrect == Spec => []TypeOK
  <1>1. ASSUME ColumnInv, ColumnTypes PROVE cmatrix!TypeOK
    BY <1>1 DEF ColumnInv, ColumnTypes, cmatrix!TypeOK, cmatrix!Lower
  <1>2. ASSUME SceneInv, BubbleInv PROVE wetpipes!TypeOK
    <2>1. sky_h \in Nat /\ \A i \in DOMAIN pipes : pipes[i].kind \in wetpipes!Kinds
      BY <1>2, SkyIsNat DEF SceneInv, Placed
    <2>2. bubble.alive => bubble.pipe \in DOMAIN pipes /\ bubble.kind \in BubbleKinds
      <3>1. CASE bubble = wetpipes!Gone
        BY <3>1 DEF wetpipes!Gone
      <3>2. CASE \E p \in DOMAIN pipes : bubble \in Bubbles(p)
        BY <3>2 DEF Bubbles
      <3>3. QED
        BY <1>2, <3>1, <3>2 DEF BubbleInv
    <2>3. BubbleKinds = DOMAIN wetpipes!Period
      BY DEF BubbleKinds, wetpipes!Period
    <2>4. QED
      BY <1>2, <2>1, <2>2, <2>3 DEF SceneInv, wetpipes!TypeOK
  <1>3. ASSUME EngineInv PROVE sl!TypeOK
    BY <1>3 DEF EngineInv, sl!TypeOK
  <1>4. ASSUME PlacedInv PROVE info_box!TypeOK
    BY <1>4 DEF PlacedInv, TypeInv, info_box!TypeOK
  <1>5. PictureInv => TypeOK
    BY <1>1, <1>2, <1>3, <1>4 DEF PictureInv, TypeOK
  <1>6. QED
    BY <1>5, PicturesAlways, PTL

(* info_box_draw() leaves no part of a box on the screen outside the place  *)
(* it remembers, and paints nothing off the screen, whatever sizes the      *)
(* terminal takes and however wide the message is.                          *)
THEOREM BoxLeavesNoGhost == Spec => []NoGhost
  <1>1. PictureInv => NoGhost
    BY DEF PictureInv, NoGhost, PlacedInv
  <1>2. QED
    BY <1>1, PicturesAlways, PTL

(* Everything drawn is where it belongs, whatever sizes the terminal takes: *)
(* the bright characters of cmatrix lead their streams, the pipes of        *)
(* compute_pipes() stand on the bricks, under water and apart, with their   *)
(* bubbles between them and the surface, and no drawing, puff or form of    *)
(* train.c is looked up outside its table, however long the saver runs.     *)
THEOREM AllInPlace == Spec => []InPlace
  <1>1. PictureInv => InPlace
    BY ColumnShown, SceneStands, BubbleFloats, EngineInPlace DEF PictureInv, InPlace
  <1>2. QED
    BY <1>1, PicturesAlways, PTL

(* Between two changes of the size, every frame of cmatrix moves all        *)
(* streams down by one row: none stops, merges with another or falls apart, *)
(* and no more than one is new.                                             *)
THEOREM StreamsKeepFalling == Spec => StreamsFall
  <1>1. ASSUME PictureInv, [Next]_vars
        PROVE  [picture = "cmatrix" => cmatrix!resize_screen \/ cmatrix!Falls]_vars
    <2>1. CASE Matrix /\ cmatrix!Next
      BY <1>1, <2>1, FrameFalls DEF Matrix, PictureInv, cmatrix!Next
    <2>2. CASE (Pipes /\ wetpipes!Next) \/ (Train /\ sl!Next) \/ (Box /\ info_box!Next)
      BY <2>2 DEF Pipes, Train, Box
    <2>3. QED
      BY <1>1, <2>1, <2>2 DEF Next
  <1>2. QED
    BY <1>1, PicturesAlways, PTL DEF Spec, StreamsFall
=============================================================================
