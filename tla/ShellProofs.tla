----------------------------- MODULE ShellProofs -----------------------------
(***************************************************************************)
(* What holds of shmonty's shell and its telemetry pane for every listing, *)
(* every set of scripts, every terminal and every bound.                   *)
(***************************************************************************)
EXTENDS Shell, TLAPS, FiniteSetTheorems

-----------------------------------------------------------------------------
(* Maxima and minima.                                                      *)

\* Max and Min of two numbers.
LEMMA MaxOfTwo ==
  ASSUME NEW a \in Int, NEW b \in Int
  PROVE  Max({a, b}) = IF a >= b THEN a ELSE b
<1> DEFINE m == IF a >= b THEN a ELSE b
<1>1. m \in {a, b} /\ \A y \in {a, b} : m >= y
  OBVIOUS
<1>2. \A x \in {a, b} : (\A y \in {a, b} : x >= y) => x = m
  OBVIOUS
<1>. QED
  BY <1>1, <1>2 DEF Max

LEMMA MinOfTwo ==
  ASSUME NEW a \in Int, NEW b \in Int
  PROVE  Min({a, b}) = IF a <= b THEN a ELSE b
<1> DEFINE m == IF a <= b THEN a ELSE b
<1>1. m \in {a, b} /\ \A y \in {a, b} : m =< y
  OBVIOUS
<1>2. \A x \in {a, b} : (\A y \in {a, b} : x =< y) => x = m
  OBVIOUS
<1>. QED
  BY <1>1, <1>2 DEF Min

-----------------------------------------------------------------------------
(* The pane.                                                               *)

\* A pane has a row at least.
LEMMA PaneHasRows ==
  ASSUME PaneTypeOK
  PROVE  PaneHeight \in Nat \ {0}
<1>1. size.height \in Nat
  BY PaneAssumption DEF PaneTypeOK
<1>2. size.height \div 4 \in Nat
  BY <1>1
<1>. QED
  BY <1>1, <1>2, MaxOfTwo, PaneAssumption DEF PaneHeight

\* The oldest page of a log of n lines begins within it.
LEMMA OldestPage ==
  ASSUME PaneTypeOK, NEW n \in Nat
  PROVE  MaxOffset(n) = IF n >= PaneHeight THEN n - PaneHeight ELSE 0
BY PaneHasRows, MaxOfTwo DEF MaxOffset

\* Scrolling ends between the tail and the oldest page.
LEMMA ScrollsWithin ==
  ASSUME PaneTypeOK, NEW n \in Nat, NEW o \in Int, ScrollTo(o, n)
  PROVE  /\ offset' \in 0..MaxOffset(n)
         /\ offset' = IF o < 0 THEN 0 ELSE IF o <= MaxOffset(n) THEN o ELSE MaxOffset(n)
         /\ MaxOffset(n) \in 0..n
         /\ following' = (offset' = 0)
<1>1. MaxOffset(n) \in 0..n
  BY OldestPage, PaneHasRows
<1>2. Max({o, 0}) = IF o >= 0 THEN o ELSE 0
  BY MaxOfTwo
<1>3. Max({o, 0}) \in Nat
  BY <1>2
<1>4. offset' = IF Max({o, 0}) <= MaxOffset(n) THEN Max({o, 0}) ELSE MaxOffset(n)
  BY <1>1, <1>3, MinOfTwo DEF ScrollTo
<1>. QED
  BY <1>1, <1>2, <1>4 DEF ScrollTo

LEMMA ScrollClears ==
  ASSUME NEW n, NEW o, ScrollTo(o, n)
  PROVE  resized' = FALSE
BY DEF ScrollTo

\* The scroll position is that of a line, if there are any, whatever the pane's
\* height was when it was taken.
OnALine == stored > 0 => offset < stored

\* The oldest page is as far back as a pane gets, but for a change of its height.
WholePage == ~resized => offset <= MaxOffset(stored)

PaneInv == PaneTypeOK /\ OnALine /\ WholePage

LEMMA PaneStarts ==
  ASSUME PaneInit
  PROVE  PaneInv
<1>1. Min({newest, MaxStored}) = 0
  BY PaneAssumption, MinOfTwo DEF PaneInit
<1>2. newest = 0 /\ stored = 0 /\ offset = 0 /\ size = [height |-> 0, wrap |-> 1]
  BY DEF PaneInit
<1>3. following = (offset = 0)
  <2>1. following /\ offset = 0
    BY DEF PaneInit
  <2>2. following = TRUE
    BY DEF PaneInit
  <2>. QED
    BY <2>1, <2>2, Zenon
<1>4. resized \in BOOLEAN
  BY DEF PaneInit
<1>5. PaneTypeOK
  BY <1>1, <1>2, <1>3, <1>4 DEF PaneTypeOK
<1>6. WholePage
  BY <1>2, <1>5, OldestPage, PaneHasRows DEF WholePage
<1>. QED
  BY <1>2, <1>5, <1>6 DEF PaneInv, OnALine

\* What new lines do to the log and to the pane.
LEMMA LinesComeIn ==
  ASSUME PaneTypeOK, NEW n \in Nat \ {0}, AppendLines(n)
  PROVE  /\ newest \in Nat /\ stored \in 0..newest /\ offset \in 0..stored
         /\ newest' = newest + n
         /\ stored' \in Nat \ {0} /\ stored' <= newest' /\ stored' <= MaxStored
         /\ following' = (offset' = 0)
         /\ offset' = IF following THEN 0
                      ELSE IF offset + n <= MaxOffset(stored') THEN offset + n
                      ELSE MaxOffset(stored')
<1>1. newest \in Nat /\ stored \in 0..newest /\ offset \in 0..stored
  BY PaneAssumption, MinOfTwo DEF PaneTypeOK
<1>2. /\ newest' = newest + n /\ stored' = Min({stored + n, MaxStored})
      /\ ScrollTo(IF following THEN offset ELSE offset + n, stored')
  BY DEF AppendLines
<1>3. stored' = IF stored + n <= MaxStored THEN stored + n ELSE MaxStored
  BY <1>1, <1>2, PaneAssumption, MinOfTwo
<1>4. stored' \in Nat \ {0} /\ stored' <= newest' /\ stored' <= MaxStored
  BY <1>1, <1>2, <1>3, PaneAssumption
<1>5. following' = (offset' = 0) /\ MaxOffset(stored') \in 0..stored'
  BY <1>1, <1>2, <1>4, ScrollsWithin
<1>6. CASE following
  <2>1. offset = 0
    BY <1>6 DEF PaneTypeOK
  <2>2. ScrollTo(0, stored')
    BY <1>2, <1>6, <2>1
  <2>3. offset' = 0
    BY <1>4, <1>5, <2>2, ScrollsWithin
  <2>. QED
    BY <1>1, <1>2, <1>4, <1>5, <1>6, <2>3
<1>7. CASE ~following
  <2>1. ScrollTo(offset + n, stored')
    BY <1>2, <1>7
  <2>2. offset' = IF offset + n <= MaxOffset(stored') THEN offset + n ELSE MaxOffset(stored')
    BY <1>1, <1>4, <2>1, ScrollsWithin
  <2>. QED
    BY <1>1, <1>2, <1>4, <1>5, <1>7, <2>2
<1>. QED
  BY <1>6, <1>7

LEMMA LinesAreKept ==
  ASSUME PaneInv, NEW n \in Nat, AppendLines(n), UNCHANGED size
  PROVE  PaneInv'
<1>. USE DEF PaneInv
<1>1. CASE n = 0
  BY <1>1 DEF AppendLines, logVars, PaneTypeOK, OnALine, WholePage, MaxOffset, PaneHeight
<1>2. CASE n # 0
  <2>1. /\ newest \in Nat /\ stored \in 0..newest /\ offset \in 0..stored
        /\ newest' = newest + n
        /\ stored' \in Nat \ {0} /\ stored' <= newest' /\ stored' <= MaxStored
        /\ following' = (offset' = 0)
        /\ offset' = IF following THEN 0
                     ELSE IF offset + n <= MaxOffset(stored') THEN offset + n
                     ELSE MaxOffset(stored')
    BY <1>2, LinesComeIn
  <2>2. MaxOffset(stored') \in Nat /\ MaxOffset(stored') < stored'
    BY <2>1, OldestPage, PaneHasRows
  <2>3. offset' \in Nat /\ offset' <= MaxOffset(stored') /\ offset' < stored'
    BY <2>1, <2>2
  <2>4. Min({newest', MaxStored}) = IF newest' <= MaxStored THEN newest' ELSE MaxStored
    BY <2>1, PaneAssumption, MinOfTwo
  <2>5. size' \in Sizes \cup {[height |-> 0, wrap |-> 1]}
    BY DEF PaneTypeOK
  <2>6. WholePage'
    BY <2>3 DEF WholePage, MaxOffset, PaneHeight
  <2>7. resized' \in BOOLEAN
    BY <1>2, ScrollClears DEF AppendLines
  <2>. QED
    BY <2>1, <2>3, <2>4, <2>5, <2>6, <2>7 DEF PaneTypeOK, OnALine
<1>. QED
  BY <1>1, <1>2

LEMMA ScrollKeepsThePane ==
  ASSUME PaneInv, NEW delta \in Int, Scroll(delta)
  PROVE  PaneInv'
<1>. USE DEF PaneInv
<1>1. stored \in Nat /\ offset \in Nat
  BY PaneAssumption, MinOfTwo DEF PaneTypeOK
<1>2. ScrollTo(offset + delta, stored)
  BY DEF Scroll
<1>3. offset' \in 0..MaxOffset(stored) /\ following' = (offset' = 0)
  BY <1>1, <1>2, ScrollsWithin
<1>4. MaxOffset(stored) = IF stored >= PaneHeight THEN stored - PaneHeight ELSE 0
  BY <1>1, OldestPage
<1>5. offset' \in 0..stored /\ (stored > 0 => offset' < stored) /\ offset' <= MaxOffset(stored)
  BY <1>1, <1>3, <1>4, PaneHasRows
<1>6. WholePage'
  BY <1>5 DEF Scroll, WholePage, MaxOffset, PaneHeight
<1>7. resized' \in BOOLEAN
  BY <1>2, ScrollClears
<1>. QED
  BY <1>3, <1>5, <1>6, <1>7 DEF Scroll, PaneTypeOK, OnALine

LEMMA ResizeKeepsThePane ==
  ASSUME PaneInv, Resize
  PROVE  PaneInv'
<1>1. WholePage'
  <2>1. CASE resized'
    BY <2>1 DEF WholePage
  <2>2. CASE ~resized'
    <3>1. ~resized /\ size' = size /\ UNCHANGED <<stored, offset>>
      BY <2>2 DEF Resize, logVars
    <3>. QED
      BY <3>1 DEF PaneInv, WholePage, MaxOffset, PaneHeight
  <2>. QED
    BY <2>1, <2>2
<1>2. resized' \in BOOLEAN
  BY DEF Resize
<1>. QED
  BY <1>1, <1>2 DEF Resize, PaneInv, PaneTypeOK, OnALine, logVars

\* The line at the bottom is shown.
LEMMA BottomIsShown ==
  ASSUME PaneInv
  PROVE  PaneNeverEmpty
<1>. SUFFICES ASSUME stored > 0 PROVE Bottom \in Shown
  BY DEF PaneNeverEmpty
<1>1. newest \in Nat /\ stored \in 1..newest /\ offset \in Nat /\ offset < stored
  BY PaneAssumption, MinOfTwo DEF PaneInv, PaneTypeOK, OnALine
<1>2. Bottom = newest - offset
  BY <1>1, MinOfTwo DEF Bottom
<1>3. Bottom \in Oldest..Bottom
  BY <1>1, <1>2 DEF Oldest
<1>4. size.wrap \in Nat
  BY PaneAssumption DEF PaneInv, PaneTypeOK
<1>5. (Bottom - Bottom) * size.wrap = 0
  BY <1>1, <1>2, <1>4
<1>6. 0 < PaneHeight
  BY PaneHasRows DEF PaneInv
<1>. QED
  BY <1>3, <1>5, <1>6 DEF Shown

\* A view that is off lines back from line new of the log, when n lines come in
\* and kept of all are kept, of which a page has rows.
LEMMA ViewArithmetic ==
  ASSUME NEW new \in Nat, NEW n \in Nat, NEW back \in 0..new, NEW kept \in Nat,
         NEW rows \in Nat \ {0},
         NEW last \in Int, last = IF kept >= rows THEN kept - rows ELSE 0
  PROVE  /\ last \in 0..kept
         /\ LET off  == IF back + n <= last THEN back + n ELSE last
                page == new + n - kept + rows
                held == IF new - back >= page THEN new - back ELSE page
            IN  /\ off \in 0..kept
                /\ new + n - off = IF new + n <= held THEN new + n ELSE held
OBVIOUS

\* What new lines leave at the bottom of the pane.
LEMMA BottomMoves ==
  ASSUME PaneInv, NEW n \in Nat \ {0}, AppendLines(n), UNCHANGED size
  PROVE  Bottom' = IF following THEN newest'
                   ELSE Min({newest', Max({Bottom, Oldest' + PaneHeight - 1})})
<1>1. /\ newest \in Nat /\ stored \in 0..newest /\ offset \in 0..stored
      /\ newest' = newest + n
      /\ stored' \in Nat \ {0} /\ stored' <= newest' /\ stored' <= MaxStored
      /\ following' = (offset' = 0)
      /\ offset' = IF following THEN 0
                   ELSE IF offset + n <= MaxOffset(stored') THEN offset + n
                   ELSE MaxOffset(stored')
  BY LinesComeIn DEF PaneInv
<1>2. PaneHeight \in Nat \ {0}
  BY PaneHasRows DEF PaneInv
<1>3. MaxOffset(stored') = IF stored' >= PaneHeight THEN stored' - PaneHeight ELSE 0
  BY <1>1, OldestPage DEF PaneInv
<1>11. newest \in Nat /\ offset \in 0..newest /\ stored' \in Nat /\ newest' = newest + n
  BY <1>1
<1>12. /\ MaxOffset(stored') \in 0..stored'
       /\ LET off  == IF offset + n <= MaxOffset(stored') THEN offset + n ELSE MaxOffset(stored')
              page == newest + n - stored' + PaneHeight
              held == IF newest - offset >= page THEN newest - offset ELSE page
          IN  /\ off \in 0..stored'
              /\ newest + n - off = IF newest + n <= held THEN newest + n ELSE held
  <2>1. MaxOffset(stored') \in Int /\ n \in Nat
    BY <1>2, <1>3, <1>11
  <2>2. PICK last : last = MaxOffset(stored')
    OBVIOUS
  <2>3. PICK rows : rows = PaneHeight
    OBVIOUS
  <2>4. PICK kept : kept = stored'
    OBVIOUS
  <2>5. /\ newest \in Nat /\ n \in Nat /\ offset \in 0..newest /\ kept \in Nat
        /\ rows \in Nat \ {0} /\ last \in Int
    BY <1>2, <1>11, <2>1, <2>2, <2>3, <2>4
  <2>6. last = IF kept >= rows THEN kept - rows ELSE 0
    BY <1>3, <2>2, <2>3, <2>4
  <2>7. /\ last \in 0..kept
        /\ LET off  == IF offset + n <= last THEN offset + n ELSE last
               page == newest + n - kept + rows
               held == IF newest - offset >= page THEN newest - offset ELSE page
           IN  /\ off \in 0..kept
               /\ newest + n - off = IF newest + n <= held THEN newest + n ELSE held
    BY <2>5, <2>6, ViewArithmetic
  <2>. QED
    BY <2>2, <2>3, <2>4, <2>7
<1>4. offset' \in 0..stored'
  BY <1>1, <1>12
<1>5. Bottom = newest - offset
  BY <1>1, MinOfTwo DEF Bottom
<1>6. Min({offset', stored'}) = offset'
  BY <1>1, <1>4, MinOfTwo
<1>7. Bottom' = newest' - offset'
  BY <1>6 DEF Bottom
<1>8. Oldest' = newest' - stored' + 1
  BY DEF Oldest
<1>9. CASE following
  BY <1>1, <1>7, <1>9
<1>10. CASE ~following
  <2> DEFINE page == Oldest' + PaneHeight - 1
             held == IF Bottom >= page THEN Bottom ELSE page
  <2>1. Bottom \in Int /\ page \in Int /\ newest' \in Int /\ page = newest' - stored' + PaneHeight
    BY <1>1, <1>2, <1>5, <1>8
  <2>2. Max({Bottom, page}) = held /\ held \in Int
    BY <2>1, MaxOfTwo
  <2>3. Min({newest', held}) = IF newest' <= held THEN newest' ELSE held
    BY <2>1, <2>2, MinOfTwo
  <2>4. newest' - offset' = IF newest' <= held THEN newest' ELSE held
    BY <1>1, <1>5, <1>10, <1>12, <2>1
  <2>. QED
    BY <1>7, <1>10, <2>2, <2>3, <2>4
<1>. QED
  BY <1>9, <1>10

\* A pane that is not beyond the oldest page keeps its lines with the page.
LEMMA PageIsKept ==
  ASSUME PaneInv, NEW n \in Nat \ {0}, AppendLines(n), UNCHANGED size
  PROVE  ViewKept
<1>1. /\ newest \in Nat /\ stored \in 0..newest /\ offset \in 0..stored
      /\ newest' = newest + n /\ stored' \in Nat
  BY LinesComeIn DEF PaneInv
<1>2. PaneHeight \in Nat \ {0} /\ size.wrap \in Nat \ {0}
  BY PaneHasRows, PaneAssumption DEF PaneInv, PaneTypeOK
<1>3. Bottom = newest - offset
  BY <1>1, MinOfTwo DEF Bottom
<1>4. Oldest = newest - stored + 1 /\ Oldest' = newest' - stored' + 1
  BY DEF Oldest
<1>5. Bottom' = IF following THEN newest'
                ELSE Min({newest', Max({Bottom, Oldest' + PaneHeight - 1})})
  BY BottomMoves
<1>6. CASE following
  BY <1>5, <1>6 DEF ViewKept
<1>7. CASE ~following /\ resized
  BY <1>7 DEF ViewKept
<1>8. CASE ~following /\ ~resized
  <2> DEFINE top  == Bottom - PaneHeight + 1
             page == Oldest' + PaneHeight - 1
  <2>1. offset <= MaxOffset(stored) /\ offset # 0
    BY <1>8 DEF PaneInv, WholePage, PaneTypeOK
  <2>2. stored >= PaneHeight /\ offset <= stored - PaneHeight
    BY <1>1, <1>2, <2>1, OldestPage DEF PaneInv
  <2>3. stored <= stored'
    <3>1. stored <= MaxStored
      BY <1>1, PaneAssumption, MinOfTwo DEF PaneInv, PaneTypeOK
    <3>2. stored' = IF stored + n <= MaxStored THEN stored + n ELSE MaxStored
      BY <1>1, PaneAssumption, MinOfTwo DEF AppendLines
    <3>. QED
      BY <1>1, <3>1, <3>2
  <2>4. /\ top >= Oldest /\ page <= newest' /\ Bottom <= newest'
        /\ page \in Int /\ Bottom \in Int /\ top \in Int /\ Oldest' \in Int
        /\ Bottom >= page <=> top >= Oldest'
    <3>1. PICK rows, new, had, kept, back, bottom, oldest, first :
            /\ rows = PaneHeight /\ new = newest' /\ had = stored /\ kept = stored'
            /\ back = offset /\ bottom = Bottom /\ oldest = Oldest /\ first = Oldest'
      OBVIOUS
    <3>2. /\ newest \in Nat /\ new \in Nat /\ had \in Nat /\ kept \in Nat /\ back \in Nat
          /\ rows \in Nat \ {0} /\ newest <= new /\ rows <= had /\ back <= had - rows /\ had <= kept
      BY <1>1, <1>2, <2>2, <2>3, <3>1
    <3>3. bottom = newest - back /\ oldest = newest - had + 1 /\ first = new - kept + 1
      BY <1>3, <1>4, <3>1
    <3>4. /\ bottom - rows + 1 >= oldest /\ first + rows - 1 <= new /\ bottom <= new
          /\ first + rows - 1 \in Int /\ bottom \in Int /\ bottom - rows + 1 \in Int /\ first \in Int
      BY <3>2, <3>3
    <3>5. bottom >= first + rows - 1 <=> bottom - rows + 1 >= first
      BY <3>2, <3>4
    <3>6. top = bottom - rows + 1 /\ page = first + rows - 1
      BY <3>1
    <3>. HIDE DEF top, page
    <3>. QED
      BY <3>1, <3>4, <3>5, <3>6
  <2>5. Bottom' = IF Bottom >= page THEN Bottom ELSE page
    <3>1. Max({Bottom, page}) = IF Bottom >= page THEN Bottom ELSE page
      BY <2>4, MaxOfTwo
    <3>2. newest' \in Int
      BY <1>1
    <3>. QED
      BY <1>5, <1>8, <2>4, <3>1, <3>2, MinOfTwo
  <2>6. CASE top < Oldest'
    <3>1. Bottom' = page
      BY <2>4, <2>5, <2>6
    <3>. QED
      BY <1>8, <2>6, <3>1 DEF ViewKept
  <2>7. CASE top >= Oldest'
    <3>1. Bottom' = Bottom
      BY <2>4, <2>5, <2>7
    <3>2. ASSUME NEW i \in Int, i <= Bottom, (Bottom - i) * size.wrap < PaneHeight
          PROVE  i >= top
      <4>1. Bottom - i \in Nat
        BY <2>4, <3>2
      <4>2. Bottom - i <= (Bottom - i) * size.wrap
        BY <1>2, <4>1
      <4>3. PICK rows : rows = (Bottom - i) * size.wrap
        OBVIOUS
      <4>4. rows \in Nat /\ Bottom - i <= rows /\ rows < PaneHeight
        BY <1>2, <3>2, <4>1, <4>2, <4>3
      <4>. QED
        BY <1>2, <2>4, <4>4
    <3>3. Shown = {i \in Oldest..Bottom : (Bottom - i) * size.wrap < PaneHeight}
      BY DEF Shown
    <3>4. Shown' = {i \in Oldest'..Bottom : (Bottom - i) * size.wrap < PaneHeight}
      BY <3>1 DEF Shown, PaneHeight
    <3>5. Oldest \in Int /\ Oldest' \in Int
      BY <1>1, <1>4
    <3>6. top \in Int
      BY <1>2, <2>4
    <3>. HIDE DEF top
    <3>7. \A i : i \in Shown <=> i \in Shown'
      BY <2>4, <2>7, <3>2, <3>3, <3>4, <3>5, <3>6
    <3>8. Shown' = Shown
      BY <3>3, <3>4, <3>7
    <3>. QED
      BY <1>8, <2>7, <3>8 DEF ViewKept, top
  <2>. QED
    BY <2>4, <2>6, <2>7
<1>. QED
  BY <1>6, <1>7, <1>8

\* Blocks of w places are apart.
LEMMA PlacesDiffer ==
  ASSUME NEW w \in Nat \ {0}, NEW a \in Nat, NEW b \in Nat, NEW j \in 1..w, NEW k \in 1..w,
         a * w + j = b * w + k
  PROVE  a = b /\ j = k
<1>1. ASSUME NEW c \in Nat, NEW d \in Nat, c < d, NEW x \in 1..w, NEW y \in 1..w
      PROVE  c * w + x < d * w + y
  <2>1. PICK e \in Nat : d = c + 1 + e
    <3>1. d - c - 1 \in Nat /\ d = c + 1 + (d - c - 1)
      BY <1>1
    <3>. QED
      BY <3>1
  <2>2. d * w = c * w + w + e * w
    BY <2>1
  <2>3. e * w \in Nat /\ c * w \in Nat
    OBVIOUS
  <2>. QED
    BY <2>2, <2>3
<1>2. ~(a < b) /\ ~(b < a)
  <2>1. a * w \in Nat /\ b * w \in Nat
    OBVIOUS
  <2>. QED
    BY <1>1, <2>1
<1>3. a = b
  BY <1>2
<1>4. a * w \in Nat
  OBVIOUS
<1>. QED
  BY <1>3, <1>4

\* The rows that are written fit the pane: the last line is cut.
LEMMA RowsFit ==
  ASSUME PaneInv
  PROVE  IsFiniteSet(Rows) /\ Cardinality(Rows) \in 0..PaneHeight
<1> DEFINE place == [r \in Rows |-> (Bottom - r[1]) * size.wrap + r[2]]
<1>1. PaneHeight \in Nat \ {0} /\ size.wrap \in Nat \ {0}
  BY PaneHasRows, PaneAssumption DEF PaneInv, PaneTypeOK
<1>2. Bottom \in Int /\ Oldest \in Int
  <2>1. newest \in Nat /\ stored \in 0..newest /\ offset \in 0..stored
    BY PaneAssumption, MinOfTwo DEF PaneInv, PaneTypeOK
  <2>. QED
    BY <2>1, MinOfTwo DEF Bottom, Oldest
<1>3. ASSUME NEW r \in Rows
      PROVE  /\ r = <<r[1], r[2]>> /\ Bottom - r[1] \in Nat /\ r[1] \in Int
             /\ r[2] \in 1..size.wrap
             /\ (Bottom - r[1]) * size.wrap + r[2] \in 1..PaneHeight
  <2>1. r \in Shown \X (1..size.wrap) /\ r[2] <= RowsOf(r[1])
    BY DEF Rows
  <2>2. r = <<r[1], r[2]>> /\ r[1] \in Oldest..Bottom /\ r[2] \in 1..size.wrap
    BY <2>1 DEF Shown
  <2>3. Bottom - r[1] \in Nat /\ r[1] \in Int
    BY <1>2, <2>2
  <2>4. PICK above \in Nat : above = (Bottom - r[1]) * size.wrap
    BY <1>1, <2>3
  <2>5. RowsOf(r[1]) = IF size.wrap <= PaneHeight - above THEN size.wrap ELSE PaneHeight - above
    BY <1>1, <2>4, MinOfTwo DEF RowsOf
  <2>. QED
    BY <1>1, <2>1, <2>2, <2>3, <2>4, <2>5
<1>4. place \in Injection(Rows, 1..PaneHeight)
  <2>1. place \in [Rows -> 1..PaneHeight]
    BY <1>3
  <2>2. ASSUME NEW r \in Rows, NEW s \in Rows, place[r] = place[s]
        PROVE  r = s
    <3>1. (Bottom - r[1]) * size.wrap + r[2] = (Bottom - s[1]) * size.wrap + s[2]
      BY <2>2
    <3>2. Bottom - r[1] = Bottom - s[1] /\ r[2] = s[2]
      BY <1>1, <1>3, <3>1, PlacesDiffer
    <3>3. r[1] = s[1]
      BY <1>2, <1>3, <3>2
    <3>. QED
      BY <1>3, <3>2, <3>3
  <2>. QED
    BY <2>1, <2>2 DEF Injection, IsInjective
<1>5. IsFiniteSet(1..PaneHeight) /\ Cardinality(1..PaneHeight) = PaneHeight
  BY <1>1, FS_Interval
<1>. HIDE DEF place
<1>6. IsFiniteSet(Rows) /\ Cardinality(Rows) <= PaneHeight
  BY <1>4, <1>5, FS_Injection DEF ExistsInjection
<1>. QED
  BY <1>1, <1>6, FS_CardinalityType

-----------------------------------------------------------------------------
(* The input line, and what the Repl is fed for it.                        *)

Results == [code : Texts, fed : Code \cup {"unreadable", "usage", "notice"}]
Answers == [code : Inputs, fed : Code \cup {"unreadable", "usage"}]

\* The strings that lead an input line differ.
LEMMA KindsOfText ==
  ASSUME NEW t \in Texts
  PROVE  \/ t \in {Empty, <<"blank">>, <<"leave">>, <<"debug">>, <<"usage">>}
         \/ \E l \in Lines : t = <<"line", l>>
         \/ \E d \in Seq(Seq(STRING)), b \in Seq(STRING) : t = <<"execute", d, b>>
BY DEF Texts

LEMMA TrimIsText ==
  ASSUME NEW t \in Texts
  PROVE  Trim(t) \in Texts /\ Trim(t) # <<"blank">>
<1>1. Empty # <<"blank">> /\ <<"usage">> # <<"blank">> /\ Empty \in Texts /\ <<"usage">> \in Texts
  BY DEF Empty, Texts
<1>2. CASE t = <<"blank">>
  BY <1>1, <1>2 DEF Trim
<1>3. CASE t # <<"blank">> /\ t = <<"execute", <<>>, <<>>>>
  BY <1>1, <1>3 DEF Trim
<1>4. CASE t # <<"blank">> /\ t # <<"execute", <<>>, <<>>>>
  BY <1>4 DEF Trim
<1>. QED
  BY <1>2, <1>3, <1>4

LEMMA InputIsFed ==
  ASSUME NEW code \in Inputs, disk \in [Paths -> Scripts \cup {"unreadable"}]
  PROVE  Ran(code) \in Answers
<1>. SUFFICES Fed(code) \in Code \cup {"unreadable", "usage"}
  BY DEF Ran, Answers
<1>1. CASE code = <<"usage">>
  BY <1>1 DEF Fed
<1>2. ASSUME NEW l \in Lines, code = <<"line", l>>
      PROVE  Fed(code) \in Code
  BY <1>2 DEF Fed, Code
<1>3. ASSUME NEW d \in Seq(Seq(STRING)), NEW b \in Seq(STRING), code = <<"execute", d, b>>
      PROVE  Fed(code) \in Code \cup {"unreadable"}
  <2>1. Fed(code) = IF Append(d, b) \in Paths THEN disk[Append(d, b)] ELSE "unreadable"
    BY <1>3 DEF Fed
  <2>. QED
    BY <2>1 DEF Code
<1>. QED
  BY <1>1, <1>2, <1>3, KindsOfText DEF Inputs

LEMMA RunMakesLines ==
  ASSUME NEW e
  PROVE  LinesOfRun(e) \in Nat
BY ShellAssumption DEF LinesOfRun

LEMMA RunsMakeLines ==
  ASSUME NEW S, NEW es \in Seq(S)
  PROVE  LinesOf(es) \in Nat
<1> DEFINE Lot(i) == {i} \X (1..LinesOfRun(es[i]))
           Lots   == {Lot(i) : i \in DOMAIN es}
<1>1. IsFiniteSet(DOMAIN es)
  BY FS_Interval
<1>2. IsFiniteSet(Lots)
  <2> DEFINE lot == [i \in DOMAIN es |-> Lot(i)]
  <2>1. lot \in Surjection(DOMAIN es, Lots)
    BY DEF Surjection
  <2>. HIDE DEF lot, Lots
  <2>. QED
    BY <1>1, <2>1, FS_Surjection
<1>3. ASSUME NEW i \in DOMAIN es
      PROVE  IsFiniteSet(Lot(i))
  <2>1. IsFiniteSet(1..LinesOfRun(es[i]))
    BY RunMakesLines, FS_Interval
  <2>2. IsFiniteSet({i})
    BY FS_Singleton
  <2>. QED
    BY <2>1, <2>2, FS_Product
<1>4. IsFiniteSet(UNION Lots)
  <2>1. \A T \in Lots : IsFiniteSet(T)
    BY <1>3
  <2>. HIDE DEF Lots
  <2>. QED
    BY <1>2, <2>1, FS_UNION
<1>. QED
  BY <1>4, FS_CardinalityType DEF LinesOf

-----------------------------------------------------------------------------
(* Completion.                                                             *)

\* A set of numbers within bounds has a largest one: were there a larger one
\* for each, adding one would map all up to them into all but 0.
LEMMA Largest ==
  ASSUME NEW N \in Nat, NEW T \in SUBSET (0..N), T # {}
  PROVE  \E m \in T : \A n \in T : n <= m
<1>. SUFFICES ASSUME \A m \in T : \E n \in T : m < n
              PROVE  FALSE
  OBVIOUS
<1> DEFINE D  == {n \in 0..N : \E t \in T : n <= t}
           up == [n \in D |-> n + 1]
<1>1. 0 \in D
  <2>1. PICK t : t \in T
    OBVIOUS
  <2>2. t \in 0..N
    BY <2>1
  <2>3. 0 <= t
    BY <2>2
  <2>. QED
    BY <2>1, <2>3
<1>2. ASSUME NEW n \in D
      PROVE  n + 1 \in D \ {0}
  <2>1. PICK t \in T : n <= t
    OBVIOUS
  <2>2. PICK u \in T : t < u
    OBVIOUS
  <2>. QED
    BY <2>1, <2>2
<1>3. up \in Injection(D, D \ {0})
  BY <1>2 DEF Injection, IsInjective
<1>4. IsFiniteSet(D)
  <2>1. D \in SUBSET (0..N) /\ IsFiniteSet(0..N)
    BY FS_Interval
  <2>. HIDE DEF D
  <2>. QED
    BY <2>1, FS_Subset
<1>. HIDE DEF D, up
<1>5. Cardinality(D) \in Nat /\ Cardinality(D \ {0}) = Cardinality(D) - 1 /\ IsFiniteSet(D \ {0})
  BY <1>1, <1>4, FS_CardinalityType, FS_RemoveElement
<1>6. Cardinality(D) <= Cardinality(D \ {0})
  BY <1>3, <1>5, FS_Injection
<1>. QED
  BY <1>5, <1>6

Names == Seq(STRING)

Begins(p, t) == Len(p) <= Len(t) /\ \A i \in 1..Len(p) : p[i] = t[i]

LEMMA PrefixBegins ==
  ASSUME NEW p \in Names, NEW t \in Names
  PROVE  IsPrefix(p, t) <=> Begins(p, t)
BY DEF IsPrefix, Begins, Names

LEMMA PrefixIsCut ==
  ASSUME NEW p \in Names, NEW t \in Names, Begins(p, t)
  PROVE  p = SubSeq(t, 1, Len(p))
BY DEF Begins, Names

LEMMA CutBegins ==
  ASSUME NEW t \in Names, NEW n \in 0..Len(t)
  PROVE  /\ SubSeq(t, 1, n) \in Names /\ Len(SubSeq(t, 1, n)) = n
         /\ Begins(SubSeq(t, 1, n), t)
BY DEF Begins, Names

\* Two beginnings of a name: the shorter one begins the other.
LEMMA BeginningsAgree ==
  ASSUME NEW p \in Names, NEW q \in Names, NEW t \in Names,
         Begins(p, t), Begins(q, t), Len(p) <= Len(q)
  PROVE  Begins(p, q)
BY DEF Begins, Names

LEMMA BeginsIsTransitive ==
  ASSUME NEW p \in Names, NEW q \in Names, NEW t \in Names, Begins(p, q), Begins(q, t)
  PROVE  Begins(p, t)
BY DEF Begins, Names

LEMMA SameLength ==
  ASSUME NEW p \in Names, NEW q \in Names, Begins(p, q), Len(p) = Len(q)
  PROVE  p = q
BY DEF Begins, Names

LEMMA CommonPrefixesAre ==
  ASSUME NEW S \in SUBSET Names, S # {}
  PROVE  CommonPrefixes(S) = {p \in Names : \A t \in S : Begins(p, t)}
<1> DEFINE P == UNION {Prefixes(t) : t \in S}
<1>1. ASSUME NEW t \in S
      PROVE  Prefixes(t) = {p \in Names : Begins(p, t)}
  <2>1. ASSUME NEW n \in 0..Len(t)
        PROVE  SubSeq(t, 1, n) \in Names /\ Begins(SubSeq(t, 1, n), t)
    BY CutBegins
  <2>2. ASSUME NEW p \in Names, Begins(p, t)
        PROVE  \E n \in 0..Len(t) : p = SubSeq(t, 1, n)
    <3>1. Len(p) \in 0..Len(t)
      BY <2>2 DEF Begins, Names
    <3>. QED
      BY <2>2, <3>1, PrefixIsCut
  <2>. QED
    BY <2>1, <2>2 DEF Prefixes
<1>2. P = {p \in Names : \E t \in S : Begins(p, t)}
  BY <1>1
<1>3. CommonPrefixes(S) = {p \in P : \A t \in S : IsPrefix(p, t)}
  BY DEF CommonPrefixes
<1>. HIDE DEF P
<1>. QED
  BY <1>2, <1>3, PrefixBegins

\* There is a longest of what all names of a set begin with.
LEMMA LongestExists ==
  ASSUME NEW S \in SUBSET Names, S # {}
  PROVE  /\ LongestCommonPrefix(S) \in CommonPrefixes(S)
         /\ \A p \in CommonPrefixes(S) : Len(p) <= Len(LongestCommonPrefix(S))
<1>1. PICK s \in S : TRUE
  OBVIOUS
<1> DEFINE C == CommonPrefixes(S)
           T == {Len(p) : p \in C}
<1>2. C = {p \in Names : \A t \in S : Begins(p, t)}
  BY CommonPrefixesAre
<1>3. <<>> \in C
  BY <1>2 DEF Begins, Names
<1>4. \A p \in C : Len(p) \in 0..Len(s)
  BY <1>1, <1>2 DEF Begins, Names
<1>5. Len(s) \in Nat /\ T \in SUBSET (0..Len(s)) /\ T # {}
  <2>1. Len(s) \in Nat
    BY <1>1 DEF Names
  <2>2. T \in SUBSET (0..Len(s))
    BY <1>4
  <2>3. Len(<<>>) \in T
    BY <1>3
  <2>. QED
    BY <2>1, <2>2, <2>3
<1>6. PICK m \in T : \A n \in T : n <= m
  <2>. HIDE DEF T
  <2>. QED
    BY <1>5, Largest
<1>7. \E p \in C : \A q \in C : Len(q) <= Len(p)
  BY <1>6
<1>. HIDE DEF C
<1>8. LongestCommonPrefix(S) = CHOOSE p \in C : \A q \in C : Len(q) <= Len(p)
  BY Zenon DEF LongestCommonPrefix, C
<1>9. LongestCommonPrefix(S) \in C /\ \A q \in C : Len(q) <= Len(LongestCommonPrefix(S))
  BY <1>7, <1>8, Zenon
<1>. QED
  BY <1>9 DEF C

LEMMA CandidatesBegin ==
  ASSUME NEW dir, NEW base \in Names
  PROVE  /\ Matches(dir, base) \in SUBSET Names
         /\ \A name \in Matches(dir, base) : Begins(base, name)
<1>1. CASE dir \in DOMAIN Listing
  <2>1. Matches(dir, base) \subseteq Listing[dir]
    BY <1>1 DEF Matches
  <2>2. Listing[dir] \subseteq Names
    BY <1>1, ListingAssumption DEF Names
  <2>3. \A name \in Matches(dir, base) : IsPrefix(base, name)
    BY <1>1 DEF Matches
  <2>. QED
    BY <2>1, <2>2, <2>3, PrefixBegins
<1>2. CASE dir \notin DOMAIN Listing
  BY <1>2 DEF Matches
<1>. QED
  BY <1>1, <1>2

\* What Tab completes to goes on from what there is, as far as all candidates go.
LEMMA CompletedTo ==
  ASSUME NEW dir, NEW base \in Names, Matches(dir, base) # {}
  PROVE  /\ CommonPrefix(Matches(dir, base)) \in Names
         /\ Begins(base, CommonPrefix(Matches(dir, base)))
         /\ \A name \in Matches(dir, base) : Begins(CommonPrefix(Matches(dir, base)), name)
<1> DEFINE M      == Matches(dir, base)
           common == CommonPrefix(M)
<1>1. M \in SUBSET Names /\ \A name \in M : Begins(base, name)
  BY CandidatesBegin
<1>2. M # {}
  OBVIOUS
<1>. HIDE DEF M
<1>3. common \in CommonPrefixes(M) /\ \A p \in CommonPrefixes(M) : Len(p) <= Len(common)
  BY <1>1, <1>2, LongestExists DEF CommonPrefix
<1>4. CommonPrefixes(M) = {p \in Names : \A t \in M : Begins(p, t)}
  BY <1>1, <1>2, CommonPrefixesAre
<1>. HIDE DEF common
<1>5. common \in Names /\ \A t \in M : Begins(common, t)
  BY <1>3, <1>4
<1>6. base \in CommonPrefixes(M)
  BY <1>1, <1>4
<1>7. PICK name \in M : name \in Names
  BY <1>1, <1>2
<1>8. Begins(base, common)
  BY <1>1, <1>3, <1>5, <1>6, <1>7, BeginningsAgree
<1>. QED
  BY <1>5, <1>8 DEF M, common

LEMMA PathIsText ==
  ASSUME NEW dir \in Seq(Names), NEW name \in Names
  PROVE  /\ Path(dir, name) \in Texts
         /\ Path(dir, name) = IF name # <<>> /\ name[Len(name)] = "/"
                              THEN <<"execute", Append(dir, Front(name)), <<>>>>
                              ELSE <<"execute", dir, name>>
<1>1. Front(name) \in Names
  BY DEF Front, Names
<1>2. Append(dir, Front(name)) \in Seq(Names) /\ <<>> \in Names
  BY <1>1 DEF Names
<1>3. \A d \in Seq(Names), b \in Names : <<"execute", d, b>> \in Texts
  BY DEF Texts, Names
<1>. QED
  BY <1>2, <1>3 DEF Path, Last

\* A name that a set of names begins with, and that one of them ends with "/"
\* at, is the only one.
LEMMA DirectoryIsAlone ==
  ASSUME NEW dir \in DOMAIN Listing, NEW p \in Names, NEW name \in Listing[dir],
         p # <<>>, p[Len(p)] = "/", Begins(p, name)
  PROVE  p = name
<1>1. name \in Names /\ \A i \in 1..Len(name) : name[i] = "/" => i = Len(name)
  BY ListingAssumption DEF Names
<1>2. Len(p) \in 1..Len(name) /\ name[Len(p)] = "/"
  BY DEF Begins, Names
<1>. QED
  BY <1>1, <1>2, SameLength

\* A longer beginning that all candidates share has the same candidates.
LEMMA SameCandidates ==
  ASSUME NEW dir, NEW base \in Names, NEW common \in Names,
         Matches(dir, base) # {}, common # base, Begins(base, common),
         \A name \in Matches(dir, base) : Begins(common, name)
  PROVE  Matches(dir, common) = Matches(dir, base)
<1>1. dir \in DOMAIN Listing
  BY DEF Matches
<1>2. \A b \in Names : Matches(dir, b) = {name \in Listing[dir] :
                         Begins(b, name) /\ (Hidden(name) => Hidden(b))}
  BY <1>1, ListingAssumption, PrefixBegins DEF Matches, Names
<1>3. Hidden(base) => Hidden(common)
  BY DEF Hidden, Begins, Names
<1>4. common # <<>>
  BY DEF Begins, Names
<1>5. \A name \in Names : Begins(common, name) => (Hidden(name) <=> Hidden(common))
  BY <1>4 DEF Hidden, Begins, Names
<1>6. Matches(dir, base) \in SUBSET Names
  BY CandidatesBegin
<1>7. Hidden(common) => Hidden(base)
  BY <1>2, <1>5, <1>6
<1>8. ASSUME NEW name \in Matches(dir, base)
      PROVE  name \in Matches(dir, common)
  BY <1>2, <1>3, <1>6, <1>8
<1>9. ASSUME NEW name \in Matches(dir, common)
      PROVE  name \in Matches(dir, base)
  <2>1. name \in Listing[dir] /\ name \in Names /\ Begins(common, name)
    BY <1>1, <1>2, ListingAssumption DEF Names
  <2>2. Begins(base, name)
    BY <2>1, BeginsIsTransitive
  <2>. QED
    BY <1>2, <1>7, <1>9, <2>1, <2>2
<1>. QED
  BY <1>8, <1>9

-----------------------------------------------------------------------------
(* Types.                                                                  *)

\* What Up took is what Down will put back, as long as the walk lasts.
LineShape == /\ text \in Texts /\ pending \in Texts /\ draft \in {<<>>, <<pending>>}
             /\ history \in Seq(Inputs) /\ idx \in 0..Len(history)
             /\ Len(history) <= MaxHistory(otel)

RunShape == entries \in Seq(Results) /\ session \in Seq(Answers)

ModeShape == /\ debug \in BOOLEAN /\ otel \in BOOLEAN /\ quitting \in BOOLEAN
             /\ ~(debug /\ otel)

Disk == disk \in [Paths -> Scripts \cup {"unreadable"}]

Inv == LineShape /\ RunShape /\ ModeShape /\ Disk /\ PaneInv

LEMMA NewestAre ==
  ASSUME NEW S, NEW es \in Seq(S)
  PROVE  \E d \in Nat :
           /\ d <= Len(es) /\ Newest(es) \in Seq(S) /\ Len(Newest(es)) = Len(es) - d
           /\ \A i \in 1..Len(Newest(es)) : Newest(es)[i] = es[i + d]
<1>1. CASE Len(es) > MaxEntries
  <2> DEFINE d == Len(es) - MaxEntries
  <2>1. Newest(es) = SubSeq(es, d + 1, Len(es))
    BY <1>1 DEF Newest
  <2>2. d \in Nat /\ d <= Len(es) /\ Len(es) \in Nat
    BY <1>1, ShellAssumption
  <2>. HIDE DEF d
  <2>3. SubSeq(es, d + 1, Len(es)) \in Seq(S)
    BY <2>2
  <2>4. Len(SubSeq(es, d + 1, Len(es))) = Len(es) - d
    BY <2>2
  <2>5. \A i \in 1..Len(es) - d : SubSeq(es, d + 1, Len(es))[i] = es[i + d]
    BY <2>2
  <2>. QED
    BY <2>1, <2>2, <2>3, <2>4, <2>5, Zenon
<1>2. CASE Len(es) <= MaxEntries
  <2>1. Newest(es) = es
    BY <1>2, ShellAssumption DEF Newest
  <2>2. 0 \in Nat /\ 0 <= Len(es) /\ Len(es) = Len(es) - 0 /\ \A i \in 1..Len(es) : es[i] = es[i + 0]
    OBVIOUS
  <2>. QED
    BY <2>1, <2>2
<1>. QED
  BY <1>1, <1>2, ShellAssumption

LEMMA NoticeIsResult ==
  ASSUME NEW code \in Texts
  PROVE  Notice(code) \in Results
BY DEF Notice, Results

LEMMA AnswerIsResult == Answers \subseteq Results
BY DEF Answers, Results, Inputs

LEMMA EnteredIsInput ==
  ASSUME text \in Texts, Trim(text) \notin {Empty, <<"leave">>, <<"debug">>}
  PROVE  Trim(text) \in Inputs
BY TrimIsText DEF Inputs

\* What the history is replayed to.
LEMMA HistoryIsAnswered ==
  ASSUME Disk, NEW inputs \in Seq(Inputs)
  PROVE  [i \in DOMAIN inputs |-> Ran(inputs[i])] \in Seq(Answers)
<1>1. \A i \in 1..Len(inputs) : Ran(inputs[i]) \in Answers
  BY InputIsFed DEF Disk
<1>. QED
  BY <1>1

LEMMA FrontOfHistory ==
  ASSUME NEW S, NEW h \in Seq(S), h # <<>>
  PROVE  /\ Front(h) \in Seq(S) /\ Len(Front(h)) = Len(h) - 1 /\ Last(h) \in S
         /\ \A i \in 1..Len(h) - 1 : Front(h)[i] = h[i]
<1>1. Front(h) = SubSeq(h, 1, Len(h) - 1) /\ Last(h) = h[Len(h)]
  BY DEF Front, Last
<1>2. Len(h) \in Nat \ {0}
  OBVIOUS
<1>3. Last(h) \in S
  BY <1>1, <1>2
<1> DEFINE n == Len(h) - 1
<1>4. n \in 0..Len(h)
  BY <1>2
<1>. HIDE DEF n
<1>5. SubSeq(h, 1, n) \in Seq(S)
  BY <1>2, <1>4
<1>6. Len(SubSeq(h, 1, n)) = n
  BY <1>2, <1>4
<1>7. \A i \in 1..n : SubSeq(h, 1, n)[i] = h[i]
  BY <1>2, <1>4
<1>. QED
  BY <1>1, <1>3, <1>5, <1>6, <1>7 DEF n

LEMMA ReplayedRun ==
  ASSUME Inv, Rewind
  PROVE  \E ran \in Seq(Answers) :
           /\ ran = [i \in DOMAIN history' |-> Ran(history'[i])]
           /\ session' = ran /\ entries' = Newest(ran)
           /\ LinesOf(ran) \in Nat /\ AppendLines(LinesOf(ran))
<1>1. history' \in Seq(Inputs)
  BY FrontOfHistory DEF Rewind, Inv, LineShape
<1> DEFINE ran == [i \in DOMAIN history' |-> Ran(history'[i])]
<1>2. ran \in Seq(Answers)
  BY <1>1, HistoryIsAnswered DEF Inv
<1>3. session' = ran /\ entries' = Newest(ran) /\ AppendLines(LinesOf(ran))
  BY Zenon DEF Rewind, Replay
<1>4. LinesOf(ran) \in Nat
  <2>. HIDE DEF ran
  <2>. QED
    BY <1>2, RunsMakeLines
<1>. QED
  BY <1>2, <1>3, <1>4, Zenon

LEMMA PaneStep ==
  ASSUME Inv, [Next]_vars
  PROVE  PaneInv'
<1>. USE DEF Inv
<1>1. CASE UNCHANGED paneVars
  BY <1>1 DEF paneVars, PaneInv, PaneTypeOK, OnALine, WholePage, MaxOffset, PaneHeight
<1>2. CASE Enter
  <2>1. EnterInput(Trim(text)) \/ UNCHANGED paneVars
    BY <1>2 DEF Enter, EnterBlank, EnterLeave, EnterDebug
  <2>2. ASSUME EnterInput(Trim(text)) PROVE PaneInv'
    BY <2>2, RunMakesLines, LinesAreKept DEF EnterInput
  <2>. QED
    BY <1>1, <2>1, <2>2
<1>3. CASE Rewind
  BY <1>3, ReplayedRun, LinesAreKept DEF Rewind
<1>4. CASE ScrollPane
  <2>1. PaneHeight \in Int /\ -PaneHeight \in Int
    BY PaneHasRows DEF PaneInv
  <2>. QED
    BY <1>4, <2>1, ScrollKeepsThePane DEF ScrollPane
<1>5. CASE ResizeWindow
  BY <1>5, ResizeKeepsThePane DEF ResizeWindow
<1>6. CASE Up \/ Down \/ Complete \/ RewindFails \/ CtrlC \/ CtrlD \/ Type \/ Edit
  BY <1>1, <1>6 DEF Up, Down, Recall, Complete, RewindFails, CtrlC, CtrlD, Type, Edit
<1>7. CASE UNCHANGED vars
  BY <1>1, <1>7 DEF vars
<1>. QED
  BY <1>2, <1>3, <1>4, <1>5, <1>6, <1>7 DEF Next

LEMMA ModeStep ==
  ASSUME Inv, [Next]_vars
  PROVE  ModeShape' /\ Disk'
<1>. USE DEF Inv, ModeShape, Disk
<1>1. CASE UNCHANGED <<modeVars, disk>>
  BY <1>1 DEF modeVars
<1>2. CASE Enter
  <2>1. UNCHANGED disk
    BY <1>2 DEF Enter
  <2>2. CASE UNCHANGED modeVars
    BY <1>1, <2>1, <2>2
  <2>3. CASE EnterLeave(Trim(text))
    <3>1. quitting' = TRUE /\ UNCHANGED <<debug, otel>>
      BY <2>3 DEF EnterLeave
    <3>. QED
      BY <2>1, <3>1
  <2>4. CASE EnterDebug(Trim(text))
    <3>1. debug' = (~otel /\ ~debug) /\ UNCHANGED <<otel, quitting>>
      BY <2>4, Zenon DEF EnterDebug
    <3>. QED
      BY <2>1, <3>1, Zenon
  <2>. QED
    BY <1>2, <2>2, <2>3, <2>4 DEF Enter, EnterBlank, EnterInput
<1>3. CASE CtrlC \/ CtrlD
  <2>1. quitting' = TRUE /\ UNCHANGED <<debug, otel, disk>>
    BY <1>3 DEF CtrlC, CtrlD
  <2>. QED
    BY <2>1
<1>4. CASE Edit
  <2>1. UNCHANGED modeVars
    BY <1>4 DEF Edit
  <2>2. Disk'
    BY <1>4 DEF Edit
  <2>. QED
    BY <2>1, <2>2 DEF modeVars
<1>5. CASE Up \/ Down \/ Complete \/ Rewind \/ RewindFails \/ ScrollPane \/ ResizeWindow \/ Type
  BY <1>1, <1>5 DEF Up, Down, Recall, Complete, Rewind, RewindFails, ScrollPane, ResizeWindow, Type
<1>6. CASE UNCHANGED vars
  BY <1>1, <1>6 DEF vars
<1>. QED
  BY <1>2, <1>3, <1>4, <1>5, <1>6 DEF Next

LEMMA RunStep ==
  ASSUME Inv, [Next]_vars
  PROVE  RunShape'
<1>. USE DEF Inv, RunShape
<1>1. CASE UNCHANGED runVars
  BY <1>1 DEF runVars
<1>2. ASSUME NEW e \in Results, entries' = Newest(Append(entries, e)), UNCHANGED session
      PROVE  RunShape'
  <2>1. Append(entries, e) \in Seq(Results)
    OBVIOUS
  <2>. QED
    BY <1>2, <2>1, NewestAre
<1>3. CASE Enter
  <2>1. CASE UNCHANGED runVars
    BY <1>1, <2>1
  <2>2. CASE EnterDebug(Trim(text))
    <3>1. Notice(Trim(text)) \in Results
      BY TrimIsText, NoticeIsResult DEF LineShape
    <3>. QED
      BY <2>2, <3>1 DEF EnterDebug
  <2>3. CASE EnterInput(Trim(text))
    <3>1. Trim(text) \in Inputs
      BY <2>3, EnteredIsInput DEF EnterInput, LineShape
    <3>2. Ran(Trim(text)) \in Answers
      BY <3>1, InputIsFed DEF Disk
    <3>3. Append(entries, Ran(Trim(text))) \in Seq(Results)
      BY <3>2, AnswerIsResult
    <3>4. entries' \in Seq(Results)
      BY <2>3, <3>3, NewestAre DEF EnterInput
    <3>5. session' \in Seq(Answers)
      BY <2>3, <3>2 DEF EnterInput
    <3>. QED
      BY <3>4, <3>5
  <2>. QED
    BY <1>3, <2>1, <2>2, <2>3 DEF Enter, EnterBlank, EnterLeave
<1>4. CASE Complete
  <2>1. Notice(text) \in Results
    BY NoticeIsResult DEF LineShape
  <2>2. \/ UNCHANGED <<entries, session>>
        \/ entries' = Newest(Append(entries, Notice(text))) /\ UNCHANGED session
    BY <1>4 DEF Complete
  <2>. QED
    BY <1>2, <2>1, <2>2
<1>5. CASE Rewind
  <2>1. PICK ran \in Seq(Answers) : session' = ran /\ entries' = Newest(ran)
    BY <1>5, ReplayedRun
  <2>2. ran \in Seq(Results)
    BY AnswerIsResult
  <2>. QED
    BY <2>1, <2>2, NewestAre
<1>6. CASE Up \/ Down \/ RewindFails \/ ScrollPane \/ ResizeWindow \/ CtrlC \/ CtrlD \/ Type \/ Edit
  BY <1>1, <1>6 DEF Up, Down, Recall, RewindFails, ScrollPane, ResizeWindow, CtrlC, CtrlD, Type, Edit
<1>7. CASE UNCHANGED vars
  BY <1>1, <1>7 DEF vars
<1>. QED
  BY <1>3, <1>4, <1>5, <1>6, <1>7 DEF Next

LEMMA ExecuteParts ==
  ASSUME NEW t \in Texts, t # Empty, t[1] = "execute"
  PROVE  t[2] \in Seq(Names) /\ t[3] \in Names /\ t = <<"execute", t[2], t[3]>>
<1>1. PICK d \in Seq(Seq(STRING)), b \in Seq(STRING) : t = <<"execute", d, b>>
  BY KindsOfText DEF Empty
<1>. QED
  BY <1>1 DEF Names

LEMMA LineStep ==
  ASSUME Inv, [Next]_vars
  PROVE  LineShape'
<1>. USE DEF Inv, LineShape
<1>0. Empty \in Texts /\ Len(history) \in Nat /\ MaxHistory(otel) \in Nat /\ Inputs \subseteq Texts
  BY ShellAssumption DEF Texts, Inputs, ModeShape
<1>1. CASE UNCHANGED <<editVars, history, otel>>
  BY <1>1 DEF editVars
<1>2. CASE Enter
  <2>1. text' = Empty /\ pending' = Empty /\ draft' = <<>>
    BY <1>2 DEF Enter
  <2>2. CASE UNCHANGED history /\ idx' = Len(history) /\ UNCHANGED otel
    BY <1>0, <2>1, <2>2
  <2>3. CASE EnterInput(Trim(text))
    <3>1. Trim(text) \in Inputs
      BY <2>3, EnteredIsInput DEF EnterInput
    <3>2. /\ history' = Append(history, Trim(text)) /\ idx' = Len(history')
          /\ Len(history) < MaxHistory(otel) /\ otel' = otel
      BY <2>3 DEF EnterInput, modeVars
    <3>3. history' \in Seq(Inputs) /\ Len(history') = Len(history) + 1
      BY <3>1, <3>2
    <3>. QED
      BY <1>0, <2>1, <3>2, <3>3
  <2>. QED
    BY <1>2, <2>2, <2>3 DEF Enter, EnterBlank, EnterLeave, EnterDebug, runVars, modeVars
<1>3. CASE Up
  <2>1. Max({idx - 1, 0}) = IF idx - 1 >= 0 THEN idx - 1 ELSE 0
    BY MaxOfTwo
  <2>2. history # <<>> /\ idx' = Max({idx - 1, 0}) /\ UNCHANGED <<history, otel>>
    BY <1>3 DEF Up, Recall, runVars, modeVars
  <2>3. idx' \in 0..Len(history) - 1
    BY <1>0, <2>1, <2>2
  <2>4. /\ pending' = IF idx = Len(history) THEN text ELSE pending
        /\ draft' = IF idx = Len(history) THEN <<text>> ELSE draft
        /\ text' = history[idx' + 1]
    BY <1>0, <1>3, <2>2, <2>3 DEF Up, Recall
  <2>5. text' \in Inputs
    BY <1>0, <2>3, <2>4
  <2>6. pending' \in Texts /\ draft' \in {<<>>, <<pending'>>}
    BY <2>4
  <2>. QED
    BY <1>0, <2>2, <2>3, <2>5, <2>6
<1>4. CASE Down
  <2>1. Min({idx + 1, Len(history)}) = IF idx + 1 <= Len(history) THEN idx + 1 ELSE Len(history)
    BY <1>0, MinOfTwo
  <2>2. /\ idx' = Min({idx + 1, Len(history)}) /\ UNCHANGED <<pending, history, otel>>
        /\ draft' \in {draft, <<>>}
        /\ text' = IF idx' = Len(history) THEN pending ELSE history[idx' + 1]
    BY <1>4 DEF Down, Recall, runVars, modeVars
  <2>3. idx' \in 0..Len(history)
    BY <1>0, <2>1, <2>2
  <2>4. text' \in Texts
    BY <1>0, <2>2, <2>3
  <2>. QED
    BY <1>0, <2>2, <2>3, <2>4
<1>5. CASE Complete
  <2>1. UNCHANGED <<idx, pending, draft, history, otel>>
    BY <1>5 DEF Complete, modeVars
  <2>2. text' \in Texts
    <3>1. CASE UNCHANGED text
      BY <3>1
    <3>2. CASE /\ text # Empty /\ text[1] = "execute" /\ Matches(text[2], text[3]) # {}
               /\ text' = Path(text[2], CommonPrefix(Matches(text[2], text[3])))
      BY <3>2, ExecuteParts, CompletedTo, PathIsText
    <3>. QED
      BY <1>5, <3>1, <3>2 DEF Complete
  <2>. QED
    BY <2>1, <2>2
<1>6. CASE Rewind
  <2>1. /\ history # <<>> /\ history' = Front(history) /\ idx' = Len(history')
        /\ pending' = Empty /\ draft' = <<>> /\ text' = Last(history) /\ otel' = otel
    BY <1>6 DEF Rewind, modeVars
  <2>2. history' \in Seq(Inputs) /\ Len(history') = Len(history) - 1 /\ text' \in Inputs
    BY <2>1, FrontOfHistory
  <2>. QED
    BY <1>0, <2>1, <2>2
<1>7. CASE RewindFails
  <2>1. Len(history) - 1 \in 0..Len(history)
    BY <1>0, <1>7 DEF RewindFails
  <2>. QED
    BY <1>0, <1>7, <2>1 DEF RewindFails, runVars, modeVars
<1>8. CASE Type
  <2>1. Typed(otel, Len(history)) \subseteq Texts
    BY <1>0, ShellAssumption DEF ModeShape
  <2>. QED
    BY <1>8, <2>1 DEF Type, runVars, modeVars
<1>9. CASE ScrollPane \/ ResizeWindow \/ CtrlC \/ CtrlD \/ Edit
  BY <1>1, <1>9 DEF ScrollPane, ResizeWindow, CtrlC, CtrlD, Edit, runVars, modeVars
<1>10. CASE UNCHANGED vars
  BY <1>1, <1>10 DEF vars, runVars, modeVars
<1>. QED
  BY <1>2, <1>3, <1>4, <1>5, <1>6, <1>7, <1>8, <1>9, <1>10 DEF Next

LEMMA InvStarts ==
  ASSUME Init
  PROVE  Inv
<1>1. LineShape /\ RunShape
  BY ShellAssumption DEF Init, LineShape, RunShape, Texts
<1>2. ModeShape
  BY Zenon DEF Init, ModeShape
<1>3. Disk /\ PaneInv
  BY PaneStarts DEF Init, Disk
<1>. QED
  BY <1>1, <1>2, <1>3 DEF Inv

LEMMA InvHolds == Spec => []Inv
<1>1. Init => Inv
  BY InvStarts
<1>2. Inv /\ [Next]_vars => Inv'
  BY PaneStep, ModeStep, RunStep, LineStep DEF Inv
<1>. QED
  BY <1>1, <1>2, PTL DEF Spec

\* Whatever is typed, run, rewound, completed, scrolled or resized, every
\* variable keeps its type and the cursor stays within the history.
THEOREM ShellWellTyped == Spec => []TypeOK
<1>1. ASSUME Inv PROVE TypeOK
  <2>. USE DEF Inv
  <2>1. /\ text \in Texts /\ pending \in Texts
        /\ draft \in {<<>>} \cup {<<t>> : t \in {text, pending}}
        /\ history \in Seq(Inputs) /\ idx \in 0..Len(history)
    BY <1>1 DEF LineShape
  <2>2. \A e \in Range(entries) \cup Range(session) :
          e.code \in Texts /\ e.fed \in Code \cup {"unreadable", "usage", "notice"}
    <3>1. \A e \in Range(entries) \cup Range(session) : e \in Results
      BY <1>1, AnswerIsResult DEF RunShape, Range
    <3>. QED
      BY <3>1 DEF Results
  <2>3. {debug, otel, quitting} \subseteq BOOLEAN /\ ~(debug /\ otel)
    BY <1>1, Zenon DEF ModeShape
  <2>. QED
    BY <1>1, <2>1, <2>2, <2>3 DEF TypeOK, PaneInv, Disk
<1>. QED
  BY <1>1, InvHolds, PTL

-----------------------------------------------------------------------------
(* The pane and the frame.                                                 *)

\* After any scrolling, trimming of the log and resizing, a pane with lines
\* to show shows some (maxLogScrollOffset).
THEOREM PaneShowsLines == Spec => []PaneNeverEmpty
<1>1. Inv => PaneNeverEmpty
  BY BottomIsShown DEF Inv
<1>. QED
  BY <1>1, InvHolds, PTL

LEMMA ViewStep ==
  ASSUME Inv, [Next]_vars, size' = size, newest' > newest
  PROVE  ViewKept
<1>. USE DEF Inv
<1>1. newest \in Nat
  BY DEF PaneInv, PaneTypeOK
<1>2. newest' # newest
  BY <1>1
<1>3. ASSUME NEW n \in Nat, AppendLines(n)
      PROVE  ViewKept
  <2>1. n # 0
    BY <1>2, <1>3 DEF AppendLines, logVars
  <2>. QED
    BY <1>3, <2>1, PageIsKept
<1>4. CASE Enter
  <2>1. EnterInput(Trim(text))
    BY <1>2, <1>4 DEF Enter, EnterBlank, EnterLeave, EnterDebug, paneVars
  <2>. QED
    BY <1>3, <2>1, RunMakesLines DEF EnterInput
<1>5. CASE Rewind
  BY <1>3, <1>5, ReplayedRun
<1>6. CASE ScrollPane
  BY <1>2, <1>6 DEF ScrollPane, Scroll
<1>7. CASE ResizeWindow
  BY <1>2, <1>7 DEF ResizeWindow, Resize, logVars
<1>8. CASE Up \/ Down \/ Complete \/ RewindFails \/ CtrlC \/ CtrlD \/ Type \/ Edit
  BY <1>2, <1>8 DEF Up, Down, Recall, Complete, RewindFails, CtrlC, CtrlD, Type, Edit, paneVars
<1>9. CASE UNCHANGED vars
  BY <1>2, <1>9 DEF vars, paneVars
<1>. QED
  BY <1>4, <1>5, <1>6, <1>7, <1>8, <1>9 DEF Next

\* New telemetry leaves a pane at the tail at the tail, and one that was scrolled
\* back with the lines it showed, as long as the log keeps their page, or else
\* with the oldest page; but for one that a change of the terminal's size left
\* beyond that page, which the new lines move (appendLogLines).
THEOREM ViewStays == Spec => ViewStable
<1>1. Inv /\ [Next]_vars => [size' = size /\ newest' > newest => ViewKept]_vars
  BY ViewStep
<1>. QED
  BY <1>1, InvHolds, PTL DEF Spec, ViewStable

\* However the lines wrap, the rows that renderLogPane cuts and those it pads
\* with make a pane of its height, so that a frame with room for it fills the
\* terminal to the row (View).
THEOREM FrameFits == Spec => []FrameFillsScreen
<1>1. ASSUME Inv PROVE FrameFillsScreen
  <2>. USE DEF Inv
  <2> DEFINE fixed == IF debug THEN 1 + PaneHeight + 1 ELSE 0
  <2>1. Len(entries) \in Nat /\ DOMAIN entries = 1..Len(entries)
    BY <1>1 DEF RunShape
  <2>2. Cardinality(Printed) \in Nat
    <3>1. IsFiniteSet(Printed)
      <4>1. IsFiniteSet(1..Len(entries)) /\ Printed \in SUBSET (1..Len(entries))
        BY <2>1, FS_Interval DEF Printed
      <4>. QED
        BY <4>1, FS_Subset
    <3>. QED
      BY <3>1, FS_CardinalityType
  <2>3. TextRows \in Nat /\ TextRows > 0
    BY <2>1, <2>2 DEF TextRows
  <2>4. PaneHeight \in Nat
    BY <1>1, PaneHasRows DEF PaneInv
  <2>5. BlockRows = 1 + PaneHeight + 1
    <3>1. Cardinality(Rows) \in 0..PaneHeight
      BY <1>1, RowsFit
    <3>2. Max({PaneHeight - Cardinality(Rows), 0}) = PaneHeight - Cardinality(Rows)
      BY <2>4, <3>1, MaxOfTwo
    <3>. QED
      BY <2>4, <3>1, <3>2 DEF BlockRows
  <2>6. BlockHeight = fixed /\ fixed \in Nat
    BY <2>4, <2>5 DEF BlockHeight
  <2>7. size.height \in Nat
    BY <1>1, PaneAssumption DEF PaneInv, PaneTypeOK
  <2>. HIDE DEF fixed
  <2>8. ASSUME TextRows + fixed <= size.height
        PROVE  FrameLines = size.height
    <3>1. size.height > 0 /\ size.height - TextRows - fixed \in Nat
      BY <2>3, <2>6, <2>7, <2>8
    <3>2. Padding = size.height - TextRows - fixed
      BY <2>6, <3>1, MaxOfTwo DEF Padding
    <3>. QED
      BY <2>3, <2>6, <2>7, <3>1, <3>2 DEF FrameLines, Newlines
  <2>. QED
    BY <2>6, <2>8 DEF FrameFillsScreen, fixed
<1>. QED
  BY <1>1, InvHolds, PTL

-----------------------------------------------------------------------------
(* What the keys give back.                                                *)

\* What Up took from the fresh line is what Down puts back, however long the
\* walk and whatever was typed meanwhile (navigateHistory).
THEOREM DraftReturns == Spec => DraftComesBack
<1>1. ASSUME Inv, Down, draft # <<>>, idx' = Len(history)
      PROVE  text' = draft[1]
  <2>1. draft = <<pending>>
    BY <1>1 DEF Inv, LineShape
  <2>2. text' = pending
    BY <1>1 DEF Down, Recall
  <2>. QED
    BY <2>1, <2>2
<1>2. Inv /\ [Next]_vars =>
        [Down /\ draft # <<>> /\ idx' = Len(history) => text' = draft[1]]_vars
  BY <1>1
<1>. QED
  BY <1>2, InvHolds, PTL DEF Spec, DraftComesBack

LEMMA CompletionStep ==
  ASSUME Inv, Complete, text' # text
  PROVE  LET before == Matches(text[2], text[3])
         IN  \/ /\ text'[2] = text[2] /\ IsStrictPrefix(text[3], text'[3])
                /\ Matches(text'[2], text'[3]) = before
             \/ /\ \E name \in before : before = {name} /\ text' = Path(text[2], name)
                /\ text'[3] = <<>>
<1> DEFINE dir    == text[2]
           base   == text[3]
           before == Matches(dir, base)
           common == CommonPrefix(before)
<1>1. dir \in Seq(Names) /\ base \in Names
  BY ExecuteParts DEF Inv, LineShape, Complete
<1>2. before # {} /\ common # base /\ text' = Path(dir, common)
  BY DEF Complete
<1>3. /\ common \in Names /\ Begins(base, common)
      /\ \A name \in before : Begins(common, name)
  BY <1>1, <1>2, CompletedTo
<1>4. common # <<>>
  BY <1>1, <1>2, <1>3 DEF Begins, Names
<1>5. text' = IF common[Len(common)] = "/"
              THEN <<"execute", Append(dir, Front(common)), <<>>>>
              ELSE <<"execute", dir, common>>
  BY <1>1, <1>2, <1>3, <1>4, PathIsText
<1>. HIDE DEF dir, base, common
<1>6. CASE common[Len(common)] = "/"
  <2>1. dir \in DOMAIN Listing /\ before \subseteq Listing[dir]
    BY <1>2 DEF Matches
  <2>2. \A name \in before : name = common
    BY <1>3, <1>4, <1>6, <2>1, DirectoryIsAlone
  <2>3. before = {common}
    BY <1>2, <2>2
  <2>4. text'[3] = <<>>
    BY <1>5, <1>6
  <2>. QED
    BY <1>2, <2>3, <2>4 DEF dir, base
<1>7. CASE common[Len(common)] # "/"
  <2>1. text'[2] = dir /\ text'[3] = common
    BY <1>5, <1>7
  <2>2. IsStrictPrefix(base, common)
    BY <1>1, <1>2, <1>3, PrefixBegins DEF IsStrictPrefix
  <2>3. Matches(dir, common) = before
    BY <1>1, <1>2, <1>3, SameCandidates
  <2>. QED
    BY <2>1, <2>2, <2>3 DEF dir, base
<1>. QED
  BY <1>6, <1>7

\* Tab goes on as far as all candidates agree and loses none of them, or
\* completes the only one (completePath, commonPrefix).
THEOREM CompletionLosesNone == Spec => CompletionKeepsCandidates
<1>1. Inv /\ [Next]_vars =>
        [Complete /\ text' # text =>
           LET before == Matches(text[2], text[3])
           IN  \/ /\ text'[2] = text[2] /\ IsStrictPrefix(text[3], text'[3])
                  /\ Matches(text'[2], text'[3]) = before
               \/ /\ \E name \in before : before = {name} /\ text' = Path(text[2], name)
                  /\ text'[3] = <<>>]_vars
  BY CompletionStep
<1>. QED
  BY <1>1, InvHolds, PTL DEF Spec, CompletionKeepsCandidates

-----------------------------------------------------------------------------
(* The transcript, the session and the history.                            *)

LEMMA SameCodes ==
  ASSUME NEW ss \in Seq(Answers), NEW h \in Seq(Inputs)
  PROVE  [i \in DOMAIN ss |-> ss[i].code] = h <=> /\ Len(ss) = Len(h)
                                                  /\ \A i \in 1..Len(h) : ss[i].code = h[i]
<1> DEFINE codes == [i \in DOMAIN ss |-> ss[i].code]
<1>1. \A i \in 1..Len(ss) : ss[i].code \in Inputs
  <2>1. \A i \in 1..Len(ss) : ss[i] \in Answers
    OBVIOUS
  <2>. QED
    BY <2>1 DEF Answers
<1>2. codes \in Seq(Inputs) /\ Len(codes) = Len(ss) /\ \A i \in 1..Len(ss) : codes[i] = ss[i].code
  BY <1>1
<1>. HIDE DEF codes
<1>3. codes = h <=> Len(codes) = Len(h) /\ \A i \in 1..Len(h) : codes[i] = h[i]
  BY <1>2
<1>4. codes = h <=> Len(ss) = Len(h) /\ \A i \in 1..Len(h) : ss[i].code = h[i]
  BY <1>2, <1>3
<1>. QED
  BY <1>4 DEF codes

LEMMA SessionStep ==
  ASSUME Inv, Inv', SessionIsHistory, [Next]_vars
  PROVE  SessionIsHistory'
<1>1. /\ Len(session) = Len(history)
      /\ \A i \in 1..Len(history) : session[i].code = history[i]
  BY SameCodes DEF Inv, LineShape, RunShape, SessionIsHistory
<1>2. /\ history \in Seq(Inputs) /\ session \in Seq(Answers)
      /\ history' \in Seq(Inputs) /\ session' \in Seq(Answers)
  BY DEF Inv, LineShape, RunShape
<1>. SUFFICES /\ Len(session') = Len(history')
              /\ \A i \in 1..Len(history') : session'[i].code = history'[i]
  BY <1>2, SameCodes DEF SessionIsHistory
<1>3. CASE UNCHANGED <<history, session>>
  BY <1>1, <1>3
<1>4. CASE Enter
  <2>1. CASE EnterInput(Trim(text))
    <3>1. /\ session' = Append(session, Ran(Trim(text))) /\ history' = Append(history, Trim(text))
          /\ Ran(Trim(text)).code = Trim(text)
      BY <2>1 DEF EnterInput, Ran
    <3>2. Trim(text) \in Inputs /\ Ran(Trim(text)) \in Answers
      BY <2>1, EnteredIsInput, InputIsFed DEF EnterInput, Inv, LineShape, Disk
    <3>. QED
      BY <1>1, <1>2, <3>1, <3>2
  <2>. QED
    BY <1>3, <1>4, <2>1 DEF Enter, EnterBlank, EnterLeave, EnterDebug, runVars
<1>5. CASE Rewind
  <2>1. session' = [i \in DOMAIN history' |-> Ran(history'[i])]
    BY <1>5, ReplayedRun
  <2>. QED
    BY <1>2, <2>1 DEF Ran
<1>6. CASE Up \/ Down \/ Complete \/ RewindFails \/ ScrollPane \/ ResizeWindow \/ CtrlC \/ CtrlD
           \/ Type \/ Edit
  BY <1>3, <1>6 DEF Up, Down, Recall, Complete, RewindFails, ScrollPane, ResizeWindow, CtrlC, CtrlD,
                    Type, Edit, runVars
<1>7. CASE UNCHANGED vars
  BY <1>3, <1>7 DEF vars, runVars
<1>. QED
  BY <1>4, <1>5, <1>6, <1>7 DEF Next

\* The Repl that takes the next input has run the history, all of it, in its
\* order and nothing else, whatever was rewound (rewind).
THEOREM ReplRanHistory == Spec => []SessionIsHistory
<1>1. Init => SessionIsHistory
  <2>1. ASSUME Init PROVE SessionIsHistory
    <3>1. session = <<>> /\ history = <<>>
      BY <2>1 DEF Init
    <3>2. RunShape /\ LineShape
      BY <2>1, InvStarts DEF Inv
    <3>. QED
      BY <3>1, <3>2, SameCodes DEF SessionIsHistory, RunShape, LineShape
  <2>. QED
    BY <2>1
<1>2. Inv /\ Inv' /\ SessionIsHistory /\ [Next]_vars => SessionIsHistory'
  BY SessionStep
<1>. QED
  BY <1>1, <1>2, InvHolds, PTL DEF Spec

\* The transcript es is in step with what the Repl ss answered.
InStep(es, ss) ==
  \A i \in DOMAIN es : ~IsNotice(es[i]) =>
    /\ Len(ss) - Cardinality(AnswersAfter(es, i)) \in DOMAIN ss
    /\ es[i] = ss[Len(ss) - Cardinality(AnswersAfter(es, i))]

LEMMA AnswersAreCounted ==
  ASSUME NEW es \in Seq(Results), NEW i \in DOMAIN es
  PROVE  /\ IsFiniteSet(AnswersAfter(es, i)) /\ Cardinality(AnswersAfter(es, i)) \in Nat
         /\ AnswersAfter(es, i) \in SUBSET (1..Len(es))
<1>1. Len(es) \in Nat /\ DOMAIN es = 1..Len(es)
  OBVIOUS
<1>2. IsFiniteSet(1..Len(es))
  BY <1>1, FS_Interval
<1>3. AnswersAfter(es, i) \in SUBSET (1..Len(es))
  BY <1>1 DEF AnswersAfter
<1>. QED
  BY <1>2, <1>3, FS_Subset, FS_CardinalityType

\* Dropping the oldest entries does not move the rest.
LEMMA NewestInStep ==
  ASSUME NEW es \in Seq(Results), NEW ss \in Seq(Answers), InStep(es, ss)
  PROVE  InStep(Newest(es), ss)
<1>1. PICK d \in Nat :
        /\ d <= Len(es) /\ Newest(es) \in Seq(Results) /\ Len(Newest(es)) = Len(es) - d
        /\ \A i \in 1..Len(Newest(es)) : Newest(es)[i] = es[i + d]
  BY NewestAre
<1> DEFINE ns == Newest(es)
<1>. HIDE DEF ns
<1>2. ns \in Seq(Results) /\ Len(ns) = Len(es) - d /\ \A i \in 1..Len(ns) : ns[i] = es[i + d]
  BY <1>1 DEF ns
<1>5. /\ Len(es) \in Nat /\ DOMAIN es = 1..Len(es) /\ DOMAIN ns = 1..Len(es) - d
      /\ d \in 0..Len(es)
  BY <1>1, <1>2
<1>6. \A i \in 1..Len(es) - d : ns[i] = es[i + d]
  BY <1>2
<1>3. ASSUME NEW i \in DOMAIN ns
      PROVE  Cardinality(AnswersAfter(ns, i)) = Cardinality(AnswersAfter(es, i + d))
  <2> DEFINE S     == AnswersAfter(ns, i)
             T     == AnswersAfter(es, i + d)
             shift == [j \in S |-> j + d]
  <2>1. \A j \in S : j + d \in T
    BY <1>5, <1>6 DEF AnswersAfter
  <2>2. \A k \in T : k - d \in S /\ (k - d) + d = k
    <3>. SUFFICES ASSUME NEW k \in T
                  PROVE  k - d \in S /\ (k - d) + d = k
      OBVIOUS
    <3>1. k \in 1..Len(es) /\ k > i + d /\ ~IsNotice(es[k])
      BY <1>5 DEF AnswersAfter
    <3>2. k - d \in 1..Len(es) - d /\ k - d > i /\ (k - d) + d = k
      BY <1>5, <3>1
    <3>3. ns[k - d] = es[k]
      BY <1>6, <3>2
    <3>. QED
      BY <1>5, <3>1, <3>2, <3>3 DEF AnswersAfter
  <2>3. S \subseteq Nat
    BY <1>2 DEF AnswersAfter
  <2>4. IsFiniteSet(S)
    BY <1>2, AnswersAreCounted
  <2>. HIDE DEF S, T
  <2>5. shift \in Bijection(S, T)
    <3>1. shift \in [S -> T]
      BY <2>1
    <3>2. \A j, k \in S : shift[j] = shift[k] => j = k
      BY <2>3
    <3>3. \A k \in T : \E j \in S : shift[j] = k
      BY <2>2
    <3>. HIDE DEF shift
    <3>. QED
      BY <3>1, <3>2, <3>3 DEF Bijection, Injection, Surjection, IsInjective
  <2>. QED
    BY <2>4, <2>5, FS_Bijection DEF ExistsBijection, S, T
<1>4. ASSUME NEW i \in DOMAIN ns
      PROVE  i + d \in DOMAIN es /\ ns[i] = es[i + d]
  BY <1>5, <1>6
<1>. QED
  BY <1>2, <1>3, <1>4 DEF InStep, ns

LEMMA NoticeInStep ==
  ASSUME NEW es \in Seq(Results), NEW ss \in Seq(Answers), InStep(es, ss),
         NEW e \in Results, IsNotice(e)
  PROVE  InStep(Append(es, e), ss)
<1> DEFINE ns == Append(es, e)
<1>1. /\ ns \in Seq(Results) /\ Len(ns) = Len(es) + 1 /\ ns[Len(es) + 1] = e
      /\ \A i \in 1..Len(es) : ns[i] = es[i]
  OBVIOUS
<1>. HIDE DEF ns
<1>2. ASSUME NEW i \in DOMAIN es
      PROVE  AnswersAfter(ns, i) = AnswersAfter(es, i)
  BY <1>1 DEF AnswersAfter
<1>3. \A i \in DOMAIN ns : ~IsNotice(ns[i]) => i \in DOMAIN es /\ ns[i] = es[i]
  BY <1>1
<1>. QED
  BY <1>2, <1>3 DEF InStep, ns

LEMMA AnswerInStep ==
  ASSUME NEW es \in Seq(Results), NEW ss \in Seq(Answers), InStep(es, ss),
         NEW e \in Answers
  PROVE  InStep(Append(es, e), Append(ss, e))
<1> DEFINE ns == Append(es, e)
           ts == Append(ss, e)
           n  == Len(es)
<1>0. e \in Results
  BY AnswerIsResult
<1>1. /\ ns \in Seq(Results) /\ Len(ns) = n + 1 /\ ns[n + 1] = e
      /\ \A i \in 1..n : ns[i] = es[i]
  BY <1>0
<1>2. /\ ts \in Seq(Answers) /\ Len(ts) = Len(ss) + 1 /\ ts[Len(ss) + 1] = e
      /\ \A i \in 1..Len(ss) : ts[i] = ss[i]
  OBVIOUS
<1>3. n \in Nat /\ Len(ss) \in Nat /\ DOMAIN es = 1..n
  OBVIOUS
<1>4. ~IsNotice(e)
  BY ShellAssumption DEF IsNotice, Answers
<1>. HIDE DEF ns, ts, n
<1>5. ASSUME NEW i \in DOMAIN es
      PROVE  Cardinality(AnswersAfter(ns, i)) = Cardinality(AnswersAfter(es, i)) + 1
  <2>1. AnswersAfter(ns, i) = AnswersAfter(es, i) \cup {n + 1}
    BY <1>1, <1>3, <1>4 DEF AnswersAfter
  <2>2. n + 1 \notin AnswersAfter(es, i)
    BY <1>3 DEF AnswersAfter
  <2>. QED
    BY <2>1, <2>2, AnswersAreCounted, FS_AddElement
<1>6. Cardinality(AnswersAfter(ns, n + 1)) = 0
  <2>1. AnswersAfter(ns, n + 1) = {}
    BY <1>1, <1>3 DEF AnswersAfter
  <2>. QED
    BY <2>1, FS_EmptySet
<1>7. ASSUME NEW i \in DOMAIN ns, ~IsNotice(ns[i])
      PROVE  /\ Len(ts) - Cardinality(AnswersAfter(ns, i)) \in DOMAIN ts
             /\ ns[i] = ts[Len(ts) - Cardinality(AnswersAfter(ns, i))]
  <2>1. CASE i = n + 1
    BY <1>1, <1>2, <1>3, <1>6, <2>1
  <2>2. CASE i \in DOMAIN es
    <3>1. Cardinality(AnswersAfter(es, i)) \in Nat
      BY <2>2, AnswersAreCounted
    <3>2. Len(ts) - Cardinality(AnswersAfter(ns, i)) = Len(ss) - Cardinality(AnswersAfter(es, i))
      BY <1>2, <1>3, <1>5, <2>2, <3>1
    <3>3. /\ Len(ss) - Cardinality(AnswersAfter(es, i)) \in DOMAIN ss
          /\ es[i] = ss[Len(ss) - Cardinality(AnswersAfter(es, i))]
      BY <1>1, <1>3, <1>7, <2>2 DEF InStep
    <3>. QED
      BY <1>1, <1>2, <1>3, <2>2, <3>2, <3>3
  <2>. QED
    BY <1>1, <1>3, <2>1, <2>2
<1>. QED
  BY <1>7 DEF InStep, ns, ts

LEMMA AllInStep ==
  ASSUME NEW es \in Seq(Answers)
  PROVE  InStep(es, es)
<1>1. ASSUME NEW i \in DOMAIN es
      PROVE  Len(es) - Cardinality(AnswersAfter(es, i)) = i
  <2>1. \A j \in DOMAIN es : ~IsNotice(es[j])
    <3>1. \A j \in DOMAIN es : es[j] \in Answers
      OBVIOUS
    <3>2. \A e \in Answers : ~IsNotice(e)
      BY ShellAssumption DEF IsNotice, Answers
    <3>. QED
      BY <3>1, <3>2
  <2>2. AnswersAfter(es, i) = (i + 1)..Len(es)
    BY <2>1 DEF AnswersAfter
  <2>3. i \in 1..Len(es) /\ Len(es) \in Nat
    OBVIOUS
  <2>4. Cardinality((i + 1)..Len(es)) = Len(es) - i
    BY <2>3, FS_Interval
  <2>. QED
    BY <2>2, <2>3, <2>4
<1>. QED
  BY <1>1 DEF InStep

LEMMA TranscriptStep ==
  ASSUME Inv, TranscriptIsTail, [Next]_vars
  PROVE  TranscriptIsTail'
<1>0. entries \in Seq(Results) /\ session \in Seq(Answers) /\ InStep(entries, session)
  BY DEF Inv, RunShape, TranscriptIsTail, InStep
<1>. SUFFICES InStep(entries', session')
  BY DEF TranscriptIsTail, InStep
<1>1. CASE UNCHANGED runVars
  BY <1>0, <1>1 DEF runVars
<1>2. ASSUME NEW t \in Texts
      PROVE  /\ InStep(Append(entries, Notice(t)), session)
             /\ Append(entries, Notice(t)) \in Seq(Results)
  <2>1. Notice(t) \in Results /\ IsNotice(Notice(t))
    BY NoticeIsResult DEF Notice, IsNotice
  <2>. QED
    BY <1>0, <2>1, NoticeInStep
<1>3. CASE Enter
  <2>1. CASE EnterDebug(Trim(text))
    <3>1. Trim(text) \in Texts
      BY TrimIsText DEF Inv, LineShape
    <3>. QED
      BY <1>2, <2>1, <3>1 DEF EnterDebug
  <2>2. CASE EnterInput(Trim(text))
    <3>1. Ran(Trim(text)) \in Answers
      BY <2>2, EnteredIsInput, InputIsFed DEF EnterInput, Inv, LineShape, Disk
    <3>2. InStep(Append(entries, Ran(Trim(text))), Append(session, Ran(Trim(text))))
      BY <1>0, <3>1, AnswerInStep
    <3>3. /\ Append(entries, Ran(Trim(text))) \in Seq(Results)
          /\ Append(session, Ran(Trim(text))) \in Seq(Answers)
      BY <1>0, <3>1, AnswerIsResult
    <3>. QED
      BY <2>2, <3>2, <3>3, NewestInStep DEF EnterInput
  <2>. QED
    BY <1>1, <1>3, <2>1, <2>2 DEF Enter, EnterBlank, EnterLeave
<1>4. CASE Complete
  <2>1. \/ UNCHANGED <<entries, session>>
        \/ entries' = Newest(Append(entries, Notice(text))) /\ UNCHANGED session
    BY <1>4 DEF Complete
  <2>2. text \in Texts
    BY DEF Inv, LineShape
  <2>. QED
    BY <1>0, <1>2, <2>1, <2>2, NewestInStep
<1>5. CASE Rewind
  <2>1. PICK ran \in Seq(Answers) : session' = ran /\ entries' = Newest(ran)
    BY <1>5, ReplayedRun
  <2>2. ran \in Seq(Results) /\ InStep(ran, ran)
    BY AnswerIsResult, AllInStep
  <2>. QED
    BY <2>1, <2>2, NewestInStep
<1>6. CASE Up \/ Down \/ RewindFails \/ ScrollPane \/ ResizeWindow \/ CtrlC \/ CtrlD \/ Type \/ Edit
  BY <1>1, <1>6 DEF Up, Down, Recall, RewindFails, ScrollPane, ResizeWindow, CtrlC, CtrlD, Type, Edit
<1>7. CASE UNCHANGED vars
  BY <1>1, <1>7 DEF vars
<1>. QED
  BY <1>3, <1>4, <1>5, <1>6, <1>7 DEF Next

\* The answers on the screen are the Repl's own latest ones, in its order: none
\* is from before a rewind (rewind, maxHistoryEntries).
THEOREM TranscriptIsTheRepls == Spec => []TranscriptIsTail
<1>1. Init => TranscriptIsTail
  BY DEF Init, TranscriptIsTail
<1>2. Inv /\ TranscriptIsTail /\ [Next]_vars => TranscriptIsTail'
  BY TranscriptStep
<1>. QED
  BY <1>1, <1>2, InvHolds, PTL DEF Spec
=============================================================================
