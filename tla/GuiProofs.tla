----------------------------- MODULE GuiProofs -----------------------------
(***************************************************************************)
(* Proofs about module Gui, for screens, windows and pointers of any size  *)
(* and any characters.                                                     *)
(***************************************************************************)
EXTENDS Gui, TLAPS

(***************************************************************************)
(* A list of windows: at most the two there are, each at most once.        *)
(***************************************************************************)
IsList(ws) ==
    /\ ws \in Seq(Wins)
    /\ Len(ws) <= 2
    /\ Len(ws) = 2 => ws[1] # ws[2]

GTypeOK ==
    /\ IsList(windows)
    /\ wx \in [Wins -> Int]
    /\ focus \in Wins \cup {NoWin} /\ drag_win \in Wins \cup {NoWin} /\ drag_off \in Int
    /\ buttons \in BOOLEAN /\ last_buttons \in BOOLEAN
    /\ packet \in Seq(0..255) /\ Len(packet) <= 2
    /\ cur_x \in Screen
    /\ screen_buf \in [0..(cols - 1) -> Glyphs \cup {Blank}] /\ cursor_x \in 0..(cols - 1)
    /\ counter_value \in Nat
    /\ overdrawn \in BOOLEAN

(***************************************************************************)
(* The terminal's text is drawn inside its window, and the canvas has a    *)
(* cell for every place of the screen.                                     *)
(***************************************************************************)
RegionOK == region_x = wx["term"] + 1
CanvasOK == canvas = [p \in Screen |-> canvas[p]]

Widths ==
    /\ ScreenWidth \in Nat /\ WindowWidth \in Nat /\ CUR_W \in Nat /\ MaxCount \in Nat
    /\ CUR_W > 0 /\ ScreenWidth > CUR_W /\ WindowWidth > 2

LEMMA WidthsHold == Widths
  BY GuiAssumption DEF GuiAssumption, Widths

-----------------------------------------------------------------------------
(***************************************************************************)
(* A list of windows, as the provers need to see it.                       *)
(***************************************************************************)
LEMMA ListFacts ==
    ASSUME NEW ws, IsList(ws)
    PROVE  /\ ws \in Seq(Wins) /\ Len(ws) \in 0..2 /\ DOMAIN ws = 1..Len(ws)
           /\ \A i \in 1..Len(ws) : ws[i] \in Wins
           /\ Len(ws) = 2 => ws[1] # ws[2]
<1>1. ws \in Seq(Wins) /\ Len(ws) \in Nat /\ Len(ws) <= 2 /\ (Len(ws) = 2 => ws[1] # ws[2])
  BY DEF IsList
<1>2. DOMAIN ws = 1..Len(ws)
  BY <1>1
<1>3. \A i \in 1..Len(ws) : ws[i] \in Wins
  BY <1>1
<1>4. Len(ws) \in 0..2
  <2>1. \A n \in Nat : n <= 2 => n \in 0..2
    OBVIOUS
  <2> QED BY ONLY <1>1, <2>1
<1> QED BY <1>1, <1>2, <1>3, <1>4

(***************************************************************************)
(* Taking a window off the list leaves a list without it, and putting it   *)
(* on top makes one that ends with it.                                     *)
(***************************************************************************)
LEMMA RemoveOne ==
    ASSUME NEW ws, IsList(ws), NEW i \in DOMAIN ws
    PROVE  /\ RemoveFirst(ws, ws[i]) \in Seq(Wins)
           /\ Len(RemoveFirst(ws, ws[i])) = Len(ws) - 1
           /\ Len(ws) = 2 => RemoveFirst(ws, ws[i])[1] = ws[3 - i]
<1> DEFINE I == {j \in 1..Len(ws) : ws[j] = ws[i]}
<1>0. /\ ws \in Seq(Wins) /\ Len(ws) \in Nat /\ DOMAIN ws = 1..Len(ws) /\ Len(ws) <= 2
      /\ Len(ws) = 2 => ws[1] # ws[2]
  BY ListFacts
<1>1. I = {i} /\ i \in 1..2 /\ Len(ws) \in 1..2
  <2>1. i \in 1..2 /\ Len(ws) \in 1..2
    BY <1>0
  <2>2. \A j \in 1..Len(ws) : ws[j] = ws[i] => j = i
    BY <1>0, <2>1
  <2> QED BY <1>0, <2>1, <2>2
<1>2. SelectInSeq(ws, LAMBDA v : v = ws[i]) = i
  <2>1. Min(I) = i
    BY <1>1 DEF Min
  <2> QED BY <1>1, <2>1 DEF SelectInSeq
<1>3. RemoveFirst(ws, ws[i]) = SubSeq(ws, 1, i - 1) \o SubSeq(ws, i + 1, Len(ws))
  BY <1>1, <1>2 DEF RemoveFirst, RemoveAt
<1>4. /\ SubSeq(ws, 1, i - 1) \in Seq(Wins) /\ Len(SubSeq(ws, 1, i - 1)) = i - 1
      /\ SubSeq(ws, i + 1, Len(ws)) \in Seq(Wins)
      /\ Len(SubSeq(ws, i + 1, Len(ws))) = Len(ws) - i
  BY <1>0, <1>1
<1>5. ASSUME Len(ws) = 2
      PROVE  RemoveFirst(ws, ws[i])[1] = ws[3 - i]
  <2>1. CASE i = 1
    BY <1>0, <1>3, <1>4, <1>5, <2>1
  <2>2. CASE i = 2
    BY <1>0, <1>3, <1>4, <1>5, <2>2
  <2> QED BY <1>1, <2>1, <2>2
<1>6. RemoveFirst(ws, ws[i]) \in Seq(Wins)
  BY <1>3, <1>4
<1>7. Len(RemoveFirst(ws, ws[i])) = Len(ws) - 1
  BY <1>0, <1>1, <1>3, <1>4
<1> QED BY <1>5, <1>6, <1>7

LEMMA WithoutList ==
    ASSUME IsList(windows), NEW w \in ToSet(windows)
    PROVE  /\ IsList(Without(w))
           /\ Without(w) # << >> => Last(Without(w)) \in ToSet(Without(w))
           /\ ToSet(windows) = ToSet(Without(w)) \cup {w}
           /\ IsList(Append(Without(w), w))
           /\ Last(Append(Without(w), w)) = w
           /\ w \in ToSet(Append(Without(w), w))
<1> PICK i \in DOMAIN windows : w = windows[i]
  BY DEF ToSet
<1>0. /\ windows \in Seq(Wins) /\ DOMAIN windows = 1..Len(windows)
      /\ Len(windows) \in 0..2 /\ (Len(windows) = 2 => windows[1] # windows[2])
      /\ \A j \in 1..Len(windows) : windows[j] \in Wins
  BY ListFacts
<1>1. PICK r : r = Without(w)
  OBVIOUS
<1>2. i \in 1..2 /\ Len(windows) \in 1..2 /\ w \in Wins
  BY <1>0
<1>3. /\ r \in Seq(Wins) /\ Len(r) = Len(windows) - 1
      /\ Len(windows) = 2 => r[1] = windows[3 - i]
  BY RemoveOne, <1>1 DEF Without
<1>4. DOMAIN r = 1..Len(r)
  BY <1>3
<1>5. IsList(r)
  <2>1. Len(r) <= 1
    BY <1>2, <1>3
  <2> QED BY <1>3, <2>1 DEF IsList
<1>6. r # << >> => Last(r) \in ToSet(r)
  BY <1>2, <1>3, <1>4 DEF Last, ToSet
<1>7. ToSet(windows) = ToSet(r) \cup {w}
  <2>1. CASE Len(windows) = 1
    BY <1>0, <1>2, <1>3, <1>4, <2>1 DEF ToSet
  <2>2. CASE Len(windows) = 2
    <3>1. ToSet(windows) = {windows[1], windows[2]}
      BY <1>0, <2>2 DEF ToSet
    <3>2. ToSet(r) = {windows[3 - i]}
      BY <1>2, <1>3, <1>4, <2>2 DEF ToSet
    <3> QED BY <1>2, <3>1, <3>2
  <2> QED BY <1>2, <2>1, <2>2
<1>8. PICK a : a = Append(r, w)
  OBVIOUS
<1>9. a \in Seq(Wins) /\ Len(a) = Len(r) + 1 /\ a[Len(r) + 1] = w /\ DOMAIN a = 1..(Len(r) + 1)
  BY <1>2, <1>3, <1>8
<1>10. Len(r) = 1 => a[1] = windows[3 - i] /\ windows[3 - i] # w
  <2> SUFFICES ASSUME Len(r) = 1 PROVE a[1] = windows[3 - i] /\ windows[3 - i] # w
    OBVIOUS
  <2>1. a[1] = r[1]
    BY <1>2, <1>3, <1>8
  <2> QED BY <1>0, <1>2, <1>3, <2>1
<1>11. IsList(a) /\ Last(a) = w /\ w \in ToSet(a)
  BY <1>2, <1>3, <1>9, <1>10 DEF IsList, Last, ToSet
<1> QED BY <1>1, <1>5, <1>6, <1>7, <1>8, <1>11

-----------------------------------------------------------------------------
(***************************************************************************)
(* Owner and Topmost without a choice: the upper window if it is there,    *)
(* else the lower one.                                                     *)
(***************************************************************************)
Over(ws, x, p) ==
    IF Len(ws) = 2 /\ p \in Cells(x[ws[2]], WindowWidth) THEN ws[2]
    ELSE IF Len(ws) >= 1 /\ p \in Cells(x[ws[1]], WindowWidth) THEN ws[1]
    ELSE NoWin

Top(ws, x, f, n, buf, p) ==
    IF Over(ws, x, p) = NoWin THEN Desktop
    ELSE IF Over(ws, x, p) = "term" /\ p - x["term"] \in 1..cols
    THEN Glyph(buf[p - x["term"] - 1])
    ELSE Frame(Over(ws, x, p), f, n, p - x[Over(ws, x, p)])

OwnerOver == IsList(windows) => \A p \in Screen : Owner(p) = Over(windows, wx, p)

TopmostTop ==
    IsList(windows) => \A p \in Screen :
        Topmost(p) = Top(windows, wx, focus, counter_value, screen_buf, p)

LEMMA OwnerIs == OwnerOver
<1> SUFFICES ASSUME IsList(windows), NEW p \in Screen
             PROVE  Owner(p) = Over(windows, wx, p)
  BY DEF OwnerOver
<1> DEFINE over == {i \in DOMAIN windows : p \in Cells(wx[windows[i]], WindowWidth)}
<1>0. DOMAIN windows = 1..Len(windows) /\ Len(windows) \in 0..2
  BY ListFacts
<1>1. Owner(p) = IF over = {} THEN NoWin ELSE windows[CHOOSE i \in over : \A j \in over : j <= i]
  BY DEF Owner
<1>2. over = {i \in 1..Len(windows) : p \in Cells(wx[windows[i]], WindowWidth)}
  BY <1>0
<1>3. CASE Len(windows) = 2 /\ p \in Cells(wx[windows[2]], WindowWidth)
  <2>1. 2 \in over /\ \A j \in over : j <= 2 /\ j \in Int
    BY <1>2, <1>3
  <2> HIDE DEF over
  <2>2. (CHOOSE i \in over : \A j \in over : j <= i) = 2
    BY <2>1
  <2> QED BY <1>1, <1>3, <2>1, <2>2 DEF Over
<1>4. CASE Len(windows) >= 1 /\ p \in Cells(wx[windows[1]], WindowWidth)
           /\ ~(Len(windows) = 2 /\ p \in Cells(wx[windows[2]], WindowWidth))
  <2>1. over = {1}
    BY <1>0, <1>2, <1>4
  <2> HIDE DEF over
  <2>2. (CHOOSE i \in over : \A j \in over : j <= i) = 1
    BY <2>1
  <2> QED BY <1>0, <1>1, <1>4, <2>1, <2>2 DEF Over
<1>5. CASE ~(Len(windows) >= 1 /\ p \in Cells(wx[windows[1]], WindowWidth))
           /\ ~(Len(windows) = 2 /\ p \in Cells(wx[windows[2]], WindowWidth))
  <2>1. over = {}
    BY <1>0, <1>2, <1>5
  <2> HIDE DEF over
  <2> QED BY <1>0, <1>1, <1>5, <2>1 DEF Over
<1> QED BY <1>3, <1>4, <1>5

LEMMA TopmostIs == TopmostTop
  BY OwnerIs DEF OwnerOver, TopmostTop, Topmost, Top

LEMMA OwnerIsNext == OwnerOver'
  BY OwnerIs, PTL

LEMMA TopmostIsNext == TopmostTop'
  BY TopmostIs, PTL

(***************************************************************************)
(* The loop of gui_redraw over at most two windows.                        *)
(***************************************************************************)
LEMMA PaintedIs ==
    ASSUME NEW ws, IsList(ws), NEW x, NEW f, NEW n, NEW region
    PROVE  LET draw(s, k) == WindowDraw(s, ws[k], x[ws[k]], f, n, region)
               base == [p \in Screen |-> Desktop]
           IN  Painted(ws, x, f, n, region) =
                 IF Len(ws) = 0 THEN base
                 ELSE IF Len(ws) = 1 THEN draw(base, 1)
                 ELSE draw(draw(base, 1), 2)
<1> DEFINE draw(s, k) == WindowDraw(s, ws[k], x[ws[k]], f, n, region)
           base == [p \in Screen |-> Desktop]
           F(g, k) == IF k = 0 THEN base ELSE draw(g[k - 1], k)
           drawn == CHOOSE g : g = [k \in 0..Len(ws) |-> F(g, k)]
           wit == [k \in 0..Len(ws) |-> IF k = 0 THEN base ELSE IF k = 1 THEN draw(base, 1)
                                        ELSE draw(draw(base, 1), 2)]
<1>1. Len(ws) \in 0..2
  BY ListFacts
<1>2. wit = [k \in 0..Len(ws) |-> F(wit, k)]
  <2> HIDE DEF draw, base
  <2> SUFFICES ASSUME NEW k \in 0..Len(ws) PROVE wit[k] = F(wit, k)
    OBVIOUS
  <2>1. k = 0 \/ k = 1 \/ k = 2
    <3>1. \A m \in 0..2 : \A j \in 0..m : j = 0 \/ j = 1 \/ j = 2
      OBVIOUS
    <3> QED BY <1>1, <3>1, Zenon
  <2>2. CASE k = 0
    BY <2>2
  <2>3. CASE k = 1
    BY <1>1, <2>3
  <2>4. CASE k = 2
    BY <1>1, <2>4
  <2> QED BY <2>1, <2>2, <2>3, <2>4
<1>3. drawn = [k \in 0..Len(ws) |-> F(drawn, k)]
  <2> HIDE DEF wit, F
  <2> QED BY <1>2
<1>4. Painted(ws, x, f, n, region) = drawn[Len(ws)]
  BY DEF Painted
<1> HIDE DEF drawn, draw, base
<1>5. drawn[Len(ws)] = IF Len(ws) = 0 THEN base ELSE IF Len(ws) = 1 THEN draw(base, 1)
                       ELSE draw(draw(base, 1), 2)
  <2>1. \A k \in 0..Len(ws) : drawn[k] = IF k = 0 THEN base ELSE draw(drawn[k - 1], k)
    BY <1>3
  <2>2. CASE Len(ws) = 0
    BY <2>1, <2>2
  <2>3. CASE Len(ws) = 1
    BY <2>1, <2>3
  <2>4. CASE Len(ws) = 2
    BY <2>1, <2>4
  <2> QED BY <1>1, <2>2, <2>3, <2>4
<1> QED BY <1>4, <1>5 DEF draw, base

(***************************************************************************)
(* What a window shows in a cell it covers, and what one round of the loop *)
(* makes of the screen.                                                    *)
(***************************************************************************)
Shown(w, x, f, n, buf, p) ==
    IF w = "term" /\ p - x["term"] \in 1..cols THEN Glyph(buf[p - x["term"] - 1])
    ELSE Frame(w, f, n, p - x[w])

OneMoreWindow(s, w, x, f, n) ==
    WindowDraw(s, w, x[w], f, n, x["term"] + 1) =
      [p \in Screen |-> IF p \in Cells(x[w], WindowWidth)
                        THEN Shown(w, x, f, n, screen_buf, p) ELSE s[p]]

LEMMA WindowCells ==
    ASSUME NEW s, NEW w \in Wins, NEW x \in [Wins -> Int], NEW f, NEW n
    PROVE  OneMoreWindow(s, w, x, f, n)
<1> USE DEF OneMoreWindow
<1> DEFINE framed == [p \in Screen |->
                        IF p \in Cells(x[w], WindowWidth) THEN Frame(w, f, n, p - x[w]) ELSE s[p]]
<1>0. Widths /\ x["term"] \in Int /\ Screen \subseteq Int
  BY WidthsHold DEF Wins, Screen
<1>1. CASE w = "term"
  <2>1. WindowDraw(s, w, x[w], f, n, x["term"] + 1) =
          [p \in Screen |-> IF p \in Cells(x["term"] + 1, cols)
                            THEN Glyph(screen_buf[p - (x["term"] + 1)]) ELSE framed[p]]
    BY <1>1 DEF WindowDraw, TermRedraw
  <2>2. ASSUME NEW p \in Screen
        PROVE  /\ p \in Cells(x["term"] + 1, cols) <=> p - x["term"] \in 1..cols
               /\ p \in Cells(x["term"] + 1, cols) => p \in Cells(x["term"], WindowWidth)
               /\ p - (x["term"] + 1) = p - x["term"] - 1
    BY <1>0, <2>2 DEF Cells, cols, Widths
  <2>3. ASSUME NEW p \in Screen
        PROVE  (IF p \in Cells(x["term"] + 1, cols)
                THEN Glyph(screen_buf[p - (x["term"] + 1)]) ELSE framed[p]) =
               (IF p \in Cells(x[w], WindowWidth) THEN Shown(w, x, f, n, screen_buf, p) ELSE s[p])
    <3>1. framed[p] = IF p \in Cells(x[w], WindowWidth) THEN Frame(w, f, n, p - x[w]) ELSE s[p]
      OBVIOUS
    <3> HIDE DEF framed
    <3> QED BY <1>1, <2>2, <3>1 DEF Shown
  <2> HIDE DEF framed
  <2> QED BY <2>1, <2>3
<1>2. CASE w # "term"
  BY <1>2 DEF WindowDraw, Shown
<1> QED BY <1>1, <1>2

(***************************************************************************)
(* A redraw shows the topmost window in every cell.                        *)
(***************************************************************************)
LEMMA PaintedTop ==
    ASSUME NEW ws, IsList(ws), NEW x \in [Wins -> Int], NEW f, NEW n
    PROVE  Painted(ws, x, f, n, x["term"] + 1) =
             [p \in Screen |-> Top(ws, x, f, n, screen_buf, p)]
<1> DEFINE draw(s, k) == WindowDraw(s, ws[k], x[ws[k]], f, n, x["term"] + 1)
           base == [p \in Screen |-> Desktop]
           cell(s, k, p) == IF p \in Cells(x[ws[k]], WindowWidth)
                            THEN Shown(ws[k], x, f, n, screen_buf, p) ELSE s[p]
<1>0. Len(ws) \in 0..2 /\ \A k \in 1..Len(ws) : ws[k] \in Wins
  BY ListFacts
<1>1. Painted(ws, x, f, n, x["term"] + 1) =
        IF Len(ws) = 0 THEN base ELSE IF Len(ws) = 1 THEN draw(base, 1) ELSE draw(draw(base, 1), 2)
  BY PaintedIs
<1>2. ASSUME NEW s, NEW k \in 1..Len(ws)
      PROVE  draw(s, k) = [p \in Screen |-> cell(s, k, p)]
  <2>1. PICK w \in Wins : w = ws[k]
    BY <1>0
  <2>2. OneMoreWindow(s, w, x, f, n)
    BY WindowCells
  <2> QED BY <2>1, <2>2 DEF OneMoreWindow
<1>3. "term" # NoWin /\ \A k \in 1..Len(ws) : ws[k] # NoWin
  BY <1>0 DEF Wins, NoWin
<1> HIDE DEF draw
<1>4. CASE Len(ws) = 0
  BY <1>1, <1>4 DEF Top, Over
<1>5. CASE Len(ws) = 1
  <2>1. draw(base, 1) = [p \in Screen |-> cell(base, 1, p)]
    BY <1>2, <1>5
  <2>2. ASSUME NEW p \in Screen
        PROVE  cell(base, 1, p) = Top(ws, x, f, n, screen_buf, p)
    BY <1>3, <1>5 DEF Top, Over, Shown
  <2> QED BY <1>1, <1>5, <2>1, <2>2
<1>6. CASE Len(ws) = 2
  <2>1. draw(base, 1) = [p \in Screen |-> cell(base, 1, p)]
    BY <1>2, <1>6
  <2>2. draw(draw(base, 1), 2) = [p \in Screen |-> cell(draw(base, 1), 2, p)]
    BY <1>2, <1>6
  <2>3. ASSUME NEW p \in Screen
        PROVE  cell(draw(base, 1), 2, p) = Top(ws, x, f, n, screen_buf, p)
    <3>1. draw(base, 1)[p] = cell(base, 1, p)
      BY <2>1
    <3> QED BY <1>3, <1>6, <3>1 DEF Top, Over, Shown
  <2> HIDE DEF cell
  <2> QED BY <1>1, <1>6, <2>2, <2>3
<1> QED BY <1>0, <1>4, <1>5, <1>6

-----------------------------------------------------------------------------
(***************************************************************************)
(* The handles, with what makes them inductive: a drag has begun with a    *)
(* click on the window, which raised and focused it, and every later click *)
(* needs a release first.                                                  *)
(***************************************************************************)
Handles ==
    /\ focus \in ToSet(windows) \cup {NoWin} /\ drag_win \in ToSet(windows) \cup {NoWin}
    /\ drag_win # NoWin => last_buttons /\ drag_win = Last(windows) /\ drag_win = focus

Picture == CanvasOK /\ CursorClean /\ PictureOK

GInv == GTypeOK /\ RegionOK /\ Picture /\ Handles

LEMMA HandlesFollow == GInv => HandlesLive
<1> SUFFICES ASSUME GInv PROVE HandlesLive
  OBVIOUS
<1>1. IsList(windows) /\ Handles
  BY DEF GInv, GTypeOK
<1>2. DOMAIN windows = 1..Len(windows) /\ Len(windows) \in 0..2
      /\ (Len(windows) = 2 => windows[1] # windows[2])
  BY <1>1, ListFacts
<1>3. IsInjective(windows)
  BY <1>2 DEF IsInjective
<1> QED BY <1>1, <1>3 DEF Handles, HandlesLive

LEMMA TopIsListed ==
    ASSUME IsList(windows), TopWindow # NoWin
    PROVE  TopWindow \in ToSet(windows) /\ TopWindow \in Wins
<1> DEFINE hits == {i \in DOMAIN windows : Hit(windows[i])}
<1>0. /\ DOMAIN windows = 1..Len(windows) /\ Len(windows) \in 0..2
      /\ \A i \in 1..Len(windows) : windows[i] \in Wins
  BY ListFacts
<1>1. /\ TopWindow = windows[CHOOSE i \in hits : \A j \in hits : j <= i]
      /\ hits # {}
  BY DEF TopWindow
<1>2. hits \subseteq 1..2
  BY <1>0
<1>3. hits \subseteq DOMAIN windows
  OBVIOUS
<1> HIDE DEF hits
<1>4. \E i \in hits : \A j \in hits : j <= i
  <2>1. CASE 2 \in hits
    BY <1>2, <2>1
  <2>2. CASE 2 \notin hits
    <3>1. \A j \in hits : j = 1
      BY <1>2, <2>2
    <3> QED BY <1>1, <3>1
  <2> QED BY <2>1, <2>2
<1>5. (CHOOSE i \in hits : \A j \in hits : j <= i) \in hits
  BY <1>4
<1> QED BY <1>0, <1>1, <1>3, <1>5 DEF ToSet

(***************************************************************************)
(* gui_redraw: whatever the screen was, it shows the desk with the pointer *)
(* on top.                                                                 *)
(***************************************************************************)
LEMMA Redraws ==
    ASSUME GuiRedraw, IsList(windows'), wx' \in [Wins -> Int], RegionOK',
           screen_buf' = screen_buf, cur_x' = cur_x
    PROVE  Picture' /\ overdrawn' \in BOOLEAN
<1> DEFINE s == Painted(windows', wx', focus', counter_value', region_x')
<1>1. canvas' = s /\ saved' = Under(s, cur_x) /\ screen' = WithArrow(s, cur_x) /\ overdrawn' = FALSE
  BY DEF GuiRedraw, Show
<1>2. s = [p \in Screen |-> Top(windows', wx', focus', counter_value', screen_buf, p)]
  BY PaintedTop DEF RegionOK
<1>3. CursorClean'
  <2> HIDE DEF s
  <2> QED BY <1>1 DEF CursorClean, Under, WithArrow
<1>4. CanvasOK'
  BY <1>1, <1>2 DEF CanvasOK
<1>5. PictureOK'
  <2>1. \A p \in Screen : canvas'[p] = Top(windows', wx', focus', counter_value', screen_buf, p)
    BY <1>1, <1>2
  <2> QED BY <2>1, TopmostIsNext DEF PictureOK, TopmostTop
<1> QED BY <1>1, <1>3, <1>4, <1>5 DEF Picture

(***************************************************************************)
(* fb_cursor_hide uncovers what the windows and the terminal have drawn.   *)
(***************************************************************************)
LEMMA HideIs ==
    ASSUME GTypeOK, Picture
    PROVE  Hide(screen) = canvas
<1>0. Widths /\ cur_x \in Int /\ Screen \subseteq Int
  BY WidthsHold DEF GTypeOK, Screen
<1>1. /\ screen = [canvas EXCEPT ![cur_x] = Arrow]
      /\ saved = [i \in 0..(CUR_W - 1) |-> canvas[cur_x + i]]
      /\ canvas = [p \in Screen |-> canvas[p]]
  BY DEF Picture, CursorClean, CanvasOK, WithArrow, Under
<1>2. ASSUME NEW p \in Screen
      PROVE  (IF p \in Cells(cur_x, CUR_W) THEN saved[p - cur_x] ELSE screen[p]) = canvas[p]
  <2>1. CASE p \in Cells(cur_x, CUR_W)
    <3>1. p - cur_x \in 0..(CUR_W - 1) /\ cur_x + (p - cur_x) = p
      BY <1>0, <2>1 DEF Cells, Widths
    <3> QED BY <1>1, <2>1, <3>1
  <2>2. CASE p \notin Cells(cur_x, CUR_W)
    <3>1. p # cur_x
      BY <1>0, <2>2 DEF Cells, Widths
    <3> QED BY <1>1, <2>2, <3>1
  <2> QED BY <2>1, <2>2
<1>3. Hide(screen) = [p \in Screen |-> canvas[p]]
  BY <1>2 DEF Hide
<1> QED BY <1>1, <1>3

(***************************************************************************)
(* The terminal draws the cells whose text has changed, and no window but  *)
(* its own suffers unless overdrawn says so.                               *)
(***************************************************************************)
LEMMA Prints ==
    ASSUME GInv, NEW buf \in [0..(cols - 1) -> Glyphs \cup {Blank}], NEW col \in 0..(cols - 1),
           NEW cells \in SUBSET (0..(cols - 1)),
           \A i \in (0..(cols - 1)) \ cells : buf[i] = screen_buf[i],
           Output(buf, col, cells)
    PROVE  GInv'
<1> DEFINE draw(s) == [p \in Screen |->
                         IF p - region_x \in cells THEN Glyph(buf[p - region_x]) ELSE s[p]]
           at == {i \in cells : region_x + i \in Screen}
<1>0. /\ Widths /\ Screen \subseteq Int /\ wx["term"] \in Int /\ region_x = wx["term"] + 1
      /\ IsList(windows)
  BY WidthsHold DEF GInv, GTypeOK, RegionOK, Screen, Wins
<1>1. /\ screen_buf' = buf /\ cursor_x' = col
      /\ canvas' = draw(canvas)
      /\ saved' = Under(draw(Hide(screen)), cur_x)
      /\ screen' = WithArrow(draw(Hide(screen)), cur_x)
      /\ overdrawn' = (overdrawn \/ \E i \in at : Owner(region_x + i) # "term")
      /\ UNCHANGED <<desk, buttons, packet, cur_x>>
  BY DEF Output, Show
<1>2. UNCHANGED <<windows, wx, focus, drag_win, drag_off, last_buttons, region_x, counter_value,
                  buttons, packet, cur_x>>
  BY <1>1 DEF desk
<1>3. GTypeOK'
  BY <1>1, <1>2 DEF GInv, GTypeOK, IsList
<1>4. RegionOK' /\ Handles'
  BY <1>2 DEF GInv, RegionOK, Handles, ToSet, Last
<1>5. CursorClean'
  <2>1. Hide(screen) = canvas
    BY HideIs DEF GInv
  <2> HIDE DEF draw
  <2> QED BY <1>1, <1>2, <2>1 DEF CursorClean, Under, WithArrow
<1>6. CanvasOK'
  BY <1>1 DEF CanvasOK
<1>7. ASSUME ~overdrawn', NEW p \in Screen
      PROVE  canvas'[p] = Topmost(p)'
  <2>1. ~overdrawn /\ \A i \in at : Owner(region_x + i) = "term"
    BY <1>1, <1>7
  <2>2. canvas[p] = Top(windows, wx, focus, counter_value, screen_buf, p)
    BY <1>0, <2>1, TopmostIs DEF GInv, Picture, PictureOK, TopmostTop
  <2>3. Topmost(p)' = Top(windows, wx, focus, counter_value, buf, p)
    BY <1>0, <1>1, <1>2, TopmostIsNext DEF TopmostTop, IsList
  <2>4. canvas'[p] = IF p - region_x \in cells THEN Glyph(buf[p - region_x]) ELSE canvas[p]
    BY <1>1
  <2>5. p \in Int /\ p - region_x = p - wx["term"] - 1
    BY <1>0
  <2>6. CASE p - region_x \in cells
    <3>1. p - region_x \in at /\ region_x + (p - region_x) = p
      BY <1>0, <2>5, <2>6
    <3>2. Over(windows, wx, p) = "term"
      BY <1>0, <2>1, <3>1, OwnerIs DEF OwnerOver
    <3>3. p - wx["term"] \in 1..cols
      BY <1>0, <2>5, <2>6 DEF cols, Widths
    <3> QED BY <2>3, <2>4, <2>5, <2>6, <3>2, <3>3 DEF Top, NoWin
  <2>7. CASE p - region_x \notin cells
    <3>1. p - wx["term"] \in 1..cols => buf[p - wx["term"] - 1] = screen_buf[p - wx["term"] - 1]
      BY <1>0, <2>5, <2>7 DEF cols, Widths
    <3>2. Top(windows, wx, focus, counter_value, buf, p)
            = Top(windows, wx, focus, counter_value, screen_buf, p)
      BY <3>1 DEF Top
    <3> QED BY <2>2, <2>3, <2>4, <2>7, <3>2
  <2> QED BY <2>6, <2>7
<1>8. PictureOK'
  BY <1>7 DEF PictureOK
<1> QED BY <1>3, <1>4, <1>5, <1>6, <1>8 DEF GInv, Picture

(***************************************************************************)
(* A step that leaves the desk, the text and the picture alone keeps the   *)
(* picture right.                                                          *)
(***************************************************************************)
LEMMA SamePicture ==
    ASSUME GTypeOK, PictureOK, IsList(windows'),
           UNCHANGED <<windows, wx, focus, region_x, counter_value, screen_buf, canvas, overdrawn>>
    PROVE  PictureOK'
  BY TopmostIs, TopmostIsNext DEF GTypeOK, PictureOK, TopmostTop

-----------------------------------------------------------------------------
LEMMA GuiStart == GInit => GInv
<1> SUFFICES ASSUME GInit PROVE GInv
  OBVIOUS
<1>0. Widths
  BY WidthsHold
<1>1. IsList(windows) /\ windows = <<"term", "demo">>
  BY DEF GInit, IsList, Wins
<1>2. wx \in [Wins -> Int] /\ region_x = wx["term"] + 1
  BY <1>0 DEF GInit, Wins, Widths
<1>3. ScreenWidth \div 2 \in Screen
  BY <1>0 DEF Screen, Widths
<1>4. screen_buf \in [0..(cols - 1) -> Glyphs \cup {Blank}] /\ 0 \in 0..(cols - 1)
  BY <1>0 DEF GInit, Empty, cols, Widths
<1>5. GTypeOK
  <2>1. packet \in Seq(0..255) /\ Len(packet) <= 2
    BY DEF GInit
  <2>2. buttons \in BOOLEAN /\ last_buttons \in BOOLEAN /\ overdrawn \in BOOLEAN
    BY Zenon DEF GInit
  <2>3. /\ focus = NoWin /\ drag_win = NoWin /\ drag_off = 0 /\ counter_value = 0
        /\ cursor_x = 0 /\ cur_x = ScreenWidth \div 2
    BY Zenon DEF GInit
  <2> QED BY <1>1, <1>2, <1>3, <1>4, <2>1, <2>2, <2>3 DEF GTypeOK
<1>6. RegionOK /\ Handles
  BY <1>2 DEF GInit, RegionOK, Handles
<1>7. canvas = [p \in Screen |-> Top(windows, wx, focus, 0, screen_buf, p)]
  BY <1>1, <1>2, PaintedTop DEF GInit
<1>8. CanvasOK
  BY <1>7 DEF CanvasOK
<1>9. CursorClean
  BY DEF GInit, CursorClean
<1>10. PictureOK
  <2>1. \A p \in Screen : canvas[p] = Top(windows, wx, focus, counter_value, screen_buf, p)
    BY <1>7 DEF GInit
  <2> QED BY <1>1, <2>1, TopmostIs DEF PictureOK, TopmostTop
<1> QED BY <1>5, <1>6, <1>8, <1>9, <1>10 DEF GInv, Picture

(***************************************************************************)
(* mouse_handler.                                                          *)
(***************************************************************************)
LEMMA MouseSteps ==
    ASSUME GInv, (\E b \in MouseBytes : MouseByte(b)) \/ MouseMove
    PROVE  GInv'
<1>1. ASSUME NEW b \in MouseBytes, MouseByte(b)
      PROVE  GInv'
  <2>0. b \in 0..255
    BY GuiAssumption DEF GuiAssumption
  <2>1. UNCHANGED <<windows, wx, focus, drag_win, drag_off, last_buttons, region_x, counter_value,
                    buttons, cur_x, saved, screen_buf, cursor_x, screen, canvas, overdrawn>>
    BY <1>1 DEF MouseByte, desk
  <2>2. packet' \in Seq(0..255) /\ Len(packet') <= 2
    BY <1>1, <2>0 DEF GInv, GTypeOK, MouseByte
  <2>3. GTypeOK'
    BY <2>1, <2>2 DEF GInv, GTypeOK, IsList
  <2>4. RegionOK' /\ Handles' /\ CanvasOK' /\ CursorClean'
    BY <2>1 DEF GInv, Picture, RegionOK, Handles, CanvasOK, CursorClean, ToSet, Last, WithArrow, Under
  <2>5. PictureOK'
    BY <2>1, <2>3, SamePicture DEF GInv, Picture, GTypeOK
  <2> QED BY <2>3, <2>4, <2>5 DEF GInv, Picture
<1>2. ASSUME MouseMove
      PROVE  GInv'
  <2>1. UNCHANGED <<windows, wx, focus, drag_win, drag_off, last_buttons, region_x, counter_value,
                    screen_buf, cursor_x, canvas, overdrawn>>
    BY <1>2 DEF MouseMove, desk
  <2>2. packet[2] \in 0..255
    <3>1. packet \in Seq(0..255) /\ Len(packet) = 2
      BY <1>2 DEF GInv, GTypeOK, MouseMove
    <3>2. 2 \in 1..Len(packet)
      BY <3>1
    <3>3. ASSUME NEW S, NEW q \in Seq(S), NEW i \in 1..Len(q)
          PROVE  q[i] \in S
      OBVIOUS
    <3> QED BY <3>1, <3>2, <3>3, Zenon
  <2>3. Half(Signed(packet[2])) \in Int
    BY <2>2 DEF Half, Signed
  <2>4. cur_x' \in Screen
    BY <1>2, <2>3, WidthsHold DEF GInv, GTypeOK, MouseMove, Clamp, Screen, Widths
  <2>5. packet' \in Seq(0..255) /\ Len(packet') <= 2 /\ buttons' \in BOOLEAN
    BY <1>2 DEF MouseMove
  <2>6. GTypeOK'
    BY <2>1, <2>4, <2>5 DEF GInv, GTypeOK, IsList
  <2>7. CursorClean'
    <3>1. Hide(screen) = canvas
      BY HideIs DEF GInv
    <3> QED BY <1>2, <2>1, <3>1 DEF MouseMove, Show, CursorClean, WithArrow, Under
  <2>8. RegionOK' /\ Handles' /\ CanvasOK'
    BY <2>1 DEF GInv, Picture, RegionOK, Handles, CanvasOK, ToSet, Last
  <2>9. PictureOK'
    BY <2>1, <2>6, SamePicture DEF GInv, Picture, GTypeOK
  <2> QED BY <2>6, <2>7, <2>8, <2>9 DEF GInv, Picture
<1> QED BY <1>1, <1>2

(***************************************************************************)
(* gui_on_mouse.  A press comes after a release, which ended any drag.     *)
(***************************************************************************)
LEMMA CloseStep ==
    ASSUME GInv, CloseWindow
    PROVE  GInv'
<1>0. /\ GTypeOK /\ RegionOK /\ Handles /\ IsList(windows)
  BY DEF GInv, GTypeOK
<1>1. PICK w : w = TopWindow
  OBVIOUS
<1>2. /\ w # NoWin /\ buttons /\ ~last_buttons
      /\ windows' = Without(w) /\ focus' = FocusAfter(w)
      /\ drag_win' = IF drag_win = w THEN NoWin ELSE drag_win
      /\ last_buttons' = buttons
      /\ UNCHANGED <<wx, drag_off, region_x, counter_value, buttons, packet, cur_x, screen_buf, cursor_x>>
      /\ GuiRedraw
  BY <1>1 DEF CloseWindow, Pressed, mouse
<1>3. w \in ToSet(windows) /\ w \in Wins
  BY <1>0, <1>1, <1>2, TopIsListed
<1>4. /\ IsList(windows')
      /\ windows' # << >> => Last(windows') \in ToSet(windows')
      /\ ToSet(windows) = ToSet(windows') \cup {w}
  BY <1>0, <1>2, <1>3, WithoutList
<1>5. drag_win' = NoWin
  BY <1>0, <1>2 DEF Handles
<1>6. focus' \in ToSet(windows') \cup {NoWin}
  BY <1>0, <1>2, <1>4 DEF FocusAfter, Handles
<1>7. Picture' /\ overdrawn' \in BOOLEAN
  BY <1>0, <1>2, <1>4, Redraws DEF GTypeOK, RegionOK
<1>8. ToSet(windows') \subseteq Wins
  BY <1>4, ListFacts DEF ToSet
<1>9. GTypeOK'
  BY <1>0, <1>2, <1>4, <1>5, <1>6, <1>7, <1>8 DEF GTypeOK
<1>10. Handles' /\ RegionOK'
  BY <1>0, <1>2, <1>5, <1>6 DEF Handles, RegionOK
<1> QED BY <1>7, <1>9, <1>10 DEF GInv

LEMMA ClickStep ==
    ASSUME GInv, ClickWindow
    PROVE  GInv'
<1>0. /\ GTypeOK /\ RegionOK /\ Handles /\ IsList(windows)
  BY DEF GInv, GTypeOK
<1>1. PICK w : w = TopWindow
  OBVIOUS
<1>2. /\ w # NoWin /\ buttons /\ ~last_buttons
      /\ windows' = Append(Without(w), w) /\ focus' = w
      /\ drag_win' = IF InTitleBar(w) THEN w ELSE drag_win
      /\ drag_off' = IF InTitleBar(w) THEN cur_x - wx[w] ELSE drag_off
      /\ counter_value' = counter_value + IF ButtonHit(w) THEN 1 ELSE 0
      /\ last_buttons' = buttons
      /\ UNCHANGED <<wx, region_x, buttons, packet, cur_x, screen_buf, cursor_x>>
      /\ GuiRedraw
  BY <1>1 DEF ClickWindow, Pressed, mouse
<1>3. w \in ToSet(windows) /\ w \in Wins
  BY <1>0, <1>1, <1>2, TopIsListed
<1>4. IsList(windows') /\ Last(windows') = w /\ w \in ToSet(windows')
  BY <1>0, <1>2, <1>3, WithoutList
<1>5. drag_win' \in {w, NoWin}
  BY <1>0, <1>2 DEF Handles
<1>6. Picture' /\ overdrawn' \in BOOLEAN
  BY <1>0, <1>2, <1>4, Redraws DEF GTypeOK, RegionOK
<1>7. wx[w] \in Int /\ cur_x \in Int
  BY <1>0, <1>3 DEF GTypeOK, Screen
<1>8. drag_off' \in Int /\ counter_value' \in Nat
  BY <1>0, <1>2, <1>7 DEF GTypeOK
<1>9. GTypeOK'
  BY <1>0, <1>2, <1>3, <1>4, <1>5, <1>6, <1>8 DEF GTypeOK
<1>10. Handles' /\ RegionOK'
  BY <1>0, <1>2, <1>4, <1>5 DEF GTypeOK, Handles, RegionOK
<1> QED BY <1>6, <1>9, <1>10 DEF GInv

LEMMA QuietSteps ==
    ASSUME GInv, PressDesktop \/ Release
    PROVE  GInv'
<1>0. /\ GTypeOK /\ RegionOK /\ Handles /\ Picture
  BY DEF GInv
<1>1. /\ UNCHANGED <<windows, wx, focus, drag_off, region_x, counter_value, buttons, packet, cur_x,
                     screen_buf, cursor_x, saved, screen, canvas, overdrawn>>
      /\ last_buttons' = buttons
      /\ drag_win' = NoWin
  BY <1>0 DEF PressDesktop, Release, mouse, Pressed, Handles
<1>2. GTypeOK'
  BY <1>0, <1>1 DEF GTypeOK, IsList
<1>3. RegionOK' /\ Handles' /\ CanvasOK' /\ CursorClean'
  BY <1>0, <1>1 DEF Picture, RegionOK, Handles, CanvasOK, CursorClean, ToSet, Last, WithArrow, Under
<1>4. PictureOK'
  BY <1>0, <1>1, <1>2, SamePicture DEF Picture, GTypeOK
<1> QED BY <1>2, <1>3, <1>4 DEF GInv, Picture

LEMMA DragStep ==
    ASSUME GInv, Drag
    PROVE  GInv'
<1>0. /\ GTypeOK /\ RegionOK /\ Handles /\ IsList(windows)
  BY DEF GInv, GTypeOK
<1>1. PICK x : x = cur_x - drag_off
  OBVIOUS
<1>2. /\ drag_win # NoWin
      /\ wx' = [wx EXCEPT ![drag_win] = x]
      /\ region_x' = RegionAfter(drag_win, x)
      /\ UNCHANGED <<windows, focus, drag_win, drag_off, last_buttons, counter_value, buttons,
                     packet, cur_x, screen_buf, cursor_x>>
      /\ GuiRedraw
  BY <1>1 DEF Drag, mouse
<1>3. x \in Int /\ drag_win \in Wins /\ "term" \in Wins
  BY <1>0, <1>1, <1>2 DEF GTypeOK, Screen, Wins
<1>4. wx' \in [Wins -> Int] /\ RegionOK'
  BY <1>0, <1>2, <1>3 DEF GTypeOK, RegionOK, RegionAfter
<1>5. IsList(windows')
  BY <1>0, <1>2
<1>6. Picture' /\ overdrawn' \in BOOLEAN
  BY <1>2, <1>4, <1>5, Redraws
<1>7. GTypeOK'
  BY <1>0, <1>2, <1>4, <1>5, <1>6 DEF GTypeOK
<1>8. Handles'
  BY <1>0, <1>2 DEF Handles, ToSet, Last
<1> QED BY <1>4, <1>6, <1>7, <1>8 DEF GInv

(***************************************************************************)
(* fb_term_putc.                                                           *)
(***************************************************************************)
LEMMA PrintSteps ==
    ASSUME GInv, (\E c \in Glyphs : PutChar(c)) \/ NewLine \/ Return \/ Backspace
    PROVE  GInv'
<1> DEFINE Columns == 0..(cols - 1)
<1>0. /\ cols \in Nat /\ cols > 0
      /\ screen_buf \in [Columns -> Glyphs \cup {Blank}] /\ cursor_x \in Columns
  BY WidthsHold DEF GInv, GTypeOK, Widths, cols
<1>1. /\ Empty \in [Columns -> Glyphs \cup {Blank}] /\ DOMAIN Empty = Columns
      /\ 0 \in Columns
  BY <1>0 DEF Empty
<1>2. ASSUME NewLine PROVE GInv'
  <2>1. Output(Empty, 0, Columns)
    BY <1>1, <1>2 DEF NewLine
  <2> HIDE DEF Columns
  <2> QED BY <1>1, <2>1, Prints DEF Columns
<1>3. ASSUME NEW b \in Glyphs \cup {Blank}, NEW i \in Columns, NEW col \in Columns,
             Output([screen_buf EXCEPT ![i] = b], col, {i})
      PROVE  GInv'
  <2>1. PICK buf : buf = [screen_buf EXCEPT ![i] = b]
    OBVIOUS
  <2>2. buf \in [Columns -> Glyphs \cup {Blank}] /\ \A j \in Columns \ {i} : buf[j] = screen_buf[j]
    BY <1>0, <2>1
  <2>3. PICK cells \in SUBSET Columns : cells = {i}
    BY <1>3
  <2>4. Output(buf, col, cells)
    BY <1>3, <2>1, <2>3
  <2> QED BY <2>2, <2>3, <2>4, Prints
<1>4. ASSUME Output(screen_buf, 0, {}) PROVE GInv'
  <2>1. PICK buf : buf = screen_buf
    OBVIOUS
  <2>2. PICK cells \in SUBSET Columns : cells = {}
    OBVIOUS
  <2>3. Output(buf, 0, cells)
    BY <1>4, <2>1, <2>2
  <2>4. buf \in [Columns -> Glyphs \cup {Blank}] /\ \A j \in Columns \ cells : buf[j] = screen_buf[j]
    BY <1>0, <2>1
  <2> QED BY <1>1, <2>3, <2>4, Prints
<1>5. ASSUME NEW c \in Glyphs, PutChar(c) PROVE GInv'
  <2>1. CASE cursor_x = cols - 1
    BY <1>2, <1>5, <2>1 DEF PutChar
  <2>2. CASE cursor_x # cols - 1
    <3>1. cursor_x + 1 \in Columns
      BY <1>0, <2>2
    <3>2. Output([screen_buf EXCEPT ![cursor_x] = c], cursor_x + 1, {cursor_x})
      BY <1>5, <2>2 DEF PutChar
    <3> QED BY <1>0, <1>3, <3>1, <3>2
  <2> QED BY <2>1, <2>2
<1>6. ASSUME Backspace PROVE GInv'
  <2>1. CASE cursor_x = 0
    BY <1>4, <1>6, <2>1 DEF Backspace
  <2>2. CASE cursor_x # 0
    <3>1. cursor_x - 1 \in Columns
      BY <1>0, <2>2
    <3>2. Output([screen_buf EXCEPT ![cursor_x - 1] = Blank], cursor_x - 1, {cursor_x - 1})
      BY <1>6, <2>2 DEF Backspace
    <3> QED BY <1>3, <3>1, <3>2
  <2> QED BY <2>1, <2>2
<1> QED BY <1>2, <1>4, <1>5, <1>6 DEF Return

LEMMA GuiStep == GInv /\ [GNext]_gvars => GInv'
<1> SUFFICES ASSUME GInv, [GNext]_gvars PROVE GInv'
  OBVIOUS
<1>1. CASE UNCHANGED gvars
  <2>1. UNCHANGED <<windows, wx, focus, drag_win, drag_off, buttons, last_buttons, packet, cur_x,
                    saved, screen_buf, cursor_x, region_x, counter_value, screen, canvas, overdrawn>>
    BY <1>1 DEF gvars
  <2>2. GTypeOK'
    BY <2>1 DEF GInv, GTypeOK, IsList
  <2>3. RegionOK' /\ Handles' /\ CanvasOK' /\ CursorClean'
    BY <2>1 DEF GInv, Picture, RegionOK, Handles, CanvasOK, CursorClean, ToSet, Last, WithArrow, Under
  <2>4. PictureOK'
    BY <2>1, <2>2, SamePicture DEF GInv, Picture, GTypeOK
  <2> QED BY <2>2, <2>3, <2>4 DEF GInv, Picture
<1>2. CASE GNext
  BY <1>2, MouseSteps, CloseStep, ClickStep, QuietSteps, DragStep, PrintSteps DEF GNext
<1> QED BY <1>1, <1>2

-----------------------------------------------------------------------------
(***************************************************************************)
(* The invariant of the desktop: through every order of clicks, drags,     *)
(* mouse packets and terminal output the handles of gui.c, the terminal's  *)
(* region, the picture and the pixels saved under the pointer fit.         *)
(***************************************************************************)
THEOREM DesktopInvariance == GSpec => []GInv
  BY GuiStart, GuiStep, PTL DEF GSpec

(***************************************************************************)
(* fb_cursor.c: the pointer leaves no trace and hides no change.           *)
(***************************************************************************)
THEOREM PointerClean == GSpec => []CursorClean
<1>1. GInv => CursorClean
  BY DEF GInv, Picture
<1> QED BY <1>1, DesktopInvariance, PTL

(***************************************************************************)
(* gui_redraw and the terminal's own drawing leave every cell as the       *)
(* topmost window there has it, unless the terminal has printed over       *)
(* another window since the last redraw.                                   *)
(***************************************************************************)
THEOREM PictureRight == GSpec => []PictureOK
<1>1. GInv => PictureOK
  BY DEF GInv, Picture
<1> QED BY <1>1, DesktopInvariance, PTL

(***************************************************************************)
(* gui_remove_window and bring_to_front leave no pointer to a window that  *)
(* is not in the list, and only the top window is ever dragged.            *)
(***************************************************************************)
THEOREM HandlesRight == GSpec => []HandlesLive
  BY HandlesFollow, DesktopInvariance, PTL
=============================================================================
