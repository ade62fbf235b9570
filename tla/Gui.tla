-------------------------------- MODULE Gui --------------------------------
(***************************************************************************)
(* The desktop: the window list and the mouse of kernel/gui, the pointer   *)
(* of fb_cursor.c, the terminal of fb_term.c and the bytes of mouse.c.     *)
(*                                                                         *)
(* The screen is one row of cells.  A window is a row of WindowWidth       *)
(* cells: title bar, content, and at the right end the close button if it  *)
(* has one, else title bar again.  The pointer covers CUR_W cells and is   *)
(* opaque on the first.  A handler runs with interrupts off, and so does   *)
(* the SYS_WRITE that prints: each is one step.                            *)
(***************************************************************************)
EXTENDS Integers, Sequences, SequencesExt

CONSTANTS
    ScreenWidth, WindowWidth, CUR_W,
    MouseBytes,     \* bytes the mouse may send
    Glyphs,         \* characters with a glyph, the blank among them
    MaxCount        \* bound: clicks on the demo's button

ASSUME GuiAssumption ==
    /\ {ScreenWidth, WindowWidth, CUR_W, MaxCount} \subseteq Nat
    /\ CUR_W > 0 /\ ScreenWidth > CUR_W /\ WindowWidth > 2 /\ MouseBytes \subseteq 0..255

VARIABLES
    windows,        \* bottom to top
    wx,             \* where each window is
    focus, drag_win, drag_off,
    buttons, last_buttons,      \* whether the left one is down
    packet,         \* the bytes of a mouse packet so far
    cur_x, saved,   \* the pointer and the pixels under it
    screen_buf, cursor_x, region_x,     \* the terminal's text, column and place
    counter_value,
    screen,
    canvas,         \* observer: the screen without a pointer
    overdrawn       \* observer: the terminal has printed over another window

gvars == <<windows, wx, focus, drag_win, drag_off, buttons, last_buttons, packet, cur_x, saved,
           screen_buf, cursor_x, region_x, counter_value, screen, canvas, overdrawn>>
desk  == <<windows, wx, focus, drag_win, drag_off, last_buttons, region_x, counter_value>>

Screen == 0..(ScreenWidth - 1)
Wins == {"term", "demo"}
NoWin == "none"
cols == WindowWidth - 2

Blank == " "
Desktop == <<"desk", "", 0>>
Arrow == <<"arrow", "", 0>>
Glyph(c) == <<"glyph", c, 0>>
Title(w, f) == <<"title", w, IF w = f THEN 1 ELSE 0>>
Close(w) == <<"close", w, 0>>
Counter(n) == <<"count", "", n>>
Empty == [i \in 0..(cols - 1) |-> Blank]

-----------------------------------------------------------------------------
(***************************************************************************)
(* Drawing, clipped to the screen: a window with its title bar in the      *)
(* colour of the focus f, then its contents, the terminal's in its region. *)
(***************************************************************************)
Frame(w, f, n, i) ==
    CASE i = 0 -> Title(w, f)
      [] i = WindowWidth - 1 /\ w = "demo" -> Close(w)
      [] i = WindowWidth - 1 /\ w = "term" -> Title(w, f)
      [] w = "demo" -> Counter(n)
      [] OTHER -> Glyph(Blank)

Cells(x, n) == {p \in Screen : p >= x /\ p < x + n}

TermRedraw(s, buf, region) ==
    [p \in Screen |-> IF p \in Cells(region, cols) THEN Glyph(buf[p - region]) ELSE s[p]]

WindowDraw(s, w, x, f, n, region) ==
    LET framed == [p \in Screen |->
                     IF p \in Cells(x, WindowWidth) THEN Frame(w, f, n, p - x) ELSE s[p]]
    IN  IF w = "term" THEN TermRedraw(framed, screen_buf, region) ELSE framed

Painted(ws, x, f, n, region) ==
    LET drawn[k \in 0..Len(ws)] ==
            IF k = 0 THEN [p \in Screen |-> Desktop]
            ELSE WindowDraw(drawn[k - 1], ws[k], x[ws[k]], f, n, region)
    IN  drawn[Len(ws)]

(***************************************************************************)
(* fb_cursor_hide puts back what was under the pointer, save_under and     *)
(* draw_cursor take and cover it.                                          *)
(***************************************************************************)
NotRestored(s) == s                 \* mutant: hiding draws nothing

Hide(s) == [p \in Screen |-> IF p \in Cells(cur_x, CUR_W) THEN saved[p - cur_x] ELSE s[p]]

Under(s, x) == [i \in 0..(CUR_W - 1) |-> s[x + i]]

WithArrow(s, x) == [s EXCEPT ![x] = Arrow]

Show(s, x) == saved' = Under(s, x) /\ screen' = WithArrow(s, x)

(***************************************************************************)
(* gui_redraw with the desk as the handler leaves it.                      *)
(***************************************************************************)
GuiRedraw ==
    LET s == Painted(windows', wx', focus', counter_value', region_x')
    IN  /\ canvas' = s
        /\ Show(s, cur_x)
        /\ overdrawn' = FALSE

GInit ==
    /\ windows = <<"term", "demo">>
    /\ wx = [w \in Wins |-> IF w = "term" THEN 0 ELSE ScreenWidth - WindowWidth]
    /\ focus = NoWin /\ drag_win = NoWin /\ drag_off = 0
    /\ buttons = FALSE /\ last_buttons = FALSE /\ packet = << >>
    /\ cur_x = ScreenWidth \div 2
    /\ screen_buf = Empty /\ cursor_x = 0
    /\ region_x = wx["term"] + 1
    /\ counter_value = 0
    /\ canvas = Painted(windows, wx, focus, 0, region_x)
    /\ saved = Under(canvas, cur_x)
    /\ screen = WithArrow(canvas, cur_x)
    /\ overdrawn = FALSE

-----------------------------------------------------------------------------
(***************************************************************************)
(* mouse_handler, a byte at a time: the first of a packet must have bit 3  *)
(* set, the third moves the pointer by half the second, as a signed byte   *)
(* and rounded towards zero.                                               *)
(***************************************************************************)
Signed(b) == IF b < 128 THEN b ELSE b - 256
Half(n) == IF n < 0 THEN -((-n) \div 2) ELSE n \div 2
Clamp(x) == IF x < 0 THEN 0 ELSE IF x > ScreenWidth - CUR_W THEN ScreenWidth - CUR_W ELSE x

MouseByte(b) ==
    /\ Len(packet) < 2
    /\ packet # << >> \/ (b \div 8) % 2 = 1
    /\ packet' = Append(packet, b)
    /\ UNCHANGED <<desk, buttons, cur_x, saved, screen_buf, cursor_x, screen, canvas, overdrawn>>

MouseMove ==
    /\ Len(packet) = 2
    /\ packet' = << >>
    /\ buttons' = (packet[1] % 2 = 1)
    /\ cur_x' = Clamp(cur_x + Half(Signed(packet[2])))
    /\ Show(Hide(screen), cur_x')
    /\ UNCHANGED <<desk, screen_buf, cursor_x, canvas, overdrawn>>

-----------------------------------------------------------------------------
(***************************************************************************)
(* gui_on_mouse, from the timer.                                           *)
(***************************************************************************)
Hit(w) == cur_x >= wx[w] /\ cur_x < wx[w] + WindowWidth

TopWindow ==
    LET hits == {i \in DOMAIN windows : Hit(windows[i])}
    IN  IF hits = {} THEN NoWin ELSE windows[CHOOSE i \in hits : \A j \in hits : j <= i]

CloseHit(w) == w = "demo" /\ cur_x = wx[w] + WindowWidth - 1
InTitleBar(w) == cur_x \in {wx[w], wx[w] + WindowWidth - 1}
ButtonHit(w) == w = "demo" /\ ~InTitleBar(w)

Pressed == buttons /\ ~last_buttons
Without(w) == RemoveFirst(windows, w)

mouse == <<buttons, packet, cur_x, screen_buf, cursor_x>>

(***************************************************************************)
(* gui_remove_window: the focus of a closed window goes to the top one.    *)
(***************************************************************************)
KeepFocus(w) == focus               \* mutant: the closed window keeps it

FocusAfter(w) ==
    IF focus # w THEN focus
    ELSE IF Without(w) = << >> THEN NoWin ELSE Last(Without(w))

CloseWindow ==
    /\ Pressed /\ TopWindow # NoWin /\ CloseHit(TopWindow)
    /\ windows' = Without(TopWindow)
    /\ focus' = FocusAfter(TopWindow)
    /\ drag_win' = IF drag_win = TopWindow THEN NoWin ELSE drag_win
    /\ last_buttons' = buttons
    /\ UNCHANGED <<wx, drag_off, region_x, counter_value, mouse>>
    /\ GuiRedraw

ClickWindow ==
    /\ Pressed /\ TopWindow # NoWin /\ ~CloseHit(TopWindow)
    /\ ButtonHit(TopWindow) => counter_value < MaxCount
    /\ LET w == TopWindow
       IN  /\ windows' = Append(Without(w), w)
           /\ focus' = w
           /\ drag_win' = IF InTitleBar(w) THEN w ELSE drag_win
           /\ drag_off' = IF InTitleBar(w) THEN cur_x - wx[w] ELSE drag_off
           /\ counter_value' = counter_value + IF ButtonHit(w) THEN 1 ELSE 0
    /\ last_buttons' = buttons
    /\ UNCHANGED <<wx, region_x, mouse>>
    /\ GuiRedraw

(***************************************************************************)
(* A press beside every window, and the release that ends a drag.          *)
(***************************************************************************)
PressDesktop ==
    /\ Pressed /\ TopWindow = NoWin
    /\ last_buttons' = buttons
    /\ UNCHANGED <<windows, wx, focus, drag_win, drag_off, region_x, counter_value, mouse, saved,
                   screen, canvas, overdrawn>>

Release ==
    /\ ~buttons /\ last_buttons
    /\ drag_win' = NoWin
    /\ last_buttons' = buttons
    /\ UNCHANGED <<windows, wx, focus, drag_off, region_x, counter_value, mouse, saved, screen,
                   canvas, overdrawn>>

(***************************************************************************)
(* term_on_move takes the terminal's region along.                         *)
(***************************************************************************)
NoOnMove(w, x) == region_x          \* mutant: the region stays behind

RegionAfter(w, x) == IF w = "term" THEN x + 1 ELSE region_x

Drag ==
    /\ buttons /\ last_buttons /\ drag_win # NoWin
    /\ LET x == cur_x - drag_off
       IN  /\ x # wx[drag_win]
           /\ wx' = [wx EXCEPT ![drag_win] = x]
           /\ region_x' = RegionAfter(drag_win, x)
    /\ UNCHANGED <<windows, focus, drag_win, drag_off, last_buttons, counter_value, mouse>>
    /\ GuiRedraw

-----------------------------------------------------------------------------
Owner(p) ==
    LET over == {i \in DOMAIN windows : p \in Cells(wx[windows[i]], WindowWidth)}
    IN  IF over = {} THEN NoWin ELSE windows[CHOOSE i \in over : \A j \in over : j <= i]

(***************************************************************************)
(* fb_term_putc: what it draws goes to the screen wherever the region is.  *)
(* buf and col are the text and the column afterwards, cells what is drawn.*)
(***************************************************************************)
Output(buf, col, cells) ==
    LET draw(s) == [p \in Screen |->
                      IF p - region_x \in cells THEN Glyph(buf[p - region_x]) ELSE s[p]]
        at == {i \in cells : region_x + i \in Screen}
    IN  /\ screen_buf' = buf /\ cursor_x' = col
        /\ canvas' = draw(canvas)
        /\ Show(draw(Hide(screen)), cur_x)
        /\ overdrawn' = (overdrawn \/ \E i \in at : Owner(region_x + i) # "term")
        /\ UNCHANGED <<desk, buttons, packet, cur_x>>

NewLine == Output(Empty, 0, DOMAIN Empty)       \* the one row scrolls away

PutChar(c) ==
    IF cursor_x = cols - 1 THEN NewLine
    ELSE Output([screen_buf EXCEPT ![cursor_x] = c], cursor_x + 1, {cursor_x})

Return == Output(screen_buf, 0, {})

Backspace ==
    IF cursor_x = 0 THEN Output(screen_buf, 0, {})
    ELSE Output([screen_buf EXCEPT ![cursor_x - 1] = Blank], cursor_x - 1, {cursor_x - 1})

-----------------------------------------------------------------------------
GNext ==
    \/ \E b \in MouseBytes : MouseByte(b)
    \/ MouseMove
    \/ CloseWindow \/ ClickWindow \/ PressDesktop \/ Release \/ Drag
    \/ \E c \in Glyphs : PutChar(c)
    \/ NewLine \/ Return \/ Backspace

GSpec == GInit /\ [][GNext]_gvars

-----------------------------------------------------------------------------
(***************************************************************************)
(* The pointer never leaves a trace and never hides a change: the screen   *)
(* is always what the windows and the terminal have drawn with the arrow   *)
(* on top, and what is kept under the arrow is what belongs there, however *)
(* printing, redrawing and moving follow each other.                       *)
(***************************************************************************)
CursorClean == screen = WithArrow(canvas, cur_x) /\ saved = Under(canvas, cur_x)

Topmost(p) ==
    LET w == Owner(p)
        i == p - wx[w]
    IN  IF w = NoWin THEN Desktop
        ELSE IF w = "term" /\ i \in 1..cols THEN Glyph(screen_buf[i - 1])
        ELSE Frame(w, focus, counter_value, i)

(***************************************************************************)
(* Every cell shows the topmost window there, with its present text,       *)
(* counter and focus, until the terminal prints where another window       *)
(* covers it; the next redraw repairs that.                                *)
(***************************************************************************)
PictureOK == overdrawn \/ \A p \in Screen : canvas[p] = Topmost(p)

(***************************************************************************)
(* The focus and the dragged window are in the list, each window is there  *)
(* at most once, and only the top window is dragged and only while the     *)
(* button is held.                                                         *)
(***************************************************************************)
HandlesLive ==
    /\ {focus, drag_win} \subseteq ToSet(windows) \cup {NoWin}
    /\ IsInjective(windows)
    /\ drag_win # NoWin => last_buttons /\ drag_win = Last(windows) /\ drag_win = focus
=============================================================================
