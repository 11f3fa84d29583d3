----------------------------- MODULE Terminal -----------------------------
(***************************************************************************)
(* The display: the screen of the machine (vga), the copy of its           *)
(* characters that src/screen_buffer.c keeps (buf) and the terminal on a   *)
(* serial line, which gets only what differs from the copy (term); and the *)
(* keys of that terminal (ser_map, check_input).  cprint, scroll,          *)
(* clear_scroll, cplace, ttyprint and footer are in src/lib.c, the popups  *)
(* in src/config.c.                                                        *)
(*                                                                         *)
(* A CPU has calls to make, calls[c], the first one first; one that sends  *)
(* to the line puts the cursor somewhere and then writes, in two steps.    *)
(***************************************************************************)
EXTENDS Integers, Sequences, SequencesExt

CONSTANTS
  Cpus,        \* CPUs that print: the master, and others with errors of their own
  SCREEN_X,    \* columns and rows, 80 and 25 in the code
  SCREEN_Y,
  LINE_HEADER, \* the lines that clear_scroll clears begin here, 12 in the code
  LINE_SCROLL, \* and the lines that scroll here, 14; both end in front of the last
  POP_Y, POP_X, POP_H, POP_W,  \* place and size of a popup
  SpinY, SpinX,                \* where a spinner turns
  Glyphs,      \* characters of the messages, with " "
  MaxText,     \* bound: characters of a message
  Cleared      \* serial_echo_init calls clear_screen_buf (i386)

ASSUME LinesAssumption == LINE_HEADER < LINE_SCROLL /\ LINE_SCROLL < SCREEN_Y - 1 /\ SCREEN_X \in Nat \ {0}
ASSUME GlyphsAssumption == " " \in Glyphs

VARIABLES
  vga, buf, term,  \* rows of characters; NUL where buf has not been written
  cur,             \* the terminal's cursor
  calls,
  save,            \* what popup has saved, <<>> when it is not up
  slock, msg_line,
  wiped            \* history: clear_scroll has been called

vars == <<vga, buf, term, cur, calls, save, slock, msg_line, wiped>>

NUL == "nul"
Rows == 0 .. SCREEN_Y - 1
Cols == 0 .. SCREEN_X - 1
Bottom == SCREEN_Y - 2            \* line 23
Idle(c) == calls[c] = <<>>
Blank == [y \in Rows |-> [x \in Cols |-> " "]]

Init == /\ vga = Blank /\ term = Blank
        /\ buf = [y \in Rows |-> [x \in 0 .. SCREEN_X |-> IF Cleared /\ x < SCREEN_X THEN " " ELSE NUL]]
        /\ cur = <<0, 0>> /\ calls = [c \in Cpus |-> <<>>] /\ save = <<>>
        /\ slock = FALSE /\ msg_line = LINE_SCROLL - 1 /\ wiped = FALSE
-----------------------------------------------------------------------------
(* Writing a text, a sequence of characters, into a row at column x. *)
Put(row, x, text) ==
  [k \in DOMAIN row |-> IF k \in x .. x + Len(text) - 1 /\ k < SCREEN_X THEN text[k - x + 1] ELSE row[k]]

\* The string at column x of a row of buf: it ends at the first NUL.
String(row, x) ==
  LET end == CHOOSE k \in x .. SCREEN_X : row[k] = NUL /\ \A j \in x .. k - 1 : row[j] # NUL
  IN [k \in 1 .. end - x |-> row[x + k - 1]]

Cprint(y, x, text) == [fn |-> "cprint", y |-> y, x |-> x, text |-> text]
Line(y, x, text) == [fn |-> "line", y |-> y, x |-> x, text |-> text]
Region(top, left, bottom, right) ==
  [fn |-> "region", y |-> top, x |-> left, bottom |-> bottom, right |-> right]
Sent(call, text, tmp) == [fn |-> "sent", call |-> call, text |-> text, tmp |-> tmp]

Footer == [fn |-> "footer"]
\* Fault: the last column is left out, as scroll does.
Redraw_narrow == <<Region(0, 0, SCREEN_Y, SCREEN_X - 1), [fn |-> "redrawn"]>>

\* tty_print_screen, and its return to check_input.
Redraw == <<Region(0, 0, SCREEN_Y, SCREEN_X), [fn |-> "redrawn"]>>
BoxRegion == Region(POP_Y, POP_X, POP_Y + POP_H, POP_X + POP_W)

Become(c, cs) == calls' = [calls EXCEPT ![c] = cs \o Tail(@)]
Is(c, fn) == ~Idle(c) /\ Head(calls[c]).fn = fn

FirstDifference(y, x, text) ==
  LET d == {k \in 1 .. Len(text) : text[k] # buf[y][x + k - 1]}
  IN IF d = {} THEN 0 ELSE CHOOSE k \in d : \A j \in d : k <= j

\* cprint: the screen, then tty_print_line with what differs from the copy.
cprint(c) ==
  /\ Is(c, "cprint")
  /\ LET r == Head(calls[c])
         k == FirstDifference(r.y, r.x, r.text)
     IN /\ vga' = [vga EXCEPT ![r.y] = Put(@, r.x, r.text)]
        /\ Become(c, IF k = 0 THEN <<>> ELSE <<Line(r.y, r.x + k - 1, SubSeq(r.text, k, Len(r.text)))>>)
  /\ UNCHANGED <<buf, term, cur, save, slock, msg_line, wiped>>

\* The cursor of ttyprint.  tty_print_region ends the string of its row with a
\* NUL in buf until it is sent.
Cursor(c) ==
  /\ Is(c, "line") \/ Is(c, "region")
  /\ LET r == Head(calls[c])
     IN IF r.fn = "region" /\ r.y = r.bottom
        THEN Become(c, <<>>) /\ UNCHANGED <<buf, cur>>
        ELSE /\ cur' = <<r.y, r.x>>
             /\ IF r.fn = "line" THEN Become(c, <<Sent(r, r.text, NUL)>>) /\ UNCHANGED buf
                ELSE /\ buf' = [buf EXCEPT ![r.y][r.right] = NUL]
                     /\ Become(c, <<Sent(r, String(buf'[r.y], r.x), buf[r.y][r.right])>>)
  /\ UNCHANGED <<vga, term, save, slock, msg_line, wiped>>

\* The text of ttyprint, and buf: the line, or what the NUL has replaced.
Send(c) ==
  /\ Is(c, "sent")
  /\ LET s == Head(calls[c])
         r == s.call
     IN /\ term' = [term EXCEPT ![cur[1]] = Put(@, cur[2], s.text)]
        /\ cur' = <<cur[1], cur[2] + Len(s.text)>>
        /\ IF r.fn = "line"
           THEN buf' = [buf EXCEPT ![r.y] = Put(@, r.x, r.text)] /\ Become(c, <<>>)
           ELSE /\ buf' = [buf EXCEPT ![r.y][r.right] = s.tmp]
                /\ Become(c, <<[r EXCEPT !.y = @ + 1]>>)
  /\ UNCHANGED <<vga, save, slock, msg_line, wiped>>
-----------------------------------------------------------------------------
\* The lines move up by one, the last one becomes blank.
Scrolled(grid) ==
  [y \in Rows |-> IF y \in LINE_SCROLL .. Bottom - 1
                  THEN [x \in DOMAIN grid[y] |-> IF x < SCREEN_X THEN grid[y + 1][x] ELSE grid[y][x]]
                  ELSE IF y = Bottom THEN [x \in DOMAIN grid[y] |-> IF x < SCREEN_X THEN " " ELSE grid[y][x]]
                  ELSE grid[y]]

\* The line at the bottom, and the last column, are not sent.
ScrollCalls == <<Region(LINE_SCROLL, 0, Bottom, SCREEN_X - 1)>>

AtBottom == msg_line >= Bottom

\* scroll and the message under it, from column x on.
Message(c, x, text) ==
  /\ Idle(c)
  /\ IF ~AtBottom
     THEN /\ msg_line' = msg_line + 1
          /\ calls' = [calls EXCEPT ![c] = <<Cprint(msg_line + 1, x, text)>>]
          /\ UNCHANGED <<vga, buf>>
     ELSE /\ ~slock
          /\ vga' = Scrolled(vga) /\ buf' = Scrolled(buf)
          /\ calls' = [calls EXCEPT ![c] = ScrollCalls \o <<Cprint(msg_line, x, text)>>]
          /\ UNCHANGED msg_line
  /\ UNCHANGED <<term, cur, save, slock, wiped>>

\* A field outside the region that scrolls, such as the pass or the test.
Field(c, text) ==
  /\ Idle(c)
  /\ calls' = [calls EXCEPT ![c] = <<Cprint(0, 0, text)>>]
  /\ UNCHANGED <<vga, buf, term, cur, save, slock, msg_line, wiped>>

\* update_err_counts and the modes begin their display anew.
clear_scroll(c) ==
  /\ Idle(c) /\ ~wiped
  /\ vga' = [y \in Rows |-> IF y \in LINE_HEADER .. Bottom THEN Blank[y] ELSE vga[y]]
  /\ msg_line' = LINE_SCROLL - 1 /\ wiped' = TRUE
  /\ UNCHANGED <<buf, term, cur, calls, save, slock>>

\* do_tick: the spinner is on the screen only.
cplace(c, g) ==
  /\ Idle(c)
  /\ vga' = [vga EXCEPT ![SpinY][SpinX] = g]
  /\ UNCHANGED <<buf, term, cur, calls, save, slock, msg_line, wiped>>

\* footer
footer(c) ==
  /\ Is(c, "footer")
  /\ Become(c, <<Cprint(SCREEN_Y - 1, 0, IF slock THEN <<"L">> ELSE <<" ">>)>>)
  /\ UNCHANGED <<vga, buf, term, cur, save, slock, msg_line, wiped>>
redrawn(c) ==
  /\ Is(c, "redrawn") /\ Become(c, <<>>)
  /\ UNCHANGED <<vga, buf, term, cur, save, slock, msg_line, wiped>>
-----------------------------------------------------------------------------
(* Popups: get_config opens one over the display and takes it away. *)
InBox(y, x) == y \in POP_Y .. POP_Y + POP_H - 1 /\ x \in POP_X .. POP_X + POP_W - 1
Over(grid, Val(_, _)) ==
  [y \in Rows |-> [x \in DOMAIN grid[y] |-> IF InBox(y, x) THEN Val(y, x) ELSE grid[y][x]]]

popup(c) ==
  LET Space(y, x) == " "
  IN /\ save' = [y \in POP_Y .. POP_Y + POP_H - 1 |-> [x \in POP_X .. POP_X + POP_W - 1 |-> vga[y][x]]]
     /\ vga' = Over(vga, Space) /\ buf' = Over(buf, Space)
     /\ calls' = [calls EXCEPT ![c] = <<BoxRegion>>]

\* The menu prints and clears itself, over and over.
Menu(c, text) ==
  /\ Idle(c) /\ save # <<>>
  /\ calls' = [calls EXCEPT ![c] = <<Cprint(POP_Y, POP_X, text)>>]
  /\ UNCHANGED <<vga, buf, term, cur, save, slock, msg_line, wiped>>

popclear(c) ==
  LET Space(y, x) == " "
  IN /\ Idle(c) /\ save # <<>>
     /\ vga' = Over(vga, Space) /\ buf' = Over(buf, Space)
     /\ calls' = [calls EXCEPT ![c] = <<BoxRegion>>]
     /\ UNCHANGED <<term, cur, save, slock, msg_line, wiped>>

\* Fault: the screen comes back, the copy does not.
popdown_screen(c) ==
  LET Saved(y, x) == save[y][x]
  IN /\ Idle(c) /\ save # <<>>
     /\ vga' = Over(vga, Saved) /\ save' = <<>>
     /\ calls' = [calls EXCEPT ![c] = <<BoxRegion>>]
     /\ UNCHANGED <<buf, term, cur, slock, msg_line, wiped>>

popdown(c) ==
  LET Saved(y, x) == save[y][x]
  IN /\ Idle(c) /\ save # <<>>
     /\ vga' = Over(vga, Saved) /\ buf' = Over(buf, Saved) /\ save' = <<>>
     /\ calls' = [calls EXCEPT ![c] = <<BoxRegion>>]
     /\ UNCHANGED <<term, cur, slock, msg_line, wiped>>
-----------------------------------------------------------------------------
(* check_input: the keys that have to do with the display; the others are  *)
(* in Console.  Space locks scrolling, return unlocks it, L draws anew.    *)
check_input(c, key) ==
  /\ Idle(c) /\ save = <<>>
  /\ \/ /\ key = "c" /\ popup(c) /\ UNCHANGED slock
     \/ /\ key \in {"CR", "SP"} /\ slock' = (key = "SP")
        /\ calls' = [calls EXCEPT ![c] = <<Footer>>] /\ UNCHANGED <<vga, buf, save>>
     \/ /\ key = "L"
        /\ calls' = [calls EXCEPT ![c] = Redraw] /\ UNCHANGED <<vga, buf, save, slock>>
  /\ UNCHANGED <<term, cur, msg_line, wiped>>

Texts == UNION {[1 .. n -> Glyphs] : n \in 1 .. MaxText}
Master == CHOOSE c \in Cpus : TRUE
Step(c) == cprint(c) \/ Cursor(c) \/ Send(c) \/ footer(c) \/ redrawn(c)
Errors(c) == \/ \E text \in Texts, x \in {0, SCREEN_X - MaxText} : Message(c, x, text)
             \/ clear_scroll(c)
Next == \/ \E c \in Cpus : Step(c) \/ ((c = Master => save = <<>>) /\ Errors(c))
        \/ save = <<>> /\ \/ \E g \in Glyphs : Field(Master, <<g>>) \/ cplace(Master, g)
                          \/ \E key \in {"c", "CR", "SP", "L"} : check_input(Master, key)
        \/ (\E text \in Texts : Menu(Master, text)) \/ popclear(Master) \/ popdown(Master)
Spec == Init /\ [][Next]_vars
-----------------------------------------------------------------------------
TypeOK ==
  /\ vga \in [Rows -> [Cols -> Glyphs \cup {"L"}]] /\ term \in [Rows -> [Cols -> Glyphs \cup {"L"}]]
  /\ buf \in [Rows -> [0 .. SCREEN_X -> Glyphs \cup {"L", NUL}]]
  /\ cur[1] \in Rows /\ cur[2] \in 0 .. SCREEN_X
  /\ msg_line \in LINE_SCROLL - 1 .. Bottom
  /\ slock \in BOOLEAN /\ wiped \in BOOLEAN

Quiet == \A c \in Cpus : Idle(c)
Same(y, x) == buf[y][x] \in {term[y][x], NUL}

\* When nothing is being sent the terminal shows what the copy holds, but for the
\* places that scroll leaves out: the line it has opened, and the last column.
Shown == Quiet => \A y \in Rows, x \in Cols :
                    Same(y, x) \/ y = Bottom \/ (y \in LINE_SCROLL .. Bottom /\ x = SCREEN_X - 1)

\* L repairs the terminal wherever it differs from the copy.
RedrawShowsAll == \A c \in Cpus : Is(c, "redrawn") => \A y \in Rows, x \in Cols : Same(y, x)

\* The copy holds what is on the screen, except where clear_scroll has wiped it
\* and where a spinner turns; the text being printed is on the screen first.
CopyOfScreen == Quiet => \A y \in Rows, x \in Cols :
                           \/ vga[y][x] = buf[y][x]
                           \/ wiped /\ y \in LINE_HEADER .. Bottom
                           \/ <<y, x>> = <<SpinY, SpinX>>

\* The terminal follows the screen, through all scrolling, popups and keys.
TerminalFollows == TypeOK /\ Shown /\ CopyOfScreen

\* The line that scroll opens is clear, on the terminal too, for what comes next.
OpenedLineIsClear ==
  \A c \in Cpus : Is(c, "cprint") /\ Head(calls[c]).y = Bottom /\ ~wiped
                  => \A x \in Cols : term[Bottom][x] = " "
=============================================================================
