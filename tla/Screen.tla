------------------------------- MODULE Screen -------------------------------
(***************************************************************************)
(* What the user sees: the scrollback, which programs write to as text,    *)
(* and under it the panel with the editor and the footer, of which only    *)
(* the rows that changed are written (nycode-tui, diff.rs, terminal.rs;    *)
(* nycode-cli, screen.rs, screen/raw.rs, interactive.rs,                   *)
(* interactive/panel.rs).  The terminal is modelled as a grid: it moves    *)
(* the cursor within its rows and scrolls only for text that goes on below *)
(* the last one; when the window narrows, the rows lose what is past it.   *)
(* What the panel has left behind is not looked at again.                  *)
(***************************************************************************)
EXTENDS Editor

CONSTANTS
    Foreign,       \* what a program that is not the session writes
    Word,          \* what the model, a tool or the session says
    Widths,        \* widths the window may have
    Height,        \* rows the terminal has
    MaxText,       \* bound: characters in the editor
    MaxTurns,      \* bound: lines submitted
    MaxResizes     \* bound: changes of the window's width

ASSUME ScreenConstants ==
    /\ Widths \subseteq Nat \ {0} /\ Widths # {} /\ Height \in Nat \ {0}
    /\ MaxText \in Nat /\ MaxTurns \in Nat /\ MaxResizes \in Nat

VARIABLES
    editor,        \* the editor of the panel
    tally,         \* turns the footer has counted
    cols,          \* the width of the window
    unheard,       \* the widths told by events that nobody read yet
    width,         \* what the renderer takes the width for
    grid,          \* the terminal: its rows, and where the cursor is
    renderer,      \* the frame drawn last, and the row of it the cursor is in
    submitted,     \* bound: lines submitted so far
    resizes,       \* bound: changes of width so far
    quitting,
    missed,        \* history: a turn read the last of the events, not the session
    spoilt         \* history: what drew over the panel or left something under it

widthVars == <<cols, unheard, width, resizes, missed>>
screenVars == <<editor, tally, widthVars, grid, renderer, submitted, quitting, spoilt>>

-----------------------------------------------------------------------------
(* The terminal: external, as the escapes the session writes drive it.     *)

\* Rows from the top of the panel down, with the cursor in one of them; above
\* counts the rows of the window over them, negative once they scroll out.
Grid == [rows |-> << <<>> >>, row |-> 1, col |-> 0, above |-> 0]

Padded(rows, count) == [r \in 1..Max({Len(rows), count}) |-> IF r <= Len(rows) THEN rows[r] ELSE <<>>]

\* A line break: down and to the left.  On the last row the window scrolls.
LineFeed(g) ==
    [g EXCEPT !.rows = Padded(@, g.row + 1), !.row = @ + 1, !.col = 0,
              !.above = IF g.above + g.row = Height THEN @ - 1 ELSE @]

\* A cell goes over what is there, and to the next row past the margin.
PutCell(g, cell, margin) ==
    LET at == IF g.col < margin THEN g ELSE LineFeed(g)
        row == at.rows[at.row]
        put == IF at.col < Len(row) THEN [row EXCEPT ![at.col + 1] = cell] ELSE Append(row, cell)
    IN  [at EXCEPT !.rows = [@ EXCEPT ![at.row] = put], !.col = @ + 1]

PutText(g, text, margin) ==
    LET after[n \in 0..Len(text)] ==
            IF n = 0 THEN g
            ELSE IF text[n] = LF THEN LineFeed(after[n - 1])
            ELSE PutCell(after[n - 1], text[n], margin)
    IN  after[Len(text)]

\* What is over the cursor belongs to the scrollback.
FromHere(g) ==
    [g EXCEPT !.rows = SubSeq(@, g.row, Len(@)), !.row = 1, !.above = @ + g.row - 1]

\* The cursor moves by rows, no further than the last, and the row is new; one
\* that does not fit the window goes on in the next.
PutRow(g, down, row, margin) ==
    LET at == Min({Height - g.above, g.row + down})
        With(new) == [g EXCEPT !.rows = [Padded(@, at) EXCEPT ![at] = new],
                               !.row = at, !.col = Len(new)]
    IN  IF Len(row) <= margin THEN With(row) ELSE PutText(With(<<>>), row, margin)

\* A window that narrows cuts the rows.
Cut(g, margin) ==
    [g EXCEPT !.rows = [r \in DOMAIN @ |-> Truncated(@[r], margin)], !.col = Min({@, margin})]

-----------------------------------------------------------------------------
(* The differential drawing: diff.rs, terminal.rs                          *)

\* The session's own text goes where the cursor is, and the panel is to be
\* drawn anew from where it ends.
NothingDrawn == [previous |-> <<>>, at |-> 0]

\* Mutant: text written, and the frame before it still counts as drawn.
StillDrawn == renderer

AfterText == NothingDrawn

\* Rows that differ are written; rows the frame no longer has are cleared.
Differs(drawn, frame, k) ==
    \/ k > Len(frame) \/ k > Len(drawn.previous)
    \/ frame[k] # drawn.previous[k]

Written(st, frame, k, margin) ==
    [grid |-> PutRow(st.grid, (k - 1) - st.at, IF k <= Len(frame) THEN frame[k] ELSE <<>>, margin),
     at |-> k - 1]

Rendered(g, drawn, frame, margin) ==
    LET last == Max({Len(frame), Len(drawn.previous)})
        after[k \in 0..last] ==
            IF k = 0 THEN [grid |-> g, at |-> drawn.at]
            ELSE IF Differs(drawn, frame, k) THEN Written(after[k - 1], frame, k, margin)
            ELSE after[k - 1]
    IN  after[last]

FooterCells == 2
Footer(count) == [i \in 1..FooterCells |-> count]

\* The rows of the editor and the footer under them.
PanelFrame(ed, count, w) ==
    LET rows == EditorRows(ed.text, w) \o <<Footer(count)>>
    IN  [k \in DOMAIN rows |-> Truncated(rows[k], w)]

-----------------------------------------------------------------------------
(* The session: interactive.rs                                             *)

MeetsTheBottom(g, drawn, frame) == g.above + g.row - drawn.at + Len(frame) - 1 > Height

WrapsAround(drawn, frame, margin) ==
    \E k \in DOMAIN frame : Differs(drawn, frame, k) /\ Len(frame[k]) > margin

\* The panel is drawn, from a grid and what the renderer knows of it.
Draw(g, drawn, causes) ==
    LET frame == PanelFrame(editor', tally', width')
        end == Rendered(g, drawn, frame, cols')
    IN  /\ grid' = end.grid
        /\ renderer' = [previous |-> frame, at |-> end.at]
        /\ spoilt' = causes \cup (IF MeetsTheBottom(g, drawn, frame) THEN {"bottom"} ELSE {})
                            \cup (IF WrapsAround(drawn, frame, cols') THEN {"wrapped"} ELSE {})

ScreenInit ==
    /\ \E entries \in {<<>>} \cup {<< <<ch>> >> : ch \in Letters} : editor = NewEditor(entries)
    /\ tally = 0 /\ submitted = 0 /\ resizes = 0
    /\ cols \in Widths /\ width = cols
    /\ unheard = <<>> /\ missed = FALSE
    /\ quitting = FALSE
    /\ LET frame == PanelFrame(editor, tally, width)
           start == FromHere(PutText(Grid, <<Word, LF, LF>>, cols))
           end == Rendered(start, NothingDrawn, frame, cols)
       IN  /\ grid = end.grid /\ renderer = [previous |-> frame, at |-> end.at]
           /\ spoilt = IF MeetsTheBottom(start, NothingDrawn, frame) THEN {"bottom"} ELSE {}

\* Bound: the session is followed until the panel meets the last row, does not
\* fit the window, or is written over.
Goes == ~quitting /\ spoilt \cap {"bottom", "wrapped", "other"} = {}

\* A key or a paste that edits.
Types ==
    /\ Goes
    /\ \E ed \in Edits(editor, {<<ch, LF>> : ch \in Letters}) \ {editor} :
        /\ Len(ed.text) <= MaxText
        /\ editor' = ed
    /\ UNCHANGED <<tally, widthVars, submitted, quitting>>
    /\ Draw(grid, renderer, spoilt)

\* Ctrl+L.
Redraws ==
    /\ ~quitting
    /\ UNCHANGED <<editor, tally, widthVars, submitted, quitting>>
    /\ Draw(grid, renderer, spoilt)

\* The window takes another width, and an event tells it.
WindowChanges ==
    /\ Goes /\ resizes < MaxResizes
    /\ \E w \in Widths \ {cols} :
        /\ cols' = w
        /\ unheard' = Append(unheard, w)
        /\ grid' = Cut(grid, w)
    /\ resizes' = resizes + 1
    /\ UNCHANGED <<editor, tally, width, renderer, submitted, quitting, missed, spoilt>>

\* The session reads the event between turns.  Another width forgets the frame,
\* not where the cursor is in it.
HearsOfTheWindow ==
    /\ Goes /\ unheard # <<>>
    /\ width' = Head(unheard) /\ unheard' = Tail(unheard)
    /\ missed' = FALSE
    /\ UNCHANGED <<editor, tally, cols, resizes, submitted, quitting>>
    /\ IF width' # width
          THEN Draw(grid, [renderer EXCEPT !.previous = <<>>], spoilt \cup {"resize"})
          ELSE Draw(grid, renderer, spoilt)

Says == {<<>>, <<Word, LF>>}
Notice == <<LF, Word, LF>>

\* What a submitted line puts in the scrollback before the panel is drawn
\* again: the echo; then either what a command of the session shows, or the
\* answer as it streams, the notices of the queue and of approvals, and the
\* error if there is one.
Echo(typed) == <<LF, PROMPT>> \o typed \o <<LF, LF>>
Shown == {Notice \o <<LF>>}
Streamed == {said \o rest \o <<LF>> : said \in Says \cup {Notice}, rest \in {<<>>, Notice}}

\* The window may change after the echo.  A turn of the model reads the keys of
\* the user, in steer and in read_answer, and drops the other events it reads,
\* the first dropped of them; a command of the session reads none.
TakesTurn(written, counted, w, dropped) ==
    LET told == IF w = cols THEN unheard ELSE Append(unheard, w)
        echoed == PutText(grid, Echo(editor.text), cols)
        start == FromHere(PutText(Cut(echoed, w), written, w))
        below == \E r \in DOMAIN start.rows \ {1} : start.rows[r] # <<>>
    IN  /\ Goes /\ submitted < MaxTurns /\ ~IsBlank(editor.text)
        /\ w # cols => resizes < MaxResizes
        /\ dropped <= Len(told)
        /\ submitted' = submitted + 1
        /\ editor' = Submitted(editor)
        /\ tally' = tally + counted
        /\ cols' = w /\ resizes' = IF w = cols THEN resizes ELSE resizes + 1
        /\ unheard' = SubSeq(told, dropped + 1, Len(told))
        /\ missed' = (missed \/ dropped > 0)
        /\ UNCHANGED <<width, quitting>>
        /\ Draw(start, AfterText, IF below THEN {"below"} ELSE {})

Submits ==
    \/ \E written \in Shown, w \in Widths : TakesTurn(written, 0, w, 0)
    \/ \E written \in Streamed, counted \in {0, 1}, w \in Widths, dropped \in 0..MaxResizes :
          TakesTurn(written, counted, w, dropped)

\* /quit, or Ctrl+D on an empty editor.
Quits ==
    /\ Goes
    /\ quitting' = TRUE
    /\ \/ editor.text = <<>> /\ UNCHANGED <<editor, grid, renderer, submitted>>
       \/ /\ submitted < MaxTurns /\ ~IsBlank(editor.text)
          /\ submitted' = submitted + 1
          /\ editor' = Submitted(editor)
          /\ grid' = PutText(grid, Echo(editor.text), cols)
          /\ renderer' = AfterText
    /\ UNCHANGED <<tally, widthVars, spoilt>>

\* Another program writes over the screen.
Dirties ==
    /\ Goes
    /\ spoilt' = spoilt \cup {"other"}
    /\ grid' = [grid EXCEPT !.rows[grid.row] = <<Foreign>>]
    /\ UNCHANGED <<editor, tally, widthVars, renderer, submitted, quitting>>

ScreenNext ==
    \/ Types \/ Redraws \/ WindowChanges \/ HearsOfTheWindow
    \/ Submits \/ Quits \/ Dirties

ScreenSpec == ScreenInit /\ [][ScreenNext]_screenVars

-----------------------------------------------------------------------------
Top == grid.row - renderer.at

RowsAreShown(frame) ==
    \A k \in DOMAIN frame :
        Top + k - 1 \in DOMAIN grid.rows /\ grid.rows[Top + k - 1] = frame[k]

NothingBelow(frame) ==
    \A r \in DOMAIN grid.rows : r >= Top + Len(frame) => grid.rows[r] = <<>>

(* Once the events of the window are read, the panel shows the editor and  *)
(* the footer as they are, for the width the renderer knows, though only   *)
(* the rows that differ are written: after any edit, recall from the       *)
(* history, resize or turn, as long as the terminal has rows for it under  *)
(* the cursor, no row written is wider than the window and no other        *)
(* program writes.  That width is the window's unless a turn read the last *)
(* of the events.  And nothing is left under the panel, unless the width   *)
(* changed or the panel stood lower than what was written over it          *)
(* (diff.rs, render; terminal.rs, draw and emit; approval.rs, steer and    *)
(* read_answer).                                                           *)
PanelShowsTheFrame ==
    LET frame == PanelFrame(editor, tally, width)
    IN  ~quitting /\ unheard = <<>> =>
            /\ ~missed => width = cols
            /\ spoilt \cap {"other", "bottom", "wrapped"} = {} => RowsAreShown(frame)
            /\ spoilt = {} => NothingBelow(frame)

=============================================================================
