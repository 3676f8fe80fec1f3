------------------------------- MODULE Editor -------------------------------
(***************************************************************************)
(* The line editor of the interactive session (nycode-tui, editor.rs), its *)
(* keys (keys.rs, and step of nycode-cli interactive/panel.rs) and the     *)
(* rows it is shown as (layout.rs, width.rs).  Every character takes one   *)
(* cell.  Where the cursor is shown is left out: the session draws the     *)
(* rows of a frame only.                                                   *)
(***************************************************************************)
EXTENDS Characters, Integers, Sequences, SequencesExt

CONSTANTS
    PROMPT, CONTINUATION   \* what the first row and the next ones start with

\* browsing is 0 outside the history, or the entry being shown.
NewEditor(entries) == [text |-> <<>>, cursor |-> 0, history |-> entries,
                       browsing |-> 0, draft |-> <<>>]

IsBlank(text) == \A i \in DOMAIN text : text[i] = LF

-----------------------------------------------------------------------------
(* Edits                                                                   *)

InsertStr(ed, text) ==
    [ed EXCEPT !.text = SubSeq(@, 1, ed.cursor) \o text
                          \o SubSeq(@, ed.cursor + 1, Len(@)),
               !.cursor = @ + Len(text)]

Backspace(ed) ==
    IF ed.cursor = 0 THEN ed
    ELSE [ed EXCEPT !.text = RemoveAt(@, ed.cursor), !.cursor = @ - 1]

Delete(ed) ==
    IF ed.cursor = Len(ed.text) THEN ed
    ELSE [ed EXCEPT !.text = RemoveAt(@, ed.cursor + 1)]

MoveTo(ed, to) == [ed EXCEPT !.cursor = to]
Left(ed) == IF ed.cursor = 0 THEN ed ELSE MoveTo(ed, ed.cursor - 1)
Right(ed) == MoveTo(ed, Min({ed.cursor + 1, Len(ed.text)}))
Home(ed) == MoveTo(ed, Max({0} \cup {i \in 1..ed.cursor : ed.text[i] = LF}))
End(ed) ==
    MoveTo(ed, Min({Len(ed.text)}
                     \cup {i \in ed.cursor..(Len(ed.text) - 1) : ed.text[i + 1] = LF}))

Reset(ed) == NewEditor(ed.history)

Discard(ed) == Reset(ed)

-----------------------------------------------------------------------------
(* The history                                                             *)

Recall(ed, entry) ==
    [ed EXCEPT !.browsing = entry, !.text = ed.history[entry],
               !.cursor = Len(ed.history[entry])]

\* The draft is put away before the first entry is shown.
BrowseBack(ed) ==
    CASE ed.history = <<>> \/ ed.browsing = 1 -> ed
      [] ed.browsing > 1 -> Recall(ed, ed.browsing - 1)
      [] OTHER -> Recall([ed EXCEPT !.draft = ed.text], Len(ed.history))

BrowseForward(ed) ==
    CASE ed.browsing = 0 -> ed
      [] ed.browsing \in 1..(Len(ed.history) - 1) -> Recall(ed, ed.browsing + 1)
      [] OTHER -> [ed EXCEPT !.browsing = 0, !.text = ed.draft,
                             !.cursor = Len(ed.draft), !.draft = <<>>]

\* An entry that repeats the last one takes no place of its own.
Submitted(ed) ==
    Reset(IF ed.history # <<>> /\ Last(ed.history) = ed.text THEN ed
          ELSE [ed EXCEPT !.history = Append(@, ed.text)])

\* What one key, or one paste, makes of the editor.
Edits(ed, inserted) ==
    {InsertStr(ed, <<ch>>) : ch \in Letters \cup {LF}}
        \cup {InsertStr(ed, text) : text \in inserted}
        \cup {Backspace(ed), Delete(ed), Left(ed), Right(ed), Home(ed), End(ed)}
        \cup {Discard(ed), BrowseBack(ed), BrowseForward(ed)}

-----------------------------------------------------------------------------
(* Rows                                                                    *)

\* The pieces of a text between line breaks.
Logical(text) ==
    LET lines[n \in 0..Len(text)] ==
            IF n = 0 THEN << <<>> >>
            ELSE LET made == lines[n - 1]
                 IN  IF text[n] = LF THEN Append(made, <<>>)
                     ELSE [made EXCEPT ![Len(made)] = Append(@, text[n])]
    IN  lines[Len(text)]

\* A line cut into pieces of at most room cells; an empty one is one piece.
Wrapped(line, room) ==
    [k \in 1..Max({1, (Len(line) + room - 1) \div room}) |->
        SubSeq(line, (k - 1) * room + 1, Min({k * room, Len(line)}))]

RESERVED == 1      \* cells the prefixes take

Truncated(row, width) == SubSeq(row, 1, Min({Len(row), width}))

EditorRows(text, width) ==
    LET room == Max({1, width - RESERVED})
        lines == Logical(text)
        Prefix(i, k) == IF i = 1 /\ k = 1 THEN PROMPT ELSE CONTINUATION
        rows(i) == LET pieces == Wrapped(lines[i], room)
                   IN  [k \in DOMAIN pieces |-> <<Prefix(i, k)>> \o pieces[k]]
    IN  FlattenSeq([i \in DOMAIN lines |-> rows(i)])

=============================================================================
