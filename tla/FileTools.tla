----------------------------- MODULE FileTools -----------------------------
(***************************************************************************)
(* The tools read, edit and write on one text file of the workspace        *)
(* (nycode-agent, tools/read.rs, tools/edit.rs, tools/write.rs, capped.rs, *)
(* tool/contain.rs), while another program may write the file too.  A      *)
(* read shows a window of lines and the place to go on from; an edit       *)
(* looks for text in the form the model writes, where a line ends in LF    *)
(* alone, and gives the file back in the form it had.  Characters take one *)
(* byte.                                                                   *)
(***************************************************************************)
EXTENDS Characters, Integers, Sequences, FiniteSets, SequencesExt

CONSTANTS
    CR,
    Nul,           \* what a hole in a file reads as, a letter like any other
    Cap,           \* bytes a window holds (MAX_BYTES of read.rs)
    Ceiling,       \* bytes a read goes through (SCAN_CEILING of capped.rs)
    Piece,         \* bytes given to a thread at a time (2 MiB, tokio::fs::File)
    MaxFile,       \* bound: characters of a file, before the tools write it
    MaxSought,     \* bound: characters of what an edit looks for
    MaxLimit       \* bound: lines a read asks for

Characters == Letters \cup {CR, LF}
Texts(n) == BoundedSeq(Characters, n)

ASSUME FileToolsConstants ==
    /\ CR # LF /\ {CR, LF} \cap Letters = {} /\ Nul \in Letters
    /\ Cap \in Nat \ {0} /\ Ceiling \in Nat \ {0} /\ Piece \in Nat \ {0}
    /\ MaxFile \in Nat /\ MaxSought \in Nat /\ MaxLimit \in Nat \ {0}

\* What the model puts in place of a text; it writes LF and no CR.
Given == BoundedSeq(Letters \cup {LF}, 1)
Pairs == [old : Texts(MaxSought) \ {<<>>}, new : Given]

VARIABLES
    disk,       \* what the file holds
    landing,    \* what a thread of the pool was given to write, and where
    rest,       \* the text not given to a thread yet
    broken,     \* a thread could not write what it was given
    pc,         \* where the writing tool is
    pairs,      \* what the edit under way, or the last one, was asked
    before,     \* what it read
    updated,    \* what it is to write
    paging,     \* the windows read one after the other, up to a call that writes
    raced       \* history: somebody else wrote since the edit read

NoWrite == [at |-> 0, text |-> <<>>]
Idle == [from |-> 0, next |-> 0, seen |-> <<>>, more |-> FALSE]
handing == <<landing, rest, broken>>
writing == <<handing, pc, pairs, before, updated>>
fileVars == <<disk, writing, paging, raced>>

FileInit ==
    /\ disk \in Texts(MaxFile)
    /\ landing = NoWrite /\ rest = <<>> /\ broken = FALSE
    /\ pc = "idle"
    /\ pairs = <<>>
    /\ before = <<>> /\ updated = <<>>
    /\ paging = Idle
    /\ raced = FALSE

-----------------------------------------------------------------------------
(* read: capped.rs, read_window                                            *)

\* The lines of the first n characters of a text, and what is pending of the
\* next one.
Reading(text) ==
    LET read[n \in 0..Len(text)] ==
            IF n = 0 THEN [lines |-> <<>>, pending |-> <<>>]
            ELSE LET had == read[n - 1]
                     line == Append(had.pending, text[n])
                 IN  IF text[n] = LF
                     THEN [lines |-> Append(had.lines, line), pending |-> <<>>]
                     ELSE [lines |-> had.lines, pending |-> line]
    IN  read

\* The last line may lack its LF.
Lines(text) ==
    LET end == Reading(text)[Len(text)]
    IN  IF end.pending = <<>> THEN end.lines ELSE Append(end.lines, end.pending)

\* Mutant: the last line counts only when it ends in LF.
ScannedToTheLastEnd(text) == Reading(text)[Len(text)].lines

\* A read that went through Ceiling bytes returns without what it has of the
\* line it is in, and says there is more.
Scanned(text) ==
    IF Len(text) < Ceiling THEN Lines(text) ELSE Reading(text)[Ceiling].lines

Bytes(lines) == Len(FlattenSeq(lines))

\* The window of at most limit lines from a line on.
Window(text, offset, limit) ==
    LET lines == Scanned(text)
        first == Max({offset, 1})
        Taken(k) == SubSeq(lines, first, first + k - 1)
        fits == {k \in 0..limit : first + k - 1 <= Len(lines) /\ Bytes(Taken(k)) <= Cap}
        count == IF first > Len(lines) THEN 0 ELSE Max(fits)
    IN  [first |-> first,
         lines |-> Taken(count),
         more |-> first + count <= Len(lines) \/ Len(text) >= Ceiling]

\* A window with no line is answered as an empty file, or as one without that
\* line, whatever there is more.
AnnouncesMore(window) == window.lines # <<>> /\ window.more

NextOffset(window) == window.first + Len(window.lines)

\* A read from any line, or from where the last window said to go on.  Calls
\* run one at a time, and what the last one was asked is forgotten.
Reads(offset, limit) ==
    LET window == Window(disk, offset, limit)
        goesOn == paging.more /\ offset = paging.next
    IN  /\ pc \in {"idle", "done", "failed", "dropped", "over"}
        /\ paging' = [from |-> IF goesOn THEN paging.from ELSE window.first,
                      next |-> NextOffset(window),
                      seen |-> (IF goesOn THEN paging.seen ELSE <<>>) \o window.lines,
                      more |-> AnnouncesMore(window)]
        /\ IF pc = "done"
              THEN pc' = "over" /\ pairs' = <<>> /\ before' = <<>> /\ updated' = <<>>
              ELSE UNCHANGED <<pc, pairs, before, updated>>
        /\ UNCHANGED <<disk, handing, raced>>

-----------------------------------------------------------------------------
(* edit: Shape, replace::apply                                             *)

\* Mutant: some LF of the file comes after a CR.
HasCrlf(text) == \E i \in DOMAIN text : text[i] = LF /\ i > 1 /\ text[i - 1] = CR

\* Every LF of the file comes after a CR, and there is one.
IsCrlf(text) ==
    /\ Contains(text, LF)
    /\ \A i \in DOMAIN text : text[i] = LF => i > 1 /\ text[i - 1] = CR

ToLf(text) ==
    IF ~IsCrlf(text) THEN text
    ELSE FlattenSeq([i \in DOMAIN text |->
            IF i < Len(text) /\ text[i] = CR /\ text[i + 1] = LF THEN <<>> ELSE <<text[i]>>])

Restore(crlf, text) ==
    IF ~crlf THEN text
    ELSE FlattenSeq([i \in DOMAIN text |-> IF text[i] = LF THEN <<CR, LF>> ELSE <<text[i]>>])

Places(text, old) ==
    {i \in 1..(Len(text) - Len(old) + 1) : SubSeq(text, i, i + Len(old) - 1) = old}
Place(text, old) == Min(Places(text, old))

\* Occurrences are counted one after the end of the other.
OccursOnce(text, old) ==
    /\ Places(text, old) # {}
    /\ \A i \in Places(text, old) : i < Place(text, old) + Len(old)

Overlap(text, asked) ==
    \E j, k \in DOMAIN asked :
        /\ j # k
        /\ Place(text, asked[j].old) <= Place(text, asked[k].old)
        /\ Place(text, asked[k].old) < Place(text, asked[j].old) + Len(asked[j].old)

IsAccepted(text, asked) ==
    /\ \A k \in DOMAIN asked : asked[k].old # asked[k].new /\ OccursOnce(text, asked[k].old)
    /\ ~Overlap(text, asked)

\* The pairs by their places, the last first.
Rightmost(text, asked) ==
    [n \in DOMAIN asked |->
        asked[CHOOSE k \in DOMAIN asked :
                 Cardinality({j \in DOMAIN asked :
                    Place(text, asked[j].old) > Place(text, asked[k].old)}) = n - 1]]

Replaced(text, at, p) ==
    SubSeq(text, 1, at - 1) \o p.new \o SubSeq(text, at + Len(p.old), Len(text))

Apply(text, asked) ==
    LET order == Rightmost(text, asked)
        out[n \in 0..Len(asked)] ==
            IF n = 0 THEN text
            ELSE Replaced(out[n - 1], Place(text, order[n].old), order[n])
    IN  out[Len(asked)]

\* The edit reads the file and finds its places, or answers why not.
EditReads(asked) ==
    /\ pc = "idle"                           \* bound: one call that writes
    /\ IsAccepted(ToLf(disk), asked)
    /\ pc' = "matched"
    /\ pairs' = asked
    /\ before' = disk
    /\ updated' = Restore(IsCrlf(disk), Apply(ToLf(disk), asked))
    /\ raced' = FALSE
    /\ paging' = Idle
    /\ UNCHANGED <<disk, handing>>

-----------------------------------------------------------------------------
(* What edit and write share: contain.rs, write                            *)

\* A thread is given the next piece; one at a time, and the file keeps its place.
Hands(text, at) ==
    /\ landing' = [at |-> at, text |-> SubSeq(text, 1, Min({Piece, Len(text)}))]
    /\ rest' = SubSeq(text, Piece + 1, Len(text))

\* The file is cut as it is opened, and the first poll of write_all hands over
\* the first piece: no await in between.
Opens(text) ==
    /\ disk' = <<>>
    /\ Hands(text, 0)
    /\ broken' = FALSE
    /\ pc' = "flushing"
    /\ paging' = Idle

EditWrites == pc = "matched" /\ Opens(updated) /\ UNCHANGED <<pairs, before, updated, raced>>

\* A file that cannot be opened for writing is not cut.
CannotOpen ==
    /\ pc = "matched"
    /\ pc' = "failed"
    /\ UNCHANGED <<disk, handing, pairs, before, updated, paging, raced>>

Writes(text) ==
    /\ pc = "idle"                           \* bound: one call that writes
    /\ Opens(text)
    /\ before' = disk /\ updated' = text
    /\ raced' = FALSE
    /\ UNCHANGED pairs

\* A file with a text written over it, from a place on.
Over(file, at, text) ==
    LET end == at + Len(text)
    IN  [i \in 1..(IF end < Len(file) THEN Len(file) ELSE end) |->
            IF at < i /\ i <= end THEN text[i - at] ELSE IF i <= Len(file) THEN file[i] ELSE Nul]

\* A thread writes the piece over what the file holds by then; or only the
\* beginning of it, when the system refuses the rest.
Lands ==
    /\ landing.text # <<>>
    /\ disk' = Over(disk, landing.at, landing.text)
    /\ landing' = NoWrite
    /\ paging' = Idle
    /\ UNCHANGED <<rest, broken, pc, pairs, before, updated, raced>>

LandsInPart(n) ==
    /\ n < Len(landing.text)
    /\ disk' = IF n = 0 THEN disk ELSE Over(disk, landing.at, SubSeq(landing.text, 1, n))
    /\ landing' = NoWrite /\ broken' = TRUE
    /\ paging' = Idle
    /\ UNCHANGED <<rest, pc, pairs, before, updated, raced>>

\* write_all goes on with the next piece once the one before is written.
GoesOn ==
    /\ pc = "flushing" /\ landing = NoWrite /\ ~broken /\ rest # <<>>
    /\ Hands(rest, Len(updated) - Len(rest))
    /\ UNCHANGED <<disk, broken, pc, pairs, before, updated, paging, raced>>

\* Mutant: it answers without waiting for the last piece (no flush).
AnswersAtOnce ==
    /\ pc = "flushing" /\ rest = <<>>
    /\ pc' = IF broken THEN "failed" ELSE "done"
    /\ UNCHANGED <<disk, handing, pairs, before, updated, paging, raced>>

\* write_all or flush ends, with what the last thread answered.
Answers ==
    /\ pc = "flushing" /\ landing = NoWrite
    /\ \/ broken /\ pc' = "failed"
       \/ ~broken /\ rest = <<>> /\ pc' = "done"
    /\ rest' = <<>>
    /\ UNCHANGED <<disk, landing, broken, pairs, before, updated, paging, raced>>

\* Ctrl+C drops the call at an await, and the text not given to a thread with
\* it; what a thread was given it still does.
Dropped ==
    /\ pc \in {"matched", "flushing"}
    /\ pc' = "dropped" /\ rest' = <<>>
    /\ UNCHANGED <<disk, landing, broken, pairs, before, updated, paging, raced>>

\* Another program replaces the file.
OthersWrite(text) ==
    /\ ~raced                                \* bound: once since an edit read
    /\ disk' = text
    /\ paging' = Idle
    /\ raced' = TRUE
    /\ UNCHANGED writing

FileNext ==
    \/ \E offset \in 0..(MaxFile + 1), limit \in 1..MaxLimit : Reads(offset, limit)
    \/ pc = "idle" /\ \E p \in Pairs : EditReads(<<p>>)
    \/ pc = "idle" /\ \E p, q \in Pairs : EditReads(<<p, q>>)
    \/ EditWrites \/ CannotOpen
    \/ \E text \in Given : Writes(text)
    \/ OthersWrite(<<LF>>)                   \* bound: what others write
    \/ Lands
    \/ \E n \in 0..(Piece - 1) : LandsInPart(n)
    \/ GoesOn
    \/ Answers
    \/ Dropped

FileSpec == FileInit /\ [][FileNext]_fileVars

-----------------------------------------------------------------------------
(* Properties                                                              *)

\* A file whose lines fit in a window, shorter than what a read goes through.
IsOrdinary(text) ==
    Len(text) < Ceiling /\ \A k \in DOMAIN Lines(text) : Len(Lines(text)[k]) <= Cap

\* Whoever follows the offsets that read announces sees every line from the
\* first one asked for, each once and in order; and in an ordinary file is told
\* of no more lines only at the end: "vazio faria o modelo concluir que o
\* arquivo acabou" (read.rs:95-121, capped.rs:140-210).
PagesAreTheFile ==
    paging # Idle =>
        /\ paging.seen = SubSeq(Lines(disk), paging.from, paging.next - 1)
        /\ IsOrdinary(disk) => (paging.more <=> paging.next <= Len(Lines(disk)))

\* The file with each text at its place replaced, place by place.
Spliced(text, at, old, new) ==
    FlattenSeq([i \in DOMAIN text |->
        IF \E k \in DOMAIN at : i = at[k]
            THEN new[CHOOSE k \in DOMAIN at : i = at[k]]
        ELSE IF \E k \in DOMAIN at : i \in at[k]..(at[k] + Len(old[k]) - 1)
            THEN <<>>
        ELSE <<text[i]>>])

\* An edit that was answered changed the texts it named, in the line endings
\* of the file, and no other byte of it: the diff is the edit (edit.rs:149-160,
\* replace.rs:36-42).
EditIsLocal ==
    (pc = "done" /\ pairs # <<>> /\ ~raced) =>
        LET crlf == IsCrlf(before)
            old == [k \in DOMAIN pairs |-> Restore(crlf, pairs[k].old)]
            new == [k \in DOMAIN pairs |-> Restore(crlf, pairs[k].new)]
        IN  \E at \in [DOMAIN pairs -> DOMAIN before] :
                /\ \A k \in DOMAIN pairs : at[k] \in Places(before, old[k])
                /\ \A j, k \in DOMAIN pairs : j # k => at[k] \notin at[j]..(at[j] + Len(old[j]) - 1)
                /\ disk = Spliced(before, at, old, new)

\* A call that was answered well wrote all it was asked, and nothing is under
\* way.  One that failed, or was dropped by Ctrl+C, leaves the file as it was or
\* cut to the beginning of what was asked, once the threads have done what they
\* were given; and a text that fits one piece is never left in part by a drop
\* alone (contain.rs:53-59, dispatch.rs:58).
LeavesABeginning ==
    ~raced =>
        /\ pc = "done" => disk = updated /\ landing = NoWrite
        /\ pc \in {"failed", "dropped"} /\ landing = NoWrite =>
              /\ disk = before \/ IsPrefix(disk, updated)
              /\ pc = "dropped" /\ ~broken /\ Len(updated) <= Piece =>
                    disk \in {before, updated}
=============================================================================
