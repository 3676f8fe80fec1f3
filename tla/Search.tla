------------------------------- MODULE Search -------------------------------
(***************************************************************************)
(* The search tools, grep, find and ls (nycode-agent, tools/search/): what *)
(* each answers about a tree of files, and what it says of what it leaves  *)
(* out.  A file is the sequence of its lines, told apart by whether the    *)
(* pattern matches; files come in the order of their paths.                *)
(***************************************************************************)
EXTENDS Integers, Sequences, FiniteSets, SequencesExt

CONSTANTS
    Visited,       \* files a search goes through (MAX_VISITED of engine.rs)
    Most,          \* results an answer holds (MAX_MATCHES, MAX_RESULTS, MAX_ENTRIES)
    MaxContext,    \* lines shown around a match at most (MAX_CONTEXT of grep.rs)
    MaxFiles,      \* bound: files of the tree
    MaxLines       \* bound: lines of a file

ASSUME SearchConstants ==
    /\ Visited \in Nat \ {0} /\ Most \in Nat \ {0} /\ MaxContext \in Nat
    /\ MaxFiles \in Nat /\ MaxLines \in Nat

\* named: the glob of the call, or the pattern of find, takes the file.
File == [lines : BoundedSeq(BOOLEAN, MaxLines), named : BOOLEAN]

VARIABLES
    tree,          \* the files under the root of the search, in order
    asked,         \* the call: its tool, context and cap
    answer         \* what it returned, or Unanswered

searchVars == <<tree, asked, answer>>

Unanswered == [shown |-> <<>>, found |-> 0, cut |-> FALSE]
NoSearch == [tool |-> "none", context |-> 0, cap |-> 0]

SearchInit ==
    /\ tree \in BoundedSeq(File, MaxFiles)
    /\ asked = NoSearch
    /\ answer = Unanswered

\* The cap of a call: what was asked, cut at the ceiling.
CapOf(limit) == Min({limit, Most})

\* The files a search goes through; those it does not come to it says
\* nothing of.
Files(files) == SubSeq(files, 1, Min({Len(files), Visited}))

-----------------------------------------------------------------------------
(* grep: collect.rs, Collect; grep.rs, execute                             *)

\* One more line, and whether another fits.
Emit(st, line, cap) ==
    IF st.stop \/ Len(st.out) >= cap THEN [st EXCEPT !.stop = TRUE]
    ELSE [st EXCEPT !.out = Append(@, line), !.stop = Len(st.out) + 1 >= cap]

\* A match counts when there is room for it.
Matched(st, line, cap) ==
    IF st.stop \/ Len(st.out) >= cap THEN [st EXCEPT !.stop = TRUE]
    ELSE Emit([st EXCEPT !.hits = @ + 1], line, cap)

Handing(f, i, kind) == [file |-> f, line |-> i, kind |-> kind]

MatchIn(lines, first, last) == \E j \in 1..last : first <= j /\ lines[j]

\* The context before line i that was not handed yet.
Before(lines, context, i) ==
    {j \in 1..(i - 1) : i - context <= j /\ ~MatchIn(lines, j - context, i - 1)}

\* That context handed, line by line.  external.
Led(st, f, lines, context, i, cap) ==
    LET led[j \in 0..(i - 1)] ==
            IF j = 0 THEN st
            ELSE IF j \in Before(lines, context, i)
            THEN Emit(led[j - 1], Handing(f, j, "context"), cap)
            ELSE led[j - 1]
    IN  led[i - 1]

\* Lines of one file, as the searcher hands them: before a match the context
\* not handed yet, after it the lines that follow.  external.
Searched(st, f, lines, context, cap) ==
    LET after[i \in 0..Len(lines)] ==
            IF i = 0 THEN st
            ELSE IF lines[i]
            THEN Matched(Led(after[i - 1], f, lines, context, i, cap), Handing(f, i, "match"), cap)
            ELSE IF MatchIn(lines, i - context, i - 1)
            THEN Emit(after[i - 1], Handing(f, i, "context"), cap)
            ELSE after[i - 1]
    IN  after[Len(lines)]

\* Mutant: an answer of exactly cap lines is taken for a whole one.
CutPastTheCap(count, cap) == count > cap

CutAtTheCap(count, cap) == count >= cap

\* A file is gone through if the glob takes it and the cap was not reached.
Visit(st, f, file, context, cap) ==
    IF Len(st.out) >= cap \/ ~file.named THEN st
    ELSE Searched([st EXCEPT !.stop = FALSE], f, file.lines, context, cap)

\* Files follow one another until the cap.
Collected(files, context, cap) ==
    LET after[f \in 0..Len(files)] ==
            IF f = 0 THEN [out |-> <<>>, hits |-> 0, stop |-> FALSE]
            ELSE Visit(after[f - 1], f, files[f], context, cap)
    IN  after[Len(files)]

Grep(files, context, cap) ==
    LET end == Collected(Files(files), context, cap)
    IN  [shown |-> IF end.hits = 0 THEN <<>> ELSE end.out,
         found |-> end.hits,
         cut |-> end.hits > 0 /\ CutAtTheCap(Len(end.out), cap)]

-----------------------------------------------------------------------------
(* find.rs and ls.rs                                                       *)

\* The numbers of a finite set, the least first.
InOrder(S) ==
    CHOOSE s \in [1..Cardinality(S) -> S] : \A j, k \in DOMAIN s : j < k => s[j] < s[k]

Find(files, cap) ==
    LET hits == InOrder({f \in DOMAIN Files(files) : files[f].named})
    IN  [shown |-> SubSeq(hits, 1, Min({cap, Len(hits)})),
         found |-> Len(hits), cut |-> Len(hits) > cap]

Pushed(kept, place, cap) ==
    LET more == kept \cup {place}
    IN  IF Cardinality(more) > cap THEN more \ {Max(more)} ELSE more

\* A listing keeps the least cap entries it has seen; entries are listed in
\* the order of what is shown of them, not of the paths they came in.
Listing(places, cap) ==
    LET kept[n \in 0..Len(places)] ==
            IF n = 0 THEN {} ELSE Pushed(kept[n - 1], places[n], cap)
    IN  InOrder(kept[Len(places)])

Ls(places, cap) ==
    [shown |-> Listing(places, cap), found |-> Len(places), cut |-> Len(places) > cap]

-----------------------------------------------------------------------------
Limits == 1..(Most + 1)

Greps ==
    \E context \in 0..(MaxContext + 1), limit \in Limits :
        LET cap == CapOf(limit)
            around == Min({context, MaxContext})
        IN  /\ asked' = [tool |-> "grep", context |-> around, cap |-> cap]
            /\ answer' = Grep(tree, around, cap)

Finds ==
    \E limit \in Limits :
        /\ asked' = [tool |-> "find", context |-> 0, cap |-> CapOf(limit)]
        /\ answer' = Find(tree, CapOf(limit))

\* The entries of one directory, in an order of their own.  Bound: what is in
\* the files is not looked at, so they are empty.
Lists ==
    /\ \A f \in DOMAIN tree : tree[f] = [lines |-> <<>>, named |-> TRUE]
    /\ \E limit \in Limits, places \in SetToSeqs(1..Len(tree)) :
           /\ asked' = [tool |-> "ls", context |-> 0, cap |-> CapOf(limit)]
           /\ answer' = Ls(places, CapOf(limit))

SearchNext == asked = NoSearch /\ (Greps \/ Finds \/ Lists) /\ UNCHANGED tree

SearchSpec == SearchInit /\ [][SearchNext]_searchVars

-----------------------------------------------------------------------------
Matching ==
    {l \in [file : DOMAIN Files(tree), line : 1..MaxLines] :
        /\ tree[l.file].named
        /\ l.line \in DOMAIN tree[l.file].lines /\ tree[l.file].lines[l.line]}

Handed(kind) ==
    {[file |-> answer.shown[k].file, line |-> answer.shown[k].line] :
        k \in {n \in DOMAIN answer.shown : answer.shown[n].kind = kind}}

Follows(a, b) == a.file < b.file \/ (a.file = b.file /\ a.line < b.line)

\* No line twice, none out of order, none that is neither a match nor near one.
GrepIsSound ==
    /\ \A k \in 1..(Len(answer.shown) - 1) : Follows(answer.shown[k], answer.shown[k + 1])
    /\ Handed("match") \subseteq Matching
    /\ \A l \in Handed("context") :
        /\ l \notin Matching
        /\ \E m \in Matching : m.file = l.file
              /\ m.line \in (l.line - asked.context)..(l.line + asked.context)

(* The search tools are honest about what they leave out: of the files they *)
(* visit, an answer that says nothing is missing has every match, one that *)
(* says nothing matches is right when a match fits under the cap with its  *)
(* context, find counts what it does not show, and ls shows the first of   *)
(* its entries (grep.rs:178-191, collect.rs, find.rs:87, ls.rs, listing).  *)
AnswersAreHonest ==
    CASE asked.tool = "grep" ->
            /\ GrepIsSound
            /\ asked.context < asked.cap => (answer.found = 0 <=> Matching = {})
            /\ answer.found > 0 /\ ~answer.cut => Handed("match") = Matching
      [] asked.tool = "find" ->
            LET named == {f \in DOMAIN Files(tree) : tree[f].named}
            IN  /\ answer.found = Cardinality(named)
                /\ ToSet(answer.shown) \subseteq named
                /\ ~answer.cut => ToSet(answer.shown) = named
      [] asked.tool = "ls" ->
            answer.shown = [k \in 1..Min({asked.cap, Len(tree)}) |-> k]
      [] OTHER -> TRUE

=============================================================================
