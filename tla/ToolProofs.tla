----------------------------- MODULE ToolProofs -----------------------------
(***************************************************************************)
(* The file tools, for every file and every edit: the windows of a read    *)
(* follow the lines of the file, an edit changes the texts it names and    *)
(* nothing else, and a call that fails or is dropped leaves a beginning of *)
(* what was asked.  The search tools, for every tree: what an answer       *)
(* leaves out it says.  The screen, for every text, width and height: the  *)
(* panel shows its frame, whatever becomes of the events of the window.    *)
(***************************************************************************)
EXTENDS FileTools, Search, Screen, Facts

(* Joining two runs of sequences.                                          *)
LEMMA FlattenConcat ==
    ASSUME NEW S, NEW xs \in Seq(Seq(S)), NEW ys \in Seq(Seq(S))
    PROVE  FlattenSeq(xs \o ys) = FlattenSeq(xs) \o FlattenSeq(ys)
<1> DEFINE Good == {n \in Nat : n <= Len(ys) =>
                        FlattenSeq(xs \o SubSeq(ys, 1, n))
                          = FlattenSeq(xs) \o FlattenSeq(SubSeq(ys, 1, n))}
<1>1. Len(ys) \in Nat
  OBVIOUS
<1>2. 0 \in Good
  <2>1. SubSeq(ys, 1, 0) = <<>> /\ xs \o <<>> = xs
    OBVIOUS
  <2>2. FlattenSeq(<<>>) = <<>>
    <3>1. <<>> \in Seq(Seq(S)) /\ Len(<<>>) = 0
      OBVIOUS
    <3> QED
      BY <3>1, FlattenIs
  <2>3. FlattenSeq(xs) \o <<>> = FlattenSeq(xs)
    <3>1. FlattenSeq(xs) \in Seq(S)
      BY FlattenType
    <3> QED
      BY <3>1
  <2> QED
    BY <2>1, <2>2, <2>3
<1>3. ASSUME NEW n \in Nat, n \in Good
      PROVE  n + 1 \in Good
  <2> SUFFICES ASSUME n + 1 <= Len(ys)
               PROVE  FlattenSeq(xs \o SubSeq(ys, 1, n + 1))
                        = FlattenSeq(xs) \o FlattenSeq(SubSeq(ys, 1, n + 1))
    OBVIOUS
  <2> DEFINE first == SubSeq(ys, 1, n)
             y == ys[n + 1]
  <2>1. FlattenSeq(xs \o first) = FlattenSeq(xs) \o FlattenSeq(first)
    BY <1>1, <1>3
  <2>2. first \in Seq(Seq(S)) /\ y \in Seq(S) /\ SubSeq(ys, 1, n + 1) = Append(first, y)
    BY <1>1
  <2> HIDE DEF first, y
  <2>3. xs \o Append(first, y) = Append(xs \o first, y) /\ xs \o first \in Seq(Seq(S))
    BY <2>2, SMTT(20)
  <2>4. /\ FlattenSeq(Append(xs \o first, y)) = FlattenSeq(xs \o first) \o y
        /\ FlattenSeq(Append(first, y)) = FlattenSeq(first) \o y
    BY <2>2, <2>3, FlattenAppends
  <2>5. FlattenSeq(xs) \in Seq(S) /\ FlattenSeq(first) \in Seq(S)
    BY <2>2, FlattenType
  <2>6. (FlattenSeq(xs) \o FlattenSeq(first)) \o y = FlattenSeq(xs) \o (FlattenSeq(first) \o y)
    <3>1. PICK a \in Seq(S), b \in Seq(S) : a = FlattenSeq(xs) /\ b = FlattenSeq(first)
      BY <2>5
    <3>2. PICK c \in Seq(S) : c = y
      BY <2>2
    <3>3. (a \o b) \o c = a \o (b \o c)
      BY ConcatAssociative, SMTT(30)
    <3> QED
      BY <3>1, <3>2, <3>3
  <2> QED
    BY <2>1, <2>2, <2>3, <2>4, <2>6
<1> HIDE DEF Good
<1>4. Len(ys) \in Good
  BY <1>1, <1>2, <1>3, InductionOverASet
<1>5. SubSeq(ys, 1, Len(ys)) = ys /\ Len(ys) <= Len(ys)
  BY <1>1
<1> QED
  BY <1>4, <1>5 DEF Good

\* A stretch of one element.
LEMMA SubSeqOfOne ==
    ASSUME NEW S, NEW s \in Seq(S), NEW i \in 1 .. Len(s)
    PROVE  SubSeq(s, i, i) = <<s[i]>>
<1>1. i \in Nat /\ Len(s) \in Nat /\ s[i] \in S
  OBVIOUS
<1>2. SubSeq(s, i, i) \in Seq(S) /\ Len(SubSeq(s, i, i)) = 1
  BY <1>1
<1>3. SubSeq(s, i, i)[1] = s[i]
  BY <1>1
<1>4. <<s[i]>> \in Seq(S) /\ Len(<<s[i]>>) = 1 /\ <<s[i]>>[1] = s[i]
  BY <1>1
<1> DEFINE one == SubSeq(s, i, i)
           other == <<s[i]>>
<1>5. one[1] = other[1] /\ Len(one) = 1 /\ Len(other) = 1 /\ one \in Seq(S) /\ other \in Seq(S)
  BY <1>2, <1>3, <1>4
<1> HIDE DEF one, other
<1>6. \A j \in 1 .. Len(one) : one[j] = other[j]
  BY <1>5
<1>7. one = other
  BY <1>5, <1>6, SeqEqual
<1> QED
  BY <1>7 DEF one, other

\* One sequence, or none, made one.
LEMMA FlattenOne ==
    ASSUME NEW S, NEW s \in Seq(S)
    PROVE  FlattenSeq(<<s>>) = s /\ FlattenSeq(<<>>) = <<>>
<1>1. <<>> \in Seq(Seq(S)) /\ Len(<<>>) = 0 /\ Append(<<>>, s) = <<s>> /\ <<>> \o s = s
  OBVIOUS
<1>2. FlattenSeq(<<>>) = <<>>
  BY <1>1, FlattenIs
<1>3. FlattenSeq(Append(<<>>, s)) = FlattenSeq(<<>>) \o s
  BY <1>1, FlattenAppends
<1> QED
  BY <1>1, <1>2, <1>3

(* A sequence is what its elements make, one after the other.              *)
LEMMA FlattenSingles ==
    ASSUME NEW S, NEW s \in Seq(S)
    PROVE  /\ [i \in 1 .. Len(s) |-> <<s[i]>>] \in Seq(Seq(S))
           /\ FlattenSeq([i \in 1 .. Len(s) |-> <<s[i]>>]) = s
<1> DEFINE each == [i \in 1 .. Len(s) |-> <<s[i]>>]
           Made == {n \in Nat : n <= Len(s) => FlattenSeq(SubSeq(each, 1, n)) = SubSeq(s, 1, n)}
<1>1. Len(s) \in Nat /\ each \in Seq(Seq(S)) /\ Len(each) = Len(s)
  OBVIOUS
<1>2. 0 \in Made
  <2>1. SubSeq(each, 1, 0) = <<>> /\ SubSeq(s, 1, 0) = <<>>
    BY <1>1
  <2> QED
    BY <2>1, FlattenOne
<1>3. ASSUME NEW n \in Nat, n \in Made
      PROVE  n + 1 \in Made
  <2> SUFFICES ASSUME n + 1 <= Len(s)
               PROVE  FlattenSeq(SubSeq(each, 1, n + 1)) = SubSeq(s, 1, n + 1)
    OBVIOUS
  <2>1. FlattenSeq(SubSeq(each, 1, n)) = SubSeq(s, 1, n)
    BY <1>1, <1>3
  <2>2. each[n + 1] = <<s[n + 1]>>
    BY <1>1
  <2> HIDE DEF each
  <2>3. /\ SubSeq(each, 1, n) \in Seq(Seq(S)) /\ each[n + 1] \in Seq(S)
        /\ SubSeq(each, 1, n + 1) = Append(SubSeq(each, 1, n), each[n + 1])
    BY <1>1
  <2>4. FlattenSeq(SubSeq(each, 1, n + 1)) = SubSeq(s, 1, n) \o <<s[n + 1]>>
    BY <2>1, <2>2, <2>3, FlattenAppends
  <2>5. SubSeq(s, 1, n) \o <<s[n + 1]>> = SubSeq(s, 1, n + 1)
    BY <1>1
  <2> QED
    BY <2>4, <2>5
<1> HIDE DEF Made, each
<1>4. Len(s) \in Made
  BY <1>1, <1>2, <1>3, InductionOverASet
<1>5. SubSeq(each, 1, Len(s)) = each /\ SubSeq(s, 1, Len(s)) = s /\ Len(s) <= Len(s)
  BY <1>1
<1> QED
  BY <1>1, <1>4, <1>5 DEF Made, each

(* Nothing, any number of times.                                           *)
LEMMA FlattenNothing ==
    ASSUME NEW S, NEW ss \in Seq(Seq(S)), \A i \in 1 .. Len(ss) : ss[i] = <<>>
    PROVE  FlattenSeq(ss) = <<>>
<1> DEFINE None == {n \in Nat : n <= Len(ss) => FlattenSeq(SubSeq(ss, 1, n)) = <<>>}
<1>1. Len(ss) \in Nat
  OBVIOUS
<1>2. 0 \in None
  <2>1. SubSeq(ss, 1, 0) = <<>> /\ <<>> \in Seq(S)
    OBVIOUS
  <2> QED
    BY <2>1, FlattenOne
<1>3. ASSUME NEW n \in Nat, n \in None
      PROVE  n + 1 \in None
  <2> SUFFICES ASSUME n + 1 <= Len(ss)
               PROVE  FlattenSeq(SubSeq(ss, 1, n + 1)) = <<>>
    OBVIOUS
  <2>1. FlattenSeq(SubSeq(ss, 1, n)) = <<>> /\ ss[n + 1] = <<>>
    BY <1>1, <1>3
  <2>2. /\ SubSeq(ss, 1, n) \in Seq(Seq(S)) /\ ss[n + 1] \in Seq(S)
        /\ SubSeq(ss, 1, n + 1) = Append(SubSeq(ss, 1, n), ss[n + 1])
    BY <1>1
  <2>3. FlattenSeq(SubSeq(ss, 1, n + 1)) = FlattenSeq(SubSeq(ss, 1, n)) \o ss[n + 1]
    BY <2>2, FlattenAppends
  <2>4. <<>> \o <<>> = <<>>
    OBVIOUS
  <2> QED
    BY <2>1, <2>3, <2>4
<1> HIDE DEF None
<1>4. Len(ss) \in None
  BY <1>1, <1>2, <1>3, InductionOverASet
<1>5. SubSeq(ss, 1, Len(ss)) = ss /\ Len(ss) <= Len(ss)
  BY <1>1
<1> QED
  BY <1>4, <1>5 DEF None

-----------------------------------------------------------------------------
(* Reading lines.                                                          *)

\* A line more, or more of a line.
ReadNext(had, c) ==
    IF c = LF THEN [lines |-> Append(had.lines, Append(had.pending, c)), pending |-> <<>>]
    ELSE [lines |-> had.lines, pending |-> Append(had.pending, c)]

\* Before the first character.
NothingRead == [lines |-> <<>>, pending |-> <<>>]

\* A function on 0..k that reads the first k characters one after the other.
IsReading(read, text, k) ==
    read = [n \in 0..k |-> IF n = 0 THEN NothingRead ELSE ReadNext(read[n - 1], text[n])]

\* The lengths up to which a text can be read.
Readable(text) == {k \in Nat : \E read : IsReading(read, text, k)}

\* A reading goes on by one character.
LEMMA ReadingGrows ==
    ASSUME NEW text, NEW k \in Nat, k \in Readable(text)
    PROVE  k + 1 \in Readable(text)
<1>1. PICK read : IsReading(read, text, k)
  BY DEF Readable
<1> DEFINE next == [n \in 0 .. (k + 1) |->
                      IF n = k + 1 THEN ReadNext(read[k], text[k + 1]) ELSE read[n]]
<1>2. \A n \in 0 .. k : read[n] = IF n = 0 THEN NothingRead ELSE ReadNext(read[n - 1], text[n])
  BY <1>1 DEF IsReading
<1>3. ASSUME NEW n \in 0 .. (k + 1)
      PROVE  next[n] = IF n = 0 THEN NothingRead ELSE ReadNext(next[n - 1], text[n])
  <2>1. CASE n = k + 1
    <3>1. n # 0 /\ n - 1 = k /\ k \in 0 .. (k + 1) /\ k # k + 1
      BY <2>1
    <3>2. next[n] = ReadNext(read[k], text[k + 1]) /\ next[k] = read[k]
      BY <2>1, <3>1
    <3> HIDE DEF next
    <3> QED
      BY <2>1, <3>1, <3>2
  <2>2. CASE n \in 0 .. k
    <3>1. next[n] = read[n] /\ n # k + 1
      BY <2>2
    <3>2. ASSUME n # 0
          PROVE  next[n - 1] = read[n - 1]
      <4>1. n - 1 \in 0 .. (k + 1) /\ n - 1 # k + 1
        BY <2>2, <3>2
      <4> QED
        BY <4>1
    <3> HIDE DEF next
    <3> QED
      BY <1>2, <2>2, <3>1, <3>2
  <2> QED
    BY <1>3, <2>1, <2>2
<1>4. next = [n \in 0 .. (k + 1) |-> next[n]]
  OBVIOUS
<1> HIDE DEF next
<1>5. IsReading(next, text, k + 1)
  BY <1>3, <1>4 DEF IsReading
<1> QED
  BY <1>5 DEF Readable

\* Reading steps through the text as its definition says.
LEMMA ReadingIs ==
    ASSUME NEW S, NEW text \in Seq(S)
    PROVE  /\ Reading(text)[0] = NothingRead
           /\ \A n \in 1 .. Len(text) :
                Reading(text)[n] = ReadNext(Reading(text)[n - 1], text[n])
<1>1. 0 \in Readable(text)
  <2> DEFINE read == [n \in 0 .. 0 |-> NothingRead]
  <2>1. IsReading(read, text, 0)
    BY DEF IsReading
  <2> QED
    BY <2>1 DEF Readable
<1>2. Nat \subseteq Readable(text)
  BY <1>1, ReadingGrows, InductionOverASet
<1>3. \E read : IsReading(read, text, Len(text))
  BY <1>2 DEF Readable
<1>4. Reading(text) = CHOOSE read : IsReading(read, text, Len(text))
  BY DEF Reading, IsReading, NothingRead, ReadNext
<1> DEFINE read == Reading(text)
<1> HIDE DEF read
<1>5. IsReading(read, text, Len(text))
  BY <1>3, <1>4 DEF read
<1>6. \A n \in 0 .. Len(text) :
        read[n] = IF n = 0 THEN NothingRead ELSE ReadNext(read[n - 1], text[n])
  BY <1>5 DEF IsReading
<1>7. read[0] = NothingRead /\ \A n \in 1 .. Len(text) : read[n] = ReadNext(read[n - 1], text[n])
  BY <1>6
<1> QED
  BY <1>7 DEF read

\* The lines one list of lines begins with.
Begins(ls, ms) == Len(ls) <= Len(ms) /\ \A i \in 1 .. Len(ls) : ls[i] = ms[i]

\* To begin another sequence goes on when that one grows.
LEMMA BeginsOn ==
    ASSUME NEW S, NEW a \in Seq(S), NEW b \in Seq(S), NEW c \in Seq(S),
           Begins(a, b), Begins(b, c)
    PROVE  Begins(a, c)
<1>1. Len(a) \in Nat /\ Len(b) \in Nat /\ Len(c) \in Nat /\ Len(a) <= Len(c)
  BY DEF Begins
<1>2. \A i \in 1 .. Len(a) : i \in 1 .. Len(b)
  BY <1>1 DEF Begins
<1> QED
  BY <1>1, <1>2 DEF Begins

\* What is read is lines, and a pending one, of characters.
LEMMA ReadingTypes ==
    ASSUME NEW S, NEW text \in Seq(S)
    PROVE  \A n \in 0 .. Len(text) :
             /\ Reading(text)[n].lines \in Seq(Seq(S))
             /\ Reading(text)[n].pending \in Seq(S)
<1> DEFINE read == Reading(text)
           Typed == {n \in Nat : n <= Len(text) =>
                        read[n].lines \in Seq(Seq(S)) /\ read[n].pending \in Seq(S)}
<1>1. Len(text) \in Nat
  OBVIOUS
<1>2. 0 \in Typed
  <2>1. read[0].lines = <<>> /\ read[0].pending = <<>>
    BY ReadingIs DEF NothingRead
  <2>2. <<>> \in Seq(Seq(S)) /\ <<>> \in Seq(S)
    OBVIOUS
  <2> HIDE DEF read
  <2> QED
    BY <2>1, <2>2
<1>3. ASSUME NEW n \in Nat, n \in Typed
      PROVE  n + 1 \in Typed
  <2> SUFFICES ASSUME n + 1 <= Len(text)
               PROVE  read[n + 1].lines \in Seq(Seq(S)) /\ read[n + 1].pending \in Seq(S)
    OBVIOUS
  <2>1. n + 1 \in 1 .. Len(text) /\ (n + 1) - 1 = n /\ text[n + 1] \in S
    BY <1>1
  <2>2. read[n].lines \in Seq(Seq(S)) /\ read[n].pending \in Seq(S)
    BY <1>1, <1>3
  <2>3. read[n + 1] = ReadNext(read[n], text[n + 1])
    BY <2>1, ReadingIs
  <2> HIDE DEF read
  <2>4. /\ Append(read[n].pending, text[n + 1]) \in Seq(S) /\ <<>> \in Seq(S)
        /\ Append(read[n].lines, Append(read[n].pending, text[n + 1])) \in Seq(Seq(S))
    BY <2>1, <2>2
  <2> QED
    BY <2>2, <2>3, <2>4 DEF ReadNext
<1> HIDE DEF Typed, read
<1>4. Nat \subseteq Typed
  BY <1>2, <1>3, InductionOverASet
<1> QED
  BY <1>1, <1>4 DEF Typed, read

(* What was read of a text begins its lines.                               *)
LEMMA ReadingBegins ==
    ASSUME NEW S, NEW text \in Seq(S), NEW n \in 0 .. Len(text)
    PROVE  /\ Lines(text) \in Seq(Seq(S))
           /\ Begins(Reading(text)[n].lines, Lines(text))
<1> DEFINE read == Reading(text)
           Grown == {k \in Nat : n + k <= Len(text) => Begins(read[n].lines, read[n + k].lines)}
<1>1. Len(text) \in Nat /\ n \in Nat /\ n <= Len(text)
  OBVIOUS
<1>2. \A i \in 0 .. Len(text) : read[i].lines \in Seq(Seq(S)) /\ read[i].pending \in Seq(S)
  BY ReadingTypes
<1>3. 0 \in Grown
  <2>1. n + 0 = n /\ Len(read[n].lines) \in Nat
    BY <1>1, <1>2
  <2> QED
    BY <2>1 DEF Begins
<1>4. ASSUME NEW k \in Nat, k \in Grown
      PROVE  k + 1 \in Grown
  <2> SUFFICES ASSUME n + (k + 1) <= Len(text)
               PROVE  Begins(read[n].lines, read[n + (k + 1)].lines)
    OBVIOUS
  <2> DEFINE m == n + k
  <2>1. m \in 0 .. Len(text) /\ m + 1 \in 1 .. Len(text) /\ (m + 1) - 1 = m /\ n + (k + 1) = m + 1
    BY <1>1
  <2>2. Begins(read[n].lines, read[m].lines)
    BY <1>1, <1>4
  <2>3. read[m + 1] = ReadNext(read[m], text[m + 1])
    BY <2>1, ReadingIs
  <2>4. read[m].lines \in Seq(Seq(S)) /\ read[m].pending \in Seq(S) /\ text[m + 1] \in S
    BY <1>2, <2>1
  <2> HIDE DEF read, m
  <2>5. Begins(read[m].lines, read[m + 1].lines)
    <3> DEFINE line == Append(read[m].pending, text[m + 1])
               lines == read[m].lines
    <3>1. line \in Seq(S) /\ lines \in Seq(Seq(S))
      BY <2>4
    <3>2. read[m + 1].lines = lines \/ read[m + 1].lines = Append(lines, line)
      BY <2>3 DEF ReadNext
    <3> HIDE DEF line, lines
    <3>3. Begins(lines, lines) /\ Begins(lines, Append(lines, line))
      BY <3>1 DEF Begins
    <3> QED
      BY <3>2, <3>3 DEF lines
  <2>6. /\ read[n].lines \in Seq(Seq(S)) /\ read[m].lines \in Seq(Seq(S))
        /\ read[m + 1].lines \in Seq(Seq(S))
    <3>1. n \in 0 .. Len(text) /\ m + 1 \in 0 .. Len(text)
      BY <2>1
    <3> QED
      BY <1>2, <2>1, <3>1
  <2> QED
    BY <2>1, <2>2, <2>5, <2>6, BeginsOn
<1> HIDE DEF Grown
<1>5. Nat \subseteq Grown
  BY <1>3, <1>4, InductionOverASet
<1>6. Len(text) - n \in Nat /\ n + (Len(text) - n) = Len(text) /\ Len(text) \in 0 .. Len(text)
  BY <1>1
<1>7. Begins(read[n].lines, read[Len(text)].lines)
  BY <1>1, <1>5, <1>6 DEF Grown
<1> DEFINE end == read[Len(text)]
<1>8. end.lines \in Seq(Seq(S)) /\ end.pending \in Seq(S) /\ Len(read[n].lines) \in Nat
  BY <1>2, <1>6
<1>9. Lines(text) = IF end.pending = <<>> THEN end.lines ELSE Append(end.lines, end.pending)
  BY DEF Lines
<1>10. Begins(read[n].lines, end.lines)
  BY <1>7
<1> HIDE DEF read, end
<1>11. Begins(read[n].lines, Append(end.lines, end.pending))
  BY <1>8, <1>10 DEF Begins
<1>12. Lines(text) \in Seq(Seq(S))
  BY <1>8, <1>9
<1> QED
  BY <1>9, <1>10, <1>11, <1>12 DEF read

\* What a read went through begins the lines of the file.
LEMMA ScannedBegins ==
    ASSUME NEW S, NEW text \in Seq(S)
    PROVE  /\ Lines(text) \in Seq(Seq(S)) /\ Scanned(text) \in Seq(Seq(S))
           /\ Begins(Scanned(text), Lines(text))
           /\ Len(text) < Ceiling => Scanned(text) = Lines(text)
<1>1. Len(text) \in Nat /\ Ceiling \in Nat
  BY FileToolsConstants
<1>2. CASE Len(text) < Ceiling
  <2>1. 0 \in 0 .. Len(text)
    BY <1>1
  <2>2. Lines(text) \in Seq(Seq(S)) /\ Scanned(text) = Lines(text)
    BY <1>2, <2>1, ReadingBegins DEF Scanned
  <2>3. Begins(Lines(text), Lines(text))
    BY <2>2 DEF Begins
  <2> QED
    BY <2>2, <2>3
<1>3. CASE ~(Len(text) < Ceiling)
  <2>1. Ceiling \in 0 .. Len(text)
    BY <1>1, <1>3
  <2>2. Scanned(text) = Reading(text)[Ceiling].lines
    BY <1>3 DEF Scanned
  <2> QED
    BY <1>3, <2>1, <2>2, ReadingBegins, ReadingTypes
<1> QED
  BY <1>2, <1>3

\* A window of the lines of a text, from the one asked for; of an ordinary text
\* it announces more when there are.
Windowed(window, text, offset) ==
    \E first \in Nat \ {0}, count \in Nat :
        /\ offset # 0 => first = offset
        /\ window.first = first
        /\ window.lines = SubSeq(Lines(text), first, first + count - 1)
        /\ window.lines \in Seq(Seq(Characters)) /\ Len(window.lines) = count
        /\ count # 0 => first + count - 1 <= Len(Lines(text))
        /\ AnnouncesMore(window) \in BOOLEAN
        /\ AnnouncesMore(window) => count # 0
        /\ IsOrdinary(text) => (AnnouncesMore(window) <=> first + count <= Len(Lines(text)))

\* What a window shows, for every text, offset and limit.
LEMMA WindowIs ==
    ASSUME NEW text \in Seq(Characters), NEW offset \in Nat, NEW limit \in Nat \ {0}
    PROVE  Windowed(Window(text, offset, limit), text, offset)
<1> DEFINE scanned == Scanned(text)
           lines == Lines(text)
           first == Max({offset, 1})
           Taken(k) == SubSeq(scanned, first, first + k - 1)
           fits == {k \in 0..limit : first + k - 1 <= Len(scanned) /\ Bytes(Taken(k)) <= Cap}
           count == IF first > Len(scanned) THEN 0 ELSE Max(fits)
           window == Window(text, offset, limit)
<1>1. /\ lines \in Seq(Seq(Characters)) /\ scanned \in Seq(Seq(Characters))
      /\ Begins(scanned, lines)
      /\ Len(text) < Ceiling => scanned = lines
  BY ScannedBegins
<1>2. window = [first |-> first, lines |-> Taken(count),
                more |-> first + count <= Len(scanned) \/ Len(text) >= Ceiling]
  BY DEF Window
<1>3. first \in {offset, 1} /\ first >= offset /\ first >= 1
  <2>1. \E x \in {offset, 1} : \A y \in {offset, 1} : x >= y
    OBVIOUS
  <2> QED
    BY <2>1 DEF Max
<1>4. first \in Nat \ {0} /\ (offset # 0 => first = offset)
  BY <1>3
<1> HIDE DEF first, scanned, lines
<1>5. Len(scanned) \in Nat /\ Len(lines) \in Nat /\ Len(scanned) <= Len(lines)
      /\ \A i \in 1 .. Len(scanned) : scanned[i] = lines[i]
  BY <1>1 DEF Begins
<1>6. ASSUME first <= Len(scanned)
      PROVE  /\ count \in fits
             /\ IsOrdinary(text) => count # 0
  <2>1. 0 \in fits
    <3>1. Taken(0) = <<>>
      BY <1>1, <1>4
    <3>2. Bytes(<<>>) = 0
      <4>1. <<>> \in Seq(Characters) /\ Len(<<>>) = 0
        OBVIOUS
      <4>2. FlattenSeq(<<>>) = <<>>
        BY <4>1, FlattenOne
      <4> QED
        BY <4>1, <4>2 DEF Bytes
    <3>3. 0 \in 0 .. limit /\ first + 0 - 1 <= Len(scanned) /\ 0 <= Cap
      BY <1>4, <1>5, <1>6, FileToolsConstants
    <3> HIDE DEF Taken
    <3> QED
      BY <3>1, <3>2, <3>3
  <2>2. \E x \in fits : \A y \in fits : x >= y
    <3> DEFINE L == {limit - k : k \in fits}
    <3>1. L \in SUBSET Nat /\ L # {}
      <4>1. \A k \in fits : k \in 0 .. limit /\ limit - k \in Nat
        OBVIOUS
      <4> HIDE DEF fits
      <4> QED
        BY <2>1, <4>1
    <3> HIDE DEF L
    <3>2. PICK n \in L : \A m \in L : n <= m
      BY <3>1, Least
    <3>3. PICK x \in fits : n = limit - x
      BY DEF L
    <3>4. \A y \in fits : limit - y \in L /\ y \in Nat
      BY DEF L
    <3>5. \A y \in fits : n <= limit - y
      BY <3>2, <3>4
    <3>6. x \in Nat
      BY <3>4
    <3> HIDE DEF fits
    <3>7. \A y \in fits : x >= y
      BY <3>3, <3>4, <3>5, <3>6
    <3> QED
      BY <3>7
  <2> HIDE DEF fits
  <2>3. count \in fits /\ \A y \in fits : count >= y
    <3>1. Max(fits) \in fits /\ \A y \in fits : Max(fits) >= y
      BY <2>2 DEF Max
    <3>2. count = Max(fits)
      BY <1>4, <1>5, <1>6
    <3> QED
      BY <3>1, <3>2
  <2>4. ASSUME IsOrdinary(text)
        PROVE  count # 0
    <3>1. scanned = lines
      BY <1>1, <2>4 DEF IsOrdinary
    <3>2. first \in 1 .. Len(lines) /\ lines[first] \in Seq(Characters)
      BY <1>1, <1>4, <1>5, <1>6, <3>1
    <3>3. Len(lines[first]) <= Cap
      BY <1>1, <2>4, <3>2 DEF IsOrdinary, lines
    <3>4. Taken(1) = <<lines[first]>>
      <4>1. first + 1 - 1 = first /\ first \in Nat
        BY <1>4
      <4>2. SubSeq(lines, first, first) = <<lines[first]>>
        BY <1>1, <3>2, SubSeqOfOne
      <4> QED
        BY <1>1, <3>1, <3>2, <4>1, <4>2
    <3>5. Bytes(Taken(1)) <= Cap
      BY <3>2, <3>3, <3>4, FlattenOne DEF Bytes
    <3>6. 1 \in 0 .. limit /\ first + 1 - 1 <= Len(scanned)
      BY <1>4, <1>6
    <3> HIDE DEF Taken, count
    <3>7. 1 \in fits
      BY <3>5, <3>6 DEF fits
    <3>8. count \in 0 .. limit
      BY <2>3 DEF fits
    <3> QED
      BY <2>3, <3>7, <3>8
  <2> QED
    BY <2>3, <2>4
<1>7. count \in Nat /\ (count # 0 => first + count - 1 <= Len(scanned))
  <2>1. CASE first <= Len(scanned)
    <3> HIDE DEF count, Taken
    <3> QED
      BY <1>6, <2>1
  <2>2. CASE ~(first <= Len(scanned))
    <3>1. count = 0
      BY <1>4, <1>5, <2>2
    <3> QED
      BY <3>1
  <2> QED
    BY <2>1, <2>2
<1>8. IsOrdinary(text) /\ first <= Len(scanned) => count # 0
  BY <1>6
<1> HIDE DEF count, fits
<1>9. Taken(count) = SubSeq(lines, first, first + count - 1) /\ Len(Taken(count)) = count
  <2>1. CASE count = 0
    <3>1. Taken(count) = <<>> /\ SubSeq(lines, first, first + count - 1) = <<>>
      BY <1>1, <1>4, <2>1
    <3> QED
      BY <2>1, <3>1
  <2>2. CASE count # 0
    <3>1. /\ first + count - 1 <= Len(scanned) /\ first + count - 1 <= Len(lines)
          /\ first + count - 1 \in Nat /\ first >= 1
      BY <1>4, <1>5, <1>7, <2>2
    <3>2. \A i \in first .. (first + count - 1) : scanned[i] = lines[i]
      BY <1>4, <1>5, <3>1
    <3>3. \A i \in 1 .. count : /\ Taken(count)[i] = scanned[i + first - 1]
                                /\ SubSeq(lines, first, first + count - 1)[i] = lines[i + first - 1]
                                /\ i + first - 1 \in first .. (first + count - 1)
      BY <1>1, <1>4, <1>7, <3>1
    <3>4. /\ Len(Taken(count)) = count /\ Len(SubSeq(lines, first, first + count - 1)) = count
          /\ Taken(count) \in Seq(Seq(Characters))
          /\ SubSeq(lines, first, first + count - 1) \in Seq(Seq(Characters))
      BY <1>1, <1>4, <1>7, <3>1
    <3> HIDE DEF Taken
    <3> DEFINE other == SubSeq(lines, first, first + count - 1)
    <3>5. \A i \in 1 .. count : Taken(count)[i] = other[i]
      BY <3>2, <3>3
    <3> HIDE DEF other
    <3>6. Taken(count) = other
      BY <3>4, <3>5, SeqEqual DEF other
    <3> QED
      BY <3>4, <3>6 DEF other
  <2> QED
    BY <1>7, <2>1, <2>2
<1>10. Taken(count) \in Seq(Seq(Characters))
  <2>1. CASE count = 0
    <3>1. Taken(count) = <<>>
      BY <1>1, <1>4, <2>1
    <3>2. <<>> \in Seq(Seq(Characters))
      OBVIOUS
    <3> HIDE DEF Taken
    <3> QED
      BY <3>1, <3>2
  <2>2. CASE count # 0
    BY <1>1, <1>4, <1>5, <1>7, <2>2
  <2> QED
    BY <2>1, <2>2
<1> HIDE DEF Taken
<1>11. PICK taken : taken = Taken(count)
  OBVIOUS
<1>12. /\ window.first = first /\ window.lines = taken
       /\ window.more <=> (first + count <= Len(scanned) \/ Len(text) >= Ceiling)
  <2>1. /\ window.first = first /\ window.lines = Taken(count)
        /\ window.more = (first + count <= Len(scanned) \/ Len(text) >= Ceiling)
    BY <1>2
  <2> HIDE DEF window
  <2> QED
    BY <1>11, <2>1
<1>13. AnnouncesMore(window) \in BOOLEAN
  <2>1. window.more \in BOOLEAN
    BY <1>2
  <2> HIDE DEF window
  <2> QED
    BY <2>1 DEF AnnouncesMore
<1> HIDE DEF window
<1>14. taken = <<>> <=> count = 0
  <2>1. taken \in Seq(Seq(Characters)) /\ Len(taken) = count
    BY <1>9, <1>10, <1>11
  <2> QED
    BY <2>1
<1>15. AnnouncesMore(window)
         <=> count # 0 /\ (first + count <= Len(scanned) \/ Len(text) >= Ceiling)
  BY <1>12, <1>14 DEF AnnouncesMore
<1>16. IsOrdinary(text) => (AnnouncesMore(window) <=> first + count <= Len(lines))
  <2> SUFFICES ASSUME IsOrdinary(text)
               PROVE  AnnouncesMore(window) <=> first + count <= Len(lines)
    OBVIOUS
  <2>1. Len(text) < Ceiling /\ Len(text) \in Nat /\ Ceiling \in Nat
    BY FileToolsConstants DEF IsOrdinary
  <2>2. scanned = lines
    BY <1>1, <2>1
  <2>3. first + count <= Len(lines) => count # 0
    BY <1>4, <1>5, <1>7, <1>8, <2>2
  <2> QED
    BY <1>15, <2>1, <2>2, <2>3
<1>17. count # 0 => first + count - 1 <= Len(lines)
  BY <1>4, <1>5, <1>7
<1>18. /\ window.lines = SubSeq(lines, first, first + count - 1)
       /\ window.lines \in Seq(Seq(Characters)) /\ Len(window.lines) = count
  BY <1>9, <1>10, <1>11, <1>12
<1>19. Windowed(window, text, offset)
  <2>1. AnnouncesMore(window) => count # 0
    BY <1>15
  <2> QED
    BY <1>4, <1>7, <1>12, <1>13, <1>16, <1>17, <1>18, <2>1 DEF Windowed, lines
<1> QED
  BY <1>19 DEF window

-----------------------------------------------------------------------------
(* Cutting sequences.                                                      *)

\* A sequence is its first k elements and the rest.
LEMMA SplitAt ==
    ASSUME NEW S, NEW s \in Seq(S), NEW k \in 0 .. Len(s)
    PROVE  /\ SubSeq(s, 1, k) \in Seq(S) /\ Len(SubSeq(s, 1, k)) = k
           /\ SubSeq(s, k + 1, Len(s)) \in Seq(S) /\ Len(SubSeq(s, k + 1, Len(s))) = Len(s) - k
           /\ s = SubSeq(s, 1, k) \o SubSeq(s, k + 1, Len(s))
<1>1. Len(s) \in Nat /\ k \in Nat /\ k <= Len(s) /\ 1 \in Int /\ 1 <= k + 1
  OBVIOUS
<1>2. SubSeq(s, 1, k) \in Seq(S) /\ Len(SubSeq(s, 1, k)) = k
  BY <1>1
<1>3. SubSeq(s, k + 1, Len(s)) \in Seq(S) /\ Len(SubSeq(s, k + 1, Len(s))) = Len(s) - k
  BY <1>1
<1>4. SubSeq(s, 1, Len(s)) = s
  BY <1>1
<1>5. SubSeq(s, 1, k) \o SubSeq(s, k + 1, Len(s)) = SubSeq(s, 1, Len(s))
  <2>1. 1 \in 1 .. (Len(s) + 1) /\ k \in (1 - 1) .. Len(s) /\ Len(s) \in k .. Len(s)
    BY <1>1
  <2> QED
    BY <2>1, ConcatAdjacentSubSeq
<1> QED
  BY <1>2, <1>3, <1>4, <1>5

\* The stretches of two sequences joined.
LEMMA JoinedParts ==
    ASSUME NEW S, NEW a \in Seq(S), NEW b \in Seq(S)
    PROVE  /\ a \o b \in Seq(S) /\ Len(a \o b) = Len(a) + Len(b)
           /\ \A n \in 0 .. Len(a) : SubSeq(a \o b, 1, n) = SubSeq(a, 1, n)
           /\ SubSeq(a \o b, 1, Len(a)) = a
           /\ \A n \in Nat : SubSeq(a \o b, Len(a) + n + 1, Len(a) + Len(b)) = SubSeq(b, n + 1, Len(b))
<1> DEFINE s == a \o b
<1>1. Len(a) \in Nat /\ Len(b) \in Nat /\ s \in Seq(S) /\ Len(s) = Len(a) + Len(b)
  OBVIOUS
<1>2. /\ \A i \in 1 .. Len(a) : s[i] = a[i]
      /\ \A i \in 1 .. Len(b) : s[i + Len(a)] = b[i]
  <2>1. \A i \in 1 .. Len(b) : /\ i + Len(a) \in 1 .. (Len(a) + Len(b)) /\ ~(i + Len(a) <= Len(a))
                               /\ (i + Len(a)) - Len(a) = i
    BY <1>1
  <2> QED
    BY <1>1, <2>1
<1> HIDE DEF s
<1>3. ASSUME NEW n \in 0 .. Len(a)
      PROVE  SubSeq(s, 1, n) = SubSeq(a, 1, n)
  <2> DEFINE u == SubSeq(s, 1, n)
             v == SubSeq(a, 1, n)
  <2>1. /\ u \in Seq(S) /\ Len(u) = n /\ \A i \in 1 .. n : u[i] = s[i]
        /\ v \in Seq(S) /\ Len(v) = n /\ \A i \in 1 .. n : v[i] = a[i]
    BY <1>1
  <2> HIDE DEF u, v
  <2>2. \A i \in 1 .. Len(u) : u[i] = v[i]
    BY <1>1, <1>2, <2>1
  <2> QED
    BY <2>1, <2>2, SeqEqual DEF u, v
<1>4. SubSeq(s, 1, Len(a)) = a
  <2>1. Len(a) \in 0 .. Len(a) /\ SubSeq(a, 1, Len(a)) = a
    BY <1>1
  <2> QED
    BY <1>3, <2>1
<1>5. ASSUME NEW n \in Nat
      PROVE  SubSeq(s, Len(a) + n + 1, Len(a) + Len(b)) = SubSeq(b, n + 1, Len(b))
  <2> DEFINE u == SubSeq(s, Len(a) + n + 1, Len(a) + Len(b))
             v == SubSeq(b, n + 1, Len(b))
  <2>1. CASE n >= Len(b)
    <3>1. u = <<>> /\ v = <<>>
      BY <1>1, <2>1
    <3> QED
      BY <3>1
  <2>2. CASE n < Len(b)
    <3>1. u \in Seq(S) /\ Len(u) = Len(b) - n /\ \A i \in 1 .. (Len(b) - n) : u[i] = s[Len(a) + n + i]
      BY <1>1, <2>2, SMTT(20)
    <3>2. v \in Seq(S) /\ Len(v) = Len(b) - n /\ \A i \in 1 .. (Len(b) - n) : v[i] = b[n + i]
      BY <1>1, <2>2
    <3> HIDE DEF u, v
    <3>3. ASSUME NEW i \in 1 .. Len(u)
          PROVE  u[i] = v[i]
      <4>1. n + i \in 1 .. Len(b) /\ (n + i) + Len(a) = Len(a) + n + i
        BY <1>1, <2>2, <3>1
      <4> QED
        BY <1>2, <3>1, <3>2, <4>1
    <3> QED
      BY <3>1, <3>2, <3>3, SeqEqual DEF u, v
  <2> QED
    BY <1>1, <2>1, <2>2
<1> QED
  BY <1>1, <1>3, <1>4, <1>5 DEF s

\* A text with another one in it, and what lies around it.
Around(text, a, x, z) == text = (a \o x) \o z

(* Where a text is found, what comes before it and what comes after.       *)
LEMMA FoundAt ==
    ASSUME NEW S, NEW text \in Seq(S), NEW old \in Seq(S), NEW at \in Places(text, old)
    PROVE  \E a \in Seq(S), z \in Seq(S) : Around(text, a, old, z) /\ at = Len(a) + 1
<1> DEFINE a == SubSeq(text, 1, at - 1)
           z == SubSeq(text, at + Len(old), Len(text))
           head == SubSeq(text, 1, at + Len(old) - 1)
<1>1. /\ at \in Nat \ {0} /\ at + Len(old) <= Len(text) + 1 /\ Len(text) \in Nat /\ Len(old) \in Nat
      /\ SubSeq(text, at, at + Len(old) - 1) = old
  BY DEF Places
<1>2. head \o z = SubSeq(text, 1, Len(text))
  <2> DEFINE k == at + Len(old) - 1
  <2>1. /\ 1 \in 1 .. (Len(text) + 1) /\ k \in (1 - 1) .. Len(text)
        /\ Len(text) \in k .. Len(text) /\ k + 1 = at + Len(old)
    BY <1>1
  <2> HIDE DEF k
  <2>2. SubSeq(text, 1, k) \o SubSeq(text, k + 1, Len(text)) = SubSeq(text, 1, Len(text))
    BY <2>1, ConcatAdjacentSubSeq
  <2> QED
    BY <2>1, <2>2 DEF k
<1>3. a \o old = head
  <2> DEFINE k == at - 1
             n == at + Len(old) - 1
  <2>1. /\ 1 \in 1 .. (Len(text) + 1) /\ k \in (1 - 1) .. Len(text)
        /\ n \in k .. Len(text) /\ k + 1 = at
    BY <1>1
  <2> HIDE DEF k, n
  <2>2. SubSeq(text, 1, k) \o SubSeq(text, k + 1, n) = SubSeq(text, 1, n)
    BY <2>1, ConcatAdjacentSubSeq
  <2> QED
    BY <1>1, <2>1, <2>2 DEF k, n
<1>4. SubSeq(text, 1, Len(text)) = text
  BY <1>1
<1>5. /\ a \in Seq(S) /\ Len(a) = at - 1
      /\ z \in Seq(S) /\ Len(z) = Len(text) - (at + Len(old) - 1)
  <2>1. at - 1 \in 0 .. Len(text)
    BY <1>1
  <2>2. at + Len(old) - 1 \in 0 .. Len(text) /\ (at + Len(old) - 1) + 1 = at + Len(old)
    BY <1>1
  <2>3. a \in Seq(S) /\ Len(a) = at - 1
    BY <2>1, SplitAt
  <2>4. z \in Seq(S) /\ Len(z) = Len(text) - (at + Len(old) - 1)
    BY <2>2, SplitAt
  <2> QED
    BY <2>3, <2>4
<1> HIDE DEF head, a, z
<1>6. text = (a \o old) \o z
  BY <1>2, <1>3, <1>4
<1>7. at = Len(a) + 1
  BY <1>1, <1>5
<1> QED
  BY <1>5, <1>6, <1>7 DEF Around

-----------------------------------------------------------------------------
(* The texts of an edit.                                                   *)

\* Line endings are made of characters.
LEMMA CharactersAre == CR \in Characters /\ LF \in Characters
  BY DEF Characters

\* A bounded text is a sequence of characters.
LEMMA TextsAre ==
    ASSUME NEW n, NEW text \in Texts(n)
    PROVE  text \in Seq(Characters)
<1> DEFINE S == Characters
<1> SUFFICES text \in Seq(S)
  OBVIOUS
<1>1. text \in UNION {[1 .. m -> S] : m \in 0 .. n}
  BY DEF Texts, BoundedSeq, SeqOf
<1> HIDE DEF S
<1>2. PICK m \in 0 .. n : text \in [1 .. m -> S]
  BY <1>1
<1>3. m \in Nat
  BY <1>2
<1> QED
  BY <1>2, <1>3

\* So is what the model writes.
LEMMA GivenAre ==
    ASSUME NEW text \in Given
    PROVE  text \in Seq(Characters)
<1> DEFINE S == Letters \cup {LF}
<1>1. text \in UNION {[1 .. m -> S] : m \in 0 .. 1}
  BY DEF Given, BoundedSeq, SeqOf
<1>2. S \subseteq Characters
  BY DEF Characters
<1> HIDE DEF S
<1>3. PICK m \in 0 .. 1 : text \in [1 .. m -> S]
  BY <1>1
<1>4. m \in Nat /\ text \in [1 .. m -> Characters]
  BY <1>2, <1>3
<1> QED
  BY <1>4

\* An edit looks for a text that is not empty.
LEMMA PairsAre ==
    ASSUME NEW p \in Pairs
    PROVE  /\ p.old \in Seq(Characters) /\ p.old # <<>> /\ p.new \in Seq(Characters)
           /\ Len(p.old) \in Nat \ {0} /\ Len(p.new) \in Nat
<1>1. p.old \in Texts(MaxSought) \ {<<>>} /\ p.new \in Given
  BY DEF Pairs
<1>2. p.old \in Seq(Characters) /\ p.new \in Seq(Characters) /\ p.old # <<>>
  BY <1>1, TextsAre, GivenAre
<1> QED
  BY <1>2

\* What Restore writes for each character.
Ended(text) == [i \in DOMAIN text |-> IF text[i] = LF THEN <<CR, LF>> ELSE <<text[i]>>]

\* What ToLf keeps of each character.
Kept(text) == [i \in DOMAIN text |->
                 IF i < Len(text) /\ text[i] = CR /\ text[i + 1] = LF THEN <<>> ELSE <<text[i]>>]

\* Restore, character by character.
LEMMA RestoreIs ==
    ASSUME NEW text \in Seq(Characters), NEW crlf \in BOOLEAN
    PROVE  /\ Ended(text) \in Seq(Seq(Characters)) /\ Len(Ended(text)) = Len(text)
           /\ Restore(crlf, text) = IF crlf THEN FlattenSeq(Ended(text)) ELSE text
           /\ Restore(crlf, text) \in Seq(Characters)
<1> DEFINE S == Characters
<1>1. text \in Seq(S) /\ DOMAIN text = 1 .. Len(text) /\ Len(text) \in Nat
  OBVIOUS
<1>2. <<CR, LF>> \in Seq(S) /\ \A i \in 1 .. Len(text) : <<text[i]>> \in Seq(S)
  BY <1>1, CharactersAre
<1> HIDE DEF S
<1>3. Ended(text) \in Seq(Seq(S)) /\ Len(Ended(text)) = Len(text)
  BY <1>1, <1>2 DEF Ended
<1>4. Restore(crlf, text) = IF crlf THEN FlattenSeq(Ended(text)) ELSE text
  BY DEF Restore, Ended
<1>5. FlattenSeq(Ended(text)) \in Seq(S)
  BY <1>3, FlattenType
<1> QED
  BY <1>1, <1>3, <1>4, <1>5 DEF S

\* ToLf, character by character.
LEMMA ToLfIs ==
    ASSUME NEW text \in Seq(Characters)
    PROVE  /\ Kept(text) \in Seq(Seq(Characters)) /\ Len(Kept(text)) = Len(text)
           /\ ToLf(text) = IF IsCrlf(text) THEN FlattenSeq(Kept(text)) ELSE text
           /\ ToLf(text) \in Seq(Characters)
<1> DEFINE S == Characters
<1>1. text \in Seq(S) /\ DOMAIN text = 1 .. Len(text) /\ Len(text) \in Nat
  OBVIOUS
<1>2. <<>> \in Seq(S) /\ \A i \in 1 .. Len(text) : <<text[i]>> \in Seq(S)
  BY <1>1
<1> HIDE DEF S
<1>3. Kept(text) \in Seq(Seq(S)) /\ Len(Kept(text)) = Len(text)
  BY <1>1, <1>2 DEF Kept
<1>4. ToLf(text) = IF IsCrlf(text) THEN FlattenSeq(Kept(text)) ELSE text
  BY DEF ToLf, Kept
<1>5. FlattenSeq(Kept(text)) \in Seq(S)
  BY <1>3, FlattenType
<1> QED
  BY <1>1, <1>3, <1>4, <1>5 DEF S

\* A file has CRLF endings or has not.
LEMMA IsCrlfIs ==
    ASSUME NEW text \in Seq(Characters)
    PROVE  IsCrlf(text) \in BOOLEAN
  BY DEF IsCrlf, Contains

\* A text that occurs once has a first place.
LEMMA PlaceIs ==
    ASSUME NEW S, NEW text \in Seq(S), NEW old \in Seq(S), OccursOnce(text, old)
    PROVE  /\ Place(text, old) \in Places(text, old) /\ Place(text, old) \in Nat \ {0}
           /\ \A i \in Places(text, old) : Place(text, old) <= i
<1> DEFINE P == Places(text, old)
<1>1. Len(text) \in Nat /\ Len(old) \in Nat
  OBVIOUS
<1>2. P \in SUBSET Nat /\ P # {} /\ \A i \in P : i \in Nat \ {0}
  <2>1. P # {}
    BY DEF OccursOnce
  <2>2. \A i \in P : i \in Nat \ {0}
    BY <1>1 DEF Places
  <2> QED
    BY <2>1, <2>2
<1> HIDE DEF P
<1>3. \E n \in P : \A m \in P : n <= m
  BY <1>2, Least
<1>4. Min(P) \in P /\ \A m \in P : Min(P) <= m
  BY <1>3 DEF Min
<1> QED
  BY <1>2, <1>4 DEF P, Place

-----------------------------------------------------------------------------
(* Replacing texts one after the other.                                    *)

\* A function on 0..k that replaces the first k texts one after the other.
IsReplacing(out, text, order, k) ==
    out = [n \in 0..k |->
              IF n = 0 THEN text
              ELSE Replaced(out[n - 1], Place(text, order[n].old), order[n])]

\* How many texts can be replaced in turn.
Replaceable(text, order) == {k \in Nat : \E out : IsReplacing(out, text, order, k)}

\* One more text can be replaced.
LEMMA ReplacingGrows ==
    ASSUME NEW text, NEW order, NEW k \in Nat, k \in Replaceable(text, order)
    PROVE  k + 1 \in Replaceable(text, order)
<1>1. PICK out : IsReplacing(out, text, order, k)
  BY DEF Replaceable
<1> DEFINE Next(had, n) == Replaced(had, Place(text, order[n].old), order[n])
           next == [n \in 0 .. (k + 1) |-> IF n = k + 1 THEN Next(out[k], k + 1) ELSE out[n]]
<1> HIDE DEF Next
<1>2. \A n \in 0 .. k : out[n] = IF n = 0 THEN text ELSE Next(out[n - 1], n)
  BY <1>1 DEF IsReplacing, Next
<1>3. ASSUME NEW n \in 0 .. (k + 1)
      PROVE  next[n] = IF n = 0 THEN text ELSE Next(next[n - 1], n)
  <2>1. CASE n = k + 1
    <3>1. n # 0 /\ n - 1 = k /\ k \in 0 .. (k + 1) /\ k # k + 1
      BY <2>1
    <3>2. next[n] = Next(out[k], k + 1) /\ next[k] = out[k]
      BY <2>1, <3>1
    <3> HIDE DEF next
    <3> QED
      BY <2>1, <3>1, <3>2
  <2>2. CASE n \in 0 .. k
    <3>1. next[n] = out[n] /\ n # k + 1
      BY <2>2
    <3>2. ASSUME n # 0
          PROVE  next[n - 1] = out[n - 1]
      <4>1. n - 1 \in 0 .. (k + 1) /\ n - 1 # k + 1
        BY <2>2, <3>2
      <4> QED
        BY <4>1
    <3> HIDE DEF next
    <3> QED
      BY <1>2, <2>2, <3>1, <3>2
  <2> QED
    BY <1>3, <2>1, <2>2
<1>4. next = [n \in 0 .. (k + 1) |-> next[n]]
  OBVIOUS
<1> HIDE DEF next
<1>5. IsReplacing(next, text, order, k + 1)
  BY <1>3, <1>4 DEF IsReplacing, Next
<1> QED
  BY <1>5 DEF Replaceable

\* What Apply makes of the text, one place after the other.
Applied(out, text, wanted) ==
    /\ out[0] = text /\ Apply(text, wanted) = out[Len(wanted)]
    /\ \A n \in 1 .. Len(wanted) :
         out[n] = Replaced(out[n - 1], Place(text, Rightmost(text, wanted)[n].old),
                           Rightmost(text, wanted)[n])

\* Apply steps through the pairs as its definition says.
LEMMA ApplyIs ==
    ASSUME NEW text, NEW wanted, Len(wanted) \in Nat
    PROVE  \E out : Applied(out, text, wanted)
<1> DEFINE order == Rightmost(text, wanted)
           out == CHOOSE f : IsReplacing(f, text, order, Len(wanted))
<1>1. Apply(text, wanted) = out[Len(wanted)]
  BY DEF Apply, IsReplacing
<1> HIDE DEF order
<1>2. 0 \in Replaceable(text, order)
  <2> DEFINE none == [n \in 0 .. 0 |-> text]
  <2>1. IsReplacing(none, text, order, 0)
    BY DEF IsReplacing
  <2> QED
    BY <2>1 DEF Replaceable
<1>3. Nat \subseteq Replaceable(text, order)
  BY <1>2, ReplacingGrows, InductionOverASet
<1>4. \E f : IsReplacing(f, text, order, Len(wanted))
  BY <1>3 DEF Replaceable
<1>5. IsReplacing(out, text, order, Len(wanted))
  BY <1>4
<1> HIDE DEF out
<1> DEFINE Next(had, n) == Replaced(had, Place(text, order[n].old), order[n])
<1> HIDE DEF Next
<1>6. \A n \in 0 .. Len(wanted) : out[n] = IF n = 0 THEN text ELSE Next(out[n - 1], n)
  BY <1>5 DEF IsReplacing, Next
<1>7. out[0] = text /\ \A n \in 1 .. Len(wanted) : out[n] = Next(out[n - 1], n)
  BY <1>6
<1> QED
  BY <1>1, <1>7 DEF Next, order, Applied

\* Two sequences joined are a sequence.
LEMMA Joined ==
    ASSUME NEW S, NEW a \in Seq(S), NEW b \in Seq(S)
    PROVE  \E c \in Seq(S) : c = a \o b
<1>1. a \o b \in Seq(S)
  OBVIOUS
<1> QED
  BY <1>1, Zenon

\* Replacing a text leaves what lies around it.
LEMMA ReplacedIs ==
    ASSUME NEW S, NEW a \in Seq(S), NEW x \in Seq(S), NEW y \in Seq(S), NEW z \in Seq(S),
           NEW p, p.old = x, p.new = y,
           NEW text, Around(text, a, x, z)
    PROVE  Around(Replaced(text, Len(a) + 1, p), a, y, z)
<1>1. PICK head \in Seq(S) : head = a \o x
  BY Joined
<1>2. /\ Len(a) \in Nat /\ Len(x) \in Nat /\ Len(z) \in Nat /\ Len(head) = Len(a) + Len(x)
      /\ text = head \o z /\ text \in Seq(S) /\ Len(text) = Len(head) + Len(z)
  BY <1>1 DEF Around
<1>3. SubSeq(text, 1, Len(a)) = a
  <2>1. Len(a) \in 0 .. Len(head)
    BY <1>2
  <2>2. SubSeq(text, 1, Len(a)) = SubSeq(head, 1, Len(a))
    BY <1>2, <2>1, JoinedParts
  <2>3. SubSeq(head, 1, Len(a)) = a
    BY <1>1, JoinedParts
  <2> QED
    BY <2>2, <2>3
<1>4. SubSeq(text, Len(head) + 1, Len(text)) = z
  <2>1. 0 \in Nat /\ Len(head) + 0 + 1 = Len(head) + 1 /\ 0 + 1 = 1
    BY <1>2
  <2>2. SubSeq(head \o z, Len(head) + 0 + 1, Len(head) + Len(z)) = SubSeq(z, 0 + 1, Len(z))
    BY <2>1, JoinedParts
  <2>3. SubSeq(z, 1, Len(z)) = z
    BY <1>2
  <2> QED
    BY <1>2, <2>1, <2>2, <2>3
<1>5. (Len(a) + 1) - 1 = Len(a) /\ (Len(a) + 1) + Len(x) = Len(head) + 1
  BY <1>2
<1>6. Replaced(text, Len(a) + 1, p)
        = SubSeq(text, 1, Len(a)) \o y \o SubSeq(text, Len(head) + 1, Len(text))
  BY <1>5 DEF Replaced
<1>7. Replaced(text, Len(a) + 1, p) = (a \o y) \o z
  BY <1>3, <1>4, <1>6
<1> QED
  BY <1>7 DEF Around

\* The one pair of an edit is its rightmost.
LEMMA RightmostOfOne ==
    ASSUME NEW text, NEW wanted, DOMAIN wanted = {1}, Place(text, wanted[1].old) \in Nat
    PROVE  Rightmost(text, wanted)[1] = wanted[1]
<1> DEFINE At(k) == Place(text, wanted[k].old)
           Later(k) == {j \in {1} : At(j) > At(k)}
           Nth(n) == CHOOSE k \in {1} : Cardinality(Later(k)) = n - 1
<1>1. Rightmost(text, wanted) = [n \in {1} |-> wanted[Nth(n)]]
  BY DEF Rightmost
<1>2. Rightmost(text, wanted)[1] = wanted[Nth(1)]
  BY <1>1
<1>3. Later(1) = {}
  <2> HIDE DEF At
  <2>1. At(1) \in Nat
    BY DEF At
  <2> QED
    BY <2>1
<1>4. Cardinality(Later(1)) = 1 - 1
  BY <1>3, FS_EmptySet
<1> HIDE DEF Later
<1>5. Nth(1) \in {1}
  BY <1>4
<1> QED
  BY <1>2, <1>5

\* The edit of one pair: what the text holds before, what it names, what it
\* holds after.
LEMMA ApplyOne ==
    ASSUME NEW text \in Seq(Characters), NEW p \in Pairs, IsAccepted(text, <<p>>)
    PROVE  \E a \in Seq(Characters), z \in Seq(Characters) :
             /\ Around(text, a, p.old, z)
             /\ Around(Apply(text, <<p>>), a, p.new, z)
<1> DEFINE S == Characters
           wanted == <<p>>
           at == Place(text, p.old)
<1>1. Len(wanted) = 1 /\ wanted[1] = p /\ DOMAIN wanted = {1} /\ 1 \in {1}
  OBVIOUS
<1>2. OccursOnce(text, p.old)
  BY <1>1 DEF IsAccepted
<1>3. p.old \in Seq(S) /\ p.new \in Seq(S)
  BY PairsAre
<1>4. at \in Places(text, p.old) /\ at \in Nat \ {0}
  BY <1>2, <1>3, PlaceIs
<1>5. Rightmost(text, wanted)[1] = p
  <2>1. wanted[1].old = p.old
    BY <1>1
  <2> HIDE DEF wanted
  <2> QED
    BY <1>1, <1>4, <2>1, RightmostOfOne
<1> HIDE DEF wanted, at
<1>6. Apply(text, wanted) = Replaced(text, at, p)
  <2>1. Len(wanted) \in Nat /\ 1 \in 1 .. Len(wanted) /\ 1 - 1 = 0
    BY <1>1
  <2>2. PICK out : Applied(out, text, wanted)
    BY <2>1, ApplyIs
  <2>3. out[1] = Replaced(out[1 - 1], Place(text, Rightmost(text, wanted)[1].old), Rightmost(text, wanted)[1])
    BY <2>1, <2>2 DEF Applied
  <2> QED
    BY <1>1, <1>5, <2>1, <2>2, <2>3 DEF at, Applied
<1> HIDE DEF S
<1>7. text \in Seq(S)
  BY DEF S
<1>8. PICK x \in Seq(S), y \in Seq(S) : p.old = x /\ p.new = y
  BY <1>3
<1>9. PICK a \in Seq(S), z \in Seq(S) : Around(text, a, x, z) /\ at = Len(a) + 1
  BY <1>4, <1>7, <1>8, FoundAt
<1>10. Around(Replaced(text, Len(a) + 1, p), a, y, z)
  BY <1>8, <1>9, ReplacedIs
<1>11. Around(text, a, p.old, z) /\ Around(Apply(text, <<p>>), a, p.new, z)
  BY <1>6, <1>8, <1>9, <1>10 DEF wanted
<1> QED
  BY <1>11 DEF S

\* Of two pairs the one whose text comes last is first.
LEMMA RightmostOfTwo ==
    ASSUME NEW text, NEW wanted, DOMAIN wanted = {1, 2}, NEW l \in {1, 2}, NEW r \in {1, 2},
           Place(text, wanted[l].old) \in Nat, Place(text, wanted[r].old) \in Nat,
           Place(text, wanted[l].old) < Place(text, wanted[r].old)
    PROVE  Rightmost(text, wanted)[1] = wanted[r] /\ Rightmost(text, wanted)[2] = wanted[l]
<1> DEFINE At(k) == Place(text, wanted[k].old)
           Later(k) == {j \in {1, 2} : At(j) > At(k)}
<1>1. l # r /\ {1, 2} = {l, r}
  BY DEF At
<1>2. Later(r) = {} /\ Later(l) = {r}
  <2> HIDE DEF At
  <2>1. At(l) \in Nat /\ At(r) \in Nat /\ At(l) < At(r)
    BY DEF At
  <2> QED
    BY <1>1, <2>1
<1>3. Cardinality(Later(r)) = 0 /\ Cardinality(Later(l)) = 1
  BY <1>2, FS_EmptySet, FS_Singleton, ZenonT(40)
<1>4. Rightmost(text, wanted) = [n \in {1, 2} |-> wanted[CHOOSE k \in {1, 2} : Cardinality(Later(k)) = n - 1]]
  BY DEF Rightmost
<1> DEFINE Nth(n) == CHOOSE k \in {1, 2} : Cardinality(Later(k)) = n - 1
<1>5. Rightmost(text, wanted)[1] = wanted[Nth(1)] /\ Rightmost(text, wanted)[2] = wanted[Nth(2)]
  BY <1>4
<1> HIDE DEF Later
<1>6. Nth(1) = r
  <2>1. Cardinality(Later(r)) = 1 - 1 /\ Cardinality(Later(l)) # 1 - 1
    BY <1>3
  <2>2. Nth(1) \in {1, 2} /\ Cardinality(Later(Nth(1))) = 1 - 1
    BY <2>1
  <2> HIDE DEF Nth
  <2> QED
    BY <1>1, <2>1, <2>2
<1>7. Nth(2) = l
  <2>1. Cardinality(Later(l)) = 2 - 1 /\ Cardinality(Later(r)) # 2 - 1
    BY <1>3
  <2>2. Nth(2) \in {1, 2} /\ Cardinality(Later(Nth(2))) = 2 - 1
    BY <2>1
  <2> HIDE DEF Nth
  <2> QED
    BY <1>1, <2>1, <2>2
<1> QED
  BY <1>5, <1>6, <1>7

\* What lies around two texts, one after the end of the other.
LEMMA FoundInside ==
    ASSUME NEW S, NEW head \in Seq(S), NEW tail \in Seq(S), NEW x \in Seq(S),
           NEW at \in Places(head \o tail, x), at + Len(x) <= Len(head) + 1
    PROVE  at \in Places(head, x)
<1> DEFINE text == head \o tail
           n == at + Len(x) - 1
           u == SubSeq(text, at, n)
           v == SubSeq(head, at, n)
<1>1. /\ text \in Seq(S) /\ Len(text) = Len(head) + Len(tail)
      /\ Len(head) \in Nat /\ Len(tail) \in Nat /\ Len(x) \in Nat
      /\ \A i \in 1 .. Len(head) : text[i] = head[i]
  OBVIOUS
<1>2. at \in Nat \ {0} /\ u = x
  BY <1>1 DEF Places
<1> HIDE DEF text
<1>3. n \in Nat /\ at <= n + 1 /\ n <= Len(head) /\ n <= Len(text) /\ n - at + 1 = Len(x)
  BY <1>1, <1>2
<1> HIDE DEF n
<1>4. u \in Seq(S) /\ Len(u) = n - at + 1 /\ \A i \in 1 .. (n - at + 1) : u[i] = text[at + i - 1]
  BY <1>1, <1>2, <1>3
<1>5. v \in Seq(S) /\ Len(v) = n - at + 1 /\ \A i \in 1 .. (n - at + 1) : v[i] = head[at + i - 1]
  BY <1>1, <1>2, <1>3
<1>6. \A i \in 1 .. (n - at + 1) : at + i - 1 \in 1 .. Len(head)
  BY <1>1, <1>2, <1>3
<1> HIDE DEF u, v
<1>7. \A i \in 1 .. Len(u) : u[i] = v[i]
  BY <1>1, <1>4, <1>5, <1>6
<1>8. u = v
  BY <1>4, <1>5, <1>7, SeqEqual
<1>9. at \in 1 .. (Len(head) - Len(x) + 1)
  BY <1>1, <1>2, <1>3
<1> QED
  BY <1>2, <1>8, <1>9 DEF Places, v, n

\* A text with two in it, one after the other.
Both(text, a, x, m, y, z) == text = (((a \o x) \o m) \o y) \o z
\* What comes after the first of two texts.
After(m, y, z) == (m \o y) \o z

\* Two texts in a third are the first one and what comes after it.
LEMMA BothIs ==
    ASSUME NEW S, NEW a \in Seq(S), NEW x \in Seq(S), NEW m \in Seq(S), NEW y \in Seq(S),
           NEW z \in Seq(S), NEW text
    PROVE  /\ After(m, y, z) \in Seq(S)
           /\ Both(text, a, x, m, y, z) <=> Around(text, a, x, After(m, y, z))
<1>1. PICK my \in Seq(S) : my = m \o y
  BY Joined
<1>2. PICK b \in Seq(S) : b = a \o x
  BY Joined
<1>3. (b \o m) \o y = b \o my
  BY <1>1, ConcatAssociative, SMTT(20)
<1>4. (b \o my) \o z = b \o (my \o z)
  BY ConcatAssociative, SMTT(20)
<1>5. my \o z \in Seq(S)
  OBVIOUS
<1> QED
  BY <1>1, <1>2, <1>3, <1>4, <1>5 DEF Both, Around, After

\* What lies around two texts found one after the other.
LEMMA FoundBoth ==
    ASSUME NEW S, NEW text \in Seq(S), NEW x \in Seq(S), NEW y \in Seq(S),
           NEW at \in Places(text, x), NEW to \in Places(text, y), at + Len(x) <= to
    PROVE  \E a \in Seq(S), m \in Seq(S), z \in Seq(S) :
             /\ Both(text, a, x, m, y, z)
             /\ at = Len(a) + 1 /\ to = Len((a \o x) \o m) + 1
<1>1. PICK head \in Seq(S), z \in Seq(S) : Around(text, head, y, z) /\ to = Len(head) + 1
  BY FoundAt
<1> DEFINE tail == y \o z
<1>2. tail \in Seq(S)
  OBVIOUS
<1>3. text = head \o tail
  BY <1>1, ConcatAssociative, SMTT(20) DEF Around
<1> HIDE DEF tail
<1>4. at \in Places(head \o tail, x) /\ at + Len(x) <= Len(head) + 1
  BY <1>1, <1>3
<1>5. at \in Places(head, x)
  BY <1>2, <1>4, FoundInside
<1>6. PICK a \in Seq(S), m \in Seq(S) : Around(head, a, x, m) /\ at = Len(a) + 1
  BY <1>5, FoundAt
<1>7. Both(text, a, x, m, y, z) /\ to = Len((a \o x) \o m) + 1
  BY <1>1, <1>6 DEF Around, Both
<1> QED
  BY <1>6, <1>7

\* Replacing the second and then the first leaves what lies around them.
LEMMA ReplacedBoth ==
    ASSUME NEW S, NEW text, NEW a \in Seq(S), NEW m \in Seq(S), NEW z \in Seq(S),
           NEW x \in Seq(S), NEW u \in Seq(S), NEW y \in Seq(S), NEW v \in Seq(S),
           NEW p, NEW q, p.old = x, p.new = u, q.old = y, q.new = v,
           Both(text, a, x, m, y, z)
    PROVE  Both(Replaced(Replaced(text, Len((a \o x) \o m) + 1, q), Len(a) + 1, p), a, u, m, v, z)
<1>1. PICK ax \in Seq(S) : ax = a \o x
  BY Joined
<1>2. PICK head \in Seq(S) : head = ax \o m
  BY Joined
<1>3. PICK later : later = Replaced(text, Len(head) + 1, q)
  OBVIOUS
<1>4. Around(text, head, y, z)
  BY <1>1, <1>2 DEF Both, Around
<1>5. Around(later, head, v, z)
  BY <1>3, <1>4, ReplacedIs
<1>6. Both(later, a, x, m, v, z)
  BY <1>1, <1>2, <1>5 DEF Around, Both
<1>7. Around(later, a, x, After(m, v, z)) /\ After(m, v, z) \in Seq(S)
  BY <1>6, BothIs
<1>8. Around(Replaced(later, Len(a) + 1, p), a, u, After(m, v, z))
  BY <1>7, ReplacedIs
<1>9. Both(Replaced(later, Len(a) + 1, p), a, u, m, v, z)
  BY <1>8, BothIs
<1> QED
  BY <1>1, <1>2, <1>3, <1>9

\* The edit of two pairs that do not overlap, in the order of the text.
LEMMA ApplyTwo ==
    ASSUME NEW text \in Seq(Characters), NEW wanted, DOMAIN wanted = {1, 2}, Len(wanted) = 2,
           NEW l \in {1, 2}, NEW r \in {1, 2}, l # r,
           NEW p \in Pairs, NEW q \in Pairs, wanted[l] = p, wanted[r] = q,
           IsAccepted(text, wanted), Place(text, p.old) <= Place(text, q.old)
    PROVE  \E a \in Seq(Characters), m \in Seq(Characters), z \in Seq(Characters) :
             /\ Both(text, a, p.old, m, q.old, z)
             /\ Both(Apply(text, wanted), a, p.new, m, q.new, z)
<1> DEFINE S == Characters
           at == Place(text, p.old)
           to == Place(text, q.old)
<1>1. /\ p.old \in Seq(S) /\ p.new \in Seq(S) /\ q.old \in Seq(S) /\ q.new \in Seq(S)
      /\ Len(p.old) \in Nat \ {0} /\ Len(q.old) \in Nat \ {0}
  BY PairsAre
<1>2. OccursOnce(text, p.old) /\ OccursOnce(text, q.old)
  BY DEF IsAccepted
<1>3. /\ at \in Places(text, p.old) /\ at \in Nat \ {0}
      /\ to \in Places(text, q.old) /\ to \in Nat \ {0}
  BY <1>1, <1>2, PlaceIs
<1>4. at + Len(p.old) <= to
  <2>1. ~(/\ l # r /\ Place(text, wanted[l].old) <= Place(text, wanted[r].old)
          /\ Place(text, wanted[r].old) < Place(text, wanted[l].old) + Len(wanted[l].old))
    BY DEF IsAccepted, Overlap
  <2> QED
    BY <1>1, <1>3, <2>1
<1>5. Rightmost(text, wanted)[1] = q /\ Rightmost(text, wanted)[2] = p
  <2>1. at < to
    BY <1>1, <1>3, <1>4
  <2> QED
    BY <1>3, <2>1, RightmostOfTwo
<1>6. Apply(text, wanted) = Replaced(Replaced(text, to, q), at, p)
  <2>1. Len(wanted) \in Nat /\ 1 \in 1 .. Len(wanted) /\ 2 \in 1 .. Len(wanted) /\ 1 - 1 = 0 /\ 2 - 1 = 1
    OBVIOUS
  <2> HIDE DEF at, to
  <2>2. PICK out : Applied(out, text, wanted)
    BY <2>1, ApplyIs
  <2>3. /\ out[1] = Replaced(out[1 - 1], Place(text, Rightmost(text, wanted)[1].old), Rightmost(text, wanted)[1])
        /\ out[2] = Replaced(out[2 - 1], Place(text, Rightmost(text, wanted)[2].old), Rightmost(text, wanted)[2])
    BY <2>1, <2>2 DEF Applied
  <2> QED
    BY <1>5, <2>1, <2>2, <2>3 DEF at, to, Applied
<1> HIDE DEF at, to, S
<1>7. text \in Seq(S)
  BY DEF S
<1>8. PICK x \in Seq(S), u \in Seq(S), y \in Seq(S), v \in Seq(S) :
        p.old = x /\ p.new = u /\ q.old = y /\ q.new = v
  BY <1>1
<1>9. PICK a \in Seq(S), m \in Seq(S), z \in Seq(S) :
        Both(text, a, x, m, y, z) /\ at = Len(a) + 1 /\ to = Len((a \o x) \o m) + 1
  BY <1>3, <1>4, <1>7, <1>8, FoundBoth
<1>10. Both(Replaced(Replaced(text, Len((a \o x) \o m) + 1, q), Len(a) + 1, p), a, u, m, v, z)
  BY <1>8, <1>9, ReplacedBoth
<1>11. Both(text, a, p.old, m, q.old, z) /\ Both(Apply(text, wanted), a, p.new, m, q.new, z)
  BY <1>6, <1>8, <1>9, <1>10
<1> QED
  BY <1>11 DEF S

-----------------------------------------------------------------------------
(* Paging.                                                                 *)

\* What was paged through of a text: its lines from one to the next to ask for.
IsPage(page, text) ==
    /\ page.from \in Nat \ {0} /\ page.next \in Nat /\ page.from <= page.next
    /\ page.more \in BOOLEAN
    /\ page.seen = SubSeq(Lines(text), page.from, page.next - 1)
    /\ page.more => page.next - 1 <= Len(Lines(text))
    /\ page.next # page.from => page.next - 1 <= Len(Lines(text))
    /\ IsOrdinary(text) => (page.more <=> page.next <= Len(Lines(text)))

\* What is paged through is a page of the file.
PagesInv == disk \in Seq(Characters) /\ (paging = Idle \/ IsPage(paging, disk))

\* The page of one window.
LEMMA FirstPage ==
    ASSUME NEW text, NEW offset, NEW window, Windowed(window, text, offset),
           NEW page, page.from = window.first, page.next = NextOffset(window),
           page.seen = window.lines, page.more \in BOOLEAN, page.more <=> AnnouncesMore(window)
    PROVE  /\ IsPage(page, text) /\ (offset # 0 => page.from = offset)
           /\ window.lines \in Seq(Seq(Characters))
<1>1. PICK first \in Nat \ {0}, count \in Nat :
        /\ offset # 0 => first = offset
        /\ window.first = first
        /\ window.lines = SubSeq(Lines(text), first, first + count - 1)
        /\ window.lines \in Seq(Seq(Characters)) /\ Len(window.lines) = count
        /\ count # 0 => first + count - 1 <= Len(Lines(text))
        /\ AnnouncesMore(window) \in BOOLEAN
        /\ AnnouncesMore(window) => count # 0
        /\ IsOrdinary(text) => (AnnouncesMore(window) <=> first + count <= Len(Lines(text)))
  BY DEF Windowed
<1>2. PICK next \in Nat : next = first + count
  OBVIOUS
<1>3. first <= next /\ (next # first <=> count # 0) /\ first + count - 1 = next - 1
  BY <1>2
<1>4. page.from = first /\ page.next = next
  BY <1>1, <1>2 DEF NextOffset
<1>5. page.seen = SubSeq(Lines(text), first, next - 1)
  BY <1>1, <1>3
<1>6. /\ page.more => next - 1 <= Len(Lines(text))
      /\ next # first => next - 1 <= Len(Lines(text))
      /\ IsOrdinary(text) => (page.more <=> next <= Len(Lines(text)))
  BY <1>1, <1>2, <1>3
<1>7. IsPage(page, text)
  BY <1>3, <1>4, <1>5, <1>6 DEF IsPage
<1> QED
  BY <1>1, <1>7

\* A window from where a page ended makes a longer page.
LEMMA PageGrows ==
    ASSUME NEW text \in Seq(Characters), NEW had, IsPage(had, text), had.more, NEW page, NEW more,
           IsPage(page, text), page.from = had.next,
           more.from = had.from, more.next = page.next, more.seen = had.seen \o page.seen,
           more.more \in BOOLEAN, more.more <=> page.more
    PROVE  IsPage(more, text)
<1> DEFINE lines == Lines(text)
<1>1. lines \in Seq(Seq(Characters)) /\ Len(lines) \in Nat
  BY ScannedBegins
<1>2. /\ had.from \in Nat \ {0} /\ had.next \in Nat /\ had.from <= had.next /\ had.next - 1 <= Len(lines)
      /\ had.seen = SubSeq(lines, had.from, had.next - 1)
      /\ page.next \in Nat /\ had.next <= page.next
      /\ page.seen = SubSeq(lines, had.next, page.next - 1)
      /\ page.next # had.next => page.next - 1 <= Len(lines)
  BY DEF IsPage
<1> HIDE DEF lines
<1>3. PICK m \in Nat, k \in Nat, j \in Nat, last \in Nat :
        m = had.from /\ k = had.next /\ j = page.next /\ last = Len(lines)
  BY <1>1, <1>2
<1>4. m # 0 /\ m <= k /\ k - 1 <= last /\ k <= j /\ (j # k => j - 1 <= last)
  BY <1>2, <1>3
<1>5. m \in 1 .. (last + 1) /\ k - 1 \in (m - 1) .. last /\ j - 1 \in (k - 1) .. last
      /\ (k - 1) + 1 = k
  BY <1>4
<1>6. SubSeq(lines, m, k - 1) \o SubSeq(lines, (k - 1) + 1, j - 1) = SubSeq(lines, m, j - 1)
  BY <1>1, <1>3, <1>5, ConcatAdjacentSubSeq
<1>7. more.seen = SubSeq(lines, m, j - 1)
  BY <1>2, <1>3, <1>5, <1>6
<1>8. more.from = m /\ more.next = j /\ m <= j
  BY <1>3, <1>4
<1>9. (more.more => j - 1 <= last) /\ (j # m => j - 1 <= last)
  BY <1>4, <1>5
<1>10. IsOrdinary(text) => (more.more <=> j <= last)
  BY <1>3 DEF IsPage, lines
<1> QED
  BY <1>3, <1>4, <1>7, <1>8, <1>9, <1>10 DEF IsPage, lines

-----------------------------------------------------------------------------
\* Nothing is paged through.
LEMMA IdleIs == Idle.from = 0 /\ Idle.next = 0 /\ Idle.seen = <<>> /\ ~Idle.more
  BY DEF Idle

\* A read shows a page, or makes the one before longer.
LEMMA ReadsPages ==
    ASSUME PagesInv, NEW offset \in 0..(MaxFile + 1), NEW limit \in 1..MaxLimit,
           Reads(offset, limit)
    PROVE  PagesInv'
<1>1. offset \in Nat /\ limit \in Nat \ {0}
  BY FileToolsConstants
<1>2. PICK window : window = Window(disk, offset, limit)
  OBVIOUS
<1> DEFINE one == [from |-> window.first, next |-> NextOffset(window), seen |-> window.lines,
                   more |-> AnnouncesMore(window)]
           goesOn == paging.more /\ offset = paging.next
<1>3. /\ IsPage(one, disk) /\ (offset # 0 => one.from = offset)
      /\ window.lines \in Seq(Seq(Characters))
  <2>1. /\ one.from = window.first /\ one.next = NextOffset(window)
        /\ one.seen = window.lines /\ one.more = AnnouncesMore(window)
    OBVIOUS
  <2>2. Windowed(window, disk, offset)
    BY <1>1, <1>2, WindowIs DEF PagesInv
  <2>3. AnnouncesMore(window) \in BOOLEAN
    BY <2>2 DEF Windowed
  <2> HIDE DEF one
  <2>4. one.more \in BOOLEAN /\ (one.more <=> AnnouncesMore(window))
    BY <2>1, <2>3
  <2> QED
    BY <2>1, <2>2, <2>4, FirstPage
<1>4. /\ disk' = disk
      /\ paging' = [from |-> IF goesOn THEN paging.from ELSE window.first,
                    next |-> NextOffset(window),
                    seen |-> (IF goesOn THEN paging.seen ELSE <<>>) \o window.lines,
                    more |-> AnnouncesMore(window)]
  BY <1>2 DEF Reads
<1>5. CASE goesOn
  <2>1. paging # Idle
    BY <1>5, IdleIs
  <2>2. IsPage(paging, disk) /\ paging.more
    BY <1>5, <2>1 DEF PagesInv
  <2>3. one.from = paging.next
    <3>1. paging.next \in Nat \ {0}
      BY <2>2 DEF IsPage
    <3> HIDE DEF one
    <3> QED
      BY <1>3, <1>5, <3>1
  <2>4. /\ paging'.from = paging.from /\ paging'.next = one.next
        /\ paging'.seen = paging.seen \o one.seen /\ paging'.more = one.more
    BY <1>4, <1>5
  <2> HIDE DEF one
  <2>5. PICK new : new = paging'
    OBVIOUS
  <2>6. IsPage(new, disk)
    <3>1. one.more \in BOOLEAN
      BY <1>3 DEF IsPage
    <3>2. /\ new.from = paging.from /\ new.next = one.next /\ new.seen = paging.seen \o one.seen
          /\ new.more \in BOOLEAN /\ (new.more <=> one.more)
      BY <2>4, <2>5, <3>1
    <3>3. disk \in Seq(Characters)
      BY DEF PagesInv
    <3> QED
      BY <1>3, <2>2, <2>3, <3>2, <3>3, PageGrows
  <2>7. IsPage(paging', disk')
    BY <1>4, <2>5, <2>6
  <2> QED
    BY <1>4, <2>7 DEF PagesInv
<1>6. CASE ~goesOn
  <2>1. <<>> \o window.lines = window.lines
    BY <1>3
  <2>2. paging' = one
    BY <1>4, <1>6, <2>1
  <2> HIDE DEF one
  <2>3. IsPage(paging', disk')
    BY <1>3, <1>4, <2>2
  <2> QED
    BY <1>4, <2>3 DEF PagesInv
<1> QED
  BY <1>5, <1>6

\* The pairs of an edit, one or two, and what they make of a file.
IsAsked(wanted) == \/ \E p \in Pairs : wanted = <<p>>
                  \/ \E p, q \in Pairs : wanted = <<p, q>>

\* What an edit that was accepted makes of a text.
IsEdit(text, wanted, result) ==
    /\ IsAsked(wanted) /\ IsAccepted(ToLf(text), wanted)
    /\ result = Restore(IsCrlf(text), Apply(ToLf(text), wanted))

\* Of two pairs, one comes first in the text.
LEMMA ApplyPair ==
    ASSUME NEW text \in Seq(Characters), NEW p \in Pairs, NEW q \in Pairs,
           IsAccepted(text, <<p, q>>)
    PROVE  \E a \in Seq(Characters), m \in Seq(Characters), z \in Seq(Characters) :
             \/ /\ Both(text, a, p.old, m, q.old, z)
                /\ Both(Apply(text, <<p, q>>), a, p.new, m, q.new, z)
             \/ /\ Both(text, a, q.old, m, p.old, z)
                /\ Both(Apply(text, <<p, q>>), a, q.new, m, p.new, z)
<1>1. PICK wanted : wanted = <<p, q>>
  OBVIOUS
<1>2. DOMAIN wanted = {1, 2} /\ Len(wanted) = 2 /\ wanted[1] = p /\ wanted[2] = q /\ 1 # 2
  BY <1>1
<1>3. OccursOnce(text, p.old) /\ OccursOnce(text, q.old) /\ IsAccepted(text, wanted)
  BY <1>1, <1>2 DEF IsAccepted
<1>4. Place(text, p.old) \in Nat /\ Place(text, q.old) \in Nat
  BY <1>3, PlaceIs, PairsAre
<1>5. CASE Place(text, p.old) <= Place(text, q.old)
  <2>1. \E a \in Seq(Characters), m \in Seq(Characters), z \in Seq(Characters) :
          /\ Both(text, a, p.old, m, q.old, z)
          /\ Both(Apply(text, wanted), a, p.new, m, q.new, z)
    BY <1>2, <1>3, <1>5, ApplyTwo
  <2> QED
    BY <1>1, <2>1
<1>6. CASE Place(text, q.old) <= Place(text, p.old)
  <2>1. \E a \in Seq(Characters), m \in Seq(Characters), z \in Seq(Characters) :
          /\ Both(text, a, q.old, m, p.old, z)
          /\ Both(Apply(text, wanted), a, q.new, m, p.new, z)
    BY <1>2, <1>3, <1>6, ApplyTwo
  <2> QED
    BY <1>1, <2>1
<1>7. Place(text, p.old) <= Place(text, q.old) \/ Place(text, q.old) <= Place(text, p.old)
  BY <1>4
<1> QED
  BY <1>5, <1>6, <1>7, Zenon

\* An edit makes a text of a text.
LEMMA ApplyTypes ==
    ASSUME NEW text \in Seq(Characters), NEW wanted, IsAsked(wanted), IsAccepted(text, wanted)
    PROVE  Apply(text, wanted) \in Seq(Characters)
<1> DEFINE S == Characters
<1>1. ASSUME NEW p \in Pairs, wanted = <<p>>
      PROVE  Apply(text, wanted) \in Seq(S)
  <2>1. PICK a \in Seq(S), z \in Seq(S) : Around(Apply(text, wanted), a, p.new, z)
    BY <1>1, ApplyOne
  <2>2. p.new \in Seq(S)
    BY PairsAre
  <2> HIDE DEF S
  <2>3. (a \o p.new) \o z \in Seq(S)
    BY <2>2
  <2> QED
    BY <2>1, <2>3 DEF Around
<1>2. ASSUME NEW p \in Pairs, NEW q \in Pairs, wanted = <<p, q>>
      PROVE  Apply(text, wanted) \in Seq(S)
  <2>1. PICK a \in Seq(S), m \in Seq(S), z \in Seq(S) :
            \/ Both(Apply(text, wanted), a, p.new, m, q.new, z)
            \/ Both(Apply(text, wanted), a, q.new, m, p.new, z)
    BY <1>2, ApplyPair
  <2>2. PICK x \in Seq(S), y \in Seq(S) : x = p.new /\ y = q.new
    BY PairsAre
  <2> HIDE DEF S
  <2>3. (((a \o x) \o m) \o y) \o z \in Seq(S) /\ (((a \o y) \o m) \o x) \o z \in Seq(S)
    OBVIOUS
  <2> QED
    BY <2>1, <2>2, <2>3 DEF Both
<1> QED
  BY <1>1, <1>2 DEF IsAsked

\* And so does it in the endings of the file.
LEMMA EditTypes ==
    ASSUME NEW text \in Seq(Characters), NEW wanted, NEW result, IsEdit(text, wanted, result)
    PROVE  result \in Seq(Characters)
<1>1. ToLf(text) \in Seq(Characters) /\ IsCrlf(text) \in BOOLEAN
  BY ToLfIs, IsCrlfIs
<1>2. Apply(ToLf(text), wanted) \in Seq(Characters)
  BY <1>1, ApplyTypes DEF IsEdit
<1> QED
  BY <1>1, <1>2, RestoreIs DEF IsEdit

-----------------------------------------------------------------------------
(* The file and what is written to it.                                     *)

\* The less of two numbers.
LEMMA LessOf ==
    ASSUME NEW a \in Int, NEW b \in Int
    PROVE  Min({a, b}) = IF a <= b THEN a ELSE b
<1> DEFINE least == IF a <= b THEN a ELSE b
<1>1. least \in {a, b} /\ \A y \in {a, b} : least <= y
  OBVIOUS
<1>2. ASSUME NEW x \in {a, b}, \A y \in {a, b} : x <= y
      PROVE  x = least
  BY <1>2
<1> HIDE DEF least
<1>3. Min({a, b}) \in {a, b} /\ \A y \in {a, b} : Min({a, b}) <= y
  BY <1>1 DEF Min
<1>4. Min({a, b}) = least
  BY <1>2, <1>3
<1> QED
  BY <1>4 DEF least

\* A text is the beginning of another.
Heads(text, whole) == \E more \in Seq(Characters) : whole = text \o more

\* The file at each place of the tool that writes, while nobody else does: what
\* is there, what a thread writes next and what is not given to one yet make,
\* one after the other, what was asked.
Undisturbed ==
    /\ pc = "matched" => disk = before
    /\ pc = "done" => disk = updated
    /\ pc = "flushing" /\ ~broken => (disk \o landing.text) \o rest = updated
    /\ pc = "flushing" /\ broken => Heads(disk, updated)
    /\ landing # NoWrite => landing.at = Len(disk)
    /\ pc = "dropped" /\ landing # NoWrite => Heads(disk \o landing.text, updated)
    /\ pc \in {"dropped", "failed"} /\ landing = NoWrite => disk = before \/ Heads(disk, updated)

\* The same of a text that fits one piece.
InOnePiece ==
    /\ pc = "flushing" => rest = <<>>
    /\ pc \in {"flushing", "dropped"} /\ landing # NoWrite => disk \o landing.text = updated
    /\ pc = "dropped" /\ landing = NoWrite /\ ~broken => disk \in {before, updated}

\* What is handed over, whoever else writes.
HandedOver ==
    /\ landing \in [at : Nat, text : Seq(Characters)]
    /\ landing.text = <<>> => landing = NoWrite
    /\ rest \in Seq(Characters) /\ broken \in BOOLEAN
    /\ landing # NoWrite => pc \in {"flushing", "dropped"} /\ ~broken
    /\ pc = "flushing" => Len(rest) <= Len(updated)

\* The invariant of the file tools.
FileInv ==
    /\ disk \in Seq(Characters) /\ before \in Seq(Characters) /\ updated \in Seq(Characters)
    /\ pc \in {"idle", "matched", "flushing", "done", "failed", "dropped", "over"}
    /\ HandedOver
    /\ ~raced => Undisturbed /\ (Len(updated) <= Piece => InOnePiece)
    /\ pc \in {"idle", "over"} => pairs = <<>>
    /\ pairs # <<>> => IsEdit(before, pairs, updated)
    /\ PagesInv

\* It holds at the start.
LEMMA FileInvInit == FileInit => FileInv
<1> SUFFICES ASSUME FileInit PROVE FileInv
  OBVIOUS
<1>1. disk \in Seq(Characters)
  BY TextsAre DEF FileInit
<1>2. <<>> \in Seq(Characters)
  OBVIOUS
<1>3. NoWrite \in [at : Nat, text : Seq(Characters)]
  BY <1>2 DEF NoWrite
<1> QED
  BY <1>1, <1>2, <1>3 DEF FileInit, FileInv, PagesInv, Undisturbed, InOnePiece, HandedOver

\* Nothing joined to a text leaves it as it was.
LEMMA NothingJoined ==
    ASSUME NEW S, NEW s \in Seq(S)
    PROVE  s \o <<>> = s /\ <<>> \o s = s
  OBVIOUS

\* Three texts, one after the other.
LEMMA JoinsOn ==
    ASSUME NEW S, NEW a \in Seq(S), NEW b \in Seq(S), NEW c \in Seq(S)
    PROVE  (a \o b) \o c = a \o (b \o c) /\ b \o c \in Seq(S)
<1>1. (a \o b) \o c = a \o (b \o c)
  BY ConcatAssociative, SMTT(30)
<1> QED
  BY <1>1

\* The same of three texts of a file.
LEMMA TextsJoin ==
    ASSUME NEW a \in Seq(Characters), NEW b \in Seq(Characters), NEW c \in Seq(Characters)
    PROVE  (a \o b) \o c = a \o (b \o c) /\ b \o c \in Seq(Characters)
  BY JoinsOn, Zenon

\* What is written over a file makes a text.
LEMMA OverTypes ==
    ASSUME NEW file \in Seq(Characters), NEW at \in Nat, NEW text \in Seq(Characters)
    PROVE  Over(file, at, text) \in Seq(Characters)
<1> DEFINE end == at + Len(text)
           n == IF end < Len(file) THEN Len(file) ELSE end
           At(i) == IF at < i /\ i <= end THEN text[i - at]
                    ELSE IF i <= Len(file) THEN file[i] ELSE Nul
<1>1. n \in Nat /\ end \in Nat /\ Len(text) \in Nat /\ Len(file) \in Nat /\ Nul \in Characters
  BY FileToolsConstants DEF Characters
<1>2. ASSUME NEW i \in 1 .. n
      PROVE  At(i) \in Characters
  <2>1. CASE at < i /\ i <= end
    <3>1. i - at \in 1 .. Len(text)
      BY <1>1, <2>1
    <3> QED
      BY <2>1, <3>1
  <2>2. CASE ~(at < i /\ i <= end) /\ i <= Len(file)
    <3>1. i \in 1 .. Len(file)
      BY <1>1, <2>2
    <3> QED
      BY <2>2, <3>1
  <2>3. CASE ~(at < i /\ i <= end) /\ ~(i <= Len(file))
    BY <1>1, <2>3
  <2> QED
    BY <2>1, <2>2, <2>3
<1>3. Over(file, at, text) = [i \in 1 .. n |-> At(i)]
  BY DEF Over
<1> HIDE DEF n, At
<1>4. [i \in 1 .. n |-> At(i)] \in [1 .. n -> Characters]
  BY <1>2
<1> QED
  BY <1>1, <1>3, <1>4

\* What is written at the end of a file makes it longer.
LEMMA OverEnds ==
    ASSUME NEW file \in Seq(Characters), NEW text \in Seq(Characters)
    PROVE  Over(file, Len(file), text) = file \o text
<1> DEFINE u == Over(file, Len(file), text)
           v == file \o text
<1>1. Len(file) \in Nat /\ Len(text) \in Nat /\ u \in Seq(Characters)
  BY OverTypes
<1>2. /\ v \in Seq(Characters) /\ Len(v) = Len(file) + Len(text)
      /\ \A i \in 1 .. (Len(file) + Len(text)) :
            v[i] = IF i <= Len(file) THEN file[i] ELSE text[i - Len(file)]
  BY ConcatProperties
<1>3. /\ DOMAIN u = 1 .. (Len(file) + Len(text))
      /\ \A i \in 1 .. (Len(file) + Len(text)) :
            u[i] = IF i <= Len(file) THEN file[i] ELSE text[i - Len(file)]
  BY <1>1 DEF Over
<1> HIDE DEF u, v
<1>4. Len(u) = Len(v)
  BY <1>1, <1>2, <1>3
<1>5. u = v
  BY <1>1, <1>2, <1>3, <1>4, SeqEqual
<1> QED
  BY <1>5 DEF u, v

\* A piece and the rest make the text, and a text that fits is one piece.
LEMMA HandedIs ==
    ASSUME NEW text \in Seq(Characters), NEW at \in Nat, Hands(text, at)
    PROVE  /\ landing' \in [at : Nat, text : Seq(Characters)] /\ rest' \in Seq(Characters)
           /\ landing'.at = at /\ landing'.text \o rest' = text
           /\ Len(rest') <= Len(text)
           /\ text # <<>> => landing'.text # <<>>
           /\ Len(text) <= Piece => landing'.text = text /\ rest' = <<>>
<1>1. Len(text) \in Nat /\ Piece \in Nat \ {0}
  BY FileToolsConstants
<1>2. Min({Piece, Len(text)}) = IF Piece <= Len(text) THEN Piece ELSE Len(text)
  BY <1>1, LessOf
<1>3. landing' = [at |-> at, text |-> SubSeq(text, 1, Min({Piece, Len(text)}))]
      /\ rest' = SubSeq(text, Piece + 1, Len(text))
  BY DEF Hands
<1>4. CASE Len(text) <= Piece
  <2>1. SubSeq(text, 1, Min({Piece, Len(text)})) = text /\ SubSeq(text, Piece + 1, Len(text)) = <<>>
    BY <1>1, <1>2, <1>4
  <2>2. text \o <<>> = text /\ <<>> \in Seq(Characters) /\ Len(<<>>) = 0
    BY NothingJoined
  <2>3. landing' = [at |-> at, text |-> text] /\ rest' = <<>>
    BY <1>3, <2>1
  <2> QED
    BY <1>1, <1>4, <2>2, <2>3
<1>5. CASE ~(Len(text) <= Piece)
  <2>1. Min({Piece, Len(text)}) = Piece /\ Piece \in 0 .. Len(text)
    BY <1>1, <1>2, <1>5
  <2>2. /\ SubSeq(text, 1, Piece) \in Seq(Characters) /\ Len(SubSeq(text, 1, Piece)) = Piece
        /\ SubSeq(text, Piece + 1, Len(text)) \in Seq(Characters)
        /\ Len(SubSeq(text, Piece + 1, Len(text))) = Len(text) - Piece
        /\ text = SubSeq(text, 1, Piece) \o SubSeq(text, Piece + 1, Len(text))
    BY <2>1, SplitAt
  <2>3. PICK first : first = SubSeq(text, 1, Piece)
    OBVIOUS
  <2>4. PICK last : last = SubSeq(text, Piece + 1, Len(text))
    OBVIOUS
  <2>5. landing' = [at |-> at, text |-> first] /\ rest' = last
    BY <1>3, <2>1, <2>3, <2>4
  <2>6. /\ first \in Seq(Characters) /\ last \in Seq(Characters) /\ text = first \o last
        /\ Len(first) = Piece /\ Len(last) = Len(text) - Piece
    BY <2>2, <2>3, <2>4
  <2>7. first # <<>> /\ Len(last) <= Len(text)
    BY <1>1, <2>6
  <2> QED
    BY <1>5, <2>5, <2>6, <2>7
<1> QED
  BY <1>4, <1>5

\* Opening hands over the beginning of what is asked, of a file that was cut.
LEMMA OpeningKeeps ==
    ASSUME FileInv, NEW text \in Seq(Characters), Opens(text), updated' = text,
           before' \in Seq(Characters), pairs' # <<>> => IsEdit(before', pairs', updated')
    PROVE  FileInv'
<1>1. /\ disk' = <<>> /\ broken' = FALSE /\ pc' = "flushing" /\ paging' = Idle
      /\ Hands(text, 0)
  BY DEF Opens
<1>2. /\ landing' \in [at : Nat, text : Seq(Characters)] /\ rest' \in Seq(Characters)
      /\ landing'.at = 0 /\ landing'.text \o rest' = text
      /\ Len(rest') <= Len(text)
      /\ text # <<>> => landing'.text # <<>>
      /\ Len(text) <= Piece => landing'.text = text /\ rest' = <<>>
  BY <1>1, HandedIs
<1>3. <<>> \in Seq(Characters) /\ <<>> \o landing'.text = landing'.text /\ Len(<<>>) = 0
  BY <1>2
<1>4. landing'.text = <<>> => landing' = NoWrite
  BY <1>2 DEF NoWrite
<1>5. HandedOver'
  BY <1>1, <1>2, <1>4 DEF HandedOver
<1>6. Undisturbed'
  BY <1>1, <1>2, <1>3 DEF Undisturbed
<1>7. Len(updated') <= Piece => InOnePiece'
  BY <1>1, <1>2, <1>3 DEF InOnePiece
<1>8. PagesInv'
  BY <1>1, <1>3 DEF PagesInv
<1> QED
  BY <1>1, <1>3, <1>5, <1>6, <1>7, <1>8 DEF FileInv

\* Going on hands over the next piece, where the last one ended.
LEMMA GoingOnKeeps ==
    ASSUME FileInv, GoesOn
    PROVE  FileInv'
<1>1. /\ pc = "flushing" /\ landing = NoWrite /\ ~broken /\ rest # <<>>
      /\ Hands(rest, Len(updated) - Len(rest))
      /\ UNCHANGED <<disk, broken, pc, pairs, before, updated, paging, raced>>
  BY DEF GoesOn
<1>2. /\ disk \in Seq(Characters) /\ updated \in Seq(Characters) /\ rest \in Seq(Characters)
      /\ Len(updated) - Len(rest) \in Nat
  BY <1>1 DEF FileInv, HandedOver
<1>3. /\ landing' \in [at : Nat, text : Seq(Characters)] /\ rest' \in Seq(Characters)
      /\ landing'.at = Len(updated) - Len(rest) /\ landing'.text \o rest' = rest
      /\ Len(rest') <= Len(rest) /\ landing'.text # <<>>
  BY <1>1, <1>2, HandedIs
<1>4. HandedOver'
  BY <1>1, <1>2, <1>3 DEF FileInv, HandedOver
<1>5. ASSUME ~raced
      PROVE  Undisturbed' /\ (Len(updated) <= Piece => InOnePiece')
  <2>1. (disk \o <<>>) \o rest = updated /\ disk \o <<>> = disk
    BY <1>1, <1>2, <1>5 DEF FileInv, Undisturbed, NoWrite
  <2>2. Len(updated) = Len(disk) + Len(rest)
    BY <1>2, <2>1
  <2>3. landing'.at = Len(disk)
    BY <1>2, <1>3, <2>2
  <2>4. (disk \o landing'.text) \o rest' = updated
    <3>1. PICK given \in Seq(Characters) : given = landing'.text
      BY <1>3
    <3>2. PICK kept \in Seq(Characters) : kept = rest'
      BY <1>3
    <3>3. given \o kept = rest
      BY <1>3, <3>1, <3>2
    <3>4. (disk \o given) \o kept = disk \o (given \o kept)
      <4>1. disk \in Seq(Characters)
        BY <1>2
      <4>2. (disk \o given) \o kept = disk \o (given \o kept) /\ given \o kept \in Seq(Characters)
        BY <3>1, <3>2, <4>1, TextsJoin
      <4> QED
        BY <4>2
    <3> QED
      BY <2>1, <3>1, <3>2, <3>3, <3>4
  <2>5. ~(Len(updated) <= Piece)
    BY <1>1, <1>5 DEF FileInv, InOnePiece
  <2> QED
    BY <1>1, <2>3, <2>4, <2>5 DEF Undisturbed
<1>6. PagesInv'
  BY <1>1 DEF FileInv, PagesInv
<1> QED
  BY <1>1, <1>2, <1>4, <1>5, <1>6 DEF FileInv

\* The beginning of a beginning.
LEMMA HeadsOn ==
    ASSUME NEW a \in Seq(Characters), NEW b \in Seq(Characters), NEW whole,
           Heads(a \o b, whole)
    PROVE  Heads(a, whole)
<1>1. PICK more \in Seq(Characters) : whole = (a \o b) \o more
  BY DEF Heads
<1>2. (a \o b) \o more = a \o (b \o more) /\ b \o more \in Seq(Characters)
  BY JoinsOn, Zenon
<1> QED
  BY <1>1, <1>2 DEF Heads

\* While nobody else writes, a piece lands at the end of the file.
LEMMA LandingIs ==
    ASSUME FileInv, ~raced, landing # NoWrite
    PROVE  /\ landing.at = Len(disk) /\ Heads(disk \o landing.text, updated)
           /\ pc = "flushing" => (disk \o landing.text) \o rest = updated
           /\ Len(updated) <= Piece => disk \o landing.text = updated
<1>1. pc \in {"flushing", "dropped"} /\ ~broken
  BY DEF FileInv, HandedOver
<1>2. Undisturbed /\ (Len(updated) <= Piece => InOnePiece)
  BY DEF FileInv
<1>3. pc = "flushing" => Heads(disk \o landing.text, updated)
  BY <1>1, <1>2 DEF Undisturbed, Heads, FileInv, HandedOver
<1> QED
  BY <1>1, <1>2, <1>3 DEF Undisturbed, InOnePiece

\* What a thread writes, the whole piece.
LEMMA LandingKeeps ==
    ASSUME FileInv, Lands
    PROVE  FileInv'
<1>1. /\ disk \in Seq(Characters) /\ updated \in Seq(Characters)
      /\ landing.at \in Nat /\ landing.text \in Seq(Characters) /\ landing # NoWrite
  BY DEF Lands, FileInv, HandedOver, NoWrite
<1>2. /\ disk' = Over(disk, landing.at, landing.text) /\ landing' = NoWrite /\ paging' = Idle
      /\ UNCHANGED <<rest, broken, pc, pairs, before, updated, raced>>
  BY DEF Lands
<1>3. disk' \in Seq(Characters) /\ <<>> \in Seq(Characters)
  BY <1>1, <1>2, OverTypes
<1>4. PagesInv'
  BY <1>2, <1>3 DEF PagesInv
<1>5. /\ landing' \in [at : Nat, text : Seq(Characters)] /\ landing'.text = <<>>
      /\ disk' \o landing'.text = disk'
  BY <1>2, <1>3, NothingJoined DEF NoWrite
<1>6. HandedOver'
  BY <1>2, <1>5 DEF FileInv, HandedOver
<1>7. ASSUME ~raced
      PROVE  Undisturbed' /\ (Len(updated) <= Piece => InOnePiece')
  <2>1. disk' = disk \o landing.text
    BY <1>1, <1>2, <1>7, LandingIs, OverEnds
  <2>2. Undisturbed'
    BY <1>1, <1>2, <1>5, <1>7, <2>1, LandingIs DEF Undisturbed, FileInv, HandedOver
  <2>3. Len(updated) <= Piece => InOnePiece'
    BY <1>1, <1>2, <1>7, <2>1, LandingIs DEF InOnePiece, FileInv
  <2> QED
    BY <2>2, <2>3
<1> QED
  BY <1>2, <1>3, <1>4, <1>6, <1>7 DEF FileInv

\* Or the beginning of it only.
LEMMA LandingInPartKeeps ==
    ASSUME FileInv, NEW n \in 0 .. (Piece - 1), LandsInPart(n)
    PROVE  FileInv'
<1>1. /\ disk \in Seq(Characters) /\ updated \in Seq(Characters)
      /\ landing.at \in Nat /\ landing.text \in Seq(Characters) /\ n \in Nat
      /\ n < Len(landing.text)
  BY FileToolsConstants DEF LandsInPart, FileInv, HandedOver
<1>2. landing # NoWrite
  <2>1. landing.text # <<>>
    BY <1>1
  <2> QED
    BY <2>1 DEF NoWrite
<1> DEFINE head == SubSeq(landing.text, 1, n)
           tail == SubSeq(landing.text, n + 1, Len(landing.text))
<1>3. /\ head \in Seq(Characters) /\ Len(head) = n /\ tail \in Seq(Characters)
      /\ landing.text = head \o tail
  <2>1. PICK piece \in Seq(Characters) : piece = landing.text
    BY <1>1
  <2>2. n \in 0 .. Len(piece)
    BY <1>1, <2>1
  <2> QED
    BY <2>1, <2>2, SplitAt
<1>4. /\ disk' = IF n = 0 THEN disk ELSE Over(disk, landing.at, head)
      /\ landing' = NoWrite /\ broken' = TRUE /\ paging' = Idle
      /\ UNCHANGED <<rest, pc, pairs, before, updated, raced>>
  BY DEF LandsInPart
<1> HIDE DEF head, tail
<1>5. disk' \in Seq(Characters) /\ <<>> \in Seq(Characters)
  BY <1>1, <1>3, <1>4, OverTypes
<1>6. PagesInv'
  BY <1>4, <1>5 DEF PagesInv
<1>7. landing' \in [at : Nat, text : Seq(Characters)] /\ landing'.text = <<>>
  BY <1>4, <1>5 DEF NoWrite
<1>8. HandedOver'
  BY <1>4, <1>7 DEF FileInv, HandedOver
<1>9. ASSUME ~raced
      PROVE  Undisturbed' /\ (Len(updated) <= Piece => InOnePiece')
  <2>1. disk' = disk \o head
    <3>1. CASE n = 0
      <4>1. head = <<>>
        BY <1>3, <3>1
      <4> QED
        BY <1>1, <1>4, <3>1, <4>1, NothingJoined
    <3>2. CASE n # 0
      BY <1>1, <1>2, <1>3, <1>4, <1>9, <3>2, LandingIs, OverEnds
    <3> QED
      BY <3>1, <3>2
  <2>2. Heads(disk', updated)
    <3>1. Heads(disk \o landing.text, updated)
      BY <1>2, <1>9, LandingIs
    <3>2. disk \o landing.text = (disk \o head) \o tail
      <4>1. (disk \o head) \o tail = disk \o (head \o tail)
        BY <1>1, <1>3, JoinsOn
      <4> QED
        BY <1>3, <4>1
    <3> QED
      BY <1>3, <1>5, <2>1, <3>1, <3>2, HeadsOn
  <2>3. Undisturbed'
    BY <1>2, <1>4, <2>2 DEF Undisturbed, FileInv, HandedOver, Heads
  <2>4. Len(updated) <= Piece => InOnePiece'
    BY <1>4, <1>9 DEF InOnePiece, FileInv
  <2> QED
    BY <2>3, <2>4
<1> QED
  BY <1>4, <1>5, <1>6, <1>8, <1>9 DEF FileInv

\* A call that ends, or is dropped.
LEMMA EndingKeeps ==
    ASSUME FileInv, CannotOpen \/ Answers \/ Dropped
    PROVE  FileInv'
<1>1. /\ UNCHANGED <<disk, landing, broken, pairs, before, updated, paging, raced>>
      /\ pc \in {"matched", "flushing"} /\ pc' \in {"done", "failed", "dropped"}
      /\ rest' = <<>> \/ rest' = rest
  BY DEF CannotOpen, Answers, Dropped, handing
<1>2. PagesInv' /\ <<>> \in Seq(Characters)
  BY <1>1 DEF FileInv, PagesInv
<1>3. HandedOver'
  <2>1. landing = NoWrite \/ pc' = "dropped"
    BY DEF CannotOpen, Answers, Dropped, FileInv, HandedOver
  <2> QED
    BY <1>1, <1>2, <2>1 DEF FileInv, HandedOver
<1>4. ASSUME ~raced
      PROVE  Undisturbed' /\ (Len(updated) <= Piece => InOnePiece')
  <2>1. /\ Undisturbed /\ (Len(updated) <= Piece => InOnePiece) /\ HandedOver
        /\ disk \in Seq(Characters) /\ updated \in Seq(Characters)
    BY <1>4 DEF FileInv
  <2>2. CASE landing # NoWrite
    <3>1. pc = "flushing" /\ pc' = "dropped" /\ ~broken
      BY <1>1, <2>1, <2>2 DEF CannotOpen, Answers, Dropped, HandedOver
    <3>2. Heads(disk \o landing.text, updated)
      BY <1>4, <2>2, LandingIs
    <3>3. Undisturbed'
      BY <1>1, <2>1, <2>2, <3>1, <3>2 DEF Undisturbed, Heads
    <3> QED
      BY <1>1, <2>1, <2>2, <3>1, <3>3 DEF InOnePiece
  <2>3. CASE landing = NoWrite /\ pc = "matched"
    <3>1. disk = before /\ pc' \in {"failed", "dropped"}
      BY <2>1, <2>3 DEF CannotOpen, Answers, Dropped, Undisturbed
    <3> QED
      BY <1>1, <2>3, <3>1 DEF Undisturbed, InOnePiece
  <2>4. CASE landing = NoWrite /\ pc = "flushing"
    <3>1. disk \o <<>> = disk /\ landing.text = <<>> /\ rest \in Seq(Characters)
      BY <2>1, <2>4, NothingJoined DEF NoWrite, HandedOver
    <3>2. Heads(disk, updated) /\ (~broken => disk \o rest = updated)
      BY <2>1, <2>4, <3>1 DEF Undisturbed, Heads
    <3>3. pc' = "done" => disk = updated
      BY <2>1, <2>4, <3>1, <3>2, NothingJoined DEF CannotOpen, Answers, Dropped
    <3>4. pc' = "dropped" /\ ~broken /\ Len(updated) <= Piece => disk = updated
      BY <2>1, <2>4, <3>2, NothingJoined DEF InOnePiece
    <3>5. Heads(disk, updated)'
      BY <1>1, <3>2 DEF Heads
    <3> QED
      BY <1>1, <2>4, <3>3, <3>4, <3>5 DEF Undisturbed, InOnePiece
  <2> QED
    BY <1>1, <2>2, <2>3, <2>4
<1> QED
  BY <1>1, <1>2, <1>3, <1>4 DEF FileInv

\* Every step keeps the invariant.
LEMMA FileInvNext == FileInv /\ [FileNext]_fileVars => FileInv'
<1> SUFFICES ASSUME FileInv, [FileNext]_fileVars PROVE FileInv'
  OBVIOUS
<1>1. /\ disk \in Seq(Characters) /\ before \in Seq(Characters) /\ updated \in Seq(Characters)
      /\ <<>> \in Seq(Characters) /\ PagesInv /\ HandedOver
  BY DEF FileInv
<1>2. ASSUME NEW offset \in 0..(MaxFile + 1), NEW limit \in 1..MaxLimit, Reads(offset, limit)
      PROVE  FileInv'
  <2>1. PagesInv'
    BY <1>1, <1>2, ReadsPages
  <2>2. UNCHANGED <<disk, handing, raced>> /\ pc \in {"idle", "done", "failed", "dropped", "over"}
    BY <1>2 DEF Reads
  <2>3. CASE pc = "done"
    <3>1. pc' = "over" /\ pairs' = <<>> /\ before' = <<>> /\ updated' = <<>>
      BY <1>2, <2>3 DEF Reads
    <3>2. HandedOver'
      BY <1>1, <2>2, <2>3, <3>1 DEF HandedOver, handing
    <3>3. ~raced' => Undisturbed' /\ (Len(updated') <= Piece => InOnePiece')
      BY <1>1, <2>2, <2>3, <3>1 DEF HandedOver, handing, Undisturbed, InOnePiece
    <3> QED
      BY <1>1, <2>1, <2>2, <3>1, <3>2, <3>3 DEF FileInv
  <2>4. CASE pc # "done"
    <3>1. UNCHANGED <<pc, pairs, before, updated, disk, landing, rest, broken, raced>>
      BY <1>2, <2>2, <2>4 DEF Reads, handing
    <3> QED
      BY <2>1, <3>1 DEF FileInv, Undisturbed, InOnePiece, HandedOver, Heads
  <2> QED
    BY <2>3, <2>4
<1>3. ASSUME NEW wanted, IsAsked(wanted), EditReads(wanted)
      PROVE  FileInv'
  <2>1. /\ pc = "idle" /\ pc' = "matched" /\ pairs' = wanted /\ before' = disk /\ paging' = Idle
        /\ UNCHANGED <<disk, landing, rest, broken>>
    BY <1>3 DEF EditReads, handing
  <2>2. IsEdit(disk, wanted, updated')
    BY <1>3 DEF EditReads, IsEdit
  <2>3. updated' \in Seq(Characters)
    BY <1>1, <2>2, EditTypes
  <2>4. IsEdit(before', pairs', updated')
    BY <2>1, <2>2
  <2>5. PagesInv'
    BY <1>1, <2>1 DEF PagesInv
  <2>6. HandedOver' /\ Undisturbed' /\ InOnePiece'
    BY <1>1, <2>1 DEF HandedOver, Undisturbed, InOnePiece
  <2> QED
    BY <1>1, <2>1, <2>3, <2>4, <2>5, <2>6 DEF FileInv
<1>4. ASSUME EditWrites
      PROVE  FileInv'
  BY <1>1, <1>4, OpeningKeeps DEF EditWrites, FileInv
<1>5. ASSUME NEW text \in Given, Writes(text)
      PROVE  FileInv'
  <2>1. text \in Seq(Characters) /\ pairs' = <<>>
    BY <1>5, GivenAre DEF FileInv, Writes
  <2> QED
    BY <1>1, <1>5, <2>1, OpeningKeeps DEF Writes
<1>6. ASSUME OthersWrite(<<LF>>)
      PROVE  FileInv'
  <2>1. /\ disk' = <<LF>> /\ paging' = Idle /\ raced'
        /\ UNCHANGED <<landing, rest, broken, pc, pairs, before, updated>>
    BY <1>6 DEF OthersWrite, writing, handing
  <2>2. <<LF>> \in Seq(Characters)
    BY CharactersAre
  <2>3. PagesInv'
    BY <2>1, <2>2 DEF PagesInv
  <2>4. HandedOver'
    BY <1>1, <2>1 DEF HandedOver
  <2> QED
    BY <1>1, <2>1, <2>2, <2>3, <2>4 DEF FileInv
<1>7. ASSUME UNCHANGED fileVars
      PROVE  FileInv'
  <2>1. UNCHANGED <<disk, landing, rest, broken, pc, pairs, before, updated, paging, raced>>
    BY <1>7 DEF fileVars, writing, handing
  <2>2. PagesInv'
    BY <1>1, <2>1 DEF PagesInv
  <2> QED
    BY <2>1, <2>2 DEF FileInv, Undisturbed, InOnePiece, HandedOver, Heads
<1>8. ASSUME NEW p \in Pairs, EditReads(<<p>>)
      PROVE  FileInv'
  BY <1>3, <1>8 DEF IsAsked
<1>9. ASSUME NEW p \in Pairs, NEW q \in Pairs, EditReads(<<p, q>>)
      PROVE  FileInv'
  BY <1>3, <1>9 DEF IsAsked
<1> QED
  BY <1>2, <1>4, <1>5, <1>6, <1>7, <1>8, <1>9, LandingKeeps, LandingInPartKeeps,
     GoingOnKeeps, EndingKeeps DEF FileNext

\* It always holds.
LEMMA FileInvHolds == FileSpec => []FileInv
  BY FileInvInit, FileInvNext, PTL DEF FileSpec

(* Whoever follows the offsets that read announces sees every line of the file,
   each once and in order, and in an ordinary file is told of no more lines only
   at its end (read.rs, capped.rs: read_window). *)
THEOREM PagesFollowTheFile == FileSpec => []PagesAreTheFile
<1>1. FileInv => PagesAreTheFile
  BY DEF FileInv, PagesInv, IsPage, PagesAreTheFile
<1> QED
  BY <1>1, FileInvHolds, PTL

(* Whatever the file, the edit and the size of a piece, a call that was answered
   well wrote all it was asked; one that failed or was dropped leaves the file as
   it was or the beginning of what was asked, and a drop alone leaves no part of a
   text that fits one piece (contain.rs, dispatch.rs). *)
THEOREM EndsWithABeginning == FileSpec => []LeavesABeginning
<1>1. ASSUME FileInv, ~raced
      PROVE  LeavesABeginning
  <2>1. /\ Undisturbed /\ (Len(updated) <= Piece => InOnePiece) /\ HandedOver
        /\ disk \in Seq(Characters) /\ updated \in Seq(Characters)
    BY <1>1 DEF FileInv
  <2>2. ASSUME Heads(disk, updated)
        PROVE  IsPrefix(disk, updated)
    <3>1. PICK more \in Seq(Characters) : updated = disk \o more
      BY <2>2 DEF Heads
    <3>2. SubSeq(updated, 1, Len(disk)) = disk /\ Len(updated) = Len(disk) + Len(more)
      BY <2>1, <3>1, JoinedParts
    <3>3. SubSeq(disk, 1, Len(disk)) = disk /\ Len(disk) \in Nat /\ Len(more) \in Nat
      BY <2>1
    <3> QED
      BY <3>2, <3>3 DEF IsPrefix
  <2>3. pc = "done" => disk = updated /\ landing = NoWrite
    BY <2>1 DEF Undisturbed, HandedOver
  <2>4. pc \in {"failed", "dropped"} /\ landing = NoWrite => disk = before \/ IsPrefix(disk, updated)
    BY <2>1, <2>2 DEF Undisturbed
  <2>5. pc = "dropped" /\ landing = NoWrite /\ ~broken /\ Len(updated) <= Piece =>
            disk \in {before, updated}
    BY <2>1 DEF InOnePiece
  <2> QED
    BY <2>3, <2>4, <2>5 DEF LeavesABeginning
<1>2. FileInv => LeavesABeginning
  BY <1>1 DEF LeavesABeginning
<1> QED
  BY <1>2, FileInvHolds, PTL

\* What the first parts make, one after the other.
Upto(parts, n) == FlattenSeq(SubSeq(parts, 1, n))

\* The first parts make a text.
LEMMA UptoTypes ==
    ASSUME NEW S, NEW parts \in Seq(Seq(S)), NEW n \in 0 .. Len(parts)
    PROVE  Upto(parts, n) \in Seq(S)
<1>1. SubSeq(parts, 1, n) \in Seq(Seq(S))
  OBVIOUS
<1> QED
  BY <1>1, FlattenType DEF Upto

\* No part makes nothing; all of them make what they make together.
LEMMA UptoEnds ==
    ASSUME NEW S, NEW parts \in Seq(Seq(S))
    PROVE  Upto(parts, 0) = <<>> /\ Upto(parts, Len(parts)) = FlattenSeq(parts)
<1>1. SubSeq(parts, 1, 0) = <<>> /\ SubSeq(parts, 1, Len(parts)) = parts
  OBVIOUS
<1>2. <<>> \in Seq(S)
  OBVIOUS
<1>3. FlattenSeq(<<>>) = <<>>
  BY <1>2, FlattenOne
<1> QED
  BY <1>1, <1>3 DEF Upto

\* One more part goes at the end.
LEMMA UptoNext ==
    ASSUME NEW S, NEW parts \in Seq(Seq(S)), NEW n \in Nat, n + 1 <= Len(parts)
    PROVE  Upto(parts, n + 1) = Upto(parts, n) \o parts[n + 1]
<1>1. /\ SubSeq(parts, 1, n) \in Seq(Seq(S)) /\ parts[n + 1] \in Seq(S)
      /\ SubSeq(parts, 1, n + 1) = Append(SubSeq(parts, 1, n), parts[n + 1])
  OBVIOUS
<1> QED
  BY <1>1, FlattenAppends DEF Upto

\* The first n + 1 elements of a sequence.
LEMMA Begun ==
    ASSUME NEW S, NEW w \in Seq(S), NEW n \in Nat, n + 1 <= Len(w)
    PROVE  /\ SubSeq(w, 1, n) \in Seq(S) /\ w[n + 1] \in S /\ n + 1 \in 1 .. Len(w)
           /\ SubSeq(w, 1, n + 1) = Append(SubSeq(w, 1, n), w[n + 1])
  OBVIOUS

\* A sequence of one element.
LEMMA OneIs ==
    ASSUME NEW S, NEW c \in S
    PROVE  \E one \in Seq(S) : one = <<c>>
<1>1. <<c>> \in Seq(S)
  OBVIOUS
<1> QED
  BY <1>1, Zenon

\* Parts that copy a text.
LEMMA UptoCopied ==
    ASSUME NEW S, NEW parts \in Seq(Seq(S)), NEW k \in Nat, NEW w \in Seq(S),
           k + Len(w) <= Len(parts), \A i \in 1 .. Len(w) : parts[k + i] = <<w[i]>>
    PROVE  Upto(parts, k + Len(w)) = Upto(parts, k) \o w
<1> DEFINE Made(n) == Upto(parts, k + n) = Upto(parts, k) \o SubSeq(w, 1, n)
           Copied == {n \in Nat : n <= Len(w) => Made(n)}
<1>1. Len(w) \in Nat /\ Len(parts) \in Nat /\ Upto(parts, k) \in Seq(S)
  <2>1. Len(w) \in Nat /\ Len(parts) \in Nat /\ k \in 0 .. Len(parts)
    OBVIOUS
  <2> QED
    BY <2>1, UptoTypes
<1>2. PICK u \in Seq(S) : u = Upto(parts, k)
  BY <1>1
<1>3. Made(0)
  <2>1. SubSeq(w, 1, 0) = <<>> /\ k + 0 = k
    OBVIOUS
  <2>2. u \o <<>> = u
    OBVIOUS
  <2> QED
    BY <1>2, <2>1, <2>2
<1>4. ASSUME NEW n \in Nat, Made(n), n + 1 <= Len(w)
      PROVE  Made(n + 1)
  <2>1. k + n \in Nat /\ (k + n) + 1 = k + (n + 1) /\ (k + n) + 1 <= Len(parts) /\ n + 1 \in 1 .. Len(w)
    BY <1>1, <1>4
  <2>2. Upto(parts, (k + n) + 1) = Upto(parts, k + n) \o parts[(k + n) + 1]
    BY <2>1, UptoNext
  <2>3. parts[k + (n + 1)] = <<w[n + 1]>>
    BY <2>1
  <2>4. /\ SubSeq(w, 1, n) \in Seq(S) /\ w[n + 1] \in S
        /\ SubSeq(w, 1, n + 1) = Append(SubSeq(w, 1, n), w[n + 1])
    BY <1>4, Begun
  <2>5. PICK first \in Seq(S), c \in S : first = SubSeq(w, 1, n) /\ c = w[n + 1]
    BY <2>4
  <2>6. (u \o first) \o <<c>> = u \o Append(first, c)
    <3>1. PICK one \in Seq(S) : one = <<c>>
      BY OneIs
    <3>2. (u \o first) \o one = u \o (first \o one)
      BY ConcatAssociative, SMTT(30)
    <3>3. first \o one = Append(first, c)
      BY <3>1
    <3> QED
      BY <3>1, <3>2, <3>3
  <2>7. Upto(parts, k + (n + 1)) = (u \o first) \o <<c>>
    BY <1>2, <1>4, <2>1, <2>2, <2>3, <2>5
  <2> QED
    BY <1>2, <2>4, <2>5, <2>6, <2>7
<1> HIDE DEF Made
<1>5. \A n \in Nat : n \in Copied => n + 1 \in Copied
  <2> SUFFICES ASSUME NEW n \in Nat, n <= Len(w) => Made(n), n + 1 <= Len(w)
               PROVE  Made(n + 1)
    OBVIOUS
  <2>1. n <= Len(w)
    BY <1>1
  <2> QED
    BY <1>4, <2>1
<1>6. 0 \in Copied
  BY <1>3
<1> HIDE DEF Copied
<1>7. Len(w) \in Copied
  BY <1>1, <1>5, <1>6, InductionOverASet
<1>8. SubSeq(w, 1, Len(w)) = w /\ Len(w) <= Len(w)
  BY <1>1
<1> QED
  BY <1>7, <1>8 DEF Copied, Made

\* Nothing is made of the n parts after the first k, but for the first.
Blank(parts, k, n) == \A i \in 2 .. n : parts[k + i] = <<>>

\* Parts that put a text in place of another.
LEMMA UptoSwapped ==
    ASSUME NEW S, NEW parts \in Seq(Seq(S)), NEW k \in Nat, NEW n \in Nat \ {0},
           k + n <= Len(parts), NEW u \in Seq(S), parts[k + 1] = u, Blank(parts, k, n)
    PROVE  Upto(parts, k + n) = Upto(parts, k) \o u
<1> DEFINE Made(m) == Upto(parts, k + (m + 1)) = Upto(parts, k) \o u
           Swapped == {m \in Nat : m + 1 <= n => Made(m)}
<1>1. Len(parts) \in Nat /\ Upto(parts, k) \o u \in Seq(S)
  <2>1. Len(parts) \in Nat /\ k \in 0 .. Len(parts)
    OBVIOUS
  <2>2. Upto(parts, k) \in Seq(S)
    BY <2>1, UptoTypes
  <2> QED
    BY <2>1, <2>2
<1>2. PICK w \in Seq(S) : w = Upto(parts, k) \o u
  BY <1>1
<1>3. Made(0)
  <2>1. k + (0 + 1) = k + 1 /\ k + 1 <= Len(parts)
    BY <1>1
  <2>2. Upto(parts, k + 1) = Upto(parts, k) \o parts[k + 1]
    BY <2>1, UptoNext
  <2> QED
    BY <2>1, <2>2
<1>4. ASSUME NEW m \in Nat, Made(m), (m + 1) + 1 <= n
      PROVE  Made(m + 1)
  <2>1. PICK j \in Nat : j = m + 1
    OBVIOUS
  <2>2. k + j \in Nat /\ (k + j) + 1 = k + (j + 1) /\ (k + j) + 1 <= Len(parts) /\ j + 1 \in 2 .. n
    BY <1>1, <1>4, <2>1
  <2>3. Upto(parts, (k + j) + 1) = Upto(parts, k + j) \o parts[(k + j) + 1]
    BY <2>2, UptoNext
  <2>4. parts[k + (j + 1)] = <<>>
    BY <2>2 DEF Blank
  <2>5. w \o <<>> = w
    OBVIOUS
  <2>6. Upto(parts, k + j) = w
    BY <1>2, <1>4, <2>1
  <2>7. Upto(parts, k + (j + 1)) = w
    BY <2>2, <2>3, <2>4, <2>5, <2>6
  <2> QED
    BY <1>2, <2>1, <2>7
<1> HIDE DEF Made
<1>5. \A m \in Nat : m \in Swapped => m + 1 \in Swapped
  <2> SUFFICES ASSUME NEW m \in Nat, m + 1 <= n => Made(m), (m + 1) + 1 <= n
               PROVE  Made(m + 1)
    OBVIOUS
  <2>1. m + 1 <= n
    OBVIOUS
  <2> QED
    BY <1>4, <2>1
<1>6. 0 \in Swapped
  BY <1>3
<1> HIDE DEF Swapped
<1>7. n - 1 \in Nat /\ (n - 1) + 1 = n
  OBVIOUS
<1>8. Nat \subseteq Swapped
  BY <1>5, <1>6, InductionOverASet
<1>9. n - 1 \in Swapped
  BY <1>7, <1>8
<1> QED
  BY <1>7, <1>9 DEF Swapped, Made

-----------------------------------------------------------------------------
(* The line endings of the file and of the model.                          *)

\* The third sequence is the first and then the second.
IsJoined(c, a, b) == c = a \o b

\* The elements of two sequences joined.
LEMMA JoinedAt ==
    ASSUME NEW S, NEW a \in Seq(S), NEW b \in Seq(S), NEW c, IsJoined(c, a, b)
    PROVE  /\ Len(c) = Len(a) + Len(b)
           /\ \A i \in 1 .. Len(a) : c[i] = a[i]
           /\ \A i \in 1 .. Len(b) : c[i + Len(a)] = b[i]
<1>1. Len(a) \in Nat /\ Len(b) \in Nat
  OBVIOUS
<1>2. \A i \in 1 .. Len(b) : /\ i + Len(a) \in 1 .. (Len(a) + Len(b)) /\ ~(i + Len(a) <= Len(a))
                             /\ (i + Len(a)) - Len(a) = i
  BY <1>1
<1> QED
  BY <1>1, <1>2 DEF IsJoined

\* Texts can be given back piece by piece.
LEMMA RestoreJoins ==
    ASSUME NEW x \in Seq(Characters), NEW y \in Seq(Characters), NEW crlf \in BOOLEAN
    PROVE  Restore(crlf, x \o y) = Restore(crlf, x) \o Restore(crlf, y)
<1>1. CASE ~crlf
  BY <1>1 DEF Restore
<1>2. CASE crlf
  <2>1. PICK xy \in Seq(Characters) : xy = x \o y
    BY Joined
  <2>2. /\ Ended(xy) \in Seq(Seq(Characters)) /\ Len(Ended(xy)) = Len(xy)
        /\ Ended(x) \in Seq(Seq(Characters)) /\ Len(Ended(x)) = Len(x)
        /\ Ended(y) \in Seq(Seq(Characters)) /\ Len(Ended(y)) = Len(y)
    BY RestoreIs
  <2>3. Len(xy) = Len(x) + Len(y) /\ Len(x) \in Nat /\ Len(y) \in Nat
    BY <2>1
  <2> DEFINE GivenAs(c) == IF c = LF THEN <<CR, LF>> ELSE <<c>>
  <2>4. /\ \A i \in 1 .. Len(xy) : Ended(xy)[i] = GivenAs(xy[i])
        /\ \A i \in 1 .. Len(x) : Ended(x)[i] = GivenAs(x[i])
        /\ \A i \in 1 .. Len(y) : Ended(y)[i] = GivenAs(y[i])
    BY DEF Ended
  <2> HIDE DEF GivenAs
  <2>5. PICK both \in Seq(Seq(Characters)) : both = Ended(x) \o Ended(y)
    BY <2>2, Joined
  <2>6. /\ Len(both) = Len(xy)
        /\ \A i \in 1 .. Len(x) : both[i] = Ended(x)[i] /\ xy[i] = x[i]
        /\ \A i \in 1 .. Len(y) : both[i + Len(x)] = Ended(y)[i] /\ xy[i + Len(x)] = y[i]
    <3>1. /\ \A i \in 1 .. Len(x) : xy[i] = x[i]
          /\ \A i \in 1 .. Len(y) : xy[i + Len(x)] = y[i]
      BY <2>1, JoinedAt DEF IsJoined
    <3>2. PICK e \in Seq(Seq(Characters)), f \in Seq(Seq(Characters)) : e = Ended(x) /\ f = Ended(y)
      BY <2>2
    <3>3. both = e \o f /\ Len(e) = Len(x) /\ Len(f) = Len(y)
      BY <2>2, <2>5, <3>2
    <3>4. /\ Len(both) = Len(e) + Len(f)
          /\ \A i \in 1 .. Len(e) : both[i] = e[i]
          /\ \A i \in 1 .. Len(f) : both[i + Len(e)] = f[i]
      <4>1. IsJoined(both, e, f)
        BY <3>3 DEF IsJoined
      <4> QED
        BY <4>1, JoinedAt, SMTT(60)
    <3> QED
      BY <2>3, <3>1, <3>2, <3>3, <3>4
  <2>7. ASSUME NEW i \in 1 .. Len(xy)
        PROVE  Ended(xy)[i] = both[i]
    <3>1. CASE i <= Len(x)
      <4>1. i \in 1 .. Len(x)
        BY <2>3, <3>1
      <4> QED
        BY <2>4, <2>6, <4>1
    <3>2. CASE i > Len(x)
      <4>1. PICK j \in 1 .. Len(y) : i = j + Len(x)
        <5>1. i - Len(x) \in 1 .. Len(y) /\ i = (i - Len(x)) + Len(x)
          BY <2>3, <3>2
        <5> QED
          BY <5>1
      <4>2. xy[i] = y[j] /\ both[i] = Ended(y)[j]
        BY <2>6, <4>1
      <4> QED
        BY <2>4, <4>1, <4>2
    <3> QED
      BY <2>3, <3>1, <3>2
  <2>8. Ended(xy) = both
    BY <2>2, <2>6, <2>7, SeqEqual
  <2>9. FlattenSeq(both) = FlattenSeq(Ended(x)) \o FlattenSeq(Ended(y))
    BY <2>2, <2>5, FlattenConcat
  <2> QED
    BY <1>2, <2>1, <2>8, <2>9, RestoreIs
<1> QED
  BY <1>1, <1>2

\* One character given back.
LEMMA RestoreOne ==
    ASSUME NEW c \in Characters
    PROVE  Restore(TRUE, <<c>>) = IF c = LF THEN <<CR, LF>> ELSE <<c>>
<1> DEFINE one == <<c>>
           end == IF c = LF THEN <<CR, LF>> ELSE <<c>>
<1>1. one \in Seq(Characters) /\ DOMAIN one = {1} /\ one[1] = c /\ Len(one) = 1
  OBVIOUS
<1>2. end \in Seq(Characters)
  BY CharactersAre
<1> HIDE DEF one, end
<1>3. Ended(one)[1] = end
  BY <1>1 DEF Ended, end
<1>4. Ended(one) \in Seq(Seq(Characters)) /\ Len(Ended(one)) = 1
      /\ Restore(TRUE, one) = FlattenSeq(Ended(one))
  BY <1>1, RestoreIs
<1>5. Ended(one) = <<end>>
  <2>1. <<end>> \in Seq(Seq(Characters)) /\ Len(<<end>>) = 1 /\ <<end>>[1] = end
    BY <1>2
  <2>2. PICK other : other = <<end>>
    OBVIOUS
  <2>3. \A i \in 1 .. Len(Ended(one)) : Ended(one)[i] = other[i]
    BY <1>3, <1>4, <2>1, <2>2
  <2> QED
    BY <1>4, <2>1, <2>2, <2>3, SeqEqual
<1>6. FlattenSeq(<<end>>) = end
  BY <1>2, FlattenOne
<1> QED
  BY <1>4, <1>5, <1>6 DEF one, end

\* A text with something in it is given back with something in it.
LEMMA RestoreSome ==
    ASSUME NEW x \in Seq(Characters), x # <<>>, NEW crlf \in BOOLEAN
    PROVE  Restore(crlf, x) \in Seq(Characters) /\ Len(Restore(crlf, x)) \in Nat \ {0}
<1>1. Restore(crlf, x) \in Seq(Characters)
  BY RestoreIs
<1>2. Len(x) \in Nat \ {0}
  OBVIOUS
<1>3. CASE ~crlf
  BY <1>1, <1>2, <1>3 DEF Restore
<1>4. CASE crlf
  <2>1. PICK c \in Characters, y \in Seq(Characters) : x = <<c>> \o y
    <3>1. x[1] \in Characters /\ Tail(x) \in Seq(Characters) /\ x = <<x[1]>> \o Tail(x)
      BY <1>2
    <3> QED
      BY <3>1
  <2>2. PICK one \in Seq(Characters) : one = <<c>>
    <3>1. <<c>> \in Seq(Characters)
      OBVIOUS
    <3> QED
      BY <3>1, Zenon
  <2>3. Restore(TRUE, one) = IF c = LF THEN <<CR, LF>> ELSE <<c>>
    BY <2>2, RestoreOne
  <2>4. /\ <<CR, LF>> \in Seq(Characters) /\ Len(<<CR, LF>>) = 2
        /\ <<c>> \in Seq(Characters) /\ Len(<<c>>) = 1
    BY CharactersAre
  <2>5. PICK u \in Seq(Characters), v \in Seq(Characters) :
          u = Restore(TRUE, one) /\ v = Restore(TRUE, y) /\ Len(u) \in Nat \ {0}
    <3>1. Restore(TRUE, one) \in Seq(Characters) /\ Len(Restore(TRUE, one)) \in Nat \ {0}
      <4>1. PICK w : w = Restore(TRUE, one)
        OBVIOUS
      <4>2. w = <<CR, LF>> \/ w = <<c>>
        BY <2>3, <4>1
      <4>3. w \in Seq(Characters) /\ Len(w) \in Nat \ {0}
        <5>1. CASE w = <<CR, LF>>
          BY <2>4, <5>1
        <5>2. CASE w = <<c>>
          BY <2>4, <5>2
        <5> QED
          BY <4>2, <5>1, <5>2
      <4> QED
        BY <4>1, <4>3
    <3>2. TRUE \in BOOLEAN
      OBVIOUS
    <3>3. Restore(TRUE, y) \in Seq(Characters)
      BY <3>2, RestoreIs
    <3> QED
      BY <3>1, <3>3
  <2>6. Len(u \o v) = Len(u) + Len(v) /\ Len(v) \in Nat
    OBVIOUS
  <2>7. Restore(TRUE, x) = u \o v
    <3>1. TRUE \in BOOLEAN
      OBVIOUS
    <3> QED
      BY <2>1, <2>2, <2>5, <3>1, RestoreJoins
  <2>8. Restore(crlf, x) = Restore(TRUE, x)
    BY <1>4 DEF Restore
  <2>9. Len(u) + Len(v) \in Nat \ {0}
    <3>1. PICK n \in Nat \ {0}, m \in Nat : n = Len(u) /\ m = Len(v)
      BY <2>5, <2>6
    <3>2. n + m \in Nat \ {0}
      OBVIOUS
    <3> QED
      BY <3>1, <3>2
  <2> QED
    BY <1>1, <2>6, <2>7, <2>8, <2>9
<1> QED
  BY <1>3, <1>4

\* The CR of a CRLF.
OfCRLF(text, n) == n \in 1 .. Len(text) /\ n < Len(text) /\ text[n] = CR /\ text[n + 1] = LF

\* What the first n characters, read and given back, make.
Back(text, n) == Restore(TRUE, Upto(Kept(text), n))

\* One more character: a CR before an LF waits for it.
LEMMA BackNext ==
    ASSUME NEW text \in Seq(Characters), NEW n \in Nat, n + 1 <= Len(text)
    PROVE  /\ Back(text, n) \in Seq(Characters)
           /\ OfCRLF(text, n + 1) => Back(text, n + 1) = Back(text, n)
           /\ ~OfCRLF(text, n + 1) =>
                Back(text, n + 1)
                  = Back(text, n) \o (IF text[n + 1] = LF THEN <<CR, LF>> ELSE <<text[n + 1]>>)
<1>1. PICK parts \in Seq(Seq(Characters)) : parts = Kept(text) /\ Len(parts) = Len(text)
  BY ToLfIs
<1>2. Len(text) \in Nat /\ n \in 0 .. Len(parts) /\ n + 1 \in 1 .. Len(text) /\ text[n + 1] \in Characters
      /\ n + 1 \in DOMAIN text
  BY <1>1
<1>3. PICK had \in Seq(Characters) : had = Upto(parts, n)
  BY <1>2, UptoTypes
<1>4. Upto(parts, n + 1) = had \o parts[n + 1]
  BY <1>1, <1>3, UptoNext
<1>5. parts[n + 1] = IF OfCRLF(text, n + 1) THEN <<>> ELSE <<text[n + 1]>>
  BY <1>1, <1>2 DEF Kept, OfCRLF
<1>6. Back(text, n) \in Seq(Characters) /\ Back(text, n) = Restore(TRUE, had)
  <2>1. TRUE \in BOOLEAN
    OBVIOUS
  <2> QED
    BY <1>1, <1>3, <2>1, RestoreIs DEF Back
<1>7. ASSUME OfCRLF(text, n + 1)
      PROVE  Back(text, n + 1) = Back(text, n)
  <2>1. had \o <<>> = had
    OBVIOUS
  <2> QED
    BY <1>1, <1>4, <1>5, <1>6, <1>7, <2>1 DEF Back
<1>8. ASSUME ~OfCRLF(text, n + 1)
      PROVE  Back(text, n + 1)
               = Back(text, n) \o (IF text[n + 1] = LF THEN <<CR, LF>> ELSE <<text[n + 1]>>)
  <2>1. PICK one \in Seq(Characters) : one = <<text[n + 1]>>
    BY <1>2, OneIs
  <2>2. Restore(TRUE, one) = IF text[n + 1] = LF THEN <<CR, LF>> ELSE <<text[n + 1]>>
    BY <1>2, <2>1, RestoreOne
  <2>3. TRUE \in BOOLEAN
    OBVIOUS
  <2>4. Restore(TRUE, had \o one) = Restore(TRUE, had) \o Restore(TRUE, one)
    BY <2>3, RestoreJoins
  <2>5. Upto(parts, n + 1) = had \o one
    BY <1>4, <1>5, <1>8, <2>1
  <2> QED
    BY <1>1, <1>6, <2>2, <2>4, <2>5 DEF Back
<1> QED
  BY <1>6, <1>7, <1>8

\* The first n + 1 elements, from n - 1 of them.
LEMMA TwoMore ==
    ASSUME NEW S, NEW w \in Seq(S), NEW n \in Nat \ {0}, n + 1 <= Len(w)
    PROVE  SubSeq(w, 1, n - 1) \o <<w[n], w[n + 1]>> = SubSeq(w, 1, n + 1)
<1>1. PICK k \in Nat : k + 1 = n /\ n - 1 = k
  <2>1. n - 1 \in Nat /\ (n - 1) + 1 = n
    OBVIOUS
  <2> QED
    BY <2>1
<1>2. n <= Len(w)
  <2>1. Len(w) \in Nat
    OBVIOUS
  <2> QED
    BY <2>1
<1>3. /\ SubSeq(w, 1, k) \in Seq(S) /\ w[n] \in S
      /\ SubSeq(w, 1, n) = Append(SubSeq(w, 1, k), w[n])
  BY <1>1, <1>2, Begun
<1>4. /\ w[n + 1] \in S
      /\ SubSeq(w, 1, n + 1) = Append(SubSeq(w, 1, n), w[n + 1])
  BY Begun
<1>5. PICK u \in Seq(S), c \in S, d \in S : u = SubSeq(w, 1, k) /\ c = w[n] /\ d = w[n + 1]
  BY <1>3, <1>4
<1>6. u \o <<c, d>> = Append(Append(u, c), d)
  OBVIOUS
<1> QED
  BY <1>1, <1>3, <1>4, <1>5, <1>6

\* What a CRLF file is read as, written back, is the file.
LEMMA RestoreUndoes ==
    ASSUME NEW text \in Seq(Characters)
    PROVE  Restore(IsCrlf(text), ToLf(text)) = text
<1>1. CASE ~IsCrlf(text)
  BY <1>1 DEF Restore, ToLf
<1>2. CASE IsCrlf(text)
  <2> DEFINE EndAt(n) == IF OfCRLF(text, n) THEN n - 1 ELSE n
             Made(n) == Back(text, n) = SubSeq(text, 1, EndAt(n))
             Good == {n \in Nat : n <= Len(text) => Made(n)}
  <2>1. Len(text) \in Nat /\ Kept(text) \in Seq(Seq(Characters)) /\ Len(Kept(text)) = Len(text)
    BY ToLfIs
  <2>2. Made(0)
    <3>1. Upto(Kept(text), 0) = <<>>
      BY <2>1, UptoEnds
    <3>2. Restore(TRUE, <<>>) = <<>>
      <4>1. <<>> \in Seq(Characters) /\ Len(<<>>) = 0 /\ TRUE \in BOOLEAN
        OBVIOUS
      <4>2. PICK none \in Seq(Characters) : none = <<>>
        BY <4>1
      <4>3. Ended(none) \in Seq(Seq(Characters)) /\ Len(Ended(none)) = 0
            /\ Restore(TRUE, none) = FlattenSeq(Ended(none))
        BY <4>1, <4>2, RestoreIs
      <4>4. FlattenSeq(Ended(none)) = <<>>
        BY <4>3, FlattenIs
      <4> QED
        BY <4>2, <4>3, <4>4
    <3>3. SubSeq(text, 1, 0) = <<>> /\ ~OfCRLF(text, 0)
      BY DEF OfCRLF
    <3> QED
      BY <3>1, <3>2, <3>3 DEF Back
  <2>3. ASSUME NEW n \in Nat, Made(n), n + 1 <= Len(text)
        PROVE  Made(n + 1)
    <3>1. n + 1 \in 1 .. Len(text) /\ n + 1 \in DOMAIN text /\ text[n + 1] \in Characters
      BY <2>1, <2>3
    <3>2. CR # LF
      BY FileToolsConstants
    <3>3. OfCRLF(text, n) <=> text[n + 1] = LF
      <4>1. text[n + 1] = LF => n + 1 > 1 /\ text[(n + 1) - 1] = CR
        BY <1>2, <3>1 DEF IsCrlf
      <4>2. (n + 1) - 1 = n /\ (n + 1 > 1 => n \in 1 .. Len(text) /\ n < Len(text))
        BY <2>1, <2>3
      <4> QED
        BY <4>1, <4>2 DEF OfCRLF
    <3>4. CASE OfCRLF(text, n + 1)
      <4>1. text[n + 1] = CR
        BY <3>4 DEF OfCRLF
      <4>2. EndAt(n) = n /\ EndAt(n + 1) = n
        BY <3>2, <3>3, <3>4, <4>1
      <4>3. Back(text, n + 1) = Back(text, n)
        BY <2>3, <3>4, BackNext
      <4> HIDE DEF EndAt
      <4> QED
        BY <2>3, <4>2, <4>3
    <3>5. CASE ~OfCRLF(text, n + 1) /\ text[n + 1] = LF
      <4>1. OfCRLF(text, n) /\ n \in Nat \ {0} /\ text[n] = CR
        BY <3>3, <3>5 DEF OfCRLF
      <4>2. Back(text, n) = SubSeq(text, 1, n - 1) /\ EndAt(n + 1) = n + 1
        BY <2>3, <3>5, <4>1
      <4>3. Back(text, n + 1) = Back(text, n) \o <<CR, LF>>
        BY <2>3, <3>5, BackNext
      <4>4. SubSeq(text, 1, n - 1) \o <<text[n], text[n + 1]>> = SubSeq(text, 1, n + 1)
        BY <2>3, <4>1, TwoMore
      <4> HIDE DEF EndAt
      <4> QED
        BY <3>5, <4>1, <4>2, <4>3, <4>4
    <3>6. CASE ~OfCRLF(text, n + 1) /\ text[n + 1] # LF
      <4>1. EndAt(n) = n /\ EndAt(n + 1) = n + 1
        BY <3>3, <3>6
      <4>2. Back(text, n + 1) = Back(text, n) \o <<text[n + 1]>>
        BY <2>3, <3>6, BackNext
      <4>3. SubSeq(text, 1, n) \in Seq(Characters)
            /\ SubSeq(text, 1, n + 1) = Append(SubSeq(text, 1, n), text[n + 1])
        BY <2>3, Begun
      <4> HIDE DEF EndAt
      <4>4. PICK u \in Seq(Characters), c \in Characters : u = SubSeq(text, 1, n) /\ c = text[n + 1]
        BY <3>1, <4>3
      <4>5. u \o <<c>> = Append(u, c)
        OBVIOUS
      <4> QED
        BY <2>3, <4>1, <4>2, <4>3, <4>4, <4>5
    <3> QED
      BY <3>4, <3>5, <3>6
  <2> HIDE DEF Made
  <2>4. \A n \in Nat : n \in Good => n + 1 \in Good
    <3> SUFFICES ASSUME NEW n \in Nat, n <= Len(text) => Made(n), n + 1 <= Len(text)
                 PROVE  Made(n + 1)
      OBVIOUS
    <3>1. n <= Len(text)
      BY <2>1
    <3> QED
      BY <2>3, <3>1
  <2>5. 0 \in Good
    BY <2>2
  <2> HIDE DEF Good
  <2>6. Len(text) \in Good
    BY <2>1, <2>4, <2>5, InductionOverASet
  <2>7. Made(Len(text))
    BY <2>1, <2>6 DEF Good
  <2>8. EndAt(Len(text)) = Len(text) /\ SubSeq(text, 1, Len(text)) = text
    BY <2>1 DEF OfCRLF
  <2>9. Back(text, Len(text)) = text
    BY <2>7, <2>8 DEF Made
  <2>10. Upto(Kept(text), Len(text)) = ToLf(text)
    BY <1>2, <2>1, UptoEnds, ToLfIs
  <2>11. Restore(IsCrlf(text), ToLf(text)) = Restore(TRUE, ToLf(text))
    BY <1>2 DEF Restore
  <2> QED
    BY <2>9, <2>10, <2>11 DEF Back
<1> QED
  BY <1>1, <1>2

\* A text that holds another one after its first k characters.
Holds(text, k, w) == k + Len(w) <= Len(text) /\ \A i \in 1 .. Len(w) : text[k + i] = w[i]

\* What is joined holds what its halves held.
LEMMA HoldsJoined ==
    ASSUME NEW S, NEW a \in Seq(S), NEW b \in Seq(S), NEW c \in Seq(S), IsJoined(c, a, b)
    PROVE  /\ Len(c) = Len(a) + Len(b)
           /\ Holds(c, 0, a) /\ Holds(c, Len(a), b)
           /\ \A k \in Nat, w \in Seq(S) : Holds(a, k, w) => Holds(c, k, w)
<1>1. /\ Len(c) = Len(a) + Len(b) /\ Len(a) \in Nat /\ Len(b) \in Nat
      /\ \A i \in 1 .. Len(a) : c[i] = a[i]
      /\ \A i \in 1 .. Len(b) : c[i + Len(a)] = b[i]
  BY JoinedAt
<1>2. Holds(c, 0, a)
  <2>1. \A i \in 1 .. Len(a) : 0 + i = i
    BY <1>1
  <2> QED
    BY <1>1, <2>1 DEF Holds
<1>3. Holds(c, Len(a), b)
  <2>1. \A i \in 1 .. Len(b) : Len(a) + i = i + Len(a)
    BY <1>1
  <2> QED
    BY <1>1, <2>1 DEF Holds
<1>4. ASSUME NEW k \in Nat, NEW w \in Seq(S), Holds(a, k, w)
      PROVE  Holds(c, k, w)
  <2>1. Len(w) \in Nat /\ k + Len(w) <= Len(a)
    BY <1>4 DEF Holds
  <2>2. \A i \in 1 .. Len(w) : k + i \in 1 .. Len(a)
    BY <1>1, <2>1
  <2>3. k + Len(w) <= Len(c)
    BY <1>1, <2>1
  <2>4. \A i \in 1 .. Len(w) : c[k + i] = w[i]
    BY <1>1, <1>4, <2>2 DEF Holds
  <2> QED
    BY <2>3, <2>4 DEF Holds
<1> QED
  BY <1>1, <1>2, <1>3, <1>4

\* Where a text holds another one, the other has a place.
LEMMA HoldsIsPlace ==
    ASSUME NEW S, NEW text \in Seq(S), NEW w \in Seq(S), NEW k \in Nat, Holds(text, k, w)
    PROVE  k + 1 \in Places(text, w)
<1> DEFINE n == (k + 1) + Len(w) - 1
           u == SubSeq(text, k + 1, n)
<1>1. Len(w) \in Nat /\ Len(text) \in Nat /\ k + Len(w) <= Len(text)
  BY DEF Holds
<1>2. n = k + Len(w) /\ k + 1 \in 1 .. (Len(text) - Len(w) + 1)
  BY <1>1
<1>3. /\ u \in Seq(S) /\ Len(u) = Len(w)
      /\ \A i \in 1 .. Len(w) : u[i] = text[k + i]
  <2>1. PICK m \in Nat : m = k + Len(w)
    BY <1>1
  <2>2. PICK v : v = SubSeq(text, k + 1, m)
    OBVIOUS
  <2>3. v \in Seq(S) /\ Len(v) = m - k /\ \A i \in 1 .. (m - k) : v[i] = text[(k + 1) + i - 1]
    BY <1>1, <2>1, <2>2
  <2>4. m - k = Len(w) /\ \A i \in 1 .. Len(w) : (k + 1) + i - 1 = k + i
    BY <1>1, <2>1
  <2> QED
    BY <1>2, <2>1, <2>2, <2>3, <2>4
<1> HIDE DEF u
<1>4. \A i \in 1 .. Len(u) : u[i] = w[i]
  BY <1>3 DEF Holds
<1>5. u = w
  BY <1>3, <1>4, SeqEqual
<1> QED
  BY <1>2, <1>5 DEF Places, u

\* The parts of a text with others put in their places.
Parts(text, at, old, new) ==
    [i \in DOMAIN text |->
        IF \E k \in DOMAIN at : i = at[k]
            THEN new[CHOOSE k \in DOMAIN at : i = at[k]]
        ELSE IF \E k \in DOMAIN at : i \in at[k]..(at[k] + Len(old[k]) - 1)
            THEN <<>>
        ELSE <<text[i]>>]

\* Each place has a text of its own to put there.
Placed(S, at, new) ==
    /\ \A k \in DOMAIN at : new[k] \in Seq(S)
    /\ \A j, k \in DOMAIN at : at[j] = at[k] => j = k

\* None of the n characters after the first k is at, or in, a place.
Outside(at, old, k, n) ==
    \A i \in 1 .. n, j \in DOMAIN at :
        k + i # at[j] /\ k + i \notin at[j]..(at[j] + Len(old[j]) - 1)

\* None of the n characters after the first k is where a text is put, but for
\* the first.
Within(at, k, n) == \A i \in 2 .. n, j \in DOMAIN at : k + i # at[j]

\* At a place is the new text.
IsNew(parts, text, at, new) ==
    \A k \in DOMAIN at : at[k] \in 1 .. Len(text) => parts[at[k]] = new[k]

\* In the rest of a text replaced is nothing.
IsNothing(parts, text, at, old) ==
    \A i \in 1 .. Len(text), k \in DOMAIN at :
        (\A j \in DOMAIN at : i # at[j]) /\ i \in at[k]..(at[k] + Len(old[k]) - 1)
          => parts[i] = <<>>

\* Everywhere else is the old character.
IsOld(parts, text, at, old) ==
    \A i \in 1 .. Len(text) :
        (\A k \in DOMAIN at : i # at[k] /\ i \notin at[k]..(at[k] + Len(old[k]) - 1))
          => parts[i] = <<text[i]>>

\* Which part is the new text, which is nothing, and which the old character.
LEMMA PartsAre ==
    ASSUME NEW S, NEW text \in Seq(S), NEW at, NEW old, NEW new, Placed(S, at, new)
    PROVE  /\ Parts(text, at, old, new) \in Seq(Seq(S))
           /\ Len(Parts(text, at, old, new)) = Len(text)
           /\ IsNew(Parts(text, at, old, new), text, at, new)
           /\ IsNothing(Parts(text, at, old, new), text, at, old)
           /\ IsOld(Parts(text, at, old, new), text, at, old)
<1> DEFINE New(i) == new[CHOOSE k \in DOMAIN at : i = at[k]]
           IsAt(i) == \E k \in DOMAIN at : i = at[k]
           IsIn(i) == \E k \in DOMAIN at : i \in at[k]..(at[k] + Len(old[k]) - 1)
<1>1. DOMAIN text = 1 .. Len(text) /\ Len(text) \in Nat
  OBVIOUS
<1>2. ASSUME NEW k \in DOMAIN at
      PROVE  New(at[k]) = new[k]
  BY DEF Placed
<1>3. ASSUME NEW i, IsAt(i)
      PROVE  New(i) \in Seq(S)
  BY <1>3 DEF Placed
<1>4. /\ <<>> \in Seq(S)
      /\ \A i \in 1 .. Len(text) : <<text[i]>> \in Seq(S)
  BY <1>1
<1> DEFINE parts == [i \in DOMAIN text |-> IF IsAt(i) THEN New(i) ELSE IF IsIn(i) THEN <<>> ELSE <<text[i]>>]
<1>5. Parts(text, at, old, new) = parts
  BY DEF Parts
<1> HIDE DEF New
<1>6. \A k \in DOMAIN at : IsAt(at[k])
  OBVIOUS
<1>7. \A i \in 1 .. Len(text), k \in DOMAIN at :
                (\A j \in DOMAIN at : i # at[j]) /\ i \in at[k]..(at[k] + Len(old[k]) - 1)
                  => ~IsAt(i) /\ IsIn(i)
  OBVIOUS
<1>8. \A i \in 1 .. Len(text) :
                (\A k \in DOMAIN at : i # at[k] /\ i \notin at[k]..(at[k] + Len(old[k]) - 1))
                  => ~IsAt(i) /\ ~IsIn(i)
  OBVIOUS
<1> HIDE DEF IsAt, IsIn
<1>9. parts \in Seq(Seq(S)) /\ Len(parts) = Len(text)
  BY <1>1, <1>3, <1>4
<1>10. \A k \in DOMAIN at : at[k] \in 1 .. Len(text) => parts[at[k]] = new[k]
  BY <1>1, <1>2, <1>6
<1>11. \A i \in 1 .. Len(text) : /\ ~IsAt(i) /\ IsIn(i) => parts[i] = <<>>
                                 /\ ~IsAt(i) /\ ~IsIn(i) => parts[i] = <<text[i]>>
  BY <1>1
<1> HIDE DEF parts
<1> QED
  BY <1>5, <1>7, <1>8, <1>9, <1>10, <1>11 DEF IsNew, IsNothing, IsOld

\* A stretch of the text outside every place is copied.
LEMMA StretchCopied ==
    ASSUME NEW S, NEW text \in Seq(S), NEW k \in Nat, NEW w \in Seq(S), NEW at, NEW old, NEW new,
           Placed(S, at, new), Holds(text, k, w), Outside(at, old, k, Len(w))
    PROVE  Upto(Parts(text, at, old, new), k + Len(w)) = Upto(Parts(text, at, old, new), k) \o w
<1>1. PICK parts : parts = Parts(text, at, old, new)
  OBVIOUS
<1>2. parts \in Seq(Seq(S)) /\ Len(parts) = Len(text) /\ IsOld(parts, text, at, old)
  BY <1>1, PartsAre
<1>3. Len(w) \in Nat /\ Len(text) \in Nat /\ k + Len(w) <= Len(text)
  BY DEF Holds
<1>4. ASSUME NEW i \in 1 .. Len(w)
      PROVE  parts[k + i] = <<w[i]>>
  <2>1. k + i \in 1 .. Len(text)
    BY <1>3
  <2>2. text[k + i] = w[i]
    BY DEF Holds
  <2>3. \A j \in DOMAIN at : k + i # at[j] /\ k + i \notin at[j]..(at[j] + Len(old[j]) - 1)
    BY DEF Outside
  <2> QED
    BY <1>2, <2>1, <2>2, <2>3 DEF IsOld
<1>5. k + Len(w) <= Len(parts)
  BY <1>2, <1>3
<1> QED
  BY <1>1, <1>2, <1>4, <1>5, UptoCopied

\* A place is after the first k characters, and its text has n of them.
IsPlace(text, at, old, l, k, n) ==
    /\ l \in DOMAIN at /\ at[l] = k + 1 /\ Len(old[l]) = n
    /\ k + n <= Len(text)
    /\ Within(at, k, n)

\* At a place the new text is put for the old one.
LEMMA StretchSwapped ==
    ASSUME NEW S, NEW text \in Seq(S), NEW k \in Nat, NEW n \in Nat \ {0},
           NEW at, NEW old, NEW new, NEW l, Placed(S, at, new), IsPlace(text, at, old, l, k, n)
    PROVE  Upto(Parts(text, at, old, new), k + n) = Upto(Parts(text, at, old, new), k) \o new[l]
<1> USE DEF IsPlace
<1>1. PICK parts : parts = Parts(text, at, old, new)
  OBVIOUS
<1>2. /\ parts \in Seq(Seq(S)) /\ Len(parts) = Len(text)
      /\ IsNew(parts, text, at, new) /\ IsNothing(parts, text, at, old)
  BY <1>1, PartsAre
<1>3. Len(text) \in Nat /\ at[l] \in 1 .. Len(text) /\ new[l] \in Seq(S)
  BY DEF Placed
<1>4. parts[k + 1] = new[l]
  BY <1>2, <1>3 DEF IsNew
<1>5. ASSUME NEW i \in 2 .. n
      PROVE  parts[k + i] = <<>>
  <2>1. k + i \in 1 .. Len(text) /\ k + i \in (k + 1)..((k + 1) + n - 1)
    BY <1>3
  <2>2. \A j \in DOMAIN at : k + i # at[j]
    BY DEF Within
  <2> QED
    BY <1>2, <2>1, <2>2 DEF IsNothing
<1>6. k + n <= Len(parts)
  BY <1>2
<1>7. PICK u \in Seq(S) : u = new[l]
  BY <1>3
<1>8. Upto(parts, k + n) = Upto(parts, k) \o u
  <2>1. Blank(parts, k, n) /\ parts[k + 1] = u
    BY <1>4, <1>5, <1>7 DEF Blank
  <2>2. parts \in Seq(Seq(S))
    BY <1>2
  <2> HIDE DEF IsPlace
  <2> QED
    BY <1>6, <2>1, <2>2, UptoSwapped, ZenonT(40)
<1> QED
  BY <1>1, <1>7, <1>8

\* What comes out of a text is what it was with each text at its place replaced.
IsLocal(text, result, old, new) ==
    \E at \in [DOMAIN old -> DOMAIN text] :
        /\ \A k \in DOMAIN old : at[k] \in Places(text, old[k])
        /\ \A j, k \in DOMAIN old : j # k => at[k] \notin at[j]..(at[j] + Len(old[j]) - 1)
        /\ result = Spliced(text, at, old, new)

\* All the parts make the spliced text.
LEMMA SplicedIs ==
    ASSUME NEW S, NEW text \in Seq(S), NEW at, NEW old, NEW new, Placed(S, at, new)
    PROVE  /\ Upto(Parts(text, at, old, new), 0) = <<>>
           /\ Upto(Parts(text, at, old, new), Len(text)) = Spliced(text, at, old, new)
<1>1. PICK parts : parts = Parts(text, at, old, new)
  OBVIOUS
<1>2. parts \in Seq(Seq(S)) /\ Len(parts) = Len(text)
  BY <1>1, PartsAre
<1>3. Spliced(text, at, old, new) = FlattenSeq(parts)
  BY <1>1 DEF Spliced, Parts
<1> QED
  BY <1>1, <1>2, <1>3, UptoEnds

\* A text holds what it is made of.
LEMMA AroundHolds ==
    ASSUME NEW S, NEW a \in Seq(S), NEW x \in Seq(S), NEW z \in Seq(S),
           NEW text \in Seq(S), Around(text, a, x, z)
    PROVE  /\ Len(text) = Len(a) + Len(x) + Len(z)
           /\ Holds(text, 0, a) /\ Holds(text, Len(a), x) /\ Holds(text, Len(a) + Len(x), z)
<1>1. PICK head \in Seq(S) : head = a \o x
  BY Joined
<1>2. IsJoined(head, a, x) /\ IsJoined(text, head, z)
  BY <1>1 DEF Around, IsJoined
<1>3. Len(head) = Len(a) + Len(x) /\ Holds(head, 0, a) /\ Holds(head, Len(a), x) /\ Len(a) \in Nat
  BY <1>2, HoldsJoined
<1>4. /\ Len(text) = Len(head) + Len(z) /\ Holds(text, Len(head), z)
      /\ \A k \in Nat, w \in Seq(S) : Holds(head, k, w) => Holds(text, k, w)
  BY <1>2, HoldsJoined
<1> QED
  BY <1>3, <1>4

\* One text replaced.
LEMMA LocalOne ==
    ASSUME NEW S, NEW a \in Seq(S), NEW x \in Seq(S), NEW z \in Seq(S), NEW u \in Seq(S),
           Len(x) \in Nat \ {0},
           NEW text \in Seq(S), Around(text, a, x, z),
           NEW result, Around(result, a, u, z),
           NEW old, NEW new, DOMAIN old = {1}, old[1] = x, new[1] = u
    PROVE  IsLocal(text, result, old, new)
<1>1. PICK at : at = [k \in {1} |-> Len(a) + 1] /\ at[1] = Len(a) + 1 /\ DOMAIN at = {1}
  OBVIOUS
<1>2. /\ Len(text) = Len(a) + Len(x) + Len(z)
      /\ Holds(text, 0, a) /\ Holds(text, Len(a), x) /\ Holds(text, Len(a) + Len(x), z)
  BY AroundHolds
<1>3. PICK la \in Nat, lx \in Nat \ {0}, lz \in Nat : la = Len(a) /\ lx = Len(x) /\ lz = Len(z)
  OBVIOUS
<1>4. DOMAIN text = 1 .. (la + lx + lz)
  BY <1>2, <1>3
<1>5. at \in [{1} -> DOMAIN text]
  BY <1>1, <1>3, <1>4
<1>6. at[1] \in Places(text, x)
  BY <1>1, <1>2, <1>3, HoldsIsPlace
<1>7. Placed(S, at, new)
  BY <1>1 DEF Placed
<1> DEFINE Made(n) == Upto(Parts(text, at, old, new), n)
<1>8. Made(0) = <<>> /\ Made(Len(text)) = Spliced(text, at, old, new)
  BY <1>7, SplicedIs
<1>9. Made(0 + Len(a)) = Made(0) \o a
  <2>1. \A i \in 1 .. la : 0 + i # la + 1 /\ 0 + i \notin (la + 1)..((la + 1) + lx - 1)
    OBVIOUS
  <2>2. Outside(at, old, 0, Len(a)) /\ 0 \in Nat
    BY <1>1, <1>3, <2>1 DEF Outside
  <2> QED
    BY <1>2, <1>7, <2>2, StretchCopied
<1>10. Made(Len(a) + Len(x)) = Made(Len(a)) \o new[1]
  <2>1. Within(at, Len(a), Len(x))
    BY <1>1, <1>3 DEF Within
  <2>2. Len(a) + Len(x) <= Len(text) /\ 1 \in DOMAIN at /\ Len(a) \in Nat /\ Len(old[1]) = Len(x)
    BY <1>1, <1>2, <1>3
  <2>3. PICK l : l = 1
    OBVIOUS
  <2>4. IsPlace(text, at, old, l, Len(a), Len(x))
    BY <1>1, <2>1, <2>2, <2>3 DEF IsPlace
  <2>5. Made(Len(a) + Len(x)) = Made(Len(a)) \o new[l]
    BY <1>7, <2>2, <2>4, StretchSwapped
  <2> HIDE DEF Made
  <2> QED
    BY <2>3, <2>5
<1>11. Made((Len(a) + Len(x)) + Len(z)) = Made(Len(a) + Len(x)) \o z
  <2>1. \A i \in 1 .. lz : (la + lx) + i # la + 1 /\ (la + lx) + i \notin (la + 1)..((la + 1) + lx - 1)
    OBVIOUS
  <2>2. Outside(at, old, Len(a) + Len(x), Len(z)) /\ Len(a) + Len(x) \in Nat
    BY <1>1, <1>3, <2>1 DEF Outside
  <2> QED
    BY <1>2, <1>7, <2>2, StretchCopied
<1>12. <<>> \o a = a /\ 0 + Len(a) = Len(a) /\ (Len(a) + Len(x)) + Len(z) = Len(text)
  BY <1>2, <1>3
<1> HIDE DEF Made
<1>13. result = Spliced(text, at, old, new)
  BY <1>8, <1>9, <1>10, <1>11, <1>12 DEF Around
<1> QED
  BY <1>1, <1>5, <1>6, <1>13 DEF IsLocal

\* So does one made of five pieces.
LEMMA BothHolds ==
    ASSUME NEW S, NEW a \in Seq(S), NEW x \in Seq(S), NEW m \in Seq(S), NEW y \in Seq(S),
           NEW z \in Seq(S), NEW text \in Seq(S), Both(text, a, x, m, y, z)
    PROVE  /\ Len(text) = (((Len(a) + Len(x)) + Len(m)) + Len(y)) + Len(z)
           /\ Holds(text, 0, a) /\ Holds(text, Len(a), x)
           /\ Holds(text, Len(a) + Len(x), m)
           /\ Holds(text, (Len(a) + Len(x)) + Len(m), y)
           /\ Holds(text, ((Len(a) + Len(x)) + Len(m)) + Len(y), z)
<1>1. PICK ax \in Seq(S) : ax = a \o x
  BY Joined
<1>2. PICK head \in Seq(S) : head = ax \o m
  BY Joined
<1>3. PICK most \in Seq(S) : most = head \o y
  BY Joined
<1>4. Around(head, a, x, m) /\ Around(text, head, y, z)
  BY <1>1, <1>2, <1>3 DEF Both, Around
<1>5. IsJoined(most, head, y) /\ IsJoined(text, most, z)
  BY <1>1, <1>2, <1>3 DEF Both, IsJoined
<1>6. /\ Len(head) = Len(a) + Len(x) + Len(m)
      /\ Holds(head, 0, a) /\ Holds(head, Len(a), x) /\ Holds(head, Len(a) + Len(x), m)
  BY <1>4, AroundHolds
<1>7. /\ Len(text) = Len(head) + Len(y) + Len(z)
      /\ Holds(text, Len(head), y) /\ Holds(text, Len(head) + Len(y), z)
  BY <1>4, AroundHolds
<1>8. \A k \in Nat, w \in Seq(S) : Holds(head, k, w) => Holds(most, k, w)
  BY <1>5, HoldsJoined
<1>9. \A k \in Nat, w \in Seq(S) : Holds(most, k, w) => Holds(text, k, w)
  BY <1>5, HoldsJoined
<1>10. 0 \in Nat /\ Len(a) \in Nat /\ Len(a) + Len(x) \in Nat
  OBVIOUS
<1>11. Holds(text, 0, a) /\ Holds(text, Len(a), x) /\ Holds(text, Len(a) + Len(x), m)
  BY <1>6, <1>8, <1>9, <1>10
<1> QED
  BY <1>6, <1>7, <1>11

\* The two texts of the pairs l and r.
AreTexts(texts, l, r, x, y) ==
    /\ l \in {1, 2} /\ r \in {1, 2} /\ l # r /\ DOMAIN texts = {1, 2}
    /\ texts[l] = x /\ texts[r] = y

\* Two texts replaced, one after the end of the other.
LEMMA LocalTwo ==
    ASSUME NEW S, NEW a \in Seq(S), NEW x \in Seq(S), NEW m \in Seq(S), NEW y \in Seq(S),
           NEW z \in Seq(S), NEW u \in Seq(S), NEW v \in Seq(S),
           Len(x) # 0, Len(y) # 0,
           NEW text \in Seq(S), Both(text, a, x, m, y, z),
           NEW result, Both(result, a, u, m, v, z),
           NEW l, NEW r, NEW old, NEW new, AreTexts(old, l, r, x, y), AreTexts(new, l, r, u, v)
    PROVE  IsLocal(text, result, old, new)
<1>1. PICK la \in Nat, lx \in Nat \ {0}, lm \in Nat, ly \in Nat \ {0}, lz \in Nat :
        la = Len(a) /\ lx = Len(x) /\ lm = Len(m) /\ ly = Len(y) /\ lz = Len(z)
  OBVIOUS
<1>2. PICK lr \in Nat : lr = (la + lx) + lm
  OBVIOUS
<1>3. /\ {1, 2} = {l, r} /\ l # r /\ DOMAIN old = {1, 2}
      /\ old[l] = x /\ old[r] = y /\ new[l] = u /\ new[r] = v
  BY DEF AreTexts
<1>4. PICK at : /\ at = [k \in {1, 2} |-> IF k = l THEN la + 1 ELSE lr + 1]
                /\ at[l] = la + 1 /\ at[r] = lr + 1 /\ DOMAIN at = {l, r}
  <2> DEFINE f == [k \in {1, 2} |-> IF k = l THEN la + 1 ELSE lr + 1]
  <2>1. f[l] = la + 1 /\ f[r] = lr + 1 /\ DOMAIN f = {l, r}
    BY <1>3
  <2> QED
    BY <2>1
<1>5. /\ Len(text) = (lr + ly) + lz
      /\ Holds(text, 0, a) /\ Holds(text, la, x) /\ Holds(text, la + lx, m)
      /\ Holds(text, lr, y) /\ Holds(text, lr + ly, z)
  <2>1. /\ Len(text) = (((Len(a) + Len(x)) + Len(m)) + Len(y)) + Len(z)
        /\ Holds(text, 0, a) /\ Holds(text, Len(a), x)
        /\ Holds(text, Len(a) + Len(x), m)
        /\ Holds(text, (Len(a) + Len(x)) + Len(m), y)
        /\ Holds(text, ((Len(a) + Len(x)) + Len(m)) + Len(y), z)
    BY BothHolds, SMTT(60)
  <2> QED
    BY <1>1, <1>2, <2>1
<1>6. DOMAIN text = 1 .. ((lr + ly) + lz)
  BY <1>5
<1>7. at \in [{1, 2} -> DOMAIN text]
  BY <1>1, <1>2, <1>4, <1>6
<1>8. at[l] \in Places(text, x) /\ at[r] \in Places(text, y)
  BY <1>4, <1>5, HoldsIsPlace
<1>9. /\ la + 1 \notin (lr + 1)..((lr + 1) + ly - 1) /\ lr + 1 \notin (la + 1)..((la + 1) + lx - 1)
      /\ la + 1 # lr + 1
  BY <1>1, <1>2
<1>10. Placed(S, at, new)
  BY <1>3, <1>4, <1>9 DEF Placed
<1> DEFINE Made(n) == Upto(Parts(text, at, old, new), n)
<1>11. Made(0) = <<>> /\ Made(Len(text)) = Spliced(text, at, old, new)
  BY <1>10, SplicedIs
<1>12. ASSUME NEW k \in Nat, NEW n \in Nat,
              \A i \in 1 .. n : /\ k + i \notin (la + 1)..((la + 1) + lx - 1)
                                /\ k + i \notin (lr + 1)..((lr + 1) + ly - 1)
       PROVE  Outside(at, old, k, n)
  <2>1. la + 1 \in (la + 1)..((la + 1) + lx - 1) /\ lr + 1 \in (lr + 1)..((lr + 1) + ly - 1)
    OBVIOUS
  <2> QED
    BY <1>1, <1>3, <1>4, <1>12, <2>1 DEF Outside
<1>13. Made(0 + la) = Made(0) \o a
  <2>1. \A i \in 1 .. la : /\ 0 + i \notin (la + 1)..((la + 1) + lx - 1)
                           /\ 0 + i \notin (lr + 1)..((lr + 1) + ly - 1)
    BY <1>2
  <2>2. Outside(at, old, 0, Len(a)) /\ 0 \in Nat
    BY <1>1, <1>12, <2>1
  <2>3. Made(0 + Len(a)) = Made(0) \o a
    <3>1. Holds(text, 0, a)
      BY <1>5
    <3> QED
      BY <1>10, <2>2, <3>1, StretchCopied
  <2> HIDE DEF Made
  <2> QED
    BY <1>1, <2>3
<1>14. Made(la + lx) = Made(la) \o new[l]
  <2>1. Within(at, la, lx)
    BY <1>2, <1>4 DEF Within
  <2>2. la + lx <= Len(text)
    <3>1. la + lx <= (lr + ly) + lz
      BY <1>2
    <3> QED
      BY <1>5, <3>1
  <2>3. IsPlace(text, at, old, l, la, lx)
    BY <1>1, <1>3, <1>4, <2>1, <2>2 DEF IsPlace
  <2> QED
    BY <1>10, <2>3, StretchSwapped
<1>15. Made((la + lx) + lm) = Made(la + lx) \o m
  <2>1. \A i \in 1 .. lm : /\ (la + lx) + i \notin (la + 1)..((la + 1) + lx - 1)
                           /\ (la + lx) + i \notin (lr + 1)..((lr + 1) + ly - 1)
    BY <1>2
  <2>2. PICK k \in Nat : k = la + lx
    OBVIOUS
  <2>3. Outside(at, old, k, Len(m))
    BY <1>1, <1>12, <2>1, <2>2
  <2>4. Holds(text, k, m)
    BY <1>5, <2>2
  <2>5. Made(k + Len(m)) = Made(k) \o m
    BY <1>10, <2>3, <2>4, StretchCopied
  <2> HIDE DEF Made
  <2> QED
    BY <1>1, <2>2, <2>5
<1>16. Made(lr + ly) = Made(lr) \o new[r]
  <2>1. Within(at, lr, ly)
    BY <1>2, <1>4 DEF Within
  <2>2. lr + ly <= Len(text)
    BY <1>5
  <2>3. IsPlace(text, at, old, r, lr, ly)
    BY <1>1, <1>3, <1>4, <2>1, <2>2 DEF IsPlace
  <2> QED
    BY <1>10, <2>3, StretchSwapped
<1>17. Made((lr + ly) + lz) = Made(lr + ly) \o z
  <2>1. \A i \in 1 .. lz : /\ (lr + ly) + i \notin (la + 1)..((la + 1) + lx - 1)
                           /\ (lr + ly) + i \notin (lr + 1)..((lr + 1) + ly - 1)
    BY <1>2
  <2>2. PICK k \in Nat : k = lr + ly
    OBVIOUS
  <2>3. Outside(at, old, k, Len(z))
    BY <1>1, <1>12, <2>1, <2>2
  <2>4. Holds(text, k, z)
    BY <1>5, <2>2
  <2>5. Made(k + Len(z)) = Made(k) \o z
    BY <1>10, <2>3, <2>4, StretchCopied
  <2> HIDE DEF Made
  <2> QED
    BY <1>1, <2>2, <2>5
<1>18. <<>> \o a = a /\ 0 + la = la
  OBVIOUS
<1> HIDE DEF Made
<1>19. Made(la) = a
  BY <1>11, <1>13, <1>18
<1>20. Made(lr) = (a \o u) \o m
  BY <1>2, <1>3, <1>14, <1>15, <1>19
<1>21. result = Spliced(text, at, old, new)
  BY <1>3, <1>5, <1>11, <1>16, <1>17, <1>20 DEF Both
<1>22. \A j, k \in {1, 2} : j # k => at[k] \notin at[j]..(at[j] + Len(old[j]) - 1)
  BY <1>1, <1>3, <1>4, <1>9
<1>23. \A k \in {1, 2} : at[k] \in Places(text, old[k])
  BY <1>3, <1>8
<1> QED
  BY <1>3, <1>7, <1>21, <1>22, <1>23 DEF IsLocal

-----------------------------------------------------------------------------
(* The edit in the line endings of the file.                               *)

\* What lies around a text, given back, lies around the text given back.
LEMMA RestoreAround ==
    ASSUME NEW a \in Seq(Characters), NEW x \in Seq(Characters), NEW z \in Seq(Characters),
           NEW text, Around(text, a, x, z), NEW crlf \in BOOLEAN
    PROVE  Around(Restore(crlf, text), Restore(crlf, a), Restore(crlf, x), Restore(crlf, z))
<1>1. PICK head \in Seq(Characters) : head = a \o x
  BY Joined
<1>2. Restore(crlf, head) = Restore(crlf, a) \o Restore(crlf, x)
  BY <1>1, RestoreJoins
<1>3. Restore(crlf, text) = Restore(crlf, head) \o Restore(crlf, z)
  BY <1>1, RestoreJoins DEF Around
<1> QED
  BY <1>2, <1>3 DEF Around

\* So it is around two texts.
LEMMA RestoreBoth ==
    ASSUME NEW a \in Seq(Characters), NEW x \in Seq(Characters), NEW m \in Seq(Characters),
           NEW y \in Seq(Characters), NEW z \in Seq(Characters),
           NEW text, Both(text, a, x, m, y, z), NEW crlf \in BOOLEAN
    PROVE  Both(Restore(crlf, text), Restore(crlf, a), Restore(crlf, x), Restore(crlf, m),
                Restore(crlf, y), Restore(crlf, z))
<1>1. PICK ax \in Seq(Characters) : ax = a \o x
  BY Joined
<1>2. PICK head \in Seq(Characters) : head = ax \o m
  BY Joined
<1>3. Around(head, a, x, m) /\ Around(text, head, y, z)
  BY <1>1, <1>2 DEF Both, Around
<1>4. Around(Restore(crlf, head), Restore(crlf, a), Restore(crlf, x), Restore(crlf, m))
  BY <1>3, RestoreAround
<1>5. Around(Restore(crlf, text), Restore(crlf, head), Restore(crlf, y), Restore(crlf, z))
  BY <1>3, RestoreAround
<1> QED
  BY <1>4, <1>5 DEF Both, Around

\* The texts of the pairs, in the line endings of the file.
Olds(crlf, wanted) == [k \in DOMAIN wanted |-> Restore(crlf, wanted[k].old)]
\* The texts put in their place.
News(crlf, wanted) == [k \in DOMAIN wanted |-> Restore(crlf, wanted[k].new)]

\* An edit of one pair changes its text and nothing else.
LEMMA EditOne ==
    ASSUME NEW text \in Seq(Characters), NEW p \in Pairs, NEW result, IsEdit(text, <<p>>, result)
    PROVE  IsLocal(text, result, Olds(IsCrlf(text), <<p>>), News(IsCrlf(text), <<p>>))
<1> DEFINE wanted == <<p>>
<1>1. PICK crlf \in BOOLEAN : crlf <=> IsCrlf(text)
  BY IsCrlfIs
<1>2. PICK lf \in Seq(Characters) : lf = ToLf(text)
  BY ToLfIs
<1>3. Restore(crlf, lf) = text
  <2>1. Restore(IsCrlf(text), ToLf(text)) = text
    BY RestoreUndoes
  <2> QED
    BY <1>1, <1>2, <2>1 DEF Restore
<1>4. result = Restore(crlf, Apply(lf, wanted)) /\ IsAccepted(lf, wanted)
  BY <1>1, <1>2 DEF IsEdit, Restore
<1>5. PICK a \in Seq(Characters), z \in Seq(Characters) :
        Around(lf, a, p.old, z) /\ Around(Apply(lf, wanted), a, p.new, z)
  BY <1>4, ApplyOne
<1>6. p.old \in Seq(Characters) /\ p.new \in Seq(Characters) /\ p.old # <<>>
  BY PairsAre
<1>7. /\ Around(text, Restore(crlf, a), Restore(crlf, p.old), Restore(crlf, z))
      /\ Around(result, Restore(crlf, a), Restore(crlf, p.new), Restore(crlf, z))
  BY <1>3, <1>4, <1>5, <1>6, RestoreAround
<1>8. /\ Restore(crlf, a) \in Seq(Characters) /\ Restore(crlf, z) \in Seq(Characters)
      /\ Restore(crlf, p.old) \in Seq(Characters) /\ Restore(crlf, p.new) \in Seq(Characters)
      /\ Len(Restore(crlf, p.old)) \in Nat \ {0}
  BY <1>5, <1>6, RestoreIs, RestoreSome
<1>9. PICK old, new : old = Olds(IsCrlf(text), wanted) /\ new = News(IsCrlf(text), wanted)
  OBVIOUS
<1>10. DOMAIN old = {1} /\ old[1] = Restore(crlf, p.old) /\ new[1] = Restore(crlf, p.new)
  <2>1. DOMAIN wanted = {1} /\ wanted[1] = p
    OBVIOUS
  <2> HIDE DEF wanted
  <2> QED
    BY <1>1, <1>9, <2>1 DEF Olds, News, Restore
<1>11. PICK b \in Seq(Characters), x \in Seq(Characters), c \in Seq(Characters), u \in Seq(Characters) :
         b = Restore(crlf, a) /\ x = Restore(crlf, p.old) /\ c = Restore(crlf, z) /\ u = Restore(crlf, p.new)
  BY <1>8
<1>12. /\ Around(text, b, x, c) /\ Around(result, b, u, c) /\ Len(x) \in Nat \ {0}
       /\ DOMAIN old = {1} /\ old[1] = x /\ new[1] = u
  BY <1>7, <1>8, <1>10, <1>11
<1>13. IsLocal(text, result, old, new)
  BY <1>12, LocalOne
<1> QED
  BY <1>9, <1>13

\* What the two pairs of an edit ask, in the order of the file.
LEMMA EditInOrder ==
    ASSUME NEW text \in Seq(Characters), NEW p \in Pairs, NEW q \in Pairs, NEW result,
           NEW lf \in Seq(Characters), NEW out, NEW crlf \in BOOLEAN,
           Restore(crlf, lf) = text, Restore(crlf, out) = result,
           NEW a \in Seq(Characters), NEW m \in Seq(Characters), NEW z \in Seq(Characters),
           Both(lf, a, p.old, m, q.old, z), Both(out, a, p.new, m, q.new, z),
           NEW l, NEW r, NEW old, NEW new,
           AreTexts(old, l, r, Restore(crlf, p.old), Restore(crlf, q.old)),
           AreTexts(new, l, r, Restore(crlf, p.new), Restore(crlf, q.new))
    PROVE  IsLocal(text, result, old, new)
<1>1. /\ p.old \in Seq(Characters) /\ p.new \in Seq(Characters) /\ p.old # <<>>
      /\ q.old \in Seq(Characters) /\ q.new \in Seq(Characters) /\ q.old # <<>>
  BY PairsAre
<1>2. /\ Both(text, Restore(crlf, a), Restore(crlf, p.old), Restore(crlf, m),
              Restore(crlf, q.old), Restore(crlf, z))
      /\ Both(result, Restore(crlf, a), Restore(crlf, p.new), Restore(crlf, m),
              Restore(crlf, q.new), Restore(crlf, z))
  BY <1>1, RestoreBoth
<1>3. /\ Restore(crlf, a) \in Seq(Characters) /\ Restore(crlf, z) \in Seq(Characters)
      /\ Restore(crlf, m) \in Seq(Characters)
      /\ Restore(crlf, p.old) \in Seq(Characters) /\ Restore(crlf, p.new) \in Seq(Characters)
      /\ Restore(crlf, q.old) \in Seq(Characters) /\ Restore(crlf, q.new) \in Seq(Characters)
  BY <1>1, RestoreIs
<1>4. Len(Restore(crlf, p.old)) # 0 /\ Len(Restore(crlf, q.old)) # 0
  BY <1>1, RestoreSome
<1>5. PICK b \in Seq(Characters), x \in Seq(Characters), d \in Seq(Characters),
           y \in Seq(Characters), c \in Seq(Characters), u \in Seq(Characters), v \in Seq(Characters) :
        /\ b = Restore(crlf, a) /\ x = Restore(crlf, p.old) /\ d = Restore(crlf, m)
        /\ y = Restore(crlf, q.old) /\ c = Restore(crlf, z)
        /\ u = Restore(crlf, p.new) /\ v = Restore(crlf, q.new)
  BY <1>3
<1>6. /\ Both(text, b, x, d, y, c) /\ Both(result, b, u, d, v, c)
      /\ Len(x) # 0 /\ Len(y) # 0
      /\ AreTexts(old, l, r, x, y) /\ AreTexts(new, l, r, u, v)
  BY <1>2, <1>4, <1>5
<1> QED
  BY <1>6, LocalTwo

\* An edit of two pairs changes their texts and nothing else.
LEMMA EditTwo ==
    ASSUME NEW text \in Seq(Characters), NEW p \in Pairs, NEW q \in Pairs,
           NEW result, IsEdit(text, <<p, q>>, result)
    PROVE  IsLocal(text, result, Olds(IsCrlf(text), <<p, q>>), News(IsCrlf(text), <<p, q>>))
<1> DEFINE wanted == <<p, q>>
<1>1. PICK crlf \in BOOLEAN : crlf <=> IsCrlf(text)
  BY IsCrlfIs
<1>2. PICK lf \in Seq(Characters) : lf = ToLf(text)
  BY ToLfIs
<1>3. Restore(crlf, lf) = text
  <2>1. Restore(IsCrlf(text), ToLf(text)) = text
    BY RestoreUndoes
  <2> QED
    BY <1>1, <1>2, <2>1 DEF Restore
<1>4. Restore(crlf, Apply(lf, wanted)) = result /\ IsAccepted(lf, wanted)
  BY <1>1, <1>2 DEF IsEdit, Restore
<1>5. PICK a \in Seq(Characters), m \in Seq(Characters), z \in Seq(Characters) :
        \/ /\ Both(lf, a, p.old, m, q.old, z)
           /\ Both(Apply(lf, wanted), a, p.new, m, q.new, z)
        \/ /\ Both(lf, a, q.old, m, p.old, z)
           /\ Both(Apply(lf, wanted), a, q.new, m, p.new, z)
  BY <1>4, ApplyPair
<1>6. PICK old, new : old = Olds(IsCrlf(text), wanted) /\ new = News(IsCrlf(text), wanted)
  OBVIOUS
<1>7. /\ DOMAIN old = {1, 2} /\ DOMAIN new = {1, 2} /\ 1 # 2
      /\ old[1] = Restore(crlf, p.old) /\ new[1] = Restore(crlf, p.new)
      /\ old[2] = Restore(crlf, q.old) /\ new[2] = Restore(crlf, q.new)
  <2>1. DOMAIN wanted = {1, 2} /\ wanted[1] = p /\ wanted[2] = q
    OBVIOUS
  <2>2. \A w : Restore(IsCrlf(text), w) = Restore(crlf, w)
    BY <1>1 DEF Restore
  <2>3. /\ old = [k \in {1, 2} |-> Restore(crlf, wanted[k].old)]
        /\ new = [k \in {1, 2} |-> Restore(crlf, wanted[k].new)]
    <3> HIDE DEF wanted
    <3> QED
      BY <1>6, <2>1, <2>2 DEF Olds, News
  <2> HIDE DEF wanted
  <2> QED
    BY <2>1, <2>3
<1>8. PICK one, two : one = 1 /\ two = 2
  OBVIOUS
<1>9. /\ AreTexts(old, one, two, Restore(crlf, p.old), Restore(crlf, q.old))
      /\ AreTexts(new, one, two, Restore(crlf, p.new), Restore(crlf, q.new))
      /\ AreTexts(old, two, one, Restore(crlf, q.old), Restore(crlf, p.old))
      /\ AreTexts(new, two, one, Restore(crlf, q.new), Restore(crlf, p.new))
  BY <1>7, <1>8 DEF AreTexts
<1>10. PICK out : out = Apply(lf, wanted)
  OBVIOUS
<1>11. IsLocal(text, result, old, new)
  <2>1. CASE Both(lf, a, p.old, m, q.old, z) /\ Both(out, a, p.new, m, q.new, z)
    BY <1>3, <1>4, <1>9, <1>10, <2>1, EditInOrder
  <2>2. CASE Both(lf, a, q.old, m, p.old, z) /\ Both(out, a, q.new, m, p.new, z)
    BY <1>3, <1>4, <1>9, <1>10, <2>2, EditInOrder
  <2> QED
    BY <1>5, <1>10, <2>1, <2>2
<1> QED
  BY <1>6, <1>11

(* An edit that was answered changed the texts it named, in the line endings of
   the file, and no other byte of it (edit.rs, replace.rs). *)
THEOREM EditsAreLocal == FileSpec => []EditIsLocal
<1>1. ASSUME FileInv, pc = "done", pairs # <<>>, ~raced
      PROVE  IsLocal(before, disk, Olds(IsCrlf(before), pairs), News(IsCrlf(before), pairs))
  <2>1. before \in Seq(Characters) /\ IsEdit(before, pairs, updated) /\ disk = updated
    BY <1>1 DEF FileInv, Undisturbed
  <2>2. CASE \E p \in Pairs : pairs = <<p>>
    BY <2>1, <2>2, EditOne
  <2>3. CASE \E p, q \in Pairs : pairs = <<p, q>>
    BY <2>1, <2>3, EditTwo
  <2> QED
    BY <2>1, <2>2, <2>3 DEF IsEdit, IsAsked
<1>2. ASSUME FileInv
      PROVE  EditIsLocal
  <2> SUFFICES ASSUME pc = "done", pairs # <<>>, ~raced
               PROVE  LET crlf == IsCrlf(before)
                          old == [k \in DOMAIN pairs |-> Restore(crlf, pairs[k].old)]
                          new == [k \in DOMAIN pairs |-> Restore(crlf, pairs[k].new)]
                      IN  \E at \in [DOMAIN pairs -> DOMAIN before] :
                              /\ \A k \in DOMAIN pairs : at[k] \in Places(before, old[k])
                              /\ \A j, k \in DOMAIN pairs :
                                   j # k => at[k] \notin at[j]..(at[j] + Len(old[j]) - 1)
                              /\ disk = Spliced(before, at, old, new)
    BY DEF EditIsLocal
  <2> DEFINE old == Olds(IsCrlf(before), pairs)
             new == News(IsCrlf(before), pairs)
  <2>1. IsLocal(before, disk, old, new) /\ DOMAIN old = DOMAIN pairs
    BY <1>1, <1>2 DEF Olds
  <2>2. \E at \in [DOMAIN pairs -> DOMAIN before] :
           /\ \A k \in DOMAIN pairs : at[k] \in Places(before, old[k])
           /\ \A j, k \in DOMAIN pairs : j # k => at[k] \notin at[j]..(at[j] + Len(old[j]) - 1)
           /\ disk = Spliced(before, at, old, new)
    <3> HIDE DEF old, new
    <3> QED
      BY <2>1 DEF IsLocal
  <2> QED
    BY <2>2 DEF Olds, News
<1>3. FileInv => EditIsLocal
  BY <1>2
<1> QED
  BY <1>3, FileInvHolds, PTL

-----------------------------------------------------------------------------
(* The searches.                                                           *)

\* A function that takes the steps of another, from z.
IsWalk(walk, S, step, z, n) ==
    /\ walk \in [0 .. n -> S] /\ walk[0] = z
    /\ \A i \in 1 .. n : walk[i] = step[<<walk[i - 1], i>>]

\* One step more of a walk.
LEMMA WalkGrows ==
    ASSUME NEW S, NEW N \in Nat, NEW step \in [S \X (1 .. N) -> S], NEW z \in S,
           NEW n \in Nat, n + 1 <= N, NEW walk, IsWalk(walk, S, step, z, n)
    PROVE  \E further : IsWalk(further, S, step, z, n + 1)
<1> DEFINE last == step[<<walk[n], n + 1>>]
           further == [i \in 0 .. (n + 1) |-> IF i = n + 1 THEN last ELSE walk[i]]
<1>1. walk \in [0 .. n -> S] /\ n \in 0 .. n
  BY DEF IsWalk
<1>2. last \in S
  <2>1. <<walk[n], n + 1>> \in S \X (1 .. N)
    BY <1>1
  <2> QED
    BY <2>1
<1>3. further \in [0 .. (n + 1) -> S]
  <2>1. \A i \in 0 .. (n + 1) : i # n + 1 => i \in 0 .. n
    OBVIOUS
  <2> QED
    BY <1>1, <1>2, <2>1
<1>4. further[0] = z
  <2>1. 0 \in 0 .. (n + 1) /\ 0 # n + 1
    OBVIOUS
  <2> QED
    BY <2>1 DEF IsWalk
<1>5. ASSUME NEW i \in 1 .. (n + 1)
      PROVE  further[i] = step[<<further[i - 1], i>>]
  <2>1. i - 1 \in 0 .. (n + 1) /\ i - 1 # n + 1 /\ i \in 0 .. (n + 1)
    BY <1>5
  <2>2. further[i - 1] = walk[i - 1]
    BY <2>1
  <2>3. CASE i = n + 1
    BY <2>1, <2>2, <2>3
  <2>4. CASE i # n + 1
    <3>1. i \in 1 .. n
      BY <1>5, <2>4
    <3>2. further[i] = walk[i]
      BY <2>1, <2>4
    <3> QED
      BY <2>2, <3>1, <3>2 DEF IsWalk
  <2> QED
    BY <2>3, <2>4
<1> HIDE DEF further, last
<1> QED
  BY <1>3, <1>4, <1>5 DEF IsWalk

\* There is a walk of any length.
LEMMA WalkExists ==
    ASSUME NEW S, NEW N \in Nat, NEW step \in [S \X (1 .. N) -> S], NEW z \in S
    PROVE  \E walk : IsWalk(walk, S, step, z, N)
<1> DEFINE Made(n) == \E walk : IsWalk(walk, S, step, z, n)
           M == {n \in Nat : n <= N => Made(n)}
<1>1. Made(0)
  <2> DEFINE walk == [i \in 0 .. 0 |-> z]
  <2>1. IsWalk(walk, S, step, z, 0)
    BY DEF IsWalk
  <2> QED
    BY <2>1
<1>2. ASSUME NEW n \in Nat, n + 1 <= N, Made(n)
      PROVE  Made(n + 1)
  BY <1>2, WalkGrows
<1> HIDE DEF Made
<1>3. 0 \in M /\ \A n \in Nat : n \in M => n + 1 \in M
  <2>1. ASSUME NEW n \in Nat, n \in M, n + 1 <= N
        PROVE  Made(n + 1)
    <3>1. n <= N
      BY <2>1
    <3> QED
      BY <1>2, <2>1, <3>1
  <2> QED
    BY <1>1, <2>1
<1>4. Nat \subseteq M
  <2> HIDE DEF M
  <2> QED
    BY <1>3, InductionOverASet
<1>5. Made(N)
  BY <1>4
<1> QED
  BY <1>5 DEF Made

\* What every step keeps within a set stays there.
LEMMA WalkStays ==
    ASSUME NEW S, NEW N \in Nat, NEW g, g[0] \in S, \A i \in 1 .. N : g[i - 1] \in S => g[i] \in S
    PROVE  \A i \in 0 .. N : g[i] \in S
<1> DEFINE M == {i \in Nat : i <= N => g[i] \in S}
<1>1. 0 \in M
  OBVIOUS
<1>2. ASSUME NEW i \in Nat, i \in M
      PROVE  i + 1 \in M
  <2>1. ASSUME i + 1 <= N
        PROVE  g[i + 1] \in S
    <3>1. i + 1 \in 1 .. N /\ (i + 1) - 1 = i /\ g[i] \in S
      BY <1>2, <2>1
    <3> QED
      BY <3>1
  <2> QED
    BY <2>1
<1>3. Nat \subseteq M
  <2> HIDE DEF M
  <2> QED
    BY <1>1, <1>2, InductionOverASet
<1> QED
  BY <1>3

-----------------------------------------------------------------------------
\* What is handed on, and what a search carries from line to line.
Entry == [file : Nat, line : Nat, kind : {"match", "context"}]

Searching == [out : Seq(Entry), hits : Nat, stop : BOOLEAN]

\* It stops when the answer is full, and not before.
IsRoom(st, cap) ==
    /\ st \in Searching /\ Len(st.out) <= cap
    /\ st.stop <=> Len(st.out) >= cap

\* One line handed on: the answer gets it if it fits.
HandsOn(st, next, e, cap) ==
    /\ IsRoom(next, cap)
    /\ Len(st.out) >= cap => next.out = st.out /\ next.hits = st.hits
    /\ Len(st.out) < cap =>
        /\ next.out = Append(st.out, e)
        /\ next.hits = IF e.kind = "match" THEN st.hits + 1 ELSE st.hits

\* A comparison is one of the two truth values.
LEMMA TruthIs == \A m, n \in Int : \E b \in BOOLEAN : b = (m >= n)
<1> SUFFICES ASSUME NEW m \in Int, NEW n \in Int
             PROVE  \E b \in BOOLEAN : b = (m >= n)
  OBVIOUS
<1>1. (m >= n) \in BOOLEAN
  OBVIOUS
<1> QED
  BY <1>1, Zenon

\* What Emit and Matched return for whatever they are given.
LEMMA EmitTypes ==
    ASSUME NEW st \in Searching, NEW e \in Entry, NEW cap \in Nat
    PROVE  Emit(st, e, cap) \in Searching /\ Matched(st, e, cap) \in Searching
<1>1. ASSUME NEW s \in Searching
      PROVE  Emit(s, e, cap) \in Searching
  <2>1. PICK t : t = TRUE
    OBVIOUS
  <2>2. t \in BOOLEAN
    BY <2>1
  <2>3. [s EXCEPT !.stop = t] \in Searching
    BY <2>2 DEF Searching
  <2>4. PICK b \in BOOLEAN : b = (Len(s.out) + 1 >= cap)
    <3>1. Len(s.out) + 1 \in Int /\ cap \in Int
      BY DEF Searching
    <3> QED
      BY <3>1, TruthIs, Zenon
  <2>5. Append(s.out, e) \in Seq(Entry)
    BY DEF Searching
  <2>6. [s EXCEPT !.out = Append(@, e), !.stop = b] \in Searching
    BY <2>4, <2>5 DEF Searching
  <2> QED
    BY <2>1, <2>3, <2>4, <2>6 DEF Emit
<1>2. [st EXCEPT !.hits = @ + 1] \in Searching
  BY DEF Searching
<1>3. [st EXCEPT !.stop = TRUE] \in Searching
  <2>1. PICK t \in BOOLEAN : t = TRUE
    OBVIOUS
  <2>2. [st EXCEPT !.stop = t] \in Searching
    BY <2>1 DEF Searching
  <2> QED
    BY <2>1, <2>2
<1> QED
  BY <1>1, <1>2, <1>3 DEF Matched

\* Emit hands on a line that is no match, Matched one that is.
LEMMA EmitHands ==
    ASSUME NEW st, NEW cap \in Nat, IsRoom(st, cap), NEW e \in Entry
    PROVE  /\ e.kind = "context" => HandsOn(st, Emit(st, e, cap), e, cap)
           /\ e.kind = "match" => HandsOn(st, Matched(st, e, cap), e, cap)
<1>1. st \in Searching /\ Len(st.out) \in Nat /\ Len(st.out) <= cap /\ (st.stop <=> Len(st.out) >= cap)
  BY DEF IsRoom, Searching
<1>2. ASSUME NEW s \in Searching, s.out = st.out, s.stop = st.stop
      PROVE  /\ IsRoom(Emit(s, e, cap), cap)
             /\ Len(s.out) >= cap => Emit(s, e, cap).out = s.out
             /\ Len(s.out) < cap => Emit(s, e, cap).out = Append(s.out, e)
             /\ Emit(s, e, cap).hits = s.hits
  <2>1. Emit(s, e, cap) \in Searching
    BY EmitTypes
  <2>2. CASE Len(s.out) >= cap
    <3>1. PICK t \in BOOLEAN : t = TRUE
      OBVIOUS
    <3>2. Emit(s, e, cap) = [s EXCEPT !.stop = t]
      BY <2>2, <3>1 DEF Emit
    <3>3. /\ Emit(s, e, cap).out = s.out /\ Emit(s, e, cap).hits = s.hits
          /\ Emit(s, e, cap).stop = t
      BY <3>2 DEF Searching
    <3> QED
      BY <1>1, <1>2, <2>1, <2>2, <3>1, <3>3 DEF IsRoom
  <2>3. CASE Len(s.out) < cap
    <3>1. PICK b \in BOOLEAN : b = (Len(s.out) + 1 >= cap)
      <4>1. Len(s.out) + 1 \in Int /\ cap \in Int
        BY DEF Searching
      <4> QED
        BY <4>1, TruthIs, Zenon
    <3>2. Emit(s, e, cap) = [s EXCEPT !.out = Append(@, e), !.stop = b]
      BY <1>1, <1>2, <2>3, <3>1 DEF Emit
    <3>3. /\ Emit(s, e, cap).out = Append(s.out, e) /\ Emit(s, e, cap).hits = s.hits
          /\ Emit(s, e, cap).stop = b
      BY <3>2 DEF Searching
    <3>4. Len(Append(s.out, e)) = Len(s.out) + 1
      BY DEF Searching
    <3>5. b <=> Len(s.out) + 1 >= cap
      BY <3>1
    <3> QED
      BY <1>1, <1>2, <2>1, <2>3, <3>1, <3>3, <3>4, <3>5 DEF IsRoom
  <2> QED
    BY <1>1, <1>2, <2>2, <2>3
<1>3. ASSUME e.kind = "context"
      PROVE  HandsOn(st, Emit(st, e, cap), e, cap)
  BY <1>1, <1>2, <1>3 DEF HandsOn
<1>4. ASSUME e.kind = "match"
      PROVE  HandsOn(st, Matched(st, e, cap), e, cap)
  <2>1. CASE Len(st.out) >= cap
    <3>1. Matched(st, e, cap) = Emit(st, e, cap)
      BY <2>1 DEF Matched, Emit
    <3> QED
      BY <1>1, <1>2, <2>1, <3>1 DEF HandsOn
  <2>2. CASE Len(st.out) < cap
    <3> DEFINE s == [st EXCEPT !.hits = @ + 1]
    <3>1. s \in Searching /\ s.out = st.out /\ s.stop = st.stop /\ s.hits = st.hits + 1
      BY <1>1 DEF Searching
    <3>2. Matched(st, e, cap) = Emit(s, e, cap)
      BY <1>1, <2>2 DEF Matched
    <3> HIDE DEF s
    <3> QED
      BY <1>1, <1>2, <1>4, <2>2, <3>1, <3>2 DEF HandsOn
  <2> QED
    BY <1>1, <2>1, <2>2
<1> QED
  BY <1>3, <1>4

-----------------------------------------------------------------------------
\* Line l of file f is one to be found.
IsMatch(files, f, l) ==
    f \in DOMAIN files /\ files[f].named /\ l \in DOMAIN files[f].lines /\ files[f].lines[l]

\* What is shown as a match is one, and what is shown around it is around one.
IsTrue(files, c, e) ==
    /\ e.file \in DOMAIN files /\ e.line \in DOMAIN files[e.file].lines
    /\ e.kind = "match" => IsMatch(files, e.file, e.line)
    /\ e.kind = "context" =>
        /\ ~IsMatch(files, e.file, e.line)
        /\ \E m \in Nat : IsMatch(files, e.file, m) /\ e.line - c <= m /\ m <= e.line + c

ShowsInOrder(out) == \A k \in DOMAIN out : k + 1 \in DOMAIN out => Follows(out[k], out[k + 1])

\* Every line shown is what it is shown as, in order, and matches are counted.
IsHonest(files, c, st) ==
    /\ ShowsInOrder(st.out)
    /\ \A k \in DOMAIN st.out : IsTrue(files, c, st.out[k])
    /\ st.hits = 0 <=> \A k \in DOMAIN st.out : st.out[k].kind # "match"

\* Everything shown comes before a line.
IsAfter(out, e) == \A k \in DOMAIN out : Follows(out[k], e)

\* An honest answer to which a true line is handed, later than its lines, is one still.
LEMMA HandedHonestly ==
    ASSUME NEW cap \in Nat, NEW c \in Nat, NEW e \in Entry, NEW st \in Searching, NEW next \in Searching,
           NEW files, HandsOn(st, next, e, cap), IsHonest(files, c, st),
           IsTrue(files, c, e), IsAfter(st.out, e)
    PROVE  IsHonest(files, c, next)
<1> DEFINE n == Len(st.out)
<1>1. st.out \in Seq(Entry) /\ n \in Nat /\ DOMAIN st.out = 1 .. n /\ st.hits \in Nat
  BY DEF Searching
<1>2. CASE n >= cap
  <2>1. next.out = st.out /\ next.hits = st.hits
    BY <1>2 DEF HandsOn
  <2> QED
    BY <2>1 DEF IsHonest
<1>3. CASE n < cap
  <2>1. /\ next.out = Append(st.out, e)
        /\ next.hits = IF e.kind = "match" THEN st.hits + 1 ELSE st.hits
    BY <1>3 DEF HandsOn
  <2>2. DOMAIN next.out = 1 .. (n + 1) /\ next.out[n + 1] = e /\ \A k \in 1 .. n : next.out[k] = st.out[k]
    BY <1>1, <2>1
  <2> HIDE DEF n
  <2>3. ShowsInOrder(next.out)
    <3> SUFFICES ASSUME NEW k \in 1 .. (n + 1), k + 1 \in 1 .. (n + 1)
                 PROVE  Follows(next.out[k], next.out[k + 1])
      BY <2>2 DEF ShowsInOrder
    <3>1. k \in 1 .. n
      BY <1>1
    <3>2. CASE k = n
      BY <1>1, <2>2, <3>1, <3>2 DEF IsAfter
    <3>3. CASE k # n
      <4>1. k + 1 \in 1 .. n
        BY <1>1, <3>1, <3>3
      <4> QED
        BY <1>1, <2>2, <3>1, <4>1 DEF IsHonest, ShowsInOrder
    <3> QED
      BY <3>2, <3>3
  <2>4. ASSUME NEW k \in 1 .. (n + 1)
        PROVE  IsTrue(files, c, next.out[k])
    <3>1. CASE k = n + 1
      BY <2>2, <3>1
    <3>2. CASE k # n + 1
      <4>1. k \in 1 .. n
        BY <1>1, <3>2
      <4> QED
        BY <1>1, <2>2, <4>1 DEF IsHonest
    <3> QED
      BY <3>1, <3>2
  <2>5. next.hits = 0 <=> \A k \in 1 .. (n + 1) : next.out[k].kind # "match"
    <3>1. 1 .. (n + 1) = (1 .. n) \cup {n + 1}
      BY <1>1
    <3>2. (\A k \in 1 .. (n + 1) : next.out[k].kind # "match")
             <=> (e.kind # "match" /\ \A k \in 1 .. n : st.out[k].kind # "match")
      BY <2>2, <3>1
    <3>3. st.hits = 0 <=> \A k \in 1 .. n : st.out[k].kind # "match"
      BY <1>1 DEF IsHonest
    <3>4. next.hits = 0 <=> (e.kind # "match" /\ st.hits = 0)
      BY <1>1, <2>1
    <3> QED
      BY <3>2, <3>3, <3>4
  <2> QED
    BY <2>2, <2>3, <2>4, <2>5 DEF IsHonest
<1> QED
  BY <1>1, <1>2, <1>3

-----------------------------------------------------------------------------
\* Where an answer is when the lines of file f up to j were gone through, and
\* those of the files before it.

\* The matches so far that an answer with room for them shows.
ShowsMatches(files, cap, st, f, j) ==
    Len(st.out) < cap =>
        \A g, l \in Nat : IsMatch(files, g, l) /\ (g < f \/ (g = f /\ l <= j)) =>
            \E k \in DOMAIN st.out : st.out[k] = Handing(g, l, "match")

\* As long as nothing matches nothing is shown.
ShowsNothing(c, cap, st) == c < cap /\ st.hits = 0 => st.out = <<>>

\* Lines shown of file f are near a match already seen.
IsNear(files, c, f, j, e) == MatchIn(files[f].lines, e.line - c, j)

IsUpto(files, c, st, f, j) ==
    \A k \in DOMAIN st.out :
        \/ st.out[k].file < f
        \/ st.out[k].file = f /\ st.out[k].line <= j /\ IsNear(files, c, f, j, st.out[k])

IsAtLine(files, c, cap, st, f, j) ==
    /\ IsRoom(st, cap) /\ IsHonest(files, c, st)
    /\ IsUpto(files, c, st, f, j)
    /\ ShowsMatches(files, cap, st, f, j)
    /\ ShowsNothing(c, cap, st)

\* Where it is before the match at line i, its context handed on up to line j.
IsBelow(files, c, st, f, i, j) ==
    \A k \in DOMAIN st.out :
        \/ st.out[k].file < f
        \/ /\ st.out[k].file = f /\ st.out[k].line < i /\ IsNear(files, c, f, i, st.out[k])
           /\ \A b \in Before(files[f].lines, c, i) : b > j => st.out[k].line < b

LedAtMost(c, cap, st, i, j) ==
    c < cap /\ st.hits = 0 => Len(st.out) <= IF j + c < i THEN 0 ELSE j + c + 1 - i

IsLeading(files, c, cap, st, f, i, j) ==
    /\ IsRoom(st, cap) /\ IsHonest(files, c, st)
    /\ IsBelow(files, c, st, f, i, j)
    /\ ShowsMatches(files, cap, st, f, i - 1)
    /\ LedAtMost(c, cap, st, i, j)

\* Files as the model has them.
AreFiles(files) == files \in Seq([lines : Seq(BOOLEAN), named : BOOLEAN])

\* A file that is searched, and one of its lines.
IsHere(files, f, i) ==
    f \in DOMAIN files /\ files[f].named /\ i \in DOMAIN files[f].lines

\* A line handed on leaves the matches shown that were.
LEMMA StillShown ==
    ASSUME NEW cap \in Nat, NEW f \in Nat, NEW j \in Int, NEW e \in Entry, NEW st \in Searching,
           NEW next \in Searching, NEW files, HandsOn(st, next, e, cap), ShowsMatches(files, cap, st, f, j)
    PROVE  ShowsMatches(files, cap, next, f, j)
<1> SUFFICES ASSUME Len(next.out) < cap, NEW g \in Nat, NEW l \in Nat, IsMatch(files, g, l),
                    g < f \/ (g = f /\ l <= j)
             PROVE  \E k \in DOMAIN next.out : next.out[k] = Handing(g, l, "match")
  BY DEF ShowsMatches
<1>1. st.out \in Seq(Entry)
  BY DEF Searching
<1>2. Len(st.out) < cap
  <2>1. CASE Len(st.out) >= cap
    <3>1. next.out = st.out
      BY <2>1 DEF HandsOn
    <3> QED
      BY <3>1
  <2> QED
    BY <1>1, <2>1
<1>3. next.out = Append(st.out, e)
  BY <1>2 DEF HandsOn
<1>4. PICK k \in DOMAIN st.out : st.out[k] = Handing(g, l, "match")
  BY <1>2 DEF ShowsMatches
<1>5. k \in DOMAIN next.out /\ next.out[k] = st.out[k]
  BY <1>1, <1>3
<1> QED
  BY <1>4, <1>5

-----------------------------------------------------------------------------
\* What each line of the context does to the answer.
LedOn(st, f, lines, c, i, cap, j) ==
    IF j \in Before(lines, c, i) THEN Emit(st, Handing(f, j, "context"), cap) ELSE st

\* The function Led is the end of.
IsLed(led, st, f, lines, c, i, cap) ==
    led = [j \in 0 .. (i - 1) |-> IF j = 0 THEN st ELSE LedOn(led[j - 1], f, lines, c, i, cap, j)]

\* A function that goes through the context of a match, and ends so.
LeadsTo(led, st, f, lines, c, i, cap, end) ==
    /\ led[0] = st /\ end = led[i - 1] /\ end \in Searching
    /\ \A j \in 1 .. (i - 1) : led[j] = LedOn(led[j - 1], f, lines, c, i, cap, j)

\* A line handed on is one.
LEMMA HandingIs ==
    ASSUME NEW f \in Nat, NEW i \in Nat, NEW kind \in {"match", "context"}
    PROVE  /\ Handing(f, i, kind) \in Entry /\ Handing(f, i, kind).file = f
           /\ Handing(f, i, kind).line = i /\ Handing(f, i, kind).kind = kind
  BY DEF Handing, Entry

\* Led goes through the lines before a match one by one.
LEMMA LedIs ==
    ASSUME NEW f \in Nat, NEW i \in Nat, NEW cap \in Nat, NEW st \in Searching, NEW lines, NEW c, i # 0
    PROVE  \E led : LeadsTo(led, st, f, lines, c, i, cap, Led(st, f, lines, c, i, cap))
<1> DEFINE chosen == CHOOSE led : IsLed(led, st, f, lines, c, i, cap)
           step == [x \in Searching \X (1 .. (i - 1)) |-> LedOn(x[1], f, lines, c, i, cap, x[2])]
<1>1. Led(st, f, lines, c, i, cap) = chosen[i - 1]
  BY DEF Led, IsLed, LedOn
<1>2. ASSUME NEW s \in Searching, NEW j \in 1 .. (i - 1)
      PROVE  LedOn(s, f, lines, c, i, cap, j) \in Searching
  BY HandingIs, EmitTypes DEF LedOn
<1>3. step \in [Searching \X (1 .. (i - 1)) -> Searching]
  BY <1>2
<1>4. ASSUME NEW s \in Searching, NEW j \in 1 .. (i - 1)
      PROVE  step[<<s, j>>] = LedOn(s, f, lines, c, i, cap, j)
  OBVIOUS
<1> HIDE DEF step
<1>5. PICK walk : IsWalk(walk, Searching, step, st, i - 1)
  <2>1. i - 1 \in Nat
    OBVIOUS
  <2> QED
    BY <1>3, <2>1, WalkExists
<1>6. IsLed(walk, st, f, lines, c, i, cap)
  <2>1. ASSUME NEW j \in 0 .. (i - 1)
        PROVE  walk[j] = IF j = 0 THEN st ELSE LedOn(walk[j - 1], f, lines, c, i, cap, j)
    <3>1. CASE j = 0
      BY <1>5, <3>1 DEF IsWalk
    <3>2. CASE j # 0
      <4>1. j \in 1 .. (i - 1) /\ j - 1 \in 0 .. (i - 1)
        BY <3>2
      <4> QED
        BY <1>4, <1>5, <3>2, <4>1 DEF IsWalk
    <3> QED
      BY <3>1, <3>2
  <2>2. walk = [j \in 0 .. (i - 1) |-> walk[j]]
    BY <1>5 DEF IsWalk
  <2> QED
    BY <2>1, <2>2 DEF IsLed
<1>7. IsLed(chosen, st, f, lines, c, i, cap)
  BY <1>6
<1> HIDE DEF chosen
<1>8. \A j \in 0 .. (i - 1) :
          chosen[j] = IF j = 0 THEN st ELSE LedOn(chosen[j - 1], f, lines, c, i, cap, j)
  BY <1>7 DEF IsLed
<1>9. chosen[0] = st /\ \A j \in 1 .. (i - 1) : chosen[j] = LedOn(chosen[j - 1], f, lines, c, i, cap, j)
  BY <1>8
<1>10. \A j \in 0 .. (i - 1) : chosen[j] \in Searching
  <2>1. \A j \in 1 .. (i - 1) : chosen[j - 1] \in Searching => chosen[j] \in Searching
    BY <1>2, <1>9
  <2>2. i - 1 \in Nat /\ chosen[0] \in Searching
    BY <1>9
  <2> QED
    BY <2>1, <2>2, WalkStays
<1>11. chosen[i - 1] \in Searching
  <2>1. i - 1 \in 0 .. (i - 1)
    OBVIOUS
  <2> QED
    BY <1>10, <2>1
<1> QED
  BY <1>1, <1>9, <1>11 DEF LeadsTo

-----------------------------------------------------------------------------
\* A match seen by a line is seen by a later one, and from further before.
LEMMA SeenLater ==
    ASSUME NEW lines, NEW a \in Int, NEW b \in Int, NEW i \in Nat, NEW j \in Nat,
           b <= a, i <= j, MatchIn(lines, a, i)
    PROVE  MatchIn(lines, b, j)
<1>1. PICK m \in 1 .. i : a <= m /\ lines[m]
  BY DEF MatchIn
<1>2. m \in 1 .. j /\ b <= m
  BY <1>1
<1> QED
  BY <1>1, <1>2 DEF MatchIn

\* An entry is known by two numbers.
LEMMA EntriesAre ==
    ASSUME NEW out \in Seq(Entry), NEW k \in DOMAIN out
    PROVE  out[k] \in Entry /\ out[k].file \in Nat /\ out[k].line \in Nat
<1>1. out[k] \in Entry
  OBVIOUS
<1> QED
  BY <1>1 DEF Entry

\* A line that is searched is one of those of a file.
LEMMA HereIs ==
    ASSUME NEW files, AreFiles(files), NEW f, NEW i, IsHere(files, f, i)
    PROVE  /\ f \in DOMAIN files /\ f \in Nat /\ files[f].named
           /\ files[f].lines \in Seq(BOOLEAN) /\ i \in DOMAIN files[f].lines
           /\ i \in Nat /\ i - 1 \in Nat
<1>1. f \in DOMAIN files /\ files[f].named /\ i \in DOMAIN files[f].lines
  BY DEF IsHere
<1>2. files \in Seq([lines : Seq(BOOLEAN), named : BOOLEAN])
  BY DEF AreFiles
<1>3. files[f] \in [lines : Seq(BOOLEAN), named : BOOLEAN] /\ f \in Nat
  <2>1. ASSUME NEW T, files \in Seq(T)
        PROVE  files[f] \in T /\ f \in Nat
    BY <1>1, <2>1
  <2> QED
    BY <1>2, <2>1
<1>4. files[f].lines \in Seq(BOOLEAN)
  BY <1>3
<1>5. i \in Nat /\ i - 1 \in Nat
  BY <1>1, <1>4
<1> QED
  BY <1>1, <1>3, <1>4, <1>5

\* The context of a match that is still to be handed comes after all that is shown.
LEMMA ContextIsLater ==
    ASSUME NEW c \in Nat, NEW cap \in Nat, NEW f \in Nat, NEW i \in Nat, NEW files, AreFiles(files),
           IsHere(files, f, i), NEW st, IsAtLine(files, c, cap, st, f, i - 1),
           files[f].lines[i]
    PROVE  IsLeading(files, c, cap, st, f, i, 0)
<1> DEFINE lines == files[f].lines
<1>1. i - 1 \in Nat
  BY HereIs
<1>2. st \in Searching /\ st.out \in Seq(Entry)
  BY DEF IsAtLine, IsRoom, Searching
<1>3. IsUpto(files, c, st, f, i - 1) /\ ShowsNothing(c, cap, st)
  BY DEF IsAtLine
<1>4. ASSUME NEW k \in DOMAIN st.out, ~(st.out[k].file < f)
      PROVE  /\ st.out[k].file = f /\ st.out[k].line < i /\ IsNear(files, c, f, i, st.out[k])
             /\ \A b \in Before(lines, c, i) : b > 0 => st.out[k].line < b
  <2>1. st.out[k].file = f /\ st.out[k].line <= i - 1 /\ IsNear(files, c, f, i - 1, st.out[k])
    BY <1>3, <1>4 DEF IsUpto
  <2>2. st.out[k].line \in Nat
    BY <1>2, EntriesAre
  <2>3. MatchIn(lines, st.out[k].line - c, i - 1)
    BY <2>1 DEF IsNear
  <2> HIDE DEF lines
  <2>4. MatchIn(lines, st.out[k].line - c, i)
    BY <1>1, <2>2, <2>3, SeenLater
  <2>5. ASSUME NEW b \in Before(lines, c, i), ~(st.out[k].line < b)
        PROVE  FALSE
    <3>1. b \in 1 .. (i - 1) /\ ~MatchIn(lines, b - c, i - 1)
      BY DEF Before
    <3>2. b - c <= st.out[k].line - c
      BY <2>2, <2>5, <3>1
    <3>3. MatchIn(lines, b - c, i - 1)
      BY <1>1, <2>2, <2>3, <3>1, <3>2, SeenLater
    <3> QED
      BY <3>1, <3>3
  <2> QED
    BY <1>1, <2>1, <2>2, <2>4, <2>5 DEF IsNear, lines
<1>5. IsBelow(files, c, st, f, i, 0)
  BY <1>4 DEF IsBelow
<1>6. LedAtMost(c, cap, st, i, 0)
  <2>1. ASSUME c < cap, st.hits = 0
        PROVE  Len(st.out) = 0
    BY <1>3, <2>1 DEF ShowsNothing
  <2>2. 0 <= IF 0 + c < i THEN 0 ELSE 0 + c + 1 - i
    OBVIOUS
  <2> QED
    BY <2>1, <2>2 DEF LedAtMost
<1> QED
  BY <1>5, <1>6 DEF IsAtLine, IsLeading

\* The context before a match is handed line by line.
LEMMA LedGrows ==
    ASSUME NEW c \in Nat, NEW cap \in Nat, NEW f \in Nat, NEW i \in Nat, NEW j \in Nat,
           NEW files, AreFiles(files), IsHere(files, f, i), files[f].lines[i], j + 1 < i,
           NEW st, IsLeading(files, c, cap, st, f, i, j)
    PROVE  IsLeading(files, c, cap, LedOn(st, f, files[f].lines, c, i, cap, j + 1), f, i, j + 1)
<1> DEFINE lines == files[f].lines
           e == Handing(f, j + 1, "context")
           next == LedOn(st, f, lines, c, i, cap, j + 1)
<1>1. st \in Searching /\ st.out \in Seq(Entry) /\ Len(st.out) \in Nat /\ st.hits \in Nat
  BY DEF IsLeading, IsRoom, Searching
<1>2. /\ IsRoom(st, cap) /\ IsHonest(files, c, st) /\ IsBelow(files, c, st, f, i, j)
      /\ ShowsMatches(files, cap, st, f, i - 1) /\ LedAtMost(c, cap, st, i, j)
  BY DEF IsLeading
<1>3. CASE j + 1 \notin Before(lines, c, i)
  <2>1. next = st
    BY <1>3 DEF LedOn
  <2>2. IsBelow(files, c, st, f, i, j + 1)
    <3>1. \A b \in Before(lines, c, i) : b \in Nat /\ (b > j + 1 => b > j)
      BY DEF Before
    <3> QED
      BY <1>2, <3>1 DEF IsBelow
  <2>3. LedAtMost(c, cap, st, i, j + 1)
    <3>1. (IF j + c < i THEN 0 ELSE j + c + 1 - i) <= (IF (j + 1) + c < i THEN 0 ELSE (j + 1) + c + 1 - i)
      OBVIOUS
    <3> QED
      BY <1>1, <1>2, <3>1 DEF LedAtMost
  <2> QED
    BY <1>2, <2>1, <2>2, <2>3 DEF IsLeading
<1>4. CASE j + 1 \in Before(lines, c, i)
  <2>1. /\ j + 1 \in 1 .. (i - 1) /\ i - c <= j + 1
        /\ ~MatchIn(lines, (j + 1) - c, i - 1)
    BY <1>4 DEF Before
  <2>2. e \in Entry /\ e.file = f /\ e.line = j + 1 /\ e.kind = "context"
    BY HandingIs, SMTT(30)
  <2>3. next = Emit(st, e, cap)
    BY <1>4 DEF LedOn
  <2> HIDE DEF e, next
  <2>4. HandsOn(st, next, e, cap)
    BY <1>2, <2>2, <2>3, EmitHands
  <2>5. next \in Searching /\ IsRoom(next, cap)
    BY <2>4 DEF HandsOn, IsRoom
  <2>6. f \in DOMAIN files /\ files[f].named /\ lines \in Seq(BOOLEAN) /\ i \in DOMAIN lines /\ lines[i]
    BY HereIs
  <2> HIDE DEF lines
  <2>7. j + 1 \in DOMAIN lines /\ ~lines[j + 1]
    <3>1. lines[j + 1] => MatchIn(lines, (j + 1) - c, i - 1)
      <4>1. (j + 1) - c <= j + 1
        OBVIOUS
      <4> QED
        BY <2>1, <4>1 DEF MatchIn
    <3> QED
      BY <2>1, <2>6, <3>1
  <2>8. IsTrue(files, c, e)
    <3>1. ~IsMatch(files, f, j + 1)
      BY <2>7 DEF IsMatch, lines
    <3>2. IsMatch(files, f, i) /\ i \in Nat /\ (j + 1) - c <= i /\ i <= (j + 1) + c
      BY <2>1, <2>6 DEF IsMatch, lines
    <3> QED
      BY <2>2, <2>6, <2>7, <3>1, <3>2 DEF IsTrue, lines
  <2>9. IsAfter(st.out, e)
    <3> SUFFICES ASSUME NEW k \in DOMAIN st.out
                 PROVE  Follows(st.out[k], e)
      BY DEF IsAfter
    <3>1. st.out[k].file \in Nat /\ st.out[k].line \in Nat
      BY <1>1, EntriesAre
    <3>2. CASE st.out[k].file < f
      BY <2>2, <3>2 DEF Follows
    <3>3. CASE ~(st.out[k].file < f)
      <4>1. st.out[k].file = f /\ (j + 1 > j => st.out[k].line < j + 1)
        BY <1>2, <1>4, <3>3 DEF IsBelow, lines
      <4> QED
        BY <2>2, <4>1 DEF Follows
    <3> QED
      BY <3>2, <3>3
  <2>10. IsHonest(files, c, next)
    BY <1>1, <1>2, <2>2, <2>4, <2>5, <2>8, <2>9, HandedHonestly
  <2>11. ShowsMatches(files, cap, next, f, i - 1)
    <3>1. i - 1 \in Int
      OBVIOUS
    <3> QED
      BY <1>1, <1>2, <2>2, <2>4, <2>5, <3>1, StillShown
  <2>12. IsBelow(files, c, next, f, i, j + 1)
    <3>1. \A b \in Before(lines, c, i) : b \in Nat /\ (b > j + 1 => b > j)
      BY DEF Before
    <3>2. MatchIn(lines, (j + 1) - c, i)
      <4>1. i \in 1 .. i /\ (j + 1) - c <= i
        BY <2>1
      <4> QED
        BY <2>6, <4>1 DEF MatchIn
    <3>3. IsBelow(files, c, st, f, i, j + 1)
      BY <1>2, <3>1 DEF IsBelow, lines
    <3>4. CASE Len(st.out) >= cap
      <4>1. next.out = st.out
        BY <2>4, <3>4 DEF HandsOn
      <4> QED
        BY <3>3, <4>1 DEF IsBelow
    <3>5. CASE Len(st.out) < cap
      <4>1. next.out = Append(st.out, e)
        BY <2>4, <3>5 DEF HandsOn
      <4>2. /\ DOMAIN next.out = 1 .. (Len(st.out) + 1) /\ next.out[Len(st.out) + 1] = e
            /\ \A k \in DOMAIN st.out : next.out[k] = st.out[k]
        BY <1>1, <4>1
      <4>3. \A k \in DOMAIN next.out : k \in DOMAIN st.out \/ k = Len(st.out) + 1
        BY <1>1, <4>2
      <4>4. /\ e.file = f /\ e.line < i /\ IsNear(files, c, f, i, e)
            /\ \A b \in Before(lines, c, i) : b > j + 1 => e.line < b
        BY <2>2, <3>1, <3>2 DEF IsNear, lines
      <4> QED
        BY <3>3, <4>2, <4>3, <4>4 DEF IsBelow, lines
    <3> QED
      BY <1>1, <3>4, <3>5
  <2>13. LedAtMost(c, cap, next, i, j + 1)
    <3>1. Len(next.out) <= Len(st.out) + 1 /\ next.hits = st.hits
      <4>1. CASE Len(st.out) >= cap
        BY <1>1, <2>4, <4>1 DEF HandsOn
      <4>2. CASE Len(st.out) < cap
        BY <1>1, <2>2, <2>4, <4>2 DEF HandsOn
      <4> QED
        BY <1>1, <4>1, <4>2
    <3>2. (IF j + c < i THEN 0 ELSE j + c + 1 - i) + 1 <= (IF (j + 1) + c < i THEN 0 ELSE (j + 1) + c + 1 - i)
      BY <2>1
    <3>3. Len(next.out) \in Nat
      BY <2>5 DEF Searching
    <3> QED
      BY <1>1, <1>2, <3>1, <3>2, <3>3, SMTT(40) DEF LedAtMost
  <2>14. IsLeading(files, c, cap, next, f, i, j + 1)
    BY <2>5, <2>10, <2>11, <2>12, <2>13 DEF IsLeading
  <2> QED
    BY <2>14 DEF next, lines
<1> QED
  BY <1>3, <1>4

\* All the context before a match is handed on, and then the match.
LEMMA LedIsLeading ==
    ASSUME NEW c \in Nat, NEW cap \in Nat, NEW f \in Nat, NEW i \in Nat, NEW files, AreFiles(files),
           IsHere(files, f, i), NEW st, IsAtLine(files, c, cap, st, f, i - 1), files[f].lines[i]
    PROVE  IsLeading(files, c, cap, Led(st, f, files[f].lines, c, i, cap), f, i, i - 1)
<1> DEFINE lines == files[f].lines
<1>1. i # 0 /\ i - 1 \in Nat /\ st \in Searching
  BY HereIs DEF IsAtLine, IsRoom
<1>2. IsLeading(files, c, cap, st, f, i, 0)
  BY ContextIsLater
<1> HIDE DEF lines
<1>3. PICK led :
          /\ led[0] = st /\ Led(st, f, lines, c, i, cap) = led[i - 1]
          /\ \A j \in 1 .. (i - 1) : led[j] = LedOn(led[j - 1], f, lines, c, i, cap, j)
  <2>1. \E led : LeadsTo(led, st, f, lines, c, i, cap, Led(st, f, lines, c, i, cap))
    BY <1>1, LedIs
  <2> QED
    BY <2>1 DEF LeadsTo
<1> DEFINE Fits(j) == IsLeading(files, c, cap, led[j], f, i, j)
           M == {j \in Nat : j < i => Fits(j)}
<1>4. Fits(0)
  BY <1>2, <1>3
<1>5. ASSUME NEW j \in Nat, j + 1 < i, Fits(j)
      PROVE  Fits(j + 1)
  <2>1. j + 1 \in 1 .. (i - 1) /\ (j + 1) - 1 = j
    BY <1>5
  <2>2. led[j + 1] = LedOn(led[j], f, lines, c, i, cap, j + 1)
    BY <1>3, <2>1
  <2>3. IsLeading(files, c, cap, LedOn(led[j], f, lines, c, i, cap, j + 1), f, i, j + 1)
    BY <1>5, LedGrows DEF lines
  <2> QED
    BY <2>2, <2>3
<1> HIDE DEF Fits
<1>6. 0 \in M /\ \A j \in Nat : j \in M => j + 1 \in M
  <2>1. ASSUME NEW j \in Nat, j \in M, j + 1 < i
        PROVE  Fits(j + 1)
    <3>1. j < i
      BY <2>1
    <3> QED
      BY <1>5, <2>1, <3>1
  <2> QED
    BY <1>4, <2>1
<1>7. Nat \subseteq M
  <2> HIDE DEF M
  <2> QED
    BY <1>6, InductionOverASet
<1>8. Fits(i - 1)
  <2>1. i - 1 \in M /\ i - 1 < i
    BY <1>1, <1>7
  <2> QED
    BY <2>1
<1> QED
  BY <1>3, <1>8 DEF Fits, lines

\* A line near a match, true and after all that is shown, leaves the answer at that line.
LEMMA LineHanded ==
    ASSUME NEW c \in Nat, NEW cap \in Nat, NEW f \in Nat, NEW i \in Nat, NEW files,
           NEW st \in Searching, NEW next, NEW e \in Entry, HandsOn(st, next, e, cap),
           IsHonest(files, c, st), IsTrue(files, c, e), IsAfter(st.out, e),
           e.file = f, e.line = i, IsNear(files, c, f, i, e), IsUpto(files, c, st, f, i),
           ShowsMatches(files, cap, st, f, i - 1), i - 1 \in Int, IsMatch(files, f, i) => e.kind = "match",
           ShowsNothing(c, cap, next)
    PROVE  IsAtLine(files, c, cap, next, f, i)
<1>1. /\ st.out \in Seq(Entry) /\ Len(st.out) \in Nat
      /\ next \in Searching /\ IsRoom(next, cap) /\ next.out \in Seq(Entry)
  BY DEF HandsOn, IsRoom, Searching
<1>2. IsHonest(files, c, next)
  BY <1>1, HandedHonestly
<1>3. ShowsMatches(files, cap, next, f, i - 1)
  BY <1>1, StillShown
<1>4. CASE Len(st.out) >= cap
  <2>1. next.out = st.out
    BY <1>4 DEF HandsOn
  <2>2. IsUpto(files, c, next, f, i)
    BY <2>1 DEF IsUpto
  <2>3. ShowsMatches(files, cap, next, f, i)
    BY <1>1, <1>4, <2>1 DEF ShowsMatches
  <2> QED
    BY <1>1, <1>2, <2>2, <2>3 DEF IsAtLine
<1>5. CASE Len(st.out) < cap
  <2>1. next.out = Append(st.out, e)
    BY <1>5 DEF HandsOn
  <2>2. /\ DOMAIN next.out = 1 .. (Len(st.out) + 1) /\ next.out[Len(st.out) + 1] = e
        /\ Len(st.out) + 1 \in DOMAIN next.out
        /\ \A k \in DOMAIN st.out : next.out[k] = st.out[k]
    BY <1>1, <2>1
  <2>3. \A k \in DOMAIN next.out : k \in DOMAIN st.out \/ k = Len(st.out) + 1
    BY <1>1, <2>2
  <2>4. IsUpto(files, c, next, f, i)
    BY <2>2, <2>3 DEF IsUpto
  <2>5. ShowsMatches(files, cap, next, f, i)
    <3> SUFFICES ASSUME Len(next.out) < cap, NEW g \in Nat, NEW l \in Nat, IsMatch(files, g, l),
                        g < f \/ (g = f /\ l <= i)
                 PROVE  \E k \in DOMAIN next.out : next.out[k] = Handing(g, l, "match")
      BY DEF ShowsMatches
    <3>1. CASE g = f /\ l = i
      <4>1. e = Handing(g, l, "match")
        BY <3>1 DEF Entry, Handing
      <4> QED
        BY <2>2, <4>1
    <3>2. CASE ~(g = f /\ l = i)
      <4>1. g < f \/ (g = f /\ l <= i - 1)
        BY <3>2
      <4> QED
        BY <1>3, <4>1 DEF ShowsMatches
    <3> QED
      BY <3>1, <3>2
  <2> QED
    BY <1>1, <1>2, <2>4, <2>5 DEF IsAtLine
<1> QED
  BY <1>1, <1>4, <1>5

\* What one line does to the answer.
LineOn(st, f, lines, c, cap, i) ==
    IF lines[i] THEN Matched(Led(st, f, lines, c, i, cap), Handing(f, i, "match"), cap)
    ELSE IF MatchIn(lines, i - c, i - 1) THEN Emit(st, Handing(f, i, "context"), cap)
    ELSE st

\* A match is handed on after its context.
LEMMA MatchSearched ==
    ASSUME NEW c \in Nat, NEW cap \in Nat, NEW f \in Nat, NEW i \in Nat, NEW files, AreFiles(files),
           IsHere(files, f, i), files[f].lines[i], NEW st, IsAtLine(files, c, cap, st, f, i - 1)
    PROVE  IsAtLine(files, c, cap, LineOn(st, f, files[f].lines, c, cap, i), f, i)
<1> DEFINE lines == files[f].lines
           e == Handing(f, i, "match")
           led == Led(st, f, lines, c, i, cap)
           next == LineOn(st, f, lines, c, cap, i)
<1>1. IsLeading(files, c, cap, led, f, i, i - 1)
  BY LedIsLeading
<1>2. /\ f \in DOMAIN files /\ files[f].named /\ lines \in Seq(BOOLEAN)
      /\ i \in DOMAIN lines /\ i - 1 \in Nat /\ lines[i]
  BY HereIs
<1>3. next = Matched(led, e, cap)
  BY DEF LineOn
<1> HIDE DEF led, next
<1>4. e \in Entry /\ e.file = f /\ e.line = i /\ e.kind = "match"
  <2>1. e = Handing(f, i, "match")
    OBVIOUS
  <2> HIDE DEF e
  <2>2. /\ Handing(f, i, "match") \in Entry /\ Handing(f, i, "match").file = f
        /\ Handing(f, i, "match").line = i /\ Handing(f, i, "match").kind = "match"
    BY HandingIs
  <2> QED
    BY <2>1, <2>2
<1> HIDE DEF e
<1>5. /\ IsRoom(led, cap) /\ IsHonest(files, c, led) /\ IsBelow(files, c, led, f, i, i - 1)
      /\ ShowsMatches(files, cap, led, f, i - 1) /\ LedAtMost(c, cap, led, i, i - 1)
  BY <1>1 DEF IsLeading
<1>6. led \in Searching /\ led.out \in Seq(Entry) /\ Len(led.out) \in Nat /\ led.hits \in Nat
  BY <1>5 DEF IsRoom, Searching
<1>7. HandsOn(led, next, e, cap)
  BY <1>3, <1>4, <1>5, EmitHands
<1>8. IsMatch(files, f, i)
  BY <1>2 DEF IsMatch
<1>9. IsTrue(files, c, e)
  BY <1>2, <1>4, <1>8 DEF IsTrue
<1> HIDE DEF lines
<1>10. IsAfter(led.out, e)
  <2> SUFFICES ASSUME NEW k \in DOMAIN led.out
               PROVE  Follows(led.out[k], e)
    BY DEF IsAfter
  <2>1. led.out[k].file \in Nat /\ led.out[k].line \in Nat
    BY <1>6, EntriesAre
  <2> QED
    BY <1>4, <1>5, <2>1 DEF IsBelow, Follows
<1>11. IsNear(files, c, f, i, e)
  <2>1. i \in 1 .. i /\ i - c <= i
    BY <1>2
  <2> QED
    BY <1>2, <1>4, <2>1 DEF IsNear, MatchIn, lines
<1>12. IsUpto(files, c, led, f, i)
  <2> SUFFICES ASSUME NEW k \in DOMAIN led.out, ~(led.out[k].file < f)
               PROVE  led.out[k].file = f /\ led.out[k].line <= i /\ IsNear(files, c, f, i, led.out[k])
    BY DEF IsUpto
  <2>1. led.out[k].line \in Nat
    BY <1>6, EntriesAre
  <2> QED
    BY <1>5, <2>1 DEF IsBelow
<1>13. ShowsNothing(c, cap, next)
  <2>1. ASSUME c < cap, next.hits = 0
        PROVE  FALSE
    <3>1. led.hits = 0
      <4>1. CASE Len(led.out) >= cap
        BY <1>7, <2>1, <4>1 DEF HandsOn
      <4>2. CASE Len(led.out) < cap
        BY <1>4, <1>6, <1>7, <2>1, <4>2 DEF HandsOn
      <4> QED
        BY <1>6, <4>1, <4>2
    <3>2. Len(led.out) <= IF (i - 1) + c < i THEN 0 ELSE (i - 1) + c + 1 - i
      BY <1>5, <2>1, <3>1 DEF LedAtMost
    <3>3. Len(led.out) < cap
      BY <1>6, <2>1, <3>2
    <3>4. next.hits = led.hits + 1
      BY <1>4, <1>7, <3>3 DEF HandsOn
    <3> QED
      BY <2>1, <3>1, <3>4
  <2> QED
    BY <2>1 DEF ShowsNothing
<1>14. IsAtLine(files, c, cap, next, f, i)
  <2>1. i - 1 \in Int
    BY <1>2
  <2> QED
    BY <1>4, <1>5, <1>6, <1>7, <1>9, <1>10, <1>11, <1>12, <1>13, <2>1, LineHanded
<1> QED
  BY <1>14 DEF next, lines

\* A line that is no match is handed on when it is near one.
LEMMA OtherSearched ==
    ASSUME NEW c \in Nat, NEW cap \in Nat, NEW f \in Nat, NEW i \in Nat, NEW files, AreFiles(files),
           IsHere(files, f, i), ~files[f].lines[i], NEW st, IsAtLine(files, c, cap, st, f, i - 1)
    PROVE  IsAtLine(files, c, cap, LineOn(st, f, files[f].lines, c, cap, i), f, i)
<1> DEFINE lines == files[f].lines
           e == Handing(f, i, "context")
           next == LineOn(st, f, lines, c, cap, i)
<1>1. /\ IsRoom(st, cap) /\ IsHonest(files, c, st) /\ IsUpto(files, c, st, f, i - 1)
      /\ ShowsMatches(files, cap, st, f, i - 1) /\ ShowsNothing(c, cap, st)
  BY DEF IsAtLine
<1>2. /\ f \in DOMAIN files /\ files[f].named /\ lines \in Seq(BOOLEAN)
      /\ i \in DOMAIN lines /\ i - 1 \in Nat /\ ~lines[i]
  BY HereIs
<1>3. st \in Searching /\ st.out \in Seq(Entry) /\ Len(st.out) \in Nat /\ st.hits \in Nat
  BY <1>1 DEF IsRoom, Searching
<1>4. e \in Entry /\ e.file = f /\ e.line = i /\ e.kind = "context"
  BY HandingIs, SMTT(30)
<1>5. ~IsMatch(files, f, i)
  BY <1>2 DEF IsMatch
<1>6. next = IF MatchIn(lines, i - c, i - 1) THEN Emit(st, e, cap) ELSE st
  BY <1>2 DEF LineOn
<1> HIDE DEF e, next, lines
<1>7. ASSUME NEW k \in DOMAIN st.out, ~(st.out[k].file < f)
      PROVE  st.out[k].file = f /\ st.out[k].line < i /\ IsNear(files, c, f, i, st.out[k])
  <2>1. st.out[k].line \in Nat
    BY <1>3, EntriesAre
  <2>2. st.out[k].file = f /\ st.out[k].line <= i - 1 /\ MatchIn(files[f].lines, st.out[k].line - c, i - 1)
    BY <1>1, <1>7 DEF IsUpto, IsNear
  <2>3. MatchIn(files[f].lines, st.out[k].line - c, i)
    BY <1>2, <2>1, <2>2, SeenLater
  <2> QED
    BY <1>2, <2>1, <2>2, <2>3 DEF IsNear
<1>8. IsUpto(files, c, st, f, i)
  <2> SUFFICES ASSUME NEW k \in DOMAIN st.out, ~(st.out[k].file < f)
               PROVE  st.out[k].file = f /\ st.out[k].line <= i /\ IsNear(files, c, f, i, st.out[k])
    BY DEF IsUpto
  <2>1. st.out[k].line \in Nat
    BY <1>3, EntriesAre
  <2> QED
    BY <1>7, <2>1
<1>9. CASE ~MatchIn(lines, i - c, i - 1)
  <2>1. next = st
    BY <1>6, <1>9
  <2>2. ShowsMatches(files, cap, st, f, i)
    <3> SUFFICES ASSUME Len(st.out) < cap, NEW g \in Nat, NEW l \in Nat, IsMatch(files, g, l),
                        g < f \/ (g = f /\ l <= i)
                 PROVE  \E k \in DOMAIN st.out : st.out[k] = Handing(g, l, "match")
      BY DEF ShowsMatches
    <3>1. ~(g = f /\ l = i)
      BY <1>5
    <3>2. g < f \/ (g = f /\ l <= i - 1)
      BY <3>1
    <3> QED
      BY <1>1, <3>2 DEF ShowsMatches
  <2>3. IsAtLine(files, c, cap, st, f, i)
    BY <1>1, <1>8, <2>2 DEF IsAtLine
  <2> QED
    BY <2>1, <2>3 DEF next, lines
<1>10. CASE MatchIn(lines, i - c, i - 1)
  <2>1. next = Emit(st, e, cap)
    BY <1>6, <1>10
  <2>2. HandsOn(st, next, e, cap)
    BY <1>1, <1>4, <2>1, EmitHands
  <2>3. PICK m \in 1 .. (i - 1) : i - c <= m /\ lines[m]
    BY <1>10 DEF MatchIn
  <2>4. m \in Nat /\ m <= i - 1 /\ IsMatch(files, f, m)
    <3>1. m \in DOMAIN lines
      BY <1>2, <2>3
    <3> QED
      BY <1>2, <2>3, <3>1 DEF IsMatch, lines
  <2>5. IsTrue(files, c, e)
    <3>1. i - c <= m /\ m <= i + c
      BY <1>2, <2>3, <2>4
    <3> QED
      BY <1>2, <1>4, <1>5, <2>4, <3>1 DEF IsTrue, lines
  <2>6. IsAfter(st.out, e)
    <3> SUFFICES ASSUME NEW k \in DOMAIN st.out
                 PROVE  Follows(st.out[k], e)
      BY DEF IsAfter
    <3>1. st.out[k].file \in Nat /\ st.out[k].line \in Nat
      BY <1>3, EntriesAre
    <3> QED
      BY <1>4, <1>7, <3>1 DEF Follows
  <2>7. IsNear(files, c, f, i, e)
    <3>1. m \in 1 .. i
      BY <1>2, <2>3
    <3> QED
      BY <1>4, <2>3, <3>1 DEF IsNear, MatchIn, lines
  <2>8. ShowsNothing(c, cap, next)
    <3>1. ASSUME c < cap, next.hits = 0
          PROVE  FALSE
      <4>1. st.hits = 0
        <5>1. CASE Len(st.out) >= cap
          BY <2>2, <3>1, <5>1 DEF HandsOn
        <5>2. CASE Len(st.out) < cap
          BY <1>4, <2>2, <3>1, <5>2 DEF HandsOn
        <5> QED
          BY <1>3, <5>1, <5>2
      <4>2. st.out = <<>>
        BY <1>1, <3>1, <4>1 DEF ShowsNothing
      <4>3. Len(st.out) < cap /\ DOMAIN st.out = {}
        BY <3>1, <4>2
      <4> QED
        BY <1>1, <2>4, <4>3 DEF ShowsMatches
    <3> QED
      BY <3>1 DEF ShowsNothing
  <2>9. IsAtLine(files, c, cap, next, f, i)
    <3>1. i - 1 \in Int
      BY <1>2
    <3> QED
      BY <1>1, <1>3, <1>4, <1>5, <1>8, <2>2, <2>5, <2>6, <2>7, <2>8, <3>1, LineHanded
  <2> QED
    BY <2>9 DEF next, lines
<1> QED
  BY <1>9, <1>10

\* The function Searched is the end of.
IsSearched(after, st, f, lines, c, cap) ==
    after = [i \in 0 .. Len(lines) |-> IF i = 0 THEN st ELSE LineOn(after[i - 1], f, lines, c, cap, i)]

\* A function that goes through the lines of a file, and ends so.
GoesThrough(after, st, f, lines, c, cap, end) ==
    /\ after[0] = st /\ end = after[Len(lines)] /\ end \in Searching
    /\ \A i \in 1 .. Len(lines) : after[i] = LineOn(after[i - 1], f, lines, c, cap, i)

\* A line leaves an answer one.
LEMMA LineTypes ==
    ASSUME NEW f \in Nat, NEW i \in Nat, NEW cap \in Nat, NEW st \in Searching, NEW lines, NEW c, i # 0
    PROVE  LineOn(st, f, lines, c, cap, i) \in Searching
<1>1. Led(st, f, lines, c, i, cap) \in Searching
  <2>1. \E led : LeadsTo(led, st, f, lines, c, i, cap, Led(st, f, lines, c, i, cap))
    BY LedIs
  <2> QED
    BY <2>1 DEF LeadsTo
<1>2. Handing(f, i, "match") \in Entry /\ Handing(f, i, "context") \in Entry
  BY HandingIs
<1> QED
  BY <1>1, <1>2, EmitTypes DEF LineOn

\* Searched goes through the lines of a file one by one.
LEMMA SearchedIs ==
    ASSUME NEW f \in Nat, NEW cap \in Nat, NEW st \in Searching, NEW lines \in Seq(BOOLEAN), NEW c
    PROVE  \E after : GoesThrough(after, st, f, lines, c, cap, Searched(st, f, lines, c, cap))
<1> DEFINE N == Len(lines)
           chosen == CHOOSE after : IsSearched(after, st, f, lines, c, cap)
           step == [x \in Searching \X (1 .. N) |-> LineOn(x[1], f, lines, c, cap, x[2])]
<1>0. N \in Nat
  OBVIOUS
<1>1. Searched(st, f, lines, c, cap) = chosen[N]
  BY DEF Searched, IsSearched, LineOn
<1> HIDE DEF N
<1>2. ASSUME NEW s \in Searching, NEW i \in 1 .. N
      PROVE  LineOn(s, f, lines, c, cap, i) \in Searching
  <2>1. i \in Nat /\ i # 0
    OBVIOUS
  <2> QED
    BY <2>1, LineTypes
<1>3. step \in [Searching \X (1 .. N) -> Searching]
  BY <1>2
<1>4. ASSUME NEW s \in Searching, NEW i \in 1 .. N
      PROVE  step[<<s, i>>] = LineOn(s, f, lines, c, cap, i)
  OBVIOUS
<1> HIDE DEF step
<1>5. PICK walk : IsWalk(walk, Searching, step, st, N)
  BY <1>0, <1>3, WalkExists
<1>6. IsSearched(walk, st, f, lines, c, cap)
  <2>1. ASSUME NEW i \in 0 .. N
        PROVE  walk[i] = IF i = 0 THEN st ELSE LineOn(walk[i - 1], f, lines, c, cap, i)
    <3>1. CASE i = 0
      BY <1>5, <3>1 DEF IsWalk
    <3>2. CASE i # 0
      <4>1. i \in 1 .. N /\ i - 1 \in 0 .. N
        BY <1>0, <3>2
      <4> QED
        BY <1>4, <1>5, <3>2, <4>1 DEF IsWalk
    <3> QED
      BY <3>1, <3>2
  <2>2. walk = [i \in 0 .. N |-> walk[i]]
    BY <1>5 DEF IsWalk
  <2> QED
    BY <2>1, <2>2 DEF IsSearched, N
<1>7. IsSearched(chosen, st, f, lines, c, cap)
  BY <1>6
<1> HIDE DEF chosen
<1>8. \A i \in 0 .. N : chosen[i] = IF i = 0 THEN st ELSE LineOn(chosen[i - 1], f, lines, c, cap, i)
  BY <1>7 DEF IsSearched, N
<1>9. chosen[0] = st /\ \A i \in 1 .. N : chosen[i] = LineOn(chosen[i - 1], f, lines, c, cap, i)
  BY <1>0, <1>8
<1>10. \A i \in 0 .. N : chosen[i] \in Searching
  <2>1. \A i \in 1 .. N : chosen[i - 1] \in Searching => chosen[i] \in Searching
    BY <1>2, <1>9
  <2>2. chosen[0] \in Searching
    BY <1>9
  <2> QED
    BY <1>0, <2>1, <2>2, WalkStays
<1>11. chosen[N] \in Searching
  <2>1. N \in 0 .. N
    BY <1>0
  <2> QED
    BY <1>10, <2>1
<1> QED
  BY <1>1, <1>9, <1>11 DEF GoesThrough, N

\* A file that is searched is gone through to its end.
LEMMA FileSearched ==
    ASSUME NEW c \in Nat, NEW cap \in Nat, NEW f \in Nat, NEW files, AreFiles(files), f \in DOMAIN files,
           files[f].named, files[f].lines \in Seq(BOOLEAN), NEW st, IsAtLine(files, c, cap, st, f, 0)
    PROVE  IsAtLine(files, c, cap, Searched(st, f, files[f].lines, c, cap), f, Len(files[f].lines))
<1> DEFINE lines == files[f].lines
           N == Len(lines)
<1>1. st \in Searching /\ N \in Nat /\ DOMAIN lines = 1 .. N
  BY DEF IsAtLine, IsRoom
<1>2. PICK after : /\ after[0] = st /\ Searched(st, f, lines, c, cap) = after[N]
                   /\ \A i \in 1 .. N : after[i] = LineOn(after[i - 1], f, lines, c, cap, i)
  <2>1. \E after : GoesThrough(after, st, f, lines, c, cap, Searched(st, f, lines, c, cap))
    BY <1>1, SearchedIs
  <2> QED
    BY <2>1 DEF GoesThrough
<1> DEFINE Fits(i) == IsAtLine(files, c, cap, after[i], f, i)
           M == {i \in Nat : i <= N => Fits(i)}
<1>3. Fits(0)
  BY <1>2
<1> HIDE DEF N
<1>4. ASSUME NEW i \in Nat, i + 1 <= N, Fits(i)
      PROVE  Fits(i + 1)
  <2>1. i + 1 \in 1 .. N /\ (i + 1) - 1 = i
    BY <1>4
  <2>2. after[i + 1] = LineOn(after[i], f, lines, c, cap, i + 1)
    BY <1>2, <2>1
  <2>3. IsHere(files, f, i + 1)
    BY <1>1, <2>1 DEF IsHere
  <2>4. IsAtLine(files, c, cap, LineOn(after[i], f, lines, c, cap, i + 1), f, i + 1)
    <3>1. IsAtLine(files, c, cap, after[i], f, (i + 1) - 1) /\ i + 1 \in Nat
      BY <1>4, <2>1
    <3>2. CASE lines[i + 1]
      BY <2>3, <3>1, <3>2, MatchSearched
    <3>3. CASE ~lines[i + 1]
      BY <2>3, <3>1, <3>3, OtherSearched
    <3> QED
      BY <3>2, <3>3
  <2> QED
    BY <2>2, <2>4
<1> HIDE DEF Fits
<1>5. 0 \in M /\ \A i \in Nat : i \in M => i + 1 \in M
  <2>1. ASSUME NEW i \in Nat, i \in M, i + 1 <= N
        PROVE  Fits(i + 1)
    <3>1. i <= N
      BY <1>1, <2>1
    <3> QED
      BY <1>4, <2>1, <3>1
  <2> QED
    BY <1>3, <2>1
<1>6. Nat \subseteq M
  <2> HIDE DEF M
  <2> QED
    BY <1>5, InductionOverASet
<1>7. Fits(N)
  BY <1>1, <1>6
<1> QED
  BY <1>2, <1>7 DEF Fits, N

-----------------------------------------------------------------------------
\* A file gone through to its end is one the next comes after.
LEMMA FileEnds ==
    ASSUME NEW c \in Nat, NEW cap \in Nat, NEW f \in Nat, NEW j \in Nat, NEW files,
           NEW st, IsRoom(st, cap), IsHonest(files, c, st), ShowsNothing(c, cap, st),
           \A k \in DOMAIN st.out : st.out[k].file <= f, ShowsMatches(files, cap, st, f, j),
           Len(st.out) < cap => \A l \in Nat : IsMatch(files, f, l) => l <= j,
           \A g, l \in Nat : IsMatch(files, g, l) => l # 0
    PROVE  IsAtLine(files, c, cap, st, f + 1, 0)
<1>1. st.out \in Seq(Entry)
  BY DEF IsRoom, Searching
<1>2. IsUpto(files, c, st, f + 1, 0)
  <2> SUFFICES ASSUME NEW k \in DOMAIN st.out
               PROVE  st.out[k].file < f + 1
    BY DEF IsUpto
  <2>1. st.out[k].file \in Nat
    BY <1>1, EntriesAre
  <2> QED
    BY <2>1
<1>3. ShowsMatches(files, cap, st, f + 1, 0)
  <2> SUFFICES ASSUME Len(st.out) < cap, NEW g \in Nat, NEW l \in Nat, IsMatch(files, g, l),
                      g < f + 1 \/ (g = f + 1 /\ l <= 0)
               PROVE  \E k \in DOMAIN st.out : st.out[k] = Handing(g, l, "match")
    BY DEF ShowsMatches
  <2>1. l # 0
    OBVIOUS
  <2>2. g < f \/ (g = f /\ l <= j)
    BY <2>1
  <2> QED
    BY <2>2 DEF ShowsMatches
<1> QED
  BY <1>2, <1>3 DEF IsAtLine

\* A match is in a line that is there.
LEMMA MatchIsALine ==
    ASSUME NEW files, AreFiles(files)
    PROVE  \A g, l \in Nat : IsMatch(files, g, l) => l # 0 /\ g # 0 /\ l <= Len(files[g].lines)
<1> SUFFICES ASSUME NEW g \in Nat, NEW l \in Nat, IsMatch(files, g, l)
             PROVE  l # 0 /\ g # 0 /\ l <= Len(files[g].lines)
  OBVIOUS
<1>1. IsHere(files, g, l)
  BY DEF IsHere, IsMatch
<1>2. files[g].lines \in Seq(BOOLEAN) /\ l \in DOMAIN files[g].lines /\ g \in DOMAIN files
  BY <1>1, HereIs
<1>3. g # 0
  <2>1. ASSUME NEW T, files \in Seq(T)
        PROVE  g # 0
    BY <1>2, <2>1
  <2> QED
    BY <2>1 DEF AreFiles
<1> QED
  BY <1>2, <1>3

\* What a visit to a file leaves.
LEMMA VisitEnds ==
    ASSUME NEW c \in Nat, NEW cap \in Nat, NEW f \in Nat, NEW files, AreFiles(files), f \in DOMAIN files,
           NEW st, IsAtLine(files, c, cap, st, f, 0)
    PROVE  IsAtLine(files, c, cap, Visit(st, f, files[f], c, cap), f + 1, 0)
<1>1. /\ IsRoom(st, cap) /\ IsHonest(files, c, st) /\ IsUpto(files, c, st, f, 0)
      /\ ShowsMatches(files, cap, st, f, 0) /\ ShowsNothing(c, cap, st)
  BY DEF IsAtLine
<1>2. st \in Searching /\ st.out \in Seq(Entry) /\ Len(st.out) \in Nat /\ (st.stop <=> Len(st.out) >= cap)
  BY <1>1 DEF IsRoom, Searching
<1>3. \A g, l \in Nat : IsMatch(files, g, l) => l # 0
  BY MatchIsALine
<1>4. ASSUME NEW some, IsUpto(files, c, some, f, 0) \/ IsUpto(files, c, some, f, Len(files[f].lines)),
             some.out \in Seq(Entry)
      PROVE  \A k \in DOMAIN some.out : some.out[k].file <= f
  <2> TAKE k \in DOMAIN some.out
  <2>1. some.out[k].file \in Nat
    BY <1>4, EntriesAre
  <2>2. some.out[k].file < f \/ some.out[k].file = f
    BY <1>4 DEF IsUpto
  <2> QED
    BY <2>1, <2>2
<1>5. CASE Len(st.out) >= cap \/ ~files[f].named
  <2>1. Visit(st, f, files[f], c, cap) = st
    BY <1>5 DEF Visit
  <2>2. Len(st.out) < cap => \A l \in Nat : IsMatch(files, f, l) => l <= 0
    BY <1>2, <1>5 DEF IsMatch
  <2> QED
    BY <1>1, <1>2, <1>3, <1>4, <2>1, <2>2, FileEnds
<1>6. CASE Len(st.out) < cap /\ files[f].named
  <2>1. [st EXCEPT !.stop = FALSE] = st
    <3>1. ~st.stop /\ st.stop \in BOOLEAN
      BY <1>2, <1>6 DEF Searching
    <3>2. PICK t \in BOOLEAN : t = FALSE
      OBVIOUS
    <3>3. st.stop = t
      BY <3>1, <3>2
    <3>4. [st EXCEPT !.stop = t] = st
      BY <1>2, <3>3 DEF Searching
    <3> QED
      BY <3>2, <3>4
  <2>2. Visit(st, f, files[f], c, cap) = Searched(st, f, files[f].lines, c, cap)
    <3>1. ~(Len(st.out) >= cap \/ ~files[f].named)
      BY <1>2, <1>6
    <3> QED
      BY <2>1, <3>1, Zenon DEF Visit
  <2>3. files[f].lines \in Seq(BOOLEAN) /\ Len(files[f].lines) \in Nat
    <3>1. files[f] \in [lines : Seq(BOOLEAN), named : BOOLEAN]
      <4>1. ASSUME NEW T, files \in Seq(T)
            PROVE  files[f] \in T
        BY <4>1
      <4> QED
        BY <4>1 DEF AreFiles
    <3> QED
      BY <3>1
  <2> DEFINE next == Searched(st, f, files[f].lines, c, cap)
  <2>4. IsAtLine(files, c, cap, next, f, Len(files[f].lines))
    BY <1>6, <2>3, FileSearched
  <2> HIDE DEF next
  <2>5. /\ IsRoom(next, cap) /\ IsHonest(files, c, next) /\ IsUpto(files, c, next, f, Len(files[f].lines))
        /\ ShowsMatches(files, cap, next, f, Len(files[f].lines)) /\ ShowsNothing(c, cap, next)
    BY <2>4 DEF IsAtLine
  <2>6. next.out \in Seq(Entry)
    BY <2>5 DEF IsRoom, Searching
  <2>7. \A l \in Nat : IsMatch(files, f, l) => l <= Len(files[f].lines)
    BY MatchIsALine
  <2>8. \A k \in DOMAIN next.out : next.out[k].file <= f
    BY <1>4, <2>5, <2>6
  <2>9. IsAtLine(files, c, cap, next, f + 1, 0)
    BY <1>3, <2>3, <2>5, <2>7, <2>8, FileEnds
  <2> QED
    BY <2>2, <2>9 DEF next
<1> QED
  BY <1>2, <1>5, <1>6

\* The function Collected is the end of.
IsCollecting(after, files, c, cap) ==
    after = [f \in 0 .. Len(files) |->
                IF f = 0 THEN [out |-> <<>>, hits |-> 0, stop |-> FALSE]
                ELSE Visit(after[f - 1], f, files[f], c, cap)]

\* The answer before the first file.
NothingYet == [out |-> <<>>, hits |-> 0, stop |-> FALSE]

\* A visit leaves an answer one.
LEMMA VisitTypes ==
    ASSUME NEW f \in Nat, NEW cap \in Nat, NEW st \in Searching, NEW file, file.lines \in Seq(BOOLEAN), NEW c
    PROVE  Visit(st, f, file, c, cap) \in Searching
<1>1. [st EXCEPT !.stop = FALSE] \in Searching
  <2>1. PICK t \in BOOLEAN : t = FALSE
    OBVIOUS
  <2>2. [st EXCEPT !.stop = t] \in Searching
    BY <2>1 DEF Searching
  <2> QED
    BY <2>1, <2>2
<1>2. ASSUME NEW s \in Searching
      PROVE  Searched(s, f, file.lines, c, cap) \in Searching
  <2>1. \E after : GoesThrough(after, s, f, file.lines, c, cap, Searched(s, f, file.lines, c, cap))
    BY SearchedIs
  <2> QED
    BY <2>1 DEF GoesThrough
<1> QED
  BY <1>1, <1>2 DEF Visit

\* The answer before the first file is one.
LEMMA NothingYetIs ==
    /\ NothingYet \in Searching /\ NothingYet.out = <<>> /\ NothingYet.hits = 0 /\ ~NothingYet.stop
<1>1. PICK t \in BOOLEAN : t = FALSE
  OBVIOUS
<1>2. [out |-> <<>>, hits |-> 0, stop |-> t] \in Searching
  BY <1>1 DEF Searching
<1>3. NothingYet = [out |-> <<>>, hits |-> 0, stop |-> t]
  BY <1>1 DEF NothingYet
<1>4. NothingYet.stop = t
  BY <1>3
<1> QED
  BY <1>1, <1>2, <1>3, <1>4

\* What a collection stood at after each of its files.
IsVisiting(after, files, c, cap) ==
    /\ after[0] = NothingYet /\ Collected(files, c, cap) = after[Len(files)]
    /\ \A f \in 1 .. Len(files) : after[f] = Visit(after[f - 1], f, files[f], c, cap)

\* Files are visited one by one.
LEMMA CollectedIs ==
    ASSUME NEW cap \in Nat, NEW files, AreFiles(files), NEW c
    PROVE  \E after : IsVisiting(after, files, c, cap)
<1> DEFINE N == Len(files)
           chosen == CHOOSE after : IsCollecting(after, files, c, cap)
           step == [x \in Searching \X (1 .. N) |-> Visit(x[1], x[2], files[x[2]], c, cap)]
<1>0. N \in Nat /\ \A f \in 1 .. N : files[f].lines \in Seq(BOOLEAN)
  <2>1. ASSUME NEW T, files \in Seq(T)
        PROVE  N \in Nat /\ \A f \in 1 .. N : files[f] \in T
    BY <2>1
  <2>2. N \in Nat /\ \A f \in 1 .. N : files[f] \in [lines : Seq(BOOLEAN), named : BOOLEAN]
    BY <2>1 DEF AreFiles
  <2>3. \A f \in 1 .. N : files[f].lines \in Seq(BOOLEAN)
    BY <2>2
  <2> QED
    BY <2>2, <2>3
<1>1. Collected(files, c, cap) = chosen[N]
  BY DEF Collected, IsCollecting
<1> HIDE DEF N
<1>2. ASSUME NEW s \in Searching, NEW f \in 1 .. N
      PROVE  Visit(s, f, files[f], c, cap) \in Searching
  <2>1. PICK file : file = files[f]
    OBVIOUS
  <2>2. f \in Nat /\ file.lines \in Seq(BOOLEAN)
    BY <1>0, <2>1
  <2>3. Visit(s, f, file, c, cap) \in Searching
    BY <2>2, VisitTypes
  <2> QED
    BY <2>1, <2>3
<1>3. step \in [Searching \X (1 .. N) -> Searching]
  BY <1>2
<1>4. ASSUME NEW s \in Searching, NEW f \in 1 .. N
      PROVE  step[<<s, f>>] = Visit(s, f, files[f], c, cap)
  OBVIOUS
<1> HIDE DEF step
<1>5. PICK walk : IsWalk(walk, Searching, step, NothingYet, N)
  BY <1>0, <1>3, NothingYetIs, WalkExists
<1>6. IsCollecting(walk, files, c, cap)
  <2>1. ASSUME NEW f \in 0 .. N
        PROVE  walk[f] = IF f = 0 THEN NothingYet ELSE Visit(walk[f - 1], f, files[f], c, cap)
    <3>1. CASE f = 0
      BY <1>5, <3>1 DEF IsWalk
    <3>2. CASE f # 0
      <4>1. f \in 1 .. N /\ f - 1 \in 0 .. N
        BY <1>0, <3>2
      <4> QED
        BY <1>4, <1>5, <3>2, <4>1 DEF IsWalk
    <3> QED
      BY <3>1, <3>2
  <2>2. walk = [f \in 0 .. N |-> walk[f]]
    BY <1>5 DEF IsWalk
  <2>3. walk = [f \in 0 .. N |-> IF f = 0 THEN NothingYet ELSE Visit(walk[f - 1], f, files[f], c, cap)]
    BY <2>1, <2>2
  <2> QED
    BY <2>3 DEF IsCollecting, NothingYet, N
<1>7. IsCollecting(chosen, files, c, cap)
  BY <1>6
<1> HIDE DEF chosen
<1>8. \A f \in 0 .. N : chosen[f] = IF f = 0 THEN NothingYet ELSE Visit(chosen[f - 1], f, files[f], c, cap)
  BY <1>7 DEF IsCollecting, NothingYet, N
<1>9. chosen[0] = NothingYet /\ \A f \in 1 .. N : chosen[f] = Visit(chosen[f - 1], f, files[f], c, cap)
  BY <1>0, <1>8
<1> QED
  BY <1>1, <1>9 DEF N, IsVisiting

\* A collection is honest about all the files it went through.
LEMMA CollectedEnds ==
    ASSUME NEW c \in Nat, NEW cap \in Nat, cap # 0, NEW files, AreFiles(files)
    PROVE  IsAtLine(files, c, cap, Collected(files, c, cap), Len(files) + 1, 0)
<1> DEFINE N == Len(files)
<1>1. N \in Nat /\ DOMAIN files = 1 .. N
  <2>1. PICK T : files \in Seq(T)
    BY DEF AreFiles
  <2> QED
    BY <2>1
<1>2. PICK after : /\ after[0] = NothingYet /\ Collected(files, c, cap) = after[N]
                   /\ \A f \in 1 .. N : after[f] = Visit(after[f - 1], f, files[f], c, cap)
  BY CollectedIs DEF IsVisiting
<1> DEFINE Fits(f) == IsAtLine(files, c, cap, after[f], f + 1, 0)
           M == {f \in Nat : f <= N => Fits(f)}
<1> HIDE DEF N
<1>3. Fits(0)
  <2> DEFINE st == NothingYet
  <2>1. st \in Searching /\ st.out = <<>> /\ st.hits = 0 /\ ~st.stop
    BY NothingYetIs
  <2> HIDE DEF st
  <2>2. Len(st.out) = 0 /\ DOMAIN st.out = {}
    BY <2>1
  <2>3. IsRoom(st, cap) /\ IsHonest(files, c, st) /\ ShowsNothing(c, cap, st)
    BY <2>1, <2>2 DEF IsRoom, IsHonest, ShowsInOrder, ShowsNothing
  <2>4. IsUpto(files, c, st, 1, 0)
    BY <2>2 DEF IsUpto
  <2>5. ShowsMatches(files, cap, st, 1, 0)
    <3>1. \A g, l \in Nat : IsMatch(files, g, l) => ~(g < 1 \/ (g = 1 /\ l <= 0))
      <4>1. ASSUME NEW g \in Nat, NEW l \in Nat, IsMatch(files, g, l)
            PROVE  g # 0 /\ l # 0
        BY <4>1, MatchIsALine
      <4> QED
        BY <4>1
    <3> QED
      BY <3>1 DEF ShowsMatches
  <2>6. IsAtLine(files, c, cap, st, 1, 0)
    BY <2>3, <2>4, <2>5 DEF IsAtLine
  <2>7. after[0] = st /\ 0 + 1 = 1
    BY <1>2 DEF st
  <2> QED
    BY <2>6, <2>7
<1>4. ASSUME NEW f \in Nat, f + 1 <= N, Fits(f)
      PROVE  Fits(f + 1)
  <2>1. f + 1 \in 1 .. N /\ (f + 1) - 1 = f /\ f + 1 \in Nat
    BY <1>4
  <2>2. after[f + 1] = Visit(after[f], f + 1, files[f + 1], c, cap)
    BY <1>2, <2>1
  <2> QED
    BY <1>1, <1>4, <2>1, <2>2, VisitEnds
<1> HIDE DEF Fits
<1>5. 0 \in M /\ \A f \in Nat : f \in M => f + 1 \in M
  <2>1. ASSUME NEW f \in Nat, f \in M, f + 1 <= N
        PROVE  Fits(f + 1)
    <3>1. f <= N
      BY <1>1, <2>1
    <3> QED
      BY <1>4, <2>1, <3>1
  <2> QED
    BY <1>3, <2>1
<1>6. Nat \subseteq M
  <2> HIDE DEF M
  <2> QED
    BY <1>5, InductionOverASet
<1>7. Fits(N)
  BY <1>1, <1>6
<1> QED
  BY <1>2, <1>7 DEF Fits, N

-----------------------------------------------------------------------------
\* A tree is a sequence of files, none longer than the bound.
IsTree(files) ==
    /\ AreFiles(files)
    /\ \A f \in DOMAIN files : Len(files[f].lines) <= MaxLines

\* Sequences up to a length are sequences.
LEMMA BoundedSeqIs ==
    ASSUME NEW S, NEW n \in Nat, NEW s \in BoundedSeq(S, n)
    PROVE  s \in Seq(S) /\ Len(s) <= n
<1>1. PICK m \in 0 .. n : s \in [1 .. m -> S]
  BY DEF BoundedSeq, SeqOf
<1>2. s \in Seq(S) /\ Len(s) = m
  BY <1>1
<1> QED
  BY <1>1, <1>2

\* The trees of the model are such.
LEMMA TreesAre ==
    ASSUME NEW files \in BoundedSeq(File, MaxFiles)
    PROVE  IsTree(files)
<1>1. MaxFiles \in Nat /\ MaxLines \in Nat
  BY SearchConstants
<1>2. files \in Seq(File)
  BY <1>1, BoundedSeqIs
<1>3. ASSUME NEW file \in File
      PROVE  file \in [lines : Seq(BOOLEAN), named : BOOLEAN] /\ Len(file.lines) <= MaxLines
  <2>1. file \in [lines : BoundedSeq(BOOLEAN, MaxLines), named : BOOLEAN]
    BY DEF File
  <2>2. file.lines \in BoundedSeq(BOOLEAN, MaxLines)
    BY <2>1
  <2>3. file.lines \in Seq(BOOLEAN) /\ Len(file.lines) <= MaxLines
    BY <1>1, <2>2, BoundedSeqIs
  <2> QED
    BY <2>1, <2>3
<1>4. Len(files) \in Nat /\ files \in [1 .. Len(files) -> File]
  BY <1>2
<1>5. \A f \in 1 .. Len(files) : files[f] \in File
  BY <1>4
<1> DEFINE T == [lines : Seq(BOOLEAN), named : BOOLEAN]
<1>6. \A f \in 1 .. Len(files) : files[f] \in T /\ Len(files[f].lines) <= MaxLines
  BY <1>3, <1>5
<1> HIDE DEF T
<1>7. files \in Seq(T)
  BY <1>2, <1>6
<1> QED
  BY <1>4, <1>6, <1>7 DEF IsTree, AreFiles, T

\* The files visited are the first of the tree.
LEMMA FilesAre ==
    ASSUME NEW files, IsTree(files)
    PROVE  /\ AreFiles(Files(files)) /\ Len(Files(files)) \in Nat
           /\ DOMAIN Files(files) = 1 .. Len(Files(files))
           /\ DOMAIN Files(files) \subseteq DOMAIN files
           /\ \A f \in DOMAIN Files(files) : Files(files)[f] = files[f] /\ Len(files[f].lines) <= MaxLines
<1>1. ASSUME NEW T, files \in Seq(T)
      PROVE  /\ Files(files) \in Seq(T) /\ DOMAIN Files(files) \subseteq DOMAIN files
             /\ Len(Files(files)) \in Nat /\ DOMAIN Files(files) = 1 .. Len(Files(files))
             /\ \A f \in DOMAIN Files(files) : Files(files)[f] = files[f]
  <2>1. Len(files) \in Nat /\ Visited \in Nat
    BY <1>1, SearchConstants
  <2> DEFINE n == Min({Len(files), Visited})
  <2>2. n \in Nat /\ n <= Len(files)
    BY <2>1, LessOf
  <2>3. Files(files) = SubSeq(files, 1, n)
    BY DEF Files
  <2> HIDE DEF n
  <2> QED
    BY <1>1, <2>1, <2>2, <2>3
<1> QED
  BY <1>1 DEF IsTree, AreFiles

\* A line that matches is one of those to be found, and the other way round.
LEMMA MatchingIs ==
    ASSUME IsTree(tree), NEW f, NEW l \in Nat
    PROVE  [file |-> f, line |-> l] \in Matching <=> IsMatch(Files(tree), f, l)
<1> DEFINE files == Files(tree)
<1>1. \A g \in DOMAIN files : files[g] = tree[g] /\ Len(tree[g].lines) <= MaxLines
  BY FilesAre
<1>2. ASSUME IsMatch(files, f, l)
      PROVE  f \in DOMAIN files /\ l \in 1 .. MaxLines
  <2>1. IsHere(files, f, l)
    BY <1>2 DEF IsHere, IsMatch
  <2>2. f \in DOMAIN files /\ files[f].lines \in Seq(BOOLEAN) /\ l \in DOMAIN files[f].lines
    BY <2>1, HereIs, FilesAre
  <2>3. Len(files[f].lines) <= MaxLines /\ Len(files[f].lines) \in Nat /\ l \in 1 .. Len(files[f].lines)
    BY <1>1, <2>2
  <2> QED
    BY <2>2, <2>3, SearchConstants
<1>3. [file |-> f, line |-> l] \in Matching
         <=> /\ f \in DOMAIN files /\ l \in 1 .. MaxLines
             /\ tree[f].named /\ l \in DOMAIN tree[f].lines /\ tree[f].lines[l]
  BY DEF Matching
<1> HIDE DEF files
<1> QED
  BY <1>1, <1>2, <1>3 DEF IsMatch, files

\* An answer of grep is honest.
LEMMA GrepsAreHonest ==
    ASSUME IsTree(tree), NEW c \in Nat, NEW cap \in Nat, cap # 0,
           asked.tool = "grep", asked.context = c, asked.cap = cap, answer = Grep(tree, c, cap)
    PROVE  AnswersAreHonest
<1> DEFINE files == Files(tree)
           end == Collected(files, c, cap)
           N == Len(files)
<1>1. AreFiles(files) /\ N \in Nat /\ DOMAIN files = 1 .. N
  BY FilesAre
<1>2. IsAtLine(files, c, cap, end, N + 1, 0)
  BY <1>1, CollectedEnds
<1>3. /\ answer.shown = (IF end.hits = 0 THEN <<>> ELSE end.out) /\ answer.found = end.hits
      /\ answer.cut <=> end.hits > 0 /\ Len(end.out) >= cap
  <2>1. Grep(tree, c, cap) = [shown |-> IF end.hits = 0 THEN <<>> ELSE end.out,
                              found |-> end.hits,
                              cut |-> end.hits > 0 /\ CutAtTheCap(Len(end.out), cap)]
    BY DEF Grep
  <2> HIDE DEF end
  <2>2. PICK b \in BOOLEAN : b = (end.hits > 0 /\ CutAtTheCap(Len(end.out), cap))
    <3>1. (end.hits > 0 /\ CutAtTheCap(Len(end.out), cap)) \in BOOLEAN
      BY Zenon
    <3> QED
      BY <3>1, Zenon
  <2>3. answer = [shown |-> IF end.hits = 0 THEN <<>> ELSE end.out, found |-> end.hits, cut |-> b]
    BY <2>1, <2>2, Zenon
  <2>4. /\ answer.shown = (IF end.hits = 0 THEN <<>> ELSE end.out) /\ answer.found = end.hits
        /\ answer.cut = b
    BY <2>3
  <2> QED
    BY <2>2, <2>4 DEF CutAtTheCap
<1> HIDE DEF end, files, N
<1>4. /\ IsRoom(end, cap) /\ IsHonest(files, c, end)
      /\ ShowsMatches(files, cap, end, N + 1, 0) /\ ShowsNothing(c, cap, end)
  BY <1>2 DEF IsAtLine
<1>5. end.out \in Seq(Entry) /\ Len(end.out) \in Nat /\ end.hits \in Nat /\ Len(end.out) <= cap
  BY <1>4 DEF IsRoom, Searching
<1>6. /\ answer.shown \in Seq(Entry) /\ ShowsInOrder(answer.shown)
      /\ \A k \in DOMAIN answer.shown : IsTrue(files, c, answer.shown[k])
  <2>1. CASE end.hits = 0
    <3>1. answer.shown = <<>>
      BY <1>3, <2>1
    <3>2. <<>> \in Seq(Entry) /\ DOMAIN <<>> = {}
      OBVIOUS
    <3> QED
      BY <3>1, <3>2 DEF ShowsInOrder
  <2>2. CASE end.hits # 0
    <3>1. answer.shown = end.out
      BY <1>3, <2>2
    <3> QED
      BY <1>4, <1>5, <3>1 DEF IsHonest
  <2> QED
    BY <2>1, <2>2
<1>7. ASSUME NEW f \in Nat, NEW l \in Nat
      PROVE  [file |-> f, line |-> l] \in Matching <=> IsMatch(files, f, l)
  BY MatchingIs DEF files
<1>8. ASSUME NEW m \in Matching
      PROVE  /\ m.file \in Nat /\ m.line \in Nat /\ IsMatch(files, m.file, m.line)
             /\ m = [file |-> m.file, line |-> m.line]
  <2>1. m \in [file : DOMAIN files, line : 1 .. MaxLines]
    BY DEF Matching, files
  <2>2. m.file \in 1 .. N /\ m.line \in 1 .. MaxLines /\ m = [file |-> m.file, line |-> m.line]
    BY <1>1, <2>1
  <2>3. m.file \in Nat /\ m.line \in Nat
    BY <1>1, <2>2, SearchConstants
  <2> QED
    BY <1>7, <2>2, <2>3
<1>9. ASSUME NEW kind, NEW h \in Handed(kind)
      PROVE  \E k \in DOMAIN answer.shown :
                /\ answer.shown[k].kind = kind
                /\ h = [file |-> answer.shown[k].file, line |-> answer.shown[k].line]
  BY DEF Handed
<1>10. ASSUME NEW k \in DOMAIN answer.shown
       PROVE  answer.shown[k] \in Entry /\ answer.shown[k].file \in Nat /\ answer.shown[k].line \in Nat
  BY <1>6, EntriesAre
<1>11. Handed("match") \subseteq Matching
  <2> SUFFICES ASSUME NEW h \in Handed("match")
               PROVE  h \in Matching
    OBVIOUS
  <2>1. PICK k \in DOMAIN answer.shown :
           /\ answer.shown[k].kind = "match"
           /\ h = [file |-> answer.shown[k].file, line |-> answer.shown[k].line]
    BY <1>9
  <2>2. IsMatch(files, answer.shown[k].file, answer.shown[k].line)
    BY <1>6, <2>1 DEF IsTrue
  <2> QED
    BY <1>7, <1>10, <2>1, <2>2
<1>12. ASSUME NEW h \in Handed("context")
       PROVE  /\ h \notin Matching
              /\ \E m \in Matching : m.file = h.file /\ m.line \in (h.line - c) .. (h.line + c)
  <2>1. PICK k \in DOMAIN answer.shown :
           /\ answer.shown[k].kind = "context"
           /\ h = [file |-> answer.shown[k].file, line |-> answer.shown[k].line]
    BY <1>9
  <2>2. PICK f \in Nat : f = answer.shown[k].file
    BY <1>10
  <2>3. PICK l \in Nat : l = answer.shown[k].line
    BY <1>10
  <2>4. ~IsMatch(files, f, l) /\ \E m \in Nat : IsMatch(files, f, m) /\ l - c <= m /\ m <= l + c
    BY <1>6, <2>1, <2>2, <2>3 DEF IsTrue
  <2>5. h = [file |-> f, line |-> l] /\ h.file = f /\ h.line = l
    BY <2>1, <2>2, <2>3
  <2>6. h \notin Matching
    BY <1>7, <2>4, <2>5
  <2>7. PICK m \in Nat : IsMatch(files, f, m) /\ l - c <= m /\ m <= l + c
    BY <2>4
  <2>8. [file |-> f, line |-> m] \in Matching
    BY <1>7, <2>7
  <2>9. m \in (l - c) .. (l + c)
    BY <2>7
  <2> QED
    BY <2>5, <2>6, <2>8, <2>9
<1>13. GrepIsSound
  <2>1. \A k \in 1 .. (Len(answer.shown) - 1) : Follows(answer.shown[k], answer.shown[k + 1])
    <3> SUFFICES ASSUME NEW k \in 1 .. (Len(answer.shown) - 1)
                 PROVE  Follows(answer.shown[k], answer.shown[k + 1])
      OBVIOUS
    <3>1. k \in DOMAIN answer.shown /\ k + 1 \in DOMAIN answer.shown
      BY <1>6
    <3> QED
      BY <1>6, <3>1 DEF ShowsInOrder
  <2> QED
    BY <1>11, <1>12, <2>1 DEF GrepIsSound
<1>14. ASSUME Len(end.out) < cap, NEW m \in Matching
       PROVE  \E k \in DOMAIN end.out : end.out[k] = Handing(m.file, m.line, "match")
  <2>1. m.file < N + 1
    <3>1. m.file \in DOMAIN files
      BY <1>8 DEF IsMatch
    <3> QED
      BY <1>1, <3>1
  <2> QED
    BY <1>4, <1>8, <1>14, <2>1 DEF ShowsMatches
<1>15. ASSUME c < cap
       PROVE  answer.found = 0 <=> Matching = {}
  <2>1. ASSUME answer.found = 0, NEW m \in Matching
        PROVE  FALSE
    <3>1. end.out = <<>>
      BY <1>3, <1>4, <1>15, <2>1 DEF ShowsNothing
    <3>2. Len(end.out) < cap /\ DOMAIN end.out = {}
      BY <3>1
    <3> QED
      BY <1>14, <3>2
  <2>2. ASSUME answer.found # 0
        PROVE  Matching # {}
    <3>1. PICK k \in DOMAIN end.out : end.out[k].kind = "match"
      BY <1>3, <1>4, <2>2 DEF IsHonest
    <3>2. IsMatch(files, end.out[k].file, end.out[k].line)
      BY <1>4, <3>1 DEF IsHonest, IsTrue
    <3>3. end.out[k].file \in Nat /\ end.out[k].line \in Nat
      BY <1>5, EntriesAre
    <3>4. [file |-> end.out[k].file, line |-> end.out[k].line] \in Matching
      BY <1>7, <3>2, <3>3
    <3> QED
      BY <3>4
  <2> QED
    BY <2>1, <2>2
<1>16. ASSUME answer.found > 0, ~answer.cut
       PROVE  Handed("match") = Matching
  <2>1. end.hits # 0 /\ Len(end.out) < cap /\ answer.shown = end.out
    BY <1>3, <1>5, <1>16
  <2>2. ASSUME NEW m \in Matching
        PROVE  m \in Handed("match")
    <3>1. PICK k \in DOMAIN end.out : end.out[k] = Handing(m.file, m.line, "match")
      BY <1>14, <2>1
    <3>2. end.out[k].file = m.file /\ end.out[k].line = m.line /\ end.out[k].kind = "match"
      BY <1>8, <3>1, HandingIs
    <3>3. m = [file |-> end.out[k].file, line |-> end.out[k].line]
      BY <1>8, <3>2
    <3> QED
      BY <2>1, <3>2, <3>3 DEF Handed
  <2> QED
    BY <1>11, <2>2
<1> QED
  BY <1>13, <1>15, <1>16 DEF AnswersAreHonest

-----------------------------------------------------------------------------
(* Numbers in their order.                                                 *)

\* The numbers of a set, each before the greater ones.
Ascends(s, S) ==
    /\ s \in [1 .. Cardinality(S) -> S]
    /\ \A j, k \in 1 .. Cardinality(S) : j < k => s[j] < s[k]

\* The numbers of a set up to n can be put in order.
LEMMA OrderExists ==
    ASSUME NEW n \in Nat, NEW S \in SUBSET (1 .. n)
    PROVE  \E s : Ascends(s, S)
<1> DEFINE Ordered(m) == \A T \in SUBSET (1 .. m) : \E s : Ascends(s, T)
           M == {m \in Nat : Ordered(m)}
<1>1. Ordered(0)
  <2> TAKE T \in SUBSET (1 .. 0)
  <2>1. T = {} /\ Cardinality(T) = 0
    <3>1. 1 .. 0 = {}
      OBVIOUS
    <3> QED
      BY <3>1, FS_EmptySet
  <2> DEFINE s == [k \in 1 .. 0 |-> k]
  <2>2. s \in [1 .. Cardinality(T) -> T]
    BY <2>1
  <2>3. \A j, k \in 1 .. Cardinality(T) : j < k => s[j] < s[k]
    BY <2>1
  <2> QED
    BY <2>2, <2>3 DEF Ascends
<1>2. ASSUME NEW m \in Nat, Ordered(m)
      PROVE  Ordered(m + 1)
  <2> TAKE T \in SUBSET (1 .. (m + 1))
  <2>1. CASE m + 1 \notin T
    <3>1. T \in SUBSET (1 .. m)
      BY <2>1
    <3> QED
      BY <1>2, <3>1
  <2>2. CASE m + 1 \in T
    <3> DEFINE U == T \ {m + 1}
    <3>1. U \in SUBSET (1 .. m) /\ T = U \cup {m + 1} /\ m + 1 \notin U
      BY <2>2
    <3>2. IsFiniteSet(1 .. m)
      BY FS_Interval
    <3> HIDE DEF U
    <3>3. IsFiniteSet(U) /\ Cardinality(U) \in Nat
      BY <3>1, <3>2, FS_Subset, FS_CardinalityType
    <3>4. Cardinality(T) = Cardinality(U) + 1
      BY <3>1, <3>3, FS_AddElement
    <3>5. PICK s : Ascends(s, U)
      BY <1>2, <3>1
    <3>6. PICK q \in Nat : q = Cardinality(U)
      BY <3>3
    <3> DEFINE more == [k \in 1 .. (q + 1) |-> IF k = q + 1 THEN m + 1 ELSE s[k]]
    <3>7. s \in [1 .. q -> U] /\ \A j, k \in 1 .. q : j < k => s[j] < s[k]
      BY <3>5, <3>6 DEF Ascends
    <3>8. \A k \in 1 .. q : s[k] \in U /\ s[k] < m + 1
      <4>1. \A k \in 1 .. q : s[k] \in U
        BY <3>7
      <4>2. \A x \in U : x < m + 1
        BY <3>1
      <4> QED
        BY <4>1, <4>2
    <3>9. \A k \in 1 .. (q + 1) : k = q + 1 \/ k \in 1 .. q
      OBVIOUS
    <3>10. more \in [1 .. (q + 1) -> T]
      BY <3>1, <3>8, <3>9
    <3>11. /\ more[q + 1] = m + 1 /\ \A k \in 1 .. q : more[k] = s[k]
      OBVIOUS
    <3> HIDE DEF more
    <3>12. ASSUME NEW j \in 1 .. (q + 1), NEW k \in 1 .. (q + 1), j < k
           PROVE  more[j] < more[k]
      <4>1. j \in 1 .. q
        BY <3>12
      <4>2. CASE k = q + 1
        BY <3>8, <3>11, <4>1, <4>2
      <4>3. CASE k \in 1 .. q
        BY <3>7, <3>11, <3>12, <4>1, <4>3
      <4> QED
        BY <3>9, <4>2, <4>3
    <3>13. Cardinality(T) = q + 1
      BY <3>4, <3>6
    <3>14. Ascends(more, T)
      BY <3>10, <3>12, <3>13 DEF Ascends
    <3> QED
      BY <3>14
  <2> QED
    BY <2>1, <2>2
<1> HIDE DEF Ordered
<1>3. 0 \in M /\ \A m \in Nat : m \in M => m + 1 \in M
  BY <1>1, <1>2
<1>4. Nat \subseteq M
  <2> HIDE DEF M
  <2> QED
    BY <1>3, InductionOverASet
<1>5. Ordered(n)
  BY <1>4
<1> QED
  BY <1>5 DEF Ordered

\* In order, all the numbers of a set are there.
LEMMA InOrderIs ==
    ASSUME NEW n \in Nat, NEW S \in SUBSET (1 .. n)
    PROVE  /\ Cardinality(S) \in Nat /\ Ascends(InOrder(S), S)
           /\ InOrder(S) \in Seq(S) /\ Len(InOrder(S)) = Cardinality(S)
           /\ \A x \in S : \E k \in 1 .. Cardinality(S) : InOrder(S)[k] = x
<1>1. IsFiniteSet(S) /\ Cardinality(S) \in Nat
  <2>1. IsFiniteSet(1 .. n)
    BY FS_Interval
  <2> QED
    BY <2>1, FS_Subset, FS_CardinalityType
<1>2. PICK q \in Nat : q = Cardinality(S)
  BY <1>1
<1>3. Ascends(InOrder(S), S)
  <2>1. \E s \in [1 .. Cardinality(S) -> S] : \A j, k \in DOMAIN s : j < k => s[j] < s[k]
    <3>1. PICK s : Ascends(s, S)
      BY OrderExists
    <3>2. s \in [1 .. Cardinality(S) -> S] /\ DOMAIN s = 1 .. Cardinality(S)
      BY <3>1 DEF Ascends
    <3> QED
      BY <3>1, <3>2 DEF Ascends
  <2>2. /\ InOrder(S) \in [1 .. Cardinality(S) -> S]
        /\ \A j, k \in DOMAIN InOrder(S) : j < k => InOrder(S)[j] < InOrder(S)[k]
    BY <2>1 DEF InOrder
  <2>3. DOMAIN InOrder(S) = 1 .. Cardinality(S)
    BY <2>2
  <2> QED
    BY <2>2, <2>3 DEF Ascends
<1> DEFINE s == InOrder(S)
<1>4. s \in [1 .. q -> S] /\ \A j, k \in 1 .. q : j < k => s[j] < s[k]
  BY <1>2, <1>3 DEF Ascends
<1> HIDE DEF s
<1>5. s \in Seq(S) /\ Len(s) = q
  BY <1>4
<1>6. \A k \in 1 .. q : s[k] \in Int
  <2>1. \A k \in 1 .. q : s[k] \in S
    BY <1>4
  <2>2. \A x \in S : x \in Int
    OBVIOUS
  <2> QED
    BY <2>1, <2>2
<1>7. s \in Injection(1 .. q, S)
  <2>1. ASSUME NEW j \in 1 .. q, NEW k \in 1 .. q, s[j] = s[k]
        PROVE  j = k
    <3>1. ~(s[j] < s[k]) /\ ~(s[k] < s[j])
      BY <1>6, <2>1
    <3>2. ~(j < k) /\ ~(k < j)
      BY <1>4, <3>1
    <3> QED
      BY <3>2
  <2> QED
    BY <1>4, <2>1 DEF Injection, IsInjective
<1>8. Cardinality(1 .. q) = q
  BY FS_Interval
<1>9. s \in Surjection(1 .. q, S)
  BY <1>1, <1>2, <1>7, <1>8, FS_Injection
<1>10. \A x \in S : \E k \in 1 .. q : s[k] = x
  BY <1>9 DEF Surjection
<1> QED
  BY <1>2, <1>3, <1>5, <1>10 DEF s

\* An answer of find is honest.
LEMMA FindsAreHonest ==
    ASSUME IsTree(tree), NEW cap \in Nat, asked.tool = "find", asked.cap = cap, answer = Find(tree, cap)
    PROVE  AnswersAreHonest
<1> DEFINE N == Len(Files(tree))
           named == {f \in DOMAIN Files(tree) : tree[f].named}
           hits == InOrder(named)
           n == Min({cap, Len(hits)})
<1>1. N \in Nat /\ named \in SUBSET (1 .. N)
  BY FilesAre
<1>0. Len(hits) \in Int
  BY <1>1, InOrderIs
<1>2. {f \in DOMAIN Files(tree) : Files(tree)[f].named} = named
  BY FilesAre
<1>3. /\ answer.shown = SubSeq(hits, 1, n) /\ answer.found = Len(hits)
      /\ answer.cut <=> Len(hits) > cap
  <2>1. Find(tree, cap) = [shown |-> SubSeq(hits, 1, n), found |-> Len(hits), cut |-> Len(hits) > cap]
    BY <1>2 DEF Find
  <2> HIDE DEF hits, n
  <2>2. PICK b \in BOOLEAN : b = (Len(hits) > cap)
    <3>1. (Len(hits) > cap) \in BOOLEAN
      BY <1>0
    <3> QED
      BY <3>1, Zenon
  <2>3. PICK shown : shown = SubSeq(hits, 1, n)
    OBVIOUS
  <2>4. answer = [shown |-> shown, found |-> Len(hits), cut |-> b]
    BY <2>1, <2>2, <2>3, Zenon
  <2>5. answer.shown = shown /\ answer.found = Len(hits) /\ answer.cut = b
    BY <2>4
  <2> QED
    BY <2>2, <2>3, <2>5
<1>4. named = {f \in DOMAIN Files(tree) : tree[f].named}
  OBVIOUS
<1> HIDE DEF named, N
<1>5. /\ Cardinality(named) \in Nat /\ hits \in Seq(named) /\ Len(hits) = Cardinality(named)
      /\ \A x \in named : \E k \in 1 .. Cardinality(named) : hits[k] = x
  BY <1>1, InOrderIs
<1> HIDE DEF hits
<1>6. n \in Nat /\ n <= Len(hits) /\ (Len(hits) <= cap => n = Len(hits))
  BY <1>5, LessOf
<1> HIDE DEF n
<1>7. /\ answer.shown \in Seq(named) /\ Len(answer.shown) = n
      /\ \A k \in 1 .. n : answer.shown[k] = hits[k]
  BY <1>3, <1>5, <1>6
<1>8. ToSet(answer.shown) \subseteq named
  BY <1>7 DEF ToSet
<1>9. ASSUME ~answer.cut, NEW x \in named
      PROVE  x \in ToSet(answer.shown)
  <2>1. n = Len(hits)
    BY <1>3, <1>5, <1>6, <1>9
  <2>2. PICK k \in 1 .. n : hits[k] = x
    BY <1>5, <2>1
  <2>3. k \in DOMAIN answer.shown /\ answer.shown[k] = x
    BY <1>6, <1>7, <2>2
  <2> QED
    BY <2>3 DEF ToSet
<1>10. /\ answer.found = Cardinality(named) /\ ToSet(answer.shown) \subseteq named
       /\ ~answer.cut => ToSet(answer.shown) = named
  BY <1>3, <1>5, <1>8, <1>9
<1> QED
  BY <1>4, <1>10 DEF AnswersAreHonest

-----------------------------------------------------------------------------
\* Some numbers up to n have a greatest.
LEMMA GreatestIs ==
    ASSUME NEW n \in Nat, NEW S \in SUBSET (0 .. n), S # {}
    PROVE  Max(S) \in S /\ \A y \in S : y <= Max(S)
<1> DEFINE T == {k \in Nat : n - k \in S}
<1>1. PICK x \in S : TRUE
  OBVIOUS
<1>2. n - x \in T
  <2>1. x \in 0 .. n /\ n - x \in Nat /\ n - (n - x) = x
    BY <1>1
  <2> QED
    BY <1>1, <2>1
<1>3. T \in SUBSET Nat /\ T # {}
  BY <1>2
<1>4. PICK t \in T : \A m \in T : t <= m
  BY <1>3, Least
<1>5. t \in Nat /\ n - t \in S
  BY <1>4
<1>6. ASSUME NEW y \in S
      PROVE  n - t >= y
  <2>1. y \in 0 .. n /\ n - y \in Nat /\ n - (n - y) = y
    OBVIOUS
  <2>2. n - y \in T
    BY <2>1
  <2>3. t <= n - y
    BY <1>4, <2>2
  <2> QED
    BY <1>5, <2>1, <2>3
<1>7. \E m \in S : \A y \in S : m >= y
  BY <1>5, <1>6
<1>8. Max(S) \in S /\ \A y \in S : Max(S) >= y
  BY <1>7 DEF Max
<1>9. \A y \in S : y \in 0 .. n
  OBVIOUS
<1> QED
  BY <1>8, <1>9

\* The places a listing has seen.
SeenPlaces(places, n) == {places[j] : j \in 1 .. n}

\* What a listing keeps of them: the least ones, as many as it may.
IsKept(kept, places, cap, n) ==
    /\ kept \subseteq SeenPlaces(places, n)
    /\ Cardinality(kept) = IF n <= cap THEN n ELSE cap
    /\ n <= cap => kept = SeenPlaces(places, n)
    /\ \A x \in SeenPlaces(places, n) \ kept, y \in kept : y < x

\* The places of N entries, each once.
ArePlaces(places, N) ==
    /\ places \in [1 .. N -> 1 .. N]
    /\ \A i, j \in 1 .. N : i # j => places[i] # places[j]

\* One entry more.
LEMMA KeptGrows ==
    ASSUME NEW N \in Nat, NEW cap \in Nat, NEW n \in Nat, n + 1 <= N,
           NEW places, ArePlaces(places, N), NEW kept, IsKept(kept, places, cap, n)
    PROVE  IsKept(Pushed(kept, places[n + 1], cap), places, cap, n + 1)
<1> DEFINE p == places[n + 1]
           more == kept \cup {p}
           next == Pushed(kept, p, cap)
           seen == SeenPlaces(places, n)
<1>1. n + 1 \in 1 .. N /\ \A j \in 1 .. n : j \in 1 .. N /\ j # n + 1
  OBVIOUS
<1>2. SeenPlaces(places, n + 1) = seen \cup {p}
  <2>1. 1 .. (n + 1) = (1 .. n) \cup {n + 1}
    OBVIOUS
  <2> QED
    BY <2>1 DEF SeenPlaces
<1>3. p \in 1 .. N /\ p \notin seen /\ seen \in SUBSET (1 .. N)
  BY <1>1 DEF ArePlaces, SeenPlaces
<1>4. next = IF Cardinality(more) > cap THEN more \ {Max(more)} ELSE more
  BY DEF Pushed
<1> HIDE DEF p, next, seen
<1>5. /\ kept \subseteq seen /\ Cardinality(kept) = (IF n <= cap THEN n ELSE cap)
      /\ n <= cap => kept = seen
      /\ \A x \in seen \ kept, y \in kept : y < x
  BY DEF IsKept, seen
<1>6. IsFiniteSet(kept) /\ IsFiniteSet(more)
  <2>1. IsFiniteSet(1 .. N)
    BY FS_Interval
  <2>2. kept \in SUBSET (1 .. N) /\ more \in SUBSET (1 .. N)
    BY <1>3, <1>5
  <2> QED
    BY <2>1, <2>2, FS_Subset
<1>7. Cardinality(more) = Cardinality(kept) + 1
  BY <1>3, <1>5, <1>6, FS_AddElement
<1>8. more \in SUBSET (1 .. N) /\ more # {} /\ p \in more /\ kept \subseteq more
  BY <1>3, <1>5
<1>9. \A x \in seen : x \in Int
  BY <1>3
<1>10. CASE n < cap
  <2>1. Cardinality(more) = n + 1 /\ kept = seen
    BY <1>5, <1>7, <1>10
  <2>2. next = more
    BY <1>4, <1>10, <2>1
  <2>3. next = seen \cup {p}
    BY <2>1, <2>2
  <2> QED
    BY <1>2, <1>10, <2>1, <2>2, <2>3 DEF IsKept, next, p, seen
<1>11. CASE ~(n < cap)
  <2>1. Cardinality(kept) = cap /\ Cardinality(more) = cap + 1
    BY <1>5, <1>7, <1>11
  <2> DEFINE m == Max(more)
  <2>2. m \in more /\ \A y \in more : y <= m
    <3>1. more \in SUBSET (0 .. N) /\ N \in Nat
      BY <1>1, <1>8
    <3> QED
      BY <1>8, <3>1, GreatestIs
  <2> HIDE DEF m
  <2>3. next = more \ {m}
    BY <1>4, <2>1 DEF m
  <2>4. Cardinality(next) = cap
    <3>1. Cardinality(more \ {m}) = Cardinality(more) - 1
      BY <1>6, <2>2, FS_RemoveElement
    <3>2. cap + 1 - 1 = cap
      OBVIOUS
    <3> QED
      BY <2>1, <2>3, <3>1, <3>2
  <2>5. ASSUME NEW x \in (seen \cup {p}) \ next, NEW y \in next
        PROVE  y < x
    <3>1. y \in more /\ y # m /\ y \in Int /\ m \in Int /\ y <= m
      BY <1>8, <2>2, <2>3
    <3>2. CASE x = m
      BY <3>1, <3>2
    <3>3. CASE x # m
      <4>1. x \in seen \ kept
        BY <2>3, <3>3
      <4>2. x \in Int
        BY <1>9, <4>1
      <4>3. CASE y \in kept
        BY <1>5, <4>1, <4>3
      <4>4. CASE y \notin kept
        <5>1. y = p /\ m \in kept
          BY <2>2, <3>1, <4>4
        <5>2. m < x
          BY <1>5, <4>1, <5>1
        <5> QED
          BY <3>1, <4>2, <5>2
      <4> QED
        BY <4>3, <4>4
    <3> QED
      BY <3>2, <3>3
  <2>6. next \subseteq seen \cup {p}
    BY <1>5, <2>3
  <2>7. /\ Cardinality(next) = IF n + 1 <= cap THEN n + 1 ELSE cap
        /\ ~(n + 1 <= cap)
    BY <1>11, <2>4
  <2> QED
    BY <1>2, <2>5, <2>6, <2>7 DEF IsKept, next, p, seen
<1> QED
  BY <1>10, <1>11

\* The function Listing puts in order the end of.
IsListing(kept, places, cap) ==
    kept = [n \in 0 .. Len(places) |->
               IF n = 0 THEN {} ELSE Pushed(kept[n - 1], places[n], cap)]

\* A listing goes through the entries one by one, and keeps the least.
LEMMA ListingIs ==
    ASSUME NEW N \in Nat, NEW cap \in Nat, NEW places, ArePlaces(places, N)
    PROVE  \E kept : IsKept(kept, places, cap, N) /\ Listing(places, cap) = InOrder(kept)
<1> DEFINE chosen == CHOOSE kept : IsListing(kept, places, cap)
           step == [x \in (SUBSET (1 .. N)) \X (1 .. N) |-> Pushed(x[1], places[x[2]], cap)]
<1>0. Len(places) = N /\ \A n \in 1 .. N : places[n] \in 1 .. N
  BY DEF ArePlaces
<1>1. Listing(places, cap) = InOrder(chosen[N])
  BY <1>0 DEF Listing, IsListing
<1>2. ASSUME NEW K \in SUBSET (1 .. N), NEW n \in 1 .. N
      PROVE  Pushed(K, places[n], cap) \in SUBSET (1 .. N)
  BY <1>0 DEF Pushed
<1>3. step \in [(SUBSET (1 .. N)) \X (1 .. N) -> SUBSET (1 .. N)]
  BY <1>2
<1>4. ASSUME NEW K \in SUBSET (1 .. N), NEW n \in 1 .. N
      PROVE  step[<<K, n>>] = Pushed(K, places[n], cap)
  OBVIOUS
<1> HIDE DEF step
<1>5. PICK walk : IsWalk(walk, SUBSET (1 .. N), step, {}, N)
  <2>1. {} \in SUBSET (1 .. N)
    OBVIOUS
  <2> QED
    BY <1>3, <2>1, WalkExists
<1>6. IsListing(walk, places, cap)
  <2>1. ASSUME NEW n \in 0 .. N
        PROVE  walk[n] = IF n = 0 THEN {} ELSE Pushed(walk[n - 1], places[n], cap)
    <3>1. CASE n = 0
      BY <1>5, <3>1 DEF IsWalk
    <3>2. CASE n # 0
      <4>1. n \in 1 .. N /\ n - 1 \in 0 .. N
        BY <3>2
      <4>2. walk[n - 1] \in SUBSET (1 .. N) /\ walk[n] = step[<<walk[n - 1], n>>]
        BY <1>5, <4>1 DEF IsWalk
      <4> QED
        BY <1>4, <3>2, <4>1, <4>2
    <3> QED
      BY <3>1, <3>2
  <2>2. walk = [n \in 0 .. N |-> walk[n]]
    BY <1>5 DEF IsWalk
  <2> QED
    BY <1>0, <2>1, <2>2 DEF IsListing
<1>7. IsListing(chosen, places, cap)
  BY <1>6
<1> HIDE DEF chosen
<1>8. \A n \in 0 .. N : chosen[n] = IF n = 0 THEN {} ELSE Pushed(chosen[n - 1], places[n], cap)
  BY <1>0, <1>7 DEF IsListing
<1> DEFINE Fits(n) == IsKept(chosen[n], places, cap, n)
           M == {n \in Nat : n <= N => Fits(n)}
<1>9. Fits(0)
  <2>1. chosen[0] = {}
    BY <1>8
  <2>2. SeenPlaces(places, 0) = {}
    BY DEF SeenPlaces
  <2>3. Cardinality({}) = 0 /\ 0 <= cap
    BY FS_EmptySet
  <2> QED
    BY <2>1, <2>2, <2>3 DEF IsKept
<1>10. ASSUME NEW n \in Nat, n + 1 <= N, Fits(n)
       PROVE  Fits(n + 1)
  <2>1. n + 1 \in 0 .. N /\ n + 1 # 0 /\ (n + 1) - 1 = n
    BY <1>10
  <2>2. chosen[n + 1] = Pushed(chosen[n], places[n + 1], cap)
    BY <1>8, <2>1
  <2>3. IsKept(Pushed(chosen[n], places[n + 1], cap), places, cap, n + 1)
    BY <1>10, KeptGrows
  <2> QED
    BY <2>2, <2>3
<1> HIDE DEF Fits
<1>11. 0 \in M /\ \A n \in Nat : n \in M => n + 1 \in M
  <2>1. ASSUME NEW n \in Nat, n \in M, n + 1 <= N
        PROVE  Fits(n + 1)
    <3>1. n <= N
      BY <2>1
    <3> QED
      BY <1>10, <2>1, <3>1
  <2> QED
    BY <1>9, <2>1
<1>12. Nat \subseteq M
  <2> HIDE DEF M
  <2> QED
    BY <1>11, InductionOverASet
<1>13. Fits(N)
  BY <1>12
<1> QED
  BY <1>1, <1>13 DEF Fits

\* Of numbers up to n, each once, all are there.
LEMMA AllPlacesAreSeen ==
    ASSUME NEW N \in Nat, NEW places, ArePlaces(places, N)
    PROVE  SeenPlaces(places, N) = 1 .. N
<1>1. places \in Injection(1 .. N, 1 .. N)
  BY DEF ArePlaces, Injection, IsInjective
<1>2. IsFiniteSet(1 .. N)
  BY FS_Interval
<1>3. places \in Surjection(1 .. N, 1 .. N)
  BY <1>1, <1>2, FS_Injection
<1> QED
  BY <1>3 DEF Surjection, SeenPlaces

\* The least k numbers up to n are those up to k.
LEMMA LeastAre ==
    ASSUME NEW N \in Nat, NEW K \in SUBSET (1 .. N), \A x \in (1 .. N) \ K, y \in K : y < x
    PROVE  K = 1 .. Cardinality(K)
<1>1. CASE K = {}
  <2>1. Cardinality(K) = 0 /\ 1 .. 0 = {}
    BY <1>1, FS_EmptySet
  <2> QED
    BY <1>1, <2>1
<1>2. CASE K # {}
  <2>1. PICK m \in K : \A y \in K : y <= m
    <3>1. K \in SUBSET (0 .. N)
      OBVIOUS
    <3> QED
      BY <1>2, <3>1, GreatestIs
  <2>2. m \in 1 .. N
    OBVIOUS
  <2>3. ASSUME NEW z \in 1 .. m, z \notin K
        PROVE  FALSE
    <3>1. z \in (1 .. N) \ K
      BY <2>2, <2>3
    <3>2. m < z
      BY <3>1
    <3> QED
      BY <2>2, <3>2
  <2>4. K = 1 .. m
    <3>1. \A y \in K : y \in 1 .. N /\ y <= m
      BY <2>1
    <3>2. \A y \in K : y \in 1 .. m
      BY <2>2, <3>1
    <3> QED
      BY <2>3, <3>2
  <2>5. Cardinality(1 .. m) = m
    BY <2>2, FS_Interval
  <2> QED
    BY <2>4, <2>5
<1> QED
  BY <1>1, <1>2

\* The numbers up to k in their order are themselves.
LEMMA UptoInOrder ==
    ASSUME NEW q \in Nat, NEW s, Ascends(s, 1 .. q)
    PROVE  s = [k \in 1 .. q |-> k]
<1>1. Cardinality(1 .. q) = q
  BY FS_Interval
<1>2. s \in [1 .. q -> 1 .. q] /\ \A j, k \in 1 .. q : j < k => s[j] < s[k]
  BY <1>1 DEF Ascends
<1>3. \A k \in 1 .. q : s[k] \in 1 .. q
  BY <1>2
<1> DEFINE Up(k) == s[k] >= k
           M == {k \in Nat : k + 1 <= q => Up(k + 1)}
           Down(k) == s[q - k] <= q - k
           L == {k \in Nat : k + 1 <= q => Down(k)}
<1>4. 0 \in M
  <2>1. ASSUME 1 <= q
        PROVE  s[1] >= 1
    BY <1>3, <2>1
  <2> QED
    BY <2>1
<1>5. ASSUME NEW k \in Nat, k \in M
      PROVE  k + 1 \in M
  <2>1. ASSUME (k + 1) + 1 <= q
        PROVE  Up((k + 1) + 1)
    <3>1. k + 1 \in 1 .. q /\ (k + 1) + 1 \in 1 .. q /\ k + 1 < (k + 1) + 1
      BY <2>1
    <3>2. s[k + 1] < s[(k + 1) + 1] /\ s[k + 1] >= k + 1
      BY <1>2, <1>5, <3>1
    <3>3. s[k + 1] \in Int /\ s[(k + 1) + 1] \in Int
      BY <1>3, <3>1
    <3> QED
      BY <3>2, <3>3
  <2> QED
    BY <2>1
<1>6. 0 \in L
  <2>1. ASSUME 1 <= q
        PROVE  s[q] <= q
    BY <1>3, <2>1
  <2> QED
    BY <2>1
<1>7. ASSUME NEW k \in Nat, k \in L
      PROVE  k + 1 \in L
  <2>1. ASSUME (k + 1) + 1 <= q
        PROVE  Down(k + 1)
    <3>1. PICK a \in 1 .. q : a = q - (k + 1)
      BY <2>1
    <3>2. PICK b \in 1 .. q : b = q - k
      BY <2>1
    <3>3. a < b /\ b = a + 1 /\ k + 1 <= q
      BY <2>1, <3>1, <3>2
    <3>4. s[b] <= b
      BY <1>7, <3>2, <3>3
    <3>5. s[a] < s[b] /\ s[a] \in Int /\ s[b] \in Int
      BY <1>2, <1>3, <3>3
    <3>6. s[a] <= a
      BY <3>3, <3>4, <3>5
    <3> QED
      BY <3>1, <3>6
  <2> QED
    BY <2>1
<1>8. Nat \subseteq M /\ Nat \subseteq L
  <2> HIDE DEF M, L
  <2> QED
    BY <1>4, <1>5, <1>6, <1>7, InductionOverASet
<1>9. ASSUME NEW k \in 1 .. q
      PROVE  s[k] = k
  <2>1. PICK a \in Nat : a = k - 1
    OBVIOUS
  <2>2. s[k] >= k
    <3>1. a \in M /\ a + 1 = k /\ k <= q
      BY <1>8, <2>1
    <3> QED
      BY <3>1
  <2>3. PICK b \in Nat : b = q - k
    OBVIOUS
  <2>4. s[k] <= k
    <3>1. b \in L /\ q - b = k /\ b + 1 <= q
      BY <1>8, <2>3
    <3> QED
      BY <3>1
  <2>5. s[k] \in Int
    BY <1>3
  <2> QED
    BY <2>2, <2>4, <2>5
<1> QED
  BY <1>2, <1>9

\* An answer of ls is honest.
LEMMA ListsAreHonest ==
    ASSUME IsTree(tree), NEW cap \in Nat, NEW places \in SetToSeqs(1 .. Len(tree)),
           asked.tool = "ls", asked.cap = cap, answer = Ls(places, cap)
    PROVE  AnswersAreHonest
<1>1. PICK N \in Nat : N = Len(tree)
  BY DEF IsTree, AreFiles
<1>2. ArePlaces(places, N)
  <2>1. Cardinality(1 .. N) = N
    BY FS_Interval
  <2> QED
    BY <1>1, <2>1 DEF SetToSeqs, ArePlaces
<1>3. PICK kept : IsKept(kept, places, cap, N) /\ Listing(places, cap) = InOrder(kept)
  BY <1>2, ListingIs
<1> DEFINE q == IF N <= cap THEN N ELSE cap
<1>4. kept \in SUBSET (1 .. N) /\ Cardinality(kept) = q /\ \A x \in (1 .. N) \ kept, y \in kept : y < x
  BY <1>2, <1>3, AllPlacesAreSeen DEF IsKept
<1>5. kept = 1 .. q
  <2>1. kept = 1 .. Cardinality(kept)
    BY <1>4, LeastAre
  <2> QED
    BY <1>4, <2>1
<1>6. q \in Nat
  OBVIOUS
<1>7. q = Min({cap, Len(tree)})
  BY <1>1, LessOf
<1> HIDE DEF q
<1>8. InOrder(kept) = [k \in 1 .. q |-> k]
  <2>1. Ascends(InOrder(1 .. q), 1 .. q)
    BY <1>6, InOrderIs
  <2> QED
    BY <1>5, <1>6, <2>1, UptoInOrder
<1>9. answer.shown = Listing(places, cap)
  BY DEF Ls
<1> QED
  BY <1>3, <1>7, <1>8, <1>9 DEF AnswersAreHonest

-----------------------------------------------------------------------------
\* What was answered is what one of the tools returns of this tree.
AnswersAsAsked ==
    \/ asked.tool = "none"
    \/ \E c, cap \in Nat : /\ cap # 0 /\ asked = [tool |-> "grep", context |-> c, cap |-> cap]
                           /\ answer = Grep(tree, c, cap)
    \/ \E cap \in Nat : /\ asked = [tool |-> "find", context |-> 0, cap |-> cap]
                        /\ answer = Find(tree, cap)
    \/ \E cap \in Nat : /\ asked = [tool |-> "ls", context |-> 0, cap |-> cap]
                        /\ \E places \in SetToSeqs(1 .. Len(tree)) : answer = Ls(places, cap)

SearchInv == IsTree(tree) /\ AnswersAsAsked

\* A cap is a number, and not zero.
LEMMA CapsAre == \A limit \in Limits : CapOf(limit) \in Nat /\ CapOf(limit) # 0
<1> SUFFICES ASSUME NEW limit \in Limits
             PROVE  CapOf(limit) \in Nat /\ CapOf(limit) # 0
  OBVIOUS
<1>1. limit \in Nat /\ limit # 0 /\ Most \in Nat /\ Most # 0
  BY SearchConstants DEF Limits
<1> QED
  BY <1>1, LessOf DEF CapOf

\* Every answer is of the tree as it is.
LEMMA SearchInvNext == SearchInv /\ [SearchNext]_searchVars => SearchInv'
<1> SUFFICES ASSUME SearchInv, [SearchNext]_searchVars
             PROVE  SearchInv'
  OBVIOUS
<1>1. IsTree(tree)
  BY DEF SearchInv
<1>2. CASE UNCHANGED searchVars
  BY <1>2 DEF SearchInv, searchVars, AnswersAsAsked
<1>3. CASE SearchNext
  <2>1. tree' = tree /\ IsTree(tree)'
    BY <1>1, <1>3 DEF SearchNext
  <2>2. CASE Greps
    <3>1. PICK context \in 0 .. (MaxContext + 1), limit \in Limits :
             /\ asked' = [tool |-> "grep", context |-> Min({context, MaxContext}), cap |-> CapOf(limit)]
             /\ answer' = Grep(tree, Min({context, MaxContext}), CapOf(limit))
      BY <2>2 DEF Greps
    <3>2. CapOf(limit) \in Nat /\ CapOf(limit) # 0
      BY CapsAre
    <3>3. Min({context, MaxContext}) \in Nat
      BY LessOf, SearchConstants
    <3> QED
      BY <2>1, <3>1, <3>2, <3>3 DEF SearchInv, AnswersAsAsked
  <2>3. CASE Finds
    <3>1. PICK limit \in Limits :
             /\ asked' = [tool |-> "find", context |-> 0, cap |-> CapOf(limit)]
             /\ answer' = Find(tree, CapOf(limit))
      BY <2>3 DEF Finds
    <3>2. CapOf(limit) \in Nat
      BY CapsAre
    <3> QED
      BY <2>1, <3>1, <3>2 DEF SearchInv, AnswersAsAsked
  <2>4. CASE Lists
    <3>1. PICK limit \in Limits, places \in SetToSeqs(1 .. Len(tree)) :
             /\ asked' = [tool |-> "ls", context |-> 0, cap |-> CapOf(limit)]
             /\ answer' = Ls(places, CapOf(limit))
      BY <2>4 DEF Lists
    <3>2. CapOf(limit) \in Nat
      BY CapsAre
    <3> QED
      BY <2>1, <3>1, <3>2 DEF SearchInv, AnswersAsAsked
  <2> QED
    BY <1>3, <2>2, <2>3, <2>4 DEF SearchNext
<1> QED
  BY <1>2, <1>3

(* The search tools say what they leave out: an answer that says nothing is
   missing has every match, and what is shown is what it is shown as
   (grep.rs, collect.rs, find.rs, ls.rs). *)
THEOREM SearchesAreHonest == SearchSpec => []AnswersAreHonest
<1>1. SearchInit => SearchInv
  <2> SUFFICES ASSUME SearchInit
               PROVE  SearchInv
    OBVIOUS
  <2>1. IsTree(tree)
    BY TreesAre DEF SearchInit
  <2>2. asked.tool = "none"
    BY DEF SearchInit, NoSearch
  <2> QED
    BY <2>1, <2>2 DEF SearchInv, AnswersAsAsked
<1>2. SearchInv => AnswersAreHonest
  <2> SUFFICES ASSUME SearchInv
               PROVE  AnswersAreHonest
    OBVIOUS
  <2>1. IsTree(tree)
    BY DEF SearchInv
  <2>2. CASE asked.tool = "none"
    BY <2>2 DEF AnswersAreHonest
  <2>3. ASSUME NEW c \in Nat, NEW cap \in Nat, cap # 0, answer = Grep(tree, c, cap),
               asked = [tool |-> "grep", context |-> c, cap |-> cap]
        PROVE  AnswersAreHonest
    <3>1. asked.tool = "grep" /\ asked.context = c /\ asked.cap = cap
      BY <2>3
    <3> QED
      BY <2>1, <2>3, <3>1, GrepsAreHonest
  <2>4. ASSUME NEW cap \in Nat, answer = Find(tree, cap),
               asked = [tool |-> "find", context |-> 0, cap |-> cap]
        PROVE  AnswersAreHonest
    <3>1. asked.tool = "find" /\ asked.cap = cap
      BY <2>4
    <3> QED
      BY <2>1, <2>4, <3>1, FindsAreHonest
  <2>5. ASSUME NEW cap \in Nat, NEW places \in SetToSeqs(1 .. Len(tree)), answer = Ls(places, cap),
               asked = [tool |-> "ls", context |-> 0, cap |-> cap]
        PROVE  AnswersAreHonest
    <3>1. asked.tool = "ls" /\ asked.cap = cap
      BY <2>5
    <3> QED
      BY <2>1, <2>5, <3>1, ListsAreHonest
  <2> QED
    BY <2>2, <2>3, <2>4, <2>5 DEF SearchInv, AnswersAsAsked
<1> QED
  BY <1>1, <1>2, SearchInvNext, PTL DEF SearchSpec

-----------------------------------------------------------------------------
(* The screen.  First the terminal: a grid stays one.                      *)

\* What a cell of the terminal shows, and what is typed.
Cells == Letters \cup {LF, PROMPT, CONTINUATION, Word, Foreign} \cup Nat
Typed == Letters \cup {LF}

Terminal == [rows : Seq(Seq(Cells)), row : Nat, col : Nat, above : Int]

IsGrid(g) == g \in Terminal /\ g.row \in 1 .. Len(g.rows)

\* The cursor is in the last row.
IsLast(g) == g.row = Len(g.rows)

\* The greater of two numbers.
LEMMA GreaterOf ==
    ASSUME NEW a \in Int, NEW b \in Int
    PROVE  Max({a, b}) = IF a >= b THEN a ELSE b
<1> DEFINE most == IF a >= b THEN a ELSE b
<1>1. most \in {a, b} /\ \A y \in {a, b} : most >= y
  OBVIOUS
<1>2. ASSUME NEW x \in {a, b}, \A y \in {a, b} : x >= y
      PROVE  x = most
  BY <1>2
<1> HIDE DEF most
<1>3. Max({a, b}) \in {a, b} /\ \A y \in {a, b} : Max({a, b}) >= y
  BY <1>1 DEF Max
<1>4. Max({a, b}) = most
  BY <1>2, <1>3
<1> QED
  BY <1>4 DEF most

\* A function on 1..n is a sequence.
LEMMA IsASequenceOf ==
    ASSUME NEW S, NEW n \in Nat, NEW f \in [1 .. n -> S]
    PROVE  f \in Seq(S) /\ Len(f) = n
  OBVIOUS

\* Rows are added under the last, empty.
LEMMA PaddedIs ==
    ASSUME NEW rows \in Seq(Seq(Cells)), NEW count \in Nat
    PROVE  /\ Padded(rows, count) \in Seq(Seq(Cells))
           /\ Len(Padded(rows, count)) = IF Len(rows) >= count THEN Len(rows) ELSE count
           /\ \A r \in 1 .. Len(Padded(rows, count)) :
                 Padded(rows, count)[r] = IF r <= Len(rows) THEN rows[r] ELSE <<>>
<1> DEFINE n == IF Len(rows) >= count THEN Len(rows) ELSE count
           padded == [r \in 1 .. n |-> IF r <= Len(rows) THEN rows[r] ELSE <<>>]
<1>1. Len(rows) \in Nat /\ n \in Nat
  OBVIOUS
<1>2. Max({Len(rows), count}) = n
  BY <1>1, GreaterOf
<1>3. Padded(rows, count) = padded
  BY <1>2 DEF Padded
<1> HIDE DEF n
<1>4. ASSUME NEW r \in 1 .. n
      PROVE  (IF r <= Len(rows) THEN rows[r] ELSE <<>>) \in Seq(Cells)
  <2>1. CASE r <= Len(rows)
    <3>1. r \in 1 .. Len(rows)
      BY <1>1, <2>1
    <3> QED
      BY <2>1, <3>1
  <2>2. CASE ~(r <= Len(rows))
    BY <2>2
  <2> QED
    BY <2>1, <2>2
<1>5. padded \in [1 .. n -> Seq(Cells)]
  BY <1>4
<1>6. padded \in Seq(Seq(Cells)) /\ Len(padded) = n /\ \A r \in 1 .. n : padded[r] = IF r <= Len(rows) THEN rows[r] ELSE <<>>
  BY <1>1, <1>5
<1> QED
  BY <1>3, <1>6 DEF n

\* A line break goes to the next row.
LEMMA LineFeedKeeps ==
    ASSUME NEW g, IsGrid(g)
    PROVE  IsGrid(LineFeed(g)) /\ (IsLast(g) => IsLast(LineFeed(g)))
<1> DEFINE rows == Padded(g.rows, g.row + 1)
           above == IF g.above + g.row = Height THEN g.above - 1 ELSE g.above
<1>1. /\ g \in Terminal /\ g.rows \in Seq(Seq(Cells)) /\ g.row \in Nat /\ g.above \in Int
      /\ g.row <= Len(g.rows) /\ Len(g.rows) \in Nat
  BY DEF IsGrid, Terminal
<1>2. /\ rows \in Seq(Seq(Cells))
      /\ Len(rows) = IF Len(g.rows) >= g.row + 1 THEN Len(g.rows) ELSE g.row + 1
  BY <1>1, PaddedIs
<1>3. above \in Int
  BY <1>1
<1>4. LineFeed(g) = [g EXCEPT !.rows = rows, !.row = g.row + 1, !.col = 0, !.above = above]
  BY DEF LineFeed
<1> HIDE DEF rows, above
<1>5. /\ LineFeed(g) \in Terminal /\ LineFeed(g).row = g.row + 1 /\ LineFeed(g).rows = rows
  <2>1. g = [rows |-> g.rows, row |-> g.row, col |-> g.col, above |-> g.above]
    BY <1>1 DEF Terminal
  <2>2. LineFeed(g) = [rows |-> rows, row |-> g.row + 1, col |-> 0, above |-> above]
    BY <1>4, <2>1
  <2> QED
    BY <1>1, <1>2, <1>3, <2>2 DEF Terminal
<1> QED
  BY <1>1, <1>2, <1>5 DEF IsGrid, IsLast

\* A grid with other rows, and the cursor in another column of its row.
IsGridWith(h, g, rows, col) == h = [g EXCEPT !.rows = rows, !.col = col]

\* It is a grid still.
LEMMA GridWith ==
    ASSUME NEW g \in Terminal, NEW rows \in Seq(Seq(Cells)), NEW col \in Nat,
           NEW h, IsGridWith(h, g, rows, col)
    PROVE  h \in Terminal /\ h.rows = rows /\ h.row = g.row
<1>1. h \in Terminal
  BY DEF Terminal, IsGridWith
<1>2. h.rows = rows
  BY DEF Terminal, IsGridWith
<1>3. h.row = g.row
  BY DEF Terminal, IsGridWith
<1> QED
  BY <1>1, <1>2, <1>3

\* A cell is put in the row of the cursor, or in the next.
LEMMA PutCellKeeps ==
    ASSUME NEW g, IsGrid(g), NEW cell \in Cells, NEW margin
    PROVE  IsGrid(PutCell(g, cell, margin)) /\ (IsLast(g) => IsLast(PutCell(g, cell, margin)))
<1> DEFINE at == IF g.col < margin THEN g ELSE LineFeed(g)
           row == at.rows[at.row]
           put == IF at.col < Len(row) THEN [row EXCEPT ![at.col + 1] = cell] ELSE Append(row, cell)
           rows == [at.rows EXCEPT ![at.row] = put]
           next == [at EXCEPT !.rows = rows, !.col = at.col + 1]
<1>1. IsGrid(at) /\ (IsLast(g) => IsLast(at))
  BY LineFeedKeeps
<1>2. PutCell(g, cell, margin) = next
  BY DEF PutCell
<1> HIDE DEF at
<1>3. /\ at \in Terminal /\ at.rows \in Seq(Seq(Cells)) /\ at.row \in 1 .. Len(at.rows)
      /\ at.col \in Nat /\ row \in Seq(Cells)
  BY <1>1 DEF IsGrid, Terminal
<1> HIDE DEF row
<1>4. put \in Seq(Cells)
  <2>1. CASE at.col < Len(row)
    <3>1. at.col + 1 \in 1 .. Len(row)
      BY <1>3, <2>1
    <3>2. [row EXCEPT ![at.col + 1] = cell] \in Seq(Cells)
      BY <1>3, <3>1, ExceptSeq
    <3> QED
      BY <2>1, <3>2
  <2>2. CASE ~(at.col < Len(row))
    <3>1. Append(row, cell) \in Seq(Cells)
      BY <1>3
    <3> QED
      BY <2>2, <3>1
  <2> QED
    BY <2>1, <2>2
<1> HIDE DEF put
<1>5. rows \in Seq(Seq(Cells)) /\ Len(rows) = Len(at.rows)
  BY <1>3, <1>4, ExceptSeq
<1> HIDE DEF rows
<1>6. next \in Terminal /\ next.row = at.row /\ next.rows = rows
  <2>1. PICK col \in Nat : col = at.col + 1
    BY <1>3
  <2>2. IsGridWith(next, at, rows, col)
    BY <2>1 DEF IsGridWith
  <2> HIDE DEF next
  <2> QED
    BY <1>3, <1>5, <2>2, GridWith
<1> HIDE DEF next
<1> QED
  BY <1>1, <1>2, <1>3, <1>5, <1>6 DEF IsGrid, IsLast

\* The grids on the way of a text that starts in the last row, or anywhere.
Grids(last) == {g \in Terminal : IsGrid(g) /\ (last => IsLast(g))}

\* The function PutText is the end of.
IsPutting(after, g, text, margin) ==
    after = [n \in 0 .. Len(text) |->
                IF n = 0 THEN g
                ELSE IF text[n] = LF THEN LineFeed(after[n - 1])
                ELSE PutCell(after[n - 1], text[n], margin)]

\* A text leaves a grid, and the cursor in the last row if it was there.
LEMMA TextIsPut ==
    ASSUME NEW g, IsGrid(g), NEW text \in Seq(Cells), NEW margin
    PROVE  IsGrid(PutText(g, text, margin)) /\ (IsLast(g) => IsLast(PutText(g, text, margin)))
<1> DEFINE N == Len(text)
           S == Grids(IsLast(g))
           Next(h, n) == IF text[n] = LF THEN LineFeed(h) ELSE PutCell(h, text[n], margin)
           step == [x \in S \X (1 .. N) |-> Next(x[1], x[2])]
           chosen == CHOOSE after : IsPutting(after, g, text, margin)
<1>1. PutText(g, text, margin) = chosen[N]
  BY DEF PutText, IsPutting
<1>2. N \in Nat /\ g \in S
  BY DEF Grids, IsGrid
<1>3. ASSUME NEW h \in S, NEW n \in 1 .. N
      PROVE  Next(h, n) \in S
  <2>1. text[n] \in Cells /\ IsGrid(h) /\ (IsLast(g) => IsLast(h))
    BY <1>3 DEF Grids
  <2>2. \A t : IsGrid(t) => t \in Terminal
    BY DEF IsGrid
  <2>3. IsGrid(LineFeed(h)) /\ (IsLast(h) => IsLast(LineFeed(h)))
    BY <2>1, LineFeedKeeps
  <2>4. IsGrid(PutCell(h, text[n], margin)) /\ (IsLast(h) => IsLast(PutCell(h, text[n], margin)))
    BY <2>1, PutCellKeeps
  <2> QED
    BY <2>1, <2>2, <2>3, <2>4 DEF Grids
<1>4. ASSUME NEW h \in S, NEW n \in 1 .. N
      PROVE  step[<<h, n>>] = Next(h, n)
  OBVIOUS
<1>5. step \in [S \X (1 .. N) -> S]
  BY <1>3
<1> HIDE DEF step, S, N
<1>6. PICK walk : IsWalk(walk, S, step, g, N)
  BY <1>2, <1>5, WalkExists
<1>7. IsPutting(walk, g, text, margin)
  <2>1. ASSUME NEW n \in 0 .. N
        PROVE  walk[n] = IF n = 0 THEN g ELSE Next(walk[n - 1], n)
    <3>1. CASE n = 0
      BY <1>6, <3>1 DEF IsWalk
    <3>2. CASE n # 0
      <4>1. n \in 1 .. N /\ n - 1 \in 0 .. N
        BY <1>2, <3>2
      <4>2. walk[n] = step[<<walk[n - 1], n>>] /\ walk[n - 1] \in S
        BY <1>6, <4>1 DEF IsWalk
      <4> QED
        BY <1>4, <3>2, <4>1, <4>2
    <3> QED
      BY <3>1, <3>2
  <2>2. walk = [n \in 0 .. N |-> walk[n]]
    BY <1>6 DEF IsWalk
  <2> QED
    BY <2>1, <2>2 DEF IsPutting, N
<1>8. IsPutting(chosen, g, text, margin)
  BY <1>7
<1> HIDE DEF chosen
<1>9. /\ chosen[0] = g
      /\ \A n \in 1 .. N : chosen[n] = Next(chosen[n - 1], n)
  <2>1. chosen = [n \in 0 .. N |-> IF n = 0 THEN g ELSE Next(chosen[n - 1], n)]
    BY <1>8 DEF IsPutting, N
  <2>2. ASSUME NEW n \in 1 .. N
        PROVE  chosen[n] = Next(chosen[n - 1], n)
    <3>1. n \in 0 .. N /\ n # 0
      BY <1>2
    <3> HIDE DEF Next
    <3> QED
      BY <2>1, <3>1
  <2>3. 0 \in 0 .. N
    BY <1>2
  <2> HIDE DEF Next
  <2> QED
    BY <2>1, <2>2, <2>3
<1>10. \A n \in 0 .. N : chosen[n] \in S
  <2>1. \A n \in 1 .. N : chosen[n - 1] \in S => chosen[n] \in S
    BY <1>3, <1>9
  <2> QED
    BY <1>2, <1>9, <2>1, WalkStays
<1>11. chosen[N] \in S
  BY <1>2, <1>10
<1> QED
  BY <1>1, <1>11 DEF S, Grids

\* What is above the cursor is left to the scrollback.
LEMMA FromHereIs ==
    ASSUME NEW g, IsGrid(g)
    PROVE  /\ IsGrid(FromHere(g)) /\ FromHere(g).row = 1
           /\ IsLast(g) => Len(FromHere(g).rows) = 1
<1> DEFINE rows == SubSeq(g.rows, g.row, Len(g.rows))
<1>1. /\ g \in Terminal /\ g.rows \in Seq(Seq(Cells)) /\ g.row \in Nat /\ g.above \in Int
      /\ g.row \in 1 .. Len(g.rows) /\ Len(g.rows) \in Nat
  BY DEF IsGrid, Terminal
<1>2. rows \in Seq(Seq(Cells)) /\ Len(rows) = Len(g.rows) - g.row + 1
  BY <1>1
<1> HIDE DEF rows
<1>3. FromHere(g) = [rows |-> rows, row |-> 1, col |-> g.col, above |-> g.above + g.row - 1]
  <2>1. FromHere(g) = [g EXCEPT !.rows = rows, !.row = 1, !.above = g.above + g.row - 1]
    BY DEF FromHere, rows
  <2> QED
    BY <1>1, <2>1 DEF Terminal
<1>4. FromHere(g) \in Terminal /\ FromHere(g).row = 1 /\ FromHere(g).rows = rows
  <2>1. g.col \in Nat /\ g.above + g.row - 1 \in Int
    BY <1>1 DEF Terminal
  <2> QED
    BY <1>2, <1>3, <2>1 DEF Terminal
<1> QED
  BY <1>1, <1>2, <1>4 DEF IsGrid, IsLast

\* A row is written where the cursor goes, and no other is touched.
HasRowPut(h, g, row, at) ==
    /\ IsGrid(h) /\ h.row = at /\ h.above = g.above /\ h.rows[at] = row
    /\ Len(g.rows) <= Len(h.rows)
    /\ \A r \in 1 .. Len(h.rows) : r # at =>
          h.rows[r] = IF r <= Len(g.rows) THEN g.rows[r] ELSE <<>>

\* So it is, as long as the row is one of the terminal's and fits the window.
LEMMA PutRowIs ==
    ASSUME NEW g, IsGrid(g), NEW down \in Int, NEW row \in Seq(Cells), NEW at,
           at = g.row + down, at >= 1, g.above + at <= Height,
           NEW margin \in Nat, Len(row) <= margin, NEW h, h = PutRow(g, down, row, margin)
    PROVE  HasRowPut(h, g, row, at)
<1> DEFINE padded == Padded(g.rows, at)
           rows == [padded EXCEPT ![at] = row]
<1>1. /\ g \in Terminal /\ g.rows \in Seq(Seq(Cells)) /\ g.row \in Nat /\ g.above \in Int
      /\ Len(g.rows) \in Nat /\ at \in Nat \ {0} /\ Height \in Nat /\ Len(row) \in Nat
  BY ScreenConstants DEF IsGrid, Terminal
<1>2. Min({Height - g.above, g.row + down}) = at
  <2>1. Height - g.above \in Int /\ at \in Int /\ at <= Height - g.above
    <3>1. PICK most \in Nat, above \in Int, place \in Nat :
            most = Height /\ above = g.above /\ place = at
      BY <1>1
    <3>2. above + place <= most
      BY <3>1
    <3>3. most - above \in Int /\ place <= most - above
      BY <3>2
    <3> QED
      BY <3>1, <3>3
  <2>2. Min({Height - g.above, at}) = at
    <3> DEFINE room == Height - g.above
    <3>1. room \in Int /\ at \in Int /\ at <= room
      BY <2>1
    <3> HIDE DEF room
    <3>2. Min({room, at}) = IF room <= at THEN room ELSE at
      BY <3>1, LessOf
    <3>3. (IF room <= at THEN room ELSE at) = at
      BY <3>1
    <3>4. Min({room, at}) = at
      BY <3>2, <3>3
    <3> QED
      BY <3>4 DEF room
  <2> QED
    BY <2>2
<1>3. /\ padded \in Seq(Seq(Cells))
      /\ Len(padded) = IF Len(g.rows) >= at THEN Len(g.rows) ELSE at
      /\ \A r \in 1 .. Len(padded) : padded[r] = IF r <= Len(g.rows) THEN g.rows[r] ELSE <<>>
  BY <1>1, PaddedIs
<1>4. PutRow(g, down, row, margin) = [g EXCEPT !.rows = rows, !.row = at, !.col = Len(row)]
  BY <1>2 DEF PutRow
<1>5. h = [rows |-> rows, row |-> at, col |-> Len(row), above |-> g.above]
  <2>1. g = [rows |-> g.rows, row |-> g.row, col |-> g.col, above |-> g.above]
    BY <1>1 DEF Terminal
  <2> HIDE DEF rows
  <2> QED
    BY <1>4, <2>1
<1> HIDE DEF padded
<1>6. at \in 1 .. Len(padded)
  BY <1>1, <1>3
<1>7. rows \in Seq(Seq(Cells)) /\ Len(rows) = Len(padded)
      /\ \A r \in 1 .. Len(rows) : rows[r] = IF r = at THEN row ELSE padded[r]
  BY <1>3, <1>6, ExceptSeq
<1> HIDE DEF rows
<1>8. h \in Terminal /\ h.rows = rows /\ h.row = at /\ h.above = g.above
  BY <1>1, <1>5, <1>7 DEF Terminal
<1>9. Len(g.rows) <= Len(rows)
  BY <1>1, <1>3, <1>7
<1>10. \A r \in 1 .. Len(rows) : r # at => rows[r] = IF r <= Len(g.rows) THEN g.rows[r] ELSE <<>>
  BY <1>3, <1>7
<1>11. rows[at] = row /\ at \in 1 .. Len(rows)
  BY <1>6, <1>7
<1> QED
  BY <1>8, <1>9, <1>10, <1>11 DEF IsGrid, HasRowPut

-----------------------------------------------------------------------------
(* The drawing of a frame, over what was drawn before.                     *)

\* A frame that fits under the cursor, and what was drawn fits, on rows.
Drawable(g, drawn, frame) ==
    /\ IsGrid(g) /\ drawn.at \in Nat /\ g.row - drawn.at >= 1
    /\ drawn.previous \in Seq(Seq(Cells)) /\ frame \in Seq(Seq(Cells)) /\ frame # <<>>
    /\ ~MeetsTheBottom(g, drawn, frame)
    /\ ~MeetsTheBottom(g, drawn, drawn.previous)
    /\ \A k \in 1 .. Len(drawn.previous) : g.row - drawn.at + k - 1 \in 1 .. Len(g.rows)

\* What was drawn before is there.
Held(g, drawn) ==
    \A k \in 1 .. Len(drawn.previous) : g.rows[g.row - drawn.at + k - 1] = drawn.previous[k]

\* A row of the frame, or of what is cleared under it.
RowOf(frame, k) == IF k <= Len(frame) THEN frame[k] ELSE <<>>

\* A row that does not differ is left as it was.
RowLeft(g, drawn, frame, k) ==
    IF Differs(drawn, frame, k) THEN RowOf(frame, k) ELSE g.rows[g.row - drawn.at + k - 1]

\* What was drawn of a frame, down to its row n: the rows that differ are the
\* frame's, and no other was touched.
IsDrawn(st, g, drawn, frame, n) ==
    LET top == g.row - drawn.at
        rows == st.grid.rows
    IN  /\ IsGrid(st.grid) /\ st.at \in Nat
        /\ st.grid.row - st.at = top /\ st.grid.above = g.above
        /\ Len(g.rows) <= Len(rows)
        /\ \A k \in 1 .. n : top + k - 1 \in 1 .. Len(rows) /\ rows[top + k - 1] = RowLeft(g, drawn, frame, k)
        /\ \A r \in 1 .. Len(rows) : r < top \/ r > top + n - 1 =>
              rows[r] = IF r <= Len(g.rows) THEN g.rows[r] ELSE <<>>

\* The rows a drawing goes through.
RowsToGo(drawn, frame) ==
    IF Len(frame) >= Len(drawn.previous) THEN Len(frame) ELSE Len(drawn.previous)

\* Row n + 1 of the frame, written if it differs.
DrawnOn(st, drawn, frame, k, margin) ==
    IF Differs(drawn, frame, k) THEN Written(st, frame, k, margin) ELSE st

\* The numbers a drawing counts with.
LEMMA DrawableTypes ==
    ASSUME NEW g, NEW drawn, NEW frame, Drawable(g, drawn, frame)
    PROVE  /\ g.row \in Nat /\ g.above \in Int /\ g.rows \in Seq(Seq(Cells)) /\ Len(g.rows) \in Nat
           /\ g.row \in 1 .. Len(g.rows) /\ drawn.at \in Nat /\ g.row - drawn.at >= 1
           /\ Len(frame) \in Nat /\ Len(frame) >= 1 /\ Len(drawn.previous) \in Nat
           /\ RowsToGo(drawn, frame) \in Nat
           /\ \A k \in 1 .. RowsToGo(drawn, frame) : g.above + (g.row - drawn.at + k - 1) <= Height
<1>1. /\ g.row \in Nat /\ g.above \in Int /\ g.rows \in Seq(Seq(Cells)) /\ Len(g.rows) \in Nat
      /\ g.row \in 1 .. Len(g.rows)
  BY DEF Drawable, IsGrid, Terminal
<1>2. /\ Len(frame) \in Nat /\ Len(frame) >= 1 /\ Len(drawn.previous) \in Nat
      /\ drawn.at \in Nat /\ g.row - drawn.at >= 1
  BY DEF Drawable
<1>3. RowsToGo(drawn, frame) \in Nat
  BY <1>2 DEF RowsToGo
<1>4. /\ g.above + g.row - drawn.at + Len(frame) - 1 <= Height
      /\ g.above + g.row - drawn.at + Len(drawn.previous) - 1 <= Height
  <2>1. /\ ~(g.above + g.row - drawn.at + Len(frame) - 1 > Height)
        /\ ~(g.above + g.row - drawn.at + Len(drawn.previous) - 1 > Height)
    BY DEF Drawable, MeetsTheBottom
  <2>2. PICK above \in Int, row \in Nat, at \in Nat, a \in Nat, b \in Nat, most \in Nat :
          /\ above = g.above /\ row = g.row /\ at = drawn.at /\ most = Height
          /\ a = Len(frame) /\ b = Len(drawn.previous)
    BY <1>1, <1>2, ScreenConstants
  <2>3. ~(above + row - at + a - 1 > most) /\ ~(above + row - at + b - 1 > most)
    BY <2>1, <2>2
  <2>4. above + row - at + a - 1 <= most /\ above + row - at + b - 1 <= most
    BY <2>3
  <2> QED
    BY <2>2, <2>4
<1>5. ASSUME NEW k \in 1 .. RowsToGo(drawn, frame)
      PROVE  g.above + (g.row - drawn.at + k - 1) <= Height
  <2>1. Height \in Nat /\ k \in Nat /\ (k <= Len(frame) \/ k <= Len(drawn.previous))
    BY <1>2, ScreenConstants DEF RowsToGo
  <2>2. PICK above \in Int, top \in Int : above = g.above /\ top = g.row - drawn.at
    BY <1>1, <1>2
  <2>3. above + top + Len(frame) - 1 <= Height /\ above + top + Len(drawn.previous) - 1 <= Height
    BY <1>1, <1>2, <1>4, <2>2
  <2>4. PICK a \in Nat, b \in Nat, most \in Nat :
          a = Len(frame) /\ b = Len(drawn.previous) /\ most = Height
    BY <1>2, <2>1
  <2>5. above + top + a - 1 <= most /\ above + top + b - 1 <= most /\ (k <= a \/ k <= b)
    BY <2>1, <2>3, <2>4
  <2>6. above + (top + k - 1) <= most
    BY <2>5
  <2> QED
    BY <2>2, <2>4, <2>6
<1> QED
  BY <1>1, <1>2, <1>3, <1>5

\* A drawing goes on by one row.
LEMMA DrawnOnIs ==
    ASSUME NEW g, NEW drawn, NEW frame, Drawable(g, drawn, frame),
           NEW n \in Nat, n + 1 <= RowsToGo(drawn, frame),
           NEW margin \in Nat, ~WrapsAround(drawn, frame, margin),
           NEW st, IsDrawn(st, g, drawn, frame, n)
    PROVE  IsDrawn(DrawnOn(st, drawn, frame, n + 1, margin), g, drawn, frame, n + 1)
<1> DEFINE top == g.row - drawn.at
           next == DrawnOn(st, drawn, frame, n + 1, margin)
<1>1. /\ g.row \in Nat /\ g.above \in Int /\ Len(g.rows) \in Nat /\ drawn.at \in Nat
      /\ Len(frame) \in Nat /\ Len(drawn.previous) \in Nat /\ top \in Nat /\ top >= 1
      /\ g.above + (top + n) <= Height
  <2>1. n + 1 \in 1 .. RowsToGo(drawn, frame)
    BY DrawableTypes
  <2> QED
    BY <2>1, DrawableTypes
<1>2. /\ IsGrid(st.grid) /\ st.at \in Nat
      /\ st.grid.row - st.at = top /\ st.grid.above = g.above /\ Len(g.rows) <= Len(st.grid.rows)
      /\ \A k \in 1 .. n : top + k - 1 \in 1 .. Len(st.grid.rows) /\ st.grid.rows[top + k - 1] = RowLeft(g, drawn, frame, k)
      /\ \A r \in 1 .. Len(st.grid.rows) : r < top \/ r > top + n - 1 =>
            st.grid.rows[r] = IF r <= Len(g.rows) THEN g.rows[r] ELSE <<>>
  BY DEF IsDrawn
<1>3. st.grid.row \in Nat /\ Len(st.grid.rows) \in Nat
  BY <1>2 DEF IsGrid, Terminal
<1>4. CASE Differs(drawn, frame, n + 1)
  <2> DEFINE row == RowOf(frame, n + 1)
             down == n - st.at
             h == PutRow(st.grid, down, row, margin)
  <2>1. row \in Seq(Cells) /\ Len(row) <= margin
    <3>1. CASE n + 1 <= Len(frame)
      <4>1. n + 1 \in 1 .. Len(frame) /\ frame \in Seq(Seq(Cells))
        BY <1>1, <3>1 DEF Drawable
      <4>2. PICK it \in Seq(Cells) : it = frame[n + 1]
        BY <4>1
      <4>3. n + 1 \in DOMAIN frame
        BY <4>1
      <4>4. ~(Len(it) > margin)
        BY <1>4, <4>2, <4>3 DEF WrapsAround
      <4>5. Len(it) \in Nat /\ Len(it) <= margin
        BY <4>2, <4>4
      <4> QED
        BY <3>1, <4>2, <4>5 DEF RowOf
    <3>2. CASE ~(n + 1 <= Len(frame))
      <4>1. row = <<>>
        BY <3>2 DEF RowOf
      <4>2. <<>> \in Seq(Cells) /\ Len(<<>>) = 0
        OBVIOUS
      <4>3. 0 <= margin
        BY DrawableTypes DEF Drawable
      <4> HIDE DEF row
      <4> QED
        BY <4>1, <4>2, <4>3
    <3> QED
      BY <3>1, <3>2
  <2>2. next = [grid |-> h, at |-> n]
    <3>1. (n + 1) - 1 = n
      OBVIOUS
    <3> QED
      BY <1>4, <3>1 DEF DrawnOn, Written, RowOf
  <2>12. RowLeft(g, drawn, frame, n + 1) = row
    BY <1>4 DEF RowLeft
  <2> HIDE DEF row
  <2>3. down \in Int /\ top + n = st.grid.row + down /\ top + n >= 1 /\ st.grid.above + (top + n) <= Height
    <3>1. st.grid.row - st.at = top /\ st.grid.above = g.above /\ st.at \in Nat
      BY <1>2
    <3> HIDE DEF top
    <3>2. PICK row_at \in Nat, at \in Nat, above \in Int, most \in Nat :
            row_at = st.grid.row /\ at = st.at /\ above = g.above /\ most = Height
      BY <1>1, <1>3, <3>1, ScreenConstants
    <3>3. row_at - at = top /\ above + (top + n) <= most
      BY <1>1, <3>1, <3>2
    <3>4. n - at \in Int /\ top + n = row_at + (n - at) /\ top + n >= 1
      BY <1>1, <3>3
    <3> QED
      BY <3>1, <3>2, <3>3, <3>4
  <2> HIDE DEF down
  <2>4. PICK at : at = top + n
    OBVIOUS
  <2>5. /\ IsGrid(h) /\ h.row = at /\ h.above = st.grid.above /\ h.rows[at] = row
        /\ Len(st.grid.rows) <= Len(h.rows)
        /\ \A r \in 1 .. Len(h.rows) : r # at =>
              h.rows[r] = IF r <= Len(st.grid.rows) THEN st.grid.rows[r] ELSE <<>>
    <3> HIDE DEF top
    <3>1. h = PutRow(st.grid, down, row, margin)
      OBVIOUS
    <3> HIDE DEF h
    <3>2. IsGrid(st.grid)
      BY <1>2
    <3>3. at = st.grid.row + down /\ at >= 1 /\ st.grid.above + at <= Height
      BY <2>3, <2>4
    <3>4. HasRowPut(h, st.grid, row, at)
      BY <2>1, <2>3, <3>1, <3>2, <3>3, PutRowIs
    <3> QED
      BY <3>4 DEF HasRowPut
  <2> HIDE DEF h, next, top
  <2>6. next.grid = h /\ next.at = n
    BY <2>2
  <2>7. Len(h.rows) \in Nat /\ at \in 1 .. Len(h.rows)
    BY <2>5 DEF IsGrid, Terminal
  <2>8. ASSUME NEW k \in 1 .. n + 1
        PROVE  /\ top + k - 1 \in 1 .. Len(h.rows)
               /\ h.rows[top + k - 1] = RowLeft(g, drawn, frame, k)
    <3>1. CASE k = n + 1
      <4>1. top + k - 1 = at
        BY <1>1, <2>4, <3>1
      <4> QED
        BY <2>5, <2>7, <2>12, <3>1, <4>1
    <3>2. CASE k # n + 1
      <4>1. k \in 1 .. n /\ top + k - 1 # at
        BY <1>1, <2>4, <3>2
      <4>2. /\ top + k - 1 \in 1 .. Len(st.grid.rows)
            /\ st.grid.rows[top + k - 1] = RowLeft(g, drawn, frame, k)
        BY <1>2, <4>1 DEF top
      <4>3. top + k - 1 \in 1 .. Len(h.rows) /\ top + k - 1 <= Len(st.grid.rows)
        BY <1>3, <2>5, <2>7, <4>2
      <4> QED
        BY <2>5, <4>1, <4>2, <4>3
    <3> QED
      BY <3>1, <3>2
  <2>9. ASSUME NEW r \in 1 .. Len(h.rows), r < top \/ r > top + (n + 1) - 1
        PROVE  h.rows[r] = IF r <= Len(g.rows) THEN g.rows[r] ELSE <<>>
    <3>1. r # at /\ (r < top \/ r > top + n - 1)
      BY <1>1, <2>4, <2>7, <2>9
    <3>2. h.rows[r] = IF r <= Len(st.grid.rows) THEN st.grid.rows[r] ELSE <<>>
      BY <2>5, <3>1
    <3>3. CASE r <= Len(st.grid.rows)
      <4>1. r \in 1 .. Len(st.grid.rows)
        BY <1>3, <2>7, <3>3
      <4>2. st.grid.rows[r] = IF r <= Len(g.rows) THEN g.rows[r] ELSE <<>>
        BY <1>2, <3>1, <4>1 DEF top
      <4> QED
        BY <3>2, <3>3, <4>2
    <3>4. CASE ~(r <= Len(st.grid.rows))
      <4>1. ~(r <= Len(g.rows))
        BY <1>1, <1>2, <1>3, <2>7, <3>4
      <4> QED
        BY <3>2, <3>4, <4>1
    <3> QED
      BY <3>3, <3>4
  <2>10. Len(g.rows) <= Len(h.rows)
    <3>1. Len(g.rows) <= Len(st.grid.rows) /\ Len(st.grid.rows) <= Len(h.rows)
      BY <1>2, <2>5
    <3>2. PICK a \in Nat, b \in Nat, c \in Nat :
            a = Len(g.rows) /\ b = Len(st.grid.rows) /\ c = Len(h.rows)
      BY <1>1, <1>3, <2>7
    <3>3. a <= b /\ b <= c
      BY <3>1, <3>2
    <3>4. a <= c
      BY <3>3
    <3> QED
      BY <3>2, <3>4
  <2>11. h.row - n = top /\ h.above = g.above
    BY <1>1, <1>2, <2>4, <2>5
  <2> QED
    BY <2>5, <2>6, <2>8, <2>9, <2>10, <2>11 DEF IsDrawn, next, top
<1>5. CASE ~Differs(drawn, frame, n + 1)
  <2>1. next = st
    BY <1>5 DEF DrawnOn
  <2>2. n + 1 <= Len(drawn.previous) /\ RowLeft(g, drawn, frame, n + 1) = g.rows[top + n]
    <3>1. g.row - drawn.at + (n + 1) - 1 = top + n
      BY <1>1
    <3> QED
      BY <1>1, <1>5, <3>1 DEF Differs, RowLeft
  <2>3. top + n \in 1 .. Len(g.rows)
    <3>1. n + 1 \in 1 .. Len(drawn.previous)
      BY <1>1, <2>2
    <3>2. g.row - drawn.at + (n + 1) - 1 \in 1 .. Len(g.rows)
      BY <3>1 DEF Drawable
    <3>3. g.row - drawn.at + (n + 1) - 1 = top + n
      BY <1>1
    <3> QED
      BY <3>2, <3>3
  <2> HIDE DEF next, top
  <2>4. /\ top + n \in 1 .. Len(st.grid.rows)
        /\ st.grid.rows[top + n] = RowLeft(g, drawn, frame, n + 1)
    <3>1. top + n \in 1 .. Len(st.grid.rows) /\ top + n > top + n - 1 /\ top + n <= Len(g.rows)
      <4>1. Len(g.rows) <= Len(st.grid.rows)
        BY <1>2
      <4>2. PICK a \in Nat, b \in Nat : a = Len(g.rows) /\ b = Len(st.grid.rows)
        BY <1>1, <1>3
      <4>3. a <= b /\ top + n \in 1 .. a /\ top \in Nat
        BY <1>1, <2>3, <4>1, <4>2 DEF top
      <4>4. top + n \in 1 .. b /\ top + n > top + n - 1 /\ top + n <= a
        BY <4>3
      <4> QED
        BY <4>2, <4>4
    <3>2. st.grid.rows[top + n] = IF top + n <= Len(g.rows) THEN g.rows[top + n] ELSE <<>>
      BY <1>2, <3>1 DEF top
    <3> QED
      BY <2>2, <3>1, <3>2
  <2>5. ASSUME NEW k \in 1 .. n + 1
        PROVE  /\ top + k - 1 \in 1 .. Len(st.grid.rows)
               /\ st.grid.rows[top + k - 1] = RowLeft(g, drawn, frame, k)
    <3>1. CASE k = n + 1
      <4>1. top + k - 1 = top + n
        BY <1>1, <3>1
      <4> QED
        BY <2>4, <3>1, <4>1
    <3>2. CASE k # n + 1
      <4>1. k \in 1 .. n
        BY <3>2
      <4> QED
        BY <1>2, <4>1 DEF top
    <3> QED
      BY <3>1, <3>2
  <2>6. ASSUME NEW r \in 1 .. Len(st.grid.rows), r < top \/ r > top + (n + 1) - 1
        PROVE  st.grid.rows[r] = IF r <= Len(g.rows) THEN g.rows[r] ELSE <<>>
    <3>1. r < top \/ r > top + n - 1
      BY <1>1, <1>3, <2>6
    <3> QED
      BY <1>2, <3>1 DEF top
  <2> QED
    BY <1>2, <2>1, <2>5, <2>6 DEF IsDrawn, next, top
<1> QED
  BY <1>4, <1>5

\* The function Rendered is the end of.
IsRendering(after, g, drawn, frame, margin) ==
    after = [k \in 0 .. Max({Len(frame), Len(drawn.previous)}) |->
                IF k = 0 THEN [grid |-> g, at |-> drawn.at]
                ELSE IF Differs(drawn, frame, k) THEN Written(after[k - 1], frame, k, margin)
                ELSE after[k - 1]]

\* Before the first row nothing was touched.
LEMMA NothingDrawnYet ==
    ASSUME NEW g, NEW drawn, NEW frame, Drawable(g, drawn, frame)
    PROVE  IsDrawn([grid |-> g, at |-> drawn.at], g, drawn, frame, 0)
<1> DEFINE st == [grid |-> g, at |-> drawn.at]
<1>1. st.grid = g /\ st.at = drawn.at
  OBVIOUS
<1> HIDE DEF st
<1>2. /\ IsGrid(g) /\ drawn.at \in Nat /\ Len(g.rows) \in Nat
      /\ \A r \in 1 .. Len(g.rows) : r <= Len(g.rows)
  BY DrawableTypes DEF Drawable
<1> QED
  BY <1>1, <1>2 DEF IsDrawn, st

\* A drawing is one of the whole frame, and of all it clears under it.
LEMMA RenderedIs ==
    ASSUME NEW g, NEW drawn, NEW frame, Drawable(g, drawn, frame),
           NEW margin \in Nat, ~WrapsAround(drawn, frame, margin)
    PROVE  IsDrawn(Rendered(g, drawn, frame, margin), g, drawn, frame, RowsToGo(drawn, frame))
<1> DEFINE N == RowsToGo(drawn, frame)
           start == [grid |-> g, at |-> drawn.at]
           S == [grid : Terminal, at : Nat]
           Good(st, k) == IsDrawn(st, g, drawn, frame, k)
           Next(st, k) == IF Good(st, k - 1) THEN DrawnOn(st, drawn, frame, k, margin) ELSE st
           step == [x \in S \X (1 .. N) |-> Next(x[1], x[2])]
           chosen == CHOOSE after : IsRendering(after, g, drawn, frame, margin)
<1>1. N \in Nat /\ Max({Len(frame), Len(drawn.previous)}) = N
  <2>1. Len(frame) \in Int /\ Len(drawn.previous) \in Int /\ N \in Nat
    BY DrawableTypes
  <2> QED
    BY <2>1, GreaterOf DEF RowsToGo
<1>2. Rendered(g, drawn, frame, margin) = chosen[N]
  BY <1>1 DEF Rendered, IsRendering
<1>3. start \in S /\ Good(start, 0)
  BY NothingDrawnYet DEF Drawable, IsGrid
<1> HIDE DEF N, start
<1>4. ASSUME NEW st, NEW k \in 1 .. N, Good(st, k - 1)
      PROVE  Good(DrawnOn(st, drawn, frame, k, margin), k)
  <2>1. PICK n \in Nat : n = k - 1
    BY <1>1
  <2>2. n + 1 = k /\ n + 1 <= RowsToGo(drawn, frame)
    BY <1>1, <2>1 DEF N
  <2>3. IsDrawn(st, g, drawn, frame, n)
    BY <1>4, <2>1
  <2>4. IsDrawn(DrawnOn(st, drawn, frame, n + 1, margin), g, drawn, frame, n + 1)
    BY <2>2, <2>3, DrawnOnIs
  <2> QED
    BY <2>2, <2>4
<1>5. ASSUME NEW st \in S, NEW k \in 1 .. N
      PROVE  Next(st, k) \in S
  <2>1. CASE Good(st, k - 1)
    <3>1. Good(DrawnOn(st, drawn, frame, k, margin), k)
      BY <1>4, <2>1
    <3>2. CASE Differs(drawn, frame, k)
      <4>1. PICK h, n : Written(st, frame, k, margin) = [grid |-> h, at |-> n]
        BY DEF Written
      <4>2. IsGrid(h) /\ n \in Nat
        BY <3>1, <3>2, <4>1 DEF IsDrawn, DrawnOn
      <4>3. DrawnOn(st, drawn, frame, k, margin) \in S
        BY <3>2, <4>1, <4>2 DEF IsGrid, DrawnOn
      <4> QED
        BY <2>1, <4>3
    <3>3. CASE ~Differs(drawn, frame, k)
      BY <2>1, <3>3 DEF DrawnOn
    <3> QED
      BY <3>2, <3>3
  <2>2. CASE ~Good(st, k - 1)
    BY <2>2
  <2> QED
    BY <2>1, <2>2
<1>6. ASSUME NEW st \in S, NEW k \in 1 .. N
      PROVE  step[<<st, k>>] = Next(st, k)
  OBVIOUS
<1>7. step \in [S \X (1 .. N) -> S]
  BY <1>5
<1> HIDE DEF step, S, Good
<1>8. PICK walk : IsWalk(walk, S, step, start, N)
  BY <1>1, <1>3, <1>7, WalkExists
<1>9. /\ walk[0] = start /\ walk = [k \in 0 .. N |-> walk[k]]
      /\ \A k \in 1 .. N : walk[k] = Next(walk[k - 1], k)
  <2>1. ASSUME NEW k \in 1 .. N
        PROVE  walk[k] = Next(walk[k - 1], k)
    <3>1. k - 1 \in 0 .. N
      BY <1>1
    <3>2. walk[k - 1] \in S /\ walk[k] = step[<<walk[k - 1], k>>]
      BY <1>8, <3>1 DEF IsWalk
    <3> QED
      BY <1>6, <3>2
  <2> QED
    BY <1>8, <2>1 DEF IsWalk
<1>10. \A k \in 0 .. N : Good(walk[k], k)
  <2> DEFINE M == {k \in Nat : k <= N => Good(walk[k], k)}
  <2>1. 0 \in M
    BY <1>3, <1>9
  <2>2. ASSUME NEW k \in Nat, k \in M
        PROVE  k + 1 \in M
    <3>1. SUFFICES ASSUME k + 1 <= N PROVE Good(walk[k + 1], k + 1)
      OBVIOUS
    <3>2. k + 1 \in 1 .. N /\ (k + 1) - 1 = k /\ Good(walk[k], k)
      BY <1>1, <2>2, <3>1
    <3>3. walk[k + 1] = DrawnOn(walk[k], drawn, frame, k + 1, margin)
      BY <1>9, <3>2
    <3> QED
      BY <1>4, <3>2, <3>3
  <2> HIDE DEF M
  <2>3. Nat \subseteq M
    BY <2>1, <2>2, InductionOverASet
  <2> QED
    BY <1>1, <2>3 DEF M
<1>11. IsRendering(walk, g, drawn, frame, margin)
  <2>1. ASSUME NEW k \in 0 .. N
        PROVE  walk[k] = IF k = 0 THEN [grid |-> g, at |-> drawn.at]
                         ELSE IF Differs(drawn, frame, k) THEN Written(walk[k - 1], frame, k, margin)
                         ELSE walk[k - 1]
    <3>1. CASE k = 0
      BY <1>9, <3>1 DEF start
    <3>2. CASE k # 0
      <4>1. k \in 1 .. N /\ k - 1 \in 0 .. N
        BY <1>1, <3>2
      <4>2. walk[k] = DrawnOn(walk[k - 1], drawn, frame, k, margin)
        BY <1>9, <1>10, <4>1
      <4> QED
        BY <3>2, <4>2 DEF DrawnOn
    <3> QED
      BY <3>1, <3>2
  <2> QED
    BY <1>1, <1>9, <2>1 DEF IsRendering
<1>12. IsRendering(chosen, g, drawn, frame, margin)
  BY <1>11
<1> HIDE DEF chosen
<1>13. /\ chosen[0] = start
       /\ \A k \in 1 .. N : chosen[k] = DrawnOn(chosen[k - 1], drawn, frame, k, margin)
  <2>1. chosen = [k \in 0 .. N |->
                IF k = 0 THEN [grid |-> g, at |-> drawn.at]
                ELSE IF Differs(drawn, frame, k) THEN Written(chosen[k - 1], frame, k, margin)
                ELSE chosen[k - 1]]
    BY <1>1, <1>12 DEF IsRendering
  <2>2. ASSUME NEW k \in 1 .. N
        PROVE  chosen[k] = DrawnOn(chosen[k - 1], drawn, frame, k, margin)
    <3>1. k \in 0 .. N /\ k # 0
      BY <1>1
    <3> QED
      BY <2>1, <3>1 DEF DrawnOn
  <2>3. 0 \in 0 .. N
    BY <1>1
  <2> QED
    BY <2>1, <2>2, <2>3 DEF start
<1>14. \A k \in 0 .. N : Good(chosen[k], k)
  <2> DEFINE M == {k \in Nat : k <= N => Good(chosen[k], k)}
  <2>1. 0 \in M
    BY <1>3, <1>13
  <2>2. ASSUME NEW k \in Nat, k \in M
        PROVE  k + 1 \in M
    <3>1. SUFFICES ASSUME k + 1 <= N PROVE Good(chosen[k + 1], k + 1)
      OBVIOUS
    <3>2. k + 1 \in 1 .. N /\ (k + 1) - 1 = k /\ Good(chosen[k], k)
      BY <1>1, <2>2, <3>1
    <3>3. chosen[k + 1] = DrawnOn(chosen[k], drawn, frame, k + 1, margin)
      BY <1>13, <3>2
    <3> QED
      BY <1>4, <3>2, <3>3
  <2> HIDE DEF M
  <2>3. Nat \subseteq M
    BY <2>1, <2>2, InductionOverASet
  <2> QED
    BY <1>1, <2>3 DEF M
<1> QED
  BY <1>1, <1>2, <1>14 DEF Good, N

\* What a drawing leaves: the frame, where what was drawn before it was there,
\* and under it what was under both frames.
Shows(end, g, drawn, frame, top) ==
    /\ IsGrid(end.grid) /\ end.at \in Nat
    /\ end.grid.row - end.at = top /\ end.grid.above = g.above
    /\ \A k \in 1 .. Len(frame) : top + k - 1 \in 1 .. Len(end.grid.rows)
    /\ Held(g, drawn) => \A k \in 1 .. Len(frame) : end.grid.rows[top + k - 1] = frame[k]
    /\ (\A r \in 1 .. Len(g.rows) : r >= top + RowsToGo(drawn, frame) => g.rows[r] = <<>>)
       => \A r \in 1 .. Len(end.grid.rows) : r >= top + Len(frame) => end.grid.rows[r] = <<>>

\* A drawing does, where there is room for it.
LEMMA DrawingShows ==
    ASSUME NEW g, NEW drawn, NEW frame, Drawable(g, drawn, frame),
           NEW margin \in Nat, ~WrapsAround(drawn, frame, margin),
           NEW end, end = Rendered(g, drawn, frame, margin), NEW top, top = g.row - drawn.at
    PROVE  Shows(end, g, drawn, frame, top)
<1> DEFINE N == RowsToGo(drawn, frame)
           rows == end.grid.rows
<1>1. IsDrawn(end, g, drawn, frame, N)
  BY RenderedIs
<1>2. /\ N \in Nat /\ Len(frame) \in Nat /\ Len(frame) <= N /\ top \in Nat /\ top >= 1
      /\ Len(g.rows) \in Nat
  BY DrawableTypes DEF RowsToGo
<1> HIDE DEF N
<1>3. /\ IsGrid(end.grid) /\ end.at \in Nat
      /\ end.grid.row - end.at = top /\ end.grid.above = g.above
      /\ \A k \in 1 .. N : top + k - 1 \in 1 .. Len(rows) /\ rows[top + k - 1] = RowLeft(g, drawn, frame, k)
      /\ \A r \in 1 .. Len(rows) : r < top \/ r > top + N - 1 =>
            rows[r] = IF r <= Len(g.rows) THEN g.rows[r] ELSE <<>>
  BY <1>1 DEF IsDrawn
<1>4. Len(rows) \in Nat
  BY <1>3 DEF IsGrid, Terminal
<1>5. ASSUME NEW k \in 1 .. Len(frame)
      PROVE  top + k - 1 \in 1 .. Len(rows) /\ (Held(g, drawn) => rows[top + k - 1] = frame[k])
  <2>1. k \in 1 .. N /\ k <= Len(frame) /\ k \in Nat
    BY <1>2
  <2>2. top + k - 1 \in 1 .. Len(rows) /\ rows[top + k - 1] = RowLeft(g, drawn, frame, k)
    BY <1>3, <2>1
  <2>3. CASE Differs(drawn, frame, k)
    BY <2>1, <2>2, <2>3 DEF RowLeft, RowOf
  <2>4. CASE ~Differs(drawn, frame, k)
    <3>1. Len(drawn.previous) \in Nat /\ ~(k > Len(drawn.previous)) /\ frame[k] = drawn.previous[k]
      BY <2>4, DrawableTypes DEF Differs
    <3>2. k \in 1 .. Len(drawn.previous)
      BY <2>1, <3>1
    <3>3. Held(g, drawn) => g.rows[g.row - drawn.at + k - 1] = frame[k]
      BY <3>1, <3>2 DEF Held
    <3> QED
      BY <2>2, <2>4, <3>3 DEF RowLeft
  <2> QED
    BY <2>3, <2>4
<1>6. ASSUME \A r \in 1 .. Len(g.rows) : r >= top + N => g.rows[r] = <<>>,
             NEW r \in 1 .. Len(rows), r >= top + Len(frame)
      PROVE  rows[r] = <<>>
  <2>1. CASE r <= top + N - 1
    <3>1. PICK k \in 1 .. N : r = top + k - 1 /\ ~(k <= Len(frame))
      <4>1. r - top + 1 \in 1 .. N /\ r = top + (r - top + 1) - 1 /\ ~(r - top + 1 <= Len(frame))
        BY <1>2, <1>4, <1>6, <2>1
      <4> QED
        BY <4>1
    <3>2. rows[r] = RowLeft(g, drawn, frame, k)
      BY <1>3, <3>1
    <3>3. k > Len(frame)
      BY <1>2, <3>1
    <3> QED
      BY <3>1, <3>2, <3>3 DEF RowLeft, RowOf, Differs
  <2>2. CASE ~(r <= top + N - 1)
    <3>1. r > top + N - 1 /\ r >= top + N
      BY <1>2, <1>4, <2>2
    <3>2. rows[r] = IF r <= Len(g.rows) THEN g.rows[r] ELSE <<>>
      BY <1>3, <3>1
    <3>3. r <= Len(g.rows) => g.rows[r] = <<>>
      <4>1. r <= Len(g.rows) => r \in 1 .. Len(g.rows)
        BY <1>2, <1>4
      <4> QED
        BY <1>6, <3>1, <4>1
    <3> QED
      BY <3>2, <3>3
  <2> QED
    BY <2>1, <2>2
<1> QED
  BY <1>3, <1>5, <1>6 DEF N, Shows

-----------------------------------------------------------------------------
(* The frame of the panel is one.                                          *)

\* The function Logical is the end of.
IsSplitting(lines, text) ==
    lines = [n \in 0 .. Len(text) |->
                IF n = 0 THEN << <<>> >>
                ELSE LET made == lines[n - 1]
                     IN  IF text[n] = LF THEN Append(made, <<>>)
                         ELSE [made EXCEPT ![Len(made)] = Append(@, text[n])]]

\* Lines, and one at least.
Broken == {lines \in Seq(Seq(Typed)) : Len(lines) >= 1}

\* One character more goes to the last line, or starts one.
SplitOn(made, ch) ==
    IF ch = LF THEN Append(made, <<>>) ELSE [made EXCEPT ![Len(made)] = Append(@, ch)]

\* There are as many lines as there were, or one more.
LEMMA SplitOnIs ==
    ASSUME NEW made \in Broken, NEW ch \in Typed
    PROVE  SplitOn(made, ch) \in Broken
<1>1. made \in Seq(Seq(Typed)) /\ Len(made) \in Nat /\ Len(made) >= 1
  BY DEF Broken
<1>2. CASE ch = LF
  <2>1. <<>> \in Seq(Typed)
    OBVIOUS
  <2>2. Append(made, <<>>) \in Seq(Seq(Typed)) /\ Len(Append(made, <<>>)) = Len(made) + 1
    BY <1>1, <2>1
  <2> QED
    BY <1>1, <1>2, <2>2 DEF SplitOn, Broken
<1>3. CASE ch # LF
  <2>1. Len(made) \in 1 .. Len(made)
    BY <1>1
  <2>2. made[Len(made)] \in Seq(Typed)
    BY <1>1, <2>1
  <2>3. PICK line \in Seq(Typed) : line = Append(made[Len(made)], ch)
    <3>1. Append(made[Len(made)], ch) \in Seq(Typed)
      BY <2>2
    <3> QED
      BY <3>1
  <2>4. /\ [made EXCEPT ![Len(made)] = line] \in Seq(Seq(Typed))
        /\ Len([made EXCEPT ![Len(made)] = line]) = Len(made)
    BY <1>1, <2>1, ExceptSeq
  <2>5. SplitOn(made, ch) = [made EXCEPT ![Len(made)] = line]
    BY <1>3, <2>3 DEF SplitOn
  <2> QED
    BY <1>1, <2>4, <2>5 DEF Broken
<1> QED
  BY <1>2, <1>3

\* A text has lines.
LEMMA LogicalIs ==
    ASSUME NEW text \in Seq(Typed)
    PROVE  Logical(text) \in Broken
<1> DEFINE N == Len(text)
           one == << <<>> >>
           step == [x \in Broken \X (1 .. N) |-> SplitOn(x[1], text[x[2]])]
           chosen == CHOOSE lines : IsSplitting(lines, text)
<1>1. Logical(text) = chosen[N]
  BY DEF Logical, IsSplitting
<1>2. N \in Nat /\ one \in Broken
  BY DEF Broken
<1>3. ASSUME NEW made \in Broken, NEW n \in 1 .. N
      PROVE  SplitOn(made, text[n]) \in Broken
  BY SplitOnIs
<1>4. ASSUME NEW made \in Broken, NEW n \in 1 .. N
      PROVE  step[<<made, n>>] = SplitOn(made, text[n])
  OBVIOUS
<1>5. step \in [Broken \X (1 .. N) -> Broken]
  BY <1>3
<1> HIDE DEF step, N, one
<1>6. PICK walk : IsWalk(walk, Broken, step, one, N)
  BY <1>2, <1>5, WalkExists
<1>7. IsSplitting(walk, text)
  <2>1. ASSUME NEW n \in 0 .. N
        PROVE  walk[n] = IF n = 0 THEN one ELSE SplitOn(walk[n - 1], text[n])
    <3>1. CASE n = 0
      BY <1>6, <3>1 DEF IsWalk
    <3>2. CASE n # 0
      <4>1. n \in 1 .. N /\ n - 1 \in 0 .. N
        BY <1>2, <3>2
      <4>2. walk[n] = step[<<walk[n - 1], n>>] /\ walk[n - 1] \in Broken
        BY <1>6, <4>1 DEF IsWalk
      <4> QED
        BY <1>4, <3>2, <4>1, <4>2
    <3> QED
      BY <3>1, <3>2
  <2>2. walk = [n \in 0 .. N |-> walk[n]]
    BY <1>6 DEF IsWalk
  <2> QED
    BY <2>1, <2>2 DEF IsSplitting, SplitOn, N, one
<1>8. IsSplitting(chosen, text)
  BY <1>7
<1> HIDE DEF chosen
<1>9. /\ chosen[0] = one
      /\ \A n \in 1 .. N : chosen[n] = SplitOn(chosen[n - 1], text[n])
  <2>1. chosen = [n \in 0 .. N |-> IF n = 0 THEN one ELSE SplitOn(chosen[n - 1], text[n])]
    BY <1>8 DEF IsSplitting, SplitOn, N, one
  <2>2. ASSUME NEW n \in 1 .. N
        PROVE  chosen[n] = SplitOn(chosen[n - 1], text[n])
    <3>1. n \in 0 .. N /\ n # 0
      BY <1>2
    <3> QED
      BY <2>1, <3>1
  <2>3. 0 \in 0 .. N
    BY <1>2
  <2> QED
    BY <2>1, <2>2, <2>3
<1>10. \A n \in 0 .. N : chosen[n] \in Broken
  <2>1. \A n \in 1 .. N : chosen[n - 1] \in Broken => chosen[n] \in Broken
    BY <1>3, <1>9
  <2> QED
    BY <1>2, <1>9, <2>1, WalkStays
<1> QED
  BY <1>1, <1>2, <1>10

\* A part of a sequence has its elements.
LEMMA PartIsOfIt ==
    ASSUME NEW S, NEW s \in Seq(S), NEW m \in Nat, NEW n \in Nat, m >= 1, n <= Len(s)
    PROVE  SubSeq(s, m, n) \in Seq(S)
<1>1. \A i \in m .. n : i \in 1 .. Len(s)
  OBVIOUS
<1>2. \A i \in m .. n : s[i] \in S
  BY <1>1
<1> QED
  BY <1>2, SubSeqProperties

\* A line is cut into pieces.
LEMMA WrappedIs ==
    ASSUME NEW line \in Seq(Typed), NEW room \in Nat \ {0}
    PROVE  Wrapped(line, room) \in Seq(Seq(Typed))
<1> DEFINE many == (Len(line) + room - 1) \div room
           n == Max({1, many})
           piece(k) == SubSeq(line, (k - 1) * room + 1, Min({k * room, Len(line)}))
<1>1. Len(line) \in Nat /\ many \in Int
  OBVIOUS
<1>2. n \in Nat
  <2> HIDE DEF many
  <2> QED
    BY <1>1, GreaterOf
<1>3. ASSUME NEW k \in 1 .. n
      PROVE  piece(k) \in Seq(Typed)
  <2>1. PICK first \in Nat, last \in Nat : first = (k - 1) * room /\ last = k * room
    <3>1. k - 1 \in Nat /\ k \in Nat
      BY <1>2
    <3>2. (k - 1) * room \in Nat /\ k * room \in Nat
      BY <3>1
    <3> QED
      BY <3>2
  <2>2. PICK until \in Nat : until = Min({last, Len(line)}) /\ until <= Len(line)
    BY <1>1, LessOf
  <2>3. SubSeq(line, first + 1, until) \in Seq(Typed)
    <3>1. PICK m \in Nat : m = first + 1 /\ m >= 1
      OBVIOUS
    <3>2. SubSeq(line, m, until) \in Seq(Typed)
      BY <2>2, <3>1, PartIsOfIt
    <3> QED
      BY <3>1, <3>2
  <2> QED
    BY <2>1, <2>2, <2>3
<1>4. Wrapped(line, room) = [k \in 1 .. n |-> piece(k)]
  BY DEF Wrapped
<1> HIDE DEF n, piece
<1> QED
  BY <1>2, <1>3, <1>4

\* A row is cut at the margin.
LEMMA TruncatedIs ==
    ASSUME NEW row \in Seq(Cells), NEW margin \in Nat
    PROVE  /\ Truncated(row, margin) \in Seq(Cells) /\ Len(Truncated(row, margin)) <= margin
           /\ Len(row) <= margin => Truncated(row, margin) = row
<1>1. Len(row) \in Nat
  OBVIOUS
<1>2. PICK until \in Nat : /\ until = Min({Len(row), margin}) /\ until <= Len(row) /\ until <= margin
                           /\ Len(row) <= margin => until = Len(row)
  <2>1. PICK len \in Nat : len = Len(row)
    BY <1>1
  <2>2. Min({len, margin}) = IF len <= margin THEN len ELSE margin
    <3>1. len \in Int /\ margin \in Int
      OBVIOUS
    <3> QED
      BY <3>1, LessOf
  <2> QED
    BY <2>1, <2>2
<1>3. SubSeq(row, 1, until) \in Seq(Cells)
  <2>1. 1 \in Nat /\ 1 >= 1
    OBVIOUS
  <2> QED
    BY <1>2, <2>1, PartIsOfIt
<1>4. Len(SubSeq(row, 1, until)) = until
  BY <1>1, <1>2
<1>5. Len(row) <= margin => SubSeq(row, 1, until) = row
  <2> SUFFICES ASSUME Len(row) <= margin PROVE SubSeq(row, 1, until) = row
    OBVIOUS
  <2>1. until = Len(row)
    BY <1>2
  <2>2. SubSeq(row, 1, Len(row)) = row
    OBVIOUS
  <2> QED
    BY <2>1, <2>2
<1>6. Truncated(row, margin) = SubSeq(row, 1, until)
  BY <1>2 DEF Truncated
<1> QED
  BY <1>2, <1>3, <1>4, <1>5, <1>6

\* The rows of the editor.
LEMMA EditorRowsAre ==
    ASSUME NEW text \in Seq(Typed), NEW margin \in Nat \ {0}
    PROVE  EditorRows(text, margin) \in Seq(Seq(Cells))
<1> DEFINE room == Max({1, margin - RESERVED})
           lines == Logical(text)
           Prefix(i, k) == IF i = 1 /\ k = 1 THEN PROMPT ELSE CONTINUATION
           pieces(i) == Wrapped(lines[i], room)
           rows(i) == [k \in DOMAIN pieces(i) |-> <<Prefix(i, k)>> \o pieces(i)[k]]
<1>1. EditorRows(text, margin) = FlattenSeq([i \in DOMAIN lines |-> rows(i)])
  BY DEF EditorRows
<1>2. room \in Nat \ {0}
  <2>1. PICK w \in Int : w = margin - RESERVED
    BY DEF RESERVED
  <2> QED
    BY <2>1, GreaterOf
<1>3. lines \in Seq(Seq(Typed))
  BY LogicalIs DEF Broken
<1> HIDE DEF room, lines
<1>4. ASSUME NEW i \in DOMAIN lines
      PROVE  rows(i) \in Seq(Seq(Cells))
  <2>1. pieces(i) \in Seq(Seq(Typed))
    BY <1>2, <1>3, WrappedIs
  <2>2. PICK ps \in Seq(Seq(Typed)) : ps = pieces(i)
    BY <2>1
  <2>3. ASSUME NEW k \in DOMAIN ps
        PROVE  <<Prefix(i, k)>> \o ps[k] \in Seq(Cells)
    <3>1. PICK prefix \in Cells : prefix = Prefix(i, k)
      BY DEF Cells
    <3>2. Typed \subseteq Cells /\ ps[k] \in Seq(Typed)
      BY DEF Typed, Cells
    <3>3. ps[k] \in Seq(Cells)
      BY <3>2
    <3>4. <<prefix>> \o ps[k] \in Seq(Cells)
      BY <3>3
    <3> QED
      BY <3>1, <3>4
  <2>4. rows(i) = [k \in 1 .. Len(ps) |-> <<Prefix(i, k)>> \o ps[k]]
    BY <2>2
  <2> HIDE DEF rows, Prefix
  <2>5. Len(ps) \in Nat /\ DOMAIN ps = 1 .. Len(ps)
    OBVIOUS
  <2>6. rows(i) \in [1 .. Len(ps) -> Seq(Cells)]
    BY <2>3, <2>4, <2>5
  <2> QED
    BY <2>5, <2>6, IsASequenceOf
<1> HIDE DEF rows
<1>5. [i \in DOMAIN lines |-> rows(i)] \in Seq(Seq(Seq(Cells)))
  <2>1. Len(lines) \in Nat /\ DOMAIN lines = 1 .. Len(lines)
    BY <1>3
  <2>2. [i \in DOMAIN lines |-> rows(i)] \in [1 .. Len(lines) -> Seq(Seq(Cells))]
    BY <1>4, <2>1
  <2> QED
    BY <2>1, <2>2, IsASequenceOf
<1> QED
  BY <1>1, <1>5, FlattenType

\* The frame has rows, the footer at least, and none is wider than its width.
LEMMA PanelFrameIs ==
    ASSUME NEW ed, ed.text \in Seq(Typed), NEW count \in Nat, NEW margin \in Nat \ {0}
    PROVE  /\ PanelFrame(ed, count, margin) \in Seq(Seq(Cells)) /\ PanelFrame(ed, count, margin) # <<>>
           /\ \A k \in 1 .. Len(PanelFrame(ed, count, margin)) :
                 Len(PanelFrame(ed, count, margin)[k]) <= margin
<1>1. PICK above \in Seq(Seq(Cells)) : above = EditorRows(ed.text, margin)
  BY EditorRowsAre
<1>2. PICK footer \in Seq(Cells) : footer = Footer(count)
  <2>1. 2 \in Nat /\ Footer(count) \in [1 .. 2 -> Cells]
    BY DEF Footer, FooterCells, Cells
  <2>2. Footer(count) \in Seq(Cells)
    BY <2>1, IsASequenceOf
  <2> QED
    BY <2>2
<1>3. PICK rows \in Seq(Seq(Cells)) : rows = above \o <<footer>> /\ Len(rows) = Len(above) + 1
  <2>1. <<footer>> \in Seq(Seq(Cells)) /\ Len(<<footer>>) = 1
    OBVIOUS
  <2>2. above \o <<footer>> \in Seq(Seq(Cells)) /\ Len(above \o <<footer>>) = Len(above) + 1
    BY <2>1
  <2> QED
    BY <2>2
<1>4. Len(above) \in Nat /\ Len(rows) \in Nat \ {0} /\ DOMAIN rows = 1 .. Len(rows)
  BY <1>3
<1>5. PanelFrame(ed, count, margin) = [k \in 1 .. Len(rows) |-> Truncated(rows[k], margin)]
  BY <1>1, <1>2, <1>3, <1>4 DEF PanelFrame
<1>6. \A k \in 1 .. Len(rows) :
        Truncated(rows[k], margin) \in Seq(Cells) /\ Len(Truncated(rows[k], margin)) <= margin
  BY <1>4, TruncatedIs
<1>7. /\ PanelFrame(ed, count, margin) \in Seq(Seq(Cells))
      /\ Len(PanelFrame(ed, count, margin)) = Len(rows)
  BY <1>4, <1>5, <1>6
<1>8. \A k \in 1 .. Len(rows) : Len(PanelFrame(ed, count, margin)[k]) <= margin
  BY <1>5, <1>6
<1> QED
  BY <1>4, <1>7, <1>8

-----------------------------------------------------------------------------
(* The editor stays one.                                                   *)

\* An editor whose cursor is in its text, and what it shows in its history.
Editors == [text : Seq(Typed), cursor : Nat, history : Seq(Seq(Typed)),
            browsing : Nat, draft : Seq(Typed)]

IsEditor(ed) ==
    /\ ed \in Editors
    /\ ed.cursor <= Len(ed.text) /\ ed.browsing <= Len(ed.history)

IsMadeOf(ed, text, cursor, history, browsing, draft) ==
    ed = [text |-> text, cursor |-> cursor, history |-> history,
          browsing |-> browsing, draft |-> draft]

\* What an editor is made of.
LEMMA EditorOf ==
    ASSUME NEW ed, IsEditor(ed)
    PROVE  /\ ed.text \in Seq(Typed) /\ ed.cursor \in Nat /\ ed.history \in Seq(Seq(Typed))
           /\ ed.browsing \in Nat /\ ed.draft \in Seq(Typed)
           /\ ed.cursor <= Len(ed.text) /\ ed.browsing <= Len(ed.history)
           /\ IsMadeOf(ed, ed.text, ed.cursor, ed.history, ed.browsing, ed.draft)
BY DEF IsEditor, Editors, IsMadeOf

\* What makes one.
LEMMA EditorFrom ==
    ASSUME NEW text \in Seq(Typed), NEW cursor \in Nat, NEW history \in Seq(Seq(Typed)),
           NEW browsing \in Nat, NEW draft \in Seq(Typed),
           cursor <= Len(text), browsing <= Len(history),
           NEW ed, IsMadeOf(ed, text, cursor, history, browsing, draft)
    PROVE  IsEditor(ed)
BY DEF IsEditor, Editors, IsMadeOf

\* The text and the cursor change, and what is shown of the history.
IsEditedTo(next, ed, text, cursor) == next = [ed EXCEPT !.text = text, !.cursor = cursor]

IsRecalledTo(next, ed, entry, text, cursor) ==
    next = [ed EXCEPT !.browsing = entry, !.text = text, !.cursor = cursor]

IsPutBackTo(next, ed, text, cursor) ==
    next = [ed EXCEPT !.browsing = 0, !.text = text, !.cursor = cursor, !.draft = <<>>]

\* An editor with another text, and the cursor in it.
LEMMA EditedIs ==
    ASSUME NEW ed \in Editors, NEW text \in Seq(Typed), NEW cursor \in Nat,
           IsEditor(ed), cursor <= Len(text), NEW next, IsEditedTo(next, ed, text, cursor)
    PROVE  IsEditor(next)
<1>1. next \in Editors
  BY DEF Editors, IsEditedTo
<1>2. next.text = text
  BY DEF Editors, IsEditedTo
<1>3. next.cursor = cursor
  BY DEF Editors, IsEditedTo
<1>4. next.history = ed.history /\ next.browsing = ed.browsing
  BY DEF Editors, IsEditedTo
<1> QED
  BY <1>1, <1>2, <1>3, <1>4 DEF IsEditor

\* An editor that shows an entry of its history.
LEMMA RecalledIs ==
    ASSUME NEW ed \in Editors, NEW text \in Seq(Typed), NEW cursor \in Nat, NEW entry \in Nat,
           cursor <= Len(text), entry <= Len(ed.history),
           NEW next, IsRecalledTo(next, ed, entry, text, cursor)
    PROVE  IsEditor(next)
<1>1. next \in Editors
  BY DEF Editors, IsRecalledTo
<1>2. next.text = text
  BY DEF Editors, IsRecalledTo
<1>3. next.cursor = cursor
  BY DEF Editors, IsRecalledTo
<1>4. next.history = ed.history /\ next.browsing = entry
  BY DEF Editors, IsRecalledTo
<1> QED
  BY <1>1, <1>2, <1>3, <1>4 DEF IsEditor

\* An editor that shows its draft again.
LEMMA PutBackIs ==
    ASSUME NEW ed \in Editors, NEW text \in Seq(Typed), NEW cursor \in Nat, cursor <= Len(text),
           NEW next, IsPutBackTo(next, ed, text, cursor)
    PROVE  IsEditor(next)
<1>1. next \in Editors
  <2>1. <<>> \in Seq(Typed) /\ 0 \in Nat
    OBVIOUS
  <2> QED
    BY <2>1 DEF Editors, IsPutBackTo
<1>2. next.text = text
  BY DEF Editors, IsPutBackTo
<1>3. next.cursor = cursor
  BY DEF Editors, IsPutBackTo
<1>4. next.history = ed.history /\ next.browsing = 0
  BY DEF Editors, IsPutBackTo
<1>5. Len(ed.history) \in Nat
  BY DEF Editors
<1> QED
  BY <1>1, <1>2, <1>3, <1>4, <1>5 DEF IsEditor

\* The cursor may go anywhere in the text.
LEMMA MoveToIs ==
    ASSUME NEW ed, IsEditor(ed), NEW to \in Nat, to <= Len(ed.text)
    PROVE  IsEditor(MoveTo(ed, to))
<1>1. IsMadeOf(MoveTo(ed, to), ed.text, to, ed.history, ed.browsing, ed.draft)
  BY EditorOf DEF MoveTo, IsMadeOf
<1> QED
  BY <1>1, EditorOf, EditorFrom

\* A text goes in where the cursor is, and the cursor goes after it.
LEMMA InsertStrIs ==
    ASSUME NEW ed, IsEditor(ed), NEW text \in Seq(Typed)
    PROVE  IsEditor(InsertStr(ed, text))
<1>1. PICK old \in Seq(Typed), c \in Nat : old = ed.text /\ c = ed.cursor /\ c <= Len(old)
  BY EditorOf
<1> DEFINE new == SubSeq(old, 1, c) \o text \o SubSeq(old, c + 1, Len(old))
<1>2. Len(old) \in Nat /\ Len(text) \in Nat
  OBVIOUS
<1>3. PICK former \in Seq(Typed) : former = SubSeq(old, 1, c) /\ Len(former) = c
  <2>1. 1 \in Nat /\ 1 >= 1
    OBVIOUS
  <2>2. SubSeq(old, 1, c) \in Seq(Typed)
    BY <1>1, <2>1, PartIsOfIt
  <2>3. Len(SubSeq(old, 1, c)) = c
    BY <1>1, <1>2
  <2> QED
    BY <2>2, <2>3
<1>4. PICK after \in Seq(Typed) : after = SubSeq(old, c + 1, Len(old)) /\ Len(after) = Len(old) - c
  <2>1. c + 1 \in Nat /\ c + 1 >= 1
    OBVIOUS
  <2>2. SubSeq(old, c + 1, Len(old)) \in Seq(Typed)
    BY <1>1, <1>2, <2>1, PartIsOfIt
  <2>3. Len(SubSeq(old, c + 1, Len(old))) = Len(old) - c
    BY <1>1, <1>2
  <2> QED
    BY <2>2, <2>3
<1>5. new \in Seq(Typed) /\ Len(new) = Len(old) + Len(text)
  <2>1. former \o text \in Seq(Typed) /\ Len(former \o text) = Len(former) + Len(text)
    OBVIOUS
  <2>2. PICK front \in Seq(Typed) : front = former \o text /\ Len(front) = c + Len(text)
    BY <1>3, <2>1
  <2>3. front \o after \in Seq(Typed) /\ Len(front \o after) = Len(front) + Len(after)
    OBVIOUS
  <2>4. Len(front \o after) = Len(old) + Len(text)
    <3>1. PICK n \in Nat, m \in Nat, a \in Nat, b \in Nat :
            /\ n = Len(old) /\ m = Len(text) /\ a = Len(front) /\ b = Len(after)
            /\ a = c + m /\ b = n - c
      BY <1>2, <1>4, <2>2
    <3>2. a + b = n + m
      BY <3>1
    <3> QED
      BY <2>3, <3>1, <3>2
  <2>5. new = front \o after
    BY <1>3, <1>4, <2>2
  <2> QED
    BY <2>3, <2>4, <2>5
<1>6. IsEditedTo(InsertStr(ed, text), ed, new, c + Len(text))
  BY <1>1 DEF InsertStr, IsEditedTo
<1> HIDE DEF new
<1>7. c + Len(text) \in Nat /\ c + Len(text) <= Len(new)
  BY <1>1, <1>2, <1>5
<1> QED
  BY <1>5, <1>6, <1>7, EditedIs DEF IsEditor

\* A character is taken out.
LEMMA RemovedIs ==
    ASSUME NEW text \in Seq(Typed), NEW i \in 1 .. Len(text)
    PROVE  RemoveAt(text, i) \in Seq(Typed) /\ Len(RemoveAt(text, i)) = Len(text) - 1
<1>1. Len(text) \in Nat /\ i \in Nat /\ i - 1 \in Nat /\ i - 1 <= Len(text) /\ i >= 1
  OBVIOUS
<1>2. PICK former \in Seq(Typed) : former = SubSeq(text, 1, i - 1) /\ Len(former) = i - 1
  <2>1. 1 \in Nat /\ 1 >= 1
    OBVIOUS
  <2>2. SubSeq(text, 1, i - 1) \in Seq(Typed)
    BY <1>1, <2>1, PartIsOfIt
  <2>3. Len(SubSeq(text, 1, i - 1)) = i - 1
    BY <1>1
  <2> QED
    BY <2>2, <2>3
<1>3. PICK after \in Seq(Typed) : after = SubSeq(text, i + 1, Len(text)) /\ Len(after) = Len(text) - i
  <2>1. i + 1 \in Nat /\ i + 1 >= 1
    BY <1>1
  <2>2. SubSeq(text, i + 1, Len(text)) \in Seq(Typed)
    BY <1>1, <2>1, PartIsOfIt
  <2>3. Len(SubSeq(text, i + 1, Len(text))) = Len(text) - i
    BY <1>1
  <2> QED
    BY <2>2, <2>3
<1>4. RemoveAt(text, i) = former \o after
  BY <1>2, <1>3 DEF RemoveAt
<1>5. former \o after \in Seq(Typed) /\ Len(former \o after) = Len(former) + Len(after)
  OBVIOUS
<1>6. Len(former \o after) = Len(text) - 1
  <2>1. PICK n \in Nat, a \in Nat, b \in Nat :
          n = Len(text) /\ a = Len(former) /\ b = Len(after) /\ a = i - 1 /\ b = n - i
    BY <1>1, <1>2, <1>3
  <2>2. a + b = n - 1
    BY <1>1, <2>1
  <2> QED
    BY <1>5, <2>1, <2>2
<1> QED
  BY <1>4, <1>5, <1>6

\* The keys that delete.
LEMMA DeletesAre ==
    ASSUME NEW ed, IsEditor(ed)
    PROVE  IsEditor(Backspace(ed)) /\ IsEditor(Delete(ed))
<1>1. PICK old \in Seq(Typed), c \in Nat : old = ed.text /\ c = ed.cursor /\ c <= Len(old)
  BY EditorOf
<1>2. PICK n \in Nat : n = Len(old)
  OBVIOUS
<1>3. IsEditor(Backspace(ed))
  <2>1. CASE c = 0
    BY <1>1, <2>1 DEF Backspace
  <2>2. CASE c # 0
    <3>1. c \in 1 .. Len(old)
      BY <1>1, <1>2, <2>2
    <3>2. PICK new \in Seq(Typed) : new = RemoveAt(old, c) /\ Len(new) = Len(old) - 1
      BY <3>1, RemovedIs
    <3>3. IsEditedTo(Backspace(ed), ed, new, c - 1)
      BY <1>1, <2>2, <3>2 DEF Backspace, IsEditedTo
    <3>4. c - 1 \in Nat /\ c - 1 <= Len(new)
      BY <1>2, <3>1, <3>2
    <3>5. ed \in Editors
      BY DEF IsEditor
    <3> QED
      BY <3>3, <3>4, <3>5, EditedIs
  <2> QED
    BY <2>1, <2>2
<1>4. IsEditor(Delete(ed))
  <2>1. CASE c = n
    BY <1>1, <1>2, <2>1 DEF Delete
  <2>2. CASE c # n
    <3>1. c + 1 \in 1 .. Len(old)
      BY <1>1, <1>2, <2>2
    <3>2. PICK new \in Seq(Typed) : new = RemoveAt(old, c + 1) /\ Len(new) = Len(old) - 1
      BY <3>1, RemovedIs
    <3>3. Delete(ed) = [ed EXCEPT !.text = new]
      BY <1>1, <1>2, <2>2, <3>2 DEF Delete
    <3>4. c <= Len(new)
      BY <1>2, <3>1, <3>2
    <3>5. IsMadeOf(Delete(ed), new, c, ed.history, ed.browsing, ed.draft)
      BY <1>1, <3>3, EditorOf DEF IsMadeOf
    <3> QED
      BY <3>4, <3>5, EditorOf, EditorFrom
  <2> QED
    BY <2>1, <2>2
<1> QED
  BY <1>3, <1>4

\* The keys that move.
LEMMA MovesAre ==
    ASSUME NEW ed, IsEditor(ed)
    PROVE  /\ IsEditor(Left(ed)) /\ IsEditor(Right(ed))
           /\ IsEditor(Home(ed)) /\ IsEditor(End(ed))
<1>1. PICK old \in Seq(Typed), c \in Nat : old = ed.text /\ c = ed.cursor /\ c <= Len(old)
  BY EditorOf
<1>2. PICK n \in Nat : n = Len(old)
  OBVIOUS
<1>3. IsEditor(Left(ed))
  <2>1. c # 0 => c - 1 \in Nat /\ c - 1 <= Len(ed.text)
    BY <1>1, <1>2
  <2> QED
    BY <1>1, <2>1, MoveToIs DEF Left
<1>4. IsEditor(Right(ed))
  <2>1. c + 1 \in Int /\ n \in Int
    OBVIOUS
  <2>2. Min({c + 1, n}) = IF c + 1 <= n THEN c + 1 ELSE n
    <3>1. PICK d \in Int : d = c + 1
      BY <2>1
    <3>2. Min({d, n}) = IF d <= n THEN d ELSE n
      BY <2>1, LessOf
    <3> QED
      BY <3>1, <3>2
  <2>3. PICK to \in Nat : to = Min({c + 1, n}) /\ to <= n
    BY <2>2
  <2> QED
    BY <1>1, <1>2, <2>3, MoveToIs DEF Right
<1>5. IsEditor(Home(ed))
  <2> DEFINE S == {0} \cup {i \in 1 .. c : old[i] = LF}
  <2>1. S \in SUBSET (0 .. c) /\ S # {}
    OBVIOUS
  <2> HIDE DEF S
  <2>2. Max(S) \in S
    BY <2>1, GreatestIs
  <2>3. PICK to \in Nat : to = Max(S) /\ to <= Len(old)
    <3>1. Max(S) \in 0 .. c
      BY <2>1, <2>2
    <3> QED
      BY <1>1, <1>2, <3>1
  <2> QED
    BY <1>1, <2>3, MoveToIs DEF Home, S
<1>6. IsEditor(End(ed))
  <2> DEFINE S == {n} \cup {i \in c .. (n - 1) : old[i + 1] = LF}
  <2>1. S \in SUBSET Nat /\ S # {} /\ n \in S
    OBVIOUS
  <2> HIDE DEF S
  <2>2. \E x \in S : \A y \in S : x <= y
    BY <2>1, Least
  <2>3. Min(S) \in S /\ Min(S) <= n
    BY <2>1, <2>2 DEF Min
  <2>4. PICK to \in Nat : to = Min(S) /\ to <= Len(old)
    BY <1>2, <2>1, <2>3
  <2> QED
    BY <1>1, <1>2, <2>4, MoveToIs DEF End, S
<1> QED
  BY <1>3, <1>4, <1>5, <1>6

\* An entry of the history is shown.
LEMMA RecallIs ==
    ASSUME NEW ed, IsEditor(ed), NEW entry \in 1 .. Len(ed.history)
    PROVE  IsEditor(Recall(ed, entry))
<1>1. PICK text \in Seq(Typed) : text = ed.history[entry]
  BY EditorOf
<1>2. IsRecalledTo(Recall(ed, entry), ed, entry, text, Len(text))
  BY <1>1 DEF Recall, IsRecalledTo
<1>3. entry \in Nat /\ entry <= Len(ed.history) /\ Len(text) \in Nat /\ Len(text) <= Len(text)
  BY EditorOf
<1> QED
  BY <1>2, <1>3, RecalledIs DEF IsEditor

\* The keys that go through the history.
LEMMA BrowsesAre ==
    ASSUME NEW ed, IsEditor(ed)
    PROVE  IsEditor(BrowseBack(ed)) /\ IsEditor(BrowseForward(ed))
<1>1. PICK history \in Seq(Seq(Typed)), b \in Nat :
        history = ed.history /\ b = ed.browsing /\ b <= Len(history)
  BY EditorOf
<1>2. Len(history) \in Nat
  OBVIOUS
<1>3. IsEditor(BrowseBack(ed))
  <2>1. CASE history = <<>> \/ b = 1
    BY <1>1, <2>1 DEF BrowseBack
  <2>2. CASE history # <<>> /\ b > 1
    <3>1. b - 1 \in 1 .. Len(ed.history)
      BY <1>1, <1>2, <2>2
    <3>2. BrowseBack(ed) = Recall(ed, b - 1)
      BY <1>1, <2>2 DEF BrowseBack
    <3> QED
      BY <3>1, <3>2, RecallIs
  <2>3. CASE history # <<>> /\ b = 0
    <3> DEFINE put == [ed EXCEPT !.draft = ed.text]
    <3>1. IsMadeOf(put, ed.text, ed.cursor, ed.history, ed.browsing, ed.text)
      BY EditorOf DEF IsMadeOf
    <3> HIDE DEF put
    <3>2. IsEditor(put) /\ put.history = ed.history
      <4>1. IsEditor(put)
        BY <3>1, EditorOf, EditorFrom
      <4> QED
        BY <3>1, <4>1 DEF IsMadeOf
    <3>3. Len(history) \in 1 .. Len(put.history)
      BY <1>1, <1>2, <2>3, <3>2
    <3>4. BrowseBack(ed) = Recall(put, Len(history))
      BY <1>1, <2>3 DEF BrowseBack, put
    <3> QED
      BY <3>2, <3>3, <3>4, RecallIs
  <2> QED
    BY <1>1, <2>1, <2>2, <2>3
<1>4. IsEditor(BrowseForward(ed))
  <2>1. CASE b = 0
    BY <1>1, <2>1 DEF BrowseForward
  <2>2. CASE b \in 1 .. (Len(history) - 1)
    <3>1. b + 1 \in 1 .. Len(ed.history)
      BY <1>1, <1>2, <2>2
    <3>2. BrowseForward(ed) = Recall(ed, b + 1)
      <4>1. b # 0
        BY <2>2
      <4> QED
        BY <1>1, <2>2, <4>1 DEF BrowseForward
    <3> QED
      BY <3>1, <3>2, RecallIs
  <2>3. CASE b # 0 /\ b \notin 1 .. (Len(history) - 1)
    <3> DEFINE next == [ed EXCEPT !.browsing = 0, !.text = ed.draft,
                                  !.cursor = Len(ed.draft), !.draft = <<>>]
    <3>1. BrowseForward(ed) = next
      BY <1>1, <2>3 DEF BrowseForward
    <3>2. IsPutBackTo(next, ed, ed.draft, Len(ed.draft))
      BY DEF IsPutBackTo
    <3> HIDE DEF next
    <3>3. ed.draft \in Seq(Typed) /\ Len(ed.draft) \in Nat /\ Len(ed.draft) <= Len(ed.draft)
      BY EditorOf
    <3> QED
      BY <3>1, <3>2, <3>3, PutBackIs DEF IsEditor
  <2> QED
    BY <2>1, <2>2, <2>3
<1> QED
  BY <1>3, <1>4

\* An editor is emptied.
LEMMA NewEditorIs ==
    ASSUME NEW entries \in Seq(Seq(Typed))
    PROVE  IsEditor(NewEditor(entries))
<1>1. IsMadeOf(NewEditor(entries), <<>>, 0, entries, 0, <<>>)
  BY DEF NewEditor, IsMadeOf
<1>2. /\ 0 \in Nat /\ 0 <= Len(entries) /\ <<>> \in Seq(Typed) /\ 0 <= Len(<<>>)
  OBVIOUS
<1> QED
  BY <1>1, <1>2, EditorFrom

\* Whatever the key, and whatever is pasted.
LEMMA EditsAre ==
    ASSUME NEW ed, IsEditor(ed), NEW inserted \in SUBSET Seq(Typed),
           NEW next \in Edits(ed, inserted)
    PROVE  IsEditor(next)
<1>1. ASSUME NEW ch \in Letters \cup {LF}
      PROVE  IsEditor(InsertStr(ed, <<ch>>))
  <2>1. <<ch>> \in Seq(Typed)
    BY DEF Typed
  <2> QED
    BY <2>1, InsertStrIs
<1>2. ASSUME NEW text \in inserted
      PROVE  IsEditor(InsertStr(ed, text))
  BY InsertStrIs
<1>3. IsEditor(Discard(ed))
  BY EditorOf, NewEditorIs DEF Discard, Reset
<1> QED
  BY <1>1, <1>2, <1>3, DeletesAre, MovesAre, BrowsesAre DEF Edits

\* A submitted line goes to the history.
LEMMA SubmittedIs ==
    ASSUME NEW ed, IsEditor(ed)
    PROVE  IsEditor(Submitted(ed))
<1> DEFINE kept == IF ed.history # <<>> /\ Last(ed.history) = ed.text THEN ed
                   ELSE [ed EXCEPT !.history = Append(@, ed.text)]
<1>1. kept.history \in Seq(Seq(Typed))
  <2>1. Append(ed.history, ed.text) \in Seq(Seq(Typed))
    BY EditorOf
  <2>2. [ed EXCEPT !.history = Append(@, ed.text)].history = Append(ed.history, ed.text)
    BY EditorOf DEF IsMadeOf
  <2> QED
    BY <2>1, <2>2, EditorOf
<1>2. Submitted(ed) = NewEditor(kept.history)
  BY DEF Submitted, Reset
<1> HIDE DEF kept
<1> QED
  BY <1>1, <1>2, NewEditorIs

-----------------------------------------------------------------------------
(* The session: the frame drawn last is where the renderer has it.         *)

\* What the window tells: the last event nobody read has its width, and if all
\* are read, the renderer has it, unless a turn read the last of them.
WindowInv ==
    /\ cols \in Nat \ {0} /\ width \in Nat \ {0}
    /\ unheard \in Seq(Nat \ {0}) /\ missed \in BOOLEAN
    /\ unheard = <<>> /\ ~missed => width = cols
    /\ unheard # <<>> => unheard[Len(unheard)] = cols

\* What the invariant is about: nothing has covered the panel, and it has not
\* met the last row or the margin.
Followed == ~quitting /\ spoilt \cap {"other", "bottom", "wrapped"} = {}

Frame == PanelFrame(editor, tally, width)

SessionTypes == IsEditor(editor) /\ tally \in Nat /\ width \in Nat \ {0}

\* The frame the renderer knows of is the one of the editor as it is, under
\* the cursor of the grid, on rows of it.
PanelStands ==
    /\ IsGrid(grid) /\ Top >= 1
    /\ \E at \in Nat : renderer = [previous |-> Frame, at |-> at]
    /\ ~MeetsTheBottom(grid, renderer, Frame)
    /\ \A k \in 1 .. Len(Frame) : Top + k - 1 \in 1 .. Len(grid.rows)

\* And those rows show it.
PanelIsOn ==
    /\ RowsAreShown(Frame)
    /\ spoilt = {} => NothingBelow(Frame)

\* Among the events that nobody read, one has the window narrower than the
\* renderer takes it for: it will draw the frame anew.
NarrowerToHear == \E i \in 1 .. Len(unheard) : unheard[i] < width

\* Until then the rows may be cut.
ScreenInv == Followed => SessionTypes /\ PanelStands /\ (PanelIsOn \/ NarrowerToHear)

\* Where a frame may be drawn: on a grid, and what was drawn before has rows.
Ready(g, drawn) ==
    /\ IsGrid(g) /\ drawn.at \in Nat /\ g.row - drawn.at >= 1
    /\ drawn.previous \in Seq(Seq(Cells))
    /\ drawn.previous # <<>> => ~MeetsTheBottom(g, drawn, drawn.previous)
    /\ \A k \in 1 .. Len(drawn.previous) : g.row - drawn.at + k - 1 \in 1 .. Len(g.rows)

\* Nothing is under what is to be drawn over.
ClearUnder(g, drawn, frame) ==
    \A r \in 1 .. Len(g.rows) :
        r >= g.row - drawn.at + RowsToGo(drawn, frame) => g.rows[r] = <<>>

\* A frame that fits is drawable where one may be drawn.
LEMMA ReadyIsDrawable ==
    ASSUME NEW g, NEW drawn, Ready(g, drawn), NEW frame \in Seq(Seq(Cells)), frame # <<>>,
           ~MeetsTheBottom(g, drawn, frame)
    PROVE  Drawable(g, drawn, frame)
<1>1. ~MeetsTheBottom(g, drawn, drawn.previous)
  <2>1. CASE drawn.previous = <<>>
    <3>1. PICK above \in Int, row \in Nat, at \in Nat, n \in Nat, most \in Nat :
            /\ above = g.above /\ row = g.row /\ at = drawn.at /\ n = Len(frame) /\ most = Height
      <4>1. g.above \in Int /\ g.row \in Nat /\ drawn.at \in Nat
        BY DEF Ready, IsGrid, Terminal
      <4>2. Len(frame) \in Nat /\ Height \in Nat
        BY ScreenConstants
      <4> QED
        BY <4>1, <4>2
    <3>2. ~(above + row - at + n - 1 > most)
      BY <3>1 DEF MeetsTheBottom
    <3>3. ~(above + row - at + 0 - 1 > most)
      BY <3>2
    <3>4. Len(drawn.previous) = 0
      BY <2>1
    <3> QED
      BY <3>1, <3>3, <3>4 DEF MeetsTheBottom
  <2>2. CASE drawn.previous # <<>>
    BY <2>2 DEF Ready
  <2> QED
    BY <2>1, <2>2
<1> QED
  BY <1>1 DEF Ready, Drawable

\* The frame of the editor is one, before a step and after it.
LEMMA NextFrameIs ==
    ASSUME SessionTypes'
    PROVE  Frame' \in Seq(Seq(Cells)) /\ Frame' # <<>>
<1>1. editor'.text \in Seq(Typed) /\ tally' \in Nat /\ width' \in Nat \ {0}
  BY DEF SessionTypes, IsEditor, Editors
<1> QED
  BY <1>1, PanelFrameIs DEF Frame

\* A drawing leaves the panel standing, wherever it may be drawn, and on, if
\* what was drawn before was.
LEMMA DrawKeeps ==
    ASSUME NEW g, NEW drawn, NEW causes, Draw(g, drawn, causes), Ready(g, drawn),
           SessionTypes', Followed', cols' \in Nat
    PROVE  /\ PanelStands'
           /\ Held(g, drawn) /\ (causes = {} => ClearUnder(g, drawn, Frame')) => PanelIsOn'
<1> DEFINE frame == PanelFrame(editor', tally', width')
           end == Rendered(g, drawn, frame, cols')
<1>1. /\ grid' = end.grid /\ renderer' = [previous |-> frame, at |-> end.at]
      /\ spoilt' = causes \cup (IF MeetsTheBottom(g, drawn, frame) THEN {"bottom"} ELSE {})
                         \cup (IF WrapsAround(drawn, frame, cols') THEN {"wrapped"} ELSE {})
  BY DEF Draw
<1>2. /\ ~MeetsTheBottom(g, drawn, frame) /\ ~WrapsAround(drawn, frame, cols')
      /\ spoilt' = causes
  BY <1>1 DEF Followed
<1>3. frame \in Seq(Seq(Cells)) /\ frame # <<>>
  <2>1. editor'.text \in Seq(Typed) /\ tally' \in Nat /\ width' \in Nat \ {0}
    BY DEF SessionTypes, IsEditor, Editors
  <2> QED
    BY <2>1, PanelFrameIs
<1>4. Drawable(g, drawn, frame)
  <2> HIDE DEF frame
  <2> QED
    BY <1>2, <1>3, ReadyIsDrawable
<1>5. PICK top \in Nat : top = g.row - drawn.at /\ top >= 1
  <2>1. g.row \in Nat /\ drawn.at \in Nat /\ g.row - drawn.at >= 1
    BY DEF Ready, IsGrid, Terminal
  <2> QED
    BY <2>1
<1> HIDE DEF frame
<1>6. PICK st : st = end
  OBVIOUS
<1> HIDE DEF end
<1>7. /\ IsGrid(st.grid) /\ st.at \in Nat
      /\ st.grid.row - st.at = top /\ st.grid.above = g.above
      /\ \A k \in 1 .. Len(frame) : top + k - 1 \in 1 .. Len(st.grid.rows)
      /\ Held(g, drawn) => \A k \in 1 .. Len(frame) : st.grid.rows[top + k - 1] = frame[k]
      /\ (\A r \in 1 .. Len(g.rows) : r >= top + RowsToGo(drawn, frame) => g.rows[r] = <<>>)
         => \A r \in 1 .. Len(st.grid.rows) : r >= top + Len(frame) => st.grid.rows[r] = <<>>
  <2>1. Shows(st, g, drawn, frame, top)
    BY <1>2, <1>4, <1>5, <1>6, DrawingShows DEF end
  <2> QED
    BY <2>1 DEF Shows
<1>8. /\ grid' = st.grid /\ renderer' = [previous |-> frame, at |-> st.at]
      /\ renderer'.at = st.at
  BY <1>1, <1>6
<1>9. Top' = top
  BY <1>7, <1>8 DEF Top
<1>10. Frame' = frame
  BY DEF Frame, frame
<1>11. ~MeetsTheBottom(grid', renderer', frame)
  <2>1. PICK above \in Int, row \in Nat, at \in Nat, row1 \in Nat, at1 \in Nat, n \in Nat, most \in Nat :
          /\ above = g.above /\ row = g.row /\ at = drawn.at /\ n = Len(frame) /\ most = Height
          /\ row1 = st.grid.row /\ at1 = st.at
    <3>1. g.above \in Int /\ g.row \in Nat /\ drawn.at \in Nat
      BY DEF Ready, IsGrid, Terminal
    <3>2. st.grid.row \in Nat /\ st.at \in Nat
      BY <1>7 DEF IsGrid, Terminal
    <3>3. Len(frame) \in Nat /\ Height \in Nat
      BY <1>3, ScreenConstants
    <3> QED
      BY <3>1, <3>2, <3>3
  <2>2. ~(above + row - at + n - 1 > most) /\ row1 - at1 = row - at
    BY <1>2, <1>5, <1>7, <2>1 DEF MeetsTheBottom
  <2>3. ~(above + row1 - at1 + n - 1 > most)
    BY <2>2
  <2> QED
    BY <1>7, <1>8, <2>1, <2>3 DEF MeetsTheBottom
<1>12. PanelStands'
  <2>1. \E at \in Nat : renderer' = [previous |-> Frame', at |-> at]
    BY <1>7, <1>8, <1>10
  <2> QED
    BY <1>5, <1>7, <1>8, <1>9, <1>10, <1>11, <2>1 DEF PanelStands
<1>13. DOMAIN frame = 1 .. Len(frame) /\ DOMAIN grid'.rows = 1 .. Len(st.grid.rows)
  BY <1>3, <1>7, <1>8 DEF IsGrid, Terminal
<1>14. ASSUME Held(g, drawn)
       PROVE  RowsAreShown(Frame)'
  BY <1>7, <1>8, <1>9, <1>10, <1>13, <1>14 DEF RowsAreShown
<1>15. ASSUME causes = {} => ClearUnder(g, drawn, Frame'), spoilt' = {}
       PROVE  NothingBelow(Frame)'
  <2>1. ClearUnder(g, drawn, frame)
    BY <1>2, <1>10, <1>15
  <2>2. \A r \in 1 .. Len(st.grid.rows) : r >= top + Len(frame) => st.grid.rows[r] = <<>>
    BY <1>5, <1>7, <2>1 DEF ClearUnder
  <2> QED
    BY <1>8, <1>9, <1>10, <1>13, <2>2 DEF NothingBelow
<1> QED
  BY <1>12, <1>14, <1>15 DEF PanelIsOn

\* After a drawing, the next one may go over it.
LEMMA StandsReady ==
    ASSUME SessionTypes, PanelStands
    PROVE  /\ Ready(grid, renderer)
           /\ Ready(grid, [renderer EXCEPT !.previous = <<>>])
           /\ Held(grid, [renderer EXCEPT !.previous = <<>>])
           /\ PanelIsOn => Held(grid, renderer)
           /\ \A frame \in Seq(Seq(Cells)) :
                 PanelIsOn /\ spoilt = {} => ClearUnder(grid, renderer, frame)
<1>1. PICK at \in Nat : renderer = [previous |-> Frame, at |-> at]
  BY DEF PanelStands
<1>2. renderer.previous = Frame /\ renderer.at = at
  BY <1>1
<1>3. Frame \in Seq(Seq(Cells))
  <2>1. editor.text \in Seq(Typed) /\ tally \in Nat /\ width \in Nat \ {0}
    BY DEF SessionTypes, IsEditor, Editors
  <2> QED
    BY <2>1, PanelFrameIs DEF Frame
<1>4. IsGrid(grid) /\ grid.row - at >= 1 /\ ~MeetsTheBottom(grid, renderer, Frame)
      /\ Top = grid.row - at /\ grid.row \in Nat /\ Len(grid.rows) \in Nat
  BY <1>2 DEF PanelStands, Top, IsGrid, Terminal
<1>5. DOMAIN Frame = 1 .. Len(Frame) /\ DOMAIN grid.rows = 1 .. Len(grid.rows)
  BY <1>3, <1>4 DEF IsGrid, Terminal
<1> HIDE DEF Frame
<1>6. \A k \in 1 .. Len(Frame) : grid.row - at + k - 1 \in 1 .. Len(grid.rows)
  BY <1>4 DEF PanelStands
<1>7. Ready(grid, renderer)
  BY <1>2, <1>3, <1>4, <1>6 DEF Ready
<1>10. PanelIsOn => Held(grid, renderer)
  BY <1>2, <1>4, <1>5 DEF PanelIsOn, RowsAreShown, Held
<1>8. /\ Ready(grid, [renderer EXCEPT !.previous = <<>>])
      /\ Held(grid, [renderer EXCEPT !.previous = <<>>])
  <2>1. PICK drawn : drawn = [renderer EXCEPT !.previous = <<>>]
    OBVIOUS
  <2>2. drawn.previous = <<>> /\ drawn.at = at
    BY <1>1, <2>1
  <2>3. <<>> \in Seq(Seq(Cells)) /\ 1 .. Len(<<>>) = {}
    OBVIOUS
  <2>4. Ready(grid, drawn) /\ Held(grid, drawn)
    BY <1>4, <2>2, <2>3 DEF Ready, Held
  <2> QED
    BY <2>1, <2>4
<1>9. ASSUME NEW frame \in Seq(Seq(Cells)), PanelIsOn, spoilt = {}
      PROVE  ClearUnder(grid, renderer, frame)
  <2>1. \A r \in 1 .. Len(grid.rows) : r >= grid.row - at + Len(Frame) => grid.rows[r] = <<>>
    BY <1>4, <1>5, <1>9 DEF PanelIsOn, NothingBelow
  <2>2. PICK n : n = RowsToGo(renderer, frame)
    OBVIOUS
  <2>3. ASSUME NEW r \in 1 .. Len(grid.rows), r >= grid.row - at + n
        PROVE  grid.rows[r] = <<>>
    <3>1. CASE n = Len(Frame)
      BY <2>1, <2>3, <3>1
    <3>2. CASE n # Len(Frame)
      <4>1. n = Len(frame) /\ Len(frame) >= Len(Frame)
        BY <1>2, <2>2, <3>2 DEF RowsToGo
      <4>2. PICK top \in Int, a \in Nat, b \in Nat : top = grid.row - at /\ a = Len(frame) /\ b = Len(Frame)
        BY <1>3, <1>4
      <4>3. r \in Nat /\ r >= top + a /\ a >= b
        BY <1>4, <2>3, <4>1, <4>2
      <4>4. r >= top + b
        BY <4>3
      <4> QED
        BY <2>1, <4>2, <4>4
    <3> QED
      BY <3>1, <3>2
  <2> QED
    BY <1>2, <2>2, <2>3 DEF ClearUnder
<1> QED
  BY <1>7, <1>8, <1>9, <1>10

\* A text that is written ends in a row of its own, and the panel may be drawn.
LEMMA TextIsReady ==
    ASSUME NEW g, IsGrid(g), NEW text \in Seq(Cells), NEW margin,
           NEW start, start = FromHere(PutText(g, text, margin))
    PROVE  /\ Ready(start, NothingDrawn) /\ Held(start, NothingDrawn) /\ start.row = 1
           /\ IsLast(g) => Len(start.rows) = 1
<1>1. IsGrid(start) /\ start.row = 1 /\ (IsLast(g) => Len(start.rows) = 1)
  BY TextIsPut, FromHereIs
<1>2. NothingDrawn.at = 0 /\ NothingDrawn.previous = <<>>
  BY DEF NothingDrawn
<1>3. <<>> \in Seq(Seq(Cells)) /\ 1 .. Len(<<>>) = {}
  OBVIOUS
<1> QED
  BY <1>1, <1>2, <1>3 DEF Ready, Held

\* From the top row, a frame leaves at least that row to itself.
LEMMA ClearFromTheTop ==
    ASSUME NEW g, IsGrid(g), g.row = 1, \A r \in 2 .. Len(g.rows) : g.rows[r] = <<>>,
           NEW frame \in Seq(Seq(Cells)), frame # <<>>
    PROVE  ClearUnder(g, NothingDrawn, frame)
<1>1. NothingDrawn.at = 0 /\ NothingDrawn.previous = <<>>
  BY DEF NothingDrawn
<1>2. PICK n \in Nat : n = RowsToGo(NothingDrawn, frame) /\ n >= 1
  <2>1. Len(frame) \in Nat /\ Len(frame) >= 1 /\ Len(<<>>) = 0
    OBVIOUS
  <2>2. RowsToGo(NothingDrawn, frame) = Len(frame)
    BY <1>1, <2>1 DEF RowsToGo
  <2> QED
    BY <2>1, <2>2
<1>3. Len(g.rows) \in Nat
  BY DEF IsGrid, Terminal
<1>4. ASSUME NEW r \in 1 .. Len(g.rows), r >= 1 - 0 + n
      PROVE  g.rows[r] = <<>>
  <2>1. r \in 2 .. Len(g.rows)
    BY <1>2, <1>3, <1>4
  <2> QED
    BY <2>1
<1> QED
  BY <1>1, <1>2, <1>4 DEF ClearUnder

\* What the session writes is made of what the terminal shows.
LEMMA WritingsAre ==
    ASSUME NEW typed \in Seq(Typed), NEW written, written \in Shown \cup Streamed
    PROVE  Echo(typed) \in Seq(Cells) /\ written \in Seq(Cells)
<1>1. /\ <<LF>> \in Seq(Cells) /\ <<>> \in Seq(Cells) /\ <<Word, LF>> \in Seq(Cells)
      /\ <<LF, Word, LF>> \in Seq(Cells) /\ <<LF, PROMPT>> \in Seq(Cells) /\ <<LF, LF>> \in Seq(Cells)
  BY DEF Cells
<1>2. typed \in Seq(Cells)
  <2>1. Typed \subseteq Cells
    BY DEF Typed, Cells
  <2> QED
    BY <2>1
<1>3. Echo(typed) \in Seq(Cells)
  BY <1>1, <1>2 DEF Echo
<1>4. written \in Seq(Cells)
  <2>1. CASE written \in Shown
    <3>1. written = Notice \o <<LF>>
      BY <2>1 DEF Shown
    <3>2. Notice \in Seq(Cells)
      BY <1>1 DEF Notice
    <3>3. Notice \o <<LF>> \in Seq(Cells)
      BY <1>1, <3>2
    <3> QED
      BY <3>1, <3>3
  <2>2. CASE written \in Streamed
    <3>1. ASSUME NEW said \in Says \cup {Notice}, NEW note \in {<<>>, Notice}
          PROVE  said \o note \o <<LF>> \in Seq(Cells)
      <4>1. said \in Seq(Cells) /\ note \in Seq(Cells)
        BY <1>1 DEF Says, Notice
      <4> QED
        BY <1>1, <4>1
    <3> DEFINE Said(said, note) == said \o note \o <<LF>>
               A == Says \cup {Notice}
               B == {<<>>, Notice}
    <3>2. Streamed = {Said(said, note) : said \in A, note \in B}
      <4> USE DEF Streamed
      <4> QED
        OBVIOUS
    <3>3. \A said \in A, note \in B : Said(said, note) \in Seq(Cells)
      BY <3>1
    <3> HIDE DEF Said, A, B
    <3>4. {Said(said, note) : said \in A, note \in B} \subseteq Seq(Cells)
      BY <3>3
    <3> QED
      BY <2>2, <3>2, <3>4
  <2> QED
    BY <2>1, <2>2
<1> QED
  BY <1>3, <1>4

\* The session starts with the panel on.
LEMMA ScreenStarts ==
    ScreenInit => ScreenInv /\ WindowInv
<1>a. ScreenInit => WindowInv
  <2> SUFFICES ASSUME ScreenInit PROVE WindowInv
    OBVIOUS
  <2>1. cols \in Nat \ {0} /\ width = cols /\ unheard = <<>> /\ missed = FALSE
    BY ScreenConstants DEF ScreenInit
  <2>2. <<>> \in Seq(Nat \ {0})
    OBVIOUS
  <2>3. unheard \in Seq(Nat \ {0}) /\ missed \in BOOLEAN
    BY <2>1, <2>2
  <2> QED
    BY <2>1, <2>3 DEF WindowInv
<1> SUFFICES ASSUME ScreenInit, Followed
             PROVE  SessionTypes /\ PanelStands /\ PanelIsOn
  BY <1>a DEF ScreenInv
<1> DEFINE start == FromHere(PutText(Grid, <<Word, LF, LF>>, cols))
           frame == PanelFrame(editor, tally, width)
           end == Rendered(start, NothingDrawn, frame, cols)
<1>1. SessionTypes
  <2>1. PICK entries \in {<<>>} \cup {<< <<ch>> >> : ch \in Letters} : editor = NewEditor(entries)
    BY DEF ScreenInit
  <2>2. entries \in Seq(Seq(Typed))
    <3>1. CASE entries = <<>>
      BY <3>1
    <3>2. ASSUME NEW ch \in Letters, entries = << <<ch>> >>
          PROVE  entries \in Seq(Seq(Typed))
      <4>1. <<ch>> \in Seq(Typed)
        BY DEF Typed
      <4> QED
        BY <3>2, <4>1
    <3> QED
      BY <3>1, <3>2
  <2>3. IsEditor(editor)
    BY <2>1, <2>2, NewEditorIs
  <2>4. width \in Nat \ {0} /\ tally \in Nat
    BY ScreenConstants DEF ScreenInit
  <2> QED
    BY <2>3, <2>4 DEF SessionTypes
<1>2. IsGrid(Grid) /\ IsLast(Grid)
  <2>1. << <<>> >> \in Seq(Seq(Cells)) /\ Len(<< <<>> >>) = 1 /\ 1 \in 1 .. 1
    OBVIOUS
  <2> QED
    BY <2>1 DEF Grid, IsGrid, IsLast, Terminal
<1>3. /\ Ready(start, NothingDrawn) /\ Held(start, NothingDrawn)
      /\ start.row = 1 /\ Len(start.rows) = 1
  <2>1. <<Word, LF, LF>> \in Seq(Cells)
    BY DEF Cells
  <2> HIDE DEF start
  <2>2. start = FromHere(PutText(Grid, <<Word, LF, LF>>, cols))
    BY DEF start
  <2> QED
    BY <1>2, <2>1, <2>2, TextIsReady
<1>4. /\ grid = end.grid /\ renderer = [previous |-> frame, at |-> end.at]
      /\ spoilt = IF MeetsTheBottom(start, NothingDrawn, frame) THEN {"bottom"} ELSE {}
      /\ cols = width
  BY DEF ScreenInit
<1> HIDE DEF start
<1>5. ~MeetsTheBottom(start, NothingDrawn, frame)
  BY <1>4 DEF Followed
<1>6. /\ frame \in Seq(Seq(Cells)) /\ frame # <<>> /\ cols \in Nat
      /\ \A k \in 1 .. Len(frame) : Len(frame[k]) <= cols
  <2>1. editor.text \in Seq(Typed) /\ tally \in Nat /\ width \in Nat \ {0}
    BY <1>1 DEF SessionTypes, IsEditor, Editors
  <2> QED
    BY <1>4, <2>1, PanelFrameIs
<1>7. Frame = frame
  BY DEF Frame
<1> HIDE DEF frame
<1>8. Drawable(start, NothingDrawn, frame) /\ ClearUnder(start, NothingDrawn, frame)
  <2>1. IsGrid(start) /\ \A r \in 2 .. Len(start.rows) : start.rows[r] = <<>>
    BY <1>3 DEF Ready
  <2> QED
    BY <1>3, <1>5, <1>6, <2>1, ReadyIsDrawable, ClearFromTheTop
<1>9. PICK st : st = end
  OBVIOUS
<1> HIDE DEF end
<1>10. NothingDrawn.at = 0 /\ start.row - 0 = 1
  BY <1>3 DEF NothingDrawn
<1>11. /\ IsGrid(st.grid) /\ st.at \in Nat
       /\ st.grid.row - st.at = 1 /\ st.grid.above = start.above
       /\ \A k \in 1 .. Len(frame) : 1 + k - 1 \in 1 .. Len(st.grid.rows)
       /\ \A k \in 1 .. Len(frame) : st.grid.rows[1 + k - 1] = frame[k]
       /\ (\A r \in 1 .. Len(start.rows) : r >= 1 + RowsToGo(NothingDrawn, frame) => start.rows[r] = <<>>)
          => \A r \in 1 .. Len(st.grid.rows) : r >= 1 + Len(frame) => st.grid.rows[r] = <<>>
  <2>1. 1 = start.row - NothingDrawn.at
    BY <1>10
  <2>2. ~WrapsAround(NothingDrawn, frame, cols)
    <3>1. ASSUME NEW k \in DOMAIN frame
          PROVE  ~(Len(frame[k]) > cols)
      <4>1. k \in 1 .. Len(frame) /\ frame[k] \in Seq(Cells)
        BY <1>6
      <4>2. PICK n \in Nat, most \in Nat : n = Len(frame[k]) /\ most = cols
        BY <1>6, <4>1
      <4>3. n <= most
        BY <1>6, <4>1, <4>2
      <4>4. ~(n > most)
        BY <4>3
      <4> QED
        BY <4>2, <4>4
    <3> QED
      BY <3>1 DEF WrapsAround
  <2>3. Shows(st, start, NothingDrawn, frame, 1)
    BY <1>6, <1>8, <1>9, <2>1, <2>2, DrawingShows DEF end
  <2> QED
    BY <1>3, <2>3 DEF Shows
<1>12. grid = st.grid /\ renderer = [previous |-> frame, at |-> st.at] /\ renderer.at = st.at /\ Top = 1
  <2>1. grid = st.grid /\ renderer = [previous |-> frame, at |-> st.at]
    BY <1>4, <1>9
  <2> QED
    BY <1>11, <2>1 DEF Top
<1>13. ~MeetsTheBottom(grid, renderer, frame)
  <2>1. PICK above \in Int, row1 \in Nat, at1 \in Nat, n \in Nat, most \in Nat :
          /\ above = start.above /\ n = Len(frame) /\ most = Height
          /\ row1 = st.grid.row /\ at1 = st.at
    <3>1. start.above \in Int
      BY <1>3 DEF Ready, IsGrid, Terminal
    <3>2. st.grid.row \in Nat /\ st.at \in Nat
      BY <1>11 DEF IsGrid, Terminal
    <3>3. Len(frame) \in Nat /\ Height \in Nat
      BY <1>6, ScreenConstants
    <3> QED
      BY <3>1, <3>2, <3>3
  <2>2. ~(above + 1 - 0 + n - 1 > most) /\ row1 - at1 = 1
    BY <1>3, <1>5, <1>10, <1>11, <2>1 DEF MeetsTheBottom
  <2>3. ~(above + row1 - at1 + n - 1 > most)
    BY <2>2
  <2> QED
    BY <1>11, <1>12, <2>1, <2>3 DEF MeetsTheBottom
<1>14. PanelStands
  <2>1. \E at \in Nat : renderer = [previous |-> Frame, at |-> at]
    BY <1>7, <1>11, <1>12
  <2> QED
    BY <1>7, <1>11, <1>12, <1>13, <2>1 DEF PanelStands
<1>15. DOMAIN frame = 1 .. Len(frame) /\ DOMAIN grid.rows = 1 .. Len(st.grid.rows)
  BY <1>6, <1>11, <1>12 DEF IsGrid, Terminal
<1>16. RowsAreShown(Frame)
  BY <1>7, <1>11, <1>12, <1>15 DEF RowsAreShown
<1>17. NothingBelow(Frame)
  <2>1. \A r \in 1 .. Len(st.grid.rows) : r >= 1 + Len(frame) => st.grid.rows[r] = <<>>
    BY <1>8, <1>10, <1>11, <1>3 DEF ClearUnder
  <2> QED
    BY <1>7, <1>12, <1>15, <2>1 DEF NothingBelow
<1> QED
  BY <1>1, <1>14, <1>16, <1>17 DEF PanelIsOn

\* A drawing over the panel leaves it as it was, on or to be drawn anew.
LEMMA DrawOverKeeps ==
    ASSUME WindowInv, Followed', SessionTypes, PanelStands, PanelIsOn \/ NarrowerToHear,
           Draw(grid, renderer, spoilt), SessionTypes', cols' \in Nat
    PROVE  PanelStands' /\ (PanelIsOn => PanelIsOn')
<1>1. /\ Ready(grid, renderer) /\ (PanelIsOn => Held(grid, renderer))
      /\ PanelIsOn => (spoilt = {} => ClearUnder(grid, renderer, Frame'))
  BY StandsReady, NextFrameIs
<1> QED
  BY <1>1, DrawKeeps

\* A key that edits.
LEMMA TypingKeeps ==
    ASSUME ScreenInv, WindowInv, Types
    PROVE  ScreenInv'
<1> SUFFICES ASSUME Followed'
             PROVE  SessionTypes' /\ PanelStands' /\ (PanelIsOn' \/ NarrowerToHear')
  BY DEF ScreenInv
<1>1. /\ Followed /\ Draw(grid, renderer, spoilt) /\ tally' = tally
      /\ width' = width /\ cols' = cols /\ unheard' = unheard
  BY DEF Types, Goes, Followed, widthVars
<1>2. SessionTypes /\ PanelStands /\ (PanelIsOn \/ NarrowerToHear)
  BY <1>1 DEF ScreenInv
<1>3. SessionTypes'
  <2>1. PICK ed \in Edits(editor, {<<ch, LF>> : ch \in Letters}) : editor' = ed
    BY DEF Types
  <2>2. {<<ch, LF>> : ch \in Letters} \in SUBSET Seq(Typed)
    <3>1. ASSUME NEW ch \in Letters
          PROVE  <<ch, LF>> \in Seq(Typed)
      <4>1. ch \in Typed /\ LF \in Typed
        BY DEF Typed
      <4> QED
        BY <4>1
    <3> QED
      BY <3>1
  <2>3. IsEditor(editor')
    BY <1>2, <2>1, <2>2, EditsAre DEF SessionTypes
  <2> QED
    BY <1>1, <1>2, <2>3 DEF SessionTypes
<1>4. PanelStands' /\ (PanelIsOn => PanelIsOn')
  <2>1. cols' \in Nat
    BY <1>1 DEF WindowInv
  <2> QED
    BY <1>1, <1>2, <1>3, <2>1, DrawOverKeeps
<1>5. NarrowerToHear => NarrowerToHear'
  BY <1>1 DEF NarrowerToHear
<1> QED
  BY <1>2, <1>3, <1>4, <1>5

\* The panel is drawn again.
LEMMA RedrawingKeeps ==
    ASSUME ScreenInv, WindowInv, Redraws
    PROVE  ScreenInv'
<1> SUFFICES ASSUME Followed'
             PROVE  SessionTypes' /\ PanelStands' /\ (PanelIsOn' \/ NarrowerToHear')
  BY DEF ScreenInv
<1>1. /\ Draw(grid, renderer, spoilt) /\ editor' = editor /\ tally' = tally /\ ~quitting
      /\ width' = width /\ cols' = cols /\ unheard' = unheard
  BY DEF Redraws, widthVars
<1>2. Followed
  <2>1. spoilt \subseteq spoilt'
    BY <1>1 DEF Draw
  <2> QED
    BY <1>1, <2>1 DEF Followed
<1>3. SessionTypes /\ PanelStands /\ (PanelIsOn \/ NarrowerToHear)
  BY <1>2 DEF ScreenInv
<1>4. SessionTypes' /\ cols' \in Nat
  BY <1>1, <1>3 DEF SessionTypes, WindowInv
<1>5. PanelStands' /\ (PanelIsOn => PanelIsOn')
  BY <1>1, <1>3, <1>4, DrawOverKeeps
<1>6. NarrowerToHear => NarrowerToHear'
  BY <1>1 DEF NarrowerToHear
<1> QED
  BY <1>3, <1>4, <1>5, <1>6

\* A window that narrows cuts the rows, and no row it has room for.
LEMMA CutIs ==
    ASSUME NEW g, IsGrid(g), NEW margin \in Nat, NEW cut, cut = Cut(g, margin)
    PROVE  /\ IsGrid(cut) /\ cut.row = g.row /\ cut.above = g.above /\ Len(cut.rows) = Len(g.rows)
           /\ \A r \in 1 .. Len(g.rows) :
                 Len(g.rows[r]) <= margin => cut.rows[r] = g.rows[r]
<1> DEFINE rows == [r \in 1 .. Len(g.rows) |-> Truncated(g.rows[r], margin)]
           col == Min({g.col, margin})
<1>1. /\ g \in Terminal /\ g.rows \in Seq(Seq(Cells)) /\ g.row \in Nat /\ g.above \in Int
      /\ g.col \in Nat /\ Len(g.rows) \in Nat /\ DOMAIN g.rows = 1 .. Len(g.rows)
      /\ \A r \in 1 .. Len(g.rows) : g.rows[r] \in Seq(Cells)
  BY DEF IsGrid, Terminal
<1>2. /\ \A r \in 1 .. Len(g.rows) : Truncated(g.rows[r], margin) \in Seq(Cells)
      /\ \A r \in 1 .. Len(g.rows) :
            Len(g.rows[r]) <= margin => Truncated(g.rows[r], margin) = g.rows[r]
  BY <1>1, TruncatedIs
<1>3. rows \in Seq(Seq(Cells)) /\ Len(rows) = Len(g.rows)
  <2>1. rows \in [1 .. Len(g.rows) -> Seq(Cells)]
    BY <1>2
  <2> QED
    BY <1>1, <2>1, IsASequenceOf
<1>4. \A r \in 1 .. Len(g.rows) : Len(g.rows[r]) <= margin => rows[r] = g.rows[r]
  BY <1>2
<1>5. col \in Nat
  BY <1>1, LessOf
<1>6. cut = [g EXCEPT !.rows = rows, !.col = col]
  BY <1>1 DEF Cut
<1> HIDE DEF rows, col
<1>7. cut = [rows |-> rows, row |-> g.row, col |-> col, above |-> g.above]
  BY <1>1, <1>6 DEF Terminal
<1>8. cut \in Terminal /\ cut.row = g.row /\ cut.above = g.above /\ cut.rows = rows
  BY <1>1, <1>3, <1>5, <1>7 DEF Terminal
<1> QED
  BY <1>3, <1>4, <1>8 DEF IsGrid

\* The window changes: the panel stays where it stands, and unless its rows are
\* cut, on.
LEMMA ChangingKeeps ==
    ASSUME ScreenInv, WindowInv, WindowChanges
    PROVE  ScreenInv'
<1> SUFFICES ASSUME Followed'
             PROVE  SessionTypes' /\ PanelStands' /\ (PanelIsOn' \/ NarrowerToHear')
  BY DEF ScreenInv
<1>1. PICK w \in Widths : unheard' = Append(unheard, w) /\ grid' = Cut(grid, w)
  BY DEF WindowChanges
<1>2. /\ Followed
      /\ UNCHANGED <<editor, tally, width, renderer, spoilt>>
  BY DEF WindowChanges, Goes, Followed
<1>3. /\ SessionTypes /\ PanelStands /\ (PanelIsOn \/ NarrowerToHear)
      /\ w \in Nat /\ unheard \in Seq(Nat \ {0}) /\ Len(unheard) \in Nat
  BY <1>2, ScreenConstants DEF ScreenInv, WindowInv
<1>4. SessionTypes' /\ Frame' = Frame
  BY <1>2, <1>3 DEF SessionTypes, Frame
<1>5. /\ IsGrid(grid') /\ grid'.row = grid.row /\ grid'.above = grid.above
      /\ Len(grid'.rows) = Len(grid.rows)
      /\ \A r \in 1 .. Len(grid.rows) :
            Len(grid.rows[r]) <= w => grid'.rows[r] = grid.rows[r]
  BY <1>1, <1>3, CutIs DEF PanelStands
<1>6. Top' = Top
  BY <1>2, <1>5 DEF Top
<1>7. PanelStands'
  <2>1. MeetsTheBottom(grid', renderer', Frame') <=> MeetsTheBottom(grid, renderer, Frame)
    BY <1>2, <1>4, <1>5 DEF MeetsTheBottom
  <2> QED
    BY <1>2, <1>3, <1>4, <1>5, <1>6, <2>1 DEF PanelStands
<1>8. NarrowerToHear => NarrowerToHear'
  <2>1. ASSUME NEW i \in 1 .. Len(unheard), unheard[i] < width
        PROVE  i \in 1 .. Len(unheard') /\ unheard'[i] < width
    BY <1>1, <1>3, <2>1
  <2> QED
    BY <1>2, <2>1 DEF NarrowerToHear
<1>9. CASE w < width
  <2>1. Len(unheard) + 1 \in 1 .. Len(unheard') /\ unheard'[Len(unheard) + 1] = w
    BY <1>1, <1>3
  <2>2. NarrowerToHear'
    BY <1>2, <1>9, <2>1 DEF NarrowerToHear
  <2> QED
    BY <1>4, <1>7, <2>2
<1>10. CASE ~(w < width)
  <2>1. /\ Frame \in Seq(Seq(Cells)) /\ width \in Nat
        /\ \A k \in 1 .. Len(Frame) : Len(Frame[k]) <= width
    <3>1. editor.text \in Seq(Typed) /\ tally \in Nat /\ width \in Nat \ {0}
      BY <1>3 DEF SessionTypes, IsEditor, Editors
    <3> QED
      BY <3>1, PanelFrameIs DEF Frame
  <2>2. /\ DOMAIN Frame = 1 .. Len(Frame)
        /\ DOMAIN grid.rows = 1 .. Len(grid.rows) /\ DOMAIN grid'.rows = 1 .. Len(grid.rows)
    BY <1>3, <1>5, <2>1 DEF PanelStands, IsGrid, Terminal
  <2> HIDE DEF Frame
  <2>3. ASSUME RowsAreShown(Frame)
        PROVE  RowsAreShown(Frame)'
    <3>1. ASSUME NEW k \in DOMAIN Frame
          PROVE  Top + k - 1 \in DOMAIN grid'.rows /\ grid'.rows[Top + k - 1] = Frame[k]
      <4>1. Top + k - 1 \in 1 .. Len(grid.rows) /\ grid.rows[Top + k - 1] = Frame[k]
        BY <2>2, <2>3 DEF RowsAreShown
      <4>2. Frame[k] \in Seq(Cells) /\ Len(Frame[k]) <= width
        BY <2>1, <2>2
      <4>3. PICK n \in Nat : n = Len(Frame[k])
        BY <4>2
      <4>4. n <= w
        BY <1>3, <1>10, <2>1, <4>2, <4>3
      <4> QED
        BY <1>5, <2>2, <4>1, <4>3, <4>4
    <3> QED
      BY <1>4, <1>6, <3>1 DEF RowsAreShown
  <2>4. ASSUME NothingBelow(Frame)
        PROVE  NothingBelow(Frame)'
    <3>1. ASSUME NEW r \in DOMAIN grid'.rows, r >= Top + Len(Frame)
          PROVE  grid'.rows[r] = <<>>
      <4>1. r \in 1 .. Len(grid.rows) /\ grid.rows[r] = <<>> /\ Len(<<>>) <= w
        BY <1>3, <2>2, <2>4, <3>1 DEF NothingBelow
      <4> QED
        BY <1>5, <4>1
    <3> QED
      BY <1>4, <1>6, <3>1 DEF NothingBelow
  <2>5. PanelIsOn => PanelIsOn'
    BY <1>2, <1>4, <2>3, <2>4 DEF PanelIsOn
  <2> QED
    BY <1>3, <1>4, <1>7, <1>8, <2>5
<1> QED
  BY <1>9, <1>10

\* The session hears of it: another width forgets the frame; what is under it
\* may stay.
LEMMA HearingKeeps ==
    ASSUME ScreenInv, WindowInv, HearsOfTheWindow
    PROVE  ScreenInv'
<1> SUFFICES ASSUME Followed'
             PROVE  SessionTypes' /\ PanelStands' /\ (PanelIsOn' \/ NarrowerToHear')
  BY DEF ScreenInv
<1>1. /\ Followed /\ unheard # <<>> /\ width' = Head(unheard) /\ unheard' = Tail(unheard)
      /\ UNCHANGED <<editor, tally, cols>>
      /\ IF width' # width
            THEN Draw(grid, [renderer EXCEPT !.previous = <<>>], spoilt \cup {"resize"})
            ELSE Draw(grid, renderer, spoilt)
  BY DEF HearsOfTheWindow, Goes, Followed
<1>2. /\ SessionTypes /\ PanelStands /\ (PanelIsOn \/ NarrowerToHear)
      /\ unheard \in Seq(Nat \ {0}) /\ Len(unheard) \in Nat \ {0} /\ cols' \in Nat
  BY <1>1 DEF ScreenInv, WindowInv
<1>3. width' = unheard[1] /\ width' \in Nat \ {0} /\ width \in Nat \ {0}
  BY <1>1, <1>2 DEF SessionTypes
<1>4. SessionTypes'
  BY <1>1, <1>2, <1>3 DEF SessionTypes
<1>5. CASE width' # width
  <2>1. Draw(grid, [renderer EXCEPT !.previous = <<>>], spoilt \cup {"resize"})
    BY <1>1, <1>5
  <2>2. Ready(grid, [renderer EXCEPT !.previous = <<>>]) /\ Held(grid, [renderer EXCEPT !.previous = <<>>])
    BY <1>2, StandsReady
  <2>3. spoilt \cup {"resize"} # {}
    OBVIOUS
  <2>4. PanelStands' /\ PanelIsOn'
    BY <1>2, <1>4, <2>1, <2>2, <2>3, DrawKeeps
  <2> QED
    BY <1>4, <2>4
<1>6. CASE width' = width
  <2>1. PanelStands' /\ (PanelIsOn => PanelIsOn')
    BY <1>1, <1>2, <1>4, <1>6, DrawOverKeeps
  <2>2. NarrowerToHear => NarrowerToHear'
    <3>1. ASSUME NEW i \in 1 .. Len(unheard), unheard[i] < width
          PROVE  i - 1 \in 1 .. Len(unheard') /\ unheard'[i - 1] < width'
      <4>1. PICK all \in Seq(Nat \ {0}) : all = unheard /\ Len(all) \in Nat
        BY <1>2
      <4>2. PICK w \in Nat : w = width /\ w = all[1]
        BY <1>3, <1>6, <4>1
      <4>3. i \in 1 .. Len(all) /\ all[i] < w
        BY <3>1, <4>1, <4>2
      <4>4. all[i] \in Nat
        BY <4>1, <4>3
      <4>5. i # 1
        BY <4>2, <4>3, <4>4
      <4>6. i - 1 \in 1 .. Len(Tail(all)) /\ Tail(all)[i - 1] = all[i]
        BY <4>1, <4>3, <4>5
      <4>7. unheard' = Tail(all) /\ width' = w
        BY <1>1, <1>6, <4>1, <4>2
      <4> QED
        BY <4>3, <4>6, <4>7
    <3> QED
      BY <3>1 DEF NarrowerToHear
  <2> QED
    BY <1>2, <1>4, <2>1, <2>2
<1> QED
  BY <1>5, <1>6

\* A line is submitted, and what is said goes where the panel was.
LEMMA TurnKeeps ==
    ASSUME ScreenInv, WindowInv, NEW written \in Shown \cup Streamed, NEW counted \in {0, 1},
           NEW w \in Nat \ {0}, NEW dropped \in Nat, TakesTurn(written, counted, w, dropped)
    PROVE  ScreenInv'
<1> SUFFICES ASSUME Followed'
             PROVE  SessionTypes' /\ PanelStands' /\ PanelIsOn'
  BY DEF ScreenInv
<1> DEFINE echoed == PutText(grid, Echo(editor.text), cols)
           start == FromHere(PutText(Cut(echoed, w), written, w))
           causes == IF \E r \in DOMAIN start.rows \ {1} : start.rows[r] # <<>> THEN {"below"} ELSE {}
<1>1. /\ Draw(start, NothingDrawn, causes)
      /\ Followed /\ editor' = Submitted(editor) /\ tally' = tally + counted /\ width' = width
      /\ cols' = w
  BY DEF TakesTurn, Goes, Followed, AfterText
<1>2. SessionTypes /\ PanelStands
  BY <1>1 DEF ScreenInv
<1>3. SessionTypes'
  <2>1. IsEditor(editor') /\ tally' \in Nat
    BY <1>1, <1>2, SubmittedIs DEF SessionTypes
  <2> QED
    BY <1>1, <1>2, <2>1 DEF SessionTypes
<1>4. written \in Seq(Cells) /\ IsGrid(Cut(echoed, w))
  <2>1. editor.text \in Seq(Typed)
    BY <1>2 DEF SessionTypes, IsEditor, Editors
  <2>2. PICK echo \in Seq(Cells) : echo = Echo(editor.text)
    BY <2>1, WritingsAre
  <2>3. IsGrid(grid)
    BY <1>2 DEF PanelStands
  <2>4. IsGrid(PutText(grid, echo, cols))
    BY <2>2, <2>3, TextIsPut
  <2>5. IsGrid(echoed)
    BY <2>2, <2>4
  <2>6. written \in Seq(Cells)
    BY <2>1, WritingsAre
  <2> HIDE DEF echoed
  <2> QED
    BY <2>5, <2>6, CutIs
<1> HIDE DEF echoed
<1>5. PICK from : from = start
  OBVIOUS
<1>6. Ready(from, NothingDrawn) /\ Held(from, NothingDrawn) /\ from.row = 1 /\ IsGrid(from)
  <2>1. Ready(from, NothingDrawn) /\ Held(from, NothingDrawn) /\ from.row = 1
    BY <1>4, <1>5, TextIsReady
  <2> QED
    BY <2>1 DEF Ready
<1>7. ASSUME causes = {}
      PROVE  ClearUnder(from, NothingDrawn, Frame')
  <2>1. \A r \in DOMAIN from.rows \ {1} : from.rows[r] = <<>>
    BY <1>5, <1>7
  <2>2. DOMAIN from.rows = 1 .. Len(from.rows) /\ Len(from.rows) \in Nat
    BY <1>6 DEF IsGrid, Terminal
  <2>3. \A r \in 2 .. Len(from.rows) : from.rows[r] = <<>>
    BY <2>1, <2>2
  <2>4. Frame' \in Seq(Seq(Cells)) /\ Frame' # <<>>
    BY <1>3, NextFrameIs
  <2> QED
    BY <1>6, <2>3, <2>4, ClearFromTheTop
<1>8. Draw(from, NothingDrawn, causes)
  BY <1>1, <1>5
<1> HIDE DEF causes, start
<1>9. cols' \in Nat
  BY <1>1
<1> QED
  BY <1>3, <1>6, <1>7, <1>8, <1>9, DrawKeeps

\* The width of a window is one of those it may have.
LEMMA WidthsAre == \A w \in Widths : w \in Nat \ {0}
  BY ScreenConstants

\* A turn drops the first of the events.
LEMMA TurnTells ==
    ASSUME WindowInv, NEW written, NEW counted, NEW w \in Nat \ {0}, NEW dropped \in Nat,
           TakesTurn(written, counted, w, dropped)
    PROVE  WindowInv'
<1> DEFINE all == IF w = cols THEN unheard ELSE Append(unheard, w)
<1>1. /\ cols' = w /\ width' = width /\ dropped <= Len(all)
      /\ unheard' = SubSeq(all, dropped + 1, Len(all)) /\ missed' = (missed \/ dropped > 0)
  BY DEF TakesTurn
<1>2. /\ all \in Seq(Nat \ {0}) /\ Len(all) \in Nat
      /\ all # <<>> => all[Len(all)] = w
      /\ all = <<>> => unheard = <<>> /\ w = cols
  <2>1. PICK told \in Seq(Nat \ {0}) : told = unheard
    BY DEF WindowInv
  <2>2. CASE w = cols
    <3>1. all = told
      BY <2>1, <2>2
    <3>2. told # <<>> => told[Len(told)] = w
      BY <2>1, <2>2 DEF WindowInv
    <3> HIDE DEF all
    <3> QED
      BY <2>1, <2>2, <3>1, <3>2
  <2>3. CASE w # cols
    <3>1. all = Append(told, w)
      BY <2>1, <2>3
    <3>2. /\ Append(told, w) \in Seq(Nat \ {0}) /\ Append(told, w) # <<>>
          /\ Len(Append(told, w)) \in Nat
          /\ Append(told, w)[Len(Append(told, w))] = w
      BY <2>1
    <3> HIDE DEF all
    <3> QED
      BY <3>1, <3>2
  <2> QED
    BY <2>2, <2>3
<1> HIDE DEF all
<1>3. /\ unheard' \in Seq(Nat \ {0}) /\ Len(unheard') = Len(all) - dropped
      /\ \A i \in 1 .. Len(all) - dropped : unheard'[i] = all[dropped + i]
  <2>1. PICK told \in Seq(Nat \ {0}), most \in Nat : told = all /\ most = Len(told) /\ dropped <= most
    BY <1>1, <1>2
  <2>2. unheard' = SubSeq(told, dropped + 1, most)
    BY <1>1, <2>1
  <2>3. dropped + 1 \in Nat /\ dropped + 1 >= 1
    OBVIOUS
  <2>4. SubSeq(told, dropped + 1, most) \in Seq(Nat \ {0})
    BY <2>1, <2>3, PartIsOfIt
  <2>5. Len(SubSeq(told, dropped + 1, most)) = most - dropped
    BY <2>1
  <2>6. \A i \in 1 .. most - dropped : SubSeq(told, dropped + 1, most)[i] = told[dropped + i]
    BY <2>1
  <2> QED
    BY <2>1, <2>2, <2>4, <2>5, <2>6
<1>4. CASE dropped = Len(all)
  <2>1. unheard' = <<>>
    BY <1>2, <1>3, <1>4
  <2>2. ~missed' => width' = cols'
    <3>1. CASE dropped = 0
      <4>1. PICK told \in Seq(Nat \ {0}) : told = all
        BY <1>2
      <4>2. Len(told) = 0
        BY <1>4, <3>1, <4>1
      <4>3. told = <<>>
        BY <4>2
      <4>4. unheard = <<>> /\ w = cols
        BY <1>2, <4>1, <4>3
      <4>5. missed' = missed
        BY <1>1, <3>1 DEF WindowInv
      <4> QED
        BY <1>1, <4>4, <4>5 DEF WindowInv
    <3>2. CASE dropped # 0
      <4>1. dropped > 0
        BY <3>2
      <4> QED
        BY <1>1, <4>1
    <3> QED
      BY <3>1, <3>2
  <2> QED
    BY <1>1, <1>3, <2>1, <2>2 DEF WindowInv
<1>5. CASE dropped # Len(all)
  <2>1. Len(all) - dropped \in 1 .. Len(all) - dropped /\ dropped + (Len(all) - dropped) = Len(all)
    BY <1>1, <1>2, <1>5
  <2>2. unheard'[Len(unheard')] = w
    <3>1. all # <<>>
      BY <1>2, <2>1
    <3>2. unheard'[Len(all) - dropped] = all[dropped + (Len(all) - dropped)]
      BY <1>3, <2>1
    <3>3. all[dropped + (Len(all) - dropped)] = all[Len(all)]
      BY <2>1
    <3> QED
      BY <1>2, <1>3, <3>1, <3>2, <3>3
  <2>3. unheard' # <<>>
    BY <1>3, <2>1
  <2> QED
    BY <1>1, <1>3, <2>2, <2>3 DEF WindowInv
<1> QED
  BY <1>4, <1>5

\* Every step keeps what the window tells.
LEMMA WindowInvNext == WindowInv /\ [ScreenNext]_screenVars => WindowInv'
<1> SUFFICES ASSUME WindowInv, [ScreenNext]_screenVars PROVE WindowInv'
  OBVIOUS
<1>1. ASSUME UNCHANGED widthVars
      PROVE  WindowInv'
  BY <1>1 DEF WindowInv, widthVars
<1>2. CASE WindowChanges
  <2>1. PICK w \in Widths : cols' = w /\ unheard' = Append(unheard, w)
    BY <1>2 DEF WindowChanges
  <2>2. UNCHANGED <<width, missed>> /\ w \in Nat \ {0}
    BY <1>2, WidthsAre DEF WindowChanges
  <2>3. /\ unheard' \in Seq(Nat \ {0}) /\ unheard' # <<>> /\ unheard'[Len(unheard')] = w
    BY <2>1, <2>2 DEF WindowInv
  <2> QED
    BY <2>1, <2>2, <2>3 DEF WindowInv
<1>3. CASE HearsOfTheWindow
  <2>1. /\ unheard # <<>> /\ width' = Head(unheard) /\ unheard' = Tail(unheard)
        /\ missed' = FALSE /\ cols' = cols
    BY <1>3 DEF HearsOfTheWindow
  <2>2. PICK all \in Seq(Nat \ {0}) : all = unheard
    BY DEF WindowInv
  <2>3. /\ Len(all) \in Nat \ {0} /\ Head(all) = all[1] /\ Head(all) \in Nat \ {0}
        /\ Tail(all) \in Seq(Nat \ {0}) /\ Len(Tail(all)) = Len(all) - 1
        /\ \A i \in 1 .. Len(all) - 1 : Tail(all)[i] = all[i + 1]
    BY <2>1, <2>2
  <2>4. all[Len(all)] = cols
    BY <2>1, <2>2 DEF WindowInv
  <2>5. CASE Len(all) = 1
    <3>1. Tail(all) = <<>>
      <4>1. PICK remainder : remainder = Tail(all)
        OBVIOUS
      <4>2. remainder \in Seq(Nat \ {0}) /\ Len(remainder) = Len(all) - 1
        BY <2>3, <4>1
      <4>3. Len(remainder) = 0
        BY <2>5, <4>2
      <4>4. remainder = <<>>
        BY <4>2, <4>3
      <4> QED
        BY <4>1, <4>4
    <3>2. Head(all) = cols
      BY <2>3, <2>4, <2>5
    <3> QED
      BY <2>1, <2>2, <2>3, <3>1, <3>2 DEF WindowInv
  <2>6. CASE Len(all) # 1
    <3>1. Len(all) - 1 \in 1 .. Len(all) - 1 /\ (Len(all) - 1) + 1 = Len(all)
      BY <2>3, <2>6
    <3>2. Tail(all)[Len(Tail(all))] = cols /\ Tail(all) # <<>>
      BY <2>3, <2>4, <3>1
    <3> QED
      BY <2>1, <2>2, <2>3, <3>2 DEF WindowInv
  <2> QED
    BY <2>5, <2>6
<1>4. CASE Submits
  <2>1. CASE \E written \in Shown, w \in Widths : TakesTurn(written, 0, w, 0)
    <3>1. PICK written \in Shown, w \in Widths : TakesTurn(written, 0, w, 0)
      BY <2>1
    <3>2. w \in Nat \ {0} /\ 0 \in Nat
      BY WidthsAre
    <3> QED
      BY <3>1, <3>2, TurnTells
  <2>2. CASE \E written \in Streamed, counted \in {0, 1}, w \in Widths, dropped \in 0 .. MaxResizes :
                TakesTurn(written, counted, w, dropped)
    <3>1. PICK written \in Streamed, counted \in {0, 1}, w \in Widths, dropped \in 0 .. MaxResizes :
            TakesTurn(written, counted, w, dropped)
      BY <2>2
    <3>2. w \in Nat \ {0} /\ dropped \in Nat
      BY WidthsAre, ScreenConstants
    <3> QED
      BY <3>1, <3>2, TurnTells
  <2> QED
    BY <1>4, <2>1, <2>2 DEF Submits
<1>5. CASE Types \/ Redraws \/ Quits \/ Dirties \/ UNCHANGED screenVars
  BY <1>1, <1>5 DEF Types, Redraws, Quits, Dirties, screenVars
<1> QED
  BY <1>2, <1>3, <1>4, <1>5 DEF ScreenNext

(* Once the events of the window are read, the panel shows the editor and  *)
(* the footer as they are: the rows the renderer leaves alone are the      *)
(* frame's already, for every text that is typed, every width and height,  *)
(* every number of turns and of changes of the window, and every event a   *)
(* turn drops, as long as the panel has rows, no row written is wider than *)
(* the window and no other program writes.  The width it is drawn for is   *)
(* the window's unless a turn read the last event (diff.rs, render;        *)
(* terminal.rs, draw and emit; approval.rs, steer).                        *)
THEOREM PanelIsShown ==
    ScreenSpec => []PanelShowsTheFrame
<1>1. ScreenInit => ScreenInv /\ WindowInv
  BY ScreenStarts
<1>2. ScreenInv /\ WindowInv /\ [ScreenNext]_screenVars => (ScreenInv /\ WindowInv)'
  <2> SUFFICES ASSUME ScreenInv, WindowInv, [ScreenNext]_screenVars
               PROVE  ScreenInv'
    BY WindowInvNext
  <2>1. CASE Types
    BY <2>1, TypingKeeps
  <2>2. CASE Redraws
    BY <2>2, RedrawingKeeps
  <2>3. CASE WindowChanges
    BY <2>3, ChangingKeeps
  <2>4. CASE HearsOfTheWindow
    BY <2>4, HearingKeeps
  <2>5. CASE Submits
    <3>1. PICK written \in Shown \cup Streamed, counted \in {0, 1}, w \in Nat \ {0}, dropped \in Nat :
            TakesTurn(written, counted, w, dropped)
      BY <2>5, WidthsAre, ScreenConstants DEF Submits, WindowInv
    <3> QED
      BY <3>1, TurnKeeps
  <2>6. CASE Quits
    BY <2>6 DEF Quits, ScreenInv, Followed
  <2>7. CASE Dirties
    BY <2>7 DEF Dirties, ScreenInv, Followed
  <2>8. CASE UNCHANGED screenVars
    BY <2>8 DEF screenVars, widthVars, ScreenInv, Followed, SessionTypes, PanelStands, PanelIsOn,
                Frame, Top, RowsAreShown, NothingBelow, NarrowerToHear
  <2> QED
    BY <2>1, <2>2, <2>3, <2>4, <2>5, <2>6, <2>7, <2>8 DEF ScreenNext
<1>3. ScreenInv /\ WindowInv => PanelShowsTheFrame
  <2> SUFFICES ASSUME ScreenInv, WindowInv, ~quitting, unheard = <<>>
               PROVE  /\ ~missed => width = cols
                      /\ spoilt \cap {"other", "bottom", "wrapped"} = {} => RowsAreShown(Frame)
                      /\ spoilt = {} => NothingBelow(Frame)
    BY DEF PanelShowsTheFrame, Frame
  <2>1. ~NarrowerToHear
    BY DEF NarrowerToHear
  <2>2. Followed => PanelIsOn
    BY <2>1 DEF ScreenInv
  <2> QED
    BY <2>2 DEF WindowInv, Followed, PanelIsOn
<1> QED
  BY <1>1, <1>2, <1>3, PTL DEF ScreenSpec

=============================================================================
