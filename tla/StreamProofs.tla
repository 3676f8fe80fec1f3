---------------------------- MODULE StreamProofs ----------------------------
(***************************************************************************)
(* What holds of what comes in pieces, however it is cut: an answer of the *)
(* model, line by line over the wire, and the output of a command, block   *)
(* by block through its pipe.                                              *)
(***************************************************************************)
EXTENDS Wire, Capture, Facts

-----------------------------------------------------------------------------
(* The wait between attempts.                                              *)

(* Half of a delay and a part of the other half are no more than the delay. *)
LEMMA SpreadIsBounded ==
    ASSUME NEW base \in Nat, NEW entropy \in Nat
    PROVE  Spread(base, entropy) \in 0 .. base
<1> DEFINE half == base \div 2
           part == entropy % 1000
<1>1. half \in Nat /\ 2 * half <= base
  OBVIOUS
<1>2. part \in 0 .. 999
  OBVIOUS
<1> HIDE DEF half, part
<1>3. half * part \in Nat /\ half * part <= half * 1000
  BY <1>1, <1>2
<1> DEFINE product == half * part
<1> HIDE DEF product
<1>4. product \in Nat /\ product <= half * 1000
  BY <1>3 DEF product
<1>5. product \div 1000 \in Nat /\ product \div 1000 <= half
  BY <1>1, <1>4
<1>6. half + product \div 1000 \in 0 .. base
  BY <1>1, <1>5
<1>7. Spread(base, entropy) = half + product \div 1000
  BY DEF Spread, half, part, product
<1> QED
  BY <1>6, <1>7

LEMMA DelayIsBounded ==
    ASSUME NEW n \in 1 .. MAX_ATTEMPTS - 1, NEW retryAfter \in RetryAfters
    PROVE  Delay(n, retryAfter) \in 0 .. MAX_DELAY
<1>1. CASE retryAfter \in {<<0>>, <<30>>, <<600>>}
  <2>1. retryAfter # <<>> /\ Head(retryAfter) \in {0, 30, 600}
    BY <1>1
  <2> QED
    BY <2>1 DEF Delay, Min2, MAX_DELAY
<1>2. CASE retryAfter = <<>>
  <2>1. 2^0 \in Nat /\ 2^1 \in Nat
    BY SMT
  <2>2. n - 1 \in {0, 1}
    BY DEF MAX_ATTEMPTS
  <2>3. 2^(n - 1) \in Nat
    BY <2>1, <2>2
  <2> QED
    BY <1>2, <2>3 DEF Delay, Min2, MAX_DELAY, INITIAL
<1> QED
  BY <1>1, <1>2 DEF RetryAfters

-----------------------------------------------------------------------------

\* Each sleep takes a cap at most, and there is one for each retry.
WaitInv ==
    /\ attempt \in 1 .. MAX_ATTEMPTS /\ waited \in Nat
    /\ phase = "wait" => attempt < MAX_ATTEMPTS /\ waited <= attempt * MAX_DELAY
    /\ phase # "wait" => waited <= (attempt - 1) * MAX_DELAY \/ phase = "over"
    /\ PatienceIsBounded

LEMMA WaitInit == Init => WaitInv
  BY DEF Init, WaitInv, PatienceIsBounded, MAX_ATTEMPTS, MAX_DELAY

LEMMA WaitNext == WaitInv /\ [Next]_vars => WaitInv'
<1> SUFFICES ASSUME WaitInv, [Next]_vars
             PROVE  WaitInv'
  OBVIOUS
<1> USE DEF MAX_ATTEMPTS, MAX_DELAY
<1>1. CASE Retry
  <2>1. PICK retryAfter \in RetryAfters, entropy \in {0, 500, 999} :
          waited' = waited + Spread(Delay(attempt, retryAfter), entropy)
    BY <1>1 DEF Retry
  <2>2. attempt \in 1 .. 2 /\ phase = "ask" /\ phase' = "wait" /\ UNCHANGED attempt
    BY <1>1 DEF Retry, ShouldRetry, WaitInv
  <2>3. Delay(attempt, retryAfter) \in 0 .. 80
    BY <2>2, DelayIsBounded
  <2>4. Spread(Delay(attempt, retryAfter), entropy) \in 0 .. Delay(attempt, retryAfter)
    <3>1. Delay(attempt, retryAfter) \in Nat /\ entropy \in Nat
      BY <2>3
    <3> QED
      BY <3>1, SpreadIsBounded
  <2>5. waited' \in Nat /\ waited' <= waited + 80
    BY <2>1, <2>3, <2>4 DEF WaitInv
  <2> QED
    BY <2>2, <2>5 DEF WaitInv, PatienceIsBounded
<1>2. CASE Again
  BY <1>2 DEF Again, WaitInv, PatienceIsBounded
<1>3. CASE Open
  BY <1>3 DEF Open, WaitInv, PatienceIsBounded
<1>4. CASE Refused \/ Cancelled
  BY <1>4 DEF Refused, Cancelled, End, asking, WaitInv, PatienceIsBounded
<1>5. CASE Gateway \/ BodyStops
  BY <1>5 DEF Gateway, Begins, SpeaksText, SpeaksOfACall, SpeaksEntries, Stops, Counts, Seals,
              Stutters, BodyStops, asking, WaitInv, PatienceIsBounded
<1>6. CASE Reader
  <2>1. UNCHANGED asking /\ phase = "stream" /\ phase' \in {"stream", "over"}
    BY <1>6 DEF Reader, ReadsDrained, ReadsLine, ReadsFailure, ReadsEnd, Closes, End
  <2> QED
    BY <2>1 DEF asking, WaitInv, PatienceIsBounded
<1>7. CASE UNCHANGED vars
  BY <1>7 DEF vars, asking, WaitInv, PatienceIsBounded
<1> QED
  BY <1>1, <1>2, <1>3, <1>4, <1>5, <1>6, <1>7 DEF Next

(* Whatever the gateway writes in Retry-After, the sleeps between attempts  *)
(* stay under the attempts times the cap.                                  *)
THEOREM PatienceHasABound == Spec => []PatienceIsBounded
<1>1. Spec => []WaitInv
  BY WaitInit, WaitNext, PTL DEF Spec
<1>2. WaitInv => PatienceIsBounded
  BY DEF WaitInv
<1> QED
  BY <1>1, <1>2, PTL

-----------------------------------------------------------------------------
(* What a line does to the count of a decoder.                             *)

IsDecoder(d) ==
    DOMAIN d = {"ids", "open", "pending", "usage", "announced", "completed", "usageDrained"}

\* What a chunk of calls, or their end, leaves as it was.
KeepsCount(d, e) ==
    /\ IsDecoder(e)
    /\ e.usage = d.usage /\ e.completed = d.completed /\ e.usageDrained = d.usageDrained

\* A function that absorbs the first k entries, one by one.
IsAbsorbing(f, d, calls, k) ==
    f = [i \in 0 .. k |-> IF i = 0 THEN d ELSE AbsorbToolCall(f[i - 1], calls[i])]

\* The lengths for which there is one.
Absorbable(d, calls) == {k \in Nat : \E f : IsAbsorbing(f, d, calls, k)}

LEMMA AbsorbingGrows ==
    ASSUME NEW d, NEW calls, NEW k \in Nat, k \in Absorbable(d, calls)
    PROVE  k + 1 \in Absorbable(d, calls)
<1>1. PICK f : IsAbsorbing(f, d, calls, k)
  BY DEF Absorbable
<1> DEFINE last == AbsorbToolCall(f[k], calls[k + 1])
           next == [i \in 0 .. (k + 1) |-> IF i = k + 1 THEN last ELSE f[i]]
<1>2. \A i \in 0 .. k : f[i] = IF i = 0 THEN d ELSE AbsorbToolCall(f[i - 1], calls[i])
  BY <1>1 DEF IsAbsorbing
<1>3. next[k + 1] = last /\ \A i \in 0 .. k : next[i] = f[i]
  OBVIOUS
<1>4. next = [i \in 0 .. (k + 1) |-> next[i]]
  OBVIOUS
<1> HIDE DEF next
<1>5. ASSUME NEW i \in 0 .. (k + 1)
      PROVE  next[i] = IF i = 0 THEN d ELSE AbsorbToolCall(next[i - 1], calls[i])
  <2>1. CASE i = k + 1
    <3>1. i # 0 /\ i - 1 = k /\ k \in 0 .. k
      BY <2>1
    <3> QED
      BY <1>3, <2>1, <3>1
  <2>2. CASE i \in 0 .. k
    <3>1. i # 0 => i - 1 \in 0 .. k
      BY <2>2
    <3> QED
      BY <1>2, <1>3, <2>2, <3>1
  <2> QED
    BY <2>1, <2>2
<1>6. IsAbsorbing(next, d, calls, k + 1)
  BY <1>4, <1>5 DEF IsAbsorbing
<1> QED
  BY <1>6 DEF Absorbable

\* The decoder after each of n entries.
OneAfterAnother(f, d, calls, n) ==
    /\ f[0] = d /\ AbsorbToolCalls(d, calls) = f[n]
    /\ \A i \in 1 .. n : f[i] = AbsorbToolCall(f[i - 1], calls[i])

(* The recursion over the entries of a chunk, unrolled.                     *)
LEMMA AbsorbingIsOneByOne ==
    ASSUME NEW d, NEW calls, NEW n \in Nat, Len(calls) = n
    PROVE  \E f : OneAfterAnother(f, d, calls, n)
<1>1. 0 \in Absorbable(d, calls)
  <2> DEFINE f == [i \in 0 .. 0 |-> d]
  <2>1. IsAbsorbing(f, d, calls, 0)
    BY DEF IsAbsorbing
  <2> QED
    BY <2>1 DEF Absorbable
<1>2. Nat \subseteq Absorbable(d, calls)
  <2>1. \A k \in Nat : k \in Absorbable(d, calls) => k + 1 \in Absorbable(d, calls)
    BY AbsorbingGrows
  <2> QED
    BY <1>1, <2>1, InductionOverASet
<1> DEFINE f == CHOOSE g : IsAbsorbing(g, d, calls, n)
<1>3. IsAbsorbing(f, d, calls, n)
  BY <1>2 DEF Absorbable
<1>4. AbsorbToolCalls(d, calls) = f[n] /\ n \in Nat
  BY DEF AbsorbToolCalls, IsAbsorbing
<1> HIDE DEF f
<1>5. \A i \in 0 .. n : f[i] = IF i = 0 THEN d ELSE AbsorbToolCall(f[i - 1], calls[i])
  BY <1>3 DEF IsAbsorbing
<1>6. f[0] = d /\ \A i \in 1 .. n : f[i] = AbsorbToolCall(f[i - 1], calls[i])
  BY <1>4, <1>5
<1> QED
  BY <1>4, <1>6 DEF OneAfterAnother

LEMMA OneEntryKeepsTheCount ==
    ASSUME NEW d, IsDecoder(d), NEW call
    PROVE  KeepsCount(d, AbsorbToolCall(d, call))
  BY DEF KeepsCount, IsDecoder, AbsorbToolCall

LEMMA EntriesKeepTheCount ==
    ASSUME NEW d, IsDecoder(d), NEW calls, Len(calls) \in Nat
    PROVE  KeepsCount(d, AbsorbToolCalls(d, calls))
<1> DEFINE n == Len(calls)
<1>1. PICK f : OneAfterAnother(f, d, calls, n)
  BY AbsorbingIsOneByOne
<1>2. n \in Nat
  OBVIOUS
<1> HIDE DEF n
<1> DEFINE Fine == {k \in Nat : k <= n => KeepsCount(d, f[k])}
<1>3. 0 \in Fine
  BY <1>1 DEF KeepsCount, OneAfterAnother
<1>4. ASSUME NEW k \in Nat, k \in Fine
      PROVE  k + 1 \in Fine
  <2> SUFFICES ASSUME k + 1 <= n
               PROVE  KeepsCount(d, f[k + 1])
    OBVIOUS
  <2>1. KeepsCount(d, f[k])
    BY <1>2, <1>4
  <2>2. f[k + 1] = AbsorbToolCall(f[k], calls[k + 1])
    <3>1. k + 1 \in 1 .. n /\ (k + 1) - 1 = k
      BY <1>2
    <3> QED
      BY <1>1, <3>1 DEF OneAfterAnother
  <2>3. KeepsCount(f[k], AbsorbToolCall(f[k], calls[k + 1]))
    BY <2>1, OneEntryKeepsTheCount DEF KeepsCount
  <2> QED
    BY <2>1, <2>2, <2>3 DEF KeepsCount
<1> HIDE DEF Fine
<1>5. n \in Fine
  BY <1>2, <1>3, <1>4, InductionOverASet
<1>6. AbsorbToolCalls(d, calls) = f[n]
  BY <1>1 DEF OneAfterAnother
<1> QED
  BY <1>2, <1>5, <1>6 DEF Fine

\* The count of a decoder once it has read the line.
CountAfter(d, line) ==
    IF \/ line.type = "usage"
       \/ line.type = "stop" /\ dialect # "chat"
       \/ line.type = "start" /\ dialect = "messages"
    THEN IF dialect = "messages" THEN AbsorbKnown(d.usage, line.usage)
         ELSE AbsorbUsage(d.usage, line.usage)
    ELSE d.usage

\* The line that ends a turn in its dialect.
IsTheEnd(line) == line.type = (IF dialect = "responses" THEN "stop" ELSE "seal")

Idle == {"noise", "error", "garbage"}

\* What a dialect says in a line.
IsLine(line) ==
    \/ line.type \in Idle \cup {"start", "text", "reasoning", "stop"}
    \/ dialect # "chat" /\ line.type \in {"open", "args", "close"}
    \/ dialect = "chat" /\ line.type = "usage"
    \/ dialect = "chat" /\ line.type = "calls" /\ Len(line.entries) \in Nat
    \/ dialect # "responses" /\ line.type = "seal"

\* A line read without failure.
ReadsWell(d, line, read) ==
    /\ IsDecoder(read.dec)
    /\ read.dec.usage = CountAfter(d, line)
    /\ read.dec.completed => d.completed \/ IsTheEnd(line)
    /\ d.completed => read.dec.completed
    /\ read.dec.usageDrained = d.usageDrained
    /\ read.out = <<>> \/ Len(read.out) = 1
    /\ IsTheEnd(line) /\ dialect # "responses" =>
          read.out = <<Counted(d.usage)>> /\ read.dec.pending = d.pending
    /\ line.type \in Idle => /\ read.out = <<>> \/ read.out = <<Started>>
                             /\ read.dec.pending = d.pending

LEMMA MessagesReadWell ==
    ASSUME dialect = "messages", NEW d, IsDecoder(d), NEW line, IsLine(line),
           ~MessagesDecode(d, line).failed
    PROVE  ReadsWell(d, line, MessagesDecode(d, line))
  BY DEF IsDecoder, IsLine, ReadsWell, MessagesDecode, Emit, Silent, Fail, Idle, IsTheEnd,
         CountAfter, Started, Counted

LEMMA ResponsesReadWell ==
    ASSUME dialect = "responses", NEW d, IsDecoder(d), NEW line, IsLine(line),
           ~ResponsesDecode(d, line).failed
    PROVE  ReadsWell(d, line, ResponsesDecode(d, line))
  BY DEF IsDecoder, IsLine, ReadsWell, ResponsesDecode, Emit, Silent, Fail, Idle, IsTheEnd,
         CountAfter, Started, Counted

LEMMA PoppingKeepsTheCount ==
    ASSUME NEW d, NEW e, KeepsCount(d, e)
    PROVE  /\ KeepsCount(d, PopPending(e).dec)
           /\ PopPending(e).out = <<>> \/ Len(PopPending(e).out) = 1
  BY DEF KeepsCount, IsDecoder, PopPending, Silent, Emit

LEMMA ChatReadsWell ==
    ASSUME dialect = "chat", NEW d, IsDecoder(d), NEW line, IsLine(line),
           ~ChatDecode(d, line).failed
    PROVE  ReadsWell(d, line, ChatDecode(d, line))
<1>1. CASE line.type \in {"seal", "error", "garbage"}
  BY <1>1 DEF IsDecoder, IsLine, ReadsWell, ChatDecode, Emit, Fail, Idle, IsTheEnd,
              CountAfter, Counted
<1>2. CASE line.type \notin {"seal", "error", "garbage"}
  <2> DEFINE heard == IF line.type = "usage"
                      THEN [d EXCEPT !.usage = AbsorbUsage(@, line.usage)] ELSE d
  <2>1. /\ IsDecoder(heard) /\ heard.usage = CountAfter(d, line)
        /\ heard.completed = d.completed /\ heard.usageDrained = d.usageDrained
        /\ heard.pending = d.pending
        /\ ~IsTheEnd(line)
    BY <1>2 DEF IsDecoder, CountAfter, IsTheEnd
  <2>2. ChatDecode(d, line) =
          IF heard.announced THEN ChatChunk(heard, line)
          ELSE Emit([heard EXCEPT !.announced = TRUE], Started)
    BY <1>2 DEF ChatDecode
  <2> HIDE DEF heard
  <2>3. CASE ~heard.announced
    BY <1>2, <2>1, <2>2, <2>3 DEF IsDecoder, ReadsWell, Emit
  <2>4. CASE heard.announced /\ line.type = "stop"
    <3>1. KeepsCount(heard, FinishChat(heard, line.reason))
      BY <2>1 DEF KeepsCount, IsDecoder, FinishChat
    <3>2. ChatDecode(d, line) = PopPending(FinishChat(heard, line.reason))
      BY <2>2, <2>4 DEF ChatChunk
    <3> QED
      BY <2>1, <2>4, <3>1, <3>2, PoppingKeepsTheCount DEF ReadsWell, KeepsCount, Idle
  <2>5. CASE heard.announced /\ line.type = "calls"
    <3>1. KeepsCount(heard, AbsorbToolCalls(heard, line.entries))
      BY <2>1, <2>5, EntriesKeepTheCount DEF IsLine, Idle
    <3>2. ChatDecode(d, line) = PopPending(AbsorbToolCalls(heard, line.entries))
      BY <2>2, <2>5 DEF ChatChunk
    <3> QED
      BY <2>1, <2>5, <3>1, <3>2, PoppingKeepsTheCount DEF ReadsWell, KeepsCount, Idle
  <2>6. CASE heard.announced /\ line.type \in {"text", "reasoning", "start", "noise", "usage"}
    BY <2>1, <2>2, <2>6 DEF ChatChunk, ReadsWell, Emit, Silent, Idle
  <2> QED
    BY <1>2, <2>3, <2>4, <2>5, <2>6 DEF IsLine, Idle
<1> QED
  BY <1>1, <1>2

LEMMA LinesReadWell ==
    ASSUME dialect \in Dialects, NEW d, IsDecoder(d), NEW line, IsLine(line),
           ~Decode(dialect, d, line).failed
    PROVE  ReadsWell(d, line, Decode(dialect, d, line))
<1>1. CASE dialect = "messages"
  BY <1>1, MessagesReadWell DEF Decode
<1>2. CASE dialect = "chat"
  BY <1>2, ChatReadsWell DEF Decode
<1>3. CASE dialect = "responses"
  BY <1>3, ResponsesReadWell DEF Decode
<1> QED
  BY <1>1, <1>2, <1>3 DEF Dialects

\* An event leaves a turn a turn, and only a count changes its count.
IsTurn(t) == "usage" \in DOMAIN t

LEMMA AbsorbingIs ==
    ASSUME NEW t, IsTurn(t), NEW event
    PROVE  /\ IsTurn(Absorb(t, event))
           /\ event.type = "usage" => Absorb(t, event).usage = event.usage
           /\ event.type = "start" => Absorb(t, event) = t
  BY DEF IsTurn, Absorb, StartCall

-----------------------------------------------------------------------------
(* The count, from the gateway to the turn.                                *)

Count == [input : Nat, output : Nat, estimated : BOOLEAN]

LEMMA CountIs ==
    \A a, b \in Count :
        a.input = b.input /\ a.output = b.output /\ a.estimated = b.estimated => a = b
  BY DEF Count

LEMMA CountOfIs ==
    ASSUME counted \in Count, NEW i \in Nat, NEW o \in Nat
    PROVE  /\ CountOf(i, o) \in Count
           /\ CountOf(i, o).input = i /\ CountOf(i, o).output = o
           /\ CountOf(i, o).estimated = counted.estimated
  BY DEF Count, CountOf

LEMMA AbsorbedIs ==
    ASSUME NEW c \in Count, NEW n \in Count
    PROVE  /\ AbsorbUsage(c, n) \in Count
           /\ AbsorbUsage(c, n).input = n.input /\ AbsorbUsage(c, n).output = n.output
           /\ AbsorbUsage(c, n).estimated = c.estimated
  BY DEF Count, AbsorbUsage

(* What the gateway reports of its count is absorbed as that count, and the *)
(* zero of the input at the end does not erase it.                         *)
LEMMA ReportsAreAbsorbed ==
    ASSUME counted \in Count
    PROVE  /\ AbsorbKnown(counted, CountOf(2, 1)) = CountOf(2, 1)
           /\ counted.input = 2 => AbsorbKnown(counted, CountOf(0, 2)) = CountOf(2, 2)
           /\ AbsorbUsage(counted, CountOf(2, 2)) = CountOf(2, 2)
<1>1. \A i, o \in {0, 1, 2} :
         /\ CountOf(i, o) \in Count
         /\ CountOf(i, o).input = i /\ CountOf(i, o).output = o
         /\ CountOf(i, o).estimated = counted.estimated
  BY CountOfIs
<1>2. AbsorbKnown(counted, CountOf(2, 1)) = CountOf(2, 1)
  <2> DEFINE new == CountOf(2, 1)
  <2>1. new \in Count /\ new.input = 2 /\ new.output = 1
    BY <1>1
  <2> HIDE DEF new
  <2>2. /\ AbsorbKnown(counted, new) \in Count
        /\ AbsorbKnown(counted, new).input = 2
        /\ AbsorbKnown(counted, new).output = 1
        /\ AbsorbKnown(counted, new).estimated = counted.estimated
    BY <2>1 DEF Count, AbsorbKnown
  <2> QED
    BY <1>1, <2>2, CountIs DEF new
<1>3. ASSUME counted.input = 2
      PROVE  AbsorbKnown(counted, CountOf(0, 2)) = CountOf(2, 2)
  <2> DEFINE new == CountOf(0, 2)
  <2>1. new \in Count /\ new.input = 0 /\ new.output = 2
    BY <1>1
  <2> HIDE DEF new
  <2>2. /\ AbsorbKnown(counted, new) \in Count
        /\ AbsorbKnown(counted, new).input = 2
        /\ AbsorbKnown(counted, new).output = 2
        /\ AbsorbKnown(counted, new).estimated = counted.estimated
    BY <1>3, <2>1 DEF Count, AbsorbKnown
  <2> QED
    BY <1>1, <2>2, CountIs DEF new
<1>4. AbsorbUsage(counted, CountOf(2, 2)) = CountOf(2, 2)
  <2>1. /\ AbsorbUsage(counted, CountOf(2, 2)) \in Count
        /\ AbsorbUsage(counted, CountOf(2, 2)).input = 2
        /\ AbsorbUsage(counted, CountOf(2, 2)).output = 2
        /\ AbsorbUsage(counted, CountOf(2, 2)).estimated = counted.estimated
    BY <1>1, AbsorbedIs
  <2> QED
    BY <1>1, <2>1, CountIs
<1> QED
  BY <1>2, <1>3, <1>4

\* What is on its way brings the decoder to the count of the gateway.
WireBringsTheCount ==
    \/ wire = <<>> /\ dec.usage = counted
    \/ \E line : wire = <<line>> /\ IsLine(line) /\ CountAfter(dec, line) = counted

\* After the end, the gateway has nothing to say and nothing is held back.
EndIsTheLast ==
    /\ wire # <<>> /\ IsTheEnd(Head(wire)) => stage = "sealed"
    /\ dec.completed =>
         /\ stage = "sealed"
         /\ wire # <<>> => Head(wire).type \in Idle
         /\ dialect = "chat" => dec.pending = <<>>
    /\ dec.usageDrained \/ finished => dec.completed

\* A dialect that reports the count apart has reported it.
CountIsIn == dec.completed /\ (dialect = "responses" => dec.usageDrained)

\* While the request lasts.
CountTravels ==
    /\ dialect \in Dialects /\ IsDecoder(dec) /\ IsTurn(turn) /\ counted \in Count
    /\ WireBringsTheCount /\ EndIsTheLast
    /\ CountIsIn => turn.usage = counted
    /\ dialect = "messages" /\ stage = "speaking" => counted.input = 2
    /\ dialect = "responses" => stage # "stopped"
    /\ phase # "stream" => wire = <<>> /\ counted = NoUsage /\ ~finished
    /\ outcome # "complete"

CountInv == (phase # "over" => CountTravels) /\ UsageIsTheCount

LEMMA CountStarts == Init => CountInv
<1> SUFFICES ASSUME Init
             PROVE  CountInv
  OBVIOUS
<1>1. /\ dialect \in Dialects /\ phase = "ask" /\ stage = "silent" /\ counted = NoUsage
      /\ wire = <<>> /\ dec = NewDecoder(FALSE) /\ turn = NoTurn /\ finished = FALSE
      /\ outcome = "none"
  BY DEF Init
<1>2. counted \in Count
  BY <1>1 DEF NoUsage, Count
<1>3. IsDecoder(dec) /\ dec.completed = FALSE /\ dec.usageDrained = FALSE
  BY <1>1 DEF NewDecoder, IsDecoder
<1>4. dec.usage = counted
  BY <1>1 DEF NewDecoder, NoUsage
<1>5. IsTurn(turn)
  BY <1>1 DEF NoTurn, IsTurn
<1> QED
  BY <1>1, <1>2, <1>3, <1>4, <1>5
     DEF CountInv, CountTravels, WireBringsTheCount, EndIsTheLast, CountIsIn, UsageIsTheCount

LEMMA OpenKeepsTheCount ==
    ASSUME CountInv, Open
    PROVE  CountInv'
<1>1. PICK estimated \in BOOLEAN :
         /\ dec' = NewDecoder(estimated)
         /\ counted' = [counted EXCEPT !.estimated = estimated]
  BY DEF Open
<1>2. /\ phase = "ask" /\ phase' = "stream"
      /\ UNCHANGED <<dialect, stage, wire, turn, finished, outcome>>
  BY DEF Open
<1>3. CountTravels /\ wire = <<>> /\ counted = NoUsage /\ ~finished
  BY <1>2 DEF CountInv, CountTravels, WireBringsTheCount
<1>4. counted' \in Count /\ (dialect = "messages" /\ stage = "speaking" => counted'.input = 2)
  BY <1>1, <1>3 DEF CountTravels, NoUsage, Count
<1>5. IsDecoder(dec') /\ dec'.completed = FALSE /\ dec'.usageDrained = FALSE
  BY <1>1 DEF NewDecoder, IsDecoder
<1>6. dec'.usage = counted'
  BY <1>1, <1>3 DEF NewDecoder
<1> QED
  BY <1>2, <1>3, <1>4, <1>5, <1>6
     DEF CountInv, CountTravels, WireBringsTheCount, EndIsTheLast, CountIsIn, UsageIsTheCount

(* The gateway says one line, and counts what the line reports.            *)
LEMMA SpeakingKeepsTheCount ==
    ASSUME CountInv, CanSpeak, UNCHANGED <<dialect, phase, dec, turn, finished, outcome>>,
           NEW line, wire' = <<line>>, IsLine(line), CountAfter(dec, line) = counted',
           IsTheEnd(line) => stage' = "sealed",
           stage = "sealed" => stage' = "sealed" /\ line.type \in Idle /\ counted' = counted,
           counted' \in Count,
           dialect = "messages" /\ stage' = "speaking" => counted'.input = 2,
           dialect = "responses" => stage' # "stopped"
    PROVE  CountInv'
<1>1. CountTravels /\ phase = "stream"
  BY DEF CountInv, CanSpeak
<1>2. Head(wire') = line /\ wire' # <<>>
  OBVIOUS
<1>3. WireBringsTheCount'
  BY DEF WireBringsTheCount, IsLine, CountAfter
<1>4. EndIsTheLast'
  BY <1>1, <1>2 DEF CountTravels, EndIsTheLast, IsTheEnd
<1>5. CountIsIn' => turn'.usage = counted'
  BY <1>1 DEF CountTravels, EndIsTheLast, CountIsIn
<1> QED
  BY <1>1, <1>3, <1>4, <1>5 DEF CountInv, CountTravels, UsageIsTheCount

LEMMA BeginsKeepsTheCount ==
    ASSUME CountInv, Begins
    PROVE  CountInv'
<1>1. /\ CanSpeak /\ stage = "silent" /\ stage' = "speaking"
      /\ UNCHANGED <<dialect, phase, dec, turn, finished, outcome>>
      /\ IF dialect = "messages"
         THEN wire' = <<[type |-> "start", usage |-> CountOf(2, 1)]>> /\ counted' = CountOf(2, 1)
         ELSE wire' = <<[type |-> "start"]>> /\ counted' = counted
  BY DEF Begins, asking, reader
<1>2. CountTravels /\ wire = <<>> /\ dec.usage = counted /\ counted \in Count
  BY <1>1 DEF CountInv, CanSpeak, CountTravels, WireBringsTheCount
<1>3. CASE dialect = "messages"
  <2> DEFINE line == [type |-> "start", usage |-> CountOf(2, 1)]
  <2>1. IsLine(line) /\ ~IsTheEnd(line) /\ CountAfter(dec, line) = CountOf(2, 1)
    BY <1>2, <1>3, ReportsAreAbsorbed DEF IsLine, IsTheEnd, CountAfter
  <2>2. CountOf(2, 1) \in Count /\ CountOf(2, 1).input = 2
    BY <1>2, CountOfIs
  <2> HIDE DEF line
  <2>3. wire' = <<line>>
    BY <1>1, <1>3 DEF line
  <2> QED
    BY <1>1, <1>3, <2>1, <2>2, <2>3, SpeakingKeepsTheCount
<1>4. CASE dialect # "messages"
  <2> DEFINE line == [type |-> "start"]
  <2>1. IsLine(line) /\ ~IsTheEnd(line) /\ CountAfter(dec, line) = counted
    BY <1>2, <1>4 DEF IsLine, IsTheEnd, CountAfter
  <2> HIDE DEF line
  <2>2. wire' = <<line>>
    BY <1>1, <1>4 DEF line
  <2> QED
    BY <1>1, <1>2, <1>4, <2>1, <2>2, SpeakingKeepsTheCount
<1> QED
  BY <1>3, <1>4

LEMMA CallsKeepTheCount ==
    ASSUME CountInv, SpeaksText \/ SpeaksOfACall \/ SpeaksEntries \/ Stutters
    PROVE  CountInv'
<1>1. /\ CanSpeak /\ UNCHANGED <<dialect, phase, dec, turn, finished, outcome, counted, stage>>
  BY DEF SpeaksText, SpeaksOfACall, SpeaksEntries, Stutters, asking, reader
<1>2. CountTravels /\ wire = <<>> /\ dec.usage = counted /\ counted \in Count
  BY <1>1 DEF CountInv, CanSpeak, CountTravels, WireBringsTheCount
<1>3. PICK line : /\ wire' = <<line>> /\ IsLine(line)
                  /\ line.type \in Idle \cup {"text", "reasoning", "open", "args", "close", "calls"}
                  /\ stage = "sealed" => line.type \in Idle
  <2>1. CASE SpeaksText
    BY <2>1 DEF SpeaksText, IsLine
  <2>2. CASE SpeaksOfACall
    <3>1. PICK line : /\ wire' = <<line>> /\ line.type \in {"open", "args", "close"}
      BY <2>2 DEF SpeaksOfACall
    <3> QED
      BY <2>2, <3>1 DEF SpeaksOfACall, IsLine
  <2>3. CASE SpeaksEntries
    <3>1. PICK line : wire' = <<line>> /\ line.type = "calls" /\ Len(line.entries) \in Nat
      <4>1. PICK es : wire' = <<[type |-> "calls", entries |-> es]>> /\ Len(es) \in Nat
        BY <2>3 DEF SpeaksEntries
      <4> QED
        BY <4>1
    <3> QED
      BY <2>3, <3>1 DEF SpeaksEntries, IsLine
  <2>4. CASE Stutters
    <3>1. \/ wire' = <<[type |-> "noise"]>>
          \/ wire' = <<[type |-> "error"]>>
          \/ wire' = <<[type |-> "garbage"]>>
          \/ /\ stage = "speaking" /\ dialect = "chat"
             /\ \E e : wire' = <<[type |-> "calls", entries |-> <<e>>]>>
          \/ /\ stage = "speaking" /\ dialect # "chat"
             /\ \E k, f : wire' = <<[type |-> "args", key |-> k, frag |-> f]>>
      BY <2>4 DEF Stutters
    <3> QED
      BY <3>1 DEF IsLine, Idle
  <2> QED
    BY <2>1, <2>2, <2>3, <2>4
<1>4. CountAfter(dec, line) = counted /\ ~IsTheEnd(line)
  BY <1>2, <1>3 DEF CountAfter, IsTheEnd, Idle
<1>5. /\ dialect = "messages" /\ stage = "speaking" => counted.input = 2
      /\ dialect = "responses" => stage # "stopped"
  BY <1>2 DEF CountTravels
<1> QED
  BY <1>1, <1>2, <1>3, <1>4, <1>5, SpeakingKeepsTheCount

LEMMA StopsKeepsTheCount ==
    ASSUME CountInv, Stops
    PROVE  CountInv'
<1>1. /\ CanSpeak /\ stage = "speaking"
      /\ stage' = IF dialect = "responses" THEN "sealed" ELSE "stopped"
      /\ UNCHANGED <<dialect, phase, dec, turn, finished, outcome>>
  BY DEF Stops, asking, reader
<1>2. CountTravels /\ wire = <<>> /\ dec.usage = counted /\ counted \in Count
  BY <1>1 DEF CountInv, CanSpeak, CountTravels, WireBringsTheCount
<1>3. PICK word :
         \/ /\ dialect = "messages"
            /\ wire' = <<[type |-> "stop", reason |-> word, usage |-> CountOf(0, 2)]>>
            /\ counted' = CountOf(2, 2)
         \/ /\ dialect = "chat"
            /\ wire' = <<[type |-> "stop", reason |-> word]>>
            /\ counted' = counted
         \/ /\ dialect = "responses"
            /\ wire' = <<[type |-> "stop", reason |-> word, usage |-> CountOf(2, 2)]>>
            /\ counted' = CountOf(2, 2)
  BY Zenon DEF Stops
<1>4. CountOf(2, 2) \in Count /\ CountOf(2, 2).input = 2
  BY <1>2, CountOfIs
<1>5. CASE dialect = "messages"
  <2> DEFINE line == [type |-> "stop", reason |-> word, usage |-> CountOf(0, 2)]
  <2>1. counted.input = 2
    BY <1>1, <1>2, <1>5 DEF CountTravels
  <2>2. IsLine(line) /\ ~IsTheEnd(line) /\ CountAfter(dec, line) = CountOf(2, 2)
    BY <1>2, <1>5, <2>1, ReportsAreAbsorbed DEF IsLine, IsTheEnd, CountAfter
  <2> HIDE DEF line
  <2>3. wire' = <<line>> /\ counted' = CountOf(2, 2)
    BY <1>3, <1>5 DEF line
  <2> QED
    BY <1>1, <1>4, <1>5, <2>2, <2>3, SpeakingKeepsTheCount
<1>6. CASE dialect = "responses"
  <2> DEFINE line == [type |-> "stop", reason |-> word, usage |-> CountOf(2, 2)]
  <2>1. IsLine(line) /\ CountAfter(dec, line) = CountOf(2, 2)
    BY <1>2, <1>6, ReportsAreAbsorbed DEF IsLine, CountAfter
  <2> HIDE DEF line
  <2>2. wire' = <<line>> /\ counted' = CountOf(2, 2)
    BY <1>3, <1>6 DEF line
  <2> QED
    BY <1>1, <1>4, <1>6, <2>1, <2>2, SpeakingKeepsTheCount
<1>7. CASE dialect = "chat"
  <2> DEFINE line == [type |-> "stop", reason |-> word]
  <2>1. IsLine(line) /\ ~IsTheEnd(line) /\ CountAfter(dec, line) = counted
    BY <1>2, <1>7 DEF IsLine, IsTheEnd, CountAfter
  <2> HIDE DEF line
  <2>2. wire' = <<line>> /\ counted' = counted
    BY <1>3, <1>7 DEF line
  <2> QED
    BY <1>1, <1>2, <1>7, <2>1, <2>2, SpeakingKeepsTheCount
<1> QED
  BY <1>3, <1>5, <1>6, <1>7

LEMMA CountsKeepsTheCount ==
    ASSUME CountInv, Counts
    PROVE  CountInv'
<1> DEFINE line == [type |-> "usage", usage |-> CountOf(2, 2)]
<1>1. /\ CanSpeak /\ stage = "stopped" /\ stage' = stage /\ dialect = "chat"
      /\ UNCHANGED <<dialect, phase, dec, turn, finished, outcome>>
      /\ wire' = <<line>> /\ counted' = CountOf(2, 2)
  BY DEF Counts, asking, reader
<1>2. CountTravels /\ wire = <<>> /\ dec.usage = counted /\ counted \in Count
  BY <1>1 DEF CountInv, CanSpeak, CountTravels, WireBringsTheCount
<1>3. IsLine(line) /\ ~IsTheEnd(line) /\ CountAfter(dec, line) = CountOf(2, 2)
  BY <1>1, <1>2, ReportsAreAbsorbed DEF IsLine, IsTheEnd, CountAfter
<1>4. CountOf(2, 2) \in Count
  BY <1>2, CountOfIs
<1> HIDE DEF line
<1> QED
  BY <1>1, <1>3, <1>4, SpeakingKeepsTheCount

LEMMA SealsKeepsTheCount ==
    ASSUME CountInv, Seals
    PROVE  CountInv'
<1> DEFINE line == [type |-> "seal"]
<1>1. /\ CanSpeak /\ stage = "stopped" /\ stage' = "sealed"
      /\ UNCHANGED <<dialect, phase, dec, turn, finished, outcome, counted>>
      /\ wire' = <<line>>
  BY DEF Seals, asking, reader
<1>2. CountTravels /\ wire = <<>> /\ dec.usage = counted /\ counted \in Count
  BY <1>1 DEF CountInv, CanSpeak, CountTravels, WireBringsTheCount
<1>3. dialect # "responses"
  BY <1>1, <1>2 DEF CountTravels
<1>4. IsLine(line) /\ CountAfter(dec, line) = counted
  BY <1>2, <1>3 DEF IsLine, CountAfter
<1> HIDE DEF line
<1> QED
  BY <1>1, <1>2, <1>4, SpeakingKeepsTheCount

LEMMA LineKeepsTheCount ==
    ASSUME CountInv, ReadsLine
    PROVE  CountInv'
<1> DEFINE read == Decode(dialect, dec, Head(wire))
<1>1. /\ phase = "stream" /\ Drained.out = <<>> /\ ~finished /\ wire # <<>>
      /\ dec' = read.dec
      /\ turn' = IF read.out = <<>> THEN turn ELSE Absorb(turn, Head(read.out))
      /\ IF read.failed THEN phase' = "over" /\ outcome' = "malformed"
         ELSE phase' = phase /\ outcome' = outcome
      /\ wire' = <<>>
      /\ UNCHANGED <<dialect, counted, stage, finished>>
  BY DEF ReadsLine, End, asking, gateway
<1> HIDE DEF read
<1>2. CASE read.failed
  BY <1>1, <1>2 DEF CountInv, UsageIsTheCount
<1>3. CASE ~read.failed
  <2>1. CountTravels
    BY <1>1 DEF CountInv
  <2>2. PICK line : wire = <<line>> /\ IsLine(line) /\ CountAfter(dec, line) = counted
    BY <1>1, <2>1 DEF CountTravels, WireBringsTheCount
  <2>3. ReadsWell(dec, line, read)
    BY <1>3, <2>1, <2>2, LinesReadWell DEF CountTravels, read
  <2>4. /\ IsTheEnd(line) => stage = "sealed"
        /\ dec.completed => stage = "sealed" /\ line.type \in Idle
    BY <2>1, <2>2 DEF CountTravels, EndIsTheLast
  <2>5. IsTurn(turn')
    BY <1>1, <2>1, AbsorbingIs DEF CountTravels
  <2>6. WireBringsTheCount' /\ IsDecoder(dec')
    BY <1>1, <2>2, <2>3 DEF ReadsWell, WireBringsTheCount
  <2>7. ~IsTheEnd(line) => dec.completed \/ ~read.dec.completed
    BY <2>3 DEF ReadsWell
  <2>8. dialect = "chat" => dec.pending = <<>>
    BY <1>1 DEF Drained, Drain, PopPending, Emit
  <2>9. EndIsTheLast'
    <3>1. dec'.completed => stage' = "sealed"
      BY <1>1, <2>4, <2>7
    <3>2. dec'.completed /\ dialect = "chat" => dec'.pending = <<>>
      BY <1>1, <2>3, <2>4, <2>7, <2>8 DEF ReadsWell
    <3>3. dec'.usageDrained \/ finished' => dec'.completed
      BY <1>1, <2>1, <2>3 DEF ReadsWell, CountTravels, EndIsTheLast
    <3> QED
      BY <1>1, <3>1, <3>2, <3>3 DEF EndIsTheLast
  <2>10. ASSUME CountIsIn'
         PROVE  turn'.usage = counted
    <3>1. dec'.completed /\ (dialect = "responses" => dec'.usageDrained)
      BY <1>1, <2>10 DEF CountIsIn
    <3>2. CASE dec.completed
      <4>1. CountIsIn /\ turn.usage = counted
        BY <1>1, <2>1, <2>3, <3>1, <3>2 DEF CountIsIn, ReadsWell, CountTravels
      <4>2. read.out = <<>> \/ read.out = <<Started>>
        BY <2>3, <2>4, <3>2 DEF ReadsWell
      <4>3. Absorb(turn, Started) = turn
        BY <2>1, AbsorbingIs DEF CountTravels, Started
      <4> QED
        BY <1>1, <4>1, <4>2, <4>3
    <3>3. CASE ~dec.completed
      <4>1. IsTheEnd(line)
        BY <1>1, <2>7, <3>1, <3>3
      <4>2. dialect # "responses"
        BY <1>1, <2>1, <2>3, <3>1, <3>3 DEF ReadsWell, CountTravels, EndIsTheLast
      <4>3. read.out = <<Counted(dec.usage)>>
        BY <2>3, <4>1, <4>2 DEF ReadsWell
      <4>4. Absorb(turn, Counted(dec.usage)).usage = dec.usage
        BY <2>1, AbsorbingIs DEF CountTravels, Counted
      <4>5. CountAfter(dec, line) = dec.usage
        BY <4>1, <4>2 DEF CountAfter, IsTheEnd
      <4> QED
        BY <1>1, <2>2, <4>3, <4>4, <4>5
    <3> QED
      BY <3>2, <3>3
  <2>11. CountTravels'
    BY <1>1, <1>3, <2>1, <2>5, <2>6, <2>9, <2>10 DEF CountTravels
  <2> QED
    BY <2>11 DEF CountInv, CountTravels, UsageIsTheCount
<1> QED
  BY <1>2, <1>3

LEMMA DrainKeepsTheCount ==
    ASSUME CountInv, ReadsDrained
    PROVE  CountInv'
<1>1. /\ phase = "stream" /\ Drained.out # <<>>
      /\ dec' = Drained.dec /\ turn' = Absorb(turn, Head(Drained.out))
      /\ UNCHANGED <<phase, dialect, counted, stage, wire, finished, outcome>>
  BY DEF ReadsDrained, asking, gateway
<1>2. CountTravels
  BY <1>1 DEF CountInv
<1>3. IsTurn(turn')
  BY <1>1, <1>2, AbsorbingIs DEF CountTravels
<1>4. /\ IsDecoder(dec') /\ dec'.usage = dec.usage
      /\ dialect \in {"chat", "responses"}
      /\ dialect = "chat" => /\ ~dec.completed
                             /\ dec'.completed = dec.completed
                             /\ dec'.usageDrained = dec.usageDrained
      /\ dialect = "responses" => /\ dec.completed /\ dec'.completed
                                  /\ turn'.usage = dec.usage
  <2>1. CASE dialect = "messages"
    BY <1>1, <2>1 DEF Drained, Drain, Silent
  <2>2. CASE dialect = "chat"
    <3>1. Drained = PopPending(dec) /\ dec.pending # <<>>
      BY <1>1, <2>2 DEF Drained, Drain, PopPending, Silent
    <3>2. ~dec.completed
      BY <1>2, <2>2, <3>1 DEF CountTravels, EndIsTheLast
    <3>3. KeepsCount(dec, dec')
      BY <1>1, <1>2, <3>1, PoppingKeepsTheCount DEF CountTravels, KeepsCount
    <3> QED
      BY <2>2, <3>2, <3>3 DEF KeepsCount
  <2>3. CASE dialect = "responses"
    <3>1. /\ dec.completed
          /\ Drained = Emit([dec EXCEPT !.usageDrained = TRUE], Counted(dec.usage))
      BY <1>1, <2>3 DEF Drained, Drain, UsageIsDue, Silent
    <3>2. /\ dec' = [dec EXCEPT !.usageDrained = TRUE]
          /\ turn' = Absorb(turn, Counted(dec.usage))
      BY <1>1, <3>1 DEF Emit
    <3>3. turn'.usage = dec.usage
      BY <1>2, <3>2, AbsorbingIs DEF CountTravels, Counted
    <3> QED
      BY <1>2, <2>3, <3>1, <3>2, <3>3 DEF CountTravels, IsDecoder
  <2> QED
    BY <1>2, <2>1, <2>2, <2>3 DEF CountTravels, Dialects
<1>5. WireBringsTheCount'
  <2>1. CASE wire = <<>>
    BY <1>1, <1>2, <1>4, <2>1 DEF CountTravels, WireBringsTheCount
  <2>2. CASE wire # <<>>
    <3>1. PICK line : wire = <<line>> /\ IsLine(line) /\ CountAfter(dec, line) = counted
      BY <1>2, <2>2 DEF CountTravels, WireBringsTheCount
    <3>2. IsLine(line)' /\ CountAfter(dec, line)' = counted
      BY <1>1, <1>4, <3>1 DEF IsLine, CountAfter
    <3> QED
      BY <1>1, <3>1, <3>2 DEF WireBringsTheCount
  <2> QED
    BY <2>1, <2>2
<1>6. EndIsTheLast'
  BY <1>1, <1>2, <1>4 DEF CountTravels, EndIsTheLast, IsTheEnd
<1>7. CountIsIn' => turn'.usage = counted'
  <2>1. CASE dialect = "chat"
    BY <1>1, <1>4, <2>1 DEF CountIsIn
  <2>2. CASE dialect = "responses"
    <3>1. wire = <<>> \/ Head(wire).type \in Idle
      BY <1>2, <1>4, <2>2 DEF CountTravels, EndIsTheLast
    <3>2. dec.usage = counted
      BY <1>2, <3>1 DEF CountTravels, WireBringsTheCount, CountAfter, Idle
    <3> QED
      BY <1>1, <1>4, <2>2, <3>2
  <2> QED
    BY <1>4, <2>1, <2>2
<1>8. CountTravels'
  BY <1>1, <1>2, <1>3, <1>4, <1>5, <1>6, <1>7 DEF CountTravels
<1> QED
  BY <1>8 DEF CountInv, CountTravels, UsageIsTheCount

LEMMA CountStays ==
    ASSUME CountInv,
           UNCHANGED <<dialect, counted, stage, wire, dec, turn>>,
           finished' => finished \/ dec.completed,
           \/ UNCHANGED <<outcome, finished>> /\ phase' = phase
           \/ phase # "over" /\ phase' = "over" /\ outcome' # "complete"
           \/ phase = "stream" /\ phase' = "stream" /\ outcome' = outcome
           \/ /\ {phase, phase'} \subseteq {"ask", "wait"}
              /\ UNCHANGED <<outcome, finished>>
    PROVE  CountInv'
<1>1. \A line : (IsLine(line))' = IsLine(line) /\ (CountAfter(dec, line))' = CountAfter(dec, line)
  BY DEF IsLine, CountAfter
<1>2. WireBringsTheCount => WireBringsTheCount'
  BY <1>1 DEF WireBringsTheCount
<1>3. phase # "over" /\ CountTravels /\ EndIsTheLast => EndIsTheLast'
  BY DEF EndIsTheLast, IsTheEnd
<1> QED
  BY <1>2, <1>3 DEF CountInv, CountTravels, CountIsIn, UsageIsTheCount

LEMMA CountSteps == CountInv /\ [Next]_vars => CountInv'
<1> SUFFICES ASSUME CountInv, [Next]_vars
             PROVE  CountInv'
  OBVIOUS
<1>1. CASE Retry \/ Again
  BY <1>1, CountStays DEF Retry, Again, gateway, reader
<1>2. CASE Refused \/ Cancelled
  BY <1>2, CountStays DEF Refused, Cancelled, End, asking, gateway, reader
<1>3. CASE Open
  BY <1>3, OpenKeepsTheCount
<1>4. CASE Gateway
  BY <1>4, BeginsKeepsTheCount, CallsKeepTheCount, StopsKeepsTheCount, CountsKeepsTheCount,
     SealsKeepsTheCount DEF Gateway
<1>5. CASE BodyStops
  BY <1>5, CountStays DEF BodyStops, asking, gateway, reader
<1>6. CASE ReadsLine \/ ReadsDrained
  BY <1>6, LineKeepsTheCount, DrainKeepsTheCount
<1>7. CASE ReadsFailure
  BY <1>7, CountStays DEF ReadsFailure, End, asking, gateway, reader
<1>8. CASE ReadsEnd
  <2>1. /\ phase = "stream" /\ finished' = TRUE
        /\ UNCHANGED <<dialect, counted, stage, wire, dec, turn>>
        /\ \/ dec.completed /\ phase' = phase /\ outcome' = outcome
           \/ phase' = "over" /\ outcome' = "truncated"
    BY <1>8 DEF ReadsEnd, End, EndIsClean, asking, gateway
  <2>2. CASE dec.completed /\ phase' = phase /\ outcome' = outcome
    BY <2>1, <2>2, CountStays
  <2>3. CASE phase' = "over" /\ outcome' = "truncated"
    BY <2>1, <2>3 DEF CountInv, UsageIsTheCount
  <2> QED
    BY <2>1, <2>2, <2>3
<1>9. CASE Closes
  <2>1. /\ phase = "stream" /\ Drained.out = <<>> /\ finished /\ phase' = "over"
        /\ UNCHANGED <<counted, turn>>
    BY <1>9 DEF Closes, End, gateway, reader
  <2>2. CountTravels /\ dec.completed
    BY <2>1 DEF CountInv, CountTravels, EndIsTheLast
  <2>3. dialect = "responses" => dec.usageDrained
    BY <2>1, <2>2 DEF Drained, Drain, UsageIsDue, Emit
  <2>4. turn.usage = counted
    BY <2>2, <2>3 DEF CountTravels, CountIsIn
  <2> QED
    BY <2>1, <2>4 DEF CountInv, UsageIsTheCount
<1>10. CASE UNCHANGED vars
  BY <1>10, CountStays DEF vars, asking, gateway, reader
<1> QED
  BY <1>1, <1>2, <1>3, <1>4, <1>5, <1>6, <1>7, <1>8, <1>9, <1>10 DEF Next, Reader

(* A complete turn tells the agent the count that the gateway made, in      *)
(* every dialect: a report that omits the input does not erase it, and an  *)
(* estimate stays one (decoder.rs and chat_stream.rs, absorb_usage;        *)
(* responses_stream.rs, drain).                                            *)
THEOREM TheCountArrives == Spec => []UsageIsTheCount
<1>1. Spec => []CountInv
  BY CountStarts, CountSteps, PTL DEF Spec
<1>2. CountInv => UsageIsTheCount
  BY DEF CountInv
<1> QED
  BY <1>1, <1>2, PTL

-----------------------------------------------------------------------------
(* What is said and heard.                                                 *)

\* Fragments of arguments, and why a turn stops.
Frags == Nat \X Nat
Words == {"end", "limit", "refused", "tools"}

\* What is heard is never a seal.
Unsealed == FALSE

\* What may be said or heard before the seal: calls are numbered as they come,
\* and each is done once.
IsAnswer(h) ==
    /\ h = [text |-> h.text, reasoning |-> h.reasoning, calls |-> h.calls,
            done |-> h.done, stop |-> h.stop, sealed |-> Unsealed]
    /\ h.text \in Seq(Nat) /\ h.reasoning \in Seq(Nat)
    /\ \E n \in 0 .. MaxCalls : h.calls \in [1 .. n -> Seq(Frags)]
    /\ h.done \in Seq(DOMAIN h.calls)
    /\ \A i, j \in DOMAIN h.done : h.done[i] = h.done[j] => i = j
    /\ h.stop \in Words \cup {"absent"}

OpensACall(h, event, g) ==
    \E n \in 0 .. MaxCalls :
        /\ DOMAIN h.calls = 1 .. n /\ n < MaxCalls
        /\ event.id = IdOf(n + 1)
        /\ g = [h EXCEPT !.calls = Insert(@, n + 1, <<>>)]

AddsToACall(h, event, g) ==
    \E k \in DOMAIN h.calls :
        /\ event.id = IdOf(k) /\ event.frag \in Frags
        /\ g = [h EXCEPT !.calls = Insert(@, k, Append(@[k], event.frag))]

ClosesACall(h, event, g) ==
    \E k \in DOMAIN h.calls :
        /\ event.id = IdOf(k) /\ k \notin ToSet(h.done)
        /\ g = [h EXCEPT !.done = Append(@, k)]

\* The event is sound after h, and makes it g.
Adds(h, event, g) ==
    \/ event.type \in {"start", "usage"} /\ g = h
    \/ event.type = "text" /\ event.frag \in Nat /\ g = [h EXCEPT !.text = Append(@, event.frag)]
    \/ /\ event.type = "reasoning" /\ event.frag \in Nat
       /\ g = [h EXCEPT !.reasoning = Append(@, event.frag)]
    \/ event.type = "call_start" /\ OpensACall(h, event, g)
    \/ event.type = "call_delta" /\ AddsToACall(h, event, g)
    \/ event.type = "call_end" /\ ClosesACall(h, event, g)
    \/ /\ event.type = "end" /\ event.reason \in Words
       /\ g = [h EXCEPT !.stop = event.reason] /\ h.stop = "absent"

\* The events, in their order, make it g.
IsPath(p, h, events, g) ==
    /\ p[0] = h /\ p[Len(events)] = g
    /\ \A i \in 1 .. Len(events) : Adds(p[i - 1], events[i], p[i])

\* A sequence, whatever it is of.
IsSequence(s) == Len(s) \in Nat /\ s = [i \in 1 .. Len(s) |-> s[i]]

Leads(h, events, g) == IsSequence(events) /\ \E p : IsPath(p, h, events, g)

Starts(s, t) == Len(s) <= Len(t) /\ \A i \in 1 .. Len(s) : s[i] = t[i]

\* What was said or heard at a time, and at a later one.
Precedes(a, b) ==
    /\ Starts(a.text, b.text) /\ Starts(a.reasoning, b.reasoning)
    /\ DOMAIN a.calls \subseteq DOMAIN b.calls
    /\ \A c \in DOMAIN a.calls : Starts(a.calls[c], b.calls[c])
    /\ ToSet(a.done) \subseteq ToSet(b.done)
    /\ a.stop \in {"absent", b.stop}

(* What is a sequence of something is a sequence, and the other way round.  *)
LEMMA SequencesAre ==
    /\ \A E : \A s \in Seq(E) : IsSequence(s)
    /\ IsSequence(<<>>) /\ \A x : IsSequence(<<x>>)
    /\ \A s : IsSequence(s) => \E E : s \in Seq(E)
<1>1. \A E : \A s \in Seq(E) : IsSequence(s)
  BY DEF IsSequence
<1>2. IsSequence(<<>>) /\ \A x : IsSequence(<<x>>)
  <2>1. <<>> \in Seq({}) /\ \A x : <<x>> \in Seq({x})
    OBVIOUS
  <2> QED
    BY <1>1, <2>1
<1>3. ASSUME NEW s, IsSequence(s)
      PROVE  \E E : s \in Seq(E)
  <2> DEFINE E == {s[i] : i \in 1 .. Len(s)}
             n == Len(s)
  <2>1. s \in [1 .. n -> E] /\ n \in Nat
    BY <1>3 DEF IsSequence
  <2> HIDE DEF E, n
  <2>2. s \in Seq(E)
    BY <2>1
  <2> QED
    BY <2>2
<1> QED
  BY <1>1, <1>2, <1>3

(* Two sequences are of one set.                                            *)
LEMMA SequencesJoin ==
    ASSUME NEW s, NEW t, IsSequence(s), IsSequence(t)
    PROVE  \E E : s \in Seq(E) /\ t \in Seq(E)
<1>1. PICK D : s \in Seq(D)
  BY SequencesAre
<1>2. PICK E : t \in Seq(E)
  BY SequencesAre
<1>3. s \in Seq(D \cup E) /\ t \in Seq(D \cup E)
  BY <1>1, <1>2
<1> QED
  BY <1>3

(* No event makes nothing of an answer.                                     *)
LEMMA NothingLeadsNowhere ==
    ASSUME NEW h
    PROVE  Leads(h, <<>>, h)
<1> DEFINE p == [i \in {0} |-> h]
<1>1. IsPath(p, h, <<>>, h)
  BY DEF IsPath
<1> QED
  BY <1>1, SequencesAre DEF Leads

(* One event.                                                               *)
LEMMA OneEventLeads ==
    ASSUME NEW h, NEW event, NEW g, Adds(h, event, g)
    PROVE  Leads(h, <<event>>, g)
<1> DEFINE p == [i \in 0 .. 1 |-> IF i = 0 THEN h ELSE g]
<1>1. p[0] = h /\ p[1] = g
  OBVIOUS
<1> HIDE DEF p
<1>2. Len(<<event>>) = 1 /\ <<event>>[1] = event
  OBVIOUS
<1>3. \A i \in 1 .. 1 : i = 1 /\ i - 1 = 0
  OBVIOUS
<1>4. IsPath(p, h, <<event>>, g)
  BY <1>1, <1>2, <1>3 DEF IsPath
<1> QED
  BY <1>4, SequencesAre DEF Leads

(* One path after another.                                                  *)
LEMMA PathsJoin ==
    ASSUME NEW es, NEW fs, NEW h, NEW m, NEW g, Leads(h, es, m), Leads(m, fs, g)
    PROVE  Leads(h, es \o fs, g)
<1>a. PICK E : es \in Seq(E) /\ fs \in Seq(E)
  BY SequencesJoin DEF Leads
<1>1. PICK p : IsPath(p, h, es, m)
  BY DEF Leads
<1>2. PICK q : IsPath(q, m, fs, g)
  BY DEF Leads
<1> DEFINE n == Len(es)
           k == Len(fs)
           all == es \o fs
           r == [i \in 0 .. n + k |-> IF i <= n THEN p[i] ELSE q[i - n]]
<1>3. /\ n \in Nat /\ k \in Nat /\ Len(all) = n + k
      /\ \A i \in 1 .. n : all[i] = es[i]
      /\ \A i \in n + 1 .. n + k : all[i] = fs[i - n]
  BY <1>a
<1>4. \A i \in 0 .. n + k : r[i] = IF i <= n THEN p[i] ELSE q[i - n]
  OBVIOUS
<1> HIDE DEF all, r
<1>5. /\ p[0] = h /\ p[n] = m /\ q[0] = m /\ q[k] = g
      /\ \A i \in 1 .. n : Adds(p[i - 1], es[i], p[i])
      /\ \A i \in 1 .. k : Adds(q[i - 1], fs[i], q[i])
  BY <1>1, <1>2 DEF IsPath
<1> HIDE DEF n, k
<1>6. r[0] = h /\ r[n + k] = g
  <2>1. r[0] = p[0]
    BY <1>3, <1>4
  <2>2. CASE k = 0
    <3>1. r[n + k] = p[n]
      BY <1>3, <1>4, <2>2
    <3> QED
      BY <1>5, <2>1, <2>2, <3>1
  <2>3. CASE k # 0
    <3>1. r[n + k] = q[(n + k) - n] /\ (n + k) - n = k
      BY <1>3, <1>4, <2>3
    <3> QED
      BY <1>5, <2>1, <3>1
  <2> QED
    BY <2>2, <2>3
<1>7. ASSUME NEW i \in 1 .. n + k
      PROVE  Adds(r[i - 1], all[i], r[i])
  <2>1. CASE i <= n
    <3>1. r[i - 1] = p[i - 1] /\ r[i] = p[i] /\ all[i] = es[i] /\ i \in 1 .. n
      BY <1>3, <1>4, <2>1
    <3> QED
      BY <1>5, <3>1
  <2>2. CASE i = n + 1
    <3>1. r[i - 1] = p[n] /\ r[i] = q[1] /\ all[i] = fs[1] /\ 1 \in 1 .. k /\ 1 - 1 = 0
      <4>1. i - 1 = n /\ i - n = 1 /\ ~(i <= n) /\ n <= n /\ n \in 0 .. n + k /\ i \in n + 1 .. n + k
        BY <1>3, <2>2
      <4>2. 1 \in 1 .. k
        BY <1>3, <2>2
      <4> QED
        BY <1>3, <1>4, <4>1, <4>2
    <3>2. Adds(q[1 - 1], fs[1], q[1])
      BY <1>5, <3>1
    <3> QED
      BY <1>5, <3>1, <3>2
  <2>3. CASE i > n + 1
    <3> DEFINE j == i - n
    <3>1. r[i - 1] = q[j - 1] /\ r[i] = q[j] /\ all[i] = fs[j] /\ j \in 1 .. k
      <4>1. /\ i - 1 \in 0 .. n + k /\ ~(i - 1 <= n) /\ (i - 1) - n = j - 1 /\ i \in 0 .. n + k
            /\ ~(i <= n) /\ i \in n + 1 .. n + k /\ j \in 1 .. k
        BY <1>3, <2>3
      <4> QED
        BY <1>3, <1>4, <4>1
    <3> HIDE DEF j
    <3> QED
      BY <1>5, <3>1
  <2> QED
    BY <1>3, <2>1, <2>2, <2>3
<1>8. IsPath(r, h, all, g)
  BY <1>3, <1>6, <1>7 DEF IsPath
<1>9. IsSequence(all)
  <2>1. all \in Seq(E)
    BY <1>a DEF all
  <2> QED
    BY <2>1, SequencesAre
<1> QED
  BY <1>8, <1>9 DEF Leads, all

(* The first event of a path, and the rest of it.                           *)
LEMMA FirstEventLeads ==
    ASSUME NEW es, es # <<>>, NEW h, NEW g, Leads(h, es, g)
    PROVE  \E m : Adds(h, Head(es), m) /\ Leads(m, Tail(es), g)
<1>a. PICK E : es \in Seq(E)
  BY SequencesAre DEF Leads
<1>1. PICK p : IsPath(p, h, es, g)
  BY DEF Leads
<1> DEFINE n == Len(es)
           q == [i \in 0 .. n - 1 |-> p[i + 1]]
<1>2. /\ n \in Nat /\ n > 0 /\ Len(Tail(es)) = n - 1 /\ Head(es) = es[1]
      /\ \A i \in 1 .. n - 1 : Tail(es)[i] = es[i + 1]
  BY <1>a
<1>3. \A i \in 0 .. n - 1 : q[i] = p[i + 1]
  OBVIOUS
<1>4. /\ p[0] = h /\ p[n] = g
      /\ \A i \in 1 .. n : Adds(p[i - 1], es[i], p[i])
  BY <1>1 DEF IsPath
<1> HIDE DEF n, q
<1>5. q[0] = p[1] /\ q[n - 1] = g
  BY <1>2, <1>3, <1>4
<1>6. ASSUME NEW i \in 1 .. n - 1
      PROVE  Adds(q[i - 1], Tail(es)[i], q[i])
  <2>1. q[i - 1] = p[i] /\ q[i] = p[i + 1] /\ Tail(es)[i] = es[i + 1] /\ i + 1 \in 1 .. n
        /\ (i + 1) - 1 = i
    BY <1>2, <1>3
  <2> QED
    BY <1>4, <2>1
<1>7. IsPath(q, p[1], Tail(es), g)
  BY <1>2, <1>5, <1>6 DEF IsPath
<1>8. Adds(h, Head(es), p[1])
  <2>1. 1 \in 1 .. n /\ 1 - 1 = 0
    BY <1>2
  <2>2. Adds(p[1 - 1], es[1], p[1])
    BY <1>4, <2>1
  <2> QED
    BY <1>2, <1>4, <2>1, <2>2
<1>9. IsSequence(Tail(es))
  <2>1. Tail(es) \in Seq(E)
    BY <1>a
  <2> QED
    BY <2>1, SequencesAre
<1> QED
  BY <1>7, <1>8, <1>9 DEF Leads

(* No event, no change.                                                     *)
LEMMA NothingLeadsOnlyHere ==
    ASSUME NEW h, NEW g, Leads(h, <<>>, g)
    PROVE  g = h
  BY DEF Leads, IsPath

(* The one event of a path.                                                 *)
LEMMA OneEventLeadsThere ==
    ASSUME NEW h, NEW event, NEW g, Leads(h, <<event>>, g)
    PROVE  Adds(h, event, g)
<1>1. PICK m : Adds(h, Head(<<event>>), m) /\ Leads(m, Tail(<<event>>), g)
  BY FirstEventLeads
<1>2. Head(<<event>>) = event /\ Tail(<<event>>) = <<>>
  OBVIOUS
<1> QED
  BY <1>1, <1>2, NothingLeadsOnlyHere

(* A sequence begins with itself, and longer ones with what they grew from. *)
LEMMA StartsAre ==
    /\ \A S : \A s \in Seq(S) : Starts(s, s)
    /\ \A S : \A s \in Seq(S) : \A x \in S : Starts(s, Append(s, x))
    /\ \A S : \A s, t, u \in Seq(S) : Starts(s, t) /\ Starts(t, u) => Starts(s, u)
  BY DEF Starts

(* The fields of an answer, which are never others.                         *)
LEMMA AnswersAreRecords ==
    ASSUME NEW h, IsAnswer(h)
    PROVE  /\ DOMAIN h = {"text", "reasoning", "calls", "done", "stop", "sealed"}
           /\ h.sealed = Unsealed
  BY DEF IsAnswer

(* An answer with one field replaced, written out.                          *)
LEMMA FieldReplaced ==
    ASSUME NEW h, IsAnswer(h), NEW x
    PROVE  /\ [h EXCEPT !.text = x] =
                [text |-> x, reasoning |-> h.reasoning, calls |-> h.calls,
                 done |-> h.done, stop |-> h.stop, sealed |-> Unsealed]
           /\ [h EXCEPT !.reasoning = x] =
                [text |-> h.text, reasoning |-> x, calls |-> h.calls,
                 done |-> h.done, stop |-> h.stop, sealed |-> Unsealed]
           /\ [h EXCEPT !.calls = x] =
                [text |-> h.text, reasoning |-> h.reasoning, calls |-> x,
                 done |-> h.done, stop |-> h.stop, sealed |-> Unsealed]
           /\ [h EXCEPT !.done = x] =
                [text |-> h.text, reasoning |-> h.reasoning, calls |-> h.calls,
                 done |-> x, stop |-> h.stop, sealed |-> Unsealed]
           /\ [h EXCEPT !.stop = x] =
                [text |-> h.text, reasoning |-> h.reasoning, calls |-> h.calls,
                 done |-> h.done, stop |-> x, sealed |-> Unsealed]
<1>1. h = [text |-> h.text, reasoning |-> h.reasoning, calls |-> h.calls,
           done |-> h.done, stop |-> h.stop, sealed |-> Unsealed]
  BY DEF IsAnswer
<1> QED
  BY <1>1

(* Precedes is reflexive on answers ...                                     *)
LEMMA AnswerPrecedesItself ==
    ASSUME NEW h, IsAnswer(h)
    PROVE  Precedes(h, h)
<1>1. PICK n \in 0 .. MaxCalls : h.calls \in [1 .. n -> Seq(Frags)]
  BY DEF IsAnswer
<1>2. \A c \in DOMAIN h.calls : Starts(h.calls[c], h.calls[c])
  BY <1>1, StartsAre
<1>3. Starts(h.text, h.text) /\ Starts(h.reasoning, h.reasoning)
  BY StartsAre DEF IsAnswer
<1> QED
  BY <1>2, <1>3 DEF Precedes

(* ... and transitive.                                                      *)
LEMMA AnswersOnlyGrow ==
    ASSUME NEW a, NEW b, NEW c, IsAnswer(a), IsAnswer(b), IsAnswer(c),
           Precedes(a, b), Precedes(b, c)
    PROVE  Precedes(a, c)
<1>1. /\ a.text \in Seq(Nat) /\ b.text \in Seq(Nat) /\ c.text \in Seq(Nat)
      /\ a.reasoning \in Seq(Nat) /\ b.reasoning \in Seq(Nat) /\ c.reasoning \in Seq(Nat)
  BY DEF IsAnswer
<1>2. Starts(a.text, c.text) /\ Starts(a.reasoning, c.reasoning)
  BY <1>1, StartsAre DEF Precedes
<1>3. ASSUME NEW k \in DOMAIN a.calls
      PROVE  k \in DOMAIN c.calls /\ Starts(a.calls[k], c.calls[k])
  <2>1. k \in DOMAIN b.calls /\ k \in DOMAIN c.calls
    BY DEF Precedes
  <2>2. a.calls[k] \in Seq(Frags) /\ b.calls[k] \in Seq(Frags) /\ c.calls[k] \in Seq(Frags)
    BY <2>1 DEF IsAnswer
  <2>3. Starts(a.calls[k], b.calls[k]) /\ Starts(b.calls[k], c.calls[k])
    BY <2>1 DEF Precedes
  <2> QED
    BY <2>1, <2>2, <2>3, StartsAre
<1>4. ToSet(a.done) \subseteq ToSet(c.done) /\ a.stop \in {"absent", c.stop}
  BY DEF Precedes
<1> QED
  BY <1>2, <1>3, <1>4 DEF Precedes

(* What each kind of event makes of an answer. *)
LEMMA CallOpened ==
    ASSUME NEW h, IsAnswer(h), NEW event, NEW g, OpensACall(h, event, g)
    PROVE  IsAnswer(g) /\ Precedes(h, g)
<1>1. PICK n \in 0 .. MaxCalls :
        /\ DOMAIN h.calls = 1 .. n /\ n < MaxCalls
        /\ g = [h EXCEPT !.calls = Insert(@, n + 1, <<>>)]
  BY DEF OpensACall
<1>2. MaxCalls \in Nat
  BY WireConstants
<1> DEFINE more == Insert(h.calls, n + 1, <<>>)
<1>3. h.calls \in [1 .. n -> Seq(Frags)]
  BY <1>1 DEF IsAnswer
<1>4. more \in [1 .. n + 1 -> Seq(Frags)] /\ \A k \in 1 .. n : more[k] = h.calls[k]
  BY <1>1, <1>3 DEF Insert
<1> HIDE DEF more
<1>a. g = [h EXCEPT !.calls = more]
  BY <1>1 DEF more
<1>5. g = [text |-> h.text, reasoning |-> h.reasoning, calls |-> more,
           done |-> h.done, stop |-> h.stop, sealed |-> Unsealed]
  BY <1>a, FieldReplaced
<1>6. h.done \in Seq(DOMAIN more)
  <2>1. h.done \in Seq(1 .. n) /\ DOMAIN more = 1 .. n + 1
    BY <1>1, <1>4 DEF IsAnswer
  <2> QED
    BY <2>1
<1>7. IsAnswer(g)
  <2>1. n + 1 \in 0 .. MaxCalls
    BY <1>1, <1>2
  <2> QED
    BY <1>4, <1>5, <1>6, <2>1 DEF IsAnswer
<1>8. Precedes(h, h)
  BY AnswerPrecedesItself
<1>9. Precedes(h, g)
  BY <1>1, <1>4, <1>5, <1>8 DEF Precedes
<1> QED
  BY <1>7, <1>9

(* A fragment goes to the one call it names.                                *)
LEMMA CallAddedTo ==
    ASSUME NEW h, IsAnswer(h), NEW event, NEW g, AddsToACall(h, event, g)
    PROVE  IsAnswer(g) /\ Precedes(h, g)
<1>1. PICK k \in DOMAIN h.calls :
        /\ event.frag \in Frags
        /\ g = [h EXCEPT !.calls = Insert(@, k, Append(@[k], event.frag))]
  BY DEF AddsToACall
<1>2. PICK n \in 0 .. MaxCalls : h.calls \in [1 .. n -> Seq(Frags)]
  BY DEF IsAnswer
<1> DEFINE longer == Append(h.calls[k], event.frag)
           more == Insert(h.calls, k, longer)
<1>3. k \in 1 .. n /\ h.calls[k] \in Seq(Frags) /\ longer \in Seq(Frags)
  BY <1>1, <1>2
<1>4. Starts(h.calls[k], longer)
  BY <1>1, <1>3, StartsAre
<1> HIDE DEF longer
<1>5. /\ more \in [1 .. n -> Seq(Frags)] /\ DOMAIN more = DOMAIN h.calls
      /\ more[k] = longer
      /\ \A c \in 1 .. n : c # k => more[c] = h.calls[c]
  BY <1>2, <1>3 DEF Insert
<1>a. /\ g = [h EXCEPT !.calls = more]
  BY <1>1 DEF longer
<1> HIDE DEF more
<1>6. /\ g = [text |-> h.text, reasoning |-> h.reasoning, calls |-> more,
              done |-> h.done, stop |-> h.stop, sealed |-> Unsealed]
  BY <1>a, FieldReplaced
<1>7. IsAnswer(g)
  BY <1>5, <1>6 DEF IsAnswer
<1>8. Precedes(h, h)
  BY AnswerPrecedesItself
<1>9. \A c \in DOMAIN h.calls : Starts(h.calls[c], more[c])
  BY <1>2, <1>4, <1>5, <1>8 DEF Precedes
<1>10. Precedes(h, g)
  BY <1>5, <1>6, <1>8, <1>9 DEF Precedes
<1> QED
  BY <1>7, <1>10

(* A call is closed once.                                                   *)
LEMMA CallClosed ==
    ASSUME NEW h, IsAnswer(h), NEW event, NEW g, ClosesACall(h, event, g)
    PROVE  IsAnswer(g) /\ Precedes(h, g)
<1>1. PICK k \in DOMAIN h.calls :
        /\ k \notin ToSet(h.done)
        /\ g = [h EXCEPT !.done = Append(@, k)]
  BY DEF ClosesACall
<1> DEFINE more == Append(h.done, k)
           Calls == DOMAIN h.calls
<1>2. h.done \in Seq(Calls) /\ k \in Calls
  BY DEF IsAnswer
<1> HIDE DEF Calls
<1>3. /\ more \in Seq(Calls) /\ Len(more) = Len(h.done) + 1 /\ more[Len(h.done) + 1] = k
      /\ \A i \in 1 .. Len(h.done) : more[i] = h.done[i]
      /\ Len(h.done) \in Nat
  BY <1>2
<1>a. /\ g = [h EXCEPT !.done = more]
  BY <1>1
<1> HIDE DEF more
<1>4. /\ g = [text |-> h.text, reasoning |-> h.reasoning, calls |-> h.calls,
              done |-> more, stop |-> h.stop, sealed |-> Unsealed]
  BY <1>a, FieldReplaced
<1>5. \A i \in 1 .. Len(h.done) : h.done[i] # k
  BY <1>1, <1>2 DEF ToSet
<1>6. \A i, j \in DOMAIN more : more[i] = more[j] => i = j
  <2>1. DOMAIN more = 1 .. Len(h.done) + 1 /\ DOMAIN h.done = 1 .. Len(h.done)
    BY <1>2, <1>3
  <2>2. \A i, j \in 1 .. Len(h.done) : h.done[i] = h.done[j] => i = j
    BY <2>1 DEF IsAnswer
  <2> QED
    BY <1>3, <1>5, <2>1, <2>2
<1>7. IsAnswer(g)
  BY <1>3, <1>4, <1>6 DEF IsAnswer, Calls
<1>8. Precedes(h, h)
  BY AnswerPrecedesItself
<1>9. ToSet(h.done) \subseteq ToSet(more)
  BY <1>2, <1>3 DEF ToSet
<1>10. Precedes(h, g)
  BY <1>4, <1>8, <1>9 DEF Precedes
<1> QED
  BY <1>7, <1>10

(* An event makes of an answer an answer, of which the first is a beginning. *)
LEMMA EventsAdd ==
    ASSUME NEW h, IsAnswer(h), NEW event, NEW g, Adds(h, event, g)
    PROVE  IsAnswer(g) /\ Precedes(h, g)
<1>1. Precedes(h, h) /\ DOMAIN h = {"text", "reasoning", "calls", "done", "stop", "sealed"}
  BY AnswerPrecedesItself, AnswersAreRecords
<1>2. CASE event.type \in {"start", "usage"} /\ g = h
  BY <1>1, <1>2
<1>3. CASE event.frag \in Nat /\ g = [h EXCEPT !.text = Append(@, event.frag)]
  <2> DEFINE more == Append(h.text, event.frag)
  <2>1. h.text \in Seq(Nat)
    BY DEF IsAnswer
  <2>2. more \in Seq(Nat) /\ Starts(h.text, more)
    BY <1>3, <2>1, StartsAre
  <2>3. g = [h EXCEPT !.text = more]
    BY <1>3
  <2> HIDE DEF more
  <2>4. g = [text |-> more, reasoning |-> h.reasoning, calls |-> h.calls,
              done |-> h.done, stop |-> h.stop, sealed |-> Unsealed]
    BY <2>3, FieldReplaced
  <2>5. IsAnswer(g)
    BY <2>2, <2>4 DEF IsAnswer
  <2> QED
    BY <1>1, <2>2, <2>4, <2>5 DEF Precedes
<1>4. CASE event.frag \in Nat /\ g = [h EXCEPT !.reasoning = Append(@, event.frag)]
  <2> DEFINE more == Append(h.reasoning, event.frag)
  <2>1. h.reasoning \in Seq(Nat)
    BY DEF IsAnswer
  <2>2. more \in Seq(Nat) /\ Starts(h.reasoning, more)
    BY <1>4, <2>1, StartsAre
  <2>3. g = [h EXCEPT !.reasoning = more]
    BY <1>4
  <2> HIDE DEF more
  <2>4. g = [text |-> h.text, reasoning |-> more, calls |-> h.calls,
              done |-> h.done, stop |-> h.stop, sealed |-> Unsealed]
    BY <2>3, FieldReplaced
  <2>5. IsAnswer(g)
    BY <2>2, <2>4 DEF IsAnswer
  <2> QED
    BY <1>1, <2>2, <2>4, <2>5 DEF Precedes
<1>5. CASE /\ event.reason \in Words /\ h.stop = "absent"
           /\ g = [h EXCEPT !.stop = event.reason]
  <2>1. g = [text |-> h.text, reasoning |-> h.reasoning, calls |-> h.calls,
              done |-> h.done, stop |-> event.reason, sealed |-> Unsealed]
    BY <1>5, FieldReplaced
  <2>2. IsAnswer(g)
    BY <1>5, <2>1 DEF IsAnswer
  <2> QED
    BY <1>1, <1>5, <2>1, <2>2 DEF Precedes
<1> QED
  BY <1>2, <1>3, <1>4, <1>5, CallOpened, CallAddedTo, CallClosed DEF Adds

(* So does a path of events.                                                *)
LEMMA PathsAdd ==
    ASSUME NEW h, IsAnswer(h), NEW events, NEW g, Leads(h, events, g)
    PROVE  IsAnswer(g) /\ Precedes(h, g)
<1>1. PICK p : IsPath(p, h, events, g)
  BY DEF Leads
<1> DEFINE n == Len(events)
           Fine == {k \in Nat : k <= n => IsAnswer(p[k]) /\ Precedes(h, p[k])}
<1>2. n \in Nat /\ p[0] = h /\ p[n] = g /\ \A i \in 1 .. n : Adds(p[i - 1], events[i], p[i])
  BY <1>1 DEF IsPath, Leads, IsSequence
<1> HIDE DEF n
<1>3. 0 \in Fine
  BY <1>2, AnswerPrecedesItself
<1>4. ASSUME NEW k \in Nat, k \in Fine
      PROVE  k + 1 \in Fine
  <2> SUFFICES ASSUME k + 1 <= n
               PROVE  IsAnswer(p[k + 1]) /\ Precedes(h, p[k + 1])
    OBVIOUS
  <2>1. IsAnswer(p[k]) /\ Precedes(h, p[k])
    BY <1>2, <1>4
  <2>2. Adds(p[k], events[k + 1], p[k + 1])
    <3>1. k + 1 \in 1 .. n /\ (k + 1) - 1 = k
      BY <1>2
    <3> QED
      BY <1>2, <3>1
  <2>3. IsAnswer(p[k + 1]) /\ Precedes(p[k], p[k + 1])
    BY <2>1, <2>2, EventsAdd
  <2> QED
    BY <2>1, <2>3, AnswersOnlyGrow
<1> HIDE DEF Fine
<1>5. n \in Fine
  BY <1>2, <1>3, <1>4, InductionOverASet
<1> QED
  BY <1>2, <1>5 DEF Fine

-----------------------------------------------------------------------------
(* What the turn has.                                                      *)

Ids(n) == {IdOf(k) : k \in 1 .. n}

\* A turn whose calls are numbered as they came, none of them closed twice.
IsTurnOfCalls(t) ==
    /\ t = [text |-> t.text, reasoning |-> t.reasoning, partial |-> t.partial,
            completed |-> t.completed, stop |-> t.stop, usage |-> t.usage, next |-> t.next]
    /\ t.text \in Seq(Nat) /\ t.reasoning \in Seq(Nat)
    /\ t.next \in 0 .. MaxCalls
    /\ t.partial \in [Ids(t.next) -> [seq : Nat, args : Seq(Frags)]]
    /\ \A k \in 1 .. t.next : t.partial[IdOf(k)].seq = k - 1
    /\ t.completed \in Seq(Ids(t.next))
    /\ \A i, j \in DOMAIN t.completed : t.completed[i] = t.completed[j] => i = j
    /\ t.stop \in Words \cup {"absent"}

\* Heard, of any turn.
HeardIn(t) ==
    [text |-> t.text, reasoning |-> t.reasoning,
     calls |-> [key \in {KeyOf(id) : id \in DOMAIN t.partial} |-> t.partial[IdOf(key)].args],
     done |-> [i \in DOMAIN t.completed |-> KeyOf(t.completed[i])],
     stop |-> t.stop, sealed |-> Unsealed]

\* It has what is in g.
Has(t, g) ==
    /\ t.text = g.text /\ t.reasoning = g.reasoning /\ t.stop = g.stop
    /\ DOMAIN g.calls = 1 .. t.next
    /\ \A k \in 1 .. t.next : g.calls[k] = t.partial[IdOf(k)].args
    /\ Len(g.done) = Len(t.completed)
    /\ \A i \in 1 .. Len(g.done) : t.completed[i] = IdOf(g.done[i])

(* Keys and ids go back and forth.                                          *)
LEMMA KeysAreBack ==
    \A k \in Int : KeyOf(IdOf(k)) = k /\ IdOf(KeyOf(k)) = k /\ IdOf(k) \in Int
  BY WireConstants DEF KeyOf, IdOf

(* No two calls have the same id.                                           *)
LEMMA IdsDiffer ==
    \A j, k \in Int : IdOf(j) = IdOf(k) => j = k
  BY WireConstants DEF IdOf

(* What a turn has is an answer.                                            *)
LEMMA HeardIs ==
    ASSUME NEW t, IsTurnOfCalls(t)
    PROVE  IsAnswer(HeardIn(t)) /\ Has(t, HeardIn(t))
<1> DEFINE h == HeardIn(t)
           n == t.next
<1>1. n \in 0 .. MaxCalls /\ DOMAIN t.partial = Ids(n) /\ MaxCalls \in Nat
  BY WireConstants DEF IsTurnOfCalls
<1>2. {KeyOf(id) : id \in Ids(n)} = 1 .. n
  <2>1. \A k \in 1 .. n : KeyOf(IdOf(k)) = k
    BY KeysAreBack
  <2> QED
    BY <2>1 DEF Ids
<1>3. h.calls = [k \in 1 .. n |-> t.partial[IdOf(k)].args]
  BY <1>1, <1>2 DEF HeardIn
<1>4. \A k \in 1 .. n : IdOf(k) \in Ids(n)
  BY DEF Ids
<1>5. h.calls \in [1 .. n -> Seq(Frags)]
  <2>1. \A k \in 1 .. n : t.partial[IdOf(k)].args \in Seq(Frags)
    BY <1>4 DEF IsTurnOfCalls
  <2> QED
    BY <1>3, <2>1
<1>6. t.completed \in Seq(Ids(n)) /\ DOMAIN t.completed = 1 .. Len(t.completed)
      /\ Len(t.completed) \in Nat
  BY DEF IsTurnOfCalls
<1>7. /\ h.done = [i \in 1 .. Len(t.completed) |-> KeyOf(t.completed[i])]
      /\ h.text = t.text /\ h.reasoning = t.reasoning /\ h.stop = t.stop
  BY <1>6 DEF HeardIn
<1>8. \A i \in 1 .. Len(t.completed) : /\ KeyOf(t.completed[i]) \in 1 .. n
                                       /\ t.completed[i] = IdOf(KeyOf(t.completed[i]))
  <2>1. \A id \in Ids(n) : KeyOf(id) \in 1 .. n /\ id = IdOf(KeyOf(id))
    BY KeysAreBack DEF Ids
  <2> QED
    BY <1>6, <2>1
<1>9. h.done \in Seq(1 .. n) /\ Len(h.done) = Len(t.completed)
  BY <1>6, <1>7, <1>8
<1>10. \A i \in 1 .. Len(h.done) : t.completed[i] = IdOf(h.done[i])
  BY <1>7, <1>8, <1>9
<1>11. Has(t, h)
  BY <1>3, <1>7, <1>9, <1>10 DEF Has
<1>12. h = [text |-> h.text, reasoning |-> h.reasoning, calls |-> h.calls,
            done |-> h.done, stop |-> h.stop, sealed |-> Unsealed]
  BY DEF HeardIn
<1> HIDE DEF h
<1>13. \A i, j \in DOMAIN h.done : h.done[i] = h.done[j] => i = j
  <2>1. DOMAIN h.done = 1 .. Len(t.completed)
    BY <1>6, <1>9
  <2>2. \A i, j \in 1 .. Len(t.completed) : t.completed[i] = t.completed[j] => i = j
    BY <1>6 DEF IsTurnOfCalls
  <2> QED
    BY <1>9, <1>10, <2>1, <2>2
<1>14. h.text \in Seq(Nat) /\ h.reasoning \in Seq(Nat) /\ h.stop \in Words \cup {"absent"}
  BY <1>7 DEF IsTurnOfCalls
<1>15. h.done \in Seq(DOMAIN h.calls)
  BY <1>5, <1>9
<1>16. IsAnswer(h)
  BY <1>1, <1>5, <1>12, <1>13, <1>14, <1>15 DEF IsAnswer
<1> QED
  BY <1>11, <1>16 DEF h

(* The turn that has g is the one in which g is heard.                      *)
LEMMA HeardFrom ==
    ASSUME NEW t, IsTurnOfCalls(t), NEW g, IsAnswer(g), Has(t, g)
    PROVE  HeardIn(t) = g
<1> DEFINE h == HeardIn(t)
<1>1. IsAnswer(h) /\ Has(t, h)
  BY HeardIs
<1> HIDE DEF h
<1>2. h.text = g.text /\ h.reasoning = g.reasoning /\ h.stop = g.stop
  BY <1>1 DEF Has
<1>3. h.calls = g.calls
  <2>1. h.calls = [k \in 1 .. t.next |-> h.calls[k]] /\ g.calls = [k \in 1 .. t.next |-> g.calls[k]]
    BY <1>1 DEF Has, IsAnswer
  <2>2. \A k \in 1 .. t.next : h.calls[k] = g.calls[k]
    BY <1>1 DEF Has
  <2> QED
    BY <2>1, <2>2
<1>4. h.done = g.done
  <2> DEFINE n == Len(t.completed)
             D == DOMAIN h.calls
             E == DOMAIN g.calls
  <2>1. h.done \in Seq(D) /\ g.done \in Seq(E) /\ Len(h.done) = n /\ Len(g.done) = n
    BY <1>1 DEF Has, IsAnswer
  <2>2. D \subseteq Int /\ E \subseteq Int
    BY <1>1 DEF Has
  <2>3. \A i \in 1 .. n : IdOf(h.done[i]) = IdOf(g.done[i])
    BY <1>1, <2>1 DEF Has
  <2> HIDE DEF D, E, n
  <2>a. \A i \in 1 .. n : h.done[i] \in D /\ g.done[i] \in E
    BY <2>1
  <2>4. \A i \in 1 .. n : h.done[i] \in Int /\ g.done[i] \in Int
    BY <2>2, <2>a
  <2>5. \A i \in 1 .. n : h.done[i] = g.done[i]
    BY <2>3, <2>4, IdsDiffer
  <2> QED
    BY <2>1, <2>5
<1>5. /\ h = [text |-> h.text, reasoning |-> h.reasoning, calls |-> h.calls,
              done |-> h.done, stop |-> h.stop, sealed |-> Unsealed]
      /\ g = [text |-> g.text, reasoning |-> g.reasoning, calls |-> g.calls,
              done |-> g.done, stop |-> g.stop, sealed |-> Unsealed]
  BY <1>1 DEF IsAnswer
<1> QED
  BY <1>2, <1>3, <1>4, <1>5 DEF h

(* A turn with one field replaced, written out.                             *)
LEMMA TurnReplaced ==
    ASSUME NEW t, IsTurnOfCalls(t), NEW x
    PROVE  /\ [t EXCEPT !.text = x] =
                [text |-> x, reasoning |-> t.reasoning, partial |-> t.partial,
                 completed |-> t.completed, stop |-> t.stop, usage |-> t.usage, next |-> t.next]
           /\ [t EXCEPT !.reasoning = x] =
                [text |-> t.text, reasoning |-> x, partial |-> t.partial,
                 completed |-> t.completed, stop |-> t.stop, usage |-> t.usage, next |-> t.next]
           /\ [t EXCEPT !.partial = x] =
                [text |-> t.text, reasoning |-> t.reasoning, partial |-> x,
                 completed |-> t.completed, stop |-> t.stop, usage |-> t.usage, next |-> t.next]
           /\ [t EXCEPT !.completed = x] =
                [text |-> t.text, reasoning |-> t.reasoning, partial |-> t.partial,
                 completed |-> x, stop |-> t.stop, usage |-> t.usage, next |-> t.next]
           /\ [t EXCEPT !.stop = x] =
                [text |-> t.text, reasoning |-> t.reasoning, partial |-> t.partial,
                 completed |-> t.completed, stop |-> x, usage |-> t.usage, next |-> t.next]
           /\ [t EXCEPT !.usage = x] =
                [text |-> t.text, reasoning |-> t.reasoning, partial |-> t.partial,
                 completed |-> t.completed, stop |-> t.stop, usage |-> x, next |-> t.next]
<1>1. t = [text |-> t.text, reasoning |-> t.reasoning, partial |-> t.partial,
           completed |-> t.completed, stop |-> t.stop, usage |-> t.usage, next |-> t.next]
  BY DEF IsTurnOfCalls
<1> QED
  BY <1>1

(* A turn with one call replaced or opened.                                 *)
LEMMA CallReplaced ==
    ASSUME NEW t, IsTurnOfCalls(t), NEW x, NEW y
    PROVE  [t EXCEPT !.partial = x, !.next = y] =
                [text |-> t.text, reasoning |-> t.reasoning, partial |-> x,
                 completed |-> t.completed, stop |-> t.stop, usage |-> t.usage, next |-> y]
<1>1. t = [text |-> t.text, reasoning |-> t.reasoning, partial |-> t.partial,
           completed |-> t.completed, stop |-> t.stop, usage |-> t.usage, next |-> t.next]
  BY DEF IsTurnOfCalls
<1> DEFINE s == [t EXCEPT !.partial = x]
           u == [t EXCEPT !.partial = x, !.next = y]
<1>2. u = [s EXCEPT !.next = y]
  BY <1>1
<1>3. s = [text |-> t.text, reasoning |-> t.reasoning, partial |-> x,
           completed |-> t.completed, stop |-> t.stop, usage |-> t.usage, next |-> t.next]
  BY <1>1
<1> HIDE DEF s, u
<1>4. u = [text |-> t.text, reasoning |-> t.reasoning, partial |-> x,
           completed |-> t.completed, stop |-> t.stop, usage |-> t.usage, next |-> y]
  BY <1>2, <1>3
<1> QED
  BY <1>4 DEF u

(* A call that is opened is heard as opened ...                             *)
LEMMA OpeningIsHeard ==
    ASSUME NEW t, IsTurnOfCalls(t), NEW event, NEW g, OpensACall(HeardIn(t), event, g)
    PROVE  IsTurnOfCalls(StartCall(t, event.id)) /\ Has(StartCall(t, event.id), g)
<1> DEFINE h == HeardIn(t)
           n == t.next
           more == Insert(t.partial, event.id, [seq |-> n, args |-> <<>>])
           u == StartCall(t, event.id)
<1>1. IsAnswer(h) /\ Has(t, h) /\ OpensACall(h, event, g)
  BY HeardIs
<1> HIDE DEF h
<1>2. DOMAIN h.calls = 1 .. n /\ n \in 0 .. MaxCalls /\ MaxCalls \in Nat
  BY <1>1, WireConstants DEF Has, IsTurnOfCalls
<1>3. n < MaxCalls /\ event.id = IdOf(n + 1) /\ g = [h EXCEPT !.calls = Insert(@, n + 1, <<>>)]
  <2>1. PICK m \in 0 .. MaxCalls :
          /\ 1 .. n = 1 .. m /\ m < MaxCalls
          /\ event.id = IdOf(m + 1)
          /\ g = [h EXCEPT !.calls = Insert(@, m + 1, <<>>)]
    BY <1>1, <1>2 DEF OpensACall
  <2>2. m = n
    BY <1>2, <2>1
  <2> QED
    BY <2>1, <2>2
<1>4. Ids(n + 1) = Ids(n) \cup {event.id}
  BY <1>2, <1>3 DEF Ids
<1>5. t.partial \in [Ids(n) -> [seq : Nat, args : Seq(Frags)]]
  BY DEF IsTurnOfCalls
<1>6. /\ more \in [Ids(n + 1) -> [seq : Nat, args : Seq(Frags)]]
      /\ more[event.id] = [seq |-> n, args |-> <<>>]
      /\ \A id \in Ids(n) : id # event.id => more[id] = t.partial[id]
  <2>1. [seq |-> n, args |-> <<>>] \in [seq : Nat, args : Seq(Frags)]
    BY <1>2
  <2> QED
    BY <1>4, <1>5, <2>1 DEF Insert
<1>7. u = [text |-> t.text, reasoning |-> t.reasoning, partial |-> more,
           completed |-> t.completed, stop |-> t.stop, usage |-> t.usage, next |-> n + 1]
  BY CallReplaced DEF StartCall
<1> HIDE DEF more, u
<1>8. \A k \in 1 .. n : IdOf(k) \in Ids(n) /\ IdOf(k) # event.id
  BY <1>2, <1>3, IdsDiffer DEF Ids
<1>9. \A k \in 1 .. n + 1 : more[IdOf(k)].seq = k - 1
  <2>1. \A k \in 1 .. n : t.partial[IdOf(k)].seq = k - 1
    BY DEF IsTurnOfCalls
  <2>2. \A k \in 1 .. n : more[IdOf(k)].seq = k - 1
    BY <1>6, <1>8, <2>1
  <2>3. more[IdOf(n + 1)].seq = n
    BY <1>3, <1>6
  <2> QED
    BY <1>2, <2>2, <2>3
<1>10. t.completed \in Seq(Ids(n + 1))
  <2>1. t.completed \in Seq(Ids(n)) /\ Ids(n) \subseteq Ids(n + 1)
    BY <1>4 DEF IsTurnOfCalls
  <2> QED
    BY <2>1
<1>11. IsTurnOfCalls(u)
  <2>1. n + 1 \in 0 .. MaxCalls
    BY <1>2, <1>3
  <2> QED
    BY <1>6, <1>7, <1>9, <1>10, <2>1 DEF IsTurnOfCalls
<1> DEFINE calls == Insert(h.calls, n + 1, <<>>)
<1>a. g = [h EXCEPT !.calls = calls]
  BY <1>3
<1>b. calls = Insert(h.calls, n + 1, <<>>)
  OBVIOUS
<1> HIDE DEF calls
<1>12. g = [text |-> h.text, reasoning |-> h.reasoning, calls |-> calls,
            done |-> h.done, stop |-> h.stop, sealed |-> Unsealed]
  BY <1>1, <1>a, FieldReplaced
<1>13. /\ DOMAIN g.calls = 1 .. n + 1
       /\ \A k \in 1 .. n + 1 : g.calls[k] = more[IdOf(k)].args
  <2>1. g.calls = Insert(h.calls, n + 1, <<>>)
    BY <1>12, <1>b
  <2>2. DOMAIN g.calls = 1 .. n + 1 /\ g.calls[n + 1] = <<>>
    BY <1>2, <2>1 DEF Insert
  <2>3. \A k \in 1 .. n : g.calls[k] = h.calls[k]
    BY <1>2, <2>1 DEF Insert
  <2>4. \A k \in 1 .. n : g.calls[k] = more[IdOf(k)].args
    BY <1>1, <1>6, <1>8, <2>3 DEF Has
  <2>5. g.calls[n + 1] = more[IdOf(n + 1)].args
    BY <1>3, <1>6, <2>2
  <2> QED
    BY <1>2, <2>2, <2>4, <2>5
<1>14. Has(u, g)
  BY <1>1, <1>7, <1>12, <1>13 DEF Has
<1> QED
  BY <1>11, <1>14 DEF u

(* The call a fragment goes to.                                             *)
LEMMA FragmentAdded ==
    ASSUME NEW s, NEW args, NEW frag
    PROVE  WithFragment([seq |-> s, args |-> args], frag) = [seq |-> s, args |-> Append(args, frag)]
  BY DEF WithFragment

(* ... its fragments as its own ...                                         *)
LEMMA AddingIsHeard ==
    ASSUME NEW t, IsTurnOfCalls(t), NEW event, event.type = "call_delta", NEW g,
           AddsToACall(HeardIn(t), event, g)
    PROVE  IsTurnOfCalls(Absorb(t, event)) /\ Has(Absorb(t, event), g)
<1> DEFINE h == HeardIn(t)
           n == t.next
           u == Absorb(t, event)
<1>1. IsAnswer(h) /\ Has(t, h) /\ AddsToACall(h, event, g)
  BY HeardIs
<1> HIDE DEF h
<1>2. DOMAIN h.calls = 1 .. n /\ n \in 0 .. MaxCalls /\ MaxCalls \in Nat
  BY <1>1, WireConstants DEF Has, IsTurnOfCalls
<1>3. PICK k \in 1 .. n :
        /\ event.id = IdOf(k) /\ event.frag \in Frags
        /\ g = [h EXCEPT !.calls = Insert(@, k, Append(@[k], event.frag))]
  BY <1>1, <1>2 DEF AddsToACall
<1> DEFINE id == IdOf(k)
           longer == Append(t.partial[id].args, event.frag)
           more == Insert(t.partial, id, [seq |-> k - 1, args |-> longer])
<1>4. /\ t.partial \in [Ids(n) -> [seq : Nat, args : Seq(Frags)]] /\ id \in Ids(n)
      /\ t.partial[id].seq = k - 1
  BY DEF IsTurnOfCalls, Ids
<1>5. t.partial[id] = [seq |-> k - 1, args |-> t.partial[id].args]
      /\ t.partial[id].args \in Seq(Frags)
  BY <1>4
<1>6. WithFragment(t.partial[id], event.frag) = [seq |-> k - 1, args |-> longer]
  BY <1>5, FragmentAdded
<1>7. u = [t EXCEPT !.partial = more]
  <2>1. event.id \in DOMAIN t.partial
    BY <1>3, <1>4
  <2> QED
    BY <1>3, <1>6, <2>1 DEF Absorb
<1>8. longer \in Seq(Frags)
  BY <1>3, <1>5
<1> HIDE DEF longer
<1>9. /\ more \in [Ids(n) -> [seq : Nat, args : Seq(Frags)]]
      /\ more[id] = [seq |-> k - 1, args |-> longer]
      /\ \A i \in Ids(n) : i # id => more[i] = t.partial[i]
  <2>1. [seq |-> k - 1, args |-> longer] \in [seq : Nat, args : Seq(Frags)]
    BY <1>8
  <2> QED
    BY <1>4, <2>1 DEF Insert
<1> HIDE DEF more, u
<1>10. u = [text |-> t.text, reasoning |-> t.reasoning, partial |-> more,
           completed |-> t.completed, stop |-> t.stop, usage |-> t.usage, next |-> n]
  BY <1>7, TurnReplaced
<1>11. \A j \in 1 .. n : IdOf(j) \in Ids(n) /\ (j # k => IdOf(j) # id)
  BY <1>3, IdsDiffer DEF Ids
<1>12. \A j \in 1 .. n : more[IdOf(j)].seq = j - 1
  <2>1. \A j \in 1 .. n : t.partial[IdOf(j)].seq = j - 1
    BY DEF IsTurnOfCalls
  <2> QED
    BY <1>9, <1>11, <2>1
<1>13. IsTurnOfCalls(u)
  BY <1>9, <1>10, <1>12 DEF IsTurnOfCalls
<1>14. h.calls[k] = t.partial[id].args
  BY <1>1 DEF Has
<1> DEFINE calls == Insert(h.calls, k, longer)
<1>a. g = [h EXCEPT !.calls = calls]
  BY <1>3, <1>14 DEF longer
<1>b. calls = Insert(h.calls, k, longer)
  OBVIOUS
<1> HIDE DEF calls
<1>15. g = [text |-> h.text, reasoning |-> h.reasoning, calls |-> calls,
            done |-> h.done, stop |-> h.stop, sealed |-> Unsealed]
  BY <1>1, <1>a, FieldReplaced
<1>16. /\ DOMAIN g.calls = 1 .. n
       /\ \A j \in 1 .. n : g.calls[j] = more[IdOf(j)].args
  <2>1. g.calls = Insert(h.calls, k, longer)
    BY <1>15, <1>b
  <2>2. DOMAIN g.calls = 1 .. n /\ g.calls[k] = longer
        /\ \A j \in 1 .. n : j # k => g.calls[j] = h.calls[j]
    BY <1>2, <2>1 DEF Insert
  <2>3. g.calls[k] = more[id].args
    BY <1>9, <2>2
  <2>4. \A j \in 1 .. n : j # k => g.calls[j] = more[IdOf(j)].args
    BY <1>1, <1>9, <1>11, <2>2 DEF Has
  <2> QED
    BY <2>2, <2>3, <2>4
<1>17. Has(u, g)
  BY <1>1, <1>10, <1>15, <1>16 DEF Has
<1> QED
  BY <1>13, <1>17 DEF u

(* ... and its end as its end.                                              *)
LEMMA ClosingIsHeard ==
    ASSUME NEW t, IsTurnOfCalls(t), NEW event, event.type = "call_end", NEW g,
           ClosesACall(HeardIn(t), event, g)
    PROVE  IsTurnOfCalls(Absorb(t, event)) /\ Has(Absorb(t, event), g)
<1> DEFINE h == HeardIn(t)
           n == t.next
           u == Absorb(t, event)
           len == Len(t.completed)
           more == Append(t.completed, event.id)
<1>1. IsAnswer(h) /\ Has(t, h) /\ ClosesACall(h, event, g)
  BY HeardIs
<1> HIDE DEF h
<1>2. DOMAIN h.calls = 1 .. n /\ t.completed \in Seq(Ids(n)) /\ len \in Nat
      /\ n \in Int /\ DOMAIN t.completed = 1 .. len
  BY <1>1 DEF Has, IsTurnOfCalls
<1>3. PICK k \in 1 .. n :
        /\ event.id = IdOf(k) /\ k \notin ToSet(h.done)
        /\ g = [h EXCEPT !.done = Append(@, k)]
  BY <1>1, <1>2 DEF ClosesACall
<1>4. h.done \in Seq(1 .. n) /\ Len(h.done) = len
      /\ \A i \in 1 .. len : t.completed[i] = IdOf(h.done[i])
  BY <1>1, <1>2 DEF IsAnswer, Has
<1>5. event.id \in Ids(n)
  BY <1>3 DEF Ids
<1>6. /\ more \in Seq(Ids(n)) /\ Len(more) = len + 1 /\ DOMAIN more = 1 .. len + 1
      /\ more[len + 1] = IdOf(k)
      /\ \A i \in 1 .. len : more[i] = t.completed[i]
  BY <1>2, <1>3, <1>5
<1>7. u = [text |-> t.text, reasoning |-> t.reasoning, partial |-> t.partial,
           completed |-> more, stop |-> t.stop, usage |-> t.usage, next |-> n]
  BY TurnReplaced DEF Absorb
<1> HIDE DEF more, u
<1>8. \A i \in 1 .. len : t.completed[i] # IdOf(k)
  <2>1. \A i \in 1 .. len : h.done[i] \in 1 .. n /\ h.done[i] # k
    BY <1>2, <1>3, <1>4 DEF ToSet
  <2> QED
    BY <1>4, <2>1, IdsDiffer
<1>9. \A i, j \in DOMAIN more : more[i] = more[j] => i = j
  <2>1. \A i, j \in 1 .. len : t.completed[i] = t.completed[j] => i = j
    BY <1>2 DEF IsTurnOfCalls
  <2> QED
    BY <1>2, <1>6, <1>8, <2>1, SMTT(30)
<1>10. IsTurnOfCalls(u)
  BY <1>6, <1>7, <1>9 DEF IsTurnOfCalls
<1>11. g = [text |-> h.text, reasoning |-> h.reasoning, calls |-> h.calls,
            done |-> Append(h.done, k), stop |-> h.stop, sealed |-> Unsealed]
  BY <1>1, <1>3, FieldReplaced
<1>12. /\ Len(g.done) = len + 1
       /\ \A i \in 1 .. len + 1 : more[i] = IdOf(g.done[i])
  <2>1. /\ Len(g.done) = len + 1 /\ g.done[len + 1] = k
        /\ \A i \in 1 .. len : g.done[i] = h.done[i]
    BY <1>2, <1>4, <1>11
  <2>2. \A i \in 1 .. len : more[i] = IdOf(g.done[i])
    BY <1>4, <1>6, <2>1
  <2>3. more[len + 1] = IdOf(g.done[len + 1])
    BY <1>6, <2>1
  <2> QED
    BY <1>2, <2>1, <2>2, <2>3
<1>13. Has(u, g)
  BY <1>1, <1>6, <1>7, <1>11, <1>12 DEF Has
<1> QED
  BY <1>10, <1>13 DEF u

(* An event that is sound after what was heard adds what it says, and       *)
(* nothing else.                                                           *)
LEMMA EventsAreHeard ==
    ASSUME NEW t, IsTurnOfCalls(t), NEW event, NEW g, Adds(HeardIn(t), event, g)
    PROVE  IsTurnOfCalls(Absorb(t, event)) /\ HeardIn(Absorb(t, event)) = g
<1> DEFINE h == HeardIn(t)
           u == Absorb(t, event)
<1>1. IsAnswer(h) /\ Has(t, h) /\ Adds(h, event, g)
  BY HeardIs
<1> HIDE DEF h
<1>2. IsAnswer(g)
  BY <1>1, EventsAdd
<1>3. CASE event.type = "start" /\ g = h
  BY <1>3 DEF Absorb, h
<1>4. CASE event.type = "usage" /\ g = h
  <2>1. u = [text |-> t.text, reasoning |-> t.reasoning, partial |-> t.partial,
             completed |-> t.completed, stop |-> t.stop, usage |-> event.usage, next |-> t.next]
    BY <1>4, TurnReplaced DEF Absorb
  <2> HIDE DEF u
  <2>2. IsTurnOfCalls(u)
    BY <2>1 DEF IsTurnOfCalls
  <2>3. Has(u, g)
    BY <1>1, <1>4, <2>1 DEF Has
  <2> QED
    BY <1>2, <2>2, <2>3, HeardFrom DEF u
<1>5. CASE /\ event.type = "text" /\ event.frag \in Nat
           /\ g = [h EXCEPT !.text = Append(@, event.frag)]
  <2> DEFINE more == Append(t.text, event.frag)
  <2>1. u = [text |-> more, reasoning |-> t.reasoning, partial |-> t.partial,
             completed |-> t.completed, stop |-> t.stop, usage |-> t.usage, next |-> t.next]
    BY <1>5, TurnReplaced DEF Absorb
  <2>2. more \in Seq(Nat)
    BY <1>5 DEF IsTurnOfCalls
  <2>3. h.text = t.text
    BY <1>1 DEF Has
  <2>4. g = [text |-> more, reasoning |-> h.reasoning, calls |-> h.calls,
             done |-> h.done, stop |-> h.stop, sealed |-> Unsealed]
    BY <1>1, <1>5, <2>3, FieldReplaced
  <2> HIDE DEF u, more
  <2>5. IsTurnOfCalls(u)
    BY <2>1, <2>2 DEF IsTurnOfCalls
  <2>6. Has(u, g)
    BY <1>1, <2>1, <2>4 DEF Has
  <2> QED
    BY <1>2, <2>5, <2>6, HeardFrom DEF u
<1>6. CASE /\ event.type = "reasoning" /\ event.frag \in Nat
           /\ g = [h EXCEPT !.reasoning = Append(@, event.frag)]
  <2> DEFINE more == Append(t.reasoning, event.frag)
  <2>1. u = [text |-> t.text, reasoning |-> more, partial |-> t.partial,
             completed |-> t.completed, stop |-> t.stop, usage |-> t.usage, next |-> t.next]
    BY <1>6, TurnReplaced DEF Absorb
  <2>2. more \in Seq(Nat)
    BY <1>6 DEF IsTurnOfCalls
  <2>3. h.reasoning = t.reasoning
    BY <1>1 DEF Has
  <2>4. g = [text |-> h.text, reasoning |-> more, calls |-> h.calls,
             done |-> h.done, stop |-> h.stop, sealed |-> Unsealed]
    BY <1>1, <1>6, <2>3, FieldReplaced
  <2> HIDE DEF u, more
  <2>5. IsTurnOfCalls(u)
    BY <2>1, <2>2 DEF IsTurnOfCalls
  <2>6. Has(u, g)
    BY <1>1, <2>1, <2>4 DEF Has
  <2> QED
    BY <1>2, <2>5, <2>6, HeardFrom DEF u
<1>7. CASE /\ event.type = "end" /\ event.reason \in Words
           /\ g = [h EXCEPT !.stop = event.reason]
  <2>1. u = [text |-> t.text, reasoning |-> t.reasoning, partial |-> t.partial,
             completed |-> t.completed, stop |-> event.reason, usage |-> t.usage,
             next |-> t.next]
    BY <1>7, TurnReplaced DEF Absorb
  <2>2. g = [text |-> h.text, reasoning |-> h.reasoning, calls |-> h.calls,
             done |-> h.done, stop |-> event.reason, sealed |-> Unsealed]
    BY <1>1, <1>7, FieldReplaced
  <2> HIDE DEF u
  <2>3. IsTurnOfCalls(u)
    BY <1>7, <2>1 DEF IsTurnOfCalls
  <2>4. Has(u, g)
    BY <1>1, <2>1, <2>2 DEF Has
  <2> QED
    BY <1>2, <2>3, <2>4, HeardFrom DEF u
<1>8. CASE event.type = "call_start" /\ OpensACall(h, event, g)
  <2>1. u = StartCall(t, event.id)
    BY <1>8 DEF Absorb
  <2> QED
    BY <1>2, <1>8, <2>1, OpeningIsHeard, HeardFrom DEF h
<1>9. CASE event.type = "call_delta" /\ AddsToACall(h, event, g)
  BY <1>2, <1>9, AddingIsHeard, HeardFrom DEF h
<1>10. CASE event.type = "call_end" /\ ClosesACall(h, event, g)
  BY <1>2, <1>10, ClosingIsHeard, HeardFrom DEF h
<1> QED
  BY <1>1, <1>3, <1>4, <1>5, <1>6, <1>7, <1>8, <1>9, <1>10 DEF Adds

(* Calls that began in turn, none closed twice, run in the order they began. *)
LEMMA CallsRunAsTheyBegan ==
    ASSUME NEW t, IsTurnOfCalls(t)
    PROVE  \A i, j \in DOMAIN ToolCalls(t) : i < j => ToolCalls(t)[i] < ToolCalls(t)[j]
<1> DEFINE C == Closed(t)
           N == Cardinality(C)
           id(i) == t.completed[i]
           seq(i) == t.partial[t.completed[i]].seq
           UpTo(i) == {j \in C : seq(j) < seq(i) \/ (seq(j) = seq(i) /\ j <= i)}
           len == Len(t.completed)
<1>1. len \in Nat /\ DOMAIN t.completed = 1 .. len /\ DOMAIN t.partial = Ids(t.next)
      /\ \A i \in 1 .. len : t.completed[i] \in Ids(t.next)
  BY DEF IsTurnOfCalls
<1>2. C = 1 .. len
  BY <1>1 DEF Closed
<1>3. IsFiniteSet(C) /\ N \in Nat
  <2>1. IsFiniteSet(1 .. len)
    BY <1>1, FS_Interval
  <2> HIDE DEF C, len
  <2>2. IsFiniteSet(C)
    BY <1>2, <2>1
  <2> QED
    BY <2>2, FS_CardinalityType
<1>4. \A i \in C : \E k \in 1 .. t.next : id(i) = IdOf(k) /\ seq(i) = k - 1
  <2>1. \A k \in 1 .. t.next : t.partial[IdOf(k)].seq = k - 1
    BY DEF IsTurnOfCalls
  <2> QED
    BY <1>1, <1>2, <2>1 DEF Ids
<1>5. \A i \in C : seq(i) \in Int /\ id(i) = IdOf(seq(i) + 1)
  BY <1>4
<1>6. \A i, j \in C : seq(i) = seq(j) => i = j
  <2>1. \A i, j \in C : id(i) = id(j) => i = j
    BY <1>1, <1>2 DEF IsTurnOfCalls
  <2> QED
    BY <1>5, <2>1
<1>7. \A i : Turns(t, i) = Cardinality(UpTo(i))
  BY DEF Turns
<1>8. ToolCalls(t) = [n \in 1 .. N |-> id(CHOOSE i \in C : Turns(t, i) = n)]
  BY DEF ToolCalls
<1>9. C \subseteq Int
  BY <1>2
<1> HIDE DEF C, N, id, seq, len
<1>10. ASSUME NEW i \in C
       PROVE  IsFiniteSet(UpTo(i)) /\ Turns(t, i) \in 1 .. N
  <2>1. UpTo(i) \in SUBSET C /\ i \in UpTo(i)
    BY <1>5, <1>9
  <2>2. IsFiniteSet(UpTo(i)) /\ Cardinality(UpTo(i)) <= N
    BY <1>3, <2>1, FS_Subset DEF N
  <2>3. Cardinality(UpTo(i)) \in Nat /\ Cardinality(UpTo(i)) # 0
    BY <2>1, <2>2, FS_CardinalityType, FS_EmptySet
  <2> QED
    BY <1>3, <1>7, <2>2, <2>3
<1>a. \A i \in C : Turns(t, i) \in Int
  <2> SUFFICES ASSUME NEW i \in C
               PROVE  Turns(t, i) \in Int
    OBVIOUS
  <2>1. Turns(t, i) \in 1 .. N
    BY <1>10
  <2> QED
    BY <1>3, <2>1
<1>11. ASSUME NEW i \in C, NEW j \in C, seq(i) < seq(j)
       PROVE  Turns(t, i) < Turns(t, j)
  <2>1. UpTo(i) \in SUBSET UpTo(j)
    BY <1>5, <1>11
  <2>2. j \in UpTo(j) /\ j \notin UpTo(i)
    BY <1>5, <1>9, <1>11
  <2>3. /\ Cardinality(UpTo(i)) <= Cardinality(UpTo(j))
        /\ Cardinality(UpTo(i)) # Cardinality(UpTo(j))
    BY <1>10, <2>1, <2>2, FS_Subset
  <2>4. Turns(t, i) \in Int /\ Turns(t, j) \in Int
    BY <1>a
  <2> QED
    BY <1>7, <2>3, <2>4
<1>12. \A n \in 1 .. N : \E i \in C : Turns(t, i) = n
  <2> DEFINE f == [i \in C |-> Turns(t, i)]
  <2>1. f \in [C -> 1 .. N]
    BY <1>10
  <2>2. \A i, j \in C : f[i] = f[j] => i = j
    <3> SUFFICES ASSUME NEW i \in C, NEW j \in C, Turns(t, i) = Turns(t, j)
                 PROVE  i = j
      OBVIOUS
    <3>1. Turns(t, i) \in Int /\ Turns(t, j) \in Int
      BY <1>a
    <3>2. ~(seq(i) < seq(j)) /\ ~(seq(j) < seq(i))
      BY <1>11, <3>1
    <3> QED
      BY <1>5, <1>6, <3>2
  <2>3. f \in Injection(C, 1 .. N)
    BY <2>1, <2>2 DEF Injection, IsInjective
  <2>4. IsFiniteSet(1 .. N) /\ Cardinality(1 .. N) = N
    BY <1>3, FS_Interval
  <2>5. f \in Surjection(C, 1 .. N)
    BY <2>3, <2>4, FS_Injection DEF N
  <2> HIDE DEF f
  <2>6. \A n \in 1 .. N : \E i \in C : f[i] = n
    BY <2>5 DEF Surjection
  <2> QED
    BY <2>6 DEF f
<1>13. SUFFICES ASSUME NEW m \in 1 .. N, NEW n \in 1 .. N, m < n
                PROVE  ToolCalls(t)[m] < ToolCalls(t)[n]
  BY <1>8
<1> DEFINE i == CHOOSE k \in C : Turns(t, k) = m
           j == CHOOSE k \in C : Turns(t, k) = n
<1>14. i \in C /\ j \in C /\ Turns(t, i) = m /\ Turns(t, j) = n
  BY <1>12
<1>15. ToolCalls(t)[m] = id(i) /\ ToolCalls(t)[n] = id(j)
  BY <1>8
<1> HIDE DEF i, j
<1>16. seq(i) < seq(j)
  <2>1. seq(i) # seq(j) /\ ~(seq(j) < seq(i))
    BY <1>6, <1>11, <1>13, <1>14
  <2> QED
    BY <1>5, <1>14, <2>1
<1> QED
  BY <1>5, <1>14, <1>15, <1>16, WireConstants DEF IdOf

-----------------------------------------------------------------------------
(* What a decoder makes of what was said.                                  *)

\* The calls that the dialect can still address.
Known(m) == IF dialect = "messages" THEN DOMAIN m.calls \ ToSet(m.done) ELSE DOMAIN m.calls

\* A decoder that read m.
HasRead(d, m) ==
    /\ IsDecoder(d)
    /\ d.ids = [k \in Known(m) |-> IdOf(k)]
    /\ dialect # "chat" => d.pending = <<>>
    /\ dialect = "chat" /\ m.stop = "absent" =>
         /\ m.done = <<>>
         /\ \E n \in Nat : DOMAIN m.calls = 1 .. n /\ d.open = [i \in 1 .. n |-> IdOf(i)]

IsNext(m, key) == key \in 1 .. MaxCalls /\ DOMAIN m.calls = 1 .. key - 1

\* An entry of a chunk makes m into g, by the events.
EntryBrings(e, m, events, g) ==
    /\ Leads(m, events, g) /\ g.done = m.done /\ g.stop = m.stop
    /\ \/ /\ e.id = <<>> /\ e.key \notin DOMAIN m.calls /\ events = <<>>
          /\ DOMAIN g.calls = DOMAIN m.calls
       \/ /\ e.id = <<>> /\ e.key \in DOMAIN m.calls /\ DOMAIN g.calls = DOMAIN m.calls
          /\ \E f \in Frags : e.args = <<f>> /\ events = <<CallDelta(IdOf(e.key), f)>>
       \/ /\ e.id = <<IdOf(e.key)>> /\ IsNext(m, e.key) /\ DOMAIN g.calls = 1 .. e.key
          /\ e.args = <<>> /\ events = <<CallStart(IdOf(e.key))>>
       \/ /\ e.id = <<IdOf(e.key)>> /\ IsNext(m, e.key) /\ DOMAIN g.calls = 1 .. e.key
          /\ \E f \in Frags : /\ e.args = <<f>>
                              /\ events = <<CallStart(IdOf(e.key)), CallDelta(IdOf(e.key), f)>>

EntriesBring(entries, m, events, g) ==
    \/ \E e : entries = <<e>> /\ EntryBrings(e, m, events, g)
    \/ \E one, two, x, first, second :
         /\ entries = <<one, two>> /\ events = first \o second
         /\ EntryBrings(one, m, first, x) /\ EntryBrings(two, x, second, g)

\* A line makes m into g, by the events.
LineBrings(line, m, events, g) ==
    /\ Leads(m, events, g)
    /\ \/ line.type \in Idle \cup {"start"} /\ events = <<>>
       \/ line.type = "seal" /\ dialect # "responses" /\ events = <<>>
       \/ line.type = "usage" /\ dialect = "chat" /\ events = <<>>
       \/ line.type \in {"text", "reasoning"} /\ events = <<line>>
       \/ /\ line.type = "open" /\ dialect # "chat" /\ line.key \in Nat /\ line.id = IdOf(line.key)
          /\ events = <<CallStart(line.id)>>
       \/ /\ line.type = "args" /\ dialect # "chat" /\ line.key \in DOMAIN m.calls \ ToSet(m.done)
          /\ events = <<CallDelta(IdOf(line.key), line.frag)>>
       \/ /\ line.type = "args" /\ dialect # "chat" /\ line.key \notin DOMAIN m.calls
          /\ events = <<>>
       \/ /\ line.type = "close" /\ dialect # "chat" /\ line.key \in DOMAIN m.calls \ ToSet(m.done)
          /\ events = <<CallEnd(IdOf(line.key))>>
       \/ /\ line.type = "stop" /\ dialect = "messages"
          /\ events = <<Ended(line.reason)>>
       \/ /\ line.type = "stop" /\ dialect = "responses"
          /\ events = <<Ended(FinishReason(line.reason))>>
       \/ /\ line.type = "stop" /\ dialect = "chat" /\ m.stop = "absent" /\ g.stop # "absent"
          /\ DOMAIN g.calls = DOMAIN m.calls
          /\ \E n \in Nat : /\ DOMAIN m.calls = 1 .. n
                            /\ events = [i \in 1 .. n |-> CallEnd(IdOf(i))] \o <<Ended(line.reason)>>
       \/ /\ line.type = "calls" /\ dialect = "chat" /\ m.stop = "absent"
          /\ EntriesBring(line.entries, m, events, g)

\* The line is read, or it fails and says nothing.
Reads(read, m, g) ==
    IF read.failed THEN read.out = <<>>
    ELSE /\ HasRead(read.dec, g) /\ Leads(m, read.out \o read.dec.pending, g)
         /\ read.out = <<>> \/ \E event : read.out = <<event>>
         /\ IsSequence(read.dec.pending)

(* A line that says nothing.                                                *)
LEMMA NoiseIsRead ==
    ASSUME NEW d, NEW e, NEW m, HasRead(d, m), d.pending = <<>>,
           IsDecoder(e), e.ids = d.ids, e.open = d.open, e.pending = d.pending
    PROVE  HasRead(e, m) /\ Reads(Silent(e), m, m)
<1>1. HasRead(e, m)
  BY DEF HasRead
<1>2. <<>> \o e.pending = <<>>
  OBVIOUS
<1> QED
  BY <1>1, <1>2, NothingLeadsNowhere, SequencesAre DEF Reads, Silent

(* An event that adds nothing.                                              *)
LEMMA EmptyEventIsRead ==
    ASSUME NEW e, NEW m, HasRead(e, m), e.pending = <<>>,
           NEW event, event.type \in {"start", "usage"}
    PROVE  Reads(Emit(e, event), m, m)
<1>1. <<event>> \o e.pending = <<event>> /\ Len(<<event>>) = 1
  OBVIOUS
<1>2. Leads(m, <<event>>, m)
  BY OneEventLeads DEF Adds
<1> QED
  BY <1>1, <1>2, SequencesAre DEF Reads, Emit

(* An event that adds what the line brings.                                 *)
LEMMA EventIsRead ==
    ASSUME NEW e, NEW m, NEW g, HasRead(e, g), e.pending = <<>>, NEW event,
           Leads(m, <<event>>, g)
    PROVE  Reads(Emit(e, event), m, g)
<1>1. <<event>> \o e.pending = <<event>> /\ Len(<<event>>) = 1
  OBVIOUS
<1> QED
  BY <1>1, SequencesAre DEF Reads, Emit

(* Messages and Responses: what a line changes of the calls that are known. *)
LEMMA OpeningIsRead ==
    ASSUME dialect # "chat", NEW d, NEW m, IsAnswer(m), HasRead(d, m), NEW key \in Nat,
           NEW g, Leads(m, <<CallStart(IdOf(key))>>, g)
    PROVE  HasRead([d EXCEPT !.ids = Insert(@, key, IdOf(key))], g)
<1>1. Adds(m, CallStart(IdOf(key)), g)
  BY OneEventLeadsThere
<1>2. PICK n \in 0 .. MaxCalls :
        /\ DOMAIN m.calls = 1 .. n /\ IdOf(key) = IdOf(n + 1)
        /\ g = [m EXCEPT !.calls = Insert(@, n + 1, <<>>)]
  BY <1>1 DEF Adds, CallStart, OpensACall
<1>3. key = n + 1
  BY <1>2, IdsDiffer
<1>4. /\ g.done = m.done /\ g.calls = Insert(m.calls, key, <<>>)
  BY <1>2, <1>3, AnswersAreRecords
<1>5. key \notin ToSet(m.done)
  BY <1>2, <1>3 DEF IsAnswer, ToSet
<1>6. Known(g) = Known(m) \cup {key}
  <2>1. DOMAIN g.calls = DOMAIN m.calls \cup {key}
    BY <1>4 DEF Insert
  <2> QED
    BY <1>4, <1>5, <2>1 DEF Known
<1> DEFINE e == [d EXCEPT !.ids = Insert(@, key, IdOf(key))]
<1>7. d.ids = [k \in Known(m) |-> IdOf(k)] /\ DOMAIN d.ids = Known(m)
  BY DEF HasRead
<1>8. Insert(d.ids, key, IdOf(key)) = [k \in Known(g) |-> IdOf(k)]
  BY <1>6, <1>7 DEF Insert
<1>9. IsDecoder(e) /\ e.ids = Insert(d.ids, key, IdOf(key)) /\ e.pending = <<>>
  BY DEF HasRead, IsDecoder
<1> HIDE DEF e
<1>10. HasRead(e, g)
  BY <1>8, <1>9 DEF HasRead
<1> QED
  BY <1>10 DEF e

(* Text and arguments open and close no call.                               *)
LEMMA OthersKeepTheCalls ==
    ASSUME NEW m, IsAnswer(m), NEW event, event.type \in {"text", "reasoning", "call_delta", "end"},
           NEW g, Leads(m, <<event>>, g)
    PROVE  DOMAIN g.calls = DOMAIN m.calls /\ g.done = m.done /\ Known(g) = Known(m)
<1>1. Adds(m, event, g)
  BY OneEventLeadsThere
<1>2. DOMAIN m = {"text", "reasoning", "calls", "done", "stop", "sealed"}
  BY AnswersAreRecords
<1>3. CASE AddsToACall(m, event, g)
  <2>1. PICK k \in DOMAIN m.calls : g = [m EXCEPT !.calls = Insert(@, k, Append(@[k], event.frag))]
    BY <1>3 DEF AddsToACall
  <2>2. g.done = m.done /\ g.calls = Insert(m.calls, k, Append(m.calls[k], event.frag))
    BY <1>2, <2>1
  <2>3. DOMAIN g.calls = DOMAIN m.calls
    BY <2>2 DEF Insert
  <2> QED
    BY <2>2, <2>3 DEF Known
<1>4. CASE ~AddsToACall(m, event, g)
  <2>1. DOMAIN g.calls = DOMAIN m.calls /\ g.done = m.done
    BY <1>1, <1>2, <1>4 DEF Adds
  <2> QED
    BY <2>1 DEF Known
<1> QED
  BY <1>3, <1>4

(* A call closed: Messages forgets its key, Responses does not.             *)
LEMMA ClosingIsRead ==
    ASSUME dialect # "chat", NEW d, NEW m, IsAnswer(m), HasRead(d, m), NEW key \in DOMAIN m.calls,
           NEW g, Leads(m, <<CallEnd(IdOf(key))>>, g)
    PROVE  /\ dialect = "messages" => HasRead([d EXCEPT !.ids = Without(@, key)], g)
           /\ dialect = "responses" => HasRead(d, g)
<1>1. Adds(m, CallEnd(IdOf(key)), g)
  BY OneEventLeadsThere
<1>2. PICK n \in 0 .. MaxCalls : DOMAIN m.calls = 1 .. n
  BY DEF IsAnswer
<1>3. PICK k \in DOMAIN m.calls :
        /\ IdOf(key) = IdOf(k) /\ k \notin ToSet(m.done)
        /\ g = [m EXCEPT !.done = Append(@, k)]
  BY <1>1 DEF Adds, CallEnd, ClosesACall
<1>4. k = key
  BY <1>2, <1>3, IdsDiffer
<1>5. g.calls = m.calls /\ g.done = Append(m.done, key)
  BY <1>3, <1>4, AnswersAreRecords
<1>6. ToSet(g.done) = ToSet(m.done) \cup {key}
  <2>1. m.done \in Seq(DOMAIN m.calls)
    BY DEF IsAnswer
  <2> QED
    BY <1>5, <2>1 DEF ToSet
<1>7. CASE dialect = "messages"
  <2> DEFINE e == [d EXCEPT !.ids = Without(@, key)]
  <2>1. Known(g) = Known(m) \ {key}
    BY <1>5, <1>6, <1>7 DEF Known
  <2>2. d.ids = [x \in Known(m) |-> IdOf(x)] /\ DOMAIN d.ids = Known(m)
    BY DEF HasRead
  <2>3. Without(d.ids, key) = [x \in Known(g) |-> IdOf(x)]
    BY <2>1, <2>2 DEF Without
  <2>4. IsDecoder(e) /\ e.ids = Without(d.ids, key) /\ e.pending = <<>>
    BY DEF HasRead, IsDecoder
  <2> HIDE DEF e
  <2>5. HasRead(e, g)
    BY <1>7, <2>3, <2>4 DEF HasRead
  <2> QED
    BY <1>7, <2>5 DEF e
<1>8. CASE dialect = "responses"
  <2>1. Known(g) = Known(m)
    BY <1>5, <1>8 DEF Known
  <2> QED
    BY <1>8, <2>1 DEF HasRead
<1> QED
  BY <1>7, <1>8

(* A line that fails says nothing.                                          *)
LEMMA FailureIsSilent ==
    ASSUME NEW d, NEW m, NEW g
    PROVE  Reads(Fail(d), m, g)
  BY DEF Reads, Fail

(* Messages: whatever the line, the decoder reads what it brings.           *)
LEMMA MessagesAreRead ==
    ASSUME dialect = "messages", NEW d, NEW m, IsAnswer(m), HasRead(d, m),
           NEW line, NEW events, NEW g, LineBrings(line, m, events, g)
    PROVE  Reads(MessagesDecode(d, line), m, g)
<1> DEFINE read == MessagesDecode(d, line)
<1>1. /\ Leads(m, events, g) /\ (events = <<>> => g = m) /\ d.pending = <<>>
      /\ IsDecoder(d) /\ d.ids = [k \in Known(m) |-> IdOf(k)]
      /\ Known(m) = DOMAIN m.calls \ ToSet(m.done)
  BY NothingLeadsOnlyHere DEF LineBrings, HasRead, Known
<1>2. CASE line.type = "start"
  <2> DEFINE e == [d EXCEPT !.usage = AbsorbKnown(@, line.usage)]
  <2>1. IsDecoder(e) /\ e.ids = d.ids /\ e.open = d.open /\ e.pending = d.pending
    BY <1>1 DEF IsDecoder
  <2>2. read = Emit(e, Started) /\ Started.type = "start" /\ g = m
    BY <1>1, <1>2 DEF MessagesDecode, Started, LineBrings
  <2> HIDE DEF e, read
  <2>3. HasRead(e, m) /\ e.pending = <<>>
    BY <1>1, <2>1, NoiseIsRead
  <2>4. Reads(Emit(e, Started), m, m)
    BY <2>2, <2>3, EmptyEventIsRead
  <2> QED
    BY <2>2, <2>4 DEF read
<1>3. CASE line.type = "seal"
  <2> DEFINE e == [d EXCEPT !.completed = TRUE]
             event == Counted(d.usage)
  <2>1. IsDecoder(e) /\ e.ids = d.ids /\ e.open = d.open /\ e.pending = d.pending
    BY <1>1 DEF IsDecoder
  <2>2. read = Emit(e, event) /\ event.type = "usage" /\ g = m
    BY <1>1, <1>3 DEF MessagesDecode, Counted, LineBrings
  <2> HIDE DEF e, event, read
  <2>3. HasRead(e, m) /\ e.pending = <<>>
    BY <1>1, <2>1, NoiseIsRead
  <2>4. Reads(Emit(e, event), m, m)
    BY <2>2, <2>3, EmptyEventIsRead
  <2> QED
    BY <2>2, <2>4 DEF read
<1>4. CASE line.type \in {"error", "garbage"}
  BY <1>4, FailureIsSilent DEF MessagesDecode
<1>5. CASE line.type = "noise"
  <2>1. read = Silent(d) /\ g = m
    BY <1>1, <1>5 DEF MessagesDecode, LineBrings, Idle
  <2>2. Reads(Silent(d), m, m)
    BY <1>1, NoiseIsRead
  <2> QED
    BY <2>1, <2>2
<1>6. CASE line.type \in {"text", "reasoning"}
  <2>1. read = Emit(d, line) /\ Leads(m, <<line>>, g)
    BY <1>1, <1>6 DEF MessagesDecode, LineBrings, Idle
  <2>2. Known(g) = Known(m)
    BY <1>6, <2>1, OthersKeepTheCalls
  <2>3. HasRead(d, g)
    BY <2>2 DEF HasRead
  <2> QED
    BY <1>1, <2>1, <2>3, EventIsRead
<1>7. CASE line.type = "open"
  <2> DEFINE e == [d EXCEPT !.ids = Insert(@, line.key, IdOf(line.key))]
             event == CallStart(IdOf(line.key))
  <2>1. read = Emit(e, event) /\ Leads(m, <<event>>, g) /\ line.key \in Nat
    BY <1>1, <1>7 DEF MessagesDecode, LineBrings, Idle
  <2>2. HasRead(e, g)
    BY <2>1, OpeningIsRead
  <2> HIDE DEF e, event, read
  <2>3. e.pending = <<>>
    BY <2>2 DEF HasRead
  <2>4. Reads(Emit(e, event), m, g)
    BY <2>1, <2>2, <2>3, EventIsRead
  <2> QED
    BY <2>1, <2>4 DEF read
<1>8. CASE line.type = "args" /\ line.key \notin DOMAIN d.ids
  BY <1>8, FailureIsSilent DEF MessagesDecode
<1>9. CASE line.type = "args" /\ line.key \in DOMAIN d.ids
  <2> DEFINE event == CallDelta(IdOf(line.key), line.frag)
  <2>1. read = Emit(d, event) /\ Leads(m, <<event>>, g) /\ event.type = "call_delta"
    BY <1>1, <1>9 DEF MessagesDecode, LineBrings, Idle, CallDelta
  <2> HIDE DEF event, read
  <2>2. Known(g) = Known(m)
    BY <2>1, OthersKeepTheCalls
  <2>3. HasRead(d, g)
    BY <2>2 DEF HasRead
  <2>4. Reads(Emit(d, event), m, g)
    BY <1>1, <2>1, <2>3, EventIsRead
  <2> QED
    BY <2>1, <2>4 DEF read
<1>10. CASE line.type = "close"
  <2> DEFINE event == CallEnd(IdOf(line.key))
             e == [d EXCEPT !.ids = Without(@, line.key)]
  <2>1. line.key \in Known(m) /\ Leads(m, <<event>>, g)
    BY <1>1, <1>10 DEF LineBrings, Idle
  <2>2. read = Emit(e, event)
    BY <1>1, <1>10, <2>1 DEF MessagesDecode
  <2>3. HasRead(e, g)
    BY <1>1, <2>1, ClosingIsRead
  <2> HIDE DEF e, event, read
  <2>4. e.pending = <<>>
    BY <2>3 DEF HasRead
  <2>5. Reads(Emit(e, event), m, g)
    BY <2>1, <2>3, <2>4, EventIsRead
  <2> QED
    BY <2>2, <2>5 DEF read
<1>11. CASE line.type = "stop"
  <2> DEFINE event == Ended(line.reason)
             e == [d EXCEPT !.usage = AbsorbKnown(@, line.usage)]
  <2>1. read = Emit(e, event) /\ Leads(m, <<event>>, g) /\ event.type = "end"
    BY <1>1, <1>11 DEF MessagesDecode, LineBrings, Idle, Ended
  <2>2. IsDecoder(e) /\ e.ids = d.ids /\ e.pending = <<>>
    BY <1>1 DEF IsDecoder
  <2> HIDE DEF e, event, read
  <2>3. Known(g) = Known(m)
    BY <2>1, OthersKeepTheCalls
  <2>4. HasRead(e, g)
    BY <1>1, <2>2, <2>3 DEF HasRead
  <2>5. Reads(Emit(e, event), m, g)
    BY <2>1, <2>2, <2>4, EventIsRead
  <2> QED
    BY <2>1, <2>5 DEF read
<1>12. line.type \in {"start", "seal", "error", "garbage", "noise", "text", "reasoning", "open",
                      "args", "close", "stop"}
  BY DEF LineBrings, Idle
<1> QED
  BY <1>2, <1>3, <1>4, <1>5, <1>6, <1>7, <1>8, <1>9, <1>10, <1>11, <1>12

(* Responses: whatever the line, the decoder reads what it brings.          *)
LEMMA ResponsesAreRead ==
    ASSUME dialect = "responses", NEW d, NEW m, IsAnswer(m), HasRead(d, m),
           NEW line, NEW events, NEW g, LineBrings(line, m, events, g)
    PROVE  Reads(ResponsesDecode(d, line), m, g)
<1> DEFINE read == ResponsesDecode(d, line)
<1>1. /\ Leads(m, events, g) /\ (events = <<>> => g = m) /\ d.pending = <<>>
      /\ IsDecoder(d) /\ d.ids = [k \in Known(m) |-> IdOf(k)]
      /\ Known(m) = DOMAIN m.calls
  BY NothingLeadsOnlyHere DEF LineBrings, HasRead, Known
<1>2. CASE line.type = "start"
  <2>1. read = Emit(d, Started) /\ Started.type = "start" /\ g = m
    BY <1>1, <1>2 DEF ResponsesDecode, Started, LineBrings
  <2>2. Reads(Emit(d, Started), m, m)
    BY <1>1, <2>1, EmptyEventIsRead
  <2> QED
    BY <2>1, <2>2
<1>3. CASE line.type \in {"error", "garbage"}
  BY <1>3, FailureIsSilent DEF ResponsesDecode
<1>4. CASE line.type = "noise"
  <2>1. read = Silent(d) /\ g = m
    BY <1>1, <1>4 DEF ResponsesDecode, LineBrings, Idle
  <2>2. Reads(Silent(d), m, m)
    BY <1>1, NoiseIsRead
  <2> QED
    BY <2>1, <2>2
<1>5. CASE line.type \in {"text", "reasoning"}
  <2>1. read = Emit(d, line) /\ Leads(m, <<line>>, g)
    BY <1>1, <1>5 DEF ResponsesDecode, LineBrings, Idle
  <2>2. Known(g) = Known(m)
    BY <1>5, <2>1, OthersKeepTheCalls
  <2>3. HasRead(d, g)
    BY <2>2 DEF HasRead
  <2> QED
    BY <1>1, <2>1, <2>3, EventIsRead
<1>6. CASE line.type = "open"
  <2> DEFINE e == [d EXCEPT !.ids = Insert(@, line.key, IdOf(line.key))]
             event == CallStart(IdOf(line.key))
  <2>1. read = Emit(e, event) /\ Leads(m, <<event>>, g) /\ line.key \in Nat
    BY <1>1, <1>6 DEF ResponsesDecode, LineBrings, Idle
  <2>2. HasRead(e, g)
    BY <2>1, OpeningIsRead
  <2> HIDE DEF e, event, read
  <2>3. e.pending = <<>>
    BY <2>2 DEF HasRead
  <2>4. Reads(Emit(e, event), m, g)
    BY <2>1, <2>2, <2>3, EventIsRead
  <2> QED
    BY <2>1, <2>4 DEF read
<1>7. CASE line.type = "args" /\ line.key \notin DOMAIN d.ids
  <2>1. read = Silent(d) /\ g = m
    BY <1>1, <1>7 DEF ResponsesDecode, LineBrings, Idle
  <2>2. Reads(Silent(d), m, m)
    BY <1>1, NoiseIsRead
  <2> QED
    BY <2>1, <2>2
<1>8. CASE line.type = "args" /\ line.key \in DOMAIN d.ids
  <2> DEFINE event == CallDelta(IdOf(line.key), line.frag)
  <2>1. read = Emit(d, event) /\ Leads(m, <<event>>, g) /\ event.type = "call_delta"
    BY <1>1, <1>8 DEF ResponsesDecode, LineBrings, Idle, CallDelta
  <2> HIDE DEF event, read
  <2>2. Known(g) = Known(m)
    BY <2>1, OthersKeepTheCalls
  <2>3. HasRead(d, g)
    BY <2>2 DEF HasRead
  <2>4. Reads(Emit(d, event), m, g)
    BY <1>1, <2>1, <2>3, EventIsRead
  <2> QED
    BY <2>1, <2>4 DEF read
<1>9. CASE line.type = "close"
  <2> DEFINE event == CallEnd(IdOf(line.key))
  <2>1. line.key \in DOMAIN m.calls /\ Leads(m, <<event>>, g)
    BY <1>1, <1>9 DEF LineBrings, Idle
  <2>2. read = Emit(d, event)
    BY <1>1, <1>9, <2>1 DEF ResponsesDecode
  <2>3. HasRead(d, g)
    BY <1>1, <2>1, ClosingIsRead
  <2> HIDE DEF event, read
  <2>4. Reads(Emit(d, event), m, g)
    BY <1>1, <2>1, <2>3, EventIsRead
  <2> QED
    BY <2>2, <2>4 DEF read
<1>10. CASE line.type = "stop"
  <2> DEFINE event == Ended(FinishReason(line.reason))
             e == [d EXCEPT !.usage = AbsorbUsage(@, line.usage), !.completed = TRUE]
  <2>1. read = Emit(e, event) /\ Leads(m, <<event>>, g) /\ event.type = "end"
    BY <1>1, <1>10 DEF ResponsesDecode, LineBrings, Idle, Ended
  <2>2. IsDecoder(e) /\ e.ids = d.ids /\ e.pending = <<>>
    BY <1>1 DEF IsDecoder
  <2> HIDE DEF e, event, read
  <2>3. Known(g) = Known(m)
    BY <2>1, OthersKeepTheCalls
  <2>4. HasRead(e, g)
    BY <1>1, <2>2, <2>3 DEF HasRead
  <2>5. Reads(Emit(e, event), m, g)
    BY <2>1, <2>2, <2>4, EventIsRead
  <2> QED
    BY <2>1, <2>5 DEF read
<1>11. line.type \in {"start", "error", "garbage", "noise", "text", "reasoning", "open",
                      "args", "close", "stop"}
  BY DEF LineBrings, Idle
<1> QED
  BY <1>2, <1>3, <1>4, <1>5, <1>6, <1>7, <1>8, <1>9, <1>10, <1>11

(* The arguments of an entry, none or one fragment, as events.              *)
LEMMA ArgumentsAre ==
    ASSUME NEW id
    PROVE  /\ [i \in DOMAIN <<>> |-> CallDelta(id, <<>>[i])] = <<>>
           /\ \A f : [i \in DOMAIN <<f>> |-> CallDelta(id, <<f>>[i])] = <<CallDelta(id, f)>>
<1>1. DOMAIN <<>> = {} /\ \A f : DOMAIN <<f>> = {1} /\ <<f>>[1] = f
  OBVIOUS
<1>2. <<>> = [i \in {} |-> CallDelta(id, <<>>[i])]
  OBVIOUS
<1>3. \A f : <<CallDelta(id, f)>> = [i \in {1} |-> CallDelta(id, <<f>>[i])]
  BY <1>1
<1> QED
  BY <1>1, <1>2, <1>3

(* Events queued one by one.                                                *)
LEMMA OneByOne ==
    ASSUME NEW s, IsSequence(s), NEW x, NEW y
    PROVE  /\ s \o <<>> = s
           /\ s \o <<x>> \o <<>> = s \o <<x>>
           /\ s \o <<x>> \o <<y>> = s \o <<x, y>>
<1>1. PICK D : s \in Seq(D)
  BY SequencesAre
<1> DEFINE E == D \cup {x, y}
<1>2. s \in Seq(E) /\ x \in E /\ y \in E
  BY <1>1
<1> HIDE DEF E
<1>3. <<x>> \in Seq(E) /\ <<y>> \in Seq(E) /\ <<x, y>> \in Seq(E)
  BY <1>2
<1>4. s \o <<>> = s /\ (s \o <<x>>) \in Seq(E) /\ s \o <<x>> \o <<>> = s \o <<x>>
  BY <1>2, <1>3
<1>5. s \o <<x>> \o <<y>> = s \o <<x, y>>
  <2> DEFINE l == s \o <<x>> \o <<y>>
             r == s \o <<x, y>>
             n == Len(s)
  <2>1. n \in Nat /\ l \in Seq(E) /\ r \in Seq(E) /\ Len(l) = n + 2 /\ Len(r) = n + 2
    BY <1>2, <1>3, <1>4
  <2>2. /\ \A k \in 1 .. n : l[k] = s[k] /\ r[k] = s[k]
        /\ l[n + 1] = x /\ r[n + 1] = x /\ l[n + 2] = y /\ r[n + 2] = y
    BY <1>2, <1>3, <1>4
  <2> HIDE DEF l, r, n
  <2>3. \A k \in 1 .. n + 2 : l[k] = r[k]
    BY <2>1, <2>2
  <2>4. l = r
    BY <2>1, <2>3
  <2> QED
    BY <2>4 DEF l, r
<1> QED
  BY <1>4, <1>5

(* Chat: an entry queues the events it brings, and no other.                *)
LEMMA EntryIsAbsorbed ==
    ASSUME dialect = "chat", NEW d, NEW m, IsAnswer(m), m.stop = "absent", HasRead(d, m),
           IsSequence(d.pending), NEW e, NEW events, NEW g, EntryBrings(e, m, events, g)
    PROVE  LET a == AbsorbToolCall(d, e)
           IN  /\ HasRead(a, g) /\ a.pending = d.pending \o events
               /\ a.announced = d.announced
<1> DEFINE a == AbsorbToolCall(d, e)
           isNew == e.id # <<>> /\ e.key \notin DOMAIN d.ids
           ids == IF isNew THEN Insert(d.ids, e.key, Head(e.id)) ELSE d.ids
           args == IF e.key \in DOMAIN ids THEN e.args ELSE <<>>
<1>1. /\ IsDecoder(d) /\ d.ids = [k \in DOMAIN m.calls |-> IdOf(k)] /\ DOMAIN d.ids = DOMAIN m.calls
      /\ m.done = <<>>
  BY DEF HasRead, Known
<1>2. PICK n \in Nat : DOMAIN m.calls = 1 .. n /\ d.open = [i \in 1 .. n |-> IdOf(i)]
  BY DEF HasRead
<1>3. /\ IsDecoder(a) /\ a.ids = ids /\ a.announced = d.announced
      /\ a.open = IF isNew THEN d.open \o e.id ELSE d.open
      /\ a.pending = d.pending \o (IF isNew THEN <<CallStart(Head(e.id))>> ELSE <<>>)
                               \o [i \in DOMAIN args |-> CallDelta(ids[e.key], args[i])]
  BY <1>1 DEF IsDecoder, AbsorbToolCall
<1>5. d.pending \o <<>> = d.pending
  BY OneByOne
<1>6. g.done = <<>> /\ g.stop = "absent"
  BY <1>1 DEF EntryBrings
<1> HIDE DEF a
<1>7. CASE e.id = <<>> /\ e.key \notin DOMAIN m.calls /\ events = <<>> /\ DOMAIN g.calls = DOMAIN m.calls
  <2>1. ~isNew /\ ids = d.ids /\ args = <<>>
    BY <1>1, <1>7
  <2>2. a.ids = d.ids /\ a.open = d.open
    BY <1>3, <2>1
  <2>3. a.pending = d.pending
    <3>1. a.pending = d.pending \o <<>> \o [i \in DOMAIN <<>> |-> CallDelta(ids[e.key], <<>>[i])]
      BY <1>3, <2>1
    <3> HIDE DEF ids
    <3> QED
      BY <1>5, <3>1, ArgumentsAre
  <2> QED
    BY <1>1, <1>2, <1>3, <1>5, <1>6, <1>7, <2>2, <2>3 DEF HasRead, Known, a
<1>8. CASE /\ e.id = <<>> /\ e.key \in DOMAIN m.calls /\ DOMAIN g.calls = DOMAIN m.calls
           /\ \E f \in Frags : e.args = <<f>> /\ events = <<CallDelta(IdOf(e.key), f)>>
  <2>0. PICK f \in Frags : e.args = <<f>> /\ events = <<CallDelta(IdOf(e.key), f)>>
    BY <1>8
  <2>1. ~isNew /\ ids = d.ids /\ args = <<f>> /\ ids[e.key] = IdOf(e.key)
    BY <1>1, <1>8, <2>0
  <2>2. a.ids = d.ids /\ a.open = d.open
    BY <1>3, <2>1
  <2>3. a.pending = d.pending \o events
    <3>1. a.pending = d.pending \o <<>> \o [i \in DOMAIN <<f>> |-> CallDelta(IdOf(e.key), <<f>>[i])]
      BY <1>3, <2>1
    <3> HIDE DEF ids
    <3> QED
      BY <1>5, <2>0, <3>1, ArgumentsAre
  <2> QED
    BY <1>1, <1>2, <1>3, <1>6, <1>8, <2>2, <2>3 DEF HasRead, Known, a
<1>9. ASSUME e.id = <<IdOf(e.key)>>, IsNext(m, e.key), DOMAIN g.calls = 1 .. e.key
      PROVE  /\ isNew /\ ids = Insert(d.ids, e.key, IdOf(e.key)) /\ args = e.args
             /\ ids[e.key] = IdOf(e.key)
             /\ HasRead(a, g)
             /\ a.pending = d.pending \o <<CallStart(IdOf(e.key))>>
                                      \o [i \in DOMAIN e.args |-> CallDelta(IdOf(e.key), e.args[i])]
  <2>1. e.key \in Nat /\ e.key = n + 1 /\ e.key \notin DOMAIN m.calls
    BY <1>2, <1>9, WireConstants DEF IsNext
  <2>2. e.id # <<>> /\ Head(e.id) = IdOf(e.key)
    BY <1>9
  <2>3. isNew /\ ids = Insert(d.ids, e.key, IdOf(e.key))
    BY <1>1, <2>1, <2>2
  <2>4. DOMAIN ids = DOMAIN m.calls \cup {e.key} /\ ids[e.key] = IdOf(e.key)
    BY <1>1, <2>3 DEF Insert
  <2>5. args = e.args
    BY <2>4
  <2>6. ids = [k \in DOMAIN g.calls |-> IdOf(k)]
    <3>1. DOMAIN g.calls = DOMAIN m.calls \cup {e.key}
      BY <1>2, <1>9, <2>1
    <3> QED
      BY <1>1, <2>3, <3>1 DEF Insert
  <2>7. a.open = [i \in 1 .. n + 1 |-> IdOf(i)]
    <3>1. a.open = d.open \o <<IdOf(n + 1)>>
      BY <1>3, <1>9, <2>1, <2>3
    <3>2. d.open \in Seq({IdOf(i) : i \in 1 .. n}) /\ Len(d.open) = n
      BY <1>2
    <3> QED
      BY <1>2, <3>1, <3>2
  <2>8. HasRead(a, g)
    BY <1>3, <1>6, <1>9, <2>1, <2>3, <2>6, <2>7 DEF HasRead, Known
  <2> QED
    BY <1>3, <2>2, <2>3, <2>4, <2>5, <2>8
<1>10. CASE /\ e.id = <<IdOf(e.key)>> /\ IsNext(m, e.key) /\ DOMAIN g.calls = 1 .. e.key
            /\ e.args = <<>> /\ events = <<CallStart(IdOf(e.key))>>
  <2>1. a.pending = d.pending \o <<CallStart(IdOf(e.key))>>
                              \o [i \in DOMAIN <<>> |-> CallDelta(IdOf(e.key), <<>>[i])]
    BY <1>9, <1>10
  <2> DEFINE x == CallStart(IdOf(e.key))
  <2> HIDE DEF x
  <2>2. d.pending \o <<x>> \o <<>> = d.pending \o <<x>>
    BY OneByOne
  <2>3. a.pending = d.pending \o events
    BY <1>10, <2>1, <2>2, ArgumentsAre DEF x
  <2> QED
    BY <1>3, <1>9, <1>10, <2>3 DEF a
<1>11. CASE /\ e.id = <<IdOf(e.key)>> /\ IsNext(m, e.key) /\ DOMAIN g.calls = 1 .. e.key
            /\ \E f \in Frags : /\ e.args = <<f>>
                                /\ events = <<CallStart(IdOf(e.key)), CallDelta(IdOf(e.key), f)>>
  <2>0. PICK f \in Frags : /\ e.args = <<f>>
                           /\ events = <<CallStart(IdOf(e.key)), CallDelta(IdOf(e.key), f)>>
    BY <1>11
  <2>1. a.pending = d.pending \o <<CallStart(IdOf(e.key))>>
                              \o [i \in DOMAIN <<f>> |-> CallDelta(IdOf(e.key), <<f>>[i])]
    BY <1>9, <1>11, <2>0
  <2> DEFINE x == CallStart(IdOf(e.key))
             y == CallDelta(IdOf(e.key), f)
  <2> HIDE DEF x, y
  <2>2. d.pending \o <<x>> \o <<y>> = d.pending \o <<x, y>>
    BY OneByOne
  <2>3. a.pending = d.pending \o events
    BY <2>0, <2>1, <2>2, ArgumentsAre DEF x, y
  <2> QED
    BY <1>3, <1>9, <1>11, <2>3 DEF a
<1> QED
  BY <1>7, <1>8, <1>10, <1>11 DEF EntryBrings

(* Chat: so do the entries of a chunk, in their order.                      *)
LEMMA EntriesAreAbsorbed ==
    ASSUME dialect = "chat", NEW d, NEW m, IsAnswer(m), m.stop = "absent", HasRead(d, m),
           d.pending = <<>>, NEW entries, NEW events, NEW g, EntriesBring(entries, m, events, g)
    PROVE  LET a == AbsorbToolCalls(d, entries)
           IN  HasRead(a, g) /\ a.pending = events /\ a.announced = d.announced
<1>1. IsSequence(d.pending) /\ \A s : IsSequence(s) => <<>> \o s = s
  <2>1. \A E : \A s \in Seq(E) : <<>> \o s = s
    OBVIOUS
  <2> QED
    BY <2>1, SequencesAre
<1>2. ASSUME NEW e, entries = <<e>>, EntryBrings(e, m, events, g)
      PROVE  LET a == AbsorbToolCalls(d, entries)
             IN  HasRead(a, g) /\ a.pending = events /\ a.announced = d.announced
  <2>1. Len(entries) = 1 /\ entries[1] = e /\ 1 \in Nat
    BY <1>2
  <2>2. PICK f : OneAfterAnother(f, d, entries, 1)
    BY <2>1, AbsorbingIsOneByOne
  <2>3. 1 \in 1 .. 1 /\ 1 - 1 = 0
    OBVIOUS
  <2>4. AbsorbToolCalls(d, entries) = AbsorbToolCall(d, e)
    BY <2>1, <2>2, <2>3 DEF OneAfterAnother
  <2>5. IsSequence(events)
    BY <1>2 DEF EntryBrings, Leads
  <2> DEFINE a == AbsorbToolCall(d, e)
  <2>6. HasRead(a, g) /\ a.pending = d.pending \o events /\ a.announced = d.announced
    BY <1>1, <1>2, EntryIsAbsorbed
  <2> HIDE DEF a
  <2>7. a.pending = events
    BY <1>1, <2>5, <2>6
  <2> QED
    BY <2>4, <2>6, <2>7 DEF a
<1>3. ASSUME NEW one, NEW two, NEW x, NEW first, NEW second,
             entries = <<one, two>>, events = first \o second,
             EntryBrings(one, m, first, x), EntryBrings(two, x, second, g)
      PROVE  LET a == AbsorbToolCalls(d, entries)
             IN  HasRead(a, g) /\ a.pending = events /\ a.announced = d.announced
  <2>1. Len(entries) = 2 /\ entries[1] = one /\ entries[2] = two /\ 2 \in Nat
    BY <1>3
  <2>2. PICK f : OneAfterAnother(f, d, entries, 2)
    BY <2>1, AbsorbingIsOneByOne
  <2>3. 1 \in 1 .. 2 /\ 2 \in 1 .. 2 /\ 1 - 1 = 0 /\ 2 - 1 = 1
    OBVIOUS
  <2> DEFINE b == AbsorbToolCall(d, one)
             a == AbsorbToolCall(b, two)
  <2>4. AbsorbToolCalls(d, entries) = a
    BY <2>1, <2>2, <2>3 DEF OneAfterAnother
  <2>5. IsSequence(first) /\ x.stop = "absent" /\ Leads(m, first, x)
    BY <1>3 DEF EntryBrings, Leads
  <2>a. HasRead(b, x) /\ b.pending = d.pending \o first /\ b.announced = d.announced
    BY <1>1, <1>3, <2>5, EntryIsAbsorbed
  <2>6. HasRead(b, x) /\ b.pending = first /\ b.announced = d.announced
    BY <1>1, <2>5, <2>a
  <2>7. IsAnswer(x)
    BY <2>5, PathsAdd
  <2> HIDE DEF b
  <2>8. HasRead(a, g) /\ a.pending = b.pending \o second /\ a.announced = b.announced
    BY <1>3, <2>5, <2>6, <2>7, EntryIsAbsorbed
  <2> HIDE DEF a
  <2> QED
    BY <1>3, <2>4, <2>6, <2>8
<1> QED
  BY <1>2, <1>3 DEF EntriesBring

(* What is queued is delivered one event a time.                            *)
LEMMA PoppingIsRead ==
    ASSUME NEW e, NEW m, NEW g, HasRead(e, g), Leads(m, e.pending, g), dialect = "chat"
    PROVE  Reads(PopPending(e), m, g) /\ PopPending(e).dec.announced = e.announced
<1>1. PICK E : e.pending \in Seq(E)
  BY SequencesAre DEF Leads
<1>2. CASE e.pending = <<>>
  <2>1. <<>> \o <<>> = <<>>
    OBVIOUS
  <2> QED
    BY <1>2, <2>1, SequencesAre DEF PopPending, Silent, Reads
<1>3. CASE e.pending # <<>>
  <2> DEFINE head == Head(e.pending)
             popped == [e EXCEPT !.pending = Tail(@)]
  <2>1. <<head>> \o Tail(e.pending) = e.pending /\ Len(<<head>>) = 1
    BY <1>1, <1>3
  <2>2. /\ IsDecoder(popped) /\ popped.ids = e.ids /\ popped.open = e.open
        /\ popped.pending = Tail(e.pending) /\ popped.announced = e.announced
    BY DEF HasRead, IsDecoder
  <2>3. PopPending(e) = Emit(popped, head)
    BY <1>3 DEF PopPending
  <2> HIDE DEF head, popped
  <2>4. HasRead(popped, g)
    BY <2>2 DEF HasRead
  <2>5. Leads(m, <<head>> \o popped.pending, g)
    BY <2>1, <2>2
  <2>a. IsSequence(popped.pending)
    <3>1. Tail(e.pending) \in Seq(E)
      BY <1>1, <1>3
    <3> QED
      BY <2>2, <3>1, SequencesAre
  <2>6. Reads(Emit(popped, head), m, g)
    BY <2>1, <2>4, <2>5, <2>a DEF Reads, Emit
  <2>7. Emit(popped, head).dec = popped
    BY DEF Emit
  <2> QED
    BY <2>2, <2>3, <2>6, <2>7
<1> QED
  BY <1>2, <1>3

(* Chat: whatever the line, the decoder reads what it brings.               *)
LEMMA ChatIsRead ==
    ASSUME dialect = "chat", NEW d, NEW m, IsAnswer(m), HasRead(d, m), d.pending = <<>>,
           NEW line, NEW events, NEW g, LineBrings(line, m, events, g),
           d.announced \/ line.type \in {"start", "error", "garbage"}
    PROVE  /\ Reads(ChatDecode(d, line), m, g)
           /\ ~ChatDecode(d, line).failed => ChatDecode(d, line).dec.announced
<1> DEFINE read == ChatDecode(d, line)
           heard == IF line.type = "usage"
                    THEN [d EXCEPT !.usage = AbsorbUsage(@, line.usage)] ELSE d
           begun == [heard EXCEPT !.announced = TRUE]
<1>1. /\ Leads(m, events, g) /\ (events = <<>> => g = m) /\ IsDecoder(d)
  BY NothingLeadsOnlyHere DEF LineBrings, HasRead
<1>2. CASE line.type \in {"error", "garbage"}
  <2>1. read = Fail(d)
    BY <1>2 DEF ChatDecode
  <2> QED
    BY <2>1, FailureIsSilent DEF Fail
<1>3. CASE line.type = "seal"
  <2> DEFINE e == [d EXCEPT !.completed = TRUE]
             event == Counted(d.usage)
  <2>1. /\ IsDecoder(e) /\ e.ids = d.ids /\ e.open = d.open /\ e.pending = d.pending
        /\ e.announced = d.announced
    BY <1>1 DEF IsDecoder
  <2>2. read = Emit(e, event) /\ event.type = "usage" /\ g = m
    BY <1>1, <1>3 DEF ChatDecode, Counted, LineBrings
  <2>a. d.announced
    BY <1>3
  <2> HIDE DEF e, event, read
  <2>3. HasRead(e, m) /\ e.pending = <<>>
    BY <1>1, <2>1, NoiseIsRead
  <2>4. Reads(Emit(e, event), m, m)
    BY <2>2, <2>3, EmptyEventIsRead
  <2>5. Emit(e, event).dec.announced
    BY <2>1, <2>a DEF Emit
  <2> QED
    BY <2>2, <2>4, <2>5 DEF read
<1>4. CASE line.type \notin {"error", "garbage", "seal"}
  <2>1. read = IF heard.announced THEN ChatChunk(heard, line) ELSE Emit(begun, Started)
    BY <1>4 DEF ChatDecode
  <2>2. /\ IsDecoder(heard) /\ heard.ids = d.ids /\ heard.open = d.open
        /\ heard.pending = d.pending /\ heard.announced = d.announced
    BY <1>1 DEF IsDecoder
  <2>3. IsDecoder(begun) /\ begun.ids = d.ids /\ begun.open = d.open /\ begun.pending = d.pending
        /\ begun.announced
    BY <2>2 DEF IsDecoder
  <2>4. HasRead(heard, m) /\ Reads(Silent(heard), m, m)
    <3> HIDE DEF heard
    <3> QED
      BY <2>2, NoiseIsRead
  <2>5. HasRead(begun, m)
    <3> HIDE DEF begun
    <3> QED
      BY <2>3, NoiseIsRead
  <2> HIDE DEF heard, begun, read
  <2>6. CASE ~heard.announced
    <3>1. line.type = "start" /\ g = m /\ read = Emit(begun, Started)
      BY <1>1, <1>4, <2>1, <2>2, <2>6 DEF LineBrings, Idle
    <3>2. Reads(Emit(begun, Started), m, m)
      BY <2>3, <2>5, EmptyEventIsRead DEF Started
    <3>3. Emit(begun, Started).dec.announced
      BY <2>3 DEF Emit
    <3> QED
      BY <3>1, <3>2, <3>3 DEF read
  <2>7. CASE heard.announced /\ line.type \in {"start", "noise", "usage"}
    <3>1. g = m /\ read = Silent(heard)
      BY <1>1, <2>1, <2>7 DEF LineBrings, Idle, ChatChunk
    <3>2. Silent(heard).dec.announced
      BY <2>7 DEF Silent
    <3> QED
      BY <2>4, <3>1, <3>2 DEF read
  <2>8. CASE heard.announced /\ line.type \in {"text", "reasoning"}
    <3>1. Leads(m, <<line>>, g) /\ read = Emit(heard, line)
      BY <1>1, <2>1, <2>8 DEF LineBrings, Idle, ChatChunk
    <3>2. DOMAIN g.calls = DOMAIN m.calls /\ g.done = m.done /\ Known(g) = Known(m)
      BY <2>8, <3>1, OthersKeepTheCalls
    <3>3. Adds(m, line, g)
      BY <3>1, OneEventLeadsThere
    <3>4. g.stop = m.stop
      BY <2>8, <3>3, AnswersAreRecords DEF Adds
    <3>5. HasRead(heard, g)
      BY <2>4, <3>2, <3>4 DEF HasRead
    <3>6. Reads(Emit(heard, line), m, g)
      BY <2>2, <3>1, <3>5, EventIsRead
    <3>7. Emit(heard, line).dec.announced
      BY <2>8 DEF Emit
    <3> QED
      BY <3>1, <3>6, <3>7 DEF read
  <2>9. CASE heard.announced /\ line.type = "calls"
    <3> DEFINE a == AbsorbToolCalls(heard, line.entries)
    <3>1. m.stop = "absent" /\ EntriesBring(line.entries, m, events, g) /\ read = PopPending(a)
      BY <2>1, <2>9 DEF LineBrings, Idle, ChatChunk
    <3>2. HasRead(a, g) /\ a.pending = events /\ a.announced = heard.announced
      BY <2>2, <2>4, <3>1, EntriesAreAbsorbed
    <3> HIDE DEF a
    <3>3. Reads(PopPending(a), m, g) /\ PopPending(a).dec.announced = a.announced
      BY <1>1, <3>2, PoppingIsRead
    <3> QED
      BY <2>9, <3>1, <3>2, <3>3 DEF read
  <2>10. CASE heard.announced /\ line.type = "stop"
    <3> DEFINE a == FinishChat(heard, line.reason)
    <3>1. /\ m.stop = "absent" /\ g.stop # "absent" /\ DOMAIN g.calls = DOMAIN m.calls
          /\ read = PopPending(a)
      BY <2>1, <2>10 DEF LineBrings, Idle, ChatChunk
    <3>2. PICK n \in Nat : /\ DOMAIN m.calls = 1 .. n
                           /\ events = [i \in 1 .. n |-> CallEnd(IdOf(i))] \o <<Ended(line.reason)>>
      BY <2>10 DEF LineBrings, Idle
    <3>3. heard.open = [i \in 1 .. n |-> IdOf(i)]
      <4>1. PICK k \in Nat : DOMAIN m.calls = 1 .. k /\ heard.open = [i \in 1 .. k |-> IdOf(i)]
        BY <2>4, <3>1 DEF HasRead
      <4>2. k = n
        BY <3>2, <4>1
      <4> QED
        BY <4>1, <4>2
    <3>4. [i \in DOMAIN heard.open |-> CallEnd(heard.open[i])] = [i \in 1 .. n |-> CallEnd(IdOf(i))]
      BY <3>3
    <3>5. /\ IsDecoder(a) /\ a.ids = heard.ids /\ a.announced = heard.announced
          /\ a.pending = heard.pending \o [i \in DOMAIN heard.open |-> CallEnd(heard.open[i])]
                                       \o <<Ended(line.reason)>>
      BY <2>2 DEF FinishChat, IsDecoder
    <3> HIDE DEF a
    <3>6. a.pending = events
      <4> DEFINE ends == [i \in 1 .. n |-> CallEnd(IdOf(i))]
      <4>1. ends \in Seq({CallEnd(IdOf(i)) : i \in 1 .. n})
        OBVIOUS
      <4> HIDE DEF ends
      <4>2. <<>> \o ends = ends
        BY <4>1
      <4> QED
        BY <2>2, <3>2, <3>4, <3>5, <4>2 DEF ends
    <3>7. HasRead(a, g)
      BY <2>4, <3>1, <3>5 DEF HasRead, Known
    <3>8. Reads(PopPending(a), m, g) /\ PopPending(a).dec.announced = a.announced
      BY <1>1, <3>6, <3>7, PoppingIsRead
    <3> QED
      BY <2>10, <3>1, <3>5, <3>8 DEF read
  <2>11. line.type \in {"start", "noise", "usage", "text", "reasoning", "calls", "stop"}
    BY <1>4 DEF LineBrings, Idle
  <2> QED
    BY <2>6, <2>7, <2>8, <2>9, <2>10, <2>11
<1> QED
  BY <1>2, <1>3, <1>4

-----------------------------------------------------------------------------
(* The answer, from what was said to the turn.                             *)

\* What was said, as the dialect has it and before the seal.
Spoken ==
    [text |-> said.text, reasoning |-> said.reasoning, calls |-> said.calls,
     done |-> said.done,
     stop |-> IF dialect = "responses" /\ said.stop = "tools" THEN "end" ELSE said.stop,
     sealed |-> Unsealed]

\* What is on its way makes of m what was said.
WireBrings(m) ==
    \/ wire = <<>> /\ m = Spoken
    \/ \E line, events : wire = <<line>> /\ LineBrings(line, m, events, Spoken)

\* The decoder read m: the turn has it, but for what is kept back.
TurnHas(m) == HasRead(dec, m) /\ Leads(HeardIn(turn), dec.pending, m)

\* Where the gateway is in what it says.
SaidByNow ==
    /\ said = [text |-> said.text, reasoning |-> said.reasoning, calls |-> said.calls,
               done |-> said.done, stop |-> said.stop, sealed |-> said.sealed]
    /\ stage # "sealed" => ~said.sealed
    /\ stage = "sealed" => said.sealed
    /\ stage \in {"silent", "speaking"} =>
         said.stop = "absent" /\ (dialect = "chat" => said.done = <<>>)

\* The first chunk of a chat only announces the answer.
ChatBegins ==
    \/ dec.announced
    \/ wire = <<>> /\ stage = "silent"
    \/ wire # <<>> /\ Head(wire).type \in {"start", "error", "garbage"}

\* While the request lasts.
AnswerTravels ==
    /\ dialect \in Dialects /\ outcome = "none"
    /\ SaidByNow /\ IsAnswer(Spoken)
    /\ \E m : TurnHas(m) /\ WireBrings(m)
    /\ dialect = "chat" => ChatBegins
    /\ finished => wire = <<>> /\ body # "open"
    /\ phase # "stream" =>
         /\ wire = <<>> /\ said = Said!Nothing /\ turn = NoTurn
         /\ stage = "silent" /\ ~finished

AnswerInv == IsTurnOfCalls(turn) /\ (phase # "over" => AnswerTravels)

(* Nothing is heard in a turn that has nothing ...                          *)
LEMMA NothingIsHeard ==
    /\ IsTurnOfCalls(NoTurn)
    /\ HeardIn(NoTurn) = [text |-> <<>>, reasoning |-> <<>>, calls |-> <<>>, done |-> <<>>,
                          stop |-> "absent", sealed |-> Unsealed]
    /\ IsAnswer(HeardIn(NoTurn))
<1>1. IsTurnOfCalls(NoTurn)
  <2>1. Ids(0) = {}
    BY DEF Ids
  <2> QED
    BY <2>1, WireConstants DEF IsTurnOfCalls, NoTurn, Words
<1>2. HeardIn(NoTurn) = [text |-> <<>>, reasoning |-> <<>>, calls |-> <<>>, done |-> <<>>,
                         stop |-> "absent", sealed |-> Unsealed]
  BY SMTT(30) DEF HeardIn, NoTurn
<1> QED
  BY <1>1, <1>2, HeardIs

(* ... read by a new decoder ...                                            *)
LEMMA NewDecoderHasReadNothing ==
    ASSUME NEW estimated \in BOOLEAN
    PROVE  HasRead(NewDecoder(estimated), HeardIn(NoTurn)) /\ NewDecoder(estimated).pending = <<>>
<1> DEFINE h == HeardIn(NoTurn)
           d == NewDecoder(estimated)
<1>1. h.calls = <<>> /\ h.done = <<>>
  BY NothingIsHeard
<1>2. IsDecoder(d) /\ d.ids = <<>> /\ d.pending = <<>> /\ d.open = <<>>
  BY DEF NewDecoder, IsDecoder
<1> HIDE DEF h, d
<1>3. Known(h) = {} /\ DOMAIN h.calls = 1 .. 0
  BY <1>1 DEF Known
<1>4. d.ids = [k \in Known(h) |-> IdOf(k)] /\ d.open = [i \in 1 .. 0 |-> IdOf(i)]
  BY <1>2, <1>3
<1>5. HasRead(d, h)
  BY <1>1, <1>2, <1>3, <1>4 DEF HasRead
<1> QED
  BY <1>2, <1>5 DEF h, d

(* ... of what was not said ...                                             *)
LEMMA NothingIsSaid ==
    ASSUME said = Said!Nothing
    PROVE  Spoken = HeardIn(NoTurn) /\ IsAnswer(Spoken)
<1>1. Spoken = HeardIn(NoTurn)
  BY NothingIsHeard DEF Spoken, Said!Nothing
<1> QED
  BY <1>1, NothingIsHeard

(* ... with nothing on its way.                                             *)
LEMMA NothingTravels ==
    ASSUME said = Said!Nothing, wire = <<>>, turn = NoTurn,
           NEW estimated \in BOOLEAN, dec = NewDecoder(estimated)
    PROVE  \E m : TurnHas(m) /\ WireBrings(m)
<1>1. Spoken = HeardIn(turn)
  BY NothingIsSaid
<1>2. HasRead(dec, Spoken) /\ dec.pending = <<>>
  BY <1>1, NewDecoderHasReadNothing
<1>3. TurnHas(Spoken) /\ WireBrings(Spoken)
  BY <1>1, <1>2, NothingLeadsNowhere DEF TurnHas, WireBrings
<1> QED
  BY <1>3

(* The answer starts with nothing said and nothing heard.                   *)
LEMMA AnswerStarts == Init => AnswerInv
<1> SUFFICES ASSUME Init
             PROVE  AnswerInv
  OBVIOUS
<1>1. /\ dialect \in Dialects /\ phase = "ask" /\ stage = "silent" /\ said = Said!Nothing
      /\ wire = <<>> /\ dec = NewDecoder(FALSE) /\ turn = NoTurn /\ ~finished
      /\ outcome = "none"
  BY DEF Init
<1>2. \E m : TurnHas(m) /\ WireBrings(m)
  BY <1>1, NothingTravels
<1>3. SaidByNow
  BY <1>1 DEF SaidByNow, Said!Nothing
<1> QED
  BY <1>1, <1>2, <1>3, NothingIsHeard, NothingIsSaid DEF AnswerInv, AnswerTravels, ChatBegins

(* The stream opens with a new decoder.                                     *)
LEMMA OpenKeepsTheAnswer ==
    ASSUME AnswerInv, Open
    PROVE  AnswerInv'
<1>1. PICK estimated \in BOOLEAN : dec' = NewDecoder(estimated)
  BY DEF Open
<1>2. /\ phase = "ask" /\ phase' = "stream"
      /\ UNCHANGED <<dialect, said, stage, wire, body, turn, finished, outcome>>
  BY DEF Open
<1>3. /\ AnswerTravels /\ wire = <<>> /\ said = Said!Nothing /\ turn = NoTurn
      /\ stage = "silent" /\ ~finished
  BY <1>2 DEF AnswerInv, AnswerTravels
<1>4. said' = Said!Nothing /\ wire' = <<>> /\ turn' = NoTurn
  BY <1>2, <1>3
<1>5. (\E m : TurnHas(m) /\ WireBrings(m))'
  <2>1. Spoken' = HeardIn(turn')
    BY <1>2, <1>3, <1>4, NothingIsSaid DEF Spoken
  <2>2. PICK m : m = Spoken'
    OBVIOUS
  <2>3. HasRead(dec', m) /\ dec'.pending = <<>>
    BY <1>1, <1>4, <2>1, <2>2, NewDecoderHasReadNothing
  <2>4. TurnHas(m)'
    BY <1>2, <2>1, <2>2, <2>3, NothingLeadsNowhere DEF TurnHas, HasRead, Known
  <2>5. WireBrings(m)'
    BY <1>4, <2>2 DEF WireBrings
  <2> QED
    BY <2>4, <2>5
<1>6. SaidByNow'
  BY <1>2, <1>3 DEF SaidByNow, AnswerTravels
<1>7. IsAnswer(Spoken)'
  BY <1>2, <1>3 DEF AnswerTravels, Spoken, IsAnswer
<1>8. IsTurnOfCalls(turn')
  BY <1>2 DEF AnswerInv
<1> QED
  BY <1>2, <1>3, <1>5, <1>6, <1>7, <1>8 DEF AnswerInv, AnswerTravels, ChatBegins

(* The gateway says one line, and the line brings what it says.            *)
LEMMA SpeakingKeepsTheAnswer ==
    ASSUME AnswerInv, CanSpeak, UNCHANGED <<dialect, phase, body, dec, turn, finished, outcome>>,
           NEW line, NEW events, wire' = <<line>>, LineBrings(line, Spoken, events, Spoken'),
           SaidByNow', stage = "silent" => line.type \in {"start", "error", "garbage"}
    PROVE  AnswerInv' /\ IsAnswer(Spoken') /\ Precedes(Spoken, Spoken')
<1>1. AnswerTravels /\ phase = "stream" /\ phase' = "stream" /\ wire = <<>> /\ body = "open"
  BY DEF AnswerInv, CanSpeak
<1>2. PICK m : TurnHas(m) /\ WireBrings(m)
  BY <1>1 DEF AnswerTravels
<1>3. m = Spoken
  BY <1>1, <1>2 DEF WireBrings
<1>4. IsAnswer(Spoken') /\ Precedes(Spoken, Spoken')
  <2>1. IsAnswer(Spoken) /\ Leads(Spoken, events, Spoken')
    BY <1>1 DEF AnswerTravels, LineBrings
  <2> QED
    BY <2>1, PathsAdd
<1>5. TurnHas(m)'
  BY <1>2 DEF TurnHas, HasRead, Known
<1>6. WireBrings(m)'
  BY <1>3 DEF WireBrings, LineBrings
<1>7. dialect' = "chat" => ChatBegins'
  <2> SUFFICES ASSUME dialect = "chat"
               PROVE  ChatBegins'
    OBVIOUS
  <2>1. wire' # <<>> /\ Head(wire') = line
    OBVIOUS
  <2> QED
    BY <1>1, <2>1 DEF AnswerTravels, ChatBegins
<1>8. (\E n : TurnHas(n) /\ WireBrings(n))'
  BY <1>5, <1>6
<1>9. AnswerTravels'
  BY <1>1, <1>4, <1>7, <1>8 DEF AnswerTravels
<1> QED
  BY <1>1, <1>4, <1>9 DEF AnswerInv

(* The first line says nothing of the answer.                               *)
LEMMA BeginsKeepsTheAnswer ==
    ASSUME AnswerInv, Begins
    PROVE  AnswerInv' /\ IsAnswer(Spoken') /\ Precedes(Spoken, Spoken')
<1>1. /\ CanSpeak /\ stage = "silent" /\ stage' = "speaking"
      /\ UNCHANGED <<dialect, phase, body, dec, turn, finished, outcome, said>>
      /\ IF dialect = "messages"
         THEN wire' = <<[type |-> "start", usage |-> CountOf(2, 1)]>> /\ counted' = CountOf(2, 1)
         ELSE wire' = <<[type |-> "start"]>> /\ counted' = counted
  BY DEF Begins, asking, reader
<1>2. PICK line : wire' = <<line>> /\ line.type = "start"
  BY <1>1
<1>3. Spoken' = Spoken
  BY <1>1 DEF Spoken
<1>4. LineBrings(line, Spoken, <<>>, Spoken')
  BY <1>2, <1>3, NothingLeadsNowhere DEF LineBrings
<1>5. SaidByNow'
  BY <1>1 DEF SaidByNow, AnswerInv, AnswerTravels, CanSpeak
<1> QED
  BY <1>1, <1>2, <1>4, <1>5, SpeakingKeepsTheAnswer

(* Nor does a count ...                                                     *)
LEMMA CountsKeepsTheAnswer ==
    ASSUME AnswerInv, Counts
    PROVE  AnswerInv' /\ IsAnswer(Spoken') /\ Precedes(Spoken, Spoken')
<1> DEFINE line == [type |-> "usage", usage |-> CountOf(2, 2)]
<1>1. /\ CanSpeak /\ stage = "stopped" /\ dialect = "chat" /\ wire' = <<line>>
      /\ UNCHANGED <<dialect, phase, body, dec, turn, finished, outcome, said, stage>>
  BY DEF Counts, asking, reader
<1>2. line.type = "usage"
  OBVIOUS
<1> HIDE DEF line
<1>3. Spoken' = Spoken
  BY <1>1 DEF Spoken
<1>4. LineBrings(line, Spoken, <<>>, Spoken')
  BY <1>1, <1>2, <1>3, NothingLeadsNowhere DEF LineBrings
<1>5. SaidByNow'
  BY <1>1 DEF SaidByNow, AnswerInv, AnswerTravels, CanSpeak
<1> QED
  BY <1>1, <1>4, <1>5, SpeakingKeepsTheAnswer

(* ... nor the sentinel ...                                                 *)
LEMMA SealsKeepsTheAnswer ==
    ASSUME AnswerInv, CountInv, Seals
    PROVE  AnswerInv' /\ IsAnswer(Spoken') /\ Precedes(Spoken, Spoken')
<1> DEFINE line == [type |-> "seal"]
<1>1. /\ CanSpeak /\ stage = "stopped" /\ stage' = "sealed" /\ wire' = <<line>>
      /\ said' = [said EXCEPT !.sealed = TRUE]
      /\ UNCHANGED <<dialect, phase, body, dec, turn, finished, outcome>>
  BY DEF Seals, asking, reader
<1>2. line.type = "seal"
  OBVIOUS
<1> HIDE DEF line
<1>3. dialect # "responses" /\ SaidByNow
  BY <1>1 DEF CountInv, CountTravels, AnswerInv, AnswerTravels, CanSpeak
<1>4. SaidByNow'
  BY <1>1, <1>3 DEF SaidByNow
<1>5. Spoken' = Spoken
  BY <1>1, <1>3 DEF Spoken, SaidByNow
<1>6. LineBrings(line, Spoken, <<>>, Spoken')
  BY <1>2, <1>3, <1>5, NothingLeadsNowhere DEF LineBrings
<1> QED
  BY <1>1, <1>4, <1>6, SpeakingKeepsTheAnswer

(* ... nor noise, nor arguments of a call nobody opened.                    *)
LEMMA StuttersKeepsTheAnswer ==
    ASSUME AnswerInv, Stutters
    PROVE  AnswerInv' /\ IsAnswer(Spoken') /\ Precedes(Spoken, Spoken')
<1>1. /\ CanSpeak
      /\ UNCHANGED <<dialect, phase, body, dec, turn, finished, outcome, said, stage>>
  BY DEF Stutters, asking, reader
<1>2. Spoken' = Spoken /\ SaidByNow'
  BY <1>1 DEF Spoken, SaidByNow, AnswerInv, AnswerTravels, CanSpeak
<1>3. AnswerTravels
  BY <1>1 DEF AnswerInv, CanSpeak
<1>4. Spoken.calls = said.calls /\ Spoken.done = said.done /\ Spoken.stop \in {said.stop, "end"}
      /\ (said.stop = "absent" => Spoken.stop = "absent")
  BY DEF Spoken
<1>5. MaxCalls + 1 \notin DOMAIN Spoken.calls
  BY <1>3, WireConstants DEF AnswerTravels, IsAnswer
<1>6. \/ \E line : /\ wire' = <<line>> /\ line.type \in Idle
                   /\ stage = "silent" => line.type \in {"error", "garbage"}
      \/ stage = "speaking" /\ dialect = "chat" /\
           wire' = <<[type |-> "calls",
                      entries |-> <<[key |-> MaxCalls + 1, id |-> <<>>, args |-> <<<<0, 0>>>>]>>]>>
      \/ stage = "speaking" /\ dialect # "chat" /\
           wire' = <<[type |-> "args", key |-> MaxCalls + 1, frag |-> <<0, 0>>]>>
  BY DEF Stutters, Idle
<1>7. ASSUME NEW line, wire' = <<line>>, line.type \in Idle,
             stage = "silent" => line.type \in {"error", "garbage"}
      PROVE  AnswerInv' /\ IsAnswer(Spoken') /\ Precedes(Spoken, Spoken')
  <2>1. LineBrings(line, Spoken, <<>>, Spoken')
    BY <1>2, <1>7, NothingLeadsNowhere DEF LineBrings
  <2> QED
    BY <1>1, <1>2, <1>7, <2>1, SpeakingKeepsTheAnswer
<1>8. CASE stage = "speaking" /\ dialect = "chat" /\
           wire' = <<[type |-> "calls",
                      entries |-> <<[key |-> MaxCalls + 1, id |-> <<>>, args |-> <<<<0, 0>>>>]>>]>>
  <2> DEFINE e == [key |-> MaxCalls + 1, id |-> <<>>, args |-> <<<<0, 0>>>>]
             line == [type |-> "calls", entries |-> <<e>>]
  <2>1. /\ line.type = "calls" /\ line.entries = <<e>> /\ wire' = <<line>>
        /\ e.id = <<>> /\ e.key = MaxCalls + 1
    BY <1>8
  <2> HIDE DEF e, line
  <2>2. EntryBrings(e, Spoken, <<>>, Spoken)
    BY <1>5, <2>1, NothingLeadsNowhere DEF EntryBrings
  <2>3. EntriesBring(line.entries, Spoken, <<>>, Spoken)
    BY <2>1, <2>2 DEF EntriesBring
  <2>4. Spoken.stop = "absent"
    BY <1>3, <1>4, <1>8 DEF AnswerTravels, SaidByNow
  <2>5. LineBrings(line, Spoken, <<>>, Spoken')
    BY <1>2, <1>8, <2>1, <2>3, <2>4, NothingLeadsNowhere DEF LineBrings
  <2> QED
    BY <1>1, <1>2, <1>8, <2>1, <2>5, SpeakingKeepsTheAnswer
<1>9. CASE stage = "speaking" /\ dialect # "chat" /\
           wire' = <<[type |-> "args", key |-> MaxCalls + 1, frag |-> <<0, 0>>]>>
  <2> DEFINE line == [type |-> "args", key |-> MaxCalls + 1, frag |-> <<0, 0>>]
  <2>1. line.type = "args" /\ line.key = MaxCalls + 1 /\ wire' = <<line>>
    BY <1>9
  <2> HIDE DEF line
  <2>2. LineBrings(line, Spoken, <<>>, Spoken')
    BY <1>2, <1>5, <1>9, <2>1, NothingLeadsNowhere DEF LineBrings
  <2> QED
    BY <1>1, <1>2, <1>9, <2>1, <2>2, SpeakingKeepsTheAnswer
<1> QED
  BY <1>6, <1>7, <1>8, <1>9

(* A fragment of text or of reasoning.                                      *)
LEMMA TextKeepsTheAnswer ==
    ASSUME AnswerInv, SpeaksText
    PROVE  AnswerInv' /\ IsAnswer(Spoken') /\ Precedes(Spoken, Spoken')
<1>1. /\ CanSpeak /\ stage = "speaking"
      /\ UNCHANGED <<dialect, phase, body, dec, turn, finished, outcome, stage>>
      /\ \/ /\ wire' = <<[type |-> "text", frag |-> Len(said.text)]>>
            /\ said' = [said EXCEPT !.text = Append(@, Len(@))]
         \/ /\ wire' = <<[type |-> "reasoning", frag |-> Len(said.reasoning)]>>
            /\ said' = [said EXCEPT !.reasoning = Append(@, Len(@))]
  BY DEF SpeaksText, asking, reader
<1>2. SaidByNow /\ IsAnswer(Spoken)
  BY <1>1 DEF AnswerInv, AnswerTravels, CanSpeak
<1>3. /\ Spoken.text = said.text /\ Spoken.reasoning = said.reasoning
      /\ Len(said.text) \in Nat /\ Len(said.reasoning) \in Nat
  BY <1>2 DEF IsAnswer, Spoken
<1>4. CASE /\ wire' = <<[type |-> "text", frag |-> Len(said.text)]>>
           /\ said' = [said EXCEPT !.text = Append(@, Len(@))]
  <2> DEFINE line == [type |-> "text", frag |-> Len(said.text)]
             more == Append(said.text, Len(said.text))
  <2>1. line.type = "text" /\ line.frag \in Nat /\ wire' = <<line>>
        /\ more = Append(Spoken.text, line.frag)
    BY <1>3, <1>4
  <2>2. said' = [said EXCEPT !.text = more]
    BY <1>4
  <2> HIDE DEF line, more
  <2>3. SaidByNow' /\ Spoken' = [Spoken EXCEPT !.text = more]
    BY <1>1, <1>2, <2>2 DEF SaidByNow, Spoken
  <2>4. Adds(Spoken, line, Spoken')
    BY <2>1, <2>3 DEF Adds
  <2>5. LineBrings(line, Spoken, <<line>>, Spoken')
    BY <2>1, <2>4, OneEventLeads DEF LineBrings
  <2> QED
    BY <1>1, <2>1, <2>3, <2>5, SpeakingKeepsTheAnswer
<1>5. CASE /\ wire' = <<[type |-> "reasoning", frag |-> Len(said.reasoning)]>>
           /\ said' = [said EXCEPT !.reasoning = Append(@, Len(@))]
  <2> DEFINE line == [type |-> "reasoning", frag |-> Len(said.reasoning)]
             more == Append(said.reasoning, Len(said.reasoning))
  <2>1. line.type = "reasoning" /\ line.frag \in Nat /\ wire' = <<line>>
        /\ more = Append(Spoken.reasoning, line.frag)
    BY <1>3, <1>5
  <2>2. said' = [said EXCEPT !.reasoning = more]
    BY <1>5
  <2> HIDE DEF line, more
  <2>3. SaidByNow' /\ Spoken' = [Spoken EXCEPT !.reasoning = more]
    BY <1>1, <1>2, <2>2 DEF SaidByNow, Spoken
  <2>4. Adds(Spoken, line, Spoken')
    BY <2>1, <2>3 DEF Adds
  <2>5. LineBrings(line, Spoken, <<line>>, Spoken')
    BY <2>1, <2>4, OneEventLeads DEF LineBrings
  <2> QED
    BY <1>1, <2>1, <2>3, <2>5, SpeakingKeepsTheAnswer
<1> QED
  BY <1>1, <1>4, <1>5

(* The calls are numbered by their count.                                   *)
LEMMA CallsAreCounted ==
    ASSUME NEW m, IsAnswer(m)
    PROVE  DOMAIN m.calls = 1 .. Cardinality(DOMAIN m.calls)
           /\ Cardinality(DOMAIN m.calls) \in 0 .. MaxCalls
<1>1. PICK n \in 0 .. MaxCalls : m.calls \in [1 .. n -> Seq(Frags)]
  BY DEF IsAnswer
<1>2. Cardinality(1 .. n) = n
  <2>1. Cardinality(1 .. n) = IF 1 > n THEN 0 ELSE n - 1 + 1
    BY <1>1, WireConstants, FS_Interval
  <2> QED
    BY <2>1
<1> QED
  BY <1>1, <1>2

(* A call is opened, added to or closed.                                    *)
LEMMA CallKeepsTheAnswer ==
    ASSUME AnswerInv, SpeaksOfACall
    PROVE  AnswerInv' /\ IsAnswer(Spoken') /\ Precedes(Spoken, Spoken')
<1>1. /\ CanSpeak /\ stage = "speaking" /\ dialect # "chat"
      /\ UNCHANGED <<dialect, phase, body, dec, turn, finished, outcome, stage>>
  BY DEF SpeaksOfACall, asking, reader
<1>2. SaidByNow /\ IsAnswer(Spoken)
  BY <1>1 DEF AnswerInv, AnswerTravels, CanSpeak
<1>3. /\ Spoken.calls = said.calls /\ Spoken.done = said.done /\ Keys = DOMAIN said.calls
      /\ NextKey = Cardinality(DOMAIN said.calls) + 1
  BY DEF Spoken, Keys, NextKey
<1>4. DOMAIN said.calls = 1 .. NextKey - 1 /\ NextKey - 1 \in 0 .. MaxCalls
  BY <1>2, <1>3, CallsAreCounted, WireConstants
<1>5. ASSUME NEW key \in {NextKey} \cap 1 .. MaxCalls,
             wire' = <<[type |-> "open", key |-> key, id |-> IdOf(key)]>>,
             said' = [said EXCEPT !.calls = Insert(@, key, <<>>)]
      PROVE  AnswerInv' /\ IsAnswer(Spoken') /\ Precedes(Spoken, Spoken')
  <2> DEFINE line == [type |-> "open", key |-> key, id |-> IdOf(key)]
             more == Insert(said.calls, key, <<>>)
             event == CallStart(IdOf(key))
  <2>1. /\ line.type = "open" /\ line.key = key /\ line.id = IdOf(key) /\ wire' = <<line>>
        /\ event.type = "call_start" /\ event.id = IdOf(key)
    BY <1>5 DEF CallStart
  <2>2. said' = [said EXCEPT !.calls = more]
    BY <1>5
  <2>a. event = CallStart(line.id)
    OBVIOUS
  <2>3. more = Insert(Spoken.calls, key, <<>>) /\ key \in Nat
    BY <1>3, <1>5
  <2> HIDE DEF line, more, event
  <2>4. SaidByNow' /\ Spoken' = [Spoken EXCEPT !.calls = more]
    BY <1>1, <1>2, <2>2 DEF SaidByNow, Spoken
  <2>5. OpensACall(Spoken, event, Spoken')
    <3>1. /\ key - 1 \in 0 .. MaxCalls /\ DOMAIN Spoken.calls = 1 .. (key - 1) /\ key - 1 < MaxCalls
          /\ (key - 1) + 1 = key
      BY <1>3, <1>4, <1>5, WireConstants
    <3> QED
      BY <2>1, <2>3, <2>4, <3>1 DEF OpensACall
  <2>6. Adds(Spoken, event, Spoken')
    BY <2>1, <2>5 DEF Adds
  <2>7. LineBrings(line, Spoken, <<event>>, Spoken')
    BY <1>1, <2>1, <2>a, <2>3, <2>6, OneEventLeads DEF LineBrings
  <2> QED
    BY <1>1, <2>1, <2>4, <2>7, SpeakingKeepsTheAnswer
<1>6. ASSUME NEW key \in Keys \ ToSet(said.done),
             wire' = <<[type |-> "args", key |-> key, frag |-> Frag(key)]>>,
             said' = [said EXCEPT !.calls[key] = Append(@, Frag(key))]
      PROVE  AnswerInv' /\ IsAnswer(Spoken') /\ Precedes(Spoken, Spoken')
  <2> DEFINE line == [type |-> "args", key |-> key, frag |-> Frag(key)]
             more == Insert(said.calls, key, Append(said.calls[key], Frag(key)))
             event == CallDelta(IdOf(key), Frag(key))
  <2>1. /\ line.type = "args" /\ line.key = key /\ line.frag = Frag(key) /\ wire' = <<line>>
        /\ event.type = "call_delta" /\ event.id = IdOf(key) /\ event.frag = Frag(key)
    BY <1>6 DEF CallDelta
  <2>2. said' = [said EXCEPT !.calls = more]
    <3>1. PICK calls : calls = said.calls
      OBVIOUS
    <3>2. [calls EXCEPT ![key] = Append(@, Frag(key))] = Insert(calls, key, Append(calls[key], Frag(key)))
      BY <1>3, <1>6, <3>1 DEF Insert
    <3> QED
      BY <1>6, <3>1, <3>2
  <2>a. event = CallDelta(IdOf(line.key), line.frag)
    OBVIOUS
  <2>3. more = Insert(Spoken.calls, key, Append(Spoken.calls[key], Frag(key)))
    BY <1>3
  <2>b. Frag(key) \in Frags
    <3>1. PICK n \in 0 .. MaxCalls : said.calls \in [1 .. n -> Seq(Frags)]
      BY <1>2, <1>3 DEF IsAnswer
    <3>2. key \in 1 .. n
      BY <1>3, <1>6, <3>1
    <3>3. key \in Nat /\ said.calls[key] \in Seq(Frags)
      BY <3>1, <3>2
    <3>4. Len(said.calls[key]) \in Nat
      BY <3>3
    <3> QED
      BY <3>3, <3>4 DEF Frag, Frags
  <2> HIDE DEF line, more, event
  <2>4. SaidByNow' /\ Spoken' = [Spoken EXCEPT !.calls = more]
    BY <1>1, <1>2, <2>2 DEF SaidByNow, Spoken
  <2>5. AddsToACall(Spoken, event, Spoken')
    BY <1>3, <1>6, <2>1, <2>b, <2>3, <2>4 DEF AddsToACall
  <2>6. Adds(Spoken, event, Spoken')
    BY <2>1, <2>5 DEF Adds
  <2>7. LineBrings(line, Spoken, <<event>>, Spoken')
    BY <1>1, <1>3, <1>6, <2>1, <2>a, <2>6, OneEventLeads DEF LineBrings
  <2> QED
    BY <1>1, <2>1, <2>4, <2>7, SpeakingKeepsTheAnswer
<1>7. ASSUME NEW key \in Keys \ ToSet(said.done),
             wire' = <<[type |-> "close", key |-> key]>>,
             said' = [said EXCEPT !.done = Append(@, key)]
      PROVE  AnswerInv' /\ IsAnswer(Spoken') /\ Precedes(Spoken, Spoken')
  <2> DEFINE line == [type |-> "close", key |-> key]
             more == Append(said.done, key)
             event == CallEnd(IdOf(key))
  <2>1. /\ line.type = "close" /\ line.key = key /\ wire' = <<line>>
        /\ event.type = "call_end" /\ event.id = IdOf(key)
    BY <1>7 DEF CallEnd
  <2>2. said' = [said EXCEPT !.done = more]
    BY <1>7
  <2>3. more = Append(Spoken.done, key)
    BY <1>3
  <2>a. event = CallEnd(IdOf(line.key))
    OBVIOUS
  <2> HIDE DEF line, more, event
  <2>4. SaidByNow' /\ Spoken' = [Spoken EXCEPT !.done = more]
    BY <1>1, <1>2, <2>2 DEF SaidByNow, Spoken
  <2>5. ClosesACall(Spoken, event, Spoken')
    BY <1>3, <1>7, <2>1, <2>3, <2>4 DEF ClosesACall
  <2>6. Adds(Spoken, event, Spoken')
    BY <2>1, <2>5 DEF Adds
  <2>7. LineBrings(line, Spoken, <<event>>, Spoken')
    BY <1>1, <1>3, <1>7, <2>1, <2>a, <2>6, OneEventLeads DEF LineBrings
  <2> QED
    BY <1>1, <2>1, <2>4, <2>7, SpeakingKeepsTheAnswer
<1> QED
  BY <1>5, <1>6, <1>7 DEF SpeaksOfACall

(* Two events queued.                                                       *)
LEMMA OneAndOne ==
    ASSUME NEW x, NEW y
    PROVE  <<x>> \o <<y>> = <<x, y>>
<1> DEFINE l == <<x>> \o <<y>>
           r == <<x, y>>
<1>1. Len(l) = 2 /\ Len(r) = 2 /\ l[1] = x /\ l[2] = y /\ r[1] = x /\ r[2] = y
  OBVIOUS
<1>2. l = [i \in 1 .. 2 |-> l[i]] /\ r = [i \in 1 .. 2 |-> r[i]]
  OBVIOUS
<1> HIDE DEF l, r
<1>3. \A i \in 1 .. 2 : l[i] = r[i]
  BY <1>1
<1>4. l = r
  BY <1>2, <1>3
<1> QED
  BY <1>4 DEF l, r

(* A call opened with its first arguments is one opened and then added to.  *)
LEMMA DeltaAfterStart ==
    ASSUME NEW n \in Nat, NEW calls, DOMAIN calls = 1 .. n, NEW f
    PROVE  LET begun == Insert(calls, n + 1, <<>>)
           IN  Insert(begun, n + 1, Append(begun[n + 1], f)) = Insert(calls, n + 1, <<>> \o <<f>>)
<1> DEFINE begun == Insert(calls, n + 1, <<>>)
<1>1. begun[n + 1] = <<>> /\ Append(<<>>, f) = <<f>> /\ <<>> \o <<f>> = <<f>>
  BY DEF Insert
<1>2. Insert(begun, n + 1, <<f>>) = Insert(calls, n + 1, <<f>>)
  BY DEF Insert
<1> QED
  BY <1>1, <1>2

\* What the entry makes of m.
With(m, e) == [m EXCEPT !.calls = WithEntry(m.calls, e)]

(* What the gateway puts in an entry is what the entry brings.              *)
LEMMA EntriesAreSound ==
    ASSUME NEW m, IsAnswer(m), NEW e \in Entries(m.calls)
    PROVE  \E events : EntryBrings(e, m, events, With(m, e))
<1> DEFINE key == Cardinality(DOMAIN m.calls) + 1
           g == With(m, e)
<1>1. DOMAIN m.calls = 1 .. key - 1 /\ key - 1 \in 0 .. MaxCalls /\ key \in Nat
  BY CallsAreCounted, WireConstants
<1>2. \/ \E a \in {<<>>, <<<<key, 0>>>>} :
            key \in 1 .. MaxCalls /\ e = [key |-> key, id |-> <<IdOf(key)>>, args |-> a]
      \/ \E k \in DOMAIN m.calls : 
            e = [key |-> k, id |-> <<>>, args |-> <<<<k, Len(m.calls[k])>>>>]
  BY DEF Entries
<1>3. \A k \in DOMAIN m.calls : <<k, Len(m.calls[k])>> \in Frags
  <2>1. PICK n \in 0 .. MaxCalls : m.calls \in [1 .. n -> Seq(Frags)]
    BY DEF IsAnswer
  <2> QED
    BY <2>1 DEF Frags
<1> HIDE DEF key
<1>4. g.done = m.done /\ g.stop = m.stop /\ g = [m EXCEPT !.calls = WithEntry(m.calls, e)]
      /\ g.calls = WithEntry(m.calls, e)
  BY AnswersAreRecords DEF With
<1> HIDE DEF g
<1>5. ASSUME NEW k \in DOMAIN m.calls, e = [key |-> k, id |-> <<>>, args |-> <<<<k, Len(m.calls[k])>>>>]
      PROVE  \E events : EntryBrings(e, m, events, g)
  <2> DEFINE f == <<k, Len(m.calls[k])>>
             event == CallDelta(IdOf(k), f)
  <2>1. f \in Frags /\ e.key = k /\ e.id = <<>> /\ e.args = <<f>>
    BY <1>3, <1>5
  <2>2. event.type = "call_delta" /\ event.id = IdOf(k) /\ event.frag = f
    BY DEF CallDelta
  <2>a. event = CallDelta(IdOf(e.key), f)
    BY <2>1
  <2> HIDE DEF f, event
  <2>3. m.calls[k] \o <<f>> = Append(m.calls[k], f)
    <3>1. PICK n \in 0 .. MaxCalls : m.calls \in [1 .. n -> Seq(Frags)]
      BY DEF IsAnswer
    <3> QED
      BY <2>1, <3>1
  <2>4. WithEntry(m.calls, e) = Insert(m.calls, k, Append(m.calls[k], f))
    BY <2>1, <2>3 DEF WithEntry
  <2>5. g = [m EXCEPT !.calls = Insert(@, k, Append(@[k], f))]
    BY <1>4, <2>4
  <2>6. Adds(m, event, g)
    BY <2>1, <2>2, <2>5 DEF Adds, AddsToACall
  <2>7. DOMAIN g.calls = DOMAIN m.calls
    BY <1>4, <2>4 DEF Insert
  <2>8. EntryBrings(e, m, <<event>>, g)
    BY <1>4, <2>1, <2>a, <2>6, <2>7, OneEventLeads DEF EntryBrings
  <2> QED
    BY <2>8
<1>6. ASSUME NEW a \in {<<>>, <<<<key, 0>>>>}, key \in 1 .. MaxCalls,
             e = [key |-> key, id |-> <<IdOf(key)>>, args |-> a]
      PROVE  \E events : EntryBrings(e, m, events, g)
  <2> DEFINE start == CallStart(IdOf(key))
             more == Insert(m.calls, key, <<>>)
             x == [m EXCEPT !.calls = more]
  <2>1. e.key = key /\ e.id = <<IdOf(key)>> /\ e.args = a
    BY <1>6
  <2>2. start.type = "call_start" /\ start.id = IdOf(key)
    BY DEF CallStart
  <2>3. start = CallStart(IdOf(e.key))
    BY <2>1
  <2>4. x = [m EXCEPT !.calls = Insert(@, key, <<>>)] /\ x.calls = more
    BY AnswersAreRecords
  <2> HIDE DEF start, x
  <2>5. Adds(m, start, x)
    <3>1. /\ key - 1 \in 0 .. MaxCalls /\ DOMAIN m.calls = 1 .. (key - 1) /\ key - 1 < MaxCalls
          /\ (key - 1) + 1 = key
      BY <1>1, <1>6, WireConstants
    <3>2. OpensACall(m, start, x)
      BY <2>2, <2>4, <3>1 DEF OpensACall
    <3> QED
      BY <2>2, <3>2 DEF Adds
  <2>6. IsNext(m, e.key)
    BY <1>1, <1>6, <2>1 DEF IsNext
  <2>7. DOMAIN g.calls = 1 .. e.key
    BY <1>1, <1>4, <2>1 DEF WithEntry, Insert
  <2>8. CASE a = <<>>
    <3>1. <<>> \o <<>> = <<>>
      OBVIOUS
    <3>2. WithEntry(m.calls, e) = more
      BY <2>1, <2>8, <3>1 DEF WithEntry
    <3>3. g = x
      BY <1>4, <3>2 DEF x
    <3>4. EntryBrings(e, m, <<start>>, g)
      BY <1>4, <2>1, <2>3, <2>5, <2>6, <2>7, <2>8, <3>3, OneEventLeads DEF EntryBrings
    <3> QED
      BY <3>4
  <2>9. CASE a = <<<<key, 0>>>>
    <3> DEFINE f == <<key, 0>>
               event == CallDelta(IdOf(key), f)
    <3>1. f \in Frags /\ e.args = <<f>>
      BY <1>1, <2>1, <2>9 DEF Frags
    <3>2. event.type = "call_delta" /\ event.id = IdOf(key) /\ event.frag = f
      BY DEF CallDelta
    <3>3. event = CallDelta(IdOf(e.key), f)
      BY <2>1
    <3> HIDE DEF f, event
    <3>4. WithEntry(m.calls, e) = Insert(more, key, Append(more[key], f))
      <4>1. WithEntry(m.calls, e) = Insert(m.calls, key, <<>> \o <<f>>)
        BY <2>1, <3>1 DEF WithEntry
      <4>2. key - 1 \in Nat /\ (key - 1) + 1 = key
        BY <1>1
      <4> QED
        BY <1>1, <4>1, <4>2, DeltaAfterStart
    <3>5. key \in DOMAIN x.calls
      BY <2>4 DEF Insert
    <3>6. g = [x EXCEPT !.calls = Insert(@, key, Append(@[key], f))]
      <4> DEFINE longer == Insert(more, key, Append(more[key], f))
      <4>1. g = [m EXCEPT !.calls = longer]
        BY <1>4, <3>4
      <4> HIDE DEF longer, more
      <4>2. [x EXCEPT !.calls = longer] = [m EXCEPT !.calls = longer]
        BY FieldReplaced DEF x
      <4> QED
        BY <2>4, <4>1, <4>2 DEF longer
    <3>7. Adds(x, event, g)
      BY <3>1, <3>2, <3>5, <3>6 DEF Adds, AddsToACall
    <3>8. Leads(m, <<start>> \o <<event>>, g)
      BY <2>5, <3>7, OneEventLeads, PathsJoin
    <3>9. <<start>> \o <<event>> = <<start, event>>
      BY OneAndOne
    <3>10. EntryBrings(e, m, <<start, event>>, g)
      BY <1>4, <2>1, <2>3, <2>6, <2>7, <3>1, <3>3, <3>8, <3>9 DEF EntryBrings
    <3> QED
      BY <3>10
  <2> QED
    BY <1>6, <2>8, <2>9
<1> QED
  BY <1>2, <1>5, <1>6 DEF g

(* A chunk of one or two entries.                                           *)
LEMMA ChunkKeepsTheAnswer ==
    ASSUME AnswerInv, SpeaksEntries
    PROVE  AnswerInv' /\ IsAnswer(Spoken') /\ Precedes(Spoken, Spoken')
<1>1. /\ CanSpeak /\ stage = "speaking" /\ dialect = "chat"
      /\ UNCHANGED <<dialect, phase, body, dec, turn, finished, outcome, stage>>
  BY DEF SpeaksEntries, asking, reader
<1>2. SaidByNow /\ IsAnswer(Spoken) /\ Spoken.stop = "absent"
  BY <1>1 DEF AnswerInv, AnswerTravels, CanSpeak, SaidByNow, Spoken
<1>3. PICK one \in Entries(said.calls) :
        \/ /\ wire' = <<[type |-> "calls", entries |-> <<one>>]>>
           /\ said' = [said EXCEPT !.calls = WithEntry(said.calls, one)]
        \/ \E two \in Entries(WithEntry(said.calls, one)) :
             /\ wire' = <<[type |-> "calls", entries |-> <<one, two>>]>>
             /\ said' = [said EXCEPT !.calls = WithEntry(WithEntry(said.calls, one), two)]
  BY DEF SpeaksEntries
<1> DEFINE x == With(Spoken, one)
<1>4. Spoken.calls = said.calls
  BY DEF Spoken
<1>5. PICK first : EntryBrings(one, Spoken, first, x)
  BY <1>2, <1>3, <1>4, EntriesAreSound
<1>6. IsAnswer(x) /\ x.calls = WithEntry(said.calls, one)
  <2>1. IsAnswer(x)
    BY <1>2, <1>5, PathsAdd DEF EntryBrings
  <2>2. x.calls = WithEntry(said.calls, one)
    BY <1>2, <1>4, AnswersAreRecords DEF With
  <2> QED
    BY <2>1, <2>2
<1>7. ASSUME NEW calls, said' = [said EXCEPT !.calls = calls]
      PROVE  SaidByNow' /\ Spoken' = [Spoken EXCEPT !.calls = calls]
  BY <1>1, <1>2, <1>7 DEF SaidByNow, Spoken
<1>8. CASE /\ wire' = <<[type |-> "calls", entries |-> <<one>>]>>
           /\ said' = [said EXCEPT !.calls = WithEntry(said.calls, one)]
  <2> DEFINE line == [type |-> "calls", entries |-> <<one>>]
  <2>1. line.type = "calls" /\ line.entries = <<one>> /\ wire' = <<line>>
    BY <1>8
  <2>2. SaidByNow' /\ Spoken' = x
    BY <1>4, <1>7, <1>8 DEF With
  <2> HIDE DEF line, x
  <2>3. EntriesBring(line.entries, Spoken, first, Spoken')
    BY <1>5, <2>1, <2>2 DEF EntriesBring
  <2>4. LineBrings(line, Spoken, first, Spoken')
    BY <1>1, <1>2, <1>5, <2>1, <2>2, <2>3 DEF LineBrings, EntryBrings
  <2> QED
    BY <1>1, <2>1, <2>2, <2>4, SpeakingKeepsTheAnswer
<1>9. ASSUME NEW two \in Entries(WithEntry(said.calls, one)),
             wire' = <<[type |-> "calls", entries |-> <<one, two>>]>>,
             said' = [said EXCEPT !.calls = WithEntry(WithEntry(said.calls, one), two)]
      PROVE  AnswerInv' /\ IsAnswer(Spoken') /\ Precedes(Spoken, Spoken')
  <2> DEFINE line == [type |-> "calls", entries |-> <<one, two>>]
             g == With(x, two)
  <2>1. line.type = "calls" /\ line.entries = <<one, two>> /\ wire' = <<line>>
    BY <1>9
  <2>2. SaidByNow' /\ Spoken' = [Spoken EXCEPT !.calls = WithEntry(x.calls, two)]
    BY <1>6, <1>7, <1>9
  <2>3. Spoken' = g
    <3> DEFINE more == WithEntry(x.calls, two)
               before == Spoken.calls
               calls == WithEntry(before, one)
    <3>1. g = [x EXCEPT !.calls = more] /\ x = [Spoken EXCEPT !.calls = calls]
      BY DEF With
    <3> HIDE DEF more, x, g, calls, before
    <3>2. [x EXCEPT !.calls = more] = [Spoken EXCEPT !.calls = more]
      BY <1>2, <3>1, FieldReplaced
    <3> QED
      BY <2>2, <3>1, <3>2 DEF more
  <2>4. PICK second : EntryBrings(two, x, second, g)
    BY <1>6, <1>9, EntriesAreSound
  <2> HIDE DEF line, x, g
  <2>5. EntriesBring(line.entries, Spoken, first \o second, Spoken')
    BY <1>5, <2>1, <2>3, <2>4 DEF EntriesBring
  <2>6. Leads(Spoken, first \o second, Spoken')
    BY <1>5, <2>3, <2>4, PathsJoin DEF EntryBrings
  <2>7. LineBrings(line, Spoken, first \o second, Spoken')
    BY <1>1, <1>2, <2>1, <2>5, <2>6 DEF LineBrings
  <2> QED
    BY <1>1, <2>1, <2>2, <2>7, SpeakingKeepsTheAnswer
<1> QED
  BY <1>3, <1>8, <1>9

(* The first i calls, closed one by one.                                    *)
LEMMA FirstOnesAre ==
    ASSUME NEW n \in Nat, NEW i \in 1 .. n
    PROVE  /\ Append([k \in 1 .. i - 1 |-> k], i) = [k \in 1 .. i |-> k]
           /\ i \notin ToSet([k \in 1 .. i - 1 |-> k])
<1> DEFINE s == [k \in 1 .. i - 1 |-> k]
           l == Append(s, i)
<1>1. s \in Seq(Nat) /\ Len(s) = i - 1 /\ \A k \in 1 .. i - 1 : s[k] = k
  <2>1. i - 1 \in Nat
    OBVIOUS
  <2> QED
    BY <2>1
<1>2. i \notin ToSet(s)
  BY <1>1 DEF ToSet
<1>3. l = [k \in 1 .. i |-> k]
  <2>1. Len(l) = i /\ l[i] = i /\ \A k \in 1 .. i - 1 : l[k] = s[k]
    BY <1>1
  <2>2. l = [k \in 1 .. i |-> l[k]]
    BY <1>1, <2>1
  <2> HIDE DEF l, s
  <2>3. \A k \in 1 .. i : l[k] = k
    BY <1>1, <2>1
  <2> QED
    BY <2>2, <2>3
<1> QED
  BY <1>2, <1>3

(* The chunk with finish_reason closes every call, in the order they began. *)
LEMMA AllAreClosed ==
    ASSUME NEW m, IsAnswer(m), m.done = <<>>, NEW n \in Nat, DOMAIN m.calls = 1 .. n
    PROVE  Leads(m, [i \in 1 .. n |-> CallEnd(IdOf(i))], [m EXCEPT !.done = [k \in 1 .. n |-> k]])
<1> DEFINE ends == [i \in 1 .. n |-> CallEnd(IdOf(i))]
           upTo(i) == [k \in 1 .. i |-> k]
           p == [i \in 0 .. n |-> [m EXCEPT !.done = upTo(i)]]
           g == [m EXCEPT !.done = upTo(n)]
<1>1. Len(ends) = n /\ IsSequence(ends) /\ \A i \in 1 .. n : ends[i] = CallEnd(IdOf(i))
  BY DEF IsSequence
<1>2. \A i \in 0 .. n : p[i] = [m EXCEPT !.done = upTo(i)]
  OBVIOUS
<1>3. p[0] = m
  <2>1. upTo(0) = m.done
    OBVIOUS
  <2>2. [m EXCEPT !.done = m.done] = m
    BY AnswersAreRecords, FieldReplaced DEF IsAnswer
  <2> QED
    BY <1>2, <2>1, <2>2
<1>4. p[n] = g
  BY <1>2
<1> HIDE DEF p, ends, g
<1>5. ASSUME NEW i \in 1 .. n
      PROVE  Adds(p[i - 1], ends[i], p[i])
  <2> DEFINE before == upTo(i - 1)
             after == upTo(i)
             a == p[i - 1]
             b == p[i]
  <2>1. after = Append(before, i) /\ i \notin ToSet(before)
    BY FirstOnesAre
  <2>a. i - 1 \in 0 .. n /\ i \in 0 .. n
    OBVIOUS
  <2> HIDE DEF upTo
  <2>2. a = [m EXCEPT !.done = before] /\ b = [m EXCEPT !.done = after]
    BY <1>2, <2>a
  <2> HIDE DEF before, after, a, b
  <2>3. /\ a = [text |-> m.text, reasoning |-> m.reasoning, calls |-> m.calls,
                done |-> before, stop |-> m.stop, sealed |-> Unsealed]
        /\ b = [text |-> m.text, reasoning |-> m.reasoning, calls |-> m.calls,
                done |-> after, stop |-> m.stop, sealed |-> Unsealed]
    BY <2>2, FieldReplaced
  <2>4. b = [a EXCEPT !.done = after] /\ a.calls = m.calls /\ a.done = before
    BY <2>3
  <2>5. ends[i].type = "call_end" /\ ends[i].id = IdOf(i)
    BY <1>1 DEF CallEnd
  <2>6. ClosesACall(a, ends[i], b)
    BY <2>1, <2>4, <2>5 DEF ClosesACall
  <2> QED
    BY <2>5, <2>6 DEF Adds, a, b
<1>6. IsPath(p, m, ends, g)
  BY <1>1, <1>3, <1>4, <1>5 DEF IsPath
<1> QED
  BY <1>1, <1>6 DEF Leads, ends, g

(* The turn stops, by the word its dialect has for the reason.              *)
LEMMA StopsKeepsTheAnswer ==
    ASSUME AnswerInv, Stops
    PROVE  AnswerInv' /\ IsAnswer(Spoken') /\ Precedes(Spoken, Spoken')
<1>1. /\ CanSpeak /\ stage = "speaking"
      /\ stage' = IF dialect = "responses" THEN "sealed" ELSE "stopped"
      /\ UNCHANGED <<dialect, phase, body, dec, turn, finished, outcome>>
  BY DEF Stops, asking, reader
<1>2. /\ SaidByNow /\ IsAnswer(Spoken) /\ Spoken.stop = "absent" /\ dialect \in Dialects
      /\ dialect = "chat" => said.done = <<>>
  BY <1>1 DEF AnswerInv, AnswerTravels, CanSpeak, SaidByNow, Spoken
<1>3. PICK reason \in Reasons :
         LET word == ReasonOnTheLine(reason)
             closed == IF dialect = "chat" THEN [k \in 1 .. Cardinality(Keys) |-> k] ELSE <<>>
         IN  /\ said' = [said EXCEPT !.stop = reason, !.done = @ \o closed,
                                     !.sealed = (dialect = "responses")]
             /\ \/ /\ dialect = "messages"
                   /\ wire' = <<[type |-> "stop", reason |-> word, usage |-> CountOf(0, 2)]>>
                   /\ counted' = CountOf(2, 2)
                \/ /\ dialect = "chat"
                   /\ wire' = <<[type |-> "stop", reason |-> word]>>
                   /\ UNCHANGED counted
                \/ /\ dialect = "responses"
                   /\ wire' = <<[type |-> "stop", reason |-> word, usage |-> CountOf(2, 2)]>>
                   /\ counted' = CountOf(2, 2)
  BY DEF Stops
<1>4. reason \in Words
  BY DEF Reasons, Words
<1> DEFINE word == ReasonOnTheLine(reason)
           stop == IF dialect = "responses" /\ reason = "tools" THEN "end" ELSE reason
           event == Ended(stop)
           closed == IF dialect = "chat" THEN [k \in 1 .. Cardinality(Keys) |-> k] ELSE <<>>
           done == said.done \o closed
<1>5. PICK line : /\ line.type = "stop" /\ line.reason = word /\ wire' = <<line>>
  <2> DEFINE w == word
             c == CountOf(0, 2)
             d == CountOf(2, 2)
  <2>1. \/ wire' = <<[type |-> "stop", reason |-> w, usage |-> c]>>
        \/ wire' = <<[type |-> "stop", reason |-> w]>>
        \/ wire' = <<[type |-> "stop", reason |-> w, usage |-> d]>>
    BY <1>3
  <2> HIDE DEF w, c, d
  <2>2. \E line : line.type = "stop" /\ line.reason = w /\ wire' = <<line>>
    BY <2>1
  <2> QED
    BY <2>2 DEF w
<1>6. /\ dialect \in {"messages", "chat"} => word = stop
      /\ dialect = "responses" => FinishReason(word) = stop
  BY <1>4 DEF ReasonOnTheLine, FinishReason, Words
<1>7. event.type = "end" /\ event.reason = stop /\ stop \in Words
  BY <1>4 DEF Ended, Words
<1>a. /\ dialect # "responses" => event = Ended(line.reason)
      /\ dialect = "responses" => event = Ended(FinishReason(line.reason))
  BY <1>2, <1>5, <1>6 DEF Dialects
<1> DEFINE sealed == (dialect = "responses")
<1>8. said' = [text |-> said.text, reasoning |-> said.reasoning, calls |-> said.calls,
               done |-> done, stop |-> reason, sealed |-> sealed]
  <2>1. PICK s : s = sealed
    OBVIOUS
  <2>2. said' = [said EXCEPT !.stop = reason, !.done = @ \o closed, !.sealed = s]
    BY <1>3, <2>1
  <2> HIDE DEF done, sealed, closed
  <2>3. said' = [text |-> said.text, reasoning |-> said.reasoning, calls |-> said.calls,
                 done |-> said.done \o closed, stop |-> reason, sealed |-> s]
    BY <1>2, <2>2 DEF SaidByNow
  <2> QED
    BY <2>1, <2>3 DEF done
<1>9. SaidByNow'
  <2>1. PICK s : s = sealed
    OBVIOUS
  <2>2. said' = [text |-> said.text, reasoning |-> said.reasoning, calls |-> said.calls,
                 done |-> done, stop |-> reason, sealed |-> s]
    BY <1>8, <2>1
  <2> HIDE DEF done, sealed
  <2>3. said' = [text |-> said'.text, reasoning |-> said'.reasoning, calls |-> said'.calls,
                 done |-> said'.done, stop |-> said'.stop, sealed |-> said'.sealed]
    BY <2>2
  <2>4. said'.sealed = s
    BY <2>2
  <2>5. CASE dialect = "responses"
    <3>1. said'.sealed /\ stage' = "sealed"
      BY <1>1, <2>1, <2>4, <2>5 DEF sealed
    <3> QED
      BY <2>3, <3>1 DEF SaidByNow
  <2>6. CASE dialect # "responses"
    <3>1. ~said'.sealed /\ stage' = "stopped"
      BY <1>1, <2>1, <2>4, <2>6 DEF sealed
    <3> QED
      BY <2>3, <3>1 DEF SaidByNow
  <2> QED
    BY <2>5, <2>6
<1> DEFINE x == [Spoken EXCEPT !.done = done]
<1>10. Spoken' = [x EXCEPT !.stop = stop] /\ Spoken.stop = x.stop
       /\ x.calls = Spoken.calls /\ x.done = done
  <2>1. /\ said'.text = said.text /\ said'.reasoning = said.reasoning
        /\ said'.calls = said.calls /\ said'.done = done /\ said'.stop = reason
    BY <1>8
  <2> HIDE DEF done
  <2>2. Spoken' = [text |-> said.text, reasoning |-> said.reasoning, calls |-> said.calls,
                   done |-> done, stop |-> stop, sealed |-> Unsealed]
    BY <1>1, <2>1 DEF Spoken
  <2> HIDE DEF stop
  <2>3. /\ Spoken.text = said.text /\ Spoken.reasoning = said.reasoning
        /\ Spoken.calls = said.calls
    BY DEF Spoken
  <2>4. x = [text |-> said.text, reasoning |-> said.reasoning, calls |-> said.calls,
             done |-> done, stop |-> Spoken.stop, sealed |-> Unsealed]
    <3>1. [Spoken EXCEPT !.done = done] =
            [text |-> Spoken.text, reasoning |-> Spoken.reasoning, calls |-> Spoken.calls,
             done |-> done, stop |-> Spoken.stop, sealed |-> Unsealed]
      BY <1>2, FieldReplaced
    <3> HIDE DEF x
    <3> QED
      BY <2>3, <3>1 DEF x
  <2> HIDE DEF x
  <2> QED
    BY <2>2, <2>3, <2>4
<1> HIDE DEF event, stop, word, x, done
<1>11. x.stop = "absent" => Adds(x, event, Spoken')
  BY <1>7, <1>10 DEF Adds
<1>12. Leads(x, <<event>>, Spoken')
  BY <1>2, <1>10, <1>11, OneEventLeads
<1>13. CASE dialect = "chat"
  <2> DEFINE n == Cardinality(Keys)
             ends == [i \in 1 .. n |-> CallEnd(IdOf(i))]
  <2>1. Spoken.calls = said.calls /\ DOMAIN Spoken.calls = 1 .. n /\ n \in Nat
    BY <1>2, CallsAreCounted, WireConstants DEF Spoken, Keys
  <2>2. done = [k \in 1 .. n |-> k]
    <3>1. [k \in 1 .. n |-> k] \in Seq(Nat)
      BY <2>1
    <3>2. done = <<>> \o [k \in 1 .. n |-> k]
      BY <1>2, <1>13 DEF done
    <3> QED
      BY <3>1, <3>2
  <2> HIDE DEF n
  <2>3. Spoken.done = <<>>
    BY <1>2, <1>13 DEF Spoken
  <2>4. Leads(Spoken, ends, x)
    BY <1>2, <2>1, <2>2, <2>3, AllAreClosed DEF x
  <2>5. Leads(Spoken, ends \o <<event>>, Spoken')
    BY <1>12, <2>4, PathsJoin
  <2>6. DOMAIN (Spoken').calls = DOMAIN Spoken.calls /\ (Spoken').stop # "absent"
    <3>1. IsAnswer(x)
      BY <1>2, <2>4, PathsAdd
    <3> QED
      BY <1>7, <1>10, <3>1, AnswersAreRecords DEF Words
  <2>7. LineBrings(line, Spoken, ends \o <<event>>, Spoken')
    <3>1. ends \o <<event>> = [i \in 1 .. n |-> CallEnd(IdOf(i))] \o <<Ended(line.reason)>>
      BY <1>a, <1>13
    <3> HIDE DEF ends
    <3> QED
      BY <1>2, <1>5, <1>13, <2>1, <2>5, <2>6, <3>1 DEF LineBrings
  <2> QED
    BY <1>1, <1>5, <1>9, <2>7, SpeakingKeepsTheAnswer
<1>14. CASE dialect # "chat"
  <2>1. done = Spoken.done
    <3>1. Spoken.done = said.done /\ said.done \in Seq(DOMAIN Spoken.calls)
      BY <1>2 DEF IsAnswer, Spoken
    <3>2. done = said.done \o <<>>
      BY <1>14 DEF done
    <3> QED
      BY <3>1, <3>2
  <2>2. x = Spoken
    BY <1>2, <2>1, FieldReplaced DEF x, IsAnswer
  <2>3. LineBrings(line, Spoken, <<event>>, Spoken')
    BY <1>2, <1>5, <1>a, <1>12, <1>14, <2>2 DEF LineBrings, Dialects
  <2> QED
    BY <1>1, <1>5, <1>9, <2>3, SpeakingKeepsTheAnswer
<1> QED
  BY <1>13, <1>14

(* What was heard is a beginning of what was said.                         *)
LEMMA HeardIsABeginning ==
    ASSUME AnswerInv, phase # "over"
    PROVE  /\ IsAnswer(HeardIn(turn)) /\ IsAnswer(Spoken)
           /\ Precedes(HeardIn(turn), Spoken)
<1>1. IsAnswer(HeardIn(turn)) /\ AnswerTravels
  BY HeardIs DEF AnswerInv
<1>2. PICK m : TurnHas(m) /\ WireBrings(m)
  BY <1>1 DEF AnswerTravels
<1>3. IsAnswer(m) /\ Precedes(HeardIn(turn), m)
  BY <1>1, <1>2, PathsAdd DEF TurnHas
<1>4. IsAnswer(Spoken) /\ Precedes(m, Spoken)
  <2>1. CASE m = Spoken
    BY <1>3, <2>1, AnswerPrecedesItself
  <2>2. ASSUME NEW line, NEW events, LineBrings(line, m, events, Spoken)
        PROVE  IsAnswer(Spoken) /\ Precedes(m, Spoken)
    <3>1. Leads(m, events, Spoken)
      BY <2>2 DEF LineBrings
    <3> QED
      BY <1>3, <3>1, PathsAdd
  <2> QED
    BY <1>2, <2>1, <2>2 DEF WireBrings
<1> QED
  BY <1>1, <1>3, <1>4, AnswersOnlyGrow

(* Whatever the dialect and the line, the decoder reads what it brings.     *)
LEMMA LinesAreRead ==
    ASSUME dialect \in Dialects, NEW d, NEW m, IsAnswer(m), HasRead(d, m), d.pending = <<>>,
           NEW line, NEW events, NEW g, LineBrings(line, m, events, g),
           dialect = "chat" => d.announced \/ line.type \in {"start", "error", "garbage"}
    PROVE  /\ Reads(Decode(dialect, d, line), m, g)
           /\ dialect = "chat" /\ ~Decode(dialect, d, line).failed =>
                Decode(dialect, d, line).dec.announced
<1>1. CASE dialect = "messages"
  BY <1>1, MessagesAreRead DEF Decode
<1>2. CASE dialect = "chat"
  BY <1>2, ChatIsRead DEF Decode
<1>3. CASE dialect = "responses"
  BY <1>3, ResponsesAreRead DEF Decode
<1> QED
  BY <1>1, <1>2, <1>3 DEF Dialects

(* The first of a queue and the rest of it.                                 *)
LEMMA FirstIsFirst ==
    ASSUME NEW event, NEW rest, IsSequence(rest)
    PROVE  /\ <<event>> \o rest # <<>>
           /\ Head(<<event>> \o rest) = event /\ Tail(<<event>> \o rest) = rest
<1>1. IsSequence(<<event>>)
  BY SequencesAre
<1>2. PICK E : <<event>> \in Seq(E) /\ rest \in Seq(E)
  BY <1>1, SequencesJoin
<1>3. Len(<<event>>) = 1 /\ Len(<<event>> \o rest) = 1 + Len(rest)
  BY <1>2
<1> QED
  BY <1>2, <1>3

(* A line is read: what was on its way is now heard or queued.              *)
LEMMA LineKeepsTheAnswer ==
    ASSUME AnswerInv, ReadsLine
    PROVE  /\ AnswerInv' /\ IsAnswer(HeardIn(turn'))
           /\ Precedes(HeardIn(turn), HeardIn(turn'))
           /\ phase' = "over" => turn' = turn /\ outcome' = "malformed"
           /\ phase' # "over" => outcome' = outcome
<1> DEFINE read == Decode(dialect, dec, Head(wire))
           h == HeardIn(turn)
<1>1. /\ phase = "stream" /\ Drained.out = <<>> /\ ~finished /\ wire # <<>>
      /\ dec' = read.dec
      /\ turn' = IF read.out = <<>> THEN turn ELSE Absorb(turn, Head(read.out))
      /\ IF read.failed THEN phase' = "over" /\ outcome' = "malformed"
         ELSE phase' = phase /\ outcome' = outcome
      /\ wire' = <<>>
      /\ UNCHANGED <<dialect, said, stage, body, finished>>
  BY DEF ReadsLine, End, asking, gateway
<1>2. AnswerTravels /\ IsTurnOfCalls(turn) /\ IsAnswer(h)
  BY <1>1, HeardIs DEF AnswerInv
<1>3. PICK m : TurnHas(m) /\ WireBrings(m)
  BY <1>2 DEF AnswerTravels
<1>4. PICK line, events : wire = <<line>> /\ LineBrings(line, m, events, Spoken)
  BY <1>1, <1>3 DEF WireBrings
<1>5. dec.pending = <<>>
  <2>1. CASE dialect = "chat"
    BY <1>1, <2>1 DEF Drained, Drain, PopPending, Emit
  <2>2. CASE dialect # "chat"
    BY <1>3, <2>2 DEF TurnHas, HasRead
  <2> QED
    BY <2>1, <2>2
<1>6. m = h /\ HasRead(dec, m) /\ IsAnswer(m)
  BY <1>2, <1>3, <1>5, NothingLeadsOnlyHere DEF TurnHas
<1>7. Head(wire) = line
  BY <1>4
<1>8. dialect = "chat" => dec.announced \/ line.type \in {"start", "error", "garbage"}
  BY <1>1, <1>2, <1>7 DEF AnswerTravels, ChatBegins
<1>9. Reads(read, m, Spoken) /\ (dialect = "chat" /\ ~read.failed => read.dec.announced)
  BY <1>2, <1>4, <1>5, <1>6, <1>7, <1>8, LinesAreRead DEF AnswerTravels
<1>10. Spoken' = Spoken
  BY <1>1 DEF Spoken
<1> HIDE DEF read, h
<1>11. CASE read.failed
  <2>1. turn' = turn /\ phase' = "over" /\ outcome' = "malformed"
    BY <1>1, <1>9, <1>11 DEF Reads
  <2>2. AnswerInv'
    BY <1>2, <2>1 DEF AnswerInv
  <2> QED
    BY <1>2, <2>1, <2>2, AnswerPrecedesItself DEF h
<1>12. CASE ~read.failed
  <2>1. /\ HasRead(read.dec, Spoken) /\ Leads(m, read.out \o read.dec.pending, Spoken)
        /\ read.out = <<>> \/ \E event : read.out = <<event>>
        /\ IsSequence(read.dec.pending)
    BY <1>9, <1>12 DEF Reads
  <2>2. /\ IsTurnOfCalls(turn') /\ Leads(HeardIn(turn'), read.dec.pending, Spoken)
        /\ IsAnswer(HeardIn(turn')) /\ Precedes(h, HeardIn(turn'))
    <3>1. CASE read.out = <<>>
      <4>1. <<>> \o read.dec.pending = read.dec.pending
        BY <2>1, SequencesAre
      <4> QED
        BY <1>1, <1>2, <1>6, <2>1, <3>1, <4>1, AnswerPrecedesItself DEF h
    <3>2. ASSUME NEW event, read.out = <<event>>
          PROVE  /\ IsTurnOfCalls(turn') /\ Leads(HeardIn(turn'), read.dec.pending, Spoken)
                 /\ IsAnswer(HeardIn(turn')) /\ Precedes(h, HeardIn(turn'))
      <4> DEFINE es == <<event>> \o read.dec.pending
      <4>1. es # <<>> /\ Head(es) = event /\ Tail(es) = read.dec.pending
        BY <2>1, FirstIsFirst
      <4>2. Leads(h, es, Spoken)
        BY <1>6, <2>1, <3>2
      <4> HIDE DEF es
      <4>3. PICK x : Adds(h, event, x) /\ Leads(x, read.dec.pending, Spoken)
        BY <4>1, <4>2, FirstEventLeads
      <4>4. turn' = Absorb(turn, event)
        BY <1>1, <3>2
      <4>5. IsTurnOfCalls(turn') /\ HeardIn(turn') = x
        BY <1>2, <4>3, <4>4, EventsAreHeard DEF h
      <4>6. IsAnswer(x) /\ Precedes(h, x)
        BY <1>2, <4>3, EventsAdd
      <4> QED
        BY <4>3, <4>5, <4>6
    <3> QED
      BY <2>1, <3>1, <3>2
  <2>3. PICK n : n = Spoken
    OBVIOUS
  <2>4. TurnHas(n)'
    BY <1>1, <2>1, <2>2, <2>3 DEF TurnHas, HasRead, Known
  <2>5. WireBrings(n)'
    BY <1>1, <1>10, <2>3 DEF WireBrings
  <2>6. SaidByNow'
    BY <1>1, <1>2 DEF SaidByNow, AnswerTravels
  <2>7. phase' = "stream" /\ outcome' = outcome
    BY <1>1, <1>12
  <2>8. AnswerTravels'
    <3>1. (\E k : TurnHas(k) /\ WireBrings(k))'
      BY <2>4, <2>5
    <3>2. IsAnswer(Spoken)' /\ dialect' \in Dialects /\ outcome' = "none" /\ ~finished'
      BY <1>1, <1>2, <1>10, <2>7 DEF AnswerTravels
    <3>3. dialect' = "chat" => ChatBegins'
      BY <1>1, <1>9, <1>12 DEF ChatBegins
    <3> QED
      BY <2>6, <2>7, <3>1, <3>2, <3>3 DEF AnswerTravels
  <2> QED
    BY <2>2, <2>7, <2>8 DEF AnswerInv, h
<1> QED
  BY <1>11, <1>12

(* A line on its way stays as it is.                                        *)
LEMMA WireStays ==
    ASSUME NEW m, WireBrings(m), UNCHANGED <<dialect, said, wire>>
    PROVE  WireBrings(m)'
<1>1. Spoken' = Spoken
  BY DEF Spoken
<1>2. CASE wire = <<>> /\ m = Spoken
  BY <1>1, <1>2 DEF WireBrings
<1>3. ASSUME NEW line, NEW events, wire = <<line>>, LineBrings(line, m, events, Spoken)
      PROVE  WireBrings(m)'
  <2>1. LineBrings(line, m, events, Spoken)'
    <3>1. PICK g : g = Spoken
      OBVIOUS
    <3>2. LineBrings(line, m, events, g)
      BY <1>3, <3>1
    <3>3. LineBrings(line, m, events, g)'
      BY <3>2 DEF LineBrings
    <3> QED
      BY <1>1, <3>1, <3>3 DEF LineBrings
  <2>2. wire' = <<line>>
    BY <1>3
  <2> QED
    BY <2>1, <2>2 DEF WireBrings
<1> QED
  BY <1>2, <1>3 DEF WireBrings

(* A queued event is heard.                                                 *)
LEMMA DrainKeepsTheAnswer ==
    ASSUME AnswerInv, ReadsDrained
    PROVE  /\ AnswerInv' /\ IsAnswer(HeardIn(turn'))
           /\ Precedes(HeardIn(turn), HeardIn(turn'))
<1> DEFINE h == HeardIn(turn)
           event == Head(Drained.out)
<1>1. /\ phase = "stream" /\ Drained.out # <<>>
      /\ dec' = Drained.dec /\ turn' = Absorb(turn, event)
      /\ UNCHANGED <<dialect, phase, said, stage, wire, body, finished, outcome>>
  BY DEF ReadsDrained, asking, gateway
<1>2. AnswerTravels /\ IsTurnOfCalls(turn) /\ IsAnswer(h)
  BY <1>1, HeardIs DEF AnswerInv
<1>3. PICK m : TurnHas(m) /\ WireBrings(m)
  BY <1>2 DEF AnswerTravels
<1>4. HasRead(dec, m) /\ Leads(h, dec.pending, m) /\ IsDecoder(dec)
  BY <1>3 DEF TurnHas, HasRead
<1> HIDE DEF h
<1>5. PICK x : /\ Adds(h, event, x) /\ Leads(x, dec'.pending, m)
               /\ HasRead(dec', m) /\ dec'.announced = dec.announced
  <2>1. CASE dialect = "chat"
    <3>1. Drained = PopPending(dec) /\ dec.pending # <<>>
      BY <1>1, <2>1 DEF Drained, Drain, PopPending, Silent
    <3>2. event = Head(dec.pending) /\ dec' = [dec EXCEPT !.pending = Tail(@)]
      BY <1>1, <3>1 DEF PopPending, Emit
    <3>3. /\ IsDecoder(dec') /\ dec'.ids = dec.ids /\ dec'.open = dec.open
          /\ dec'.pending = Tail(dec.pending) /\ dec'.announced = dec.announced
      BY <1>4, <3>2 DEF IsDecoder
    <3>4. HasRead(dec', m)
      BY <1>4, <2>1, <3>3 DEF HasRead
    <3>5. \E x : Adds(h, event, x) /\ Leads(x, dec'.pending, m)
      BY <1>4, <3>1, <3>2, <3>3, FirstEventLeads
    <3> QED
      BY <3>3, <3>4, <3>5
  <2>2. CASE dialect = "responses"
    <3>1. Drained = Emit([dec EXCEPT !.usageDrained = TRUE], Counted(dec.usage))
      BY <1>1, <2>2 DEF Drained, Drain, Silent
    <3>2. event = Counted(dec.usage) /\ dec' = [dec EXCEPT !.usageDrained = TRUE]
      BY <1>1, <3>1 DEF Emit
    <3>3. /\ IsDecoder(dec') /\ dec'.ids = dec.ids /\ dec'.open = dec.open
          /\ dec'.pending = dec.pending /\ dec'.announced = dec.announced
      BY <1>4, <3>2 DEF IsDecoder
    <3>4. HasRead(dec', m)
      BY <1>4, <2>2, <3>3 DEF HasRead
    <3>5. Adds(h, event, h)
      BY <3>2 DEF Adds, Counted
    <3> QED
      BY <1>4, <3>3, <3>4, <3>5
  <2>3. dialect # "messages"
    BY <1>1 DEF Drained, Drain, Silent
  <2> QED
    BY <1>2, <2>1, <2>2, <2>3 DEF AnswerTravels, Dialects
<1>6. IsTurnOfCalls(turn') /\ HeardIn(turn') = x
  BY <1>1, <1>2, <1>5, EventsAreHeard DEF h
<1>7. IsAnswer(x) /\ Precedes(h, x)
  BY <1>2, <1>5, EventsAdd
<1>8. TurnHas(m)'
  BY <1>1, <1>5, <1>6 DEF TurnHas, HasRead, Known
<1>9. Spoken' = Spoken
  BY <1>1 DEF Spoken
<1>10. WireBrings(m)'
  BY <1>1, <1>3, WireStays
<1>11. SaidByNow'
  BY <1>1, <1>2 DEF SaidByNow, AnswerTravels
<1>12. AnswerTravels'
  <2>1. (\E k : TurnHas(k) /\ WireBrings(k))'
    BY <1>8, <1>10
  <2>2. IsAnswer(Spoken)' /\ dialect' \in Dialects /\ outcome' = "none"
    BY <1>1, <1>2, <1>9 DEF AnswerTravels
  <2>3. dialect' = "chat" => ChatBegins'
    BY <1>1, <1>2, <1>5 DEF ChatBegins, AnswerTravels
  <2>4. (finished' => wire' = <<>> /\ body' # "open") /\ phase' = "stream"
    BY <1>1, <1>2 DEF AnswerTravels
  <2> QED
    BY <1>11, <2>1, <2>2, <2>3, <2>4 DEF AnswerTravels
<1> QED
  BY <1>6, <1>7, <1>12 DEF AnswerInv, h

(* The steps of the transport, as the answer sees them.                    *)
SaysMore == IsAnswer(Spoken') /\ Precedes(Spoken, Spoken')

(* Every line of the gateway, in one.                                       *)
LEMMA GatewayKeepsTheAnswer ==
    ASSUME AnswerInv, CountInv, Gateway
    PROVE  AnswerInv' /\ SaysMore
<1> USE DEF SaysMore
<1>1. CASE Begins
  BY <1>1, BeginsKeepsTheAnswer
<1>2. CASE SpeaksText
  BY <1>2, TextKeepsTheAnswer
<1>3. CASE SpeaksOfACall
  BY <1>3, CallKeepsTheAnswer
<1>4. CASE SpeaksEntries
  BY <1>4, ChunkKeepsTheAnswer
<1>5. CASE Stops
  BY <1>5, StopsKeepsTheAnswer
<1>6. CASE Counts
  BY <1>6, CountsKeepsTheAnswer
<1>7. CASE Seals
  BY <1>7, SealsKeepsTheAnswer
<1>8. CASE Stutters
  BY <1>8, StuttersKeepsTheAnswer
<1> QED
  BY <1>1, <1>2, <1>3, <1>4, <1>5, <1>6, <1>7, <1>8 DEF Gateway

\* What the invariant is about, unchanged.
LEMMA RestKeepsTheAnswer ==
    ASSUME AnswerInv, UNCHANGED <<dialect, said, stage, wire, dec, turn, outcome>>,
           phase' # "over" => phase # "over" /\ (phase' # "stream" => phase # "stream"),
           phase # "over" =>
             \/ finished' = finished
             \/ (wire = <<>> /\ body' # "open" /\ phase' = "stream"),
           body # "open" => body' # "open"
    PROVE  AnswerInv'
<1>1. IsTurnOfCalls(turn')
  BY DEF AnswerInv
<1>2. ASSUME phase' # "over"
      PROVE  AnswerTravels'
  <2>1. AnswerTravels /\ phase # "over"
    BY <1>2 DEF AnswerInv
  <2>2. Spoken' = Spoken
    BY DEF Spoken
  <2>3. PICK m : TurnHas(m) /\ WireBrings(m)
    BY <2>1 DEF AnswerTravels
  <2>4. TurnHas(m)'
    BY <2>3 DEF TurnHas, HasRead, Known
  <2>5. WireBrings(m)'
    BY <2>3, WireStays
  <2>6. (\E k : TurnHas(k) /\ WireBrings(k))'
    BY <2>4, <2>5
  <2>7. SaidByNow' /\ (dialect' = "chat" => ChatBegins')
    BY <2>1 DEF SaidByNow, AnswerTravels, ChatBegins
  <2>8. IsAnswer(Spoken)' /\ dialect' \in Dialects /\ outcome' = "none"
    BY <2>1, <2>2 DEF AnswerTravels
  <2>9. finished' => wire' = <<>> /\ body' # "open"
    BY <2>1 DEF AnswerTravels
  <2>10. phase' # "stream" => /\ wire' = <<>> /\ said' = Said!Nothing /\ turn' = NoTurn
                              /\ stage' = "silent" /\ ~finished'
    BY <1>2, <2>1 DEF AnswerTravels
  <2> QED
    BY <2>6, <2>7, <2>8, <2>9, <2>10 DEF AnswerTravels
<1> QED
  BY <1>1, <1>2 DEF AnswerInv

(* The invariant is kept by every step of the transport.                    *)
LEMMA AnswerNext == AnswerInv /\ CountInv /\ [Next]_vars => AnswerInv'
<1> SUFFICES ASSUME AnswerInv, CountInv, [Next]_vars
             PROVE  AnswerInv'
  OBVIOUS
<1> DEFINE same == UNCHANGED <<dialect, said, stage, wire, dec, turn, outcome>>
<1>1. CASE Retry \/ Again
  <2>1. /\ same /\ phase \in {"ask", "wait"} /\ phase' \in {"ask", "wait"}
        /\ UNCHANGED <<body, finished>>
    BY <1>1 DEF Retry, Again, gateway, reader
  <2> QED
    BY <2>1, RestKeepsTheAnswer
<1>2. CASE Open
  BY <1>2, OpenKeepsTheAnswer
<1>3. CASE Gateway
  BY <1>3, GatewayKeepsTheAnswer
<1>4. CASE BodyStops
  <2>1. /\ same /\ phase = "stream" /\ phase' = "stream" /\ body = "open"
        /\ UNCHANGED finished
    BY <1>4 DEF BodyStops, asking, gateway, reader
  <2> QED
    BY <2>1, RestKeepsTheAnswer
<1>5. CASE ReadsDrained
  BY <1>5, DrainKeepsTheAnswer
<1>6. CASE ReadsLine
  BY <1>6, LineKeepsTheAnswer
<1>7. CASE Refused \/ ReadsFailure \/ Closes \/ Cancelled
  <2>1. phase' = "over" /\ turn' = turn
    BY <1>7 DEF Refused, ReadsFailure, Closes, Cancelled, End, reader
  <2> QED
    BY <2>1 DEF AnswerInv
<1>8. CASE ReadsEnd
  <2>1. /\ phase = "stream" /\ wire = <<>> /\ body' = "ended" /\ turn' = turn
        /\ phase' = "over" \/ (same /\ phase' = "stream")
        /\ body' = body
    BY <1>8 DEF ReadsEnd, End, asking, gateway
  <2>2. CASE phase' = "over"
    BY <2>1, <2>2 DEF AnswerInv
  <2>3. CASE same /\ phase' = "stream"
    BY <2>1, <2>3, RestKeepsTheAnswer
  <2> QED
    BY <2>1, <2>2, <2>3
<1>9. CASE UNCHANGED vars
  <2>1. same /\ UNCHANGED <<phase, body, finished>>
    BY <1>9 DEF vars, asking, gateway, reader
  <2> QED
    BY <2>1, RestKeepsTheAnswer
<1> QED
  BY <1>1, <1>2, <1>3, <1>4, <1>5, <1>6, <1>7, <1>8, <1>9 DEF Next, Reader

(* The two invariants of the wire, that of the answer resting on that of the count. *)
LEMMA AnswerIsKept == Spec => [](AnswerInv /\ CountInv)
<1>1. Spec => []CountInv
  BY CountStarts, CountSteps, PTL DEF Spec
<1> QED
  BY <1>1, AnswerStarts, AnswerNext, PTL DEF Spec

(* Calls run in the order the model asked for them, however the lines that  *)
(* closed them came and in every dialect (turn.rs, PartialCall::seq).      *)
THEOREM CallsRunAsAsked == Spec => []CallsRunInOrder
<1>1. AnswerInv => CallsRunInOrder
  <2> SUFFICES ASSUME AnswerInv
               PROVE  CallsRunInOrder
    OBVIOUS
  <2>1. IsTurnOfCalls(turn)
    BY DEF AnswerInv
  <2> QED
    BY <2>1, CallsRunAsTheyBegan DEF CallsRunInOrder
<1> QED
  BY <1>1, AnswerIsKept, PTL

-----------------------------------------------------------------------------
(* The answer that is promised.                                            *)

(* A beginning, as the abstract answer defines it.                          *)
LEMMA StartsArePrefixes ==
    ASSUME NEW S, NEW s \in Seq(S), NEW t \in Seq(S), Starts(s, t)
    PROVE  IsPrefix(s, t)
<1>1. Len(s) \in Nat /\ Len(s) <= Len(t) /\ \A i \in 1 .. Len(s) : s[i] = t[i]
  BY DEF Starts
<1>2. SubSeq(s, 1, Len(s)) = s
  OBVIOUS
<1> DEFINE u == SubSeq(t, 1, Len(s))
<1>3. u \in Seq(S) /\ Len(u) = Len(s) /\ \A i \in 1 .. Len(s) : u[i] = t[i]
  BY <1>1
<1> HIDE DEF u
<1>4. u = s
  BY <1>1, <1>3
<1> QED
  BY <1>1, <1>2, <1>4 DEF IsPrefix, u

\* The same but for the seal.
Alike(a, b) ==
    /\ a.text = b.text /\ a.reasoning = b.reasoning /\ a.calls = b.calls
    /\ a.done = b.done /\ a.stop = b.stop

(* What precedes, as the abstract answer defines it.                        *)
LEMMA PrecedesIsWithin ==
    ASSUME NEW a, NEW b, IsAnswer(a), IsAnswer(b), Precedes(a, b),
           NEW c, NEW d, Alike(c, a), Alike(d, b)
    PROVE  TheAnswer!Within(c, d)
<1>1. IsPrefix(a.text, b.text) /\ IsPrefix(a.reasoning, b.reasoning)
  BY StartsArePrefixes DEF IsAnswer, Precedes
<1>2. ASSUME NEW k \in DOMAIN a.calls
      PROVE  k \in DOMAIN b.calls /\ IsPrefix(a.calls[k], b.calls[k])
  <2>1. k \in DOMAIN b.calls /\ Starts(a.calls[k], b.calls[k])
    BY DEF Precedes
  <2>2. a.calls[k] \in Seq(Frags) /\ b.calls[k] \in Seq(Frags)
    BY <2>1 DEF IsAnswer
  <2> QED
    BY <2>1, <2>2, StartsArePrefixes
<1>3. ToSet(a.done) \subseteq ToSet(b.done) /\ a.stop \in {"absent", b.stop}
  BY DEF Precedes
<1> QED
  <2>1. /\ \A s, t : TheAnswer!IsPrefix(s, t) <=> IsPrefix(s, t)
        /\ \A s : TheAnswer!ToSet(s) = ToSet(s)
    BY DEF IsPrefix, ToSet, TheAnswer!IsPrefix, TheAnswer!ToSet
  <2> QED
    BY <1>1, <1>2, <1>3, <2>1 DEF TheAnswer!Within, Alike

(* The refinement mapping reads the turn.                                   *)
LEMMA HeardIsTheTurn == Heard = HeardIn(turn)
  BY DEF Heard, HeardIn, Unsealed

(* The refinement mapping reads what was said, as the dialect has it.       *)
LEMMA SaidIsSpoken ==
    SaidByNow =>
        /\ Alike(Expressible(said), Spoken)
        /\ Expressible(said).sealed = said.sealed
        /\ [Expressible(said) EXCEPT !.sealed = Unsealed] = Spoken
<1> SUFFICES ASSUME SaidByNow
             PROVE  /\ Alike(Expressible(said), Spoken)
                    /\ Expressible(said).sealed = said.sealed
                    /\ [Expressible(said) EXCEPT !.sealed = Unsealed] = Spoken
  OBVIOUS
<1> DEFINE stop == IF dialect = "responses" /\ said.stop = "tools" THEN "end" ELSE said.stop
<1>1. Expressible(said) = [text |-> said.text, reasoning |-> said.reasoning,
                           calls |-> said.calls, done |-> said.done, stop |-> stop,
                           sealed |-> said.sealed]
  <2>1. Expressible(said) = [said EXCEPT !.stop = stop]
    BY DEF Expressible
  <2> HIDE DEF stop
  <2> QED
    BY <2>1 DEF SaidByNow
<1>2. Spoken = [text |-> said.text, reasoning |-> said.reasoning, calls |-> said.calls,
                done |-> said.done, stop |-> stop, sealed |-> Unsealed]
  BY DEF Spoken
<1> HIDE DEF stop
<1> QED
  BY <1>1, <1>2 DEF Alike

(* The same, to be read after a step too.                                   *)
LEMMA SaidAndSpokenAreAlike == SaidByNow => Alike(Expressible(said), Spoken)
  BY SaidIsSpoken

(* What holds of what was heard, to be read after a step too.               *)
LEMMA BeginningsAreWithin ==
    AnswerInv /\ phase # "over" =>
        /\ SaidByNow /\ outcome = "none"
        /\ IsAnswer(HeardIn(turn)) /\ IsAnswer(Spoken)
        /\ Precedes(HeardIn(turn), Spoken)
  BY HeardIsABeginning DEF AnswerInv, AnswerTravels

(* A line of the gateway says more, or says nothing.                        *)
LEMMA GatewaySays ==
    ASSUME AnswerInv, CountInv, Gateway
    PROVE  TheAnswer!Say \/ UNCHANGED TheAnswer!vars
<1>1. /\ phase = "stream" /\ phase' = "stream"
      /\ UNCHANGED <<dialect, turn, outcome>>
      /\ said' = said \/ stage \in {"speaking", "stopped"}
  BY DEF Gateway, CanSpeak, Begins, SpeaksText, SpeaksOfACall, SpeaksEntries, Stops, Counts,
         Seals, Stutters, asking, reader
<1>2. AnswerInv' /\ IsAnswer(Spoken') /\ Precedes(Spoken, Spoken')
  BY GatewayKeepsTheAnswer DEF SaysMore
<1>3. SaidByNow /\ outcome = "none" /\ IsAnswer(Spoken)
  BY <1>1, BeginningsAreWithin
<1>4. SaidByNow'
  BY <1>1, <1>2 DEF AnswerInv, AnswerTravels
<1>5. Heard' = Heard
  BY <1>1 DEF Heard
<1>6. CASE said' = said
  <2>1. Expressible(said)' = Expressible(said)
    BY <1>1, <1>6 DEF Expressible
  <2> QED
    BY <1>1, <1>5, <2>1 DEF TheAnswer!vars
<1>7. CASE stage \in {"speaking", "stopped"}
  <2>1. Alike(Expressible(said), Spoken) /\ Expressible(said).sealed = said.sealed
    BY <1>3, SaidIsSpoken
  <2>2. Alike(Expressible(said)', Spoken')
    <3>1. Alike(Expressible(said), Spoken)'
      BY <1>4, SaidAndSpokenAreAlike, PTL
    <3> QED
      BY <3>1 DEF Alike
  <2>3. TheAnswer!Within(Expressible(said), Expressible(said)')
    BY <1>2, <1>3, <2>1, <2>2, PrecedesIsWithin
  <2>4. ~Expressible(said).sealed
    BY <1>3, <1>7, <2>1 DEF SaidByNow
  <2> QED
    BY <1>1, <1>3, <1>5, <2>3, <2>4 DEF TheAnswer!Say
<1> QED
  BY <1>1, <1>6, <1>7

(* What is read is heard, or ends the request in a failure.                 *)
LEMMA ReaderHears ==
    ASSUME AnswerInv, ReadsLine \/ ReadsDrained
    PROVE  TheAnswer!Hear \/ TheAnswer!Conclude \/ UNCHANGED TheAnswer!vars
<1>1. phase = "stream" /\ UNCHANGED <<dialect, said>>
  BY DEF ReadsLine, ReadsDrained, asking, gateway
<1>2. /\ AnswerInv' /\ Precedes(HeardIn(turn), HeardIn(turn')) /\ IsAnswer(HeardIn(turn'))
      /\ \/ phase' = "over" /\ turn' = turn /\ outcome' = "malformed"
         \/ phase' # "over" /\ outcome' = outcome
  <2>1. CASE ReadsLine
    BY <2>1, LineKeepsTheAnswer
  <2>2. CASE ReadsDrained
    BY <2>2, DrainKeepsTheAnswer DEF ReadsDrained
  <2> QED
    BY <2>1, <2>2
<1>3. SaidByNow /\ outcome = "none" /\ IsAnswer(HeardIn(turn))
  BY <1>1, BeginningsAreWithin
<1>4. Expressible(said)' = Expressible(said)
  BY <1>1 DEF Expressible
<1>5. CASE phase' = "over" /\ turn' = turn /\ outcome' = "malformed"
  <2>1. Heard' = Heard
    BY <1>5 DEF Heard
  <2> QED
    BY <1>3, <1>4, <1>5, <2>1 DEF TheAnswer!Conclude
<1>6. CASE phase' # "over" /\ outcome' = outcome
  <2>1. (IsAnswer(HeardIn(turn)) /\ IsAnswer(Spoken) /\ Precedes(HeardIn(turn), Spoken))'
    <3>1. (AnswerInv /\ phase # "over")'
      BY <1>2, <1>6
    <3> QED
      BY <3>1, BeginningsAreWithin, PTL
  <2>2. Spoken' = Spoken
    BY <1>1 DEF Spoken
  <2>3. IsAnswer(Spoken) /\ Precedes(HeardIn(turn'), Spoken)
    BY <2>1, <2>2
  <2>4. Heard = HeardIn(turn) /\ Heard' = HeardIn(turn')
    BY HeardIsTheTurn DEF Heard, HeardIn, Unsealed
  <2>5. \A h : Alike(h, h)
    BY DEF Alike
  <2>6. Alike(Expressible(said), Spoken)
    BY <1>3, SaidIsSpoken
  <2>7. TheAnswer!Within(HeardIn(turn), HeardIn(turn'))
    BY <1>2, <1>3, <2>5, PrecedesIsWithin
  <2>8. TheAnswer!Within(HeardIn(turn'), Expressible(said))
    BY <1>2, <2>3, <2>5, <2>6, PrecedesIsWithin
  <2> QED
    BY <1>3, <1>4, <1>6, <2>4, <2>7, <2>8 DEF TheAnswer!Hear
<1> QED
  BY <1>2, <1>5, <1>6

(* An answer counts as complete when all of it was said and heard.         *)
LEMMA CompleteIsWhole ==
    ASSUME AnswerInv, CountInv, Closes
    PROVE  /\ Expressible(said).sealed /\ Heard = [Expressible(said) EXCEPT !.sealed = FALSE]
<1>1. phase = "stream" /\ Drained.out = <<>> /\ finished
  BY DEF Closes
<1>2. AnswerTravels /\ CountTravels /\ SaidByNow
  BY <1>1 DEF AnswerInv, CountInv, AnswerTravels
<1>3. dec.completed /\ stage = "sealed" /\ wire = <<>>
  BY <1>1, <1>2 DEF CountTravels, EndIsTheLast, AnswerTravels
<1>4. PICK m : TurnHas(m) /\ WireBrings(m)
  BY <1>2 DEF AnswerTravels
<1>5. m = Spoken
  BY <1>3, <1>4 DEF WireBrings
<1>6. dec.pending = <<>>
  BY <1>2, <1>3, <1>4 DEF TurnHas, HasRead, CountTravels, EndIsTheLast
<1>7. HeardIn(turn) = Spoken
  BY <1>4, <1>5, <1>6, NothingLeadsOnlyHere DEF TurnHas
<1>8. said.sealed
  BY <1>2, <1>3 DEF SaidByNow
<1>9. [Expressible(said) EXCEPT !.sealed = Unsealed] = [Expressible(said) EXCEPT !.sealed = FALSE]
  BY DEF Unsealed
<1> QED
  BY <1>2, <1>7, <1>8, <1>9, SaidIsSpoken, HeardIsTheTurn

(* Every step of the transport is one of the answer, or none.               *)
LEMMA StepsOfTheAnswer ==
    AnswerInv /\ CountInv /\ [Next]_vars => [TheAnswer!Next]_(TheAnswer!vars)
<1> SUFFICES ASSUME AnswerInv, CountInv, [Next]_vars
             PROVE  [TheAnswer!Next]_(TheAnswer!vars)
  OBVIOUS
<1> USE DEF TheAnswer!Next
<1>1. ASSUME UNCHANGED <<dialect, said, turn, outcome>>
      PROVE  UNCHANGED TheAnswer!vars
  BY <1>1 DEF TheAnswer!vars, Heard, Expressible
<1>2. ASSUME UNCHANGED <<dialect, said, turn>>, phase # "over", outcome' # "none",
             outcome' = "complete" => Closes
      PROVE  TheAnswer!Conclude
  <2>1. outcome = "none"
    BY <1>2, BeginningsAreWithin
  <2>2. UNCHANGED <<Expressible(said), Heard>>
    BY <1>2 DEF Heard, Expressible
  <2>3. outcome' = "complete" =>
          Expressible(said).sealed /\ Heard = [Expressible(said) EXCEPT !.sealed = FALSE]
    BY <1>2, CompleteIsWhole
  <2> QED
    BY <1>2, <2>1, <2>2, <2>3 DEF TheAnswer!Conclude
<1>3. CASE Retry \/ Again \/ Open \/ BodyStops \/ UNCHANGED vars
  BY <1>1, <1>3 DEF Retry, Again, Open, BodyStops, vars, asking, gateway, reader
<1>4. CASE Gateway
  BY <1>4, GatewaySays
<1>5. CASE ReadsLine \/ ReadsDrained
  BY <1>5, ReaderHears
<1>6. CASE Refused \/ Cancelled \/ ReadsFailure \/ Closes
  <2>1. /\ UNCHANGED <<dialect, said, turn>> /\ phase # "over" /\ outcome' # "none"
        /\ outcome' = "complete" => Closes
    BY <1>6 DEF Refused, Cancelled, ReadsFailure, Closes, End, asking, gateway, reader
  <2> QED
    BY <1>2, <2>1
<1>7. CASE ReadsEnd
  <2>1. /\ UNCHANGED <<dialect, said, turn>> /\ phase # "over"
        /\ outcome' = outcome \/ outcome' = "truncated"
    BY <1>7 DEF ReadsEnd, End, asking, gateway
  <2> QED
    BY <1>1, <1>2, <2>1
<1> QED
  BY <1>3, <1>4, <1>5, <1>6, <1>7 DEF Next, Reader

(* The transport implements the answer it promises: whatever the dialect    *)
(* packs into a line and wherever the connection ends, the turn is at any  *)
(* time a beginning of what was said, and it counts as complete only when  *)
(* it is whole (transport/stream.rs, decode; agent.rs, stream_one_turn).   *)
THEOREM TurnIsWhatWasSaid == Spec => TurnIsTheAnswer
<1>1. Init => TheAnswer!Init
  <2> SUFFICES ASSUME Init
               PROVE  TheAnswer!Init
    OBVIOUS
  <2>1. said = Said!Nothing /\ turn = NoTurn /\ outcome = "none"
    BY DEF Init
  <2>2. Heard = TheAnswer!Nothing
    BY <2>1, HeardIsTheTurn, NothingIsHeard DEF TheAnswer!Nothing, Unsealed
  <2>3. Expressible(said) = TheAnswer!Nothing
    BY <2>1 DEF Expressible, Said!Nothing, TheAnswer!Nothing
  <2> QED
    BY <2>1, <2>2, <2>3 DEF TheAnswer!Init
<1>2. TurnIsTheAnswer <=> TheAnswer!Spec
  BY DEF TurnIsTheAnswer
<1> QED
  BY <1>1, <1>2, AnswerIsKept, StepsOfTheAnswer, PTL DEF Spec, TheAnswer!Spec

-----------------------------------------------------------------------------
(* The capture of a pipe: the size of the tail, of the reads and of the    *)
(* output are any.                                                         *)

CaptureTypes ==
    /\ draining \in BOOLEAN /\ failed \in BOOLEAN
    /\ total \in Nat /\ kept \in Nat /\ spilled \in Nat
    /\ spill \in {"none", "open"}

\* Until the pipe ends, the window is all of the output or at least a tail of
\* it, and what is not in the window is in the file.
WindowIsTheEnd ==
    draining =>
        /\ kept = total \/ (MaxKept <= kept /\ kept <= total)
        /\ ~failed => spilled + kept = total
        /\ (~failed /\ spill = "none") => spilled = 0

CaptureInv == CaptureTypes /\ WindowIsTheEnd /\ OutputIsWhole

(* Spills gives the file all it is asked to, or something failed. *)
LEMMA SpillsAll ==
    ASSUME NEW excess \in Nat, NEW also \in Nat, NEW opens \in BOOLEAN, NEW writes \in BOOLEAN,
           CaptureTypes, Spills(excess, also, opens, writes)
    PROVE  /\ failed' \in BOOLEAN /\ spilled' \in Nat /\ spill' \in {"none", "open"}
           /\ ~failed' => /\ ~failed
                          /\ excess > 0 => spill' = "open"
                          /\ spill' = "open" => spilled' = spilled + excess + also
                          /\ spill' = "none" => spill = "none" /\ spilled' = spilled
<1> DEFINE isOpen == spill = "open" \/ (excess > 0 /\ opens)
           bytes == excess + also
           lost == bytes > 0 /\ isOpen /\ ~writes
           refused == excess > 0 /\ ~isOpen
<1>1. /\ spill' = IF isOpen THEN "open" ELSE "none"
      /\ spilled' = spilled + (IF isOpen /\ writes THEN bytes ELSE 0)
      /\ failed' = (failed \/ lost \/ refused)
  BY DEF Spills
<1>2. bytes \in Nat /\ bytes = excess + also /\ spilled \in Nat /\ failed \in BOOLEAN
  BY DEF CaptureTypes
<1>3. isOpen \in BOOLEAN /\ (isOpen => spill' = "open") /\ (~isOpen => spill' = "none")
  BY <1>1
<1>4. ~isOpen => spill = "none"
  BY DEF CaptureTypes
<1>a. lost \in BOOLEAN /\ refused \in BOOLEAN
  OBVIOUS
<1>b. ~lost => (isOpen => bytes = 0 \/ writes)
  BY <1>2
<1>c. ~refused => (excess > 0 => isOpen)
  OBVIOUS
<1> HIDE DEF isOpen, bytes, lost, refused
<1>5. failed' \in BOOLEAN /\ spilled' \in Nat /\ spill' \in {"none", "open"}
  BY <1>1, <1>2, <1>3
<1>6. ASSUME ~failed'
      PROVE  /\ ~failed
             /\ excess > 0 => isOpen
             /\ isOpen => bytes = 0 \/ writes
  <2>1. ~failed /\ ~lost /\ ~refused
    BY <1>1, <1>6, Zenon
  <2> QED
    BY <1>b, <1>c, <2>1
<1>7. ASSUME ~failed', isOpen
      PROVE  spilled' = spilled + excess + also
  BY <1>1, <1>2, <1>6, <1>7
<1>8. ASSUME ~isOpen
      PROVE  spilled' = spilled
  BY <1>1, <1>2, <1>8
<1> QED
  BY <1>3, <1>4, <1>5, <1>6, <1>7, <1>8

LEMMA CaptureStarts == CaptureInit => CaptureInv
<1> SUFFICES ASSUME CaptureInit
             PROVE  CaptureInv
  OBVIOUS
<1>1. draining /\ ~failed /\ draining \in BOOLEAN /\ failed \in BOOLEAN
  BY Zenon DEF CaptureInit
<1>2. total = 0 /\ kept = 0 /\ spilled = 0 /\ spill = "none"
  BY DEF CaptureInit
<1>3. CaptureTypes
  BY <1>1, <1>2 DEF CaptureTypes
<1>4. WindowIsTheEnd
  BY <1>2 DEF WindowIsTheEnd
<1> QED
  BY <1>1, <1>3, <1>4 DEF CaptureInv, OutputIsWhole

LEMMA BringsKeeps ==
    ASSUME CaptureInv, NEW n \in 1 .. Block, NEW opens \in BOOLEAN, NEW writes \in BOOLEAN,
           Brings(n, opens, writes)
    PROVE  CaptureInv'
<1> DEFINE held == kept + n
<1>1. /\ draining = TRUE /\ draining' = TRUE /\ total' = total + n
      /\ total \in Nat /\ kept \in Nat /\ n \in Nat /\ MaxKept \in Nat
  BY CaptureConstants DEF Brings, CaptureInv, CaptureTypes
<1>2. HighWater \in Nat /\ MaxKept <= HighWater
  BY <1>1 DEF HighWater, SLACK
<1>3. CASE held > HighWater
  <2>1. kept' = MaxKept /\ Spills(held - MaxKept, 0, opens, writes)
    BY <1>3 DEF Brings
  <2>2. held - MaxKept \in Nat /\ held - MaxKept > 0
    BY <1>1, <1>2, <1>3
  <2>3. /\ failed' \in BOOLEAN /\ spilled' \in Nat /\ spill' \in {"none", "open"}
        /\ ~failed' => ~failed /\ spill' = "open" /\ spilled' = spilled + (held - MaxKept) + 0
    BY <2>1, <2>2, SpillsAll DEF CaptureInv
  <2>4. CaptureTypes'
    BY <1>1, <2>1, <2>3 DEF CaptureTypes
  <2>5. kept <= total
    BY <1>1 DEF CaptureInv, WindowIsTheEnd
  <2>6. ~failed => spilled + kept = total
    BY <1>1 DEF CaptureInv, WindowIsTheEnd
  <2>7. ASSUME ~failed'
        PROVE  spill' = "open" /\ spilled' + kept' = total'
    <3>1. ~failed /\ spill' = "open" /\ spilled' = spilled + (held - MaxKept) + 0
      BY <2>3, <2>7
    <3>2. spilled \in Nat
      BY DEF CaptureInv, CaptureTypes
    <3> QED
      BY <1>1, <2>1, <2>6, <3>1, <3>2
  <2>8. MaxKept <= kept' /\ kept' <= total'
    BY <1>1, <1>2, <1>3, <2>1, <2>5
  <2>9. WindowIsTheEnd'
    BY <2>7, <2>8 DEF WindowIsTheEnd
  <2> QED
    BY <1>1, <2>4, <2>9 DEF CaptureInv, OutputIsWhole
<1>4. CASE ~(held > HighWater)
  <2>1. kept' = held /\ UNCHANGED <<spill, spilled, failed>>
    BY <1>4 DEF Brings
  <2> QED
    BY <1>1, <2>1 DEF CaptureInv, CaptureTypes, WindowIsTheEnd, OutputIsWhole
<1> QED
  BY <1>3, <1>4

LEMMA FinishesKeeps ==
    ASSUME CaptureInv, NEW opens \in BOOLEAN, NEW writes \in BOOLEAN, Finishes(opens, writes)
    PROVE  CaptureInv'
<1> DEFINE excess == IF kept > MaxKept THEN kept - MaxKept ELSE 0
<1>1. /\ draining = TRUE /\ draining' = FALSE /\ total' = total
      /\ kept' = kept - excess /\ Spills(excess, kept - excess, opens, writes)
  BY DEF Finishes
<1>2. /\ excess \in Nat /\ kept - excess \in Nat
      /\ kept - excess = IF kept > MaxKept THEN MaxKept ELSE kept
      /\ kept > MaxKept => excess > 0
      /\ total \in Nat /\ kept \in Nat /\ spilled \in Nat /\ MaxKept \in Nat
  BY CaptureConstants DEF CaptureInv, CaptureTypes
<1> HIDE DEF excess
<1>3. /\ failed' \in BOOLEAN /\ spilled' \in Nat /\ spill' \in {"none", "open"}
      /\ ~failed' => /\ ~failed
                     /\ excess > 0 => spill' = "open"
                     /\ spill' = "open" => spilled' = spilled + excess + (kept - excess)
                     /\ spill' = "none" => spill = "none" /\ spilled' = spilled
  BY <1>1, <1>2, SpillsAll DEF CaptureInv
<1>4. CaptureTypes'
  BY <1>1, <1>2, <1>3 DEF CaptureTypes
<1>5. kept' = IF total > MaxKept THEN MaxKept ELSE total
  BY <1>1, <1>2 DEF CaptureInv, WindowIsTheEnd
<1>6. ASSUME ~failed'
      PROVE  /\ total > MaxKept => spill' = "open"
             /\ spill' = "open" => spilled' = total
  <2>1. spilled + kept = total /\ (spill = "none" => spilled = 0)
    BY <1>1, <1>3, <1>6 DEF CaptureInv, WindowIsTheEnd
  <2>2. spill' = "open" => spilled' = total
    BY <1>2, <1>3, <1>6, <2>1
  <2>3. ASSUME total > MaxKept
        PROVE  spill' = "open"
    <3>1. CASE kept > MaxKept
      BY <1>2, <1>3, <1>6, <3>1
    <3>2. CASE ~(kept > MaxKept)
      <4>1. kept < total
        BY <1>2, <2>3, <3>2
      <4>2. spilled # 0
        BY <1>2, <2>1, <4>1
      <4> QED
        BY <1>3, <1>6, <2>1, <4>2
    <3> QED
      BY <3>1, <3>2
  <2> QED
    BY <2>2, <2>3
<1> QED
  BY <1>1, <1>4, <1>5, <1>6 DEF CaptureInv, WindowIsTheEnd, OutputIsWhole

LEMMA CaptureStep == CaptureInv /\ [CaptureNext]_captureVars => CaptureInv'
<1> SUFFICES ASSUME CaptureInv, [CaptureNext]_captureVars
             PROVE  CaptureInv'
  OBVIOUS
<1>1. CASE UNCHANGED captureVars
  BY <1>1 DEF captureVars, CaptureInv, CaptureTypes, WindowIsTheEnd, OutputIsWhole
<1>2. CASE CaptureNext
  BY <1>2, BringsKeeps, FinishesKeeps DEF CaptureNext
<1> QED
  BY <1>1, <1>2

(* The output a command wrote is given to the model whole, or as its last  *)
(* MaxKept bytes with a file that holds all of it, unless the system       *)
(* refused that file.                                                      *)
THEOREM WhatIsShownIsTheEnd == CaptureSpec => []OutputIsWhole
<1>1. CaptureInv => OutputIsWhole
  BY DEF CaptureInv
<1> QED
  BY CaptureStarts, CaptureStep, <1>1, PTL DEF CaptureSpec

=============================================================================
