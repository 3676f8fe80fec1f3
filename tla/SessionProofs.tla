---------------------------- MODULE SessionProofs ----------------------------
(***************************************************************************)
(* What is on disk of a conversation, for every number of requests, forks, *)
(* compactions, crashes and restarts.                                      *)
(***************************************************************************)
EXTENDS Session, Facts

Messages == Message(Agent!CallId)

\* What the loop writes in its record: never a marker.
Words == {m \in Messages : ~IsMarker(m)}

Entry == [parent : Nat, message : Messages]

\* A record descends from an earlier one.
IsTree(d) == d \in Seq(Entry) /\ \A r \in 1 .. Len(d) : d[r].parent < r

SessionTypes ==
    /\ messages \in Seq(Messages) /\ journal \in Seq(Words) /\ past \in Seq(Messages)
    /\ streams \in Nat /\ shrunk \in Nat /\ turn \in Agent!Turn
    /\ IsTree(disk) /\ branch \in 0 .. Len(disk)
    /\ drained \in Nat /\ unsaved \in Seq(Messages)
    /\ front \in Fronts /\ phase \in {"prompt", "asked", "saving", "off"}

\* A compaction was started because it is of use.
CompactionFits == pc = "compact" => CanCompact(messages, KeepRecent)

\* The loop runs only while the front end waits for it.
LoopIdles == phase # "asked" => pc = "idle"

\* Only a save has something to append, and it has taken all of the context.
CursorIsAtTheEnd ==
    /\ phase # "saving" => unsaved = <<>>
    /\ phase \in {"prompt", "saving"} /\ front = "interactive" => drained = Len(messages)

\* A context that did not shrink goes on, past the cursor, with what the
\* request added.
CursorMarksTheRequest ==
    phase = "asked" =>
        /\ journal # <<>>
        /\ front = "interactive" /\ shrunk = 0 =>
              \E start \in Seq(Messages) : Len(start) = drained /\ messages = start \o journal

\* What waits to be appended holds no marker; once all was appended, the next
\* record descends from the last.
SavesWords ==
    phase = "saving" /\ ~gap =>
        /\ unsaved \in Seq(Words)
        /\ unsaved = <<>> => branch \in {0, Len(disk)}

SessionInv ==
    /\ SessionTypes /\ CompactionFits /\ LoopIdles /\ CursorIsAtTheEnd
    /\ CursorMarksTheRequest /\ SavesWords
    /\ DiskFollowsTheRecord

-----------------------------------------------------------------------------
(* The path to a record.                                                   *)

\* A path, after one more record.
Onward(path, m) == IF IsMarker(m) THEN <<m>> ELSE Append(path, m)

\* A function on 0 .. k that follows the records of d up to the k-th.
IsChain(f, d, k) ==
    f = [r \in 0 .. k |-> IF r = 0 THEN <<>> ELSE Onward(f[d[r].parent], d[r].message)]

\* The lengths for which there is one.
Chainable(d) == {k \in Nat : k <= Len(d) => \E f : IsChain(f, d, k)}

LEMMA TreeIs ==
    ASSUME NEW d, IsTree(d)
    PROVE  /\ d \in Seq(Entry) /\ Len(d) \in Nat
           /\ \A r \in 1 .. Len(d) : d[r].parent \in 0 .. (r - 1) /\ d[r].message \in Messages
<1>1. d \in Seq(Entry) /\ Len(d) \in Nat /\ \A r \in 1 .. Len(d) : d[r].parent < r
  BY DEF IsTree
<1>2. \A r \in 1 .. Len(d) : d[r] \in Entry
  BY <1>1
<1>3. \A r \in 1 .. Len(d) : d[r].parent \in Nat /\ d[r].message \in Messages
  BY <1>2 DEF Entry
<1> QED
  BY <1>1, <1>3

LEMMA ChainGrows ==
    ASSUME NEW d, IsTree(d), NEW k \in Nat, k \in Chainable(d)
    PROVE  k + 1 \in Chainable(d)
<1> SUFFICES ASSUME k + 1 <= Len(d)
             PROVE  \E f : IsChain(f, d, k + 1)
  BY DEF Chainable
<1>1. Len(d) \in Nat /\ \A r \in 1 .. Len(d) : d[r].parent \in Nat /\ d[r].parent < r
  BY TreeIs
<1>2. PICK f : IsChain(f, d, k)
  BY <1>1 DEF Chainable
<1> DEFINE last == Onward(f[d[k + 1].parent], d[k + 1].message)
           next == [r \in 0 .. (k + 1) |-> IF r = k + 1 THEN last ELSE f[r]]
<1>3. \A r \in 0 .. k : f[r] = IF r = 0 THEN <<>> ELSE Onward(f[d[r].parent], d[r].message)
  BY <1>2 DEF IsChain
<1>4. /\ \A r \in 0 .. k : next[r] = f[r]
      /\ next[k + 1] = last
  OBVIOUS
<1>5. ASSUME NEW r \in 0 .. (k + 1)
      PROVE  next[r] = IF r = 0 THEN <<>> ELSE Onward(next[d[r].parent], d[r].message)
  <2>1. r # 0 => d[r].parent \in 0 .. k
    BY <1>1
  <2> HIDE DEF next, last
  <2>2. r # 0 => next[d[r].parent] = f[d[r].parent]
    BY <1>4, <2>1
  <2>3. CASE r = k + 1
    BY <1>4, <2>2, <2>3 DEF last
  <2>4. CASE r \in 0 .. k
    BY <1>3, <1>4, <2>2, <2>4
  <2> QED
    BY <2>3, <2>4
<1>6. next = [r \in 0 .. (k + 1) |-> next[r]]
  OBVIOUS
<1> HIDE DEF next
<1>7. IsChain(next, d, k + 1)
  BY <1>5, <1>6 DEF IsChain
<1> QED
  BY <1>7

(* The path to a record is the path to its parent and the record itself; a  *)
(* marker begins it anew.                                                  *)
LEMMA ChainsAre ==
    ASSUME NEW d, IsTree(d)
    PROVE  /\ Chains(d)[0] = <<>>
           /\ \A r \in 1 .. Len(d) :
                /\ d[r].parent \in 0 .. (r - 1) /\ d[r].message \in Messages
                /\ Chains(d)[r] = Onward(Chains(d)[d[r].parent], d[r].message)
<1>1. Len(d) \in Nat
      /\ \A r \in 1 .. Len(d) : d[r].parent \in 0 .. (r - 1) /\ d[r].message \in Messages
  BY TreeIs
<1>2. 0 \in Chainable(d)
  <2> DEFINE f == [r \in 0 .. 0 |-> <<>>]
  <2>1. IsChain(f, d, 0)
    BY DEF IsChain
  <2> QED
    BY <2>1 DEF Chainable
<1>3. Nat \subseteq Chainable(d)
  <2>1. \A k \in Nat : k \in Chainable(d) => k + 1 \in Chainable(d)
    BY ChainGrows
  <2> QED
    BY <1>2, <2>1, InductionOverASet
<1>4. \E f : IsChain(f, d, Len(d))
  BY <1>1, <1>3 DEF Chainable
<1>5. Chains(d) = CHOOSE f : IsChain(f, d, Len(d))
  BY DEF Chains, IsChain, Onward
<1> DEFINE chain == Chains(d)
<1> HIDE DEF chain
<1>6. IsChain(chain, d, Len(d))
  BY <1>4, <1>5 DEF chain
<1>7. \A r \in 0 .. Len(d) :
         chain[r] = IF r = 0 THEN <<>> ELSE Onward(chain[d[r].parent], d[r].message)
  BY <1>6 DEF IsChain
<1>8. chain[0] = <<>> /\ \A r \in 1 .. Len(d) : chain[r] = Onward(chain[d[r].parent], d[r].message)
  BY <1>1, <1>7
<1> QED
  BY <1>1, <1>8 DEF chain

LEMMA ChainsType ==
    ASSUME NEW d, IsTree(d)
    PROVE  \A r \in 0 .. Len(d) : Chains(d)[r] \in Seq(Messages)
<1> DEFINE chain == Chains(d)
           Fine == {k \in Nat : \A r \in 0 .. Len(d) : r <= k => chain[r] \in Seq(Messages)}
<1>1. /\ Len(d) \in Nat /\ chain[0] = <<>>
      /\ \A r \in 1 .. Len(d) : /\ d[r].parent \in 0 .. (r - 1) /\ d[r].message \in Messages
                                /\ chain[r] = Onward(chain[d[r].parent], d[r].message)
  BY ChainsAre DEF IsTree
<1> HIDE DEF chain
<1>2. 0 \in Fine
  <2>1. \A r \in 0 .. Len(d) : r <= 0 => r = 0
    BY <1>1
  <2>2. <<>> \in Seq(Messages)
    OBVIOUS
  <2> QED
    BY <1>1, <2>1, <2>2
<1>3. ASSUME NEW k \in Nat, k \in Fine
      PROVE  k + 1 \in Fine
  <2> SUFFICES ASSUME NEW r \in 0 .. Len(d), r = k + 1
               PROVE  chain[r] \in Seq(Messages)
    BY <1>1, <1>3
  <2>1. /\ r \in 1 .. Len(d) /\ d[r].parent \in 0 .. Len(d) /\ d[r].parent <= k
        /\ d[r].message \in Messages /\ chain[r] = Onward(chain[d[r].parent], d[r].message)
    BY <1>1
  <2>2. chain[d[r].parent] \in Seq(Messages)
    BY <1>3, <2>1
  <2> QED
    BY <2>1, <2>2 DEF Onward
<1> HIDE DEF Fine
<1>4. Nat \subseteq Fine
  BY <1>2, <1>3, InductionOverASet
<1>5. Len(d) \in Fine
  BY <1>1, <1>4
<1> QED
  BY <1>1, <1>5 DEF Fine, chain

\* The records, and one more.
Grown(d, parent, m) == Append(d, [parent |-> parent, message |-> m])

(* One more record changes no path, and has one of its own.                *)
LEMMA ChainsGrow ==
    ASSUME NEW d, IsTree(d), NEW parent \in 0 .. Len(d), NEW m \in Messages,
           NEW more, more = Grown(d, parent, m)
    PROVE  /\ IsTree(more) /\ Len(more) = Len(d) + 1
           /\ \A r \in 0 .. Len(d) : Chains(more)[r] = Chains(d)[r]
           /\ Chains(more)[Len(more)] = Onward(Chains(d)[parent], m)
<1> DEFINE e == [parent |-> parent, message |-> m]
           n == Len(d)
<1>1. d \in Seq(Entry) /\ n \in Nat /\ \A r \in 1 .. n : d[r].parent < r
  BY DEF IsTree
<1>2. e \in Entry /\ e.parent = parent /\ e.message = m
  BY <1>1 DEF Entry
<1> HIDE DEF e, n
<1>3. /\ more \in Seq(Entry) /\ Len(more) = n + 1 /\ more[n + 1] = e
      /\ \A r \in 1 .. n : more[r] = d[r]
  BY <1>1, <1>2 DEF e, n, Grown
<1>4. IsTree(more)
  <2>1. \A r \in 1 .. Len(more) : more[r].parent < r
    <3> TAKE r \in 1 .. Len(more)
    <3>1. CASE r = n + 1
      BY <1>1, <1>2, <1>3, <3>1 DEF n
    <3>2. CASE r \in 1 .. n
      BY <1>1, <1>3, <3>2
    <3> QED
      BY <1>1, <1>3, <3>1, <3>2
  <2> QED
    BY <1>3, <2>1 DEF IsTree
<1> DEFINE old == Chains(d)
           new == Chains(more)
<1>5. /\ old[0] = <<>> /\ new[0] = <<>>
      /\ \A r \in 1 .. n : /\ d[r].parent \in 0 .. (r - 1)
                           /\ old[r] = Onward(old[d[r].parent], d[r].message)
      /\ \A r \in 1 .. (n + 1) : new[r] = Onward(new[more[r].parent], more[r].message)
  <2>1. /\ old[0] = <<>>
        /\ \A r \in 1 .. n : /\ d[r].parent \in 0 .. (r - 1)
                             /\ old[r] = Onward(old[d[r].parent], d[r].message)
    BY ChainsAre DEF n
  <2>2. new[0] = <<>> /\ \A r \in 1 .. Len(more) : new[r] = Onward(new[more[r].parent], more[r].message)
    BY <1>4, ChainsAre
  <2> QED
    BY <1>3, <2>1, <2>2
<1> HIDE DEF old, new
<1> DEFINE Fine == {k \in Nat : \A r \in 0 .. n : r <= k => new[r] = old[r]}
<1>6. 0 \in Fine
  BY <1>1, <1>5
<1>7. ASSUME NEW k \in Nat, k \in Fine
      PROVE  k + 1 \in Fine
  <2> SUFFICES ASSUME NEW r \in 0 .. n, r = k + 1
               PROVE  new[r] = old[r]
    BY <1>1, <1>7
  <2>1. r \in 1 .. n /\ r \in 1 .. (n + 1) /\ d[r].parent \in 0 .. n /\ d[r].parent <= k
    BY <1>1, <1>5
  <2>2. new[d[r].parent] = old[d[r].parent]
    BY <1>7, <2>1
  <2> QED
    BY <1>3, <1>5, <2>1, <2>2
<1> HIDE DEF Fine
<1>8. Nat \subseteq Fine
  BY <1>6, <1>7, InductionOverASet
<1>9. \A r \in 0 .. n : new[r] = old[r]
  <2>1. n \in Fine
    BY <1>1, <1>8
  <2> QED
    BY <1>1, <2>1 DEF Fine
<1>10. new[n + 1] = Onward(old[parent], m)
  <2>1. n + 1 \in 1 .. (n + 1) /\ parent \in 0 .. n
    BY <1>1 DEF n
  <2> QED
    BY <1>2, <1>3, <1>5, <1>9, <2>1
<1> QED
  BY <1>3, <1>4, <1>9, <1>10 DEF n, old, new

-----------------------------------------------------------------------------
(* What a request adds to the context and to the record.                   *)

LEMMA WordsAre ==
    /\ UserMessage \in Words /\ UserMessage \in Messages /\ ~IsMarker(UserMessage)
    /\ \A ids \in SUBSET Agent!CallId :
         /\ ResultsMessage(ids) \in Words
         /\ \A body \in {"none", "text"}, discarded \in BOOLEAN :
               AssistantMessage(ids, body, discarded) \in Words
    /\ \A s \in Seq(Words) : s \in Seq(Messages)
<1>1. UserMessage \in Messages /\ UserMessage.body = "text"
  BY DEF UserMessage, Messages, Message, Bodies
<1>2. \A ids \in SUBSET Agent!CallId :
         ResultsMessage(ids) \in Messages /\ ResultsMessage(ids).body = "none"
  BY DEF UserMessage, ResultsMessage, Messages, Message, Bodies
<1>3. \A ids \in SUBSET Agent!CallId, body \in {"none", "text"}, discarded \in BOOLEAN :
         /\ AssistantMessage(ids, body, discarded) \in Messages
         /\ AssistantMessage(ids, body, discarded).body = body
  BY DEF AssistantMessage, Messages, Message, Bodies
<1>4. \A s \in Seq(Words) : s \in Seq(Messages)
  <2>1. Words \subseteq Messages
    BY DEF Words
  <2> HIDE DEF Words
  <2> QED
    BY <2>1
<1> QED
  BY <1>1, <1>2, <1>3, <1>4 DEF Words, IsMarker

(* A compacted history is a history, and no longer than it was.            *)
LEMMA CompactedFits ==
    ASSUME NEW ms \in Seq(Messages), CanCompact(ms, KeepRecent)
    PROVE  /\ Compacted(ms, KeepRecent) \in Seq(Messages)
           /\ Len(Compacted(ms, KeepRecent)) <= Len(ms)
<1> DEFINE keep == KeepRecent
           cut == Len(ms) - keep + 1
           t == TailStart(ms, keep)
           Fit == {u \in cut .. (Len(ms) + 1) : u <= Len(ms) => ~StartsWithToolResult(ms[u])}
<1>1. keep \in Nat \ {0} /\ cut \in 3 .. Len(ms) /\ Len(ms) \in Nat
  BY SessionConstants DEF CanCompact, HEAD
<1>2. \E u \in 1 .. (Len(ms) + 1) : IsTailStart(ms, keep, u)
  <2>1. Fit \in SUBSET Nat /\ Len(ms) + 1 \in Fit
    BY <1>1
  <2> HIDE DEF Fit
  <2>2. PICK u \in Fit : \A v \in Fit : u <= v
    BY <2>1, Least
  <2>3. u \in cut .. (Len(ms) + 1) /\ (u <= Len(ms) => ~StartsWithToolResult(ms[u]))
    BY <2>2 DEF Fit
  <2>4. ASSUME NEW v \in cut .. (u - 1)
        PROVE  StartsWithToolResult(ms[v])
    <3>1. v \in cut .. (Len(ms) + 1) /\ v <= Len(ms) /\ ~(u <= v)
      BY <1>1, <2>3
    <3>2. v \notin Fit
      BY <2>2, <3>1
    <3> QED
      BY <3>1, <3>2 DEF Fit
  <2> QED
    BY <1>1, <2>3, <2>4 DEF IsTailStart
<1>3. t \in 3 .. (Len(ms) + 1)
  <2>1. IsTailStart(ms, keep, t)
    BY <1>2 DEF TailStart
  <2> QED
    BY <1>1, <2>1 DEF IsTailStart
<1> HIDE DEF t, keep, cut, Fit
<1> DEFINE tail == SubSeq(ms, t, Len(ms))
           start == <<ms[HEAD], Marker>>
<1>4. tail \in Seq(Messages) /\ Len(tail) = Len(ms) - t + 1
  <2>1. \A i \in t .. Len(ms) : ms[i] \in Messages
    BY <1>3
  <2> QED
    BY <1>1, <1>3, <2>1, SubSeqProperties
<1>5. start \in Seq(Messages) /\ Len(start) = 2
  <2>1. ms[HEAD] \in Messages /\ Marker \in Messages
    BY <1>1, MessageTypes DEF HEAD, Messages
  <2> QED
    BY <2>1
<1>6. Compacted(ms, KeepRecent) = start \o tail
  BY DEF Compacted, t, keep
<1> HIDE DEF start, tail
<1>7. start \o tail \in Seq(Messages) /\ Len(start \o tail) = Len(start) + Len(tail)
  BY <1>4, <1>5, ConcatProperties
<1> QED
  BY <1>1, <1>3, <1>4, <1>5, <1>6, <1>7

(* The agent's messages are those of the session.                          *)
LEMMA MessagesAreShared ==
    /\ Agent!UserMessage = UserMessage
    /\ \A ids : Agent!ResultsMessage(ids) = ResultsMessage(ids)
    /\ \A ids, body, discarded :
         Agent!AssistantMessage(ids, body, discarded) = AssistantMessage(ids, body, discarded)
    /\ \A m : Agent!IsEmpty(m) = IsEmpty(m)
  BY DEF Agent!UserMessage, Agent!ResultsMessage, Agent!AssistantMessage, Agent!IsEmpty,
         UserMessage, ResultsMessage, AssistantMessage, IsEmpty

LEMMA CompactionIsShared ==
    /\ \A ms, keep : Agent!CanCompact(ms, keep) = CanCompact(ms, keep)
    /\ \A ms, keep : Agent!Compacted(ms, keep) = Compacted(ms, keep)
  BY DEF Agent!CanCompact, Agent!Compacted, Agent!HEAD, Agent!Marker, Agent!TailStart,
         Agent!IsTailStart, Agent!StartsWithToolResult, Agent!UserMessage,
         CanCompact, Compacted, HEAD, Marker, TailStart, IsTailStart, StartsWithToolResult,
         UserMessage

LEMMA CallsOfATurn ==
    ASSUME streams \in Nat, NEW t \in Agent!Turn
    PROVE  Agent!TurnCalls(t) \in SUBSET Agent!CallId
<1>1. t.calls \in Nat
  BY SessionConstants DEF Agent!Turn
<1> QED
  BY <1>1 DEF Agent!TurnCalls, Agent!CallId

LEMMA TurnsAre ==
    /\ Agent!NoTurn \in Agent!Turn
    /\ \A t \in Agent!Turn : Agent!Remembered(t) \in Agent!Turn
<1>1. Agent!NoTurn \in Agent!Turn
  BY SessionConstants DEF Agent!NoTurn, Agent!Turn, Agent!StopReasons
<1>2. \A t \in Agent!Turn : Agent!Remembered(t) \in Agent!Turn
  BY DEF Agent!Turn, Agent!Remembered
<1> QED
  BY <1>1, <1>2

(* A turn enters any history as the same words, or not at all.             *)
LEMMA RecordedAdds ==
    ASSUME streams \in Nat, NEW t \in Agent!Turn
    PROVE  \E s \in Seq(Words) : \A ms \in Seq(Messages) : Agent!Recorded(t, ms) = ms \o s
<1> DEFINE body == IF t.said = "nothing" THEN "none" ELSE "text"
           discarded == t.interrupted \/ t.stop = "failed"
           m == AssistantMessage(Agent!TurnCalls(t), body, discarded)
           s == IF IsEmpty(m) THEN <<>> ELSE <<m>>
<1>1. m \in Words
  <2>1. body \in {"none", "text"}
    OBVIOUS
  <2>2. discarded \in BOOLEAN
    BY Zenon
  <2> HIDE DEF body, discarded
  <2> QED
    BY <2>1, <2>2, CallsOfATurn, WordsAre
<1>2. \A ms \in Seq(Messages) :
         Agent!Recorded(t, ms) = IF IsEmpty(m) THEN ms ELSE Append(ms, m)
  BY MessagesAreShared DEF Agent!Recorded
<1> HIDE DEF m
<1>3. m \in Messages
  BY <1>1 DEF Words
<1>4. s \in Seq(Words)
  BY <1>1
<1>5. \A ms \in Seq(Messages) : Agent!Recorded(t, ms) = ms \o s
  BY <1>2, <1>3
<1> QED
  BY <1>4, <1>5

(* What follows a recorded turn adds the same to both sides.               *)
LEMMA ProceedAdds ==
    ASSUME streams \in Nat, NEW t \in Agent!Turn, NEW ms \in Seq(Messages),
           NEW js \in Seq(Words), Agent!Proceed(t, ms, js)
    PROVE  /\ \E s \in Seq(Words) : messages' = ms \o s /\ journal' = js \o s
           /\ turn' \in Agent!Turn /\ pc' # "compact"
<1> DEFINE r == ResultsMessage(Agent!TurnCalls(t))
<1>1. r \in Words /\ r \in Messages /\ js \in Seq(Messages)
  BY CallsOfATurn, WordsAre DEF Words
<1>2. \/ messages' = ms /\ journal' = js
      \/ messages' = Append(ms, r) /\ journal' = Append(js, r)
  BY MessagesAreShared DEF Agent!Proceed, Agent!Leave, Agent!ClosePending
<1> HIDE DEF r
<1>3. \E s \in Seq(Words) : messages' = ms \o s /\ journal' = js \o s
  <2>1. CASE messages' = ms /\ journal' = js
    <3>1. <<>> \in Seq(Words) /\ ms \o <<>> = ms /\ js \o <<>> = js
      OBVIOUS
    <3> QED
      BY <2>1, <3>1
  <2>2. CASE messages' = Append(ms, r) /\ journal' = Append(js, r)
    <3>1. <<r>> \in Seq(Words)
      BY <1>1
    <3>2. ms \o <<r>> = Append(ms, r) /\ js \o <<r>> = Append(js, r)
      BY <1>1
    <3> QED
      BY <2>2, <3>1, <3>2
  <2> QED
    BY <1>2, <2>1, <2>2
<1>4. turn' \in Agent!Turn
  <2>1. Agent!NoTurn \in Agent!Turn /\ Agent!Remembered(t) \in Agent!Turn
    BY TurnsAre
  <2>2. turn' \in {Agent!NoTurn, Agent!Remembered(t)}
    BY DEF Agent!Proceed, Agent!Leave
  <2> QED
    BY <2>1, <2>2
<1>5. pc' # "compact"
  BY DEF Agent!Proceed, Agent!Leave
<1> QED
  BY <1>3, <1>4, <1>5

\* A step adds the words s to the context and to the record; the context may
\* first have given way to its compacted form.
Adds(s) ==
    /\ s \in Seq(Words)
    /\ journal' = journal \o s /\ past' = past
    /\ \/ messages' = messages \o s /\ shrunk' = shrunk
       \/ /\ CanCompact(messages, KeepRecent)
          /\ messages' = Compacted(messages, KeepRecent) \o s
          /\ shrunk' = shrunk + 1

\* What a step of the loop needs of the state, and leaves.
LoopTypes ==
    /\ messages \in Seq(Messages) /\ journal \in Seq(Words)
    /\ streams \in Nat /\ turn \in Agent!Turn

LEMMA SilenceAdds ==
    ASSUME LoopTypes, UNCHANGED <<messages, journal, past, shrunk>>
    PROVE  Adds(<<>>)
<1>1. <<>> \in Seq(Words) /\ journal \o <<>> = journal /\ messages \o <<>> = messages
  BY DEF LoopTypes
<1> QED
  BY <1>1 DEF Adds

\* What a step of the loop does, as far as the session is concerned.
StepsWell ==
    /\ \E s : Adds(s)
    /\ streams' \in Nat /\ turn' \in Agent!Turn /\ CompactionFits'

LEMMA NextTurnSteps ==
    ASSUME LoopTypes, Agent!NextTurn
    PROVE  StepsWell
<1>1. Agent!Steered = <<>>
  BY DEF Agent!Steered
<1>2. /\ messages' = messages \o <<>> /\ journal' = journal \o <<>>
      /\ UNCHANGED <<past, shrunk, turn>>
  BY <1>1 DEF Agent!NextTurn, Agent!RecordSteered
<1>3. Adds(<<>>)
  <2>1. <<>> \in Seq(Words)
    OBVIOUS
  <2> QED
    BY <1>2, <2>1 DEF Adds
<1>4. streams' \in Nat /\ CompactionFits'
  <2>1. \/ pc' = "stream" /\ streams' = streams + 1
        \/ /\ streams' = streams
           /\ Agent!CanCompact(messages \o <<>>, KeepRecent)
    BY <1>1 DEF Agent!NextTurn, Agent!OpenStream, Agent!StartCompacting, Agent!MayCompact
  <2>2. CASE pc' = "stream" /\ streams' = streams + 1
    BY <2>2 DEF LoopTypes, CompactionFits
  <2>3. CASE streams' = streams /\ Agent!CanCompact(messages \o <<>>, KeepRecent)
    <3>1. CanCompact(messages', KeepRecent)
      BY <1>2, <2>3, CompactionIsShared
    <3> QED
      BY <2>3, <3>1 DEF LoopTypes, CompactionFits
  <2> QED
    BY <2>1, <2>2, <2>3
<1> QED
  BY <1>2, <1>3, <1>4 DEF StepsWell, LoopTypes

LEMMA SettleSteps ==
    ASSUME LoopTypes, NEW t \in Agent!Turn, Agent!Settle(t), UNCHANGED <<streams, shrunk>>
    PROVE  StepsWell
<1>1. messages \in Seq(Messages) /\ journal \in Seq(Words) /\ journal \in Seq(Messages)
      /\ streams \in Nat /\ streams' \in Nat
  BY WordsAre DEF LoopTypes
<1>2. CASE Agent!ProducedNothing(t) /\ Agent!MayCompact(messages)
  <2>1. UNCHANGED <<messages, journal, past, turn>>
    BY <1>2 DEF Agent!Settle, Agent!conversation
  <2>2. CanCompact(messages', KeepRecent)
    BY <1>2, <2>1, CompactionIsShared DEF Agent!MayCompact
  <2>3. Adds(<<>>)
    BY <2>1, SilenceAdds
  <2> QED
    BY <1>1, <2>1, <2>2, <2>3 DEF StepsWell, CompactionFits, LoopTypes
<1>3. CASE ~(Agent!ProducedNothing(t) /\ Agent!MayCompact(messages))
  <2>1. PICK s1 \in Seq(Words) : \A ms \in Seq(Messages) : Agent!Recorded(t, ms) = ms \o s1
    BY <1>1, RecordedAdds
  <2> DEFINE ms == messages \o s1
             js == journal \o s1
  <2>2. /\ ms \in Seq(Messages) /\ js \in Seq(Words)
        /\ Agent!Recorded(t, messages) = ms /\ Agent!Recorded(t, journal) = js
    <3>1. s1 \in Seq(Messages)
      BY WordsAre
    <3> QED
      BY <1>1, <2>1, <3>1, ConcatProperties
  <2>3. /\ past' = past
        /\ \/ /\ Agent!MayCompact(ms)
              /\ messages' = ms /\ journal' = js /\ turn' = Agent!Remembered(t)
           \/ Agent!Proceed(t, ms, js)
    BY <1>3, <2>2 DEF Agent!Settle
  <2> HIDE DEF ms, js
  <2>4. CASE /\ Agent!MayCompact(ms)
             /\ messages' = ms /\ journal' = js /\ turn' = Agent!Remembered(t)
    <3>1. Adds(s1)
      BY <2>3, <2>4 DEF Adds, ms, js
    <3>2. CanCompact(messages', KeepRecent)
      BY <2>4, CompactionIsShared DEF Agent!MayCompact
    <3>3. turn' \in Agent!Turn
      BY <2>4, TurnsAre
    <3> QED
      BY <1>1, <3>1, <3>2, <3>3 DEF StepsWell, CompactionFits
  <2>5. CASE Agent!Proceed(t, ms, js)
    <3>1. PICK s2 \in Seq(Words) : messages' = ms \o s2 /\ journal' = js \o s2
      BY <1>1, <2>2, <2>5, ProceedAdds
    <3>2. s1 \in Seq(Messages) /\ s2 \in Seq(Messages) /\ s1 \o s2 \in Seq(Words)
      BY WordsAre, ConcatProperties
    <3>3. /\ (messages \o s1) \o s2 = messages \o (s1 \o s2)
          /\ (journal \o s1) \o s2 = journal \o (s1 \o s2)
      BY <1>1, <3>2, ConcatAssociative, SMTT(30)
    <3>4. Adds(s1 \o s2)
      BY <2>3, <3>1, <3>2, <3>3 DEF Adds, ms, js
    <3>5. turn' \in Agent!Turn /\ pc' # "compact"
      BY <1>1, <2>2, <2>5, ProceedAdds
    <3> QED
      BY <1>1, <3>4, <3>5 DEF StepsWell, CompactionFits
  <2> QED
    BY <2>3, <2>4, <2>5
<1> QED
  BY <1>2, <1>3

LEMMA CompactDoneSteps ==
    ASSUME LoopTypes, CompactionFits, Agent!CompactDone
    PROVE  StepsWell
<1> DEFINE small == Agent!Compacted(messages, KeepRecent)
<1>1. /\ small = Compacted(messages, KeepRecent) /\ small \in Seq(Messages)
      /\ CanCompact(messages, KeepRecent)
  BY CompactionIsShared, CompactedFits DEF Agent!CompactDone, CompactionFits, LoopTypes
<1>2. /\ shrunk' = shrunk + 1 /\ past' = past
      /\ \/ /\ messages' = small /\ journal' = journal /\ turn' = turn
            /\ pc' \in {"stream", "turn"} /\ streams' \in {streams, streams + 1}
         \/ Agent!Proceed(turn, small, journal) /\ streams' = streams
  BY DEF Agent!CompactDone, Agent!ForgetUsage, Agent!OpenStream
<1> HIDE DEF small
<1>3. CASE /\ messages' = small /\ journal' = journal /\ turn' = turn
           /\ pc' \in {"stream", "turn"} /\ streams' \in {streams, streams + 1}
  <2>1. <<>> \in Seq(Words) /\ small \o <<>> = small /\ journal \o <<>> = journal
    BY <1>1 DEF LoopTypes
  <2>2. Adds(<<>>)
    BY <1>1, <1>2, <1>3, <2>1 DEF Adds
  <2> QED
    BY <1>3, <2>2 DEF StepsWell, LoopTypes, CompactionFits
<1>4. CASE Agent!Proceed(turn, small, journal) /\ streams' = streams
  <2>1. PICK s \in Seq(Words) : messages' = small \o s /\ journal' = journal \o s
    BY <1>1, <1>4, ProceedAdds DEF LoopTypes
  <2>2. turn' \in Agent!Turn /\ pc' # "compact"
    BY <1>1, <1>4, ProceedAdds DEF LoopTypes
  <2>3. Adds(s)
    BY <1>1, <1>2, <2>1 DEF Adds
  <2> QED
    BY <1>4, <2>2, <2>3 DEF StepsWell, LoopTypes, CompactionFits
<1> QED
  BY <1>2, <1>3, <1>4

LEMMA RoundSteps ==
    ASSUME LoopTypes, UNCHANGED <<past, shrunk, streams>>, pc' # "compact",
           turn' \in {turn, Agent!NoTurn},
           \/ UNCHANGED <<messages, journal>>
           \/ /\ messages' = Append(messages, Agent!ResultsMessage(Agent!TurnCalls(turn)))
              /\ journal' = Append(journal, Agent!ResultsMessage(Agent!TurnCalls(turn)))
    PROVE  StepsWell
<1> DEFINE r == ResultsMessage(Agent!TurnCalls(turn))
<1>1. streams' \in Nat /\ turn' \in Agent!Turn /\ CompactionFits'
  BY TurnsAre DEF LoopTypes, CompactionFits
<1>2. r \in Words /\ r \in Messages /\ Agent!ResultsMessage(Agent!TurnCalls(turn)) = r
  BY CallsOfATurn, WordsAre, MessagesAreShared DEF Words, LoopTypes
<1> HIDE DEF r
<1>3. CASE UNCHANGED <<messages, journal>>
  BY <1>1, <1>3, SilenceAdds DEF StepsWell
<1>4. CASE messages' = Append(messages, r) /\ journal' = Append(journal, r)
  <2>1. <<r>> \in Seq(Words) /\ messages \o <<r>> = Append(messages, r)
          /\ journal \o <<r>> = Append(journal, r)
    BY <1>2 DEF LoopTypes
  <2>2. Adds(<<r>>)
    BY <1>4, <2>1 DEF Adds
  <2> QED
    BY <1>1, <2>2 DEF StepsWell
<1> QED
  BY <1>2, <1>3, <1>4

LEMMA LoopSteps ==
    ASSUME LoopTypes, CompactionFits, Agent!Loop
    PROVE  StepsWell
<1>1. CASE Agent!NextTurn
  BY <1>1, NextTurnSteps
<1>2. CASE Agent!CompactDone
  BY <1>2, CompactDoneSteps
<1>3. CASE Agent!StreamEnd \/ Agent!StreamCancelled
  <2>1. PICK t \in Agent!Turn : Agent!Settle(t)
    BY <1>3 DEF Agent!StreamEnd, Agent!StreamCancelled
  <2>2. UNCHANGED <<streams, shrunk>>
    BY <1>3 DEF Agent!StreamEnd, Agent!StreamCancelled
  <2> QED
    BY <2>1, <2>2, SettleSteps
<1>4. CASE Agent!StreamFail
  <2>1. UNCHANGED <<messages, journal, past, shrunk, streams>>
    BY <1>4 DEF Agent!StreamFail, Agent!Leave, Agent!counters
  <2>2. turn' \in {turn, Agent!NoTurn}
    BY <1>4 DEF Agent!StreamFail, Agent!Leave
  <2>3. pc' = "compact" => CanCompact(messages, KeepRecent)
    BY <1>4, CompactionIsShared DEF Agent!StreamFail, Agent!Leave, Agent!MayCompact
  <2>4. turn' \in Agent!Turn
    BY <2>2, TurnsAre DEF LoopTypes
  <2>5. Adds(<<>>)
    BY <2>1, SilenceAdds
  <2> QED
    BY <2>1, <2>3, <2>4, <2>5 DEF StepsWell, CompactionFits, LoopTypes
<1>5. CASE Agent!ToolStart \/ Agent!ToolRuns
  <2>1. UNCHANGED <<messages, journal, past, shrunk, streams, turn>> /\ pc' # "compact"
    BY <1>5 DEF Agent!ToolStart, Agent!ToolRuns, Agent!conversation, Agent!counters
  <2> QED
    BY <2>1, RoundSteps
<1>6. CASE Agent!ToolDone
  <2>1. UNCHANGED <<past, shrunk, streams>> /\ pc' # "compact"
    BY <1>6 DEF Agent!ToolDone, Agent!counters
  <2>2. \/ UNCHANGED <<messages, journal, turn>>
        \/ Agent!EndRound
    BY <1>6 DEF Agent!ToolDone
  <2> QED
    BY <2>1, <2>2, RoundSteps DEF Agent!EndRound
<1>7. CASE Agent!ToolCancelled
  <2>1. UNCHANGED <<past, shrunk, streams>> /\ Agent!CancelRound
    BY <1>7 DEF Agent!ToolCancelled, Agent!counters
  <2> QED
    BY <2>1, RoundSteps DEF Agent!CancelRound, Agent!Leave
<1> QED
  BY <1>1, <1>2, <1>3, <1>4, <1>5, <1>6, <1>7 DEF Agent!Loop

-----------------------------------------------------------------------------
(* Sequences cut where they were joined.                                   *)

LEMMA CutWhereJoined ==
    ASSUME NEW S, NEW p \in Seq(S), NEW u \in Seq(S)
    PROVE  /\ SubSeq(p \o u, 1, Len(p \o u) - Len(u)) = p
           /\ SubSeq(p \o u, Len(p) + 1, Len(p \o u)) = u
<1> DEFINE both == p \o u
           first == SubSeq(both, 1, Len(both) - Len(u))
           second == SubSeq(both, Len(p) + 1, Len(both))
<1>1. /\ both \in Seq(S) /\ Len(both) = Len(p) + Len(u)
      /\ \A i \in 1 .. Len(p) + Len(u) : both[i] = IF i <= Len(p) THEN p[i] ELSE u[i - Len(p)]
  BY ConcatProperties
<1> HIDE DEF both
<1>2. first \in Seq(S) /\ Len(first) = Len(p) /\ \A i \in 1 .. Len(p) : first[i] = both[i]
  <2>1. Len(both) - Len(u) = Len(p) /\ \A i \in 1 .. Len(p) : both[i] \in S
    BY <1>1
  <2> QED
    BY <1>1, <2>1, SubSeqProperties
<1>3. second \in Seq(S) /\ Len(second) = Len(u) /\ \A i \in 1 .. Len(u) : second[i] = both[Len(p) + i]
  <2>1. /\ \A i \in Len(p) + 1 .. Len(both) : both[i] \in S
        /\ Len(p) + 1 \in Int /\ Len(both) \in Int
    BY <1>1
  <2>2. /\ second \in Seq(S)
        /\ Len(second) = IF Len(p) + 1 <= Len(both) THEN Len(both) - (Len(p) + 1) + 1 ELSE 0
        /\ \A i \in 1 .. Len(both) - (Len(p) + 1) + 1 : second[i] = both[(Len(p) + 1) + i - 1]
    BY <2>1, SubSeqProperties
  <2> QED
    BY <1>1, <2>2
<1> HIDE DEF first, second
<1>4. first = p
  <2>1. \A i \in 1 .. Len(p) : first[i] = p[i]
    BY <1>1, <1>2
  <2> QED
    BY <1>2, <2>1, SeqEqual
<1>5. second = u
  <2>1. ASSUME NEW i \in 1 .. Len(u)
        PROVE  second[i] = u[i]
    <3>1. Len(p) + i \in 1 .. Len(p) + Len(u) /\ ~(Len(p) + i <= Len(p)) /\ Len(p) + i - Len(p) = i
      OBVIOUS
    <3> QED
      BY <1>1, <1>3, <3>1
  <2> QED
    BY <1>3, <2>1, SeqEqual
<1> QED
  BY <1>4, <1>5 DEF first, second, both

-----------------------------------------------------------------------------
(* The invariant, action by action.                                        *)

\* The record is a history, like its two parts.
RecordType ==
    past \in Seq(Messages) /\ journal \in Seq(Messages) /\ Record \in Seq(Messages)

LEMMA RecordIs ==
    ASSUME SessionTypes
    PROVE  RecordType
  BY WordsAre DEF SessionTypes, RecordType, Record

\* A persisted record with nothing left to append is all of it.
LEMMA AllIsPersisted ==
    ASSUME NEW rec \in Seq(Messages)
    PROVE  SubSeq(rec, 1, Len(rec) - Len(<<>>)) = rec
<1>1. <<>> \in Seq(Messages) /\ rec \o <<>> = rec /\ Len(<<>>) = 0
  OBVIOUS
<1> QED
  BY <1>1, CutWhereJoined

LEMMA SessionStarts ==
    ASSUME Init
    PROVE  SessionInv
<1>1. /\ messages = <<>> /\ journal = <<>> /\ past = <<>> /\ streams = 0 /\ shrunk = 0
      /\ pc = "idle" /\ turn = Agent!NoTurn
  BY DEF Init, Agent!Init
<1>2. <<>> \in Seq(Messages) /\ <<>> \in Seq(Words) /\ <<>> \in Seq(Entry) /\ Len(<<>>) = 0
      /\ <<>> \o <<>> = <<>>
  OBVIOUS
<1>3. IsTree(disk) /\ Len(disk) = 0
  BY <1>2 DEF IsTree, Init
<1>4. SessionTypes
  BY <1>1, <1>2, <1>3, TurnsAre DEF SessionTypes, Init
<1>5. DiskFollowsTheRecord
  <2>1. Chains(disk)[0] = <<>>
    BY <1>3, ChainsAre
  <2>2. Record = <<>> /\ Parent = 0 /\ unsaved = <<>> /\ phase = "prompt"
    BY <1>1, <1>2, <1>3 DEF Record, Parent, Init
  <2>3. SubSeq(Record, 1, Len(Record) - Len(unsaved)) = <<>>
    BY <1>2, <2>2, AllIsPersisted
  <2> QED
    BY <2>1, <2>2, <2>3 DEF DiskFollowsTheRecord, Persisted
<1> QED
  BY <1>1, <1>2, <1>4, <1>5
     DEF SessionInv, CompactionFits, LoopIdles, CursorIsAtTheEnd, CursorMarksTheRequest,
         SavesWords, Init

LEMMA AskKeeps ==
    ASSUME SessionInv, Ask
    PROVE  SessionInv'
<1>1. /\ phase = "prompt" /\ phase' = "asked" /\ pc = "idle" /\ pc' = "turn"
      /\ past' = Record /\ journal' = <<UserMessage>> /\ messages' = Append(messages, UserMessage)
      /\ shrunk' = 0 /\ streams' = 0 /\ turn' = turn
      /\ UNCHANGED <<front, disk, branch, drained, unsaved, gap>>
  BY DEF Ask, Agent!Submit, file, Record, Agent!UserMessage, UserMessage
<1>2. RecordType
  BY RecordIs DEF SessionInv
<1>3. SessionTypes'
  <2>1. messages' \in Seq(Messages) /\ journal' \in Seq(Words) /\ past' \in Seq(Messages)
    BY <1>1, <1>2, WordsAre DEF SessionInv, SessionTypes, RecordType
  <2> QED
    BY <1>1, <2>1 DEF SessionInv, SessionTypes
<1>4. CursorMarksTheRequest'
  <2>1. front = "interactive" => messages \in Seq(Messages) /\ Len(messages) = drained
          /\ messages' = messages \o <<UserMessage>>
    BY <1>1, WordsAre DEF SessionInv, SessionTypes, CursorIsAtTheEnd
  <2> QED
    BY <1>1, <2>1 DEF CursorMarksTheRequest
<1>5. DiskFollowsTheRecord'
  <2>1. unsaved = <<>> /\ SubSeq(Record, 1, Len(Record) - Len(unsaved)) = Record
    BY <1>1, <1>2, AllIsPersisted DEF SessionInv, CursorIsAtTheEnd, RecordType
  <2>2. Persisted = Record /\ Persisted' = Record
    BY <1>1, <2>1 DEF Persisted
  <2> QED
    BY <1>1, <2>2 DEF SessionInv, DiskFollowsTheRecord, Parent
<1>6. CompactionFits' /\ LoopIdles' /\ CursorIsAtTheEnd' /\ SavesWords'
  BY <1>1 DEF SessionInv, CompactionFits, LoopIdles, CursorIsAtTheEnd, SavesWords
<1> QED
  BY <1>3, <1>4, <1>5, <1>6 DEF SessionInv

LEMMA WorkKeeps ==
    ASSUME SessionInv, Work
    PROVE  SessionInv'
<1>1. /\ phase = "asked" /\ UNCHANGED <<front, phase, disk, branch, drained, unsaved, gap>>
  BY DEF Work, file
<1>2. StepsWell
  <2>1. LoopTypes /\ CompactionFits
    BY DEF SessionInv, SessionTypes, LoopTypes
  <2>2. CASE Agent!Loop
    BY <2>1, <2>2, LoopSteps
  <2>3. CASE Agent!Cancel
    <3>1. UNCHANGED <<messages, journal, past, shrunk, streams, turn, pc>>
      BY <2>3 DEF Agent!Cancel, Agent!conversation, Agent!counters
    <3>2. Adds(<<>>)
      BY <2>1, <3>1, SilenceAdds
    <3> QED
      BY <2>1, <3>1, <3>2 DEF StepsWell, LoopTypes, CompactionFits
  <2> QED
    BY <2>2, <2>3 DEF Work
<1>3. PICK s : Adds(s)
  BY <1>2 DEF StepsWell
<1>4. /\ s \in Seq(Words) /\ s \in Seq(Messages) /\ messages \in Seq(Messages)
      /\ journal \in Seq(Words) /\ journal \in Seq(Messages) /\ journal # <<>>
      /\ shrunk \in Nat
  BY <1>1, <1>3, WordsAre DEF Adds, SessionInv, SessionTypes, CursorMarksTheRequest
<1>5. journal' \in Seq(Words) /\ journal' # <<>>
  <2>1. journal \o s \in Seq(Words) /\ Len(journal \o s) = Len(journal) + Len(s)
    BY <1>4, ConcatProperties
  <2> QED
    BY <1>3, <1>4, <2>1 DEF Adds
<1>6. messages' \in Seq(Messages) /\ shrunk' \in Nat
  <2>1. CASE messages' = messages \o s /\ shrunk' = shrunk
    BY <1>4, <2>1, ConcatProperties
  <2>2. CASE /\ CanCompact(messages, KeepRecent)
             /\ messages' = Compacted(messages, KeepRecent) \o s
             /\ shrunk' = shrunk + 1
    <3>1. Compacted(messages, KeepRecent) \in Seq(Messages)
      BY <1>4, <2>2, CompactedFits
    <3> QED
      BY <1>4, <2>2, <3>1, ConcatProperties
  <2> QED
    BY <1>3, <2>1, <2>2 DEF Adds
<1>7. SessionTypes'
  BY <1>1, <1>2, <1>3, <1>5, <1>6 DEF Adds, StepsWell, SessionInv, SessionTypes
<1>8. CursorMarksTheRequest'
  <2> SUFFICES ASSUME front = "interactive", shrunk' = 0
               PROVE  \E start \in Seq(Messages) : Len(start) = drained /\ messages' = start \o journal'
    BY <1>1, <1>5 DEF CursorMarksTheRequest
  <2>1. messages' = messages \o s /\ shrunk = 0 /\ journal' = journal \o s
    BY <1>3, <1>4 DEF Adds
  <2>2. PICK start \in Seq(Messages) : Len(start) = drained /\ messages = start \o journal
    BY <1>1, <2>1 DEF SessionInv, CursorMarksTheRequest
  <2>3. (start \o journal) \o s = start \o (journal \o s)
    BY <1>4, <2>2, ConcatAssociative
  <2> QED
    BY <2>1, <2>2, <2>3
<1>9. DiskFollowsTheRecord'
  BY <1>1, <1>3 DEF Adds, SessionInv, DiskFollowsTheRecord, Parent, Persisted
<1>10. CompactionFits' /\ LoopIdles' /\ CursorIsAtTheEnd' /\ SavesWords'
  BY <1>1, <1>2 DEF StepsWell, SessionInv, LoopIdles, CursorIsAtTheEnd, SavesWords
<1> QED
  BY <1>7, <1>8, <1>9, <1>10 DEF SessionInv

LEMMA CollectKeeps ==
    ASSUME SessionInv, Collect
    PROVE  SessionInv'
<1>1. /\ phase = "asked" /\ phase' = "saving" /\ pc = "idle"
      /\ UNCHANGED <<messages, journal, past, streams, shrunk, turn, pc, front, disk, branch>>
      /\ IF front = "interactive" THEN Drain ELSE Produced
      /\ ~gap' => ~gap /\ (front = "interactive" => ~(shrunk > 0))
                       /\ (front # "interactive" => ProducedHistory)
  BY DEF Collect, agent, file
<1>2. /\ messages \in Seq(Messages) /\ journal \in Seq(Words) /\ journal \in Seq(Messages)
      /\ past \in Seq(Messages) /\ journal # <<>> /\ drained \in Nat /\ shrunk \in Nat
  BY <1>1, WordsAre DEF SessionInv, SessionTypes, CursorMarksTheRequest
<1>3. unsaved' \in Seq(Messages) /\ drained' \in Nat
      /\ (front = "interactive" => drained' = Len(messages))
  <2>1. CASE front = "interactive"
    <3>1. CursorWithin(messages) + 1 \in 1 .. Len(messages) + 1
      BY <1>2 DEF CursorWithin
    <3>2. \A i \in CursorWithin(messages) + 1 .. Len(messages) : messages[i] \in Messages
      BY <1>2, <3>1
    <3>3. SubSeq(messages, CursorWithin(messages) + 1, Len(messages)) \in Seq(Messages)
      BY <1>2, <3>1, <3>2, SubSeqProperties
    <3>4. /\ unsaved' = SubSeq(messages, CursorWithin(messages) + 1, Len(messages))
          /\ drained' = Len(messages)
      BY <1>1, <2>1 DEF Drain
    <3>5. Len(messages) \in Nat
      BY <1>2
    <3> QED
      BY <3>3, <3>4, <3>5
  <2>2. CASE front # "interactive"
    <3>1. unsaved' = IF ProducedHistory THEN journal ELSE <<>>
      BY <1>1, <2>2 DEF Produced
    <3>2. drained' = drained
      BY <1>1, <2>2 DEF Produced
    <3> QED
      BY <1>2, <2>2, <3>1, <3>2
  <2> QED
    BY <2>1, <2>2
<1>4. ASSUME ~gap'
      PROVE  unsaved' = journal
  <2>1. CASE front = "interactive"
    <3>1. shrunk = 0
      BY <1>1, <1>2, <1>4, <2>1
    <3>2. PICK start \in Seq(Messages) : Len(start) = drained /\ messages = start \o journal
      BY <1>1, <2>1, <3>1 DEF SessionInv, CursorMarksTheRequest
    <3>3. CursorWithin(messages) = Len(start)
      <4>1. Len(messages) = Len(start) + Len(journal)
        BY <1>2, <3>2, ConcatProperties
      <4> QED
        BY <1>2, <3>2, <4>1 DEF CursorWithin
    <3>4. unsaved' = SubSeq(start \o journal, Len(start) + 1, Len(start \o journal))
      BY <1>1, <2>1, <3>2, <3>3 DEF Drain
    <3> QED
      BY <1>2, <3>2, <3>4, CutWhereJoined
  <2>2. CASE front # "interactive"
    BY <1>1, <1>4, <2>2 DEF Produced
  <2> QED
    BY <2>1, <2>2
<1>5. SessionTypes'
  BY <1>1, <1>3 DEF SessionInv, SessionTypes
<1>6. DiskFollowsTheRecord'
  <2> SUFFICES ASSUME ~gap'
               PROVE  Chains(disk)[Parent] = Persisted' /\ Persisted' \o unsaved' = Record
    BY <1>1 DEF DiskFollowsTheRecord, Parent, Record
  <2>1. Chains(disk)[Parent] = past
    BY <1>1 DEF SessionInv, DiskFollowsTheRecord, Persisted
  <2>2. unsaved' = journal /\ Record' = Record /\ Record = past \o journal
    BY <1>1, <1>4 DEF Record
  <2>3. Persisted' = SubSeq(past \o journal, 1, Len(past \o journal) - Len(journal))
    BY <1>1, <2>2 DEF Persisted
  <2>4. Persisted' = past
    BY <1>2, <2>3, CutWhereJoined
  <2> QED
    BY <2>1, <2>2, <2>4
<1>7. SavesWords'
  BY <1>2, <1>4 DEF SavesWords
<1>8. CompactionFits' /\ LoopIdles' /\ CursorIsAtTheEnd' /\ CursorMarksTheRequest'
  BY <1>1, <1>3 DEF CompactionFits, LoopIdles, CursorIsAtTheEnd, CursorMarksTheRequest
<1> QED
  BY <1>5, <1>6, <1>7, <1>8 DEF SessionInv

LEMMA SaveKeeps ==
    ASSUME SessionInv, Save
    PROVE  SessionInv'
<1> DEFINE m == Head(unsaved)
           rest == Tail(unsaved)
<1>1. /\ phase = "saving" /\ unsaved # <<>>
      /\ disk' = Append(disk, [parent |-> Parent, message |-> m])
      /\ branch' = IF branch # 0 THEN Len(disk) + 1 ELSE 0
      /\ unsaved' = rest
      /\ UNCHANGED <<messages, journal, past, streams, shrunk, turn, pc, front, phase,
                     drained, gap>>
  BY DEF Save, AppendRecord, NextBranch, agent
<1>2. /\ IsTree(disk) /\ branch \in 0 .. Len(disk) /\ unsaved \in Seq(Messages)
      /\ Len(disk) \in Nat
  BY TreeIs DEF SessionInv, SessionTypes
<1>3. /\ m \in Messages /\ rest \in Seq(Messages) /\ unsaved = <<m>> \o rest
      /\ Parent \in 0 .. Len(disk)
      /\ unsaved \in Seq(Words) => m \in Words /\ rest \in Seq(Words)
  <2>1. m \in Messages /\ rest \in Seq(Messages)
    BY <1>1, <1>2
  <2>2. unsaved = <<m>> \o rest
    BY <1>1, <1>2
  <2>3. Parent \in 0 .. Len(disk)
    BY <1>2 DEF Parent
  <2>4. unsaved \in Seq(Words) => m \in Words /\ rest \in Seq(Words)
    BY <1>1
  <2> QED
    BY <2>1, <2>2, <2>3, <2>4
<1> HIDE DEF m, rest
<1>4. /\ IsTree(disk') /\ Len(disk') = Len(disk) + 1
      /\ Chains(disk')[Len(disk')] = Onward(Chains(disk)[Parent], m)
  <2> DEFINE p == Parent
             more == Grown(disk, p, m)
  <2>1. p \in 0 .. Len(disk)
    BY <1>3
  <2> HIDE DEF p
  <2>2. /\ IsTree(more) /\ Len(more) = Len(disk) + 1
        /\ Chains(more)[Len(more)] = Onward(Chains(disk)[p], m)
    BY <1>2, <1>3, <2>1, ChainsGrow
  <2>3. disk' = more
    BY <1>1 DEF p, Grown
  <2> QED
    BY <2>2, <2>3 DEF p
<1>5. branch' \in {0, Len(disk')} /\ branch' \in 0 .. Len(disk') /\ Parent' = Len(disk')
  BY <1>1, <1>2, <1>4 DEF Parent
<1>6. SessionTypes'
  BY <1>1, <1>3, <1>4, <1>5 DEF SessionInv, SessionTypes
<1>7. SavesWords'
  BY <1>1, <1>3, <1>5 DEF SessionInv, SavesWords
<1>8. DiskFollowsTheRecord'
  <2> SUFFICES ASSUME ~gap
               PROVE  /\ Chains(disk')[Parent'] = Persisted'
                      /\ Persisted' \o unsaved' = Record'
    BY <1>1 DEF DiskFollowsTheRecord
  <2> DEFINE saved == Chains(disk)[Parent]
             one == <<m>>
  <2>1. m \in Words /\ rest \in Seq(Messages) /\ one \in Seq(Messages) /\ unsaved = one \o rest
    BY <1>1, <1>3 DEF SessionInv, SavesWords
  <2>2. saved \in Seq(Messages)
    BY <1>2, <1>3, ChainsType
  <2>3. saved \o unsaved = Record /\ Record' = Record
    BY <1>1 DEF SessionInv, DiskFollowsTheRecord, Record
  <2> HIDE DEF saved
  <2>4. Chains(disk')[Parent'] = Append(saved, m)
    BY <1>4, <1>5, <2>1 DEF saved, Onward, Words
  <2>5. Append(saved, m) \in Seq(Messages) /\ Append(saved, m) = saved \o one
    BY <1>3, <2>2
  <2> HIDE DEF one
  <2>6. Append(saved, m) \o rest = Record
    <3>1. (saved \o one) \o rest = saved \o (one \o rest)
      BY <2>1, <2>2, ConcatAssociative
    <3> QED
      BY <2>1, <2>3, <2>5, <3>1
  <2>7. Persisted' = SubSeq(Append(saved, m) \o rest, 1, Len(Append(saved, m) \o rest) - Len(rest))
    BY <1>1, <2>3, <2>6 DEF Persisted
  <2>8. Persisted' = Append(saved, m)
    BY <2>1, <2>5, <2>7, CutWhereJoined
  <2> QED
    BY <1>1, <2>3, <2>4, <2>6, <2>8
<1>9. CompactionFits' /\ LoopIdles' /\ CursorIsAtTheEnd' /\ CursorMarksTheRequest'
  BY <1>1 DEF SessionInv, CompactionFits, LoopIdles, CursorIsAtTheEnd, CursorMarksTheRequest
<1> QED
  BY <1>6, <1>7, <1>8, <1>9 DEF SessionInv

LEMMA SavedKeeps ==
    ASSUME SessionInv, Saved
    PROVE  SessionInv'
<1>1. /\ phase = "saving" /\ unsaved = <<>> /\ branch' = 0
      /\ phase' = IF front = "interactive" THEN "prompt" ELSE "off"
      /\ UNCHANGED <<messages, journal, past, streams, shrunk, turn, pc, front, disk,
                     drained, unsaved, gap>>
  BY DEF Saved, agent
<1>2. phase' \in {"prompt", "off"} /\ (phase' = "prompt" => front = "interactive")
  BY <1>1 DEF SessionInv, SessionTypes
<1>3. SessionTypes'
  BY <1>1, <1>2 DEF SessionInv, SessionTypes, IsTree
<1>4. DiskFollowsTheRecord'
  BY <1>1, <1>2 DEF SessionInv, SavesWords, DiskFollowsTheRecord, Parent, Persisted, Record
<1> QED
  BY <1>1, <1>2, <1>3, <1>4
     DEF SessionInv, CompactionFits, LoopIdles, CursorIsAtTheEnd, CursorMarksTheRequest, SavesWords

LEMMA CompactKeeps ==
    ASSUME SessionInv, Compact
    PROVE  SessionInv'
<1>1. /\ phase = "prompt" /\ front = "interactive" /\ pc = "idle"
      /\ CanCompact(messages, KeepRecent) /\ messages' = Compacted(messages, KeepRecent)
      /\ shrunk' = shrunk + 1 /\ drained' = CursorWithin(messages')
      /\ UNCHANGED <<journal, past, streams, turn, pc, front, phase, disk, branch, unsaved, gap>>
  BY CompactionIsShared DEF Compact, Agent!CompactNow, Agent!ForgetUsage, file
<1>2. messages \in Seq(Messages) /\ drained = Len(messages) /\ shrunk \in Nat
  BY <1>1 DEF SessionInv, SessionTypes, CursorIsAtTheEnd
<1>3. messages' \in Seq(Messages) /\ Len(messages') <= Len(messages)
  BY <1>1, <1>2, CompactedFits
<1>4. drained' = Len(messages') /\ drained' \in Nat
  BY <1>1, <1>2, <1>3 DEF CursorWithin
<1>5. SessionTypes'
  BY <1>1, <1>2, <1>3, <1>4 DEF SessionInv, SessionTypes
<1>6. DiskFollowsTheRecord'
  BY <1>1 DEF SessionInv, DiskFollowsTheRecord, Parent, Persisted, Record
<1> QED
  BY <1>1, <1>4, <1>5, <1>6
     DEF SessionInv, CompactionFits, LoopIdles, CursorIsAtTheEnd, CursorMarksTheRequest, SavesWords

LEMMA ForkKeeps ==
    ASSUME SessionInv, Fork
    PROVE  SessionInv'
<1>1. /\ phase = "prompt" /\ front = "interactive" /\ pc = "idle" /\ unsaved = <<>>
      /\ UNCHANGED <<pc, shrunk, streams, turn, front, phase, unsaved>>
  BY DEF Fork, SessionInv, LoopIdles, CursorIsAtTheEnd
<1>2. IsTree(disk) /\ branch \in 0 .. Len(disk) /\ Len(disk) \in Nat
  BY TreeIs DEF SessionInv, SessionTypes
<1>3. PICK r \in DOMAIN disk :
         LET next == Chains(disk)[r]
         IN  \/ /\ AppendRecord(r, UserMessage)
                /\ Holding(Append(next, UserMessage))
                /\ branch' = Len(disk) + 1
                /\ drained' = Len(next) + 1
             \/ /\ Holding(next)
                /\ branch' = r /\ drained' = Len(next)
                /\ UNCHANGED disk
  BY DEF Fork, ResumePoints
<1> DEFINE next == Chains(disk)[r]
<1>4. r \in 1 .. Len(disk) /\ r \in 0 .. Len(disk)
  <2>1. DOMAIN disk = 1 .. Len(disk)
    BY <1>2 DEF IsTree
  <2> QED
    BY <1>2, <1>3, <2>1
<1>5. next \in Seq(Messages)
  BY <1>2, <1>4, ChainsType
<1>6. \/ /\ disk' = Append(disk, [parent |-> r, message |-> UserMessage])
         /\ Holding(Append(next, UserMessage))
         /\ branch' = Len(disk) + 1
         /\ drained' = Len(next) + 1
      \/ /\ Holding(next)
         /\ branch' = r /\ drained' = Len(next)
         /\ disk' = disk
  BY <1>3 DEF AppendRecord
<1>7. /\ IsTree(disk') /\ branch' \in 0 .. Len(disk')
      /\ Chains(disk')[Parent'] = messages' /\ messages' \in Seq(Messages)
      /\ past' = messages' /\ journal' = <<>> /\ drained' = Len(messages')
  <2>1. CASE /\ disk' = Append(disk, [parent |-> r, message |-> UserMessage])
             /\ Holding(Append(next, UserMessage))
             /\ branch' = Len(disk) + 1
             /\ drained' = Len(next) + 1
    <3> DEFINE more == Grown(disk, r, UserMessage)
    <3>1. /\ IsTree(more) /\ Len(more) = Len(disk) + 1
          /\ Chains(more)[Len(more)] = Onward(Chains(disk)[r], UserMessage)
      BY <1>2, <1>4, WordsAre, ChainsGrow
    <3>2. Onward(next, UserMessage) = Append(next, UserMessage)
      BY WordsAre DEF Onward
    <3>3. disk' = more
      BY <2>1 DEF Grown
    <3> HIDE DEF next, more
    <3>4. Chains(disk')[Len(disk')] = Append(next, UserMessage) /\ Len(disk') = Len(disk) + 1
          /\ IsTree(disk')
      BY <3>1, <3>2, <3>3 DEF next
    <3>5. Parent' = Len(disk') /\ branch' \in 0 .. Len(disk')
      BY <1>2, <2>1, <3>4 DEF Parent
    <3>6. Append(next, UserMessage) \in Seq(Messages)
          /\ Len(Append(next, UserMessage)) = Len(next) + 1
      BY <1>5, WordsAre
    <3> QED
      BY <2>1, <3>4, <3>5, <3>6 DEF Holding
  <2>2. CASE /\ Holding(next)
             /\ branch' = r /\ drained' = Len(next)
             /\ disk' = disk
    <3>1. Parent' = r
      BY <1>4, <2>2 DEF Parent
    <3>2. Chains(disk')[Parent'] = next
      BY <2>2, <3>1
    <3> HIDE DEF next
    <3> QED
      BY <1>2, <1>4, <1>5, <2>2, <3>2 DEF Holding
  <2> QED
    BY <1>6, <2>1, <2>2
<1>8. SessionTypes'
  <2>1. <<>> \in Seq(Words) /\ Len(messages') \in Nat
    BY <1>7
  <2> QED
    BY <1>1, <1>7, <2>1 DEF SessionInv, SessionTypes
<1>9. DiskFollowsTheRecord'
  <2>1. Record' = messages'
    BY <1>7 DEF Record
  <2>2. Persisted' = messages'
    BY <1>1, <1>7, <2>1, AllIsPersisted DEF Persisted
  <2> QED
    BY <1>1, <1>7, <2>2 DEF DiskFollowsTheRecord
<1> QED
  BY <1>1, <1>7, <1>8, <1>9
     DEF SessionInv, CompactionFits, LoopIdles, CursorIsAtTheEnd, CursorMarksTheRequest, SavesWords

\* What a process that starts from a history holds.
LEMMA FreshIs ==
    ASSUME SessionInv, NEW history \in Seq(Messages), Fresh(history), disk' = disk,
           front' \in Fronts, phase' \in {"off", "prompt"}
    PROVE  /\ SessionTypes' /\ CompactionFits' /\ LoopIdles' /\ CursorIsAtTheEnd'
           /\ CursorMarksTheRequest' /\ SavesWords'
           /\ Parent' = Len(disk) /\ Persisted' = history
<1>1. /\ messages' = history /\ past' = history /\ journal' = <<>>
      /\ drained' = Len(history) /\ unsaved' = <<>> /\ branch' = 0
      /\ pc' = "idle" /\ shrunk' = 0 /\ streams' = 0 /\ turn' = Agent!NoTurn
  BY DEF Fresh, Holding
<1>2. /\ IsTree(disk') /\ 0 \in 0 .. Len(disk') /\ Len(history) \in Nat
      /\ <<>> \in Seq(Words) /\ <<>> \in Seq(Messages)
  BY TreeIs DEF SessionInv, SessionTypes
<1>3. SessionTypes'
  BY <1>1, <1>2, TurnsAre DEF SessionTypes
<1>4. Persisted' = history
  <2>1. Record' = history
    BY <1>1 DEF Record
  <2> QED
    BY <1>1, <2>1, AllIsPersisted DEF Persisted
<1>5. Parent' = Len(disk)
  BY <1>1 DEF Parent
<1> QED
  BY <1>1, <1>3, <1>4, <1>5
     DEF CompactionFits, LoopIdles, CursorIsAtTheEnd, CursorMarksTheRequest, SavesWords

LEMMA CrashKeeps ==
    ASSUME SessionInv, Crash
    PROVE  SessionInv'
<1>1. phase' = "off" /\ Fresh(<<>>) /\ disk' = disk /\ front' \in Fronts
  BY DEF Crash, SessionInv, SessionTypes
<1>2. <<>> \in Seq(Messages)
  OBVIOUS
<1> QED
  BY <1>1, <1>2, FreshIs DEF SessionInv, DiskFollowsTheRecord

LEMMA ReopenKeeps ==
    ASSUME SessionInv, Reopen
    PROVE  SessionInv'
<1>1. phase' = "prompt" /\ Fresh(Conversation(disk)) /\ disk' = disk /\ front' \in Fronts
  BY DEF Reopen
<1>2. Conversation(disk) \in Seq(Messages)
  <2>1. IsTree(disk) /\ Len(disk) \in 0 .. Len(disk)
    BY TreeIs DEF SessionInv, SessionTypes
  <2> QED
    BY <2>1, ChainsType DEF Conversation
<1>3. /\ SessionTypes' /\ CompactionFits' /\ LoopIdles' /\ CursorIsAtTheEnd'
      /\ CursorMarksTheRequest' /\ SavesWords'
      /\ Parent' = Len(disk) /\ Persisted' = Conversation(disk)
  BY <1>1, <1>2, FreshIs
<1>4. DiskFollowsTheRecord'
  BY <1>1, <1>3 DEF DiskFollowsTheRecord, Conversation
<1> QED
  BY <1>3, <1>4 DEF SessionInv

-----------------------------------------------------------------------------

(* Whatever is asked, cancelled, compacted, forked, killed and opened       *)
(* again, the path that the next record extends is the conversation up to  *)
(* what is still to be appended (interactive.rs, take_turn and             *)
(* resume_from; session/store.rs, append_child and path_to).               *)
THEOREM TheFileFollowsTheConversation == Spec => []DiskFollowsTheRecord
<1>1. Init => SessionInv
  BY SessionStarts
<1>2. SessionInv /\ [Next]_vars => SessionInv'
  <2> SUFFICES ASSUME SessionInv, [Next]_vars
               PROVE  SessionInv'
    OBVIOUS
  <2>1. CASE Ask
    BY <2>1, AskKeeps
  <2>2. CASE Work
    BY <2>2, WorkKeeps
  <2>3. CASE Collect
    BY <2>3, CollectKeeps
  <2>4. CASE Save
    BY <2>4, SaveKeeps
  <2>5. CASE Saved
    BY <2>5, SavedKeeps
  <2>6. CASE Compact
    BY <2>6, CompactKeeps
  <2>7. CASE Fork
    BY <2>7, ForkKeeps
  <2>8. CASE Crash
    BY <2>8, CrashKeeps
  <2>9. CASE Reopen
    BY <2>9, ReopenKeeps
  <2>10. CASE UNCHANGED vars
    <3>1. UNCHANGED <<messages, journal, past, streams, shrunk, turn, pc, front, phase,
                      disk, branch, drained, unsaved, gap>>
      BY <2>10 DEF vars, agent, file
    <3> QED
      BY <3>1 DEF SessionInv, SessionTypes, CompactionFits, LoopIdles, CursorIsAtTheEnd,
          CursorMarksTheRequest, SavesWords, DiskFollowsTheRecord, Persisted, Parent, Record,
          IsTree
  <2> QED
    BY <2>1, <2>2, <2>3, <2>4, <2>5, <2>6, <2>7, <2>8, <2>9, <2>10 DEF Next
<1>3. SessionInv => DiskFollowsTheRecord
  BY DEF SessionInv
<1> QED
  BY <1>1, <1>2, <1>3, PTL DEF Spec

=============================================================================
