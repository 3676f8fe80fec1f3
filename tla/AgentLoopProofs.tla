-------------------------- MODULE AgentLoopProofs --------------------------
(***************************************************************************)
(* The agent loop for every value of its constants: types, the pairing of  *)
(* calls and results in the context and in the record, the price of the    *)
(* streams, the anchor of the usage, the context as a view of the record,  *)
(* what was typed, and the record as an implementation of Transcript.      *)
(***************************************************************************)
EXTENDS AgentLoop, Facts

\* The turn the loop is acting on is the last thing that was said.
Acting == pc \in {"round", "tool"} \/ (pc = "compact" /\ cause = "above")

LastCalls(ms, t) ==
    t.calls > 0 => /\ Len(ms) > 0
                   /\ ms[Len(ms)].uses = TurnCalls(t)
                   /\ ms[Len(ms)].answers = {}

LastIsTheTurn ==
    Acting => LastCalls(messages, turn) /\ LastCalls(journal, turn)

NothingOpen == ~MayBeOpen => AllCallsAnswered(journal)

\* The calls of a turn that made none cannot be pending.
NoCallsNothingOpen == Acting /\ turn.calls = 0 => AllCallsAnswered(journal)

RoundIsRunning ==
    pc \in {"round", "tool"} => round.answered < turn.calls

CompactionIsUseful ==
    pc = "compact" =>
        /\ cause # "none" /\ CanCompact(messages, KeepRecent)
        /\ cause # "threshold" => compactions < MAX_COMPACTIONS

RoundsWithinLimit == pc # "idle" => rounds <= ToolLimit

\* A stream about to be opened has already been paid for.
PaidInAdvance ==
    pc \in {"turn", "round", "tool"} \/ (pc = "compact" /\ cause = "threshold")
        => streams <= rounds + compactions

IInv ==
    /\ TypeOK
    /\ Paired(messages)
    /\ ClosedButLast(journal) /\ NothingOpen /\ NoCallsNothingOpen
    /\ LastIsTheTurn /\ RoundIsRunning
    /\ CompactionIsUseful
    /\ RoundsWithinLimit
    /\ StreamsArePaidFor /\ PaidInAdvance
    /\ UsageIsOfThisHistory

Messages == Message(CallId)

-----------------------------------------------------------------------------
(* The pieces of a step.                                                   *)

(* The calls of a turn, as a set of identifiers.                           *)
LEMMA TurnCallsType ==
    ASSUME streams \in Nat, NEW t \in Turn
    PROVE  /\ TurnCalls(t) \in SUBSET CallId
           /\ t.calls = 0 <=> TurnCalls(t) = {}
           /\ t.calls \in Nat
<1>1. t.calls \in Nat
  BY LoopConstants DEF Turn
<1>2. TurnCalls(t) \in SUBSET CallId
  BY <1>1 DEF TurnCalls, CallId
<1>3. t.calls = 0 => TurnCalls(t) = {}
  BY DEF TurnCalls
<1>4. t.calls # 0 => <<streams, 1>> \in TurnCalls(t)
  BY <1>1 DEF TurnCalls
<1> QED BY <1>1, <1>2, <1>3, <1>4

(* Recording a turn at the end of a history or of a record.                *)
LEMMA RecordedKeeps ==
    ASSUME streams \in Nat, NEW t \in Turn, NEW ms \in Seq(Messages)
    PROVE  /\ Recorded(t, ms) \in Seq(Messages)
           /\ Len(Recorded(t, ms)) >= Len(ms)
           /\ Paired(ms) => Paired(Recorded(t, ms))
           /\ AllCallsAnswered(ms) =>
                /\ ClosedButLast(Recorded(t, ms))
                /\ t.calls = 0 => AllCallsAnswered(Recorded(t, ms))
           /\ LastCalls(Recorded(t, ms), t)
<1> DEFINE body == IF t.said = "nothing" THEN "none" ELSE "text"
           discarded == t.interrupted \/ t.stop = "failed"
           m == AssistantMessage(TurnCalls(t), body, discarded)
<1>1. /\ m \in Messages /\ m.uses = TurnCalls(t) /\ m.answers = {}
  <2>1. body \in Bodies
    BY DEF Bodies
  <2>2. discarded \in BOOLEAN
    BY Zenon
  <2>3. TurnCalls(t) \in SUBSET CallId
    BY TurnCallsType
  <2> HIDE DEF body, discarded
  <2> QED BY <2>1, <2>2, <2>3, MessageTypes DEF Messages
<1>2. Recorded(t, ms) = IF IsEmpty(m) THEN ms ELSE Append(ms, m)
  BY DEF Recorded
<1> HIDE DEF m
<1>3. CASE IsEmpty(m)
  <2>1. t.calls = 0
    <3>1. TurnCalls(t) = {}
      BY <1>1, <1>3 DEF IsEmpty
    <3> QED BY <3>1, TurnCallsType
  <2> QED BY <1>2, <1>3, <2>1 DEF LastCalls, ClosedButLast, AllCallsAnswered
<1>4. CASE ~IsEmpty(m)
  <2>1. Append(ms, m) \in Seq(Messages) /\ Len(Append(ms, m)) = Len(ms) + 1
        /\ Append(ms, m)[Len(ms) + 1] = m
    BY <1>1
  <2>2. Paired(ms) => Paired(Append(ms, m))
    BY <1>1, PairedAppend DEF Messages
  <2>3. AllCallsAnswered(ms) =>
          /\ ClosedButLast(Append(ms, m))
          /\ t.calls = 0 => AllCallsAnswered(Append(ms, m))
    BY <1>1, ClosedAppend, TurnCallsType DEF Messages
  <2>4. LastCalls(Append(ms, m), t)
    BY <1>1, <2>1 DEF LastCalls
  <2> QED BY <1>2, <1>4, <2>1, <2>2, <2>3, <2>4
<1> QED BY <1>3, <1>4

(* Answering every call of the turn that was said last.                    *)
LEMMA ResultsFollow ==
    ASSUME streams \in Nat, NEW t \in Turn, t.calls > 0,
           NEW ms \in Seq(Messages), LastCalls(ms, t)
    PROVE  LET r == ResultsMessage(TurnCalls(t))
           IN  /\ Append(ms, r) \in Seq(Messages)
               /\ Len(Append(ms, r)) = Len(ms) + 1
               /\ Paired(ms) => Paired(Append(ms, r))
               /\ ClosedButLast(ms) => AllCallsAnswered(Append(ms, r))
<1> DEFINE r == ResultsMessage(TurnCalls(t))
<1>1. r \in Messages /\ r.uses = {} /\ r.answers = TurnCalls(t) /\ r.role = "user"
  BY TurnCallsType, MessageTypes DEF Messages
<1> HIDE DEF r
<1>2. Len(ms) > 0 /\ ms[Len(ms)].uses = TurnCalls(t)
  BY DEF LastCalls
<1>3. Paired(ms) => Paired(Append(ms, r))
  BY <1>1, <1>2, PairedAppend DEF Messages
<1>4. ClosedButLast(ms) => AllCallsAnswered(Append(ms, r))
  BY <1>1, <1>2, AnswersClose DEF Messages
<1> QED BY <1>1, <1>3, <1>4 DEF r

(* A request that leaves closing its calls leaves both sides in order.      *)
LEMMA ClosePendingKeeps ==
    ASSUME streams \in Nat, NEW t \in Turn, NEW ms \in Seq(Messages),
           LastCalls(ms, t)
    PROVE  /\ ClosePending(t, ms) \in Seq(Messages)
           /\ Len(ClosePending(t, ms)) >= Len(ms)
           /\ Paired(ms) => Paired(ClosePending(t, ms))
           /\ ClosedButLast(ms) /\ (t.calls = 0 => AllCallsAnswered(ms))
                => AllCallsAnswered(ClosePending(t, ms))
<1>1. CASE t.calls = 0
  BY <1>1 DEF ClosePending
<1>2. CASE t.calls # 0
  <2>1. t.calls > 0
    BY <1>2, TurnCallsType
  <2> QED BY <1>2, <2>1, ResultsFollow DEF ClosePending
<1> QED BY <1>1, <1>2

(* The records the loop starts from and keeps.                             *)
LEMMA TurnTypes ==
    /\ NoTurn \in Turn
    /\ NoRound \in Round /\ NoRound.answered = 0
    /\ \A t \in Turn : /\ Remembered(t) \in Turn
                       /\ Remembered(t).calls = t.calls
                       /\ t.calls \in 0 .. MaxCalls
<1>1. NoTurn \in Turn
  BY LoopConstants DEF NoTurn, Turn, StopReasons
<1>2. NoRound \in Round /\ NoRound.answered = 0
  BY LoopConstants DEF NoRound, Round
<1>3. ASSUME NEW t \in Turn
      PROVE  /\ Remembered(t) \in Turn /\ Remembered(t).calls = t.calls
             /\ t.calls \in 0 .. MaxCalls
  BY DEF Remembered, Turn
<1> QED BY <1>1, <1>2, <1>3

\* A context and a record that a turn t was just recorded in.
Said(t, ms, js) ==
    /\ ms \in Seq(Messages) /\ js \in Seq(Messages)
    /\ Paired(ms) /\ ClosedButLast(js)
    /\ LastCalls(ms, t) /\ LastCalls(js, t)
    /\ t.calls = 0 => AllCallsAnswered(js)

\* What holds of the loop wherever it goes from there.
ProceedsWell(ms) ==
    /\ messages' \in Seq(Messages) /\ journal' \in Seq(Messages)
    /\ Len(messages') >= Len(ms)
    /\ Paired(messages)' /\ ClosedButLast(journal)'
    /\ turn' \in Turn /\ round' \in Round /\ cause' = "none"
    /\ result' \in Results
    /\ rounds' \in rounds .. ToolLimit + 1
    /\ \/ /\ pc' = "idle"
          /\ result' # "answered" => AllCallsAnswered(journal)'
       \/ /\ pc' = "round"
          /\ rounds' = rounds + 1 /\ rounds' <= ToolLimit
          /\ turn'.calls > 0 /\ round'.answered < turn'.calls
          /\ LastCalls(messages, turn)' /\ LastCalls(journal, turn)'

(* What follows a recorded turn keeps both sides in order, and leaves       *)
(* nothing open but an answer.                                             *)
LEMMA ProceedKeeps ==
    ASSUME streams \in Nat, UNCHANGED streams, rounds \in 0 .. ToolLimit,
           result \in Results, round \in Round,
           NEW t \in Turn, NEW ms, NEW js, Said(t, ms, js),
           Proceed(t, ms, js)
    PROVE  ProceedsWell(ms)
<1>1. NoTurn \in Turn /\ NoRound \in Round /\ Remembered(t) \in Turn
      /\ Remembered(t).calls = t.calls /\ t.calls \in Nat
  BY TurnTypes, LoopConstants
<1>2. ASSUME Leave(ClosePending(t, ms), ClosePending(t, js), "cancelled")
             \/ Leave(ClosePending(t, ms), ClosePending(t, js), "limit"),
             rounds' \in rounds .. ToolLimit + 1, UNCHANGED round
      PROVE  ProceedsWell(ms)
  <2>1. /\ ClosePending(t, ms) \in Seq(Messages)
        /\ Len(ClosePending(t, ms)) >= Len(ms)
        /\ Paired(ClosePending(t, ms))
    BY ClosePendingKeeps DEF Said
  <2>2. /\ ClosePending(t, js) \in Seq(Messages)
        /\ AllCallsAnswered(ClosePending(t, js))
    BY ClosePendingKeeps DEF Said
  <2>3. ClosedButLast(ClosePending(t, js))
    BY <2>2 DEF AllCallsAnswered, ClosedButLast
  <2>4. /\ messages' = ClosePending(t, ms) /\ journal' = ClosePending(t, js)
        /\ pc' = "idle" /\ result' \in Results /\ turn' = NoTurn /\ cause' = "none"
    BY <1>2 DEF Leave, Results
  <2> QED BY <1>1, <1>2, <2>1, <2>2, <2>3, <2>4 DEF ProceedsWell
<1>3. CASE t.interrupted
  <2>1. Leave(ClosePending(t, ms), ClosePending(t, js), "cancelled")
        /\ UNCHANGED <<rounds, round>>
    BY <1>3 DEF Proceed
  <2>2. rounds' \in rounds .. ToolLimit + 1
    BY <2>1, LoopConstants
  <2> QED BY <1>2, <2>1, <2>2
<1>4. CASE ~t.interrupted /\ ~WantsTools(t)
  <2>1. Leave(ms, js, "answered") /\ UNCHANGED <<rounds, round>>
    BY <1>4 DEF Proceed
  <2>2. rounds' \in rounds .. ToolLimit + 1
    BY <2>1, LoopConstants
  <2> QED BY <1>1, <2>1, <2>2 DEF Said, Leave, Results, ProceedsWell
<1>5. CASE ~t.interrupted /\ WantsTools(t) /\ UnderLimit
  <2>1. /\ rounds' = rounds + 1
        /\ pc' = "round" /\ round' = NoRound
        /\ messages' = ms /\ journal' = js
        /\ turn' = Remembered(t) /\ cause' = "none"
        /\ result' = result
    BY <1>5 DEF Proceed
  <2>2. rounds' \in rounds .. ToolLimit + 1 /\ rounds' <= ToolLimit
    BY <1>5, <2>1, LoopConstants DEF UnderLimit
  <2>3. turn'.calls > 0 /\ round'.answered < turn'.calls
    BY <1>1, <1>5, <2>1 DEF WantsTools, NoRound
  <2>4. LastCalls(messages, turn)' /\ LastCalls(journal, turn)'
    BY <1>1, <2>1 DEF Said, LastCalls, TurnCalls
  <2> QED BY <1>1, <2>1, <2>2, <2>3, <2>4 DEF Said, ProceedsWell
<1>6. CASE ~t.interrupted /\ WantsTools(t) /\ ~UnderLimit
  <2>1. Leave(ClosePending(t, ms), ClosePending(t, js), "limit")
        /\ rounds' = rounds + 1 /\ UNCHANGED round
    BY <1>6 DEF Proceed
  <2>2. rounds' \in rounds .. ToolLimit + 1
    BY <2>1, LoopConstants
  <2> QED BY <1>2, <2>1, <2>2
<1> QED BY <1>3, <1>4, <1>5, <1>6

(* A round or a charge more pays for what was opened before it.            *)
LEMMA StillPaid ==
    ASSUME NEW s \in Nat, NEW r \in Nat, NEW c \in Nat, s <= 1 + r + c,
           NEW r2 \in Nat, NEW c2 \in Nat, r <= r2, c <= c2
    PROVE  s <= 1 + r2 + c2 /\ (r2 = r + 1 => s <= r2 + c2)
    OBVIOUS

(* Wherever the loop goes from a recorded turn, the invariant holds.       *)
LEMMA ProceedingIsSafe ==
    ASSUME TypeOK, StreamsArePaidFor, NEW ms \in Seq(Messages), ProceedsWell(ms),
           UNCHANGED <<past, streams, environment>>,
           compactions' \in compactions .. MAX_COMPACTIONS, shrunk' \in Nat,
           anchor' \in 0 .. Len(ms)
    PROVE  IInv'
<1>1. /\ messages' \in Seq(Messages) /\ journal' \in Seq(Messages)
      /\ rounds' \in 0 .. ToolLimit + 1 /\ rounds <= rounds'
      /\ pc' \in {"idle", "round"}
  BY LoopConstants DEF ProceedsWell, TypeOK
<1>2. TypeOK'
  BY <1>1, LoopConstants
  DEF TypeOK, ProceedsWell, Messages, environment, Causes, MAX_COMPACTIONS
<1>3. Paired(messages)' /\ ClosedButLast(journal)'
  BY DEF ProceedsWell
<1>4. NothingOpen' /\ NoCallsNothingOpen' /\ LastIsTheTurn'
  BY DEF ProceedsWell, NothingOpen, NoCallsNothingOpen, LastIsTheTurn, MayBeOpen,
         Acting
<1>5. RoundIsRunning' /\ CompactionIsUseful' /\ RoundsWithinLimit'
  BY DEF ProceedsWell, RoundIsRunning, CompactionIsUseful, RoundsWithinLimit
<1>6. StreamsArePaidFor' /\ PaidInAdvance'
  <2>1. /\ streams' = streams /\ streams <= 1 + rounds + compactions
        /\ rounds <= rounds' /\ compactions <= compactions'
        /\ pc' = "round" => rounds' = rounds + 1
        /\ rounds \in Nat /\ rounds' \in Nat /\ streams \in Nat /\ streams' \in Nat
        /\ compactions \in Nat /\ compactions' \in Nat
    BY <1>1, <1>2, LoopConstants
    DEF StreamsArePaidFor, TypeOK, ProceedsWell, MAX_COMPACTIONS
  <2>2. /\ streams <= 1 + rounds' + compactions'
        /\ rounds' = rounds + 1 => streams <= rounds' + compactions'
    BY <2>1, StillPaid
  <2>3. /\ streams' <= 1 + rounds' + compactions'
        /\ pc' = "round" => streams' <= rounds' + compactions'
    BY <2>1, <2>2
  <2> QED BY <1>1, <2>3 DEF StreamsArePaidFor, PaidInAdvance
<1>7. UsageIsOfThisHistory'
  BY <1>1 DEF UsageIsOfThisHistory, ProceedsWell
<1> QED BY <1>2, <1>3, <1>4, <1>5, <1>6, <1>7 DEF IInv

(* A turn read to its end, or to where it was interrupted: either nothing   *)
(* of it enters and a compaction starts, or it enters and a compaction     *)
(* starts, or the loop goes on.                                            *)
LEMMA SettleKeeps ==
    ASSUME IInv, pc = "stream", NEW t \in Turn, Settle(t),
           UNCHANGED <<compactions, shrunk, streams, environment>>
    PROVE  IInv'
<1> DEFINE ms == Recorded(t, messages)
           js == Recorded(t, journal)
<1>1. /\ TypeOK /\ streams \in Nat
      /\ messages \in Seq(Messages) /\ journal \in Seq(Messages)
      /\ AllCallsAnswered(journal)
      /\ rounds \in 0 .. ToolLimit
      /\ StreamsArePaidFor /\ UsageIsOfThisHistory
  BY DEF IInv, TypeOK, Messages, NothingOpen, MayBeOpen, RoundsWithinLimit
<1>2. Said(t, ms, js) /\ Len(ms) >= Len(messages)
  BY <1>1, RecordedKeeps DEF Said, IInv
<1>3. CASE ProducedNothing(t) /\ MayCompact(messages)
  <2>1. /\ pc' = "compact" /\ cause' = "silent"
        /\ UNCHANGED <<conversation, rounds, anchor, turn, round, result>>
        /\ UNCHANGED <<compactions, shrunk, streams, environment>>
    BY <1>3 DEF Settle, StartCompacting
  <2>2. TypeOK'
    BY <1>1, <2>1 DEF TypeOK, conversation, environment, Causes
  <2>3. CompactionIsUseful'
    BY <1>3, <2>1 DEF CompactionIsUseful, MayCompact, conversation
  <2> QED BY <1>1, <2>1, <2>2, <2>3
          DEF IInv, conversation, NothingOpen, NoCallsNothingOpen, Acting, MayBeOpen,
              LastIsTheTurn, RoundIsRunning, RoundsWithinLimit,
              StreamsArePaidFor, PaidInAdvance, UsageIsOfThisHistory
<1>4. CASE ~(ProducedNothing(t) /\ MayCompact(messages))
  <2>1. /\ anchor' = IF ~t.interrupted /\ "real" \in t.usage
                     THEN Len(ms) ELSE anchor
        /\ UNCHANGED past
        /\ UNCHANGED <<compactions, shrunk, streams, environment>>
    BY <1>4 DEF Settle
  <2>2. anchor' \in 0 .. Len(ms)
    BY <1>1, <1>2, <2>1 DEF TypeOK, UsageIsOfThisHistory, Said
  <2>3. CASE InputAboveWindow(t) /\ MayCompact(ms)
    <3>1. /\ pc' = "compact" /\ cause' = "above"
          /\ messages' = ms /\ journal' = js /\ turn' = Remembered(t)
          /\ UNCHANGED <<rounds, round, result>>
      BY <1>4, <2>3 DEF Settle, StartCompacting
    <3>2. turn' \in Turn /\ turn'.calls = t.calls
      BY <3>1, TurnTypes
    <3>3. TypeOK'
      BY <1>1, <1>2, <2>1, <2>2, <3>1, <3>2
      DEF TypeOK, environment, Causes, Said, Messages
    <3>4. CompactionIsUseful'
      BY <2>1, <2>3, <3>1 DEF CompactionIsUseful, MayCompact
    <3>5. LastIsTheTurn' /\ NoCallsNothingOpen' /\ NothingOpen'
      BY <1>2, <2>1, <3>1, <3>2
      DEF LastIsTheTurn, NoCallsNothingOpen, NothingOpen, MayBeOpen, Acting, Said,
          LastCalls, TurnCalls
    <3>6. StreamsArePaidFor' /\ PaidInAdvance'
      BY <1>1, <2>1, <3>1 DEF StreamsArePaidFor, PaidInAdvance
    <3> QED BY <1>1, <1>2, <2>2, <3>1, <3>3, <3>4, <3>5, <3>6
            DEF IInv, Said, RoundIsRunning, RoundsWithinLimit, UsageIsOfThisHistory
  <2>4. CASE ~(InputAboveWindow(t) /\ MayCompact(ms))
    <3>1. Proceed(t, ms, js)
      BY <1>4, <2>4 DEF Settle
    <3>2. ProceedsWell(ms)
      <4>1. result \in Results /\ round \in Round /\ UNCHANGED streams
        BY <1>1, <2>1 DEF TypeOK
      <4> HIDE DEF ms, js
      <4> QED BY <1>1, <1>2, <3>1, <4>1, ProceedKeeps
    <3>3. /\ ms \in Seq(Messages)
          /\ compactions' \in compactions .. MAX_COMPACTIONS /\ shrunk' \in Nat
      BY <1>1, <1>2, <2>1 DEF Said, TypeOK, MAX_COMPACTIONS
    <3> HIDE DEF ms, js
    <3> QED BY <1>1, <2>1, <2>2, <3>2, <3>3, ProceedingIsSafe
  <2> QED BY <2>3, <2>4
<1> QED BY <1>3, <1>4

-----------------------------------------------------------------------------
(* One lemma per group of actions.                                         *)

(* What other tasks do, and the steps that only move the loop on.          *)
LEMMA QuietSteps ==
    ASSUME IInv, Cancel \/ Steer \/ ToolStart \/ ToolRuns
    PROVE  IInv'
<1>1. UNCHANGED <<conversation, counters, anchor, turn, cause, result>>
  BY DEF Cancel, Steer, ToolStart, ToolRuns
<1>2. /\ pc' = pc \/ (pc = "round" /\ pc' = "tool")
      /\ cancel' \in BOOLEAN /\ inbox' \in 0 .. InboxCap
      /\ typed' \in Nat /\ requests' \in Nat
      /\ round' \in Round /\ round'.answered = round.answered
  <2>1. /\ cancel \in BOOLEAN /\ inbox \in 0 .. InboxCap
        /\ typed \in Nat /\ requests \in Nat /\ round \in Round /\ turn \in Turn
    BY DEF IInv, TypeOK
  <2>2. CASE Cancel
    BY <2>1, <2>2 DEF Cancel
  <2>3. CASE Steer
    BY <2>1, <2>3, LoopConstants DEF Steer
  <2>4. CASE ToolStart
    BY <2>1, <2>4 DEF ToolStart, environment
  <2>5. CASE ToolRuns
    <3>1. Current \in 1 .. MaxCalls
      <4>1. round.answered \in 0 .. MaxCalls /\ turn.calls \in 0 .. MaxCalls
        BY <2>1, TurnTypes DEF Round
      <4>2. round.answered < turn.calls
        BY <2>5 DEF IInv, ToolRuns, RoundIsRunning
      <4> QED BY <4>1, <4>2, LoopConstants DEF Current
    <3>2. round' = [round EXCEPT !.ran = round.ran \cup {Current}]
          /\ UNCHANGED <<pc, environment>>
      BY <2>5 DEF ToolRuns
    <3>3. round' \in Round /\ round'.answered = round.answered
      BY <2>1, <3>1, <3>2 DEF Round
    <3> QED BY <2>1, <3>2, <3>3 DEF environment
  <2> QED BY <2>2, <2>3, <2>4, <2>5
<1>3. TypeOK'
  BY <1>1, <1>2 DEF IInv, TypeOK, conversation, counters
<1> QED BY <1>1, <1>2, <1>3
        DEF IInv, conversation, counters, NothingOpen, NoCallsNothingOpen, Acting,
            MayBeOpen, LastIsTheTurn, LastCalls, TurnCalls, RoundIsRunning,
            CompactionIsUseful, RoundsWithinLimit, StreamsArePaidFor, PaidInAdvance,
            UsageIsOfThisHistory

(* A request starts after whatever the last one left.                      *)
LEMMA SubmitKeeps ==
    ASSUME IInv, Submit
    PROVE  IInv'
<1>1. /\ messages \in Seq(Messages) /\ journal \in Seq(Messages)
      /\ past \in Seq(Messages)
      /\ UserMessage \in Messages /\ UserMessage.answers = {}
      /\ UserMessage.uses = {}
  BY MessageTypes DEF IInv, TypeOK, Messages
<1>2. TypeOK'
  <2>1. past' \in Seq(Messages) /\ journal' \in Seq(Messages)
        /\ messages' \in Seq(Messages)
    BY <1>1, ConcatProperties DEF Submit
  <2>2. /\ rounds' \in 0 .. ToolLimit + 1 /\ compactions' \in 0 .. MAX_COMPACTIONS
        /\ shrunk' \in Nat /\ streams' \in Nat /\ anchor' \in Nat
        /\ inbox' \in 0 .. InboxCap /\ typed' \in Nat /\ requests' \in Nat
    BY LoopConstants DEF IInv, TypeOK, Submit, MAX_COMPACTIONS
  <2>3. /\ pc' = "turn" /\ cancel' \in BOOLEAN /\ turn' \in Turn
        /\ cause' \in Causes /\ round' \in Round /\ result' \in Results
    BY TurnTypes DEF IInv, TypeOK, Submit, Results
  <2> QED BY <2>1, <2>2, <2>3 DEF TypeOK, Messages
<1>3. Paired(messages)'
  BY <1>1, PairedAppend DEF IInv, Submit, Messages
<1>4. AllCallsAnswered(journal)' /\ ClosedButLast(journal)'
  BY <1>1 DEF Submit, AllCallsAnswered, ClosedButLast
<1>5. UsageIsOfThisHistory'
  BY <1>1 DEF IInv, TypeOK, Submit, UsageIsOfThisHistory
<1> QED BY <1>2, <1>3, <1>4, <1>5, LoopConstants
        DEF IInv, Submit, NothingOpen, NoCallsNothingOpen, Acting, LastIsTheTurn,
            RoundIsRunning, CompactionIsUseful, RoundsWithinLimit, StreamsArePaidFor,
            PaidInAdvance

(* The user compacts between requests.                                     *)
LEMMA CompactNowKeeps ==
    ASSUME IInv, CompactNow
    PROVE  IInv'
<1>1. /\ messages' \in Seq(Messages) /\ Paired(messages)' /\ Len(messages') >= 2
      /\ anchor' = 0 /\ shrunk' = shrunk + 1 /\ pc = "idle"
      /\ UNCHANGED <<pc, journal, past, rounds, compactions, streams, environment,
                     turn, cause, round, result>>
  BY CompactionKeepsPaired, LoopConstants
  DEF IInv, TypeOK, CompactNow, ForgetUsage, Messages
<1>2. TypeOK'
  BY <1>1 DEF IInv, TypeOK, environment, Messages
<1> QED BY <1>1, <1>2
        DEF IInv, NothingOpen, NoCallsNothingOpen, Acting, MayBeOpen, LastIsTheTurn,
            RoundIsRunning, CompactionIsUseful, RoundsWithinLimit, StreamsArePaidFor,
            PaidInAdvance, UsageIsOfThisHistory

(* What the user typed enters, and a stream or a compaction starts.        *)
LEMMA NextTurnKeeps ==
    ASSUME IInv, NextTurn
    PROVE  IInv'
<1>1. /\ messages' \in Seq(Messages) /\ journal' \in Seq(Messages)
      /\ Len(messages') >= Len(messages)
      /\ Paired(messages)' /\ AllCallsAnswered(journal)'
  <2>1. messages' = messages \o Steered /\ journal' = journal \o Steered
    BY DEF NextTurn, RecordSteered
  <2>2. Steered = [i \in 1 .. inbox |-> UserMessage] /\ inbox \in Nat
    BY LoopConstants DEF Steered, IInv, TypeOK
  <2>3. messages \in Seq(Messages) /\ journal \in Seq(Messages)
        /\ Paired(messages) /\ AllCallsAnswered(journal)
    BY DEF IInv, TypeOK, Messages, NextTurn, NothingOpen, MayBeOpen
  <2>4. /\ messages \o Steered \in Seq(Messages)
        /\ Len(messages \o Steered) = Len(messages) + inbox
        /\ Paired(messages \o Steered)
    BY <2>2, <2>3, UserMessagesFollow DEF Messages
  <2>5. /\ journal \o Steered \in Seq(Messages)
        /\ AllCallsAnswered(journal \o Steered)
    BY <2>2, <2>3, UserMessagesFollow DEF Messages
  <2> QED BY <2>1, <2>2, <2>3, <2>4, <2>5
<1>2. ClosedButLast(journal)'
  BY <1>1 DEF AllCallsAnswered, ClosedButLast
<1>3. /\ UNCHANGED <<past, rounds, compactions, shrunk, anchor, cancel, typed,
                     requests, turn, round, result>>
      /\ inbox' = 0 /\ pc = "turn"
      /\ \/ pc' = "stream" /\ streams' = streams + 1 /\ UNCHANGED cause
         \/ /\ pc' = "compact" /\ cause' = "threshold" /\ UNCHANGED streams
            /\ MayCompact(messages)'
  BY DEF NextTurn, RecordSteered, OpenStream, StartCompacting, MayCompact
<1>4. TypeOK'
  BY <1>1, <1>3, LoopConstants DEF IInv, TypeOK, Messages, Causes
<1>5. CompactionIsUseful'
  BY <1>3 DEF CompactionIsUseful, MayCompact
<1>6. StreamsArePaidFor' /\ PaidInAdvance'
  <2>1. /\ streams \in Nat /\ rounds \in Nat /\ compactions \in Nat
        /\ streams <= rounds + compactions
    BY <1>3, LoopConstants DEF IInv, TypeOK, PaidInAdvance, MAX_COMPACTIONS
  <2> QED BY <1>3, <2>1 DEF StreamsArePaidFor, PaidInAdvance
<1>7. UsageIsOfThisHistory'
  BY <1>1, <1>3 DEF IInv, TypeOK, UsageIsOfThisHistory, Messages
<1> QED BY <1>1, <1>2, <1>3, <1>4, <1>5, <1>6, <1>7
        DEF IInv, NothingOpen, NoCallsNothingOpen, Acting, LastIsTheTurn,
            RoundIsRunning, RoundsWithinLimit

(* The history gives way to its compacted form: whatever the loop was       *)
(* acting on is still the last thing said.                                 *)
LEMMA CompactDoneKeeps ==
    ASSUME IInv, CompactDone
    PROVE  IInv'
<1> DEFINE small == Compacted(messages, KeepRecent)
<1>1. /\ TypeOK /\ pc = "compact"
      /\ messages \in Seq(Messages) /\ journal \in Seq(Messages)
      /\ ClosedButLast(journal) /\ StreamsArePaidFor
      /\ rounds \in 0 .. ToolLimit
      /\ CanCompact(messages, KeepRecent)
      /\ cause # "threshold" => compactions < MAX_COMPACTIONS
      /\ streams \in Nat /\ rounds \in Nat /\ compactions \in Nat
      /\ compactions \in 0 .. MAX_COMPACTIONS
  BY LoopConstants
  DEF IInv, TypeOK, CompactDone, CompactionIsUseful, RoundsWithinLimit, Messages,
      MAX_COMPACTIONS
<1>2. /\ small \in Seq(Messages) /\ Paired(small) /\ Len(small) >= 2
      /\ Len(messages) > 0
      /\ messages[Len(messages)].answers = {} =>
            small[Len(small)] = messages[Len(messages)]
  <2>1. Paired(messages) /\ KeepRecent \in Nat \ {0}
    BY LoopConstants DEF IInv
  <2>2. Len(messages) > 0
    BY <1>1, <2>1 DEF CanCompact, HEAD
  <2> HIDE DEF small
  <2> QED BY <1>1, <2>1, <2>2, CompactionKeepsPaired DEF small, Messages
<1>3. /\ anchor' = 0 /\ shrunk' \in Nat /\ UNCHANGED <<past, environment>>
      /\ cause \in {"threshold", "overflow", "silent", "above"}
  BY <1>1 DEF CompactDone, ForgetUsage, TypeOK
<1> HIDE DEF small
<1>4. CASE cause = "threshold"
  <2>1. /\ messages' = small /\ pc' = "stream" /\ streams' = streams + 1
        /\ cause' = "none"
        /\ UNCHANGED <<journal, rounds, compactions, turn, round, result>>
    BY <1>4 DEF CompactDone, OpenStream, small
  <2>2. TypeOK'
    BY <1>1, <1>2, <1>3, <2>1 DEF TypeOK, Messages, environment, Causes
  <2>3. StreamsArePaidFor' /\ PaidInAdvance'
    <3>1. streams <= rounds + compactions
      BY <1>1, <1>4 DEF IInv, PaidInAdvance
    <3> QED BY <1>1, <2>1, <3>1 DEF StreamsArePaidFor, PaidInAdvance
  <2>4. AllCallsAnswered(journal)'
    BY <1>1, <1>4, <2>1 DEF IInv, NothingOpen, MayBeOpen
  <2> QED BY <1>1, <1>2, <1>3, <2>1, <2>2, <2>3, <2>4
          DEF IInv, NothingOpen, NoCallsNothingOpen, Acting, LastIsTheTurn,
              RoundIsRunning, CompactionIsUseful, RoundsWithinLimit,
              UsageIsOfThisHistory
<1>5. CASE cause \in {"overflow", "silent"}
  <2>1. /\ messages' = small /\ pc' = "turn" /\ compactions' = compactions + 1
        /\ cause' = "none"
        /\ UNCHANGED <<journal, rounds, streams, turn, round, result>>
    BY <1>5 DEF CompactDone, Charge, small
  <2>2. TypeOK'
    BY <1>1, <1>2, <1>3, <1>5, <2>1
    DEF TypeOK, Messages, environment, Causes, MAX_COMPACTIONS
  <2>3. StreamsArePaidFor' /\ PaidInAdvance'
    BY <1>1, <2>1 DEF StreamsArePaidFor, PaidInAdvance
  <2>4. AllCallsAnswered(journal)'
    BY <1>1, <1>5, <2>1 DEF IInv, NothingOpen, MayBeOpen
  <2> QED BY <1>1, <1>2, <1>3, <2>1, <2>2, <2>3, <2>4
          DEF IInv, NothingOpen, NoCallsNothingOpen, Acting, LastIsTheTurn,
              RoundIsRunning, CompactionIsUseful, RoundsWithinLimit,
              UsageIsOfThisHistory
<1>6. CASE cause = "above"
  <2>1. /\ compactions' = compactions + 1 /\ UNCHANGED streams
        /\ Proceed(turn, small, journal)
    BY <1>6 DEF CompactDone, Charge, small
  <2>2. Said(turn, small, journal)
    BY <1>1, <1>2, <1>6
    DEF IInv, Said, LastIsTheTurn, NoCallsNothingOpen, Acting, LastCalls
  <2>3. ProceedsWell(small)
    <3>1. turn \in Turn /\ result \in Results /\ round \in Round
      BY <1>1 DEF TypeOK
    <3> QED BY <1>1, <2>1, <2>2, <3>1, ProceedKeeps
  <2>4. compactions' \in compactions .. MAX_COMPACTIONS
    BY <1>1, <1>6, <2>1 DEF MAX_COMPACTIONS
  <2>5. anchor' \in 0 .. Len(small)
    BY <1>2, <1>3
  <2> QED BY <1>1, <1>2, <1>3, <2>1, <2>3, <2>4, <2>5, ProceedingIsSafe
<1> QED BY <1>3, <1>4, <1>5, <1>6

(* The turn is discarded with the stream that broke.                       *)
LEMMA StreamFailKeeps ==
    ASSUME IInv, StreamFail
    PROVE  IInv'
<1>1. /\ TypeOK /\ pc = "stream" /\ AllCallsAnswered(journal)
      /\ UNCHANGED <<past, counters, anchor, environment, round, messages, journal>>
  BY DEF IInv, StreamFail, Leave, NothingOpen, MayBeOpen
<1>2. CASE MayCompact(messages) /\ StartCompacting("overflow")
           /\ UNCHANGED <<messages, journal, turn, result>>
  <2>1. TypeOK'
    BY <1>1, <1>2 DEF TypeOK, counters, environment, StartCompacting, Causes
  <2> QED BY <1>1, <1>2, <2>1
          DEF IInv, counters, StartCompacting, MayCompact, NothingOpen,
              NoCallsNothingOpen, Acting, LastIsTheTurn, RoundIsRunning,
              CompactionIsUseful, RoundsWithinLimit, StreamsArePaidFor,
              PaidInAdvance, UsageIsOfThisHistory
<1>3. CASE Leave(messages, journal, "wire")
  <2>1. TypeOK'
    BY <1>1, <1>3, TurnTypes
    DEF TypeOK, counters, environment, Leave, Causes, Results
  <2> QED BY <1>1, <1>3, <2>1
          DEF IInv, counters, Leave, NothingOpen, NoCallsNothingOpen, Acting,
              LastIsTheTurn, RoundIsRunning, CompactionIsUseful, RoundsWithinLimit,
              StreamsArePaidFor, PaidInAdvance, UsageIsOfThisHistory
<1> QED BY <1>2, <1>3 DEF StreamFail

(* The results of a round enter together, right after the calls.           *)
LEMMA RoundEnds ==
    ASSUME IInv, pc \in {"round", "tool"},
           messages' = Append(messages, ResultsMessage(TurnCalls(turn))),
           journal' = Append(journal, ResultsMessage(TurnCalls(turn))),
           turn' = NoTurn, cause' = "none", pc' \in {"turn", "idle"},
           round' \in Round, result' \in Results,
           UNCHANGED <<past, counters, anchor, environment>>
    PROVE  IInv'
<1>1. /\ TypeOK /\ turn \in Turn /\ turn.calls > 0 /\ streams \in Nat
      /\ messages \in Seq(Messages) /\ journal \in Seq(Messages)
      /\ LastCalls(messages, turn) /\ LastCalls(journal, turn)
  <2>1. TypeOK /\ turn \in Turn /\ round.answered \in 0 .. MaxCalls
        /\ turn.calls \in 0 .. MaxCalls /\ round.answered < turn.calls
    BY TurnTypes DEF IInv, TypeOK, RoundIsRunning, Round
  <2>2. turn.calls > 0
    BY <2>1, LoopConstants
  <2> QED BY <2>1, <2>2 DEF IInv, TypeOK, Messages, LastIsTheTurn, Acting
<1>2. /\ messages' \in Seq(Messages) /\ Paired(messages)'
      /\ Len(messages') = Len(messages) + 1
  BY <1>1, ResultsFollow DEF IInv
<1>3. journal' \in Seq(Messages) /\ AllCallsAnswered(journal)'
  BY <1>1, ResultsFollow DEF IInv
<1>4. ClosedButLast(journal)'
  BY <1>3 DEF AllCallsAnswered, ClosedButLast
<1>5. TypeOK'
  BY <1>1, <1>2, <1>3, TurnTypes DEF TypeOK, Messages, counters, environment, Causes
<1>6. UsageIsOfThisHistory'
  <2>1. anchor' = anchor /\ anchor \in Nat /\ anchor <= Len(messages)
    BY <1>1 DEF IInv, TypeOK, UsageIsOfThisHistory
  <2> QED BY <1>1, <1>2, <2>1 DEF UsageIsOfThisHistory
<1>7. StreamsArePaidFor' /\ PaidInAdvance'
  BY DEF IInv, counters, StreamsArePaidFor, PaidInAdvance
<1>8. RoundsWithinLimit'
  BY DEF IInv, counters, RoundsWithinLimit
<1> QED BY <1>2, <1>3, <1>4, <1>5, <1>6, <1>7, <1>8
        DEF IInv, NothingOpen, NoCallsNothingOpen, Acting, LastIsTheTurn,
            RoundIsRunning, CompactionIsUseful

(* A call has its result, and the round goes on or ends.                   *)
LEMMA ToolDoneKeeps ==
    ASSUME IInv, ToolDone
    PROVE  IInv'
<1>1. PICK stop \in BOOLEAN :
        LET next == [round EXCEPT !.answered = Current, !.allStop = @ /\ stop]
        IN  \/ /\ Current < turn.calls
               /\ pc' = "round" /\ round' = next
               /\ UNCHANGED <<messages, journal, turn, cause, result>>
            \/ /\ Current = turn.calls /\ round' = NoRound
               /\ EndRound
               /\ IF next.allStop
                  THEN pc' = "idle" /\ result' = "stopped"
                  ELSE pc' = "turn" /\ UNCHANGED result
  BY DEF ToolDone
<1>2. /\ TypeOK /\ pc = "tool" /\ turn \in Turn /\ round \in Round
      /\ UNCHANGED <<past, counters, anchor, environment>>
  BY DEF IInv, TypeOK, ToolDone
<1> DEFINE next == [round EXCEPT !.answered = Current,
                                 !.allStop = round.allStop /\ stop]
<1>3. CASE /\ Current < turn.calls
           /\ pc' = "round" /\ round' = next
           /\ UNCHANGED <<messages, journal, turn, cause, result>>
  <2>1. Current \in 0 .. MaxCalls
    <3>1. round.answered \in Nat /\ turn.calls \in 0 .. MaxCalls
      BY <1>2, TurnTypes DEF Round
    <3> QED BY <1>3, <3>1, LoopConstants DEF Current
  <2>2. (round.allStop /\ stop) \in BOOLEAN
    BY Zenon
  <2>3. round' \in Round /\ round'.answered = Current
    <3>1. \A b \in BOOLEAN : LET r == [round EXCEPT !.answered = Current, !.allStop = b]
                           IN  r \in Round /\ r.answered = Current
      BY <1>2, <2>1 DEF Round
    <3> QED BY <1>3, <2>2, <3>1
  <2>4. TypeOK'
    BY <1>2, <1>3, <2>3 DEF TypeOK, counters, environment
  <2> QED BY <1>2, <1>3, <2>3, <2>4
          DEF IInv, counters, NothingOpen, NoCallsNothingOpen, Acting, MayBeOpen,
              LastIsTheTurn, LastCalls, TurnCalls, RoundIsRunning,
              CompactionIsUseful, RoundsWithinLimit, StreamsArePaidFor,
              PaidInAdvance, UsageIsOfThisHistory
<1>4. CASE /\ Current = turn.calls /\ round' = NoRound
           /\ EndRound
           /\ IF next.allStop
              THEN pc' = "idle" /\ result' = "stopped"
              ELSE pc' = "turn" /\ UNCHANGED result
  <2>1. pc' \in {"turn", "idle"} /\ result' \in Results
    BY <1>2, <1>4 DEF TypeOK, Results
  <2>2. /\ messages' = Append(messages, ResultsMessage(TurnCalls(turn)))
        /\ journal' = Append(journal, ResultsMessage(TurnCalls(turn)))
        /\ turn' = NoTurn /\ cause' = "none"
    BY <1>4 DEF EndRound
  <2> QED BY <1>2, <1>4, <2>1, <2>2, TurnTypes, RoundEnds
<1> QED BY <1>1, <1>3, <1>4

(* The round ends where the signal found it, every call with a result.     *)
LEMMA ToolCancelledKeeps ==
    ASSUME IInv, ToolCancelled
    PROVE  IInv'
<1>1. /\ pc \in {"round", "tool"}
      /\ messages' = Append(messages, ResultsMessage(TurnCalls(turn)))
      /\ journal' = Append(journal, ResultsMessage(TurnCalls(turn)))
      /\ turn' = NoTurn /\ cause' = "none" /\ pc' = "idle" /\ result' = "cancelled"
      /\ UNCHANGED <<past, counters, anchor, environment>>
  BY DEF ToolCancelled, CancelNoticed, CancelRound, Leave
<1>2. round' \in Round
  <2>1. round \in Round /\ turn.calls \in 0 .. MaxCalls /\ round.answered \in Nat
    BY TurnTypes DEF IInv, TypeOK, Round
  <2>2. Current .. turn.calls \in SUBSET (1 .. MaxCalls)
    BY <2>1, LoopConstants DEF Current
  <2> QED BY <2>1, <2>2 DEF ToolCancelled, Round
<1> QED BY <1>1, <1>2, RoundEnds DEF Results

-----------------------------------------------------------------------------
(* The theorems.                                                           *)

LEMMA InitIsSafe == Init => IInv
<1> SUFFICES ASSUME Init PROVE IInv
  OBVIOUS
<1>1. TypeOK
  <2>1. /\ rounds \in 0 .. ToolLimit + 1 /\ compactions \in 0 .. MAX_COMPACTIONS
        /\ shrunk \in Nat /\ streams \in Nat /\ anchor \in Nat
        /\ inbox \in 0 .. InboxCap /\ typed \in Nat /\ requests \in Nat
    BY LoopConstants DEF Init, MAX_COMPACTIONS
  <2>2. /\ pc = "idle" /\ cancel \in BOOLEAN /\ turn \in Turn /\ cause \in Causes
        /\ round \in Round /\ result \in Results
    BY TurnTypes DEF Init, Causes, Results
  <2>3. /\ messages \in Seq(Messages) /\ journal \in Seq(Messages)
        /\ past \in Seq(Messages)
    BY EmptySeq DEF Init
  <2> QED BY <2>1, <2>2, <2>3 DEF TypeOK, Messages
<1> QED BY <1>1, LoopConstants
        DEF Init, IInv, Paired, OneRole, NoOrphanResults, ClosedButLast, NothingOpen,
            NoCallsNothingOpen, AllCallsAnswered, Acting, LastIsTheTurn,
            RoundIsRunning, CompactionIsUseful, RoundsWithinLimit, StreamsArePaidFor,
            PaidInAdvance, UsageIsOfThisHistory

(* Every step of the loop and of the tasks around it keeps the invariant.   *)
LEMMA NextIsSafe == IInv /\ [Next]_vars => IInv'
<1> SUFFICES ASSUME IInv, [Next]_vars PROVE IInv'
  OBVIOUS
<1>1. CASE Submit                 BY <1>1, SubmitKeeps
<1>2. CASE Cancel \/ Steer \/ ToolStart \/ ToolRuns
  BY <1>2, QuietSteps
<1>3. CASE CompactNow             BY <1>3, CompactNowKeeps
<1>4. CASE NextTurn               BY <1>4, NextTurnKeeps
<1>5. CASE CompactDone            BY <1>5, CompactDoneKeeps
<1>6. CASE StreamEnd
  <2>1. PICK t \in Turn : Settle(t)
    BY <1>6 DEF StreamEnd
  <2> QED BY <1>6, <2>1, SettleKeeps DEF StreamEnd
<1>7. CASE StreamCancelled
  <2>1. PICK t \in Turn : Settle(t)
    BY <1>7 DEF StreamCancelled
  <2> QED BY <1>7, <2>1, SettleKeeps DEF StreamCancelled
<1>8. CASE StreamFail             BY <1>8, StreamFailKeeps
<1>9. CASE ToolDone               BY <1>9, ToolDoneKeeps
<1>10. CASE ToolCancelled         BY <1>10, ToolCancelledKeeps
<1>11. CASE UNCHANGED vars
  BY <1>11, ZenonT(40) DEF vars, conversation, counters, environment, IInv, TypeOK, Paired,
     OneRole, NoOrphanResults, ClosedButLast, CallIsAnswered, NothingOpen,
     NoCallsNothingOpen, AllCallsAnswered, Acting, MayBeOpen, LastIsTheTurn,
     LastCalls, TurnCalls, RoundIsRunning, CompactionIsUseful, RoundsWithinLimit,
     StreamsArePaidFor, PaidInAdvance, UsageIsOfThisHistory
<1> QED BY <1>1, <1>2, <1>3, <1>4, <1>5, <1>6, <1>7, <1>8, <1>9, <1>10, <1>11
        DEF Next, Loop

(* The inductive invariant holds throughout every session.                 *)
THEOREM LoopIsSafe == Spec => []IInv
<1> QED BY InitIsSafe, NextIsSafe, PTL DEF Spec

(* Types, and the limits of the counters: no request runs more than         *)
(* ToolLimit rounds, nor is charged for more than two compactions.         *)
THEOREM TypesHold == Spec => []TypeOK
<1>1. IInv => TypeOK
  BY DEF IInv
<1> QED BY <1>1, LoopIsSafe, PTL

(* However long the session, however many tools, calls, compactions and     *)
(* cancellations: the calls of the record are answered by the next message,*)
(* but for those of the turn being acted on or of a final answer.          *)
THEOREM RecordIsClosed == Spec => []JournalClosed
<1>1. IInv => JournalClosed
  BY DEF IInv, JournalClosed, ClosedButLast, NothingOpen, AllCallsAnswered
<1> QED BY <1>1, LoopIsSafe, PTL

(* No compaction ever leaves a result in the context without its call.     *)
THEOREM ContextIsPaired == Spec => []NoOrphanInContext
<1>1. IInv => NoOrphanInContext
  BY DEF IInv, NoOrphanInContext, Paired
<1> QED BY <1>1, LoopIsSafe, PTL

(* The streams a request opens are bounded by its rounds and its charges.  *)
THEOREM QuotaIsBounded == Spec => []StreamsArePaidFor
<1>1. IInv => StreamsArePaidFor
  BY DEF IInv
<1> QED BY <1>1, LoopIsSafe, PTL

(* The usage the threshold reads is never that of a longer history.        *)
THEOREM UsageIsCurrent == Spec => []UsageIsOfThisHistory
<1>1. IInv => UsageIsOfThisHistory
  BY DEF IInv
<1> QED BY <1>1, LoopIsSafe, PTL

-----------------------------------------------------------------------------
(* What the loop says: the same words enter the context and the record.    *)

\* The words s are not the user's, and each answers the calls made just
\* before it, if any were; open are the calls made before the first.
Fits(open, s) ==
    /\ s \in Seq(Messages)
    /\ \A i \in 1 .. Len(s) :
         /\ s[i] # UserMessage
         /\ s[i].answers = IF i = 1 THEN open ELSE s[i - 1].uses

LastUses(js) == js[Len(js)].uses

(* Nothing fits wherever nothing was asked, and so does a turn; answers fit *)
(* after the calls they answer.                                            *)
LEMMA WordsFit ==
    ASSUME NEW open
    PROVE  /\ Fits(open, <<>>)
           /\ \A m \in Messages : m # UserMessage /\ m.answers = open => Fits(open, <<m>>)
           /\ \A s \in Seq(Messages), m \in Messages :
                (Fits(open, s) /\ Len(s) > 0 /\ m # UserMessage /\ m.answers = LastUses(s))
                    => Fits(open, Append(s, m))
<1>1. Fits(open, <<>>)
  BY DEF Fits
<1>2. \A m \in Messages : m # UserMessage /\ m.answers = open => Fits(open, <<m>>)
  BY DEF Fits
<1>3. ASSUME NEW s \in Seq(Messages), NEW m \in Messages,
             Fits(open, s), Len(s) > 0, m # UserMessage, m.answers = LastUses(s)
      PROVE  Fits(open, Append(s, m))
  BY <1>3 DEF Fits, LastUses
<1> QED BY <1>1, <1>2, <1>3

(* What was said last, after more was said.                                *)
LEMMA LastAfter ==
    ASSUME NEW ms \in Seq(Messages), Len(ms) > 0
    PROVE  /\ ms \o <<>> = ms
           /\ \A m \in Messages : ms \o <<m>> = Append(ms, m) /\ LastUses(ms \o <<m>>) = m.uses
  BY DEF LastUses

(* Recording a turn adds the same words on either side; its calls are then  *)
(* the last, unless it is empty and made none.                             *)
LEMMA RecordedSays ==
    ASSUME streams \in Nat, NEW t \in Turn
    PROVE  \E s : /\ s = <<>> \/ \E m \in Messages : s = <<m>>
                  /\ Fits({}, s)
                  /\ s # <<>> => s[1].uses = TurnCalls(t)
                  /\ s = <<>> => TurnCalls(t) = {}
                  /\ \A ms \in Seq(Messages) : Recorded(t, ms) = ms \o s
<1> DEFINE body == IF t.said = "nothing" THEN "none" ELSE "text"
           discarded == t.interrupted \/ t.stop = "failed"
           m == AssistantMessage(TurnCalls(t), body, discarded)
           s == IF IsEmpty(m) THEN <<>> ELSE <<m>>
<1>1. /\ m \in Messages /\ m.uses = TurnCalls(t) /\ m.answers = {} /\ m # UserMessage
  <2>1. body \in Bodies
    BY DEF Bodies
  <2>2. discarded \in BOOLEAN
    BY Zenon
  <2>3. TurnCalls(t) \in SUBSET CallId
    BY TurnCallsType
  <2>4. m.role = "assistant" /\ UserMessage.role = "user"
    BY DEF AssistantMessage, UserMessage
  <2>5. m # UserMessage
    BY <2>4
  <2> HIDE DEF body, discarded
  <2> QED BY <2>1, <2>2, <2>3, <2>5, MessageTypes DEF Messages
<1>2. \A ms \in Seq(Messages) : Recorded(t, ms) = IF IsEmpty(m) THEN ms ELSE Append(ms, m)
  BY DEF Recorded
<1>3. IsEmpty(m) => m.uses = {}
  BY DEF IsEmpty
<1> HIDE DEF m
<1>4. Fits({}, s)
  BY <1>1, WordsFit
<1>5. \A ms \in Seq(Messages) : Recorded(t, ms) = ms \o s
  BY <1>1, <1>2, SMTT(30)
<1>6. s # <<>> => s[1].uses = TurnCalls(t)
  BY <1>1
<1>7. s = <<>> => TurnCalls(t) = {}
  BY <1>1, <1>3
<1>8. s = <<>> \/ \E n \in Messages : s = <<n>>
  BY <1>1
<1> HIDE DEF s
<1> QED BY <1>4, <1>5, <1>6, <1>7, <1>8

(* What follows a recorded turn adds nothing, or the answers to its calls.  *)
LEMMA ProceedSays ==
    ASSUME streams \in Nat, NEW t \in Turn, NEW ms \in Seq(Messages), NEW js \in Seq(Messages),
           Proceed(t, ms, js)
    PROVE  \E s : /\ s = <<>> \/ \E m \in Messages : s = <<m>> /\ m # UserMessage
                                                        /\ m.answers = TurnCalls(t)
                  /\ messages' = ms \o s /\ journal' = js \o s
<1> DEFINE r == ResultsMessage(TurnCalls(t))
<1>1. r \in Messages /\ r.answers = TurnCalls(t) /\ r # UserMessage
  BY TurnCallsType, MessageTypes DEF Messages
<1>2. \/ messages' = ms /\ journal' = js
      \/ messages' = Append(ms, r) /\ journal' = Append(js, r)
  BY DEF Proceed, Leave, ClosePending
<1> HIDE DEF r
<1>3. CASE messages' = ms /\ journal' = js
  BY <1>3
<1>4. CASE messages' = Append(ms, r) /\ journal' = Append(js, r)
  <2>1. messages' = ms \o <<r>> /\ journal' = js \o <<r>>
    BY <1>1, <1>4, AppendIsConcat
  <2> QED BY <1>1, <2>1
<1> QED BY <1>2, <1>3, <1>4

\* A step of the loop: the context may first give way to its compacted form;
\* then it and the record go on with the same words, which are what the user
\* typed, with nothing open, or words that fit.
Speaks(s) ==
    /\ s \in Seq(Messages)
    /\ \/ messages' = messages \o s
       \/ /\ CanCompact(messages, KeepRecent)
          /\ messages' = Compacted(messages, KeepRecent) \o s
    /\ journal' = journal \o s
    /\ UNCHANGED <<past, typed, requests>>
    /\ \/ s = Steered /\ inbox' = 0 /\ LastUses(journal) = {}
       \/ Fits(LastUses(journal), s) /\ UNCHANGED inbox

\* A request that runs has said something: its prompt.
PromptIsThere == pc # "idle" => Len(journal) > 0

LEMMA NothingIsOpen ==
    ASSUME NEW js \in Seq(Messages), Len(js) > 0, AllCallsAnswered(js)
    PROVE  LastUses(js) = {}
  BY DEF LastUses, AllCallsAnswered, CallIsAnswered

(* A step that leaves both sides alone.                                    *)
LEMMA SilentStep ==
    ASSUME TypeOK, UNCHANGED <<conversation, inbox, typed, requests>>
    PROVE  Speaks(<<>>)
<1>1. messages \in Seq(Messages) /\ journal \in Seq(Messages)
  BY DEF TypeOK, Messages
<1>2. messages \o <<>> = messages /\ journal \o <<>> = journal
  BY <1>1
<1>3. <<>> \in Seq(Messages) /\ Fits(LastUses(journal), <<>>)
  BY WordsFit DEF Fits
<1> QED BY <1>2, <1>3 DEF Speaks, conversation

(* A step that only compacts.                                              *)
LEMMA ShrinkingStep ==
    ASSUME TypeOK, Paired(messages), CanCompact(messages, KeepRecent),
           messages' = Compacted(messages, KeepRecent),
           UNCHANGED <<journal, past, inbox, typed, requests>>
    PROVE  Speaks(<<>>)
<1>1. journal \in Seq(Messages) /\ Compacted(messages, KeepRecent) \in Seq(Messages)
  BY CompactionKeepsPaired, LoopConstants DEF TypeOK, Messages
<1> DEFINE small == Compacted(messages, KeepRecent)
<1> HIDE DEF small
<1>2. small \o <<>> = small /\ journal \o <<>> = journal
  BY <1>1 DEF small
<1>3. <<>> \in Seq(Messages) /\ Fits(LastUses(journal), <<>>)
  BY WordsFit DEF Fits
<1> QED BY <1>2, <1>3 DEF Speaks, small

(* A step that closes the calls made last.                                 *)
LEMMA AnsweringStep ==
    ASSUME IInv, pc \in {"round", "tool"},
           messages' = Append(messages, ResultsMessage(TurnCalls(turn))),
           journal' = Append(journal, ResultsMessage(TurnCalls(turn))),
           UNCHANGED <<past, environment>>
    PROVE  \E s : Speaks(s)
<1> DEFINE r == ResultsMessage(TurnCalls(turn))
<1>1. /\ streams \in Nat /\ turn \in Turn /\ turn.calls > 0
      /\ messages \in Seq(Messages) /\ journal \in Seq(Messages)
  <2>1. streams \in Nat /\ turn \in Turn /\ round \in Round /\ round.answered < turn.calls
    BY DEF IInv, TypeOK, RoundIsRunning
  <2>2. turn.calls > 0
    <3>1. round.answered \in Nat /\ turn.calls \in Nat
      BY <2>1, TurnTypes, LoopConstants DEF Round
    <3> QED BY <2>1, <3>1
  <2> QED BY <2>1, <2>2 DEF IInv, TypeOK, Messages
<1>2. r \in Messages /\ r # UserMessage /\ r.answers = TurnCalls(turn)
  BY <1>1, TurnCallsType, MessageTypes DEF Messages
<1>3. LastUses(journal) = TurnCalls(turn)
  BY <1>1 DEF IInv, LastIsTheTurn, Acting, LastCalls, LastUses
<1>4. messages' = messages \o <<r>> /\ journal' = journal \o <<r>>
  <2> HIDE DEF r
  <2> QED BY <1>1, <1>2, AppendIsConcat DEF r
<1> HIDE DEF r
<1>5. Fits(LastUses(journal), <<r>>)
  BY <1>2, <1>3, WordsFit
<1>6. Speaks(<<r>>)
  BY <1>2, <1>4, <1>5 DEF Speaks, environment
<1> QED BY <1>6

(* A turn that was read enters both sides, with what its calls are answered *)
(* when the request ends there.                                            *)
LEMMA SettlingStep ==
    ASSUME IInv, PromptIsThere, pc = "stream", NEW t \in Turn, Settle(t),
           UNCHANGED environment
    PROVE  \E s : Speaks(s)
<1>1. /\ TypeOK /\ streams \in Nat /\ LastUses(journal) = {}
      /\ messages \in Seq(Messages) /\ journal \in Seq(Messages)
  <2>1. TypeOK /\ AllCallsAnswered(journal) /\ Len(journal) > 0
    BY DEF IInv, NothingOpen, MayBeOpen, PromptIsThere
  <2>2. streams \in Nat /\ messages \in Seq(Messages) /\ journal \in Seq(Messages)
    BY <2>1 DEF TypeOK, Messages
  <2> QED BY <2>1, <2>2, NothingIsOpen
<1>2. CASE ProducedNothing(t) /\ MayCompact(messages)
  <2>1. UNCHANGED conversation
    BY <1>2 DEF Settle
  <2>2. Speaks(<<>>)
    BY <1>1, <2>1, SilentStep DEF environment
  <2> QED BY <2>2
<1>3. CASE ~(ProducedNothing(t) /\ MayCompact(messages))
  <2>1. PICK s1 : /\ s1 = <<>> \/ \E m \in Messages : s1 = <<m>>
                  /\ Fits({}, s1)
                  /\ s1 # <<>> => s1[1].uses = TurnCalls(t)
                  /\ s1 = <<>> => TurnCalls(t) = {}
                  /\ \A ms \in Seq(Messages) : Recorded(t, ms) = ms \o s1
    BY <1>1, RecordedSays
  <2> DEFINE ms == messages \o s1
             js == journal \o s1
  <2>2. /\ ms \in Seq(Messages) /\ js \in Seq(Messages)
        /\ Recorded(t, messages) = ms /\ Recorded(t, journal) = js
    <3>1. s1 \in Seq(Messages)
      BY <2>1 DEF Fits
    <3> QED BY <1>1, <2>1, <3>1
  <2>3. /\ past' = past
        /\ (messages' = ms /\ journal' = js) \/ Proceed(t, ms, js)
    BY <1>3, <2>2 DEF Settle
  <2>4. CASE messages' = ms /\ journal' = js
    <3>1. Speaks(s1)
      BY <1>1, <2>1, <2>3, <2>4 DEF Speaks, Fits, environment
    <3> QED BY <3>1
  <2>5. CASE Proceed(t, ms, js)
    <3> HIDE DEF ms, js
    <3>1. PICK s2 : /\ \/ s2 = <<>>
                       \/ \E m \in Messages : /\ s2 = <<m>> /\ m # UserMessage
                                              /\ m.answers = TurnCalls(t)
                    /\ messages' = ms \o s2 /\ journal' = js \o s2
      BY <1>1, <2>2, <2>5, ProceedSays
    <3>2. s1 \in Seq(Messages) /\ s2 \in Seq(Messages)
      <4>1. s1 \in Seq(Messages)
        BY <2>1 DEF Fits
      <4>2. \A m \in Messages : <<m>> \in Seq(Messages)
        OBVIOUS
      <4>3. <<>> \in Seq(Messages)
        OBVIOUS
      <4>4. s2 \in Seq(Messages)
        BY <3>1, <4>2, <4>3, Zenon
      <4> QED BY <4>1, <4>4
    <3>3. messages' = messages \o (s1 \o s2) /\ journal' = journal \o (s1 \o s2)
      <4>1. \A ws \in Seq(Messages) : (ws \o s1) \o s2 = ws \o (s1 \o s2)
        BY <3>2, ConcatAssociative
      <4> QED BY <1>1, <3>1, <4>1 DEF ms, js
    <3>4. Fits({}, s1 \o s2)
      <4>1. CASE s2 = <<>>
        <5>1. s1 \o s2 = s1
          BY <3>2, <4>1
        <5> QED BY <2>1, <5>1
      <4>2. CASE s1 = <<>>
        <5>1. s1 \o s2 = s2
          BY <3>2, <4>2
        <5>2. Fits({}, s2)
          BY <2>1, <3>1, <4>2, WordsFit
        <5> QED BY <5>1, <5>2
      <4>3. CASE s1 # <<>> /\ s2 # <<>>
        <5>1. Len(s1) > 0 /\ LastUses(s1) = TurnCalls(t)
          BY <2>1, <4>3 DEF LastUses
        <5>2. PICK n \in Messages : /\ s2 = <<n>> /\ n # UserMessage
                                    /\ n.answers = TurnCalls(t)
          BY <3>1, <4>3
        <5>3. s1 \o s2 = Append(s1, n)
          BY <3>2, <5>2, AppendIsConcat
        <5> QED BY <2>1, <3>2, <5>1, <5>2, <5>3, WordsFit
      <4> QED BY <4>1, <4>2, <4>3
    <3>5. Speaks(s1 \o s2)
      <4>1. s1 \o s2 \in Seq(Messages)
        BY <3>2
      <4> QED BY <1>1, <2>3, <3>3, <3>4, <4>1 DEF Speaks, environment
    <3> QED BY <3>5
  <2> QED BY <2>3, <2>4, <2>5
<1> QED BY <1>2, <1>3

(* The end of a compaction: the context gives way, and a turn that passed   *)
(* the window may have its calls closed.                                   *)
LEMMA CompactingStep ==
    ASSUME IInv, PromptIsThere, CompactDone
    PROVE  \E s : Speaks(s)
<1> DEFINE small == Compacted(messages, KeepRecent)
<1>1. /\ TypeOK /\ pc = "compact" /\ Paired(messages)
      /\ CanCompact(messages, KeepRecent)
      /\ UNCHANGED <<past, environment>>
      /\ cause \in {"threshold", "overflow", "silent", "above"}
  BY DEF IInv, CompactionIsUseful, CompactDone
<1>2. CASE cause \in {"threshold", "overflow", "silent"}
  <2>1. messages' = small /\ UNCHANGED journal
    BY <1>2 DEF CompactDone
  <2>2. Speaks(<<>>)
    BY <1>1, <2>1, ShrinkingStep DEF environment
  <2> QED BY <2>2
<1>3. CASE cause = "above"
  <2>1. Proceed(turn, small, journal)
    BY <1>3 DEF CompactDone
  <2>2. /\ streams \in Nat /\ turn \in Turn /\ journal \in Seq(Messages)
        /\ small \in Seq(Messages) /\ Len(journal) > 0
    BY <1>1, CompactionKeepsPaired, LoopConstants DEF TypeOK, Messages, PromptIsThere
  <2> HIDE DEF small
  <2>3. PICK s : /\ \/ s = <<>>
                    \/ \E m \in Messages : /\ s = <<m>> /\ m # UserMessage
                                           /\ m.answers = TurnCalls(turn)
                 /\ messages' = small \o s /\ journal' = journal \o s
    BY <2>1, <2>2, ProceedSays
  <2>4. LastUses(journal) = TurnCalls(turn)
    <3>1. CASE turn.calls = 0
      <4>1. AllCallsAnswered(journal) /\ TurnCalls(turn) = {}
        BY <1>1, <1>3, <2>2, <3>1, TurnCallsType DEF IInv, NoCallsNothingOpen, Acting
      <4> QED BY <2>2, <4>1, NothingIsOpen
    <3>2. CASE turn.calls > 0
      BY <1>1, <1>3, <3>2 DEF IInv, LastIsTheTurn, Acting, LastCalls, LastUses
    <3> QED BY <2>2, <3>1, <3>2, TurnCallsType
  <2>5. Fits(LastUses(journal), s)
    BY <2>3, <2>4, WordsFit
  <2>6. s \in Seq(Messages)
    BY <2>5 DEF Fits
  <2>7. Speaks(s)
    BY <1>1, <2>3, <2>5, <2>6 DEF Speaks, environment, small
  <2> QED BY <2>7
<1> QED BY <1>1, <1>2, <1>3

(* Every step of the loop says the same on both sides.                     *)
LEMMA LoopSpeaks ==
    ASSUME IInv, PromptIsThere, Loop
    PROVE  \E s : Speaks(s)
<1>1. TypeOK /\ inbox \in Nat
  BY LoopConstants DEF IInv, TypeOK
<1>2. CASE NextTurn
  <2>1. /\ pc = "turn" /\ inbox' = 0 /\ UNCHANGED <<past, typed, requests>>
        /\ messages' = messages \o Steered /\ journal' = journal \o Steered
    BY <1>2 DEF NextTurn, RecordSteered
  <2>2. Steered \in Seq(Messages)
    BY <1>1, MessageTypes DEF Steered, Messages
  <2>3. LastUses(journal) = {}
    BY <2>1, <1>1, NothingIsOpen
    DEF IInv, NothingOpen, MayBeOpen, PromptIsThere, TypeOK, Messages
  <2>4. Speaks(Steered)
    BY <2>1, <2>2, <2>3 DEF Speaks
  <2> QED BY <2>4
<1>3. CASE CompactDone
  BY <1>3, CompactingStep
<1>4. CASE StreamEnd \/ StreamCancelled
  <2>1. PICK t \in Turn : Settle(t)
    BY <1>4 DEF StreamEnd, StreamCancelled
  <2>2. pc = "stream" /\ UNCHANGED environment
    BY <1>4 DEF StreamEnd, StreamCancelled
  <2> QED BY <2>1, <2>2, SettlingStep
<1>5. CASE StreamFail \/ ToolStart \/ ToolRuns
  <2>1. UNCHANGED <<conversation, inbox, typed, requests>>
    BY <1>5 DEF StreamFail, Leave, ToolStart, ToolRuns, environment, conversation
  <2>2. Speaks(<<>>)
    BY <1>1, <2>1, SilentStep
  <2> QED BY <2>2
<1>6. CASE ToolDone
  <2>1. pc = "tool" /\ UNCHANGED <<past, environment>>
    BY <1>6 DEF ToolDone
  <2>2. \/ UNCHANGED <<messages, journal>>
        \/ EndRound
    BY <1>6 DEF ToolDone
  <2>3. CASE UNCHANGED <<messages, journal>>
    <3>1. Speaks(<<>>)
      BY <1>1, <2>1, <2>3, SilentStep DEF conversation, environment
    <3> QED BY <3>1
  <2>4. CASE EndRound
    BY <2>1, <2>4, AnsweringStep DEF EndRound
  <2> QED BY <2>2, <2>3, <2>4
<1>7. CASE ToolCancelled
  BY <1>7, AnsweringStep DEF ToolCancelled, CancelNoticed, CancelRound, Leave
<1> QED BY <1>2, <1>3, <1>4, <1>5, <1>6, <1>7 DEF Loop

-----------------------------------------------------------------------------
(* The record and the context never part.                                  *)

RecordInv == IInv /\ PromptIsThere /\ View(messages, Record)

LEMMA RecordTypes ==
    ASSUME TypeOK
    PROVE  /\ Record \in Seq(Messages) /\ messages \in Seq(Messages)
           /\ journal \in Seq(Messages) /\ past \in Seq(Messages)
           /\ Len(Record) = Len(past) + Len(journal)
           /\ Marker \in Messages /\ UserMessage \in Messages
<1>1. /\ journal \in Seq(Messages) /\ past \in Seq(Messages)
      /\ messages \in Seq(Messages)
  BY DEF TypeOK, Messages
<1> QED BY <1>1, ConcatProperties, MessageTypes DEF Record, Messages

\* The record goes on with the words s.
RecordGrows(s) == s \in Seq(Messages) /\ Record' = Record \o s

LEMMA SpeakingGrows ==
    ASSUME TypeOK, NEW s, Speaks(s)
    PROVE  RecordGrows(s)
<1>1. s \in Seq(Messages) /\ journal' = journal \o s /\ past' = past
  BY DEF Speaks
<1>2. past \o (journal \o s) = (past \o journal) \o s
  <2>1. past \in Seq(Messages) /\ journal \in Seq(Messages)
    BY RecordTypes
  <2> QED BY <1>1, <2>1, ConcatAssociative
<1> QED BY <1>1, <1>2 DEF RecordGrows, Record

(* A new request adds its prompt to both.                                  *)
LEMMA AskingGrows ==
    ASSUME TypeOK, Submit
    PROVE  RecordGrows(<<UserMessage>>) /\ messages' = messages \o <<UserMessage>>
<1>1. past' = past \o journal /\ journal' = <<UserMessage>>
      /\ messages' = Append(messages, UserMessage)
  BY DEF Submit
<1>2. messages' = messages \o <<UserMessage>>
  BY <1>1, RecordTypes, AppendIsConcat
<1>3. <<UserMessage>> \in Seq(Messages)
  BY RecordTypes
<1> QED BY <1>1, <1>2, <1>3 DEF RecordGrows, Record

LEMMA SpeakingKeepsView ==
    ASSUME IInv, View(messages, Record), NEW s, Speaks(s)
    PROVE  View(messages, Record)'
<1>1. /\ TypeOK /\ Paired(messages) /\ s \in Seq(Messages)
      /\ KeepRecent \in Nat \ {0} /\ Record' = Record \o s
  BY SpeakingGrows, LoopConstants DEF IInv, RecordGrows
<1>2. CASE messages' = messages \o s
  <2>1. View(messages \o s, Record \o s)
    BY <1>1, RecordTypes, ViewGrows
  <2>2. View(messages', Record')
    BY <1>1, <1>2, <2>1
  <2> QED BY <2>2 DEF View
<1>3. CASE /\ CanCompact(messages, KeepRecent)
           /\ messages' = Compacted(messages, KeepRecent) \o s
  <2> DEFINE small == Compacted(messages, KeepRecent)
  <2>1. small \in Seq(Messages) /\ View(small, Record)
    BY <1>1, <1>3, RecordTypes, ViewShrinks, CompactionKeepsPaired DEF Messages
  <2> HIDE DEF small
  <2>2. View(small \o s, Record \o s)
    BY <1>1, <2>1, RecordTypes, ViewGrows
  <2>3. View(messages', Record')
    BY <1>1, <1>3, <2>2 DEF small
  <2> QED BY <2>3 DEF View
<1> QED BY <1>2, <1>3 DEF Speaks

LEMMA SilenceKeepsView ==
    ASSUME View(messages, Record), UNCHANGED <<messages, Record>>
    PROVE  View(messages, Record)'
  BY DEF View

(* Every step keeps the context a view of the record.                      *)
LEMMA ViewIsKept == RecordInv /\ [Next]_vars => RecordInv'
<1> SUFFICES ASSUME RecordInv, [Next]_vars PROVE RecordInv'
  OBVIOUS
<1>1. IInv /\ IInv' /\ TypeOK /\ PromptIsThere /\ View(messages, Record)
  BY NextIsSafe DEF RecordInv, IInv
<1>2. CASE Submit
  <2>1. PromptIsThere'
    BY <1>2 DEF Submit, PromptIsThere
  <2>2. View(messages \o <<UserMessage>>, Record \o <<UserMessage>>)
    BY <1>1, <1>2, RecordTypes, AskingGrows, ViewGrows DEF RecordGrows
  <2>3. View(messages', Record')
    BY <1>1, <1>2, <2>2, AskingGrows DEF RecordGrows
  <2> QED BY <1>1, <2>1, <2>3 DEF RecordInv, View
<1>3. CASE Cancel \/ Steer \/ UNCHANGED vars
  <2>1. UNCHANGED <<pc, messages, journal, past>>
    BY <1>3 DEF Cancel, Steer, vars, conversation
  <2>2. PromptIsThere' /\ Record' = Record
    BY <1>1, <2>1 DEF PromptIsThere, Record
  <2> QED BY <1>1, <2>1, <2>2, SilenceKeepsView DEF RecordInv
<1>4. CASE CompactNow
  <2>1. /\ CanCompact(messages, KeepRecent) /\ UNCHANGED <<pc, journal, past>>
        /\ messages' = Compacted(messages, KeepRecent)
    BY <1>4 DEF CompactNow
  <2>2. PromptIsThere' /\ Record' = Record
    BY <1>1, <2>1 DEF PromptIsThere, Record
  <2>3. View(Compacted(messages, KeepRecent), Record)
    BY <1>1, <2>1, RecordTypes, ViewShrinks, LoopConstants DEF IInv, Messages
  <2>4. View(messages', Record')
    BY <2>1, <2>2, <2>3
  <2> QED BY <1>1, <2>2, <2>4 DEF RecordInv, View
<1>5. CASE Loop
  <2>1. PICK s : Speaks(s)
    BY <1>1, <1>5, LoopSpeaks
  <2>2. View(messages, Record)'
    BY <1>1, <2>1, SpeakingKeepsView
  <2>3. PromptIsThere'
    <3>1. pc # "idle"
      BY <1>5 DEF Loop, NextTurn, CompactDone, StreamEnd, StreamCancelled,
         StreamFail, ToolStart, ToolRuns, ToolDone, ToolCancelled, CancelNoticed
    <3>2. Len(journal) > 0 /\ journal' = journal \o s /\ s \in Seq(Messages)
      BY <1>1, <2>1, <3>1 DEF PromptIsThere, Speaks
    <3>3. Len(journal') > 0
      BY <1>1, <3>2, RecordTypes, ConcatProperties
    <3> QED BY <3>3 DEF PromptIsThere
  <2> QED BY <1>1, <2>2, <2>3 DEF RecordInv
<1> QED BY <1>2, <1>3, <1>4, <1>5 DEF Next

LEMMA InitIsAView == Init => RecordInv
<1> SUFFICES ASSUME Init PROVE RecordInv
  OBVIOUS
<1>1. PromptIsThere /\ messages = <<>> /\ Record = <<>> \o <<>>
  BY DEF Init, PromptIsThere, Record
<1>2. messages = Record
  <2>1. <<>> \o <<>> = <<>>
    OBVIOUS
  <2> QED BY <1>1, <2>1
<1> QED BY <1>1, <1>2, InitIsSafe DEF RecordInv, View

LEMMA RecordIsSafe == Spec => []RecordInv
<1> QED BY InitIsAView, ViewIsKept, PTL DEF Spec

(* The context the model sees is always the record that is persisted, or    *)
(* its first prompt, a marker and its end: no number of compactions, at    *)
(* whatever points of however many requests, makes them part.              *)
THEOREM ContextFollowsTheRecord == Spec => []ContextIsTheRecord
<1>1. RecordInv => ContextIsTheRecord
  BY DEF RecordInv, View, Abridged, ContextIsTheRecord
<1> QED BY <1>1, RecordIsSafe, PTL

-----------------------------------------------------------------------------
(* What the user typed.                                                    *)

NothingTypedIsLost == Cardinality(Prompts(Record)) + inbox = requests + typed

SteeringInv == RecordInv /\ NothingTypedIsLost

LEMMA SpeakingKeepsSteering ==
    ASSUME TypeOK, NothingTypedIsLost, NEW s, Speaks(s)
    PROVE  NothingTypedIsLost'
<1>1. /\ s \in Seq(Messages) /\ Record' = Record \o s /\ Record \in Seq(Messages)
      /\ UNCHANGED <<typed, requests>>
  BY SpeakingGrows, RecordTypes DEF RecordGrows, Speaks
<1>2. Cardinality(Prompts(Record)) \in Nat /\ inbox \in Nat
  BY <1>1, PromptsAreFinite, LoopConstants DEF TypeOK
<1>3. CASE s = Steered /\ inbox' = 0
  <2>1. Len(s) = inbox /\ \A i \in 1 .. inbox : s[i] = UserMessage
    BY <1>2, <1>3 DEF Steered
  <2>2. Cardinality(Prompts(Record \o s)) = Cardinality(Prompts(Record)) + inbox
    BY <1>1, <1>2, <2>1, PromptsAdd
  <2>3. Cardinality(Prompts(Record')) = Cardinality(Prompts(Record)) + inbox
    BY <1>1, <2>2
  <2>4. Cardinality(Prompts(Record')) + inbox' = requests' + typed'
    BY <1>1, <1>2, <1>3, <2>3 DEF NothingTypedIsLost
  <2> QED BY <2>4 DEF NothingTypedIsLost, Prompts
<1>4. CASE Fits(LastUses(journal), s) /\ UNCHANGED inbox
  <2>1. Prompts(Record \o s) = Prompts(Record)
    BY <1>1, <1>4, OtherWordsAddNone DEF Fits
  <2>2. Prompts(Record') = Prompts(Record)
    BY <1>1, <2>1
  <2>3. Cardinality(Prompts(Record')) + inbox' = requests' + typed'
    BY <1>1, <1>4, <2>2 DEF NothingTypedIsLost
  <2> QED BY <2>3 DEF NothingTypedIsLost, Prompts
<1> QED BY <1>3, <1>4 DEF Speaks

LEMMA SteeringIsKept == SteeringInv /\ [Next]_vars => SteeringInv'
<1> SUFFICES ASSUME SteeringInv, [Next]_vars PROVE SteeringInv'
  OBVIOUS
<1>1. RecordInv' /\ IInv /\ TypeOK /\ PromptIsThere /\ NothingTypedIsLost
  BY ViewIsKept DEF SteeringInv, RecordInv, IInv
<1>2. /\ Record \in Seq(Messages) /\ Cardinality(Prompts(Record)) \in Nat
      /\ inbox \in Nat /\ typed \in Nat /\ requests \in Nat
  BY <1>1, RecordTypes, PromptsAreFinite, LoopConstants DEF TypeOK
<1>3. CASE Submit
  <2> DEFINE s == <<UserMessage>>
  <2>1. /\ Record' = Record \o s /\ s \in Seq(Messages)
        /\ requests' = requests + 1 /\ UNCHANGED <<inbox, typed>>
    BY <1>1, <1>3, AskingGrows DEF RecordGrows, Submit
  <2>2. Len(s) = 1 /\ \A i \in 1 .. 1 : s[i] = UserMessage
    OBVIOUS
  <2> HIDE DEF s
  <2>3. Cardinality(Prompts(Record \o s)) = Cardinality(Prompts(Record)) + 1
    BY <1>2, <2>1, <2>2, PromptsAdd
  <2>4. Cardinality(Prompts(Record')) = Cardinality(Prompts(Record)) + 1
    BY <2>1, <2>3
  <2>5. Cardinality(Prompts(Record')) + inbox' = requests' + typed'
    <3> DEFINE before == Cardinality(Prompts(Record))
               after == Cardinality(Prompts(Record'))
    <3>1. before \in Nat /\ before + inbox = requests + typed /\ after = before + 1
      BY <1>1, <1>2, <2>4 DEF NothingTypedIsLost
    <3> HIDE DEF before, after
    <3>2. after + inbox' = requests' + typed'
      BY <1>2, <2>1, <3>1
    <3> QED BY <3>2 DEF after
  <2> QED BY <1>1, <2>5 DEF SteeringInv, NothingTypedIsLost, Prompts
<1>4. CASE Cancel \/ Steer \/ CompactNow \/ UNCHANGED vars
  <2>1. Record' = Record
    BY <1>4 DEF Cancel, Steer, CompactNow, vars, conversation, Record
  <2>2. /\ requests' = requests
        /\ \/ UNCHANGED <<inbox, typed>>
           \/ inbox' = inbox + 1 /\ typed' = typed + 1
    BY <1>4 DEF Cancel, Steer, CompactNow, vars, environment
  <2>3. Cardinality(Prompts(Record')) + inbox' = requests' + typed'
    BY <1>1, <1>2, <2>1, <2>2 DEF NothingTypedIsLost
  <2> QED BY <1>1, <2>3 DEF SteeringInv, NothingTypedIsLost, Prompts
<1>5. CASE Loop
  <2>1. PICK s : Speaks(s)
    BY <1>1, <1>5, LoopSpeaks
  <2> QED BY <1>1, <2>1, SpeakingKeepsSteering DEF SteeringInv
<1> QED BY <1>3, <1>4, <1>5 DEF Next

(* What the user typed while the agent worked is in the record exactly      *)
(* once, or still in the channel, in whatever order the steps interleave.  *)
THEOREM NoSteeringIsLost == Spec => []SteeringIsRecorded
<1>1. Init => SteeringInv
  <2> SUFFICES ASSUME Init PROVE SteeringInv
    OBVIOUS
  <2>1. Record = <<>> \o <<>> /\ inbox = 0 /\ typed = 0 /\ requests = 0
    BY DEF Init, Record
  <2>2. <<>> \o <<>> = <<>> /\ Len(<<>>) = 0
    OBVIOUS
  <2>3. Prompts(Record) = {}
    BY <2>1, <2>2 DEF Prompts
  <2>4. Cardinality(Prompts(Record)) = 0
    BY <2>3, FS_EmptySet
  <2> QED BY <2>1, <2>4, InitIsAView DEF SteeringInv, NothingTypedIsLost
<1>2. SteeringInv => SteeringIsRecorded
  BY DEF SteeringInv, NothingTypedIsLost, Prompts, SteeringIsRecorded
<1> QED BY <1>1, <1>2, SteeringIsKept, PTL DEF Spec

-----------------------------------------------------------------------------
(* The record is a transcript.                                             *)

\* Each of the words s answers the calls made just before it in the record.
AnswerInTurn(rec, s) ==
    \A j \in 1 .. Len(s) :
        s[j].answers = IF j = 1 THEN LastUses(rec) ELSE s[j - 1].uses

(* Words that each answer the calls before them do so in the record too.    *)
LEMMA WordsFollow ==
    ASSUME NEW S, NEW rec \in Seq(S), Len(rec) > 0, NEW s \in Seq(S),
           AnswerInTurn(rec, s)
    PROVE  LET both == rec \o s
           IN  /\ Len(rec) <= Len(both) /\ SubSeq(both, 1, Len(rec)) = rec
               /\ \A i \in Len(rec) + 1 .. Len(both) :
                    i > 1 /\ both[i].answers = both[i - 1].uses
<1> DEFINE both == rec \o s
<1>1. /\ both \in Seq(S) /\ Len(both) = Len(rec) + Len(s)
      /\ \A i \in 1 .. Len(rec) + Len(s) :
           both[i] = IF i <= Len(rec) THEN rec[i] ELSE s[i - Len(rec)]
  BY ConcatProperties
<1> HIDE DEF both
<1>2. SubSeq(both, 1, Len(rec)) = rec
  <2> DEFINE front == SubSeq(both, 1, Len(rec))
  <2>1. 1 \in Int /\ Len(rec) \in Int /\ \A i \in 1 .. Len(rec) : both[i] \in S
    BY <1>1
  <2>2. /\ front \in Seq(S) /\ Len(front) = Len(rec)
        /\ \A i \in 1 .. Len(rec) - 1 + 1 : front[i] = both[1 + i - 1]
    BY <2>1, SubSeqProperties
  <2> HIDE DEF front
  <2>3. \A i \in 1 .. Len(front) : front[i] = rec[i]
    BY <1>1, <2>2
  <2>4. front = rec
    BY <2>2, <2>3, SeqEqual
  <2> QED BY <2>4 DEF front
<1>3. ASSUME NEW i \in Len(rec) + 1 .. Len(both)
      PROVE  i > 1 /\ both[i].answers = both[i - 1].uses
  <2> DEFINE j == i - Len(rec)
  <2>1. /\ j \in 1 .. Len(s) /\ i > 1 /\ i - 1 \in 1 .. Len(rec) + Len(s)
        /\ i \in 1 .. Len(rec) + Len(s) /\ ~(i <= Len(rec))
    BY <1>1, <1>3
  <2>2. both[i] = s[j]
    BY <1>1, <2>1
  <2>3. CASE j = 1
    <3>1. i - 1 = Len(rec) /\ both[i - 1] = rec[Len(rec)]
      BY <1>1, <2>1, <2>3
    <3> QED BY <2>1, <2>2, <2>3, <3>1 DEF AnswerInTurn, LastUses
  <2>4. CASE j # 1
    <3>1. ~(i - 1 <= Len(rec)) /\ (i - 1) - Len(rec) = j - 1
      BY <2>1, <2>4
    <3>2. both[i - 1] = s[j - 1]
      BY <1>1, <2>1, <3>1
    <3> HIDE DEF j
    <3> QED BY <2>1, <2>2, <2>4, <3>2 DEF AnswerInTurn
  <2> QED BY <2>3, <2>4
<1>4. Len(rec) <= Len(both)
  BY <1>1
<1> QED BY <1>2, <1>3, <1>4 DEF both

LEMMA SpeakingFollows ==
    ASSUME RecordInv, pc # "idle", NEW s, Speaks(s)
    PROVE  /\ Kept!IsPrefixOf(Record, Record')
           /\ \A i \in Len(Record) + 1 .. Len(Record') : Kept!Follows(Record', i)
<1>1. /\ TypeOK /\ s \in Seq(Messages) /\ Record' = Record \o s
      /\ Record \in Seq(Messages) /\ Len(journal) > 0
  BY SpeakingGrows, RecordTypes DEF RecordInv, IInv, RecordGrows, PromptIsThere
<1>2. Len(Record) > 0 /\ LastUses(Record) = LastUses(journal)
  <2>1. past \in Seq(Messages) /\ journal \in Seq(Messages)
    BY <1>1, RecordTypes
  <2>2. /\ Len(Record) = Len(past) + Len(journal)
        /\ Record[Len(past) + Len(journal)] = journal[Len(journal)]
    BY <1>1, <2>1, ConcatProperties DEF Record
  <2> QED BY <1>1, <2>1, <2>2 DEF LastUses
<1>3. AnswerInTurn(Record, s)
  <2>1. CASE s = Steered /\ LastUses(journal) = {}
    <3>1. UserMessage.answers = {} /\ UserMessage.uses = {}
      BY MessageTypes
    <3>2. Len(s) = inbox /\ \A i \in 1 .. inbox : s[i] = UserMessage
      BY <1>1, <2>1, LoopConstants DEF Steered, TypeOK
    <3>3. ASSUME NEW j \in 1 .. Len(s)
          PROVE  s[j].answers = {} /\ (j # 1 => s[j - 1].uses = {})
      BY <1>1, <3>1, <3>2
    <3> QED BY <1>2, <2>1, <3>3 DEF AnswerInTurn
  <2>2. CASE Fits(LastUses(journal), s)
    BY <1>2, <2>2 DEF Fits, AnswerInTurn
  <2> QED BY <2>1, <2>2 DEF Speaks
<1> DEFINE both == Record \o s
<1>4. /\ Len(Record) <= Len(both) /\ SubSeq(both, 1, Len(Record)) = Record
      /\ \A i \in Len(Record) + 1 .. Len(both) :
            i > 1 /\ both[i].answers = both[i - 1].uses
  BY <1>1, <1>2, <1>3, WordsFollow
<1> HIDE DEF both
<1>5. Record' = both
  BY <1>1 DEF both
<1> QED BY <1>4, <1>5 DEF Kept!IsPrefixOf, Kept!Follows

LEMMA StepsOfTheRecord ==
    RecordInv /\ [Next]_vars => [Kept!Next]_(Kept!transcript)
<1> SUFFICES ASSUME RecordInv, [Next]_vars
             PROVE  Kept!Next \/ UNCHANGED <<Record, pc # "idle">>
  BY DEF Kept!transcript
<1>1. IInv /\ TypeOK /\ PromptIsThere
  BY DEF RecordInv, IInv
<1>2. CASE Submit
  <2>1. Record' = Record \o <<UserMessage>>
    BY <1>1, <1>2, AskingGrows DEF RecordGrows
  <2>2. Record' = Append(Record, UserMessage)
    BY <1>1, <2>1, RecordTypes, AppendIsConcat
  <2>3. pc = "idle" /\ pc' = "turn"
    BY <1>2 DEF Submit
  <2>4. Kept!Ask
    BY <2>2, <2>3 DEF Kept!Ask, Kept!UserMessage, UserMessage
  <2> QED BY <2>4 DEF Kept!Next
<1>3. CASE Cancel \/ Steer \/ CompactNow \/ UNCHANGED vars
  <2>1. Record' = Record /\ pc' = pc
    BY <1>3 DEF Cancel, Steer, CompactNow, vars, conversation, Record
  <2> QED BY <2>1
<1>4. CASE Loop
  <2>1. PICK s : Speaks(s)
    BY <1>1, <1>4, LoopSpeaks
  <2>2. pc # "idle"
    BY <1>4 DEF Loop, NextTurn, CompactDone, StreamEnd, StreamCancelled,
       StreamFail, ToolStart, ToolRuns, ToolDone, ToolCancelled, CancelNoticed
  <2>3. Kept!Go
    BY <2>1, <2>2, SpeakingFollows DEF Kept!Go
  <2> QED BY <2>3 DEF Kept!Next
<1> QED BY <1>2, <1>3, <1>4 DEF Next

(* The agent loop implements the transcript it promises: every step adds    *)
(* nothing to the record, starts a request, or goes on with words that     *)
(* answer exactly the calls made just before them.                         *)
THEOREM LoopKeepsATranscript == Spec => RecordIsATranscript
<1>1. Init => Kept!Init
  <2> SUFFICES ASSUME Init PROVE Kept!Init
    OBVIOUS
  <2>1. Record = <<>> \o <<>> /\ pc = "idle"
    BY DEF Init, Record
  <2>2. <<>> \o <<>> = <<>>
    OBVIOUS
  <2> QED BY <2>1, <2>2 DEF Kept!Init
<1>2. RecordIsATranscript <=> Kept!Spec
  BY DEF RecordIsATranscript
<1> QED BY <1>1, <1>2, RecordIsSafe, StepsOfTheRecord, PTL DEF Spec, Kept!Spec

=============================================================================
