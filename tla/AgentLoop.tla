----------------------------- MODULE AgentLoop -----------------------------
(***************************************************************************)
(* The agent loop of nycode-agent: agent.rs (run_with, stream_one_turn),   *)
(* agent/shrink.rs (when the history shrinks) and agent/dispatch.rs (a     *)
(* round of tools), with the cancel signal (cancel.rs) and the steering    *)
(* channel that other tasks touch while it runs.                           *)
(*                                                                         *)
(* A step is what the loop does between two awaits.  It awaits the stream  *)
(* of the backend (pc = "stream"), a tool ("tool") and the summary that a  *)
(* compaction asks the backend for ("compact"); "turn" and "round" are the *)
(* points where it is about to open a stream or to start a tool.           *)
(***************************************************************************)
EXTENDS History, FiniteSets

CONSTANTS
    ToolLimit,      \* rounds of tools one request may run
    KeepRecent,     \* messages a compaction leaves at the end
    InboxCap,       \* capacity of the steering channel
    MaxCalls,       \* bound: tool calls of one turn
    MaxSteer,       \* bound: messages the user types while requests run
    MaxRequests     \* bound: requests of one session

\* The settings file cannot set either limit to zero (settings.rs, apply).
ASSUME LoopConstants ==
    /\ ToolLimit \in Nat \ {0} /\ KeepRecent \in Nat \ {0}
    /\ InboxCap \in Nat \ {0}
    /\ MaxCalls \in Nat /\ MaxSteer \in Nat /\ MaxRequests \in Nat

\* Compactions one request may be charged for.
MAX_COMPACTIONS == 2

\* How the provider says a turn stopped, as far as the loop tells apart:
\* "end" stands for every reason that is neither a request for tools nor the
\* output limit, "failed" for the in-band error and abort reasons, "absent"
\* for a stream that closed without saying.
StopReasons == {"end", "tool_use", "max_tokens", "failed", "absent"}

\* What a finished or interrupted stream adds up to: how many complete calls
\* it made, what else it said, and what its usage tells: "real" when the
\* provider counted (and did not estimate) tokens, "above" when the input
\* passed the declared window.
Turn == [calls : 0 .. MaxCalls, said : {"nothing", "reasoning", "text"},
         stop : StopReasons, usage : SUBSET {"real", "above"},
         interrupted : BOOLEAN]

NoTurn == [calls |-> 0, said |-> "nothing", stop |-> "absent", usage |-> {},
           interrupted |-> FALSE]

\* The round being run: how many calls have a result, which of them really
\* ran, and whether every result so far asked the loop to stop.
Round == [answered : 0 .. MaxCalls, ran : SUBSET (1 .. MaxCalls), allStop : BOOLEAN]

NoRound == [answered |-> 0, ran |-> {}, allStop |-> TRUE]

Results == {"none", "answered", "stopped", "cancelled", "limit", "wire"}

Causes == {"none", "threshold", "overflow", "silent", "above"}

CallId == Nat \X Nat

VARIABLES
    pc,           \* where the loop is
    messages,     \* the context, as the model will see it
    journal,      \* what this request added, for whoever persists it
    past,         \* what the earlier requests added
    rounds,       \* rounds of tools of this request
    compactions,  \* compactions the request was charged for
    shrunk,       \* compactions the request actually went through
    streams,      \* streams the request opened
    anchor,       \* position in messages of the last real usage, 0 if none
    cancel,       \* the cancel signal
    inbox,        \* steering messages waiting in the channel
    turn,         \* the turn being acted on
    cause,        \* why the loop is compacting
    round,        \* the round of tools of that turn
    result,       \* how the last request ended
    typed,        \* steering messages accepted by the channel so far
    requests      \* requests so far

conversation == <<messages, journal, past>>
counters == <<rounds, compactions, shrunk, streams>>
environment == <<cancel, inbox, typed, requests>>
vars == <<pc, conversation, counters, anchor, environment, turn, cause, round, result>>

Init ==
    /\ pc = "idle"
    /\ messages = <<>> /\ journal = <<>> /\ past = <<>>
    /\ rounds = 0 /\ compactions = 0 /\ shrunk = 0 /\ streams = 0
    /\ anchor = 0
    /\ cancel = FALSE /\ inbox = 0 /\ typed = 0 /\ requests = 0
    /\ turn = NoTurn /\ cause = "none" /\ round = NoRound
    /\ result = "none"

-----------------------------------------------------------------------------
(* The rest of the process, while the loop runs.                           *)

\* The user asks for something: run_with starts, with the signal rearmed.
Submit ==
    /\ pc = "idle" /\ requests < MaxRequests
    /\ pc' = "turn"
    /\ cancel' = FALSE
    /\ past' = past \o journal
    /\ journal' = <<UserMessage>>
    /\ messages' = Append(messages, UserMessage)
    /\ rounds' = 0 /\ compactions' = 0 /\ shrunk' = 0 /\ streams' = 0
    /\ result' = "none" /\ requests' = requests + 1
    /\ round' = NoRound
    /\ UNCHANGED <<anchor, inbox, typed, turn, cause>>

\* Ctrl+C: another task fires the signal, at any point of the request.
Cancel ==
    /\ pc # "idle" /\ ~cancel
    /\ cancel' = TRUE
    /\ UNCHANGED <<pc, conversation, counters, anchor, inbox, typed, requests,
                   turn, cause, round, result>>

\* The user types while the turn runs; a full channel refuses the message.
Steer ==
    /\ pc # "idle" /\ typed < MaxSteer /\ inbox < InboxCap
    /\ inbox' = inbox + 1 /\ typed' = typed + 1
    /\ UNCHANGED <<pc, conversation, counters, anchor, cancel, requests,
                   turn, cause, round, result>>

-----------------------------------------------------------------------------
(* What the steps of the loop are made of.                                 *)

\* The calls of a turn.  Identifiers are unique within a request and come
\* back in the next one, as they do with some providers.
TurnCalls(t) == {<<streams, i>> : i \in 1 .. t.calls}

\* The request ends with this conversation and this journal.
Leave(ms, js, how) ==
    /\ messages' = ms /\ journal' = js
    /\ pc' = "idle" /\ result' = how
    /\ turn' = NoTurn /\ cause' = "none"

\* Every call of the turn gets a result saying it was cancelled.
ClosePending(t, ms) ==
    IF t.calls = 0 THEN ms ELSE Append(ms, ResultsMessage(TurnCalls(t)))

\* A compaction still fits in this request, and would remove something.
MayCompact(ms) ==
    compactions < MAX_COMPACTIONS /\ CanCompact(ms, KeepRecent)

\* Await the summary of what is about to be removed.
StartCompacting(why) == pc' = "compact" /\ cause' = why

KeepUsage ==
    /\ shrunk' = shrunk + 1
    /\ UNCHANGED anchor

\* A usage measured on the old history says nothing of the compacted one.
ForgetUsage ==
    /\ shrunk' = shrunk + 1
    /\ anchor' = 0

OpenStream == pc' = "stream" /\ streams' = streams + 1

ChargesNothing == UNCHANGED compactions

\* A compaction counts against the request.
Charge == compactions' = compactions + 1

OneRoundMore == rounds <= ToolLimit

UnderLimit == rounds < ToolLimit

\* The output limit with nothing to show: the prompt took the whole window.
ProducedNothing(t) ==
    t.stop = "max_tokens" /\ t.said # "text" /\ t.calls = 0

InputAboveWindow(t) == "above" \in t.usage /\ ~ProducedNothing(t)

WantsTools(t) == t.stop = "tool_use" /\ t.calls > 0

\* The assistant turn enters the history, marked when it is not to be sent
\* again; one with nothing in it does not enter.
Recorded(t, ms) ==
    LET body == IF t.said = "nothing" THEN "none" ELSE "text"
        m == AssistantMessage(TurnCalls(t), body, t.interrupted \/ t.stop = "failed")
    IN  IF IsEmpty(m) THEN ms ELSE Append(ms, m)

\* What the loop still looks at once a turn is recorded.
Remembered(t) == [t EXCEPT !.said = "nothing", !.usage = {}]

\* What a turn already recorded leads to.
Proceed(t, ms, js) ==
    \/ /\ t.interrupted
       /\ Leave(ClosePending(t, ms), ClosePending(t, js), "cancelled")
       /\ UNCHANGED <<rounds, round>>
    \/ /\ ~t.interrupted /\ ~WantsTools(t)
       /\ Leave(ms, js, "answered")
       /\ UNCHANGED <<rounds, round>>
    \/ /\ ~t.interrupted /\ WantsTools(t) /\ UnderLimit
       /\ rounds' = rounds + 1
       /\ pc' = "round" /\ round' = NoRound
       /\ messages' = ms /\ journal' = js
       /\ turn' = Remembered(t) /\ cause' = "none"
       /\ UNCHANGED result
    \/ /\ ~t.interrupted /\ WantsTools(t) /\ ~UnderLimit
       /\ rounds' = rounds + 1
       /\ Leave(ClosePending(t, ms), ClosePending(t, js), "limit")
       /\ UNCHANGED round

\* A turn was read to its end, or to where it was interrupted.
Settle(t) ==
    \/ /\ ProducedNothing(t) /\ MayCompact(messages)
       /\ StartCompacting("silent")
       /\ UNCHANGED <<conversation, rounds, anchor, turn, round, result>>
    \/ /\ ~(ProducedNothing(t) /\ MayCompact(messages))
       /\ LET ms == Recorded(t, messages)
              js == Recorded(t, journal)
          IN  /\ anchor' = IF ~t.interrupted /\ "real" \in t.usage
                           THEN Len(ms) ELSE anchor
              /\ \/ /\ InputAboveWindow(t) /\ MayCompact(ms)
                    /\ StartCompacting("above")
                    /\ messages' = ms /\ journal' = js /\ turn' = Remembered(t)
                    /\ UNCHANGED <<rounds, round, result>>
                 \/ /\ ~(InputAboveWindow(t) /\ MayCompact(ms))
                    /\ Proceed(t, ms, js)
       /\ UNCHANGED past

-----------------------------------------------------------------------------
(* The steps of the loop.                                                  *)

Steered == [i \in 1 .. inbox |-> UserMessage]

SteersTheContextOnly ==
    messages' = messages \o Steered /\ UNCHANGED journal

\* What the user typed enters the context and the record alike.
RecordSteered ==
    messages' = messages \o Steered /\ journal' = journal \o Steered

\* next_turn: what the user typed enters first; over the threshold, the
\* history shrinks before the stream is opened.  Whether the occupancy is
\* over it is left open.
NextTurn ==
    /\ pc = "turn"
    /\ RecordSteered
    /\ inbox' = 0
    /\ \/ /\ OpenStream
          /\ UNCHANGED cause
       \/ /\ MayCompact(messages \o Steered)
          /\ StartCompacting("threshold")
          /\ UNCHANGED streams
    /\ UNCHANGED <<past, rounds, compactions, shrunk, anchor, cancel, typed,
                   requests, turn, round, result>>

\* The summary arrived, or failed to: either way the history gives way.
\* Nothing here looks at the cancel signal, and only a compaction that was
\* not started at the threshold is charged to the request.
CompactDone ==
    /\ pc = "compact"
    /\ ForgetUsage
    /\ LET small == Compacted(messages, KeepRecent)
       IN  \/ /\ cause = "threshold"
              /\ messages' = small
              /\ OpenStream /\ cause' = "none"
              /\ UNCHANGED <<journal, rounds, compactions, turn, round, result>>
           \/ /\ cause \in {"overflow", "silent"}
              /\ messages' = small
              /\ Charge
              /\ pc' = "turn" /\ cause' = "none"
              /\ UNCHANGED <<journal, rounds, streams, turn, round, result>>
           \/ /\ cause = "above"
              /\ Charge
              /\ Proceed(turn, small, journal)
              /\ UNCHANGED streams
    /\ UNCHANGED <<past, environment>>

StreamEnd ==
    /\ pc = "stream" /\ ~cancel
    /\ \E t \in Turn : ~t.interrupted /\ Settle(t)
    /\ UNCHANGED <<compactions, shrunk, streams, environment>>

\* The signal wins every race with the next event: what was read so far is
\* all there is.
StreamCancelled ==
    /\ pc = "stream" /\ cancel
    /\ \E t \in Turn : t.interrupted /\ Settle(t)
    /\ UNCHANGED <<compactions, shrunk, streams, environment>>

\* The backend answers with an error, in the response or in the middle of the
\* stream: what was read is gone.  An overflow is worth a compaction.
StreamFail ==
    /\ pc = "stream" /\ ~cancel
    /\ \/ /\ MayCompact(messages)
          /\ StartCompacting("overflow")
          /\ UNCHANGED <<messages, journal, turn, result>>
       \/ Leave(messages, journal, "wire")
    /\ UNCHANGED <<past, counters, anchor, environment, round>>

-----------------------------------------------------------------------------
(* A round of tools, one call at a time.                                   *)

Current == round.answered + 1

\* What the user typed enters between a call and its result.
SteersIntoTheRound ==
    /\ pc = "round" /\ ~cancel
    /\ pc' = "tool"
    /\ RecordSteered /\ inbox' = 0
    /\ UNCHANGED <<past, counters, anchor, cancel, typed, requests, turn, cause,
                   round, result>>

ToolStart ==
    /\ pc = "round" /\ ~cancel
    /\ pc' = "tool"
    /\ UNCHANGED <<conversation, counters, anchor, environment, turn, cause,
                   round, result>>

\* The hook, the gate and the user let the call through: its effects begin.
ToolRuns ==
    /\ pc = "tool" /\ ~cancel /\ Current \notin round.ran
    /\ round' = [round EXCEPT !.ran = @ \cup {Current}]
    /\ UNCHANGED <<pc, conversation, counters, anchor, environment, turn,
                   cause, result>>

\* The last result of the round is in: all of them enter in one message.
EndRound ==
    LET results == ResultsMessage(TurnCalls(turn))
    IN  /\ messages' = Append(messages, results)
        /\ journal' = Append(journal, results)
        /\ turn' = NoTurn /\ cause' = "none"

\* The call has a result: its output, or why it was not let through.  Only
\* one that ran may ask the loop to stop.
ToolDone ==
    /\ pc = "tool" /\ ~cancel
    /\ \E stop \in BOOLEAN :
        /\ stop => Current \in round.ran
        /\ LET next == [round EXCEPT !.answered = Current,
                                     !.allStop = @ /\ stop]
           IN  \/ /\ Current < turn.calls
                  /\ pc' = "round" /\ round' = next
                  /\ UNCHANGED <<messages, journal, turn, cause, result>>
               \/ /\ Current = turn.calls /\ round' = NoRound
                  /\ EndRound
                  /\ IF next.allStop
                     THEN pc' = "idle" /\ result' = "stopped"
                     ELSE pc' = "turn" /\ UNCHANGED result
    /\ UNCHANGED <<past, counters, anchor, environment>>

\* Answers only what already had an answer when the signal came.
CancelRoundDroppingTheRest ==
    LET results == ResultsMessage({<<streams, i>> : i \in 1 .. Current})
    IN  Leave(Append(messages, results), Append(journal, results), "cancelled")

\* Every call still without a result is told it was cancelled before it ran.
CancelRound ==
    LET results == ResultsMessage(TurnCalls(turn))
    IN  Leave(Append(messages, results), Append(journal, results), "cancelled")

\* Waits for the running tool to finish before it looks at the signal.
CancelNoticedBetweenCalls == pc = "round"

CancelNoticed == pc \in {"round", "tool"}

\* The running tool is dropped where it is.
ToolCancelled ==
    /\ CancelNoticed /\ cancel
    /\ round' = [round EXCEPT !.answered = turn.calls]
    /\ CancelRound
    /\ UNCHANGED <<past, counters, anchor, environment>>

\* /compact, between requests: the user is told how many messages went.
CompactNow ==
    /\ pc = "idle" /\ CanCompact(messages, KeepRecent)
    /\ ForgetUsage
    /\ messages' = Compacted(messages, KeepRecent)
    /\ UNCHANGED <<pc, journal, past, rounds, compactions, streams, environment,
                   turn, cause, round, result>>

-----------------------------------------------------------------------------

Loop ==
    \/ NextTurn \/ CompactDone
    \/ StreamEnd \/ StreamCancelled \/ StreamFail
    \/ ToolStart \/ ToolRuns \/ ToolDone \/ ToolCancelled

Next == Submit \/ Cancel \/ Steer \/ CompactNow \/ Loop

\* The loop itself never stops short, and a summary ends one way or another
\* (the transport gives up on an idle stream).  Nothing is assumed of the
\* stream of a turn nor of a tool.
LoopFairness ==
    /\ WF_vars(NextTurn)
    /\ WF_vars(CompactDone)
    /\ WF_vars(StreamCancelled)
    /\ WF_vars(ToolStart)
    /\ WF_vars(ToolCancelled)

\* A stream ends or fails, and a tool returns: the transport has an idle
\* deadline, tools have theirs, and the user answers what is asked.
BackendFairness == WF_vars(StreamEnd \/ StreamFail) /\ WF_vars(ToolDone)

Spec == Init /\ [][Next]_vars /\ LoopFairness

-----------------------------------------------------------------------------
(* Properties.                                                             *)

\* Everything said so far, as it is to be persisted.
Record == past \o journal

(* Every variable holds a value of its kind, and no counter passes the      *)
(* limit the code gives it.                                                *)
TypeOK ==
    /\ pc \in {"idle", "turn", "stream", "compact", "round", "tool"}
    /\ messages \in Seq(Message(CallId))
    /\ journal \in Seq(Message(CallId))
    /\ past \in Seq(Message(CallId))
    /\ rounds \in 0 .. (ToolLimit + 1)
    /\ compactions \in 0 .. MAX_COMPACTIONS
    /\ shrunk \in Nat /\ streams \in Nat /\ anchor \in Nat
    /\ cancel \in BOOLEAN /\ inbox \in 0 .. InboxCap
    /\ typed \in Nat /\ requests \in Nat
    /\ turn \in Turn /\ cause \in Causes /\ round \in Round
    /\ result \in Results

(* The context the model sees and the record that is persisted never        *)
(* diverge: the context is the record itself, or the first prompt, a       *)
(* marker and the end of the record (agent.rs, record: "e o que impede o   *)
(* contexto e o registro duravel de divergirem em silencio").              *)
ContextIsTheRecord ==
    \/ messages = Record
    \/ \E from \in 2 .. Len(Record) + 1 :
         messages = <<Record[1], Marker>> \o SubSeq(Record, from, Len(Record))

\* The turn whose calls may still be open: the one whose round is running,
\* or the answer the request ended with.
MayBeOpen ==
    \/ pc \in {"round", "tool"}
    \/ pc = "compact" /\ cause = "above"
    \/ pc = "idle" /\ result = "answered"

(* However a request ends (cancelled anywhere, out of rounds, in error,     *)
(* stopped by its tools), each call it recorded has its result in the next *)
(* message; only the turn still being acted on, or an answer that did not  *)
(* ask for tools, may have open calls, and it is the last message.         *)
JournalClosed ==
    \A i \in 1 .. Len(journal) :
        journal[i].uses # {} =>
            \/ CallIsAnswered(journal, i)
            \/ i = Len(journal) /\ MayBeOpen

(* No result is ever in the context without the call it answers just before *)
(* it, whatever compactions happened between the call and its result.      *)
NoOrphanInContext == NoOrphanResults(messages)

(* What the user typed while the agent worked is in the record exactly      *)
(* once, or still in the channel: cancellation, errors and compaction lose *)
(* none of it.                                                             *)
SteeringIsRecorded ==
    LET Prompts == {i \in 1 .. Len(Record) : Record[i] = UserMessage}
    IN  Cardinality(Prompts) + inbox = requests + typed

(* The usage the threshold is computed from was measured on a history of    *)
(* which the present one is a continuation, never on one longer than it.   *)
UsageIsOfThisHistory == anchor <= Len(messages)

(* The quota of a request is bounded: each stream opened after the first is *)
(* paid for by a round of tools or by a compaction charged to the request. *)
StreamsArePaidFor == streams <= 1 + rounds + compactions

(* Ctrl+C always brings the prompt back, even if the stream or the tool     *)
(* that is running never answers.                                          *)
CancelStops == cancel /\ pc # "idle" ~> pc = "idle"

(* If streams and tools come to an end, so does every request: no sequence  *)
(* of tool rounds, overflows and compactions keeps the loop going forever. *)
RequestEnds == BackendFairness => (pc # "idle" ~> pc = "idle")

(* The record of the requests is a transcript: it only grows, and calls are *)
(* followed by their answers.                                              *)
Kept == INSTANCE Transcript WITH record <- Record, running <- pc # "idle"
RecordIsATranscript == Kept!Spec

=============================================================================
