-------------------------------- MODULE Wire --------------------------------
(***************************************************************************)
(* One answer of the model, from the request to the turn the agent acts    *)
(* on: nycode-ai, transport/client.rs (stream_with, attempt),              *)
(* transport/retry.rs, transport/stream.rs (decode), and the reader in     *)
(* nycode-agent, agent.rs (stream_one_turn).  The gateway and the          *)
(* connection are external: the gateway says anything its dialect allows,  *)
(* the connection may end, break or fall silent after any line.            *)
(*                                                                         *)
(* What the gateway is taken to do in the chat dialect: its first chunk    *)
(* and the one with finish_reason carry nothing else, as in every stream   *)
(* of the tests of chat_stream.rs.                                         *)
(***************************************************************************)
EXTENDS Decoders

CONSTANTS
    MaxText,       \* bound: fragments of text and reasoning
    MaxCalls,      \* bound: calls of the turn
    MaxArgs,       \* bound: fragments of the arguments of a call
    MaxNoise       \* bound: lines that say nothing, or nothing readable

ASSUME WireConstants ==
    MaxText \in Nat /\ MaxCalls \in Nat /\ MaxArgs \in Nat /\ MaxNoise \in Nat

Dialects == {"messages", "chat", "responses"}

\* retry.rs, Policy::default, in tenths of a second.
MAX_ATTEMPTS == 3
INITIAL == 4
MAX_DELAY == 80

\* What Retry-After may say: nothing, at once, less and more than the cap.
RetryAfters == {<<>>, <<0>>, <<30>>, <<600>>}

VARIABLES
    dialect,   \* of the session
    phase,     \* "ask", "wait", "stream", "over"
    attempt,   \* of opening the stream, from 1
    waited,    \* time slept between attempts
    said,      \* what the gateway said so far
    counted,   \* the tokens it counted, and whether it only estimated them
    stage,     \* where the gateway is: "silent", "speaking", "stopped", "sealed"
    noise,     \* lines of noise so far
    wire,      \* the line on its way
    body,      \* the body: "open", "ended", "idle", "broken"
    dec,       \* the decoder
    turn,      \* what the reader absorbed
    finished,  \* the end of the body was seen
    outcome    \* "none", "complete", or how it failed

gateway == <<said, counted, stage, noise>>
asking == <<dialect, attempt, waited>>
reader == <<dec, turn, finished>>
vars == <<phase, asking, gateway, wire, body, reader, outcome>>

Said == INSTANCE Answer WITH heard <- said

Init ==
    /\ dialect \in Dialects
    /\ phase = "ask" /\ attempt = 1 /\ waited = 0
    /\ said = Said!Nothing /\ stage = "silent" /\ noise = 0
    /\ counted = NoUsage
    /\ wire = <<>> /\ body = "open"
    /\ dec = NewDecoder(FALSE) /\ turn = NoTurn /\ finished = FALSE
    /\ outcome = "none"

-----------------------------------------------------------------------------
(* Opening the stream.                                                     *)

Min2(a, b) == IF a < b THEN a ELSE b

\* The server's word as it is.
DelayAsTold(n, retryAfter) ==
    IF retryAfter # <<>> THEN Head(retryAfter) ELSE Min2(INITIAL * 2^(n - 1), MAX_DELAY)

\* The server's word wins over the exponential, both under the cap.
Delay(n, retryAfter) ==
    IF retryAfter # <<>> THEN Min2(Head(retryAfter), MAX_DELAY)
    ELSE Min2(INITIAL * 2^(n - 1), MAX_DELAY)

\* Half is fixed and half is drawn; the draw is a part of a thousand.
Spread(base, entropy) ==
    LET half == base \div 2 IN half + (half * (entropy % 1000)) \div 1000

ShouldRetry(n) == n < MAX_ATTEMPTS

\* The request fails in a way that time may cure: a time-out, a refused
\* connection, or a status such as 429 and 503 that is not an exhausted quota.
Retry ==
    /\ phase = "ask" /\ ShouldRetry(attempt)
    /\ \E retryAfter \in RetryAfters, entropy \in {0, 500, 999} :
         waited' = waited + Spread(Delay(attempt, retryAfter), entropy)
    /\ phase' = "wait"
    /\ UNCHANGED <<dialect, attempt, gateway, wire, body, reader, outcome>>

\* The sleep is over.
Again ==
    /\ phase = "wait"
    /\ phase' = "ask" /\ attempt' = attempt + 1
    /\ UNCHANGED <<dialect, waited, gateway, wire, body, reader, outcome>>

End(how) == phase' = "over" /\ outcome' = how

\* The request fails for good: the attempts are spent, or another status.
Refused ==
    /\ phase = "ask"
    /\ End("refused")
    /\ UNCHANGED <<asking, gateway, wire, body, reader>>

\* The stream opens, and the count of attempts is over with the loop that
\* kept it; a header may say that the count of tokens is an estimate.
Open ==
    /\ phase = "ask"
    /\ phase' = "stream"
    /\ \E estimated \in BOOLEAN :
        /\ dec' = NewDecoder(estimated)
        /\ counted' = [counted EXCEPT !.estimated = estimated]
    /\ attempt' = 1 /\ waited' = 0
    /\ UNCHANGED <<dialect, said, stage, noise, wire, body, turn, finished, outcome>>

-----------------------------------------------------------------------------
(* The gateway.                                                            *)

CanSpeak == phase = "stream" /\ body = "open" /\ wire = <<>>

\* Ids differ from keys in every dialect, as item_id and call_id do.
IdOf(key) == MaxCalls + key

\* Whether it only estimates, it said when it opened the stream.
CountOf(input, output) ==
    [input |-> input, output |-> output, estimated |-> counted.estimated]

Begins ==
    /\ CanSpeak /\ stage = "silent"
    /\ stage' = "speaking"
    /\ IF dialect = "messages"
       THEN wire' = <<[type |-> "start", usage |-> CountOf(2, 1)]>> /\ counted' = CountOf(2, 1)
       ELSE wire' = <<[type |-> "start"]>> /\ UNCHANGED counted
    /\ UNCHANGED <<phase, asking, said, noise, body, reader, outcome>>

SpeaksText ==
    /\ CanSpeak /\ stage = "speaking"
    /\ Len(said.text) + Len(said.reasoning) < MaxText
    /\ \/ /\ wire' = <<[type |-> "text", frag |-> Len(said.text)]>>
          /\ said' = [said EXCEPT !.text = Append(@, Len(@))]
       \/ /\ wire' = <<[type |-> "reasoning", frag |-> Len(said.reasoning)]>>
          /\ said' = [said EXCEPT !.reasoning = Append(@, Len(@))]
    /\ UNCHANGED <<phase, asking, counted, stage, noise, body, reader, outcome>>

Keys == DOMAIN said.calls
NextKey == Cardinality(Keys) + 1
Frag(id) == <<id, Len(said.calls[id])>>

\* Messages and Responses: one line opens a call, adds to one or closes it.
\* Calls may be open at the same time.
SpeaksOfACall ==
    /\ CanSpeak /\ stage = "speaking" /\ dialect # "chat"
    /\ \/ \E key \in {NextKey} \cap 1 .. MaxCalls :
            /\ wire' = <<[type |-> "open", key |-> key, id |-> IdOf(key)]>>
            /\ said' = [said EXCEPT !.calls = Insert(@, key, <<>>)]
       \/ \E key \in Keys \ ToSet(said.done) :
            /\ Len(said.calls[key]) < MaxArgs
            /\ wire' = <<[type |-> "args", key |-> key, frag |-> Frag(key)]>>
            /\ said' = [said EXCEPT !.calls[key] = Append(@, Frag(key))]
       \/ \E key \in Keys \ ToSet(said.done) :
            /\ wire' = <<[type |-> "close", key |-> key]>>
            /\ said' = [said EXCEPT !.done = Append(@, key)]
    /\ UNCHANGED <<phase, asking, counted, stage, noise, body, reader, outcome>>

\* Chat: an entry opens the next call, with or without arguments, or adds to
\* an open one.
Entries(calls) ==
    LET key == Cardinality(DOMAIN calls) + 1
        opening == {[key |-> k, id |-> <<IdOf(k)>>, args |-> a] :
                       k \in {key} \cap 1 .. MaxCalls, a \in {<<>>, <<<<key, 0>>>>}}
        adding == {[key |-> k, id |-> <<>>, args |-> <<<<k, Len(calls[k])>>>>] :
                       k \in {c \in DOMAIN calls : Len(calls[c]) < MaxArgs}}
    IN  opening \cup adding

WithEntry(calls, e) ==
    Insert(calls, e.key, (IF e.id = <<>> THEN calls[e.key] ELSE <<>>) \o e.args)

SpeaksEntries ==
    /\ CanSpeak /\ stage = "speaking" /\ dialect = "chat"
    /\ \E one \in Entries(said.calls) :
        LET after == WithEntry(said.calls, one)
        IN  \/ /\ wire' = <<[type |-> "calls", entries |-> <<one>>]>>
               /\ said' = [said EXCEPT !.calls = after]
            \/ \E two \in Entries(after) :
                /\ wire' = <<[type |-> "calls", entries |-> <<one, two>>]>>
                /\ said' = [said EXCEPT !.calls = WithEntry(after, two)]
    /\ UNCHANGED <<phase, asking, counted, stage, noise, body, reader, outcome>>

\* Why a turn stops: it asks for tools only if it made a call.
Reasons == {"end", "limit", "refused"} \cup (IF Keys = {} THEN {} ELSE {"tools"})

\* What stands on the line: Responses has a reason only for what it cut.
ReasonOnTheLine(reason) ==
    IF dialect = "responses" /\ reason \in {"end", "tools"} THEN "completed" ELSE reason

\* The turn stops.  In chat that is also what closes the calls; in Messages
\* the report of the end repeats the input as zero; in Responses it is the
\* last line.
Stops ==
    /\ CanSpeak /\ stage = "speaking"
    /\ \E reason \in Reasons :
        LET word == ReasonOnTheLine(reason)
            closed == IF dialect = "chat" THEN [k \in 1 .. Cardinality(Keys) |-> k] ELSE <<>>
        IN  /\ said' = [said EXCEPT !.stop = reason, !.done = @ \o closed,
                                    !.sealed = (dialect = "responses")]
            /\ \/ /\ dialect = "messages"
                  /\ wire' = <<[type |-> "stop", reason |-> word, usage |-> CountOf(0, 2)]>>
                  /\ counted' = CountOf(2, 2)
               \/ /\ dialect = "chat"
                  /\ wire' = <<[type |-> "stop", reason |-> word]>>
                  /\ UNCHANGED counted
               \/ /\ dialect = "responses"
                  /\ wire' = <<[type |-> "stop", reason |-> word, usage |-> CountOf(2, 2)]>>
                  /\ counted' = CountOf(2, 2)
    /\ stage' = IF dialect = "responses" THEN "sealed" ELSE "stopped"
    /\ UNCHANGED <<phase, asking, noise, body, reader, outcome>>

\* Chat may report the count between the stop and the sentinel.
Counts ==
    /\ CanSpeak /\ stage = "stopped" /\ dialect = "chat" /\ counted.output = 0
    /\ counted' = CountOf(2, 2)
    /\ wire' = <<[type |-> "usage", usage |-> CountOf(2, 2)]>>
    /\ UNCHANGED <<phase, asking, said, stage, noise, body, reader, outcome>>

Seals ==
    /\ CanSpeak /\ stage = "stopped"
    /\ stage' = "sealed"
    /\ said' = [said EXCEPT !.sealed = TRUE]
    /\ wire' = <<[type |-> "seal"]>>
    /\ UNCHANGED <<phase, asking, counted, noise, body, reader, outcome>>

\* A ping, an event of tomorrow; in-band failure; a line that is not JSON;
\* arguments of a call nobody opened.
Stutters ==
    /\ CanSpeak /\ noise < MaxNoise
    /\ noise' = noise + 1
    /\ \/ stage # "silent" /\ wire' = <<[type |-> "noise"]>>
       \/ wire' = <<[type |-> "error"]>>
       \/ wire' = <<[type |-> "garbage"]>>
       \/ /\ stage = "speaking"
          /\ wire' = IF dialect = "chat"
                     THEN <<[type |-> "calls",
                             entries |-> <<[key |-> MaxCalls + 1, id |-> <<>>,
                                            args |-> <<<<0, 0>>>>]>>]>>
                     ELSE <<[type |-> "args", key |-> MaxCalls + 1, frag |-> <<0, 0>>]>>
    /\ UNCHANGED <<phase, asking, said, counted, stage, body, reader, outcome>>

\* The connection: the body ends, breaks, or the idle time-out passes.
BodyStops ==
    /\ phase = "stream" /\ body = "open"
    /\ body' \in {"ended", "idle", "broken"}
    /\ UNCHANGED <<phase, asking, gateway, wire, reader, outcome>>

-----------------------------------------------------------------------------
(* The reader: one poll of the projected stream, in the order of decode.   *)

Drained == Drain(dialect, dec)

ReadsDrained ==
    /\ phase = "stream" /\ Drained.out # <<>>
    /\ dec' = Drained.dec
    /\ turn' = Absorb(turn, Head(Drained.out))
    /\ UNCHANGED <<phase, asking, gateway, wire, body, finished, outcome>>

\* Both are errors, of the dialect or in-band: never an event of the turn.
ReadsLine ==
    /\ phase = "stream" /\ Drained.out = <<>> /\ ~finished /\ wire # <<>>
    /\ LET read == Decode(dialect, dec, Head(wire))
       IN  /\ dec' = read.dec
           /\ turn' = IF read.out = <<>> THEN turn ELSE Absorb(turn, Head(read.out))
           /\ IF read.failed THEN End("malformed") ELSE UNCHANGED <<phase, outcome>>
    /\ wire' = <<>>
    /\ UNCHANGED <<asking, gateway, body, finished>>

ReadsFailure ==
    /\ phase = "stream" /\ Drained.out = <<>> /\ ~finished /\ wire = <<>>
    /\ body \in {"idle", "broken"}
    /\ End(body)
    /\ UNCHANGED <<asking, gateway, wire, body, reader>>

\* A body that ended is an answer that ended.
AnyEndIsClean == TRUE

\* The dialect's own end decides whether the end of the body is one.
EndIsClean == dec.completed

ReadsEnd ==
    /\ phase = "stream" /\ Drained.out = <<>> /\ ~finished /\ wire = <<>>
    /\ body = "ended"
    /\ finished' = TRUE
    /\ IF EndIsClean THEN UNCHANGED <<phase, outcome>> ELSE End("truncated")
    /\ UNCHANGED <<asking, gateway, wire, body, dec, turn>>

Closes ==
    /\ phase = "stream" /\ Drained.out = <<>> /\ finished
    /\ End("complete")
    /\ UNCHANGED <<asking, gateway, wire, body, reader>>

\* Ctrl+C drops the future, wherever it waits.
Cancelled ==
    /\ phase # "over"
    /\ End("cancelled")
    /\ UNCHANGED <<asking, gateway, wire, body, reader>>

-----------------------------------------------------------------------------

Reader == ReadsDrained \/ ReadsLine \/ ReadsFailure \/ ReadsEnd \/ Closes

Gateway ==
    \/ Begins \/ SpeaksText \/ SpeaksOfACall \/ SpeaksEntries
    \/ Stops \/ Counts \/ Seals \/ Stutters

Next == Retry \/ Again \/ Refused \/ Open \/ Gateway \/ BodyStops \/ Reader \/ Cancelled

\* The program is polled; the connection and read time-outs bound the wait
\* for an answer to the request and for the next line.
Fairness ==
    /\ WF_vars(Again) /\ WF_vars(Reader)
    /\ WF_vars(Retry \/ Refused \/ Open)
    /\ WF_vars(Gateway \/ BodyStops)

Spec == Init /\ [][Next]_vars /\ Fairness

-----------------------------------------------------------------------------
(* Properties.                                                             *)

\* What the dialect can express of the reason to stop: Responses calls a turn
\* that asked for tools completed.
Expressible(s) ==
    [s EXCEPT !.stop = IF dialect = "responses" /\ @ = "tools" THEN "end" ELSE @]

KeyOf(id) == id - MaxCalls

\* What the reader has, in the terms of what was said.
Heard ==
    [text |-> turn.text, reasoning |-> turn.reasoning,
     calls |-> [key \in {KeyOf(id) : id \in DOMAIN turn.partial} |->
                    turn.partial[IdOf(key)].args],
     done |-> [i \in DOMAIN turn.completed |-> KeyOf(turn.completed[i])],
     stop |-> turn.stop, sealed |-> FALSE]

(* Whatever the dialect packs into a line and wherever the connection ends, *)
(* the turn is at any time a beginning of what was said, no argument goes  *)
(* to another call, and it counts as an answer only when it is whole.      *)
TheAnswer == INSTANCE Answer WITH said <- Expressible(said), heard <- Heard
TurnIsTheAnswer == TheAnswer!Spec

(* The count that reaches the agent with a complete turn is the one the     *)
(* gateway made: a later report that omits the input does not erase it,    *)
(* and an estimate is never presented as measured (event.rs, Usage).       *)
UsageIsTheCount == outcome = "complete" => turn.usage = counted

(* Calls run in the order the model asked for them, whatever the order in   *)
(* which they were closed (turn.rs, PartialCall::seq).                     *)
CallsRunInOrder ==
    phase = "over" =>
        \A i, j \in DOMAIN ToolCalls(turn) : i < j => ToolCalls(turn)[i] < ToolCalls(turn)[j]

(* No Retry-After holds the session for longer than the attempts times the  *)
(* cap (retry.rs, delay: an absurd header must not lock the session).      *)
PatienceIsBounded == waited <= (MAX_ATTEMPTS - 1) * MAX_DELAY

(* With a polled program and the time-outs of the connection, every request *)
(* for an answer ends, with an answer or an error.                         *)
AskEnds == phase # "over" ~> phase = "over"

(* event.rs:25 has ToolUse stand for "O modelo quer executar ferramentas e   *)
(* aguarda os resultados": a turn that ended asking for tools says so.     *)
ToolTurnsAskForTools ==
    outcome = "complete" /\ said.stop = "tools" => turn.stop = "tools"

=============================================================================
