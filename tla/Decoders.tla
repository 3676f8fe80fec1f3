----------------------------- MODULE Decoders ------------------------------
(***************************************************************************)
(* What the three wire dialects make of a line of the body of a turn:      *)
(* nycode-ai, anthropic/decoder.rs, openai/chat_stream.rs and              *)
(* openai/responses_stream.rs, and what the agent adds up from their       *)
(* events (nycode-agent, turn.rs).                                         *)
(*                                                                         *)
(* A line is a record.  Text is a numbered fragment.  A call is addressed  *)
(* by a key on the wire (a block index, a position in tool_calls, an       *)
(* item_id) and by an id everywhere else.                                  *)
(***************************************************************************)
EXTENDS Integers, SequencesExt

NoUsage == [input |-> 0, output |-> 0, estimated |-> FALSE]

\* A new decoder; estimated is what mark_usage_estimated leaves.
NewDecoder(estimated) ==
    [ids |-> <<>>,                     \* from the key of an open call to its id
     open |-> <<>>,                    \* chat: ids of the calls to close
     pending |-> <<>>,                 \* chat: events not delivered yet
     usage |-> [NoUsage EXCEPT !.estimated = estimated],
     announced |-> FALSE,              \* chat: the start was delivered
     completed |-> FALSE,              \* the dialect's own end was seen
     usageDrained |-> FALSE]           \* responses: the usage was delivered

\* The results of decoding one line: at most one event, or a failure.
Emit(dec, event) == [dec |-> dec, out |-> <<event>>, failed |-> FALSE]
Silent(dec) == [dec |-> dec, out |-> <<>>, failed |-> FALSE]
Fail(dec) == [dec |-> dec, out |-> <<>>, failed |-> TRUE]

Started == [type |-> "start"]
CallStart(id) == [type |-> "call_start", id |-> id]
CallDelta(id, frag) == [type |-> "call_delta", id |-> id, frag |-> frag]
CallEnd(id) == [type |-> "call_end", id |-> id]
Ended(reason) == [type |-> "end", reason |-> reason]
Counted(usage) == [type |-> "usage", usage |-> usage]

Insert(ids, key, id) == [k \in DOMAIN ids \cup {key} |-> IF k = key THEN id ELSE ids[k]]
Without(ids, key) == [k \in DOMAIN ids \ {key} |-> ids[k]]

-----------------------------------------------------------------------------
(* Anthropic Messages.                                                     *)

\* The last report is the whole count.
AbsorbLast(usage, new) == [new EXCEPT !.estimated = usage.estimated]

\* A field that is absent, or zero, does not erase what was counted before.
AbsorbKnown(usage, new) ==
    [input |-> IF new.input > 0 THEN new.input ELSE usage.input,
     output |-> IF new.output > 0 THEN new.output ELSE usage.output,
     estimated |-> usage.estimated]

MessagesDecode(dec, line) ==
    CASE line.type = "start" ->
           Emit([dec EXCEPT !.usage = AbsorbKnown(@, line.usage)], Started)
      [] line.type \in {"text", "reasoning"} -> Emit(dec, line)
      [] line.type = "open" ->
           Emit([dec EXCEPT !.ids = Insert(@, line.key, line.id)], CallStart(line.id))
      [] line.type = "args" ->
           IF line.key \in DOMAIN dec.ids
           THEN Emit(dec, CallDelta(dec.ids[line.key], line.frag))
           ELSE Fail(dec)
      [] line.type = "close" ->
           IF line.key \in DOMAIN dec.ids
           THEN Emit([dec EXCEPT !.ids = Without(@, line.key)], CallEnd(dec.ids[line.key]))
           ELSE Silent(dec)
      [] line.type = "stop" ->
           Emit([dec EXCEPT !.usage = AbsorbKnown(@, line.usage)], Ended(line.reason))
      [] line.type = "seal" -> Emit([dec EXCEPT !.completed = TRUE], Counted(dec.usage))
      [] line.type \in {"error", "garbage"} -> Fail(dec)
      [] line.type = "noise" -> Silent(dec)

-----------------------------------------------------------------------------
(* Chat Completions: one chunk may hold several entries of tool_calls, and *)
(* the one with finish_reason closes every open call and the message.      *)

AbsorbUsage(usage, new) == [new EXCEPT !.estimated = usage.estimated]

\* Only the first entry of a position has an id; arguments may ride with it.
AbsorbToolCall(dec, call) ==
    LET isNew == call.id # <<>> /\ call.key \notin DOMAIN dec.ids
        ids == IF isNew THEN Insert(dec.ids, call.key, Head(call.id)) ELSE dec.ids
        args == IF call.key \in DOMAIN ids THEN call.args ELSE <<>>
    IN  [dec EXCEPT
            !.ids = ids,
            !.open = IF isNew THEN @ \o call.id ELSE @,
            !.pending = @ \o (IF isNew THEN <<CallStart(Head(call.id))>> ELSE <<>>)
                          \o [i \in DOMAIN args |-> CallDelta(ids[call.key], args[i])]]

\* The entries of a chunk, in their order.
AbsorbToolCalls(dec, calls) ==
    LET after[i \in 0 .. Len(calls)] ==
            IF i = 0 THEN dec ELSE AbsorbToolCall(after[i - 1], calls[i])
    IN  after[Len(calls)]

\* Closes what is open and ends the message.
FinishChat(dec, reason) ==
    [dec EXCEPT !.open = <<>>,
                !.pending = @ \o [i \in DOMAIN dec.open |-> CallEnd(dec.open[i])]
                              \o <<Ended(reason)>>]

PopPending(dec) ==
    IF dec.pending = <<>> THEN Silent(dec)
    ELSE Emit([dec EXCEPT !.pending = Tail(@)], Head(dec.pending))

\* A chunk that is neither the sentinel, nor an error, nor the first one.
ChatChunk(dec, line) ==
    CASE line.type = "stop" -> PopPending(FinishChat(dec, line.reason))
      [] line.type = "calls" -> PopPending(AbsorbToolCalls(dec, line.entries))
      [] line.type \in {"text", "reasoning"} -> Emit(dec, line)
      [] line.type \in {"start", "noise", "usage"} -> Silent(dec)

ChatDecode(dec, line) ==
    CASE line.type = "seal" -> Emit([dec EXCEPT !.completed = TRUE], Counted(dec.usage))
      [] line.type \in {"error", "garbage"} -> Fail(dec)
      [] OTHER ->
           LET heard == IF line.type = "usage"
                        THEN [dec EXCEPT !.usage = AbsorbUsage(@, line.usage)] ELSE dec
           IN  IF heard.announced THEN ChatChunk(heard, line)
               ELSE Emit([heard EXCEPT !.announced = TRUE], Started)

-----------------------------------------------------------------------------
(* Responses: the end, its reason and the usage share one line; there is   *)
(* no reason for a response that completed.                                *)

FinishReason(reason) == IF reason = "completed" THEN "end" ELSE reason

ResponsesDecode(dec, line) ==
    CASE line.type = "start" -> Emit(dec, Started)
      [] line.type \in {"text", "reasoning"} -> Emit(dec, line)
      [] line.type = "open" ->
           Emit([dec EXCEPT !.ids = Insert(@, line.key, line.id)], CallStart(line.id))
      [] line.type = "args" ->
           IF line.key \in DOMAIN dec.ids
           THEN Emit(dec, CallDelta(dec.ids[line.key], line.frag)) ELSE Silent(dec)
      [] line.type = "close" ->
           IF line.key \in DOMAIN dec.ids
           THEN Emit(dec, CallEnd(dec.ids[line.key])) ELSE Silent(dec)
      [] line.type = "stop" ->
           Emit([dec EXCEPT !.usage = AbsorbUsage(@, line.usage), !.completed = TRUE],
                Ended(FinishReason(line.reason)))
      [] line.type \in {"error", "garbage"} -> Fail(dec)
      [] line.type = "noise" -> Silent(dec)

-----------------------------------------------------------------------------

Decode(dialect, dec, line) ==
    CASE dialect = "messages" -> MessagesDecode(dec, line)
      [] dialect = "chat" -> ChatDecode(dec, line)
      [] dialect = "responses" -> ResponsesDecode(dec, line)

\* For as long as the reader asks.
UsageIsAlwaysDue(dec) == dec.completed

\* Once: an event handed out at every call would never let the stream end.
UsageIsDue(dec) == dec.completed /\ ~dec.usageDrained

\* What a dialect kept back from an earlier line.
Drain(dialect, dec) ==
    CASE dialect = "messages" -> Silent(dec)
      [] dialect = "chat" -> PopPending(dec)
      [] dialect = "responses" ->
           IF UsageIsDue(dec)
           THEN Emit([dec EXCEPT !.usageDrained = TRUE], Counted(dec.usage))
           ELSE Silent(dec)

-----------------------------------------------------------------------------
(* The turn the agent adds up from the events.                             *)

NoTurn == [text |-> <<>>, reasoning |-> <<>>, partial |-> <<>>,
           completed |-> <<>>, stop |-> "absent", usage |-> NoUsage, next |-> 0]

\* Its arrival gives a call its place; a second start would begin it anew.
StartCall(turn, id) ==
    [turn EXCEPT !.partial = Insert(@, id, [seq |-> turn.next, args |-> <<>>]),
                 !.next = @ + 1]

WithFragment(call, frag) == [call EXCEPT !.args = Append(@, frag)]

\* The start, the one event left, adds nothing.
Absorb(turn, event) ==
    CASE event.type = "text" -> [turn EXCEPT !.text = Append(@, event.frag)]
      [] event.type = "reasoning" -> [turn EXCEPT !.reasoning = Append(@, event.frag)]
      [] event.type = "call_start" -> StartCall(turn, event.id)
      [] event.type = "call_delta" ->
           IF event.id \in DOMAIN turn.partial
           THEN [turn EXCEPT
                    !.partial = Insert(@, event.id, WithFragment(@[event.id], event.frag))]
           ELSE turn
      [] event.type = "call_end" -> [turn EXCEPT !.completed = Append(@, event.id)]
      [] event.type = "usage" -> [turn EXCEPT !.usage = event.usage]
      [] event.type = "end" -> [turn EXCEPT !.stop = event.reason]
      [] OTHER -> turn

\* The calls that may run, in the order they were closed.
ClosingOrder(turn) == SelectSeq(turn.completed, LAMBDA c : c \in DOMAIN turn.partial)

\* The places of the calls that may run: those that were closed and had begun.
Closed(turn) == {i \in DOMAIN turn.completed : turn.completed[i] \in DOMAIN turn.partial}

\* How many of them run up to the i-th: by where they began, and a call that
\* was closed twice stays twice.
Turns(turn, i) ==
    LET seq(j) == turn.partial[turn.completed[j]].seq
    IN  Cardinality({j \in Closed(turn) : seq(j) < seq(i) \/ (seq(j) = seq(i) /\ j <= i)})

\* The calls that may run, in the order they began.
ToolCalls(turn) ==
    [n \in 1 .. Cardinality(Closed(turn)) |->
        turn.completed[CHOOSE i \in Closed(turn) : Turns(turn, i) = n]]

=============================================================================
