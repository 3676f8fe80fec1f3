----------------------------- MODULE MCHistory -----------------------------
(***************************************************************************)
(* Every history of up to MaxLen messages over a small set of tool calls,  *)
(* built one message at a time, and what ForProvider and Compacted do to   *)
(* it.  The histories are not only those the agent loop leaves: resuming   *)
(* from an earlier record cuts them anywhere (FR-14), so calls without     *)
(* results, results without calls and interrupted turns all occur.         *)
(***************************************************************************)
EXTENDS Requests, TLC

CONSTANTS CallIds, MaxLen, Keeps

ASSUME HistoryBounds == IsFiniteSet(CallIds) /\ MaxLen \in Nat /\ Keeps \subseteq Nat

VARIABLE hist

\* Messages a store can hold: none is empty, and only an assistant turn is
\* ever marked as not to be sent.  A message of results says something too
\* when a tool read an image (dispatch.rs:66, ToolOutput::into_blocks).
Recordable ==
    {m \in Message(CallIds) :
        /\ ~IsEmpty(m)
        /\ m.role = "assistant" => m.answers = {} /\ m.body # "summary"
        /\ m.role = "user" => m.uses = {} /\ ~m.discarded
        /\ m.body = "summary" => m.answers = {}}

Init == hist = <<>>

Extend(m) == Len(hist) < MaxLen /\ hist' = Append(hist, m)

Next == \E m \in Recordable : Extend(m)

Spec == Init /\ [][Next]_hist

Symmetry == Permutations(CallIds)

-----------------------------------------------------------------------------
(* What for_provider returns is acceptable to a provider whatever was       *)
(* stored: each call is answered by the next message, no result refers to  *)
(* a call that is not there, and no message is empty (transform.rs: "toda  *)
(* chamada de ferramenta ganha um resultado", "todo resultado sem chamada  *)
(* correspondente e descartado").                                          *)
ProviderAcceptsIt ==
    LET sent == ForProvider(hist)
    IN  /\ NoOrphanResults(sent)
        /\ AllCallsAnswered(sent)
        /\ \A i \in DOMAIN sent : ~IsEmpty(sent[i])

\* What a message adds to what the assistant said, and to what anybody said.
Turn(m) == IF m.role = "assistant" THEN <<m>> ELSE <<>>
Word(m) == IF m.body = "none" THEN <<>> ELSE <<<<m.role, m.body>>>>
IfSent(m, said) == IF IsSendable(m) THEN said ELSE <<>>

(* The repair never loses what was said: the assistant turns that may be    *)
(* sent arrive unchanged and in order, and so does every user text.        *)
NothingSaidIsLost ==
    LET sent == ForProvider(hist)
    IN  /\ FlattenSeq([i \in DOMAIN sent |-> Turn(sent[i])])
              = FlattenSeq([i \in DOMAIN hist |-> IfSent(hist[i], Turn(hist[i]))])
        /\ FlattenSeq([i \in DOMAIN sent |-> Word(sent[i])])
              = FlattenSeq([i \in DOMAIN hist |-> IfSent(hist[i], Word(hist[i]))])

(* Compaction never separates a call from its result: a history in which    *)
(* results follow their calls, and calls have their results, stays so      *)
(* ("nunca separar uma chamada de ferramenta do resultado dela").          *)
CompactionKeepsPairs ==
    \A keep \in Keeps : CanCompact(hist, keep) =>
        LET small == Compacted(hist, keep)
        IN  /\ NoOrphanResults(hist) => NoOrphanResults(small)
            /\ AllCallsAnswered(hist) /\ hist[1].uses = {} => AllCallsAnswered(small)

(* A compaction removes at least two messages for the marker it adds, keeps *)
(* the first prompt, and leaves nothing to compact again: the loop that    *)
(* retries an overflow on Some(removed) cannot spin (cut_point, "no        *)
(* segundo caso repetir a requisicao vai falhar de novo").                 *)
CompactionConverges ==
    \A keep \in Keeps : CanCompact(hist, keep) =>
        LET small == Compacted(hist, keep)
        IN  /\ Removed(hist, keep) >= 2
            /\ Len(small) = Len(hist) - Removed(hist, keep) + 1
            /\ small[1] = hist[1]
            /\ ~CanCompact(small, keep)

CarriesMore(m) == m.answers # {} /\ m.body # "none"

(* What a dialect makes of the repaired history keeps each result with its  *)
(* call: in chat right after the message that calls, in responses after    *)
(* the call.  In chat, of the histories in which results come alone        *)
(* (chat.rs:102-177, responses.rs:101-156).  Bound: shorter histories.     *)
CallsArePairedOnTheWire ==
    Len(hist) < MaxLen =>
        LET sent == ForProvider(hist)
        IN  /\ ResponsesArePaired(ResponsesItems(sent))
            /\ (\A i \in DOMAIN sent : ~CarriesMore(sent[i])) =>
                    ChatIsPaired(ChatItems(sent))

(* transform.rs:277: "A ordem importa: o resultado precisa vir logo depois  *)
(* da chamada".                                                            *)
ResultsRightAfterCalls ==
    ChatIsPaired(ChatItems(ForProvider(hist)))

=============================================================================
