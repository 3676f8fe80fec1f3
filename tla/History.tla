------------------------------ MODULE History ------------------------------
(***************************************************************************)
(* The conversation as a sequence of messages, and the two pure functions  *)
(* of nycode-agent that rewrite it:                                        *)
(*   - ForProvider (agent/transform.rs, for_provider): what is actually    *)
(*     sent, with every tool call paired with a result;                    *)
(*   - Compacted (session/compaction/mod.rs, compact_with): the history    *)
(*     after old messages were replaced by a marker.                       *)
(* A content block is reduced to what those functions look at: the tool    *)
(* calls a message makes (uses), the tool results it carries (answers) and *)
(* whether it has any other block (body).                                  *)
(***************************************************************************)
EXTENDS Naturals, Sequences

Bodies == {"none", "text", "summary"}

Message(Ids) == [role : {"user", "assistant"}, uses : SUBSET Ids,
                 answers : SUBSET Ids, body : Bodies, discarded : BOOLEAN]

UserMessage == [role |-> "user", uses |-> {}, answers |-> {},
                body |-> "text", discarded |-> FALSE]

ResultsMessage(ids) == [UserMessage EXCEPT !.answers = ids, !.body = "none"]

AssistantMessage(ids, body, discarded) ==
    [role |-> "assistant", uses |-> ids, answers |-> {},
     body |-> body, discarded |-> discarded]

\* The message compaction leaves in place of what it removed.
Marker == [UserMessage EXCEPT !.body = "summary"]

IsEmpty(m) == m.uses = {} /\ m.answers = {} /\ m.body = "none"

-----------------------------------------------------------------------------
(* What the provider receives.                                             *)

\* A turn that stopped in error or was cancelled is never sent again.
IsSendable(m) == m.role = "user" \/ ~m.discarded

\* Answer with a synthetic error every call still pending.
CloseCalls(st) ==
    IF st.pending = {} THEN st
    ELSE [out |-> Append(st.out, ResultsMessage(st.pending)), pending |-> {}]

SendAssistant(st, m) ==
    [out |-> Append(CloseCalls(st).out, m), pending |-> m.uses]

\* Two plausible slips of the user branch below: completing the results only
\* partly, and losing the text that comes while calls are pending.
SendUserLeavesPartialAnswers(st, m) ==
    LET kept == [m EXCEPT !.answers = @ \cap st.pending]
    IN  [out |-> IF IsEmpty(kept) THEN CloseCalls(st).out
                 ELSE Append(IF kept.answers = {} THEN CloseCalls(st).out ELSE st.out,
                             kept),
         pending |-> {}]

SendUserOnlyCloses(st, m) ==
    IF st.pending # {} /\ m.answers = {} THEN CloseCalls(st)
    ELSE SendUserLeavesPartialAnswers(st, m)

\* Only results whose call is pending survive; a message of results is
\* completed in place, any other message comes after the synthetic results.
SendUser(st, m) ==
    LET kept == [m EXCEPT !.answers = @ \cap st.pending]
        sent == IF kept.answers = {} THEN kept
                ELSE [kept EXCEPT !.answers = st.pending]
        prev == IF kept.answers = {} THEN CloseCalls(st).out ELSE st.out
    IN  [out |-> IF IsEmpty(sent) THEN prev ELSE Append(prev, sent),
         pending |-> {}]

Send(st, m) ==
    CASE ~IsSendable(m) -> st
      [] IsSendable(m) /\ m.role = "assistant" -> SendAssistant(st, m)
      [] IsSendable(m) /\ m.role = "user" -> SendUser(st, m)

\* What was sent of the first n messages, and the calls then pending.
SendingFirst(ms) ==
    LET st[n \in 0 .. Len(ms)] ==
          IF n = 0 THEN [out |-> <<>>, pending |-> {}] ELSE Send(st[n - 1], ms[n])
    IN  st

ForProvider(ms) == CloseCalls(SendingFirst(ms)[Len(ms)]).out

-----------------------------------------------------------------------------
(* Compaction.                                                             *)

\* Messages at the front that always survive: the user's first prompt.
HEAD == 1

StartsWithToolResult(m) == m.role = "user" /\ m.answers # {}

\* Off by one: a compaction that frees a single slot and fills it again.
CompactsOneEarlier(ms, keep) == Len(ms) > HEAD + keep

CanCompact(ms, keep) == Len(ms) > HEAD + keep + 1

\* The cut without the care for pairs.
CutAtExactCount(ms, keep, t) == t = Len(ms) - keep + 1

\* Where the tail that survives starts: keep messages from the end, moved
\* forward past results whose call would be left behind.
IsTailStart(ms, keep, t) ==
    /\ t \in (Len(ms) - keep + 1) .. (Len(ms) + 1)
    /\ t <= Len(ms) => ~StartsWithToolResult(ms[t])
    /\ \A u \in (Len(ms) - keep + 1) .. (t - 1) : StartsWithToolResult(ms[u])

TailStart(ms, keep) == CHOOSE t \in 1 .. (Len(ms) + 1) : IsTailStart(ms, keep, t)

\* A compaction that forgets what the user asked for.
CompactedWithoutTask(ms, keep) ==
    <<Marker>> \o SubSeq(ms, TailStart(ms, keep), Len(ms))

Compacted(ms, keep) ==
    <<ms[HEAD], Marker>> \o SubSeq(ms, TailStart(ms, keep), Len(ms))

Removed(ms, keep) == TailStart(ms, keep) - HEAD - 1

-----------------------------------------------------------------------------
(* What a well-formed history is, for the properties.                      *)

\* Every message of results answers calls of the assistant message just
\* before it.
NoOrphanResults(ms) ==
    \A i \in 1 .. Len(ms) : ms[i].answers # {} =>
        /\ i > 1
        /\ ms[i].answers \subseteq ms[i - 1].uses

\* Every call is answered by the very next message.
CallIsAnswered(ms, i) ==
    /\ i < Len(ms)
    /\ ms[i + 1].answers = ms[i].uses

AllCallsAnswered(ms) ==
    \A i \in 1 .. Len(ms) : ms[i].uses # {} => CallIsAnswered(ms, i)

=============================================================================
