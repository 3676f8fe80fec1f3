------------------------------ MODULE Requests ------------------------------
(***************************************************************************)
(* A history on the wire of the two OpenAI dialects (nycode-ai,            *)
(* openai/chat.rs and openai/responses.rs, convert): one message may       *)
(* become several items.  An item is known by its kind, the calls it makes *)
(* and the call it answers; the rest of a body says nothing of the calls.  *)
(***************************************************************************)
EXTENDS History, SequencesExt

Item(kind, calls, of) == [kind |-> kind, calls |-> calls, of |-> of]

HasBody(m) == m.body # "none"

\* One item for each call made, and for each call answered.
EachCall(ids) ==
    LET order == SetToSeq(ids) IN [k \in DOMAIN order |-> Item("call", {order[k]}, {})]
EachResult(kind, ids) ==
    LET order == SetToSeq(ids) IN [k \in DOMAIN order |-> Item(kind, {}, {order[k]})]

\* Mutant: a message goes when it says something, calls or not.
ChatSaysSomething(m) == HasBody(m)

ChatHasOwn(m) == HasBody(m) \/ m.uses # {}

\* Chat: what the message says and calls, and before it nothing; then a
\* message of its own for each result.
ConvertChat(m) ==
    (IF ChatHasOwn(m) THEN <<Item(m.role, m.uses, {})>> ELSE <<>>)
        \o EachResult("tool", m.answers)

\* Responses: what it says, and then an item for each call and each result.
ConvertResponses(m) ==
    (IF HasBody(m) THEN <<Item(m.role, {}, {})>> ELSE <<>>)
        \o EachCall(m.uses)
        \o EachResult("output", m.answers)

\* The items of a body, message after message.
ChatItems(ms) == FlattenSeq([i \in DOMAIN ms |-> ConvertChat(ms[i])])
ResponsesItems(ms) == FlattenSeq([i \in DOMAIN ms |-> ConvertResponses(ms[i])])

-----------------------------------------------------------------------------
(* For the properties.                                                     *)

\* The item a chat result refers to: the one before it that is no result.
Referred(items, k) ==
    CHOOSE j \in 0..k :
        /\ j = 0 \/ items[j].kind # "tool"
        /\ \A i \in (j + 1)..k : items[i].kind = "tool"

\* Results come right after the message that calls, one for each call.
ChatIsPaired(items) ==
    /\ \A k \in DOMAIN items : items[k].kind = "tool" =>
            Referred(items, k) # 0 /\ items[k].of \subseteq items[Referred(items, k)].calls
    /\ \A j \in DOMAIN items : \A id \in items[j].calls :
            \E k \in DOMAIN items : items[k].of = {id} /\ Referred(items, k) = j

\* The calls made before the k-th item and not answered since.
OpenAt(items, k) ==
    UNION {{id \in items[j].calls : \A i \in (j + 1)..(k - 1) : id \notin items[i].of} :
              j \in 1..(k - 1)}

\* Each output is of a call still open, none is made again before its output,
\* and no call stays open.
ResponsesArePaired(items) ==
    /\ \A k \in DOMAIN items :
            /\ items[k].of \subseteq OpenAt(items, k)
            /\ items[k].calls \cap OpenAt(items, k) = {}
    /\ OpenAt(items, Len(items) + 1) = {}

=============================================================================
