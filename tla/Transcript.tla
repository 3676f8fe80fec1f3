---------------------------- MODULE Transcript ----------------------------
(***************************************************************************)
(* What the agent promises to whoever keeps the conversation: a record     *)
(* that only grows, one request at a time, in which a turn that calls      *)
(* tools is followed by the answers to exactly those calls before anything *)
(* else is said.  A request may end on a turn whose calls were not         *)
(* answered; the next one then starts after it.                            *)
(***************************************************************************)
EXTENDS History

VARIABLES record, running

transcript == <<record, running>>

IsPrefixOf(r, s) == Len(r) <= Len(s) /\ SubSeq(s, 1, Len(r)) = r

\* The i-th message may follow the one before it.
Follows(r, i) ==
    IF r[i].answers # {} THEN i > 1 /\ r[i - 1].uses = r[i].answers
    ELSE i > 1 => r[i - 1].uses = {}

Init == record = <<>> /\ running = FALSE

Ask ==
    /\ ~running /\ running' = TRUE
    /\ record' = Append(record, UserMessage)

\* The request goes on, or ends, saying any number of things.
Go ==
    /\ running /\ running' \in BOOLEAN
    /\ IsPrefixOf(record, record')
    /\ \A i \in Len(record) + 1 .. Len(record') : Follows(record', i)

Next == Ask \/ Go

Spec == Init /\ [][Next]_transcript

=============================================================================
