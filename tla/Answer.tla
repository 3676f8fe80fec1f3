------------------------------- MODULE Answer -------------------------------
(***************************************************************************)
(* What the transport promises of one answer of the model, whatever the    *)
(* dialect and whatever happens to the connection: what was heard is at    *)
(* any time a beginning of what was said, and the answer counts as         *)
(* complete only if all of it was said and all of it was heard.            *)
(***************************************************************************)
EXTENDS SequencesExt

VARIABLES
    said,      \* what the model said so far
    heard,     \* what the agent made of it
    outcome    \* "none" while it lasts, "complete", or how it failed

vars == <<said, heard, outcome>>

Nothing == [text |-> <<>>, reasoning |-> <<>>, calls |-> <<>>, done |-> <<>>,
            stop |-> "absent", sealed |-> FALSE]

\* Text, reasoning and the arguments of each call are never out of order and
\* never mixed; a call is done, and the turn stopped, only once it was said.
Within(a, b) ==
    /\ IsPrefix(a.text, b.text) /\ IsPrefix(a.reasoning, b.reasoning)
    /\ DOMAIN a.calls \subseteq DOMAIN b.calls
    /\ \A c \in DOMAIN a.calls : IsPrefix(a.calls[c], b.calls[c])
    /\ ToSet(a.done) \subseteq ToSet(b.done)
    /\ a.stop \in {"absent", b.stop}

Init == said = Nothing /\ heard = Nothing /\ outcome = "none"

Say ==
    /\ outcome = "none" /\ ~said.sealed
    /\ Within(said, said')
    /\ UNCHANGED <<heard, outcome>>

Hear ==
    /\ outcome = "none"
    /\ Within(heard, heard') /\ Within(heard', said)
    /\ UNCHANGED <<said, outcome>>

Conclude ==
    /\ outcome = "none" /\ outcome' # "none"
    /\ outcome' = "complete" =>
         said.sealed /\ heard = [said EXCEPT !.sealed = FALSE]
    /\ UNCHANGED <<said, heard>>

Next == Say \/ Hear \/ Conclude

Spec == Init /\ [][Next]_vars

=============================================================================
