------------------------------ MODULE Session ------------------------------
(***************************************************************************)
(* One conversation and its file: the agent loop, the front end that       *)
(* drives it (interactive.rs take_turn and resume_from with screen.rs      *)
(* Agentic, or run.rs headless) and the records of the session             *)
(* (session/store.rs append, append_child, load, path_to; store/tree.rs).  *)
(*                                                                         *)
(* The file is a tree that only grows: a record names its parent, and the  *)
(* conversation is the path to the last record.  The process may die at    *)
(* any step, between two appends included; what it held in memory (context, *)
(* drain cursor, fork point) goes with it.  A record is on disk whole or   *)
(* not at all here, and typing into a running request is left to the run   *)
(* of AgentLoop alone: it enters context and journal like any prompt.      *)
(***************************************************************************)
EXTENDS History, FiniteSets

CONSTANTS ToolLimit, KeepRecent, MaxCalls, MaxRequests,
    MaxForks,       \* bound: forks of the conversation
    MaxRestarts     \* bound: times the session is opened again

\* As in AgentLoop, the settings file cannot set a limit to zero.
ASSUME SessionConstants ==
    /\ ToolLimit \in Nat \ {0} /\ KeepRecent \in Nat \ {0}
    /\ MaxCalls \in Nat /\ MaxRequests \in Nat
    /\ MaxForks \in Nat /\ MaxRestarts \in Nat

VARIABLES
    pc, messages, journal, past, rounds, compactions, shrunk, streams, anchor,
    cancel, turn, cause, round, result, requests,
    front,      \* who drives the agent
    phase,      \* where the front end is
    disk,       \* the records, oldest first; a record is known by its place
    branch,     \* the record the next one descends from after a fork, or 0
    drained,    \* how much of messages the front end has collected
    unsaved,    \* collected and not yet appended
    forks, restarts,
    gap         \* history: this process did not persist all it produced

Agent == INSTANCE AgentLoop WITH InboxCap <- 1, MaxSteer <- 0, inbox <- 0, typed <- 0

agent == <<pc, messages, journal, past, rounds, compactions, shrunk, streams, anchor,
           cancel, turn, cause, round, result, requests>>
file == <<disk, branch>>
vars == <<agent, front, phase, file, drained, unsaved, forks, restarts, gap>>

Fronts == {"interactive", "headless"}

Record == past \o journal

-----------------------------------------------------------------------------
(* The tree of records.                                                    *)

IsMarker(m) == m.body = "summary"

\* The messages that lead to each record; 0 is before the first.  A marker
\* stands for all that came before it.
Chains(d) ==
    LET chain[r \in 0 .. Len(d)] ==
            IF r = 0 THEN <<>>
            ELSE IF IsMarker(d[r].message) THEN <<d[r].message>>
            ELSE Append(chain[d[r].parent], d[r].message)
    IN  chain

Conversation(d) == Chains(d)[Len(d)]

\* The parent of the next record: the point of the fork, else the tip.
Parent == IF branch # 0 THEN branch ELSE Len(disk)

AppendRecord(parent, m) == disk' = Append(disk, [parent |-> parent, message |-> m])

\* Where the user may go back to: what somebody said, never a tool result.
ResumePoints ==
    {r \in DOMAIN disk :
        disk[r].message.role = "user" /\ ~StartsWithToolResult(disk[r].message)}

-----------------------------------------------------------------------------

\* The agent holds this history, and whoever compares takes it as the record.
Holding(history) ==
    /\ messages' = history /\ anchor' = 0
    /\ past' = history /\ journal' = <<>>

Init ==
    /\ Agent!Init
    /\ front \in Fronts /\ phase = "prompt"
    /\ disk = <<>> /\ branch = 0
    /\ drained = 0 /\ unsaved = <<>>
    /\ forks = 0 /\ restarts = 0 /\ gap = FALSE

Ask ==
    /\ phase = "prompt" /\ Agent!Submit
    /\ phase' = "asked"
    /\ UNCHANGED <<front, file, drained, unsaved, forks, restarts, gap>>

Work ==
    /\ phase = "asked" /\ pc # "idle"
    /\ Agent!Loop \/ Agent!Cancel
    /\ UNCHANGED <<front, phase, file, drained, unsaved, forks, restarts, gap>>

\* The cursor never points past the end of the history.
CursorWithin(ms) == IF drained < Len(ms) THEN drained ELSE Len(ms)

\* Interactive: what is in the context past the cursor, whatever the outcome.
Drain ==
    /\ unsaved' = SubSeq(messages, CursorWithin(messages) + 1, Len(messages))
    /\ drained' = Len(messages)

ProducedHistory == result # "wire"

\* Headless: what the request added, unless the wire failed.
Produced ==
    /\ unsaved' = IF ProducedHistory THEN journal ELSE <<>>
    /\ UNCHANGED drained

\* The request returned: collect what is to be persisted.
Collect ==
    /\ phase = "asked" /\ pc = "idle"
    /\ phase' = "saving"
    /\ IF front = "interactive" THEN Drain ELSE Produced
    /\ gap' = (gap \/ IF front = "interactive" THEN shrunk > 0 ELSE ~ProducedHistory)
    /\ UNCHANGED <<agent, front, file, forks, restarts>>

\* Every record of the request descends from the point of the fork.
AllFromTheFork == branch

\* After a fork the records are chained one to the next.
NextBranch == IF branch # 0 THEN Len(disk) + 1 ELSE 0

\* One append.
Save ==
    /\ phase = "saving" /\ unsaved # <<>>
    /\ AppendRecord(Parent, Head(unsaved))
    /\ branch' = NextBranch
    /\ unsaved' = Tail(unsaved)
    /\ UNCHANGED <<agent, front, phase, drained, forks, restarts, gap>>

\* All of it is on disk; a headless run is over.
Saved ==
    /\ phase = "saving" /\ unsaved = <<>>
    /\ branch' = 0
    /\ phase' = IF front = "interactive" THEN "prompt" ELSE "off"
    /\ UNCHANGED <<agent, front, disk, drained, unsaved, forks, restarts, gap>>

\* /compact, typed at the prompt.
Compact ==
    /\ phase = "prompt" /\ front = "interactive"
    /\ Agent!CompactNow
    /\ drained' = CursorWithin(messages')
    /\ UNCHANGED <<front, phase, file, unsaved, forks, restarts, gap>>

\* /fork: go back to a record.  What the present path has and the new one has
\* not leaves a notice, the first record of the new branch.  Texts the model
\* holds equal may differ, so a notice is possible even when they agree.
Fork ==
    /\ phase = "prompt" /\ front = "interactive" /\ forks < MaxForks
    /\ forks' = forks + 1
    /\ \E r \in ResumePoints :
        LET next == Chains(disk)[r]
            agree == /\ Len(messages) <= Len(next)
                     /\ messages = SubSeq(next, 1, Len(messages))
        IN  \/ /\ messages # <<>>
               /\ AppendRecord(r, UserMessage)
               /\ Holding(Append(next, UserMessage))
               /\ branch' = Len(disk) + 1
               /\ drained' = Len(next) + 1
            \/ /\ agree
               /\ Holding(next)
               /\ branch' = r /\ drained' = Len(next)
               /\ UNCHANGED disk
    /\ gap' = FALSE
    /\ UNCHANGED <<pc, rounds, compactions, shrunk, streams, cancel, turn, cause, round,
                   result, requests, front, phase, unsaved, restarts>>

\* What a process starts from, given what it loads.
Fresh(history) ==
    /\ Holding(history)
    /\ drained' = Len(history) /\ unsaved' = <<>> /\ branch' = 0
    /\ pc' = "idle" /\ result' = "none" /\ cancel' = FALSE
    /\ rounds' = 0 /\ compactions' = 0 /\ shrunk' = 0 /\ streams' = 0
    /\ turn' = Agent!NoTurn /\ cause' = "none" /\ round' = Agent!NoRound
    /\ gap' = FALSE

\* The process ends, at any point: it was killed, the user left, or an append
\* or the terminal failed.  Nothing it held survives it.
Crash ==
    /\ phase # "off"
    /\ phase' = "off"
    /\ Fresh(<<>>)
    /\ UNCHANGED <<requests, front, disk, forks, restarts>>

\* The session is opened again, by either front end, from what is on disk.
Reopen ==
    /\ phase = "off" /\ restarts < MaxRestarts
    /\ restarts' = restarts + 1
    /\ phase' = "prompt" /\ front' \in Fronts
    /\ Fresh(Conversation(disk))
    /\ UNCHANGED <<requests, disk, forks>>

Next ==
    \/ Ask \/ Work \/ Collect \/ Save \/ Saved
    \/ Compact \/ Fork \/ Crash \/ Reopen

Spec == Init /\ [][Next]_vars

-----------------------------------------------------------------------------
(* Properties.                                                             *)

\* What the record of the conversation is, less what is still to be appended.
Persisted ==
    IF phase = "asked" THEN past
    ELSE SubSeq(Record, 1, Len(Record) - Len(unsaved))

(* Through requests, cancellations, forks, /compact and restarts, the path  *)
(* the next record will extend is exactly the conversation up to what is   *)
(* still to be appended: nothing twice, nothing of another branch, nothing *)
(* missing.  Left out are the requests whose persisting is known to be     *)
(* partial (gap): an interactive one compacted while it ran, and a         *)
(* headless one the wire failed.                                           *)
DiskFollowsTheRecord ==
    phase # "off" /\ ~gap =>
        /\ Chains(disk)[Parent] = Persisted
        /\ phase = "saving" => Persisted \o unsaved = Record

(* interactive.rs:39 says of drain: "Mensagens acrescentadas desde a ultima *)
(* coleta, para persistir", the messages added since the last collection.  *)
DrainTakesWhatWasAdded ==
    front = "interactive" /\ phase = "saving" => Chains(disk)[Parent] \o unsaved = Record

=============================================================================
