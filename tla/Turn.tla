-------------------------------- MODULE Turn --------------------------------
(***************************************************************************)
(* A tool call from the model's request to its result, with the user at    *)
(* the keyboard: agent/dispatch.rs (run_tool_round, execute, vetoed,       *)
(* observed), policy/permission.rs and policy/approval.rs in nycode-agent, *)
(* interactive/approval.rs (run_turn, steer, ask) and interactive.rs (run, *)
(* take_turn) in nycode-cli, over the processes of Processes.tla.  The     *)
(* loop of the agent is reduced to what it does between calls.  A session   *)
(* with --allow-writes never asks, and is left out.                        *)
(***************************************************************************)
EXTENDS Processes, FiniteSets, Functions

CONSTANTS
    Capacity,      \* of the queue of messages for later; 4 in interactive.rs
    MaxCalls,      \* bound: calls the model asks for
    MaxGroups,     \* bound: processes the harness starts
    MaxBuffered    \* bound: keys pressed and not read

ASSUME TurnConstants ==
    Capacity \in Nat \ {0} /\ MaxCalls \in Nat /\ MaxGroups \in Nat /\ MaxBuffered \in Nat

READ_ONLY == {"read"}

\* No tool is called ghost.
NoTool == {"ghost"}

\* What the model may write: arguments of the declared type, of another type
\* that reads as it, and arguments that are no JSON.
Requests ==
    [tool : {"bash"}, input : {"exact", "loose", "null"}]
        \cup [tool : {"read", "ghost"}, input : {"exact"}]

\* A line is written and finished with Enter or Alt+Enter in one event; other
\* keys stand alone.  A terminal that is gone says so for ever.
Keys == {"yes", "no", "text", "enter", "later", "stop", "broken", "gone"}

VARIABLES
    gate,      \* of the turn: "ask", or "read" while planning
    hooks,     \* of "pre" and "post", those installed
    at,        \* where the session is
    call,      \* the call under way
    cancel,    \* the cancel signal
    keys,      \* events of the terminal, not read yet
    muted,     \* the loop of the turn gave up on events, until it turns again
    later,     \* messages for the next turn
    granted,   \* history: the last call the user said yes to
    ran        \* history: the last call that was executed

keyboard == <<keys, muted, later>>
history == <<granted, ran>>
vars == <<hooks, gate, at, call, cancel, keyboard, history, processes>>

NoCall == [n |-> 0, tool |-> "none", input |-> "null"]

Init ==
    /\ ProcessesInit
    /\ gate = "ask"
    /\ hooks \in {h \in SUBSET {"pre", "post"} : Cardinality(h) < MaxGroups}
    /\ at = "prompt" /\ call = NoCall /\ cancel = FALSE
    /\ keys = <<>> /\ muted = FALSE
    /\ later = 0
    /\ granted = NoCall /\ ran = NoCall

TurnRuns == at \in {"next", "model", "pre", "gate", "ask", "run", "tool", "post"}

\* A select that takes whichever is ready.
PolledAnyway == TRUE

\* Every select of the turn is biased towards the signal.
Polled == ~cancel

-----------------------------------------------------------------------------
(* The call.                                                               *)

\* coerce: the value the model meant, in the declared type.
Coerced(c) ==
    IF c.tool \notin NoTool /\ c.input = "loose" THEN [c EXCEPT !.input = "exact"] ELSE c

\* The policy and the user decide on what the model wrote.
InspectedAsWritten(c) == c

Inspected(c) == Coerced(c)
Executed(c) == Coerced(c)

Goes(to) == at' = to

\* Between rounds what the user steered enters the history (AgentLoop).
NextTurn ==
    /\ Polled /\ at = "next"
    /\ Goes("model")
    /\ UNCHANGED <<hooks, gate, call, cancel, keyboard, history, processes>>

CallsTool ==
    /\ Polled /\ at = "model"
    /\ call.n < MaxCalls
    /\ Len(groups) + Cardinality(hooks) + 1 <= MaxGroups
    /\ \E r \in Requests : call' = [n |-> call.n + 1, tool |-> r.tool, input |-> r.input]
    /\ Goes("pre")
    /\ UNCHANGED <<hooks, gate, cancel, keyboard, history, processes>>

TurnIsOver == Goes("after") /\ muted' = FALSE

Stops ==
    /\ Polled /\ at = "model"
    /\ TurnIsOver
    /\ UNCHANGED <<hooks, gate, call, cancel, keys, later, history, processes>>

\* run_tool_round takes the calls one by one; a refusal is a result too.
Answered == Goes("next")

FiresHook ==
    /\ Polled /\ at \in hooks /\ job = NoJob
    /\ Start("hook")
    /\ UNCHANGED <<hooks, gate, at, call, cancel, keyboard, history>>

\* No hook, or one that changed since it was approved, or does not start.
SkipsHook ==
    /\ Polled /\ at \in {"pre", "post"} /\ job = NoJob
    /\ IF at = "pre" THEN Goes("gate") ELSE Answered
    /\ UNCHANGED <<hooks, gate, call, cancel, keyboard, history, processes>>

\* A hook that failed or was late vetoes nothing; one that answered may, before
\* the call and not after it.
HookAnswered ==
    /\ Polled /\ at \in {"pre", "post"} /\ job.stage \in {"done", "failed"}
    /\ job' = NoJob
    /\ \/ at = "pre" /\ Goes("gate")
       \/ at = "pre" /\ job.stage = "done" /\ Answered
       \/ at = "post" /\ Answered
    /\ UNCHANGED <<hooks, gate, call, cancel, keyboard, history, groups, notes, harness>>

\* Ask and ReadOnly allow what only reads.
Verdict(tool) ==
    IF tool \in READ_ONLY THEN "allow" ELSE IF gate = "ask" THEN "ask" ELSE "deny"

\* Asking::approve hands the question over and awaits: the loop of the turn
\* finds it in the same round of its select.
PassesGate ==
    /\ Polled /\ at = "gate"
    /\ \/ Verdict(call.tool) = "allow" /\ Goes("run")
       \/ Verdict(call.tool) = "ask" /\ Goes("ask")
       \/ Verdict(call.tool) = "deny" /\ Answered
    /\ UNCHANGED <<hooks, gate, call, cancel, keyboard, history, processes>>

\* A tool nobody has, arguments that are no JSON, or a tool that refuses its
\* arguments or cannot start its command.
Refuses ==
    /\ Polled /\ at = "run"
    /\ IF call.tool \in NoTool \/ call.input = "null" THEN Answered ELSE Goes("post")
    /\ UNCHANGED <<hooks, gate, call, cancel, keyboard, history, processes>>

Executes ==
    /\ Polled /\ at = "run" /\ call.tool \notin NoTool /\ call.input # "null"
    /\ ran' = Executed(call)
    /\ IF call.tool = "bash"
       THEN Start("command") /\ Goes("tool")
       ELSE UNCHANGED processes /\ Goes("post")
    /\ UNCHANGED <<hooks, gate, call, cancel, keyboard, granted>>

ToolReturns ==
    /\ Polled /\ at = "tool" /\ job.stage \in {"done", "failed"}
    /\ job' = NoJob /\ Goes("post")
    /\ UNCHANGED <<hooks, gate, call, cancel, keyboard, history, groups, notes, harness>>

\* The signal wins every select: what runs is dropped where it awaits.
Cancelled ==
    /\ cancel /\ TurnRuns
    /\ Drops /\ TurnIsOver
    /\ UNCHANGED <<hooks, gate, call, cancel, keys, later, history>>

-----------------------------------------------------------------------------
(* The keyboard.                                                           *)

\* The user, and the terminal.
Presses ==
    /\ Len(keys) < MaxBuffered /\ "gone" \notin Range(keys)
    /\ \E k \in Keys : keys' = Append(keys, k)
    /\ UNCHANGED <<hooks, gate, at, call, cancel, muted, later, history, processes>>

Read == IF Head(keys) = "gone" THEN keys ELSE Tail(keys)

\* The select of run_turn reaches the keyboard when the turn awaits something.
TurnAwaits ==
    \/ at = "model"
    \/ at \in {"pre", "tool", "post"} /\ job.stage \in {"watched", "reaped", "closing", "killed"}

MaySteer == Polled /\ TurnAwaits /\ ~muted /\ keys # <<>> /\ Head(keys) # "gone"

\* A queue that is full refuses, and says so.
Queues(k) == later' = IF k = "later" /\ later < Capacity THEN later + 1 ELSE later

\* steer: the signal, a message for this turn (the inbox of AgentLoop), one for
\* the next, or nothing.
Steers ==
    /\ MaySteer
    /\ keys' = Read /\ Queues(Head(keys))
    /\ cancel' = (Head(keys) = "stop")
    /\ muted' = (Head(keys) = "broken")
    /\ UNCHANGED <<hooks, gate, at, call, history, processes>>

\* read_answer: until a key decides, and a terminal that is gone decides too.
\* Meanwhile the turn is not polled, and awaits nothing else.
Grants(k) == k = "yes"
Denies(k) == k \in {"no", "stop", "gone"}

Answers ==
    /\ at = "ask" /\ keys # <<>>
    /\ keys' = Read
    /\ CASE Grants(Head(keys)) ->
              Goes("run") /\ granted' = Inspected(call) /\ muted' = FALSE
         [] Denies(Head(keys)) -> Answered /\ muted' = FALSE /\ UNCHANGED granted
         [] OTHER -> UNCHANGED <<at, granted, muted>>
    /\ UNCHANGED <<hooks, gate, call, cancel, later, ran, processes>>

\* The question, or a notice, cannot be drawn: the turn is dropped.
SurfaceBreaks ==
    /\ \/ at = "ask" /\ UNCHANGED <<keys, later>>
       \/ MaySteer /\ Head(keys) \in {"enter", "later"} /\ keys' = Read /\ Queues(Head(keys))
    /\ Drops /\ TurnIsOver
    /\ UNCHANGED <<hooks, gate, call, cancel, history>>

\* take_turn rearms the signal.
Submitted == Goes("next") /\ cancel' = FALSE

\* At the prompt; /plan is typed there, and changes the gate.
Prompts ==
    /\ at = "prompt" /\ keys # <<>> /\ Head(keys) \notin {"broken", "gone"}
    /\ keys' = Read
    /\ IF Head(keys) = "enter"
       THEN Submitted /\ gate' \in {"ask", "read"}
       ELSE UNCHANGED <<at, cancel, gate>>
    /\ UNCHANGED <<hooks, call, muted, later, history, processes>>

\* A turn that was interrupted leaves what was asked for later in the queue.
TakesFollowUpUnlessStopped ==
    /\ at = "after"
    /\ IF later > 0 /\ ~cancel
       THEN Submitted /\ later' = later - 1
       ELSE Goes("prompt") /\ UNCHANGED <<cancel, later>>
    /\ UNCHANGED <<hooks, gate, call, keys, muted, history, processes>>

\* Before the prompt comes back, every message for later has its turn.
TakesFollowUp ==
    /\ at = "after"
    /\ IF later > 0
       THEN Submitted /\ later' = later - 1
       ELSE Goes("prompt") /\ UNCHANGED <<cancel, later>>
    /\ UNCHANGED <<hooks, gate, call, keys, muted, history, processes>>

-----------------------------------------------------------------------------

Calls ==
    \/ NextTurn \/ CallsTool \/ Stops \/ FiresHook \/ SkipsHook \/ HookAnswered
    \/ PassesGate \/ Refuses \/ Executes \/ ToolReturns \/ Cancelled

Outside == UNCHANGED <<hooks, gate, at, call, cancel, keyboard, history>>

Next ==
    \/ Calls
    \/ Steers \/ Answers \/ SurfaceBreaks \/ Prompts \/ TakesFollowUp
    \/ Presses
    \/ (World \/ Supervises \/ Sweeps) /\ Outside

\* A hook whose output is closed exits: nothing in the harness sees to it.
ClosedHookExits ==
    /\ job.stage = "closing" /\ LeaderExits(job.group)
    /\ UNCHANGED <<notes, job, harness>>

\* The turn is polled, deadlines pass, the model answers.  The user owes
\* nothing, and started programs only what is said above.
Fairness ==
    /\ WF_vars(Calls) /\ WF_vars(Supervises /\ Outside)
    /\ WF_vars(TakesFollowUp)
    /\ WF_vars(ClosedHookExits /\ Outside)

Spec == Init /\ [][Next]_vars /\ Fairness

-----------------------------------------------------------------------------
(* Properties.                                                             *)

NeedsConsent(c) == c.tool \notin READ_ONLY

(* Without --allow-writes nothing that modifies runs without a yes given to *)
(* that very call:    with the arguments that were shown, whatever was     *)
(* coerced, typed ahead, cancelled or left without an answer               *)
(* (dispatch.rs, execute; approval.rs, read_answer).                       *)
ConsentIsForTheCall == [][ran' # ran /\ NeedsConsent(ran') => granted = ran']_vars

(* Once the turn is done with a command, by its end, its deadline or a      *)
(* cancellation, nothing is left of its group (supervise.rs, collect).     *)
CommandsLeaveNothing ==
    \A g \in DOMAIN groups : groups[g].kind = "command" /\ Live(g) => Supervised(g)

(* A terminating signal finds in the registry every group that lives, but   *)
(* for the child of the last instant and what a finished hook left behind  *)
(* (registry.rs, track and sweep).                                         *)
LiveGroupsAreNoted ==
    harness = "up" =>
        \A g \in DOMAIN groups :
            Live(g) => \/ g \in notes
                       \/ job.group = g /\ job.stage = "born"
                       \/ ~Supervised(g) /\ groups[g].kind = "hook"

(* After the signal nothing starts: no tool and no process, however far the *)
(* call had come (dispatch.rs, the biased select of run_tool_round).       *)
CancelStartsNothing == [][cancel => ran' = ran /\ Len(groups') = Len(groups)]_vars

InCall == at \in {"pre", "gate", "run", "tool", "post"}

(* Every call ends: no descendant that keeps a pipe open, and no hook that  *)
(* does not read or answer, holds it beyond its deadline (launch.rs, run;  *)
(* hooks.rs, spawn).                                                       *)
CallEnds == InCall ~> ~InCall

(* What the user asked for after this turn is taken without asking again,   *)
(* even when the turn is interrupted or fails, unless a question waits for *)
(* the user (interactive.rs, run).                                         *)
LaterIsTaken == later > 0 ~> later = 0 \/ at = "ask"

=============================================================================
