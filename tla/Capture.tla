------------------------------ MODULE Capture ------------------------------
(***************************************************************************)
(* The capture of one pipe of a command (nycode-agent,                     *)
(* tools/bash/capture.rs, drain): the end of the output is kept in memory, *)
(* and what went before it goes to a temporary file once there is too      *)
(* much.  Bytes enter and leave the window in order, so they are counted.  *)
(***************************************************************************)
EXTENDS Naturals

CONSTANTS
    MaxKept,       \* bytes the model is given (MAX_OUTPUT of output.rs)
    Block,         \* bytes one read of the pipe brings at most
    MaxOutput      \* bound: bytes the command writes

ASSUME CaptureConstants == MaxKept \in Nat /\ Block \in Nat /\ MaxOutput \in Nat

SLACK == 2
HighWater == IF MaxKept * SLACK = 0 THEN 1 ELSE MaxKept * SLACK

VARIABLES
    draining,      \* the pipe is still read
    total,         \* bytes read
    kept,          \* bytes in the window
    spill,         \* the temporary file: "none" or "open"
    spilled,       \* bytes written to it
    failed         \* history: it did not open, or a write to it failed

captureVars == <<draining, total, kept, spill, spilled, failed>>

CaptureInit ==
    /\ draining = TRUE
    /\ total = 0 /\ kept = 0
    /\ spill = "none" /\ spilled = 0
    /\ failed = FALSE

\* What exceeds the tail leaves the window, to the file.  The file is opened
\* when first needed, and tried again while it does not open; the system may
\* refuse the opening and the write.
Spills(excess, also, opens, writes) ==
    LET isOpen == spill = "open" \/ (excess > 0 /\ opens)
        bytes == excess + also
    IN  /\ spill' = IF isOpen THEN "open" ELSE "none"
        /\ spilled' = spilled + (IF isOpen /\ writes THEN bytes ELSE 0)
        /\ failed' = (failed \/ (bytes > 0 /\ isOpen /\ ~writes) \/ (excess > 0 /\ ~isOpen))

\* A read of the pipe.  The window is trimmed once it holds twice the tail.
Brings(n, opens, writes) ==
    LET held == kept + n
    IN  /\ draining
        /\ total + n <= MaxOutput
        /\ total' = total + n
        /\ IF held > HighWater
             THEN kept' = MaxKept /\ Spills(held - MaxKept, 0, opens, writes)
             ELSE kept' = held /\ UNCHANGED <<spill, spilled, failed>>
        /\ UNCHANGED draining

\* Mutant: the file gets what exceeded the tail only.
FinishesWithoutTheTail(opens, writes) ==
    LET excess == IF kept > MaxKept THEN kept - MaxKept ELSE 0
    IN  /\ draining
        /\ draining' = FALSE
        /\ kept' = kept - excess
        /\ Spills(excess, 0, opens, writes)
        /\ UNCHANGED total

\* The end of the pipe: the file gets the tail as well.
Finishes(opens, writes) ==
    LET excess == IF kept > MaxKept THEN kept - MaxKept ELSE 0
    IN  /\ draining
        /\ draining' = FALSE
        /\ kept' = kept - excess
        /\ Spills(excess, kept - excess, opens, writes)
        /\ UNCHANGED total

CaptureNext ==
    \E opens, writes \in BOOLEAN :
        \/ \E n \in 1..Block : Brings(n, opens, writes)
        \/ Finishes(opens, writes)

CaptureSpec == CaptureInit /\ [][CaptureNext]_captureVars

-----------------------------------------------------------------------------
\* When the pipe ends, the model is given the whole output or its last MaxKept
\* bytes; and then, unless the system refused the file, there is one and it
\* holds all of the output, the tail included (capture.rs:108-197: sending the
\* model "para um pedaço da saída seria mandá-lo para o lugar errado").
OutputIsWhole ==
    ~draining =>
        /\ kept = (IF total > MaxKept THEN MaxKept ELSE total)
        /\ ~failed => /\ total > MaxKept => spill = "open"
                      /\ spill = "open" => spilled = total
=============================================================================
