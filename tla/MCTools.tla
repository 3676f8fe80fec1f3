------------------------------ MODULE MCTools ------------------------------
(***************************************************************************)
(* What the model and the user are shown: the file tools over a file, the  *)
(* searches over a tree, the capture of a pipe and the screen.  They share *)
(* nothing, so a behaviour explores one of them.                           *)
(***************************************************************************)
EXTENDS FileTools, Search, Capture, Screen

VARIABLE focus      \* the part this behaviour explores

\* Where the screen is not explored, its session is over.
NoScreen ==
    /\ editor = NewEditor(<<>>) /\ tally = 0
    /\ cols = Min(Widths) /\ width = cols /\ unheard = <<>> /\ missed = FALSE
    /\ grid = Grid /\ renderer = NothingDrawn
    /\ submitted = 0 /\ resizes = 0 /\ quitting = TRUE /\ spoilt = {}

MCInit ==
    /\ \/ focus = "file" /\ tree = <<>> /\ NoScreen
       \/ focus = "tree" /\ disk = <<>> /\ NoScreen
       \/ focus = "pipe" /\ disk = <<>> /\ tree = <<>> /\ NoScreen
       \/ focus = "screen" /\ disk = <<>> /\ tree = <<>> /\ ScreenInit
    /\ FileInit /\ SearchInit /\ CaptureInit

mcVars == <<fileVars, searchVars, captureVars, screenVars, focus>>

MCNext ==
    \/ focus = "file" /\ FileNext /\ UNCHANGED <<searchVars, captureVars, screenVars, focus>>
    \/ focus = "tree" /\ SearchNext /\ UNCHANGED <<fileVars, captureVars, screenVars, focus>>
    \/ focus = "pipe" /\ CaptureNext /\ UNCHANGED <<fileVars, searchVars, screenVars, focus>>
    \/ focus = "screen" /\ ScreenNext /\ UNCHANGED <<fileVars, searchVars, captureVars, focus>>

MCSpec == MCInit /\ [][MCNext]_mcVars
=============================================================================
