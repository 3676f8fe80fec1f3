---------------------------- MODULE SessionStore ----------------------------
(***************************************************************************)
(* The file of one session, shared by several nycode processes             *)
(* (session/store.rs, store/guard.rs, store/tree.rs): appends under an     *)
(* advisory lock, the remembered tip that saves rereading the file, loads  *)
(* that take no lock, processes killed between any two system calls, and   *)
(* the machine losing power.                                               *)
(*                                                                         *)
(* A record is known by the order in which its append began.  What a line  *)
(* says is reduced to the record it parses as, if any; the text of a       *)
(* record and the newline after it are two writes, as writeln! makes them. *)
(***************************************************************************)
EXTENDS Naturals, FiniteSets, SequencesExt

CONSTANTS
    Procs,          \* processes that have the session open
    MaxRecords,     \* bound: appends begun
    MaxCrashes      \* bound: processes killed and power lost

ASSUME StoreBounds == Procs # {} /\ MaxRecords \in Nat /\ MaxCrashes \in Nat

\* A line: the record it parses as (0: none), whether its newline is there,
\* and whether it was cut inside a character.
Line(record, ended, cut) == [record |-> record, ended |-> ended, cut |-> cut]

NoTip == [record |-> 0, size |-> 0]

VARIABLES
    lines,      \* the file, as any process reads it
    durable,    \* the file, as it was last synchronised
    size,       \* its length: how many writes it took
    parent,     \* the parent each record was written with; 0 is no parent
    stage,
    lock,       \* who holds the lock: nobody or one process
    tip,        \* per process, the remembered tip and the length it goes with
    chosen,     \* per process, the parent of the record being appended
    mine,       \* per process, the record being appended
    seen,       \* per process, the last record of the load in progress
    acked,      \* the records whose append returned, in order
    crashes,
    raced       \* history: a load annotated a length it did not read

file == <<lines, durable, size, parent>>
local == <<tip, chosen, mine, seen>>
storeVars == <<file, stage, lock, local, acked, crashes, raced>>

StoreInit ==
    /\ lines = <<>> /\ durable = <<>> /\ size = 0 /\ parent = <<>>
    /\ stage = [p \in Procs |-> "off"] /\ lock = {}
    /\ tip = [p \in Procs |-> NoTip]
    /\ chosen = [p \in Procs |-> 0] /\ mine = [p \in Procs |-> 0]
    /\ seen = [p \in Procs |-> 0]
    /\ acked = <<>> /\ crashes = 0 /\ raced = FALSE

-----------------------------------------------------------------------------
(* Reading.                                                                *)

\* A file cut inside a character is not text: nothing of it can be read.
IsText == \A i \in DOMAIN lines : ~lines[i].cut

\* The records of the file, in the order of the lines that parse.
Records ==
    IF IsText
    THEN FlattenSeq([i \in DOMAIN lines |->
            IF lines[i].record = 0 THEN <<>> ELSE <<lines[i].record>>])
    ELSE <<>>

LastRecord == IF Records = <<>> THEN 0 ELSE Records[Len(Records)]

\* The path to a record stops at a parent that is not in the file.
PathTo(record) ==
    LET readable == {Records[i] : i \in DOMAIN Records}
        path[r \in 0 .. Len(parent)] ==
            IF r \in readable THEN Append(path[parent[r]], r) ELSE <<>>
    IN  path[record]

Conversation == PathTo(LastRecord)

-----------------------------------------------------------------------------
(* Opening a session.                                                      *)

\* load reads the file without the lock.  A file that is not text is an
\* error, and the process does not start.
LoadRead(p) ==
    /\ stage[p] = "off" /\ IsText
    /\ stage' = [stage EXCEPT ![p] = "loading"]
    /\ seen' = [seen EXCEPT ![p] = LastRecord]
    /\ UNCHANGED <<file, lock, tip, chosen, mine, acked, crashes, raced>>

Remember(p, r) == tip' = [tip EXCEPT ![p] = [record |-> r, size |-> size]]

\* ... and then annotates the tip with the length the file has by now.
LoadRemember(p) ==
    /\ stage[p] = "loading"
    /\ stage' = [stage EXCEPT ![p] = "idle"]
    /\ IF seen[p] # 0 THEN Remember(p, seen[p]) ELSE UNCHANGED tip
    /\ raced' = (raced \/ (seen[p] # 0 /\ seen[p] # LastRecord))
    /\ seen' = [seen EXCEPT ![p] = 0]
    /\ UNCHANGED <<file, lock, chosen, mine, acked, crashes>>

-----------------------------------------------------------------------------
(* Appending, under the lock.                                              *)

\* A tip trusted whatever happened to the file since.
TrustsTheTip(p) == tip[p].record # 0

\* A remembered tip is good while the file has the length it went with.
TipIsCurrent(p) == tip[p].record # 0 /\ tip[p].size = size

LockIsFree == lock = {}

\* The parent is the remembered tip, or the last record that can be read.
Acquire(p) ==
    /\ stage[p] = "idle" /\ LockIsFree /\ Len(parent) < MaxRecords
    /\ lock' = {p}
    /\ stage' = [stage EXCEPT ![p] = "locked"]
    /\ IF TipIsCurrent(p)
       THEN chosen' = [chosen EXCEPT ![p] = tip[p].record] /\ UNCHANGED tip
       ELSE /\ chosen' = [chosen EXCEPT ![p] = LastRecord]
            /\ IF LastRecord # 0 THEN Remember(p, LastRecord) ELSE UNCHANGED tip
    /\ UNCHANGED <<file, mine, seen, acked, crashes, raced>>

\* Text goes to the end of the file: on a line of its own, or on the end of
\* a line that has no newline, which then parses as nothing.
Written(text, ls) ==
    IF ls # <<>> /\ ~ls[Len(ls)].ended
    THEN [ls EXCEPT ![Len(ls)] =
            Line(0, FALSE, ls[Len(ls)].cut \/ text.cut)]
    ELSE Append(ls, text)

WriteRecord(p) ==
    /\ stage[p] = "locked"
    /\ LET r == Len(parent) + 1
       IN  /\ parent' = Append(parent, chosen[p])
           /\ mine' = [mine EXCEPT ![p] = r]
           /\ lines' = Written(Line(r, FALSE, FALSE), lines)
    /\ size' = size + 1
    /\ stage' = [stage EXCEPT ![p] = "written"]
    /\ UNCHANGED <<durable, lock, tip, chosen, seen, acked, crashes, raced>>

WriteNewline(p) ==
    /\ stage[p] = "written"
    /\ lines' = [lines EXCEPT ![Len(lines)].ended = TRUE]
    /\ size' = size + 1
    /\ stage' = [stage EXCEPT ![p] = "ended"]
    /\ UNCHANGED <<durable, parent, lock, local, acked, crashes, raced>>

ReturnsUnsynced == UNCHANGED durable

Synchronise == durable' = lines

\* The disk has it, the tip is remembered and the append returns.
Finish(p) ==
    /\ stage[p] = "ended"
    /\ Synchronise
    /\ Remember(p, mine[p])
    /\ acked' = Append(acked, mine[p])
    /\ mine' = [mine EXCEPT ![p] = 0] /\ chosen' = [chosen EXCEPT ![p] = 0]
    /\ lock' = {}
    /\ stage' = [stage EXCEPT ![p] = "idle"]
    /\ UNCHANGED <<lines, size, parent, seen, crashes, raced>>

-----------------------------------------------------------------------------
(* Failure.                                                                *)

\* What a process in the middle of its write may leave of the record: all
\* that it had written, or a piece of it.
LeftBy(p) ==
    {lines} \cup
    IF stage[p] = "locked"
    THEN {Written(Line(0, FALSE, c), lines) : c \in BOOLEAN}
    ELSE {}

\* The process is killed, or leaves because the write failed: the lock is
\* released by the system and the memory is gone.
Crash(p) ==
    /\ stage[p] # "off" /\ crashes < MaxCrashes
    /\ crashes' = crashes + 1
    /\ lines' \in LeftBy(p)
    /\ size' = IF lines' = lines THEN size ELSE size + 1
    /\ stage' = [stage EXCEPT ![p] = "off"]
    /\ lock' = lock \ {p}
    /\ tip' = [tip EXCEPT ![p] = NoTip]
    /\ chosen' = [chosen EXCEPT ![p] = 0] /\ mine' = [mine EXCEPT ![p] = 0]
    /\ seen' = [seen EXCEPT ![p] = 0]
    /\ UNCHANGED <<durable, parent, acked, raced>>

\* The machine goes down: of what was not synchronised, all of it is there,
\* none of it, or a piece.
PowerLoss ==
    /\ crashes < MaxCrashes
    /\ crashes' = crashes + 1
    /\ lines' \in {lines, durable}
          \cup IF durable = lines THEN {}
               ELSE {Written(Line(0, FALSE, c), durable) :
                        c \in BOOLEAN}
    /\ durable' = lines'
    /\ size' = size + 1
    /\ stage' = [p \in Procs |-> "off"] /\ lock' = {}
    /\ tip' = [p \in Procs |-> NoTip]
    /\ chosen' = [p \in Procs |-> 0] /\ mine' = [p \in Procs |-> 0]
    /\ seen' = [p \in Procs |-> 0]
    /\ UNCHANGED <<parent, acked, raced>>

\* The user leaves.
Close(p) ==
    /\ stage[p] = "idle"
    /\ stage' = [stage EXCEPT ![p] = "off"]
    /\ tip' = [tip EXCEPT ![p] = NoTip]
    /\ UNCHANGED <<file, lock, chosen, mine, seen, acked, crashes, raced>>

StoreNext ==
    \/ \E p \in Procs :
        \/ LoadRead(p) \/ LoadRemember(p)
        \/ Acquire(p) \/ WriteRecord(p) \/ WriteNewline(p) \/ Finish(p)
        \/ Crash(p) \/ Close(p)
    \/ PowerLoss

StoreSpec == StoreInit /\ [][StoreNext]_storeVars

-----------------------------------------------------------------------------
(* Properties.                                                             *)

\* What can be read of a file: the records its lines parse as, or nothing.
IsReadable(r) == IsText /\ r # 0 /\ \E i \in DOMAIN lines : lines[i].record = r

Members(s) == {s[i] : i \in DOMAIN s}

(* While nothing crashes, and no load annotates a length it did not read,   *)
(* the processes that share a session write one conversation: every record *)
(* appended by any of them, in order, with no branch nobody asked for      *)
(* (store.rs, tips: "precisam concordar sobre onde esta a ponta").         *)
OneConversation ==
    crashes = 0 /\ ~raced =>
        Conversation = acked \/ \E r \in DOMAIN parent : Conversation = Append(acked, r)

(* An append that returned survives the loss of power, and each crash costs *)
(* at most one such record: the one glued to what the crash left (store.rs, *)
(* sync_all).  Counted while the file can be read at all.                   *)
AckedSurvive ==
    IsText => Cardinality({r \in Members(acked) : ~IsReadable(r)}) <= crashes

(* store.rs:5-6: "o pior caso e perder o ultimo turno, nao a conversa       *)
(* inteira".  tests.rs:74 checks it with a broken line that ends in a      *)
(* newline; a write cut short has none.                                    *)
WorstCaseIsTheLastTurn ==
    IsText /\ ~raced =>
        Cardinality(Members(acked) \ Members(Conversation)) <= crashes

=============================================================================
