----------------------------- MODULE Processes -----------------------------
(***************************************************************************)
(* The processes a turn starts and how they end: tools/bash/supervise.rs   *)
(* (collect) under the deadline of tools/bash/launch.rs (run),             *)
(* policy/hooks.rs (spawn), policy/confinement/process.rs and its          *)
(* registry, and the sweep of main.rs, which runs on another thread than   *)
(* the turn.  What the started programs do, and when, is the system's.     *)
(*                                                                         *)
(* Every child leads a group of its own (detach).  One descendant stands   *)
(* for those that stay in the group, another for those that leave it with  *)
(* the pipe in their hands.                                                *)
(***************************************************************************)
EXTENDS Integers, Sequences

VARIABLES
    groups,   \* every group started, in order
    notes,    \* the registry: groups the sweep would end
    job,      \* what the turn supervises: its kind, its group and the stage
    harness   \* "up", or "swept" once a terminating signal was answered

processes == <<groups, notes, job, harness>>

NoJob == [kind |-> "none", group |-> 0, stage |-> "idle"]

\* A leader that closed its output still runs.
Started(kind) == [kind |-> kind, leader |-> "running", kin |-> "none", far |-> FALSE]

Leads(g) == groups[g].leader \in {"running", "closed"}
Live(g) == Leads(g) \/ groups[g].kin # "none"

Supervised(g) ==
    job.group = g /\ job.stage \in {"born", "watched", "reaped", "closing", "killed"}

\* Nobody holds the writing end of the pipe any more.
Eof(g) == groups[g].leader # "running" /\ groups[g].kin # "holding" /\ ~groups[g].far

ProcessesInit ==
    groups = <<>> /\ notes = {} /\ job = NoJob /\ harness = "up"

-----------------------------------------------------------------------------
(* The operating system.                                                   *)

Becomes(g, field, value) ==
    groups' = [groups EXCEPT ![g] = [@ EXCEPT ![field] = value]]

Forks(g) ==
    /\ Leads(g) /\ groups[g].kin = "none"
    /\ \E kin \in {"quiet"} \cup (IF groups[g].leader = "running" THEN {"holding"} ELSE {}) :
         Becomes(g, "kin", kin)

ClosesOutput(g) == groups[g].leader = "running" /\ Becomes(g, "leader", "closed")
LeaderExits(g) == Leads(g) /\ Becomes(g, "leader", "over")
KinExits(g) == groups[g].kin # "none" /\ Becomes(g, "kin", "none")
FarExits(g) == groups[g].far /\ Becomes(g, "far", FALSE)

\* setsid: out of the group, with the pipe still open.
KinLeaves(g) ==
    /\ groups[g].kin = "holding"
    /\ groups' = [groups EXCEPT ![g] = [@ EXCEPT !.kin = "none", !.far = TRUE]]

\* What a group does when nobody supervises it no step reads: its leader is
\* over, so whatever is left of it only ends.
World ==
    /\ \E g \in {h \in DOMAIN groups : Supervised(h)} :
         Forks(g) \/ ClosesOutput(g) \/ LeaderExits(g) \/ KinExits(g) \/ FarExits(g) \/ KinLeaves(g)
    /\ UNCHANGED <<notes, job, harness>>

-----------------------------------------------------------------------------
(* Signals.                                                                *)

\* terminate_group: the leader and whoever is still in its group.
Ended(group) == [group EXCEPT !.kin = "none", !.leader = "over"]
TerminateGroup(gs) ==
    groups' = [g \in DOMAIN groups |-> IF g \in gs THEN Ended(groups[g]) ELSE groups[g]]

\* kill_on_drop: the leader alone.
KillLeader(g) == Becomes(g, "leader", "over")

-----------------------------------------------------------------------------
(* The harness.                                                            *)

Stage(stage) == job' = [job EXCEPT !.stage = stage]

Start(kind) ==
    /\ groups' = Append(groups, Started(kind))
    /\ job' = [kind |-> kind, group |-> Len(groups) + 1, stage |-> "born"]
    /\ UNCHANGED <<notes, harness>>

\* A registry for commands only.
NoteIfCommand == notes' = IF job.kind = "command" THEN notes \cup {job.group} ELSE notes

Note == notes' = notes \cup {job.group}

\* The line after spawn, on the same thread: the sweep may run in between.
Tracks ==
    /\ job.stage = "born"
    /\ Note /\ Stage("watched")
    /\ UNCHANGED <<groups, harness>>

Unnoted == notes' = notes \ {job.group}

\* wait() returns, and the rest of the group is ended in the same poll.
Reaps ==
    /\ job.kind = "command" /\ job.stage = "watched" /\ ~Leads(job.group)
    /\ TerminateGroup({job.group}) /\ Stage("reaped")
    /\ UNCHANGED <<notes, harness>>

\* Both pipes are drained as well: the guard is disarmed.
Completes ==
    /\ job.stage = "reaped" /\ Eof(job.group)
    /\ Unnoted /\ Stage("done")
    /\ UNCHANGED <<groups, harness>>

\* A future dropped with nothing but kill_on_drop.
DropsTheLeader == KillLeader(job.group)

\* GroupOnDrop signals before the child is dropped; a hook has no such guard.
DropsTheJob ==
    IF job.kind = "command" THEN TerminateGroup({job.group}) ELSE KillLeader(job.group)

\* The deadline covers the wait alone, and not the drain of the pipes.
WaitTimesOut ==
    /\ job.kind = "command" /\ job.stage = "watched"
    /\ DropsTheJob /\ Unnoted /\ Stage("failed")
    /\ UNCHANGED harness

CommandTimesOut ==
    /\ job.kind = "command" /\ job.stage \in {"watched", "reaped"}
    /\ DropsTheJob /\ Unnoted /\ Stage("failed")
    /\ UNCHANGED harness

\* The hook was written to and read to the end, in time.
HookIsRead ==
    /\ job.kind = "hook" /\ job.stage = "watched" /\ Eof(job.group)
    /\ Stage("closing")
    /\ UNCHANGED <<groups, notes, harness>>

\* It was not: kill ends group and leader, and the leader is waited for.
HookTimesOut ==
    /\ job.kind = "hook" /\ job.stage = "watched"
    /\ TerminateGroup({job.group}) /\ Stage("killed")
    /\ UNCHANGED <<notes, harness>>

\* No deadline covers this wait, and no signal follows it.
HookEnds ==
    /\ job.stage \in {"closing", "killed"} /\ ~Leads(job.group)
    /\ Unnoted /\ Stage(IF job.stage = "closing" THEN "done" ELSE "failed")
    /\ UNCHANGED <<groups, harness>>

Supervises ==
    Tracks \/ Reaps \/ Completes \/ CommandTimesOut \/ HookIsRead \/ HookTimesOut \/ HookEnds

\* The future of the turn is dropped while it awaits: never between spawn and
\* track, which share a poll.
Drops ==
    IF job.stage \in {"watched", "reaped", "closing", "killed"}
    THEN DropsTheJob /\ Unnoted /\ job' = NoJob /\ UNCHANGED harness
    ELSE job' = NoJob /\ UNCHANGED <<groups, notes, harness>>

\* A terminating signal: the registry is taken and each group in it ended, on a
\* thread of its own.  Exit follows, and until then the turn goes on; a process
\* that is gone takes no more steps.
Sweeps ==
    /\ harness = "up"
    /\ harness' = "swept"
    /\ TerminateGroup(notes) /\ notes' = {}
    /\ UNCHANGED job

=============================================================================
