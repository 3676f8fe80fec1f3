----------------------------- MODULE TurnProofs -----------------------------
(***************************************************************************)
(* What holds of the calls and of the processes of any number of turns.    *)
(***************************************************************************)
EXTENDS Turn, SequenceTheorems, TLAPS

Group == [kind : {"command", "hook"}, leader : {"running", "closed", "over"},
          kin : {"none", "quiet", "holding"}, far : BOOLEAN]

InHand == {"watched", "reaped", "closing", "killed"}

Job == [kind : {"command", "hook"}, group : Nat,
        stage : {"born", "done", "failed"} \cup InHand]

ProcessTypes ==
    /\ groups \in Seq(Group)
    /\ job \in {NoJob} \cup Job
    /\ job # NoJob => job.group \in DOMAIN groups /\ groups[job.group].kind = job.kind

\* A command that was reaped has nobody left in its group; only a hook is
\* waited for without a signal; what is in hand is in the registry.
ProcessInv ==
    /\ ProcessTypes
    /\ job.stage = "reaped" => ~Live(job.group)
    /\ job.stage \in {"closing", "killed"} => job.kind = "hook"
    /\ harness = "up" /\ job.stage \in InHand => job.group \in notes
    /\ CommandsLeaveNothing

-----------------------------------------------------------------------------
(* The processes.                                                          *)

LEMMA Kept ==
    ASSUME ProcessTypes, NEW gs, TerminateGroup(gs)
    PROVE  /\ groups' \in Seq(Group) /\ DOMAIN groups' = DOMAIN groups
           /\ \A g \in DOMAIN groups :
                /\ groups'[g].kind = groups[g].kind
                /\ Live(g)' => Live(g)
                /\ g \in gs => ~Live(g)'
<1>1. groups \in [1 .. Len(groups) -> Group] /\ Len(groups) \in Nat
  BY DEF ProcessTypes
<1>2. groups' = [g \in 1 .. Len(groups) |-> IF g \in gs THEN Ended(groups[g]) ELSE groups[g]]
  BY <1>1 DEF TerminateGroup
<1>3. \A g \in DOMAIN groups :
         /\ Ended(groups[g]) \in Group /\ Ended(groups[g]).kind = groups[g].kind
         /\ Ended(groups[g]).leader = "over" /\ Ended(groups[g]).kin = "none"
  BY <1>1 DEF Ended, Group
<1>4. groups' \in Seq(Group) /\ DOMAIN groups' = DOMAIN groups
  BY <1>1, <1>2, <1>3
<1> QED
  BY <1>1, <1>2, <1>3, <1>4 DEF Live, Leads

LEMMA Changed ==
    ASSUME ProcessTypes, NEW g \in DOMAIN groups,
           NEW field \in {"leader", "kin", "far"}, NEW value, Becomes(g, field, value),
           field = "leader" => value \in {"closed", "over"},
           field = "kin" => value \in {"none", "quiet", "holding"},
           field = "far" => value \in BOOLEAN
    PROVE  /\ groups' \in Seq(Group) /\ DOMAIN groups' = DOMAIN groups
           /\ groups'[g] = [groups[g] EXCEPT ![field] = value]
           /\ groups'[g].kind = groups[g].kind
           /\ \A h \in DOMAIN groups \ {g} : groups'[h] = groups[h]
<1>1. groups \in [1 .. Len(groups) -> Group] /\ Len(groups) \in Nat
  BY DEF ProcessTypes
<1>2. groups' = [groups EXCEPT ![g] = [groups[g] EXCEPT ![field] = value]]
  BY DEF Becomes
<1>3. [groups[g] EXCEPT ![field] = value] \in Group
  BY <1>1 DEF Group
<1>4. groups' \in [1 .. Len(groups) -> Group]
  BY <1>1, <1>2, <1>3
<1>5. [groups[g] EXCEPT ![field] = value].kind = groups[g].kind
  BY <1>1 DEF Group
<1> QED
  BY <1>1, <1>2, <1>3, <1>4, <1>5

(* One step of a program touches one group, and wakes nobody in a dead one. *)
LEMMA WorldStep ==
    ASSUME ProcessTypes, NEW g \in DOMAIN groups,
           \/ Forks(g) \/ ClosesOutput(g) \/ LeaderExits(g)
           \/ KinExits(g) \/ FarExits(g) \/ KinLeaves(g)
    PROVE  /\ groups' \in Seq(Group) /\ DOMAIN groups' = DOMAIN groups
           /\ groups'[g].kind = groups[g].kind
           /\ Live(g)' => Live(g)
           /\ \A h \in DOMAIN groups \ {g} : groups'[h] = groups[h]
<1>1. groups \in [1 .. Len(groups) -> Group] /\ Len(groups) \in Nat /\ groups[g] \in Group
  BY DEF ProcessTypes
<1>2. CASE Forks(g)
  <2>1. PICK kin \in {"quiet", "holding"} : Becomes(g, "kin", kin)
    BY <1>2 DEF Forks
  <2>2. Live(g)
    BY <1>2 DEF Forks, Live
  <2> QED
    BY <2>1, <2>2, Changed
<1>3. CASE ClosesOutput(g)
  <2>1. Becomes(g, "leader", "closed") /\ Live(g)
    BY <1>3 DEF ClosesOutput, Live, Leads
  <2> QED
    BY <2>1, Changed
<1>4. CASE LeaderExits(g)
  <2>1. Becomes(g, "leader", "over") /\ Live(g)
    BY <1>4 DEF LeaderExits, Live, Leads
  <2> QED
    BY <2>1, Changed
<1>5. CASE KinExits(g)
  <2>1. Becomes(g, "kin", "none") /\ Live(g)
    BY <1>5 DEF KinExits, Live
  <2> QED
    BY <2>1, Changed
<1>6. CASE FarExits(g)
  <2>1. Becomes(g, "far", FALSE)
    BY <1>6 DEF FarExits
  <2>2. groups'[g] = [groups[g] EXCEPT !["far"] = FALSE]
    BY <2>1, Changed
  <2>3. groups'[g].leader = groups[g].leader /\ groups'[g].kin = groups[g].kin
    BY <1>1, <2>2 DEF Group
  <2> QED
    BY <2>1, <2>3, Changed DEF Live, Leads
<1>7. CASE KinLeaves(g)
  <2>1. groups' = [groups EXCEPT ![g] = [groups[g] EXCEPT !.kin = "none", !.far = TRUE]]
    BY <1>7 DEF KinLeaves
  <2>2. [groups[g] EXCEPT !.kin = "none", !.far = TRUE] \in Group
    BY <1>1 DEF Group
  <2>3. groups' \in [1 .. Len(groups) -> Group]
    BY <1>1, <2>1, <2>2
  <2>4. groups'[g].kind = groups[g].kind /\ Live(g)
    BY <1>1, <1>7, <2>1 DEF KinLeaves, Live, Group
  <2> QED
    BY <1>1, <2>1, <2>3, <2>4
<1> QED
  BY <1>2, <1>3, <1>4, <1>5, <1>6, <1>7

LEMMA WorldKeeps == ProcessInv /\ World => ProcessInv'
<1> SUFFICES ASSUME ProcessInv, World
             PROVE  ProcessInv'
  OBVIOUS
<1>1. PICK g \in DOMAIN groups :
         /\ Supervised(g)
         /\ \/ Forks(g) \/ ClosesOutput(g) \/ LeaderExits(g)
            \/ KinExits(g) \/ FarExits(g) \/ KinLeaves(g)
  BY DEF World
<1>2. UNCHANGED <<notes, job, harness>>
  BY DEF World
<1>3. /\ groups' \in Seq(Group) /\ DOMAIN groups' = DOMAIN groups
      /\ groups'[g].kind = groups[g].kind
      /\ Live(g)' => Live(g)
      /\ \A h \in DOMAIN groups \ {g} : groups'[h] = groups[h]
  BY <1>1, WorldStep DEF ProcessInv
<1>4. \A h \in DOMAIN groups : groups'[h].kind = groups[h].kind /\ (Live(h)' => Live(h) \/ h = g)
  BY <1>3 DEF Live, Leads
<1>5. ProcessTypes'
  BY <1>2, <1>3, <1>4 DEF ProcessInv, ProcessTypes
<1>6. (job.stage = "reaped" => ~Live(job.group))'
  BY <1>1, <1>2, <1>3 DEF ProcessInv, Supervised
<1>7. CommandsLeaveNothing'
  BY <1>1, <1>2, <1>3, <1>4 DEF ProcessInv, CommandsLeaveNothing, Supervised
<1> QED
  BY <1>2, <1>5, <1>6, <1>7 DEF ProcessInv

LEMMA SweepKeeps == ProcessInv /\ Sweeps => ProcessInv'
<1> SUFFICES ASSUME ProcessInv, Sweeps
             PROVE  ProcessInv'
  OBVIOUS
<1>1. TerminateGroup(notes) /\ UNCHANGED job /\ harness' = "swept"
  BY DEF Sweeps
<1>2. ProcessTypes'
  BY <1>1, Kept DEF ProcessInv, ProcessTypes
<1>3. (job.stage = "reaped" => ~Live(job.group))'
  <2>1. ASSUME job.stage = "reaped"
        PROVE  ~Live(job.group)'
    <3>1. job.group \in DOMAIN groups
      BY <2>1 DEF ProcessInv, ProcessTypes, NoJob
    <3> QED
      BY <1>1, <2>1, <3>1, Kept DEF ProcessInv
  <2> QED
    BY <1>1, <2>1 DEF Live, Leads
<1>4. CommandsLeaveNothing'
  BY <1>1, Kept DEF ProcessInv, CommandsLeaveNothing, Supervised
<1> QED
  BY <1>1, <1>2, <1>3, <1>4 DEF ProcessInv

(* A job in hand is one of the groups; its stage is set and nothing else.   *)
LEMMA Staged ==
    ASSUME ProcessTypes, job # NoJob, NEW stage \in {"born", "done", "failed"} \cup InHand,
           Stage(stage)
    PROVE  /\ job' \in Job /\ job' # NoJob
           /\ job'.group = job.group /\ job'.kind = job.kind /\ job'.stage = stage
  BY DEF ProcessTypes, Job, NoJob, Stage, InHand

(* Ending the group of the job.                                            *)
LEMMA EndedKeeps ==
    ASSUME ProcessTypes, TerminateGroup({job.group})
    PROVE  /\ groups' \in Seq(Group) /\ DOMAIN groups' = DOMAIN groups
           /\ \A g \in DOMAIN groups :
                /\ groups'[g].kind = groups[g].kind /\ (Live(g)' => Live(g))
                /\ g = job.group => ~Live(g)'
<1> DEFINE ended == {job.group}
<1>1. TerminateGroup(ended)
  OBVIOUS
<1> HIDE DEF ended
<1>2. /\ groups' \in Seq(Group) /\ DOMAIN groups' = DOMAIN groups
      /\ \A g \in DOMAIN groups :
           /\ groups'[g].kind = groups[g].kind /\ (Live(g)' => Live(g))
           /\ g \in ended => ~Live(g)'
  BY <1>1, Kept
<1> QED
  BY <1>2 DEF ended

LEMMA JobDropped ==
    ASSUME ProcessTypes, job # NoJob, DropsTheJob
    PROVE  /\ groups' \in Seq(Group) /\ DOMAIN groups' = DOMAIN groups
           /\ \A g \in DOMAIN groups :
                /\ groups'[g].kind = groups[g].kind /\ (Live(g)' => Live(g))
                /\ g = job.group /\ job.kind = "command" => ~Live(g)'
<1>1. job.group \in DOMAIN groups
  BY DEF ProcessTypes
<1>2. CASE job.kind = "command"
  <2>1. TerminateGroup({job.group})
    BY <1>2 DEF DropsTheJob
  <2> QED
    BY <1>2, <2>1, EndedKeeps
<1>3. CASE job.kind # "command"
  <2>1. Becomes(job.group, "leader", "over")
    BY <1>3 DEF DropsTheJob, KillLeader
  <2>2. groups[job.group] \in Group
    BY <1>1 DEF ProcessTypes
  <2>3. /\ groups'[job.group] = [groups[job.group] EXCEPT !["leader"] = "over"]
        /\ groups'[job.group].kind = groups[job.group].kind
        /\ groups' \in Seq(Group) /\ DOMAIN groups' = DOMAIN groups
        /\ \A h \in DOMAIN groups \ {job.group} : groups'[h] = groups[h]
    BY <1>1, <2>1, Changed
  <2>4. groups'[job.group].kin = groups[job.group].kin /\ groups'[job.group].leader = "over"
    BY <2>2, <2>3 DEF Group
  <2> QED
    BY <1>3, <2>3, <2>4 DEF Live, Leads
<1> QED
  BY <1>2, <1>3

LEMMA SuperviseKeeps == ProcessInv /\ Supervises => ProcessInv'
<1> SUFFICES ASSUME ProcessInv, Supervises
             PROVE  ProcessInv'
  OBVIOUS
<1>0. ProcessTypes /\ (job.stage # "idle" => job # NoJob /\ job.group \in DOMAIN groups)
  BY DEF ProcessInv, ProcessTypes, NoJob
<1>1. CASE Tracks
  <2>1. /\ job' \in Job /\ job' # NoJob
        /\ job'.group = job.group /\ job'.kind = job.kind /\ job'.stage = "watched"
    BY <1>0, <1>1, Staged DEF Tracks, InHand
  <2>2. notes' = notes \cup {job.group} /\ UNCHANGED <<groups, harness>>
    BY <1>1 DEF Tracks, Note
  <2>3. CommandsLeaveNothing'
    BY <2>1, <2>2 DEF ProcessInv, CommandsLeaveNothing, Supervised, Live, Leads
  <2> QED
    BY <1>0, <1>1, <2>1, <2>2, <2>3 DEF Tracks, ProcessInv, ProcessTypes
<1>2. CASE Reaps
  <2>1. /\ job' \in Job /\ job' # NoJob
        /\ job'.group = job.group /\ job'.kind = job.kind /\ job'.stage = "reaped"
    BY <1>0, <1>2, Staged DEF Reaps, InHand
  <2>2. TerminateGroup({job.group}) /\ UNCHANGED <<notes, harness>> /\ job.stage = "watched"
    BY <1>2 DEF Reaps
  <2>3. /\ groups' \in Seq(Group) /\ DOMAIN groups' = DOMAIN groups
        /\ \A g \in DOMAIN groups :
             /\ groups'[g].kind = groups[g].kind /\ (Live(g)' => Live(g))
             /\ g = job.group => ~Live(g)'
    BY <1>0, <2>2, EndedKeeps
  <2>4. CommandsLeaveNothing'
    BY <2>1, <2>3 DEF ProcessInv, CommandsLeaveNothing, Supervised
  <2> QED
    BY <1>0, <2>1, <2>2, <2>3, <2>4 DEF ProcessInv, ProcessTypes, Live, Leads, InHand
<1>3. CASE Completes
  <2>1. /\ job' \in Job /\ job' # NoJob
        /\ job'.group = job.group /\ job'.kind = job.kind /\ job'.stage = "done"
    BY <1>0, <1>3, Staged DEF Completes, InHand
  <2>2. UNCHANGED <<groups, harness>> /\ ~Live(job.group) /\ job.stage = "reaped"
    BY <1>3 DEF Completes, ProcessInv
  <2>3. CommandsLeaveNothing'
    BY <2>1, <2>2 DEF ProcessInv, CommandsLeaveNothing, Supervised, Live, Leads
  <2> QED
    BY <1>0, <2>1, <2>2, <2>3 DEF ProcessInv, ProcessTypes, InHand
<1>4. CASE CommandTimesOut
  <2>1. /\ job' \in Job /\ job' # NoJob
        /\ job'.group = job.group /\ job'.kind = job.kind /\ job'.stage = "failed"
    BY <1>0, <1>4, Staged DEF CommandTimesOut, InHand
  <2>2. /\ DropsTheJob /\ job.kind = "command" /\ UNCHANGED harness
        /\ job.stage \in {"watched", "reaped"}
    BY <1>4 DEF CommandTimesOut
  <2>3. /\ groups' \in Seq(Group) /\ DOMAIN groups' = DOMAIN groups
        /\ \A g \in DOMAIN groups :
             /\ groups'[g].kind = groups[g].kind /\ (Live(g)' => Live(g))
             /\ g = job.group => ~Live(g)'
    BY <1>0, <1>4, <2>2, JobDropped DEF CommandTimesOut
  <2>4. CommandsLeaveNothing'
    BY <2>1, <2>3 DEF ProcessInv, CommandsLeaveNothing, Supervised
  <2> QED
    BY <1>0, <2>1, <2>2, <2>3, <2>4 DEF ProcessInv, ProcessTypes, InHand
<1>5. CASE HookIsRead
  <2>1. /\ job' \in Job /\ job' # NoJob
        /\ job'.group = job.group /\ job'.kind = job.kind /\ job'.stage = "closing"
    BY <1>0, <1>5, Staged DEF HookIsRead, InHand
  <2>2. /\ UNCHANGED <<groups, notes, harness>>
        /\ job.stage = "watched" /\ job.kind = "hook"
    BY <1>5 DEF HookIsRead
  <2>3. CommandsLeaveNothing'
    BY <2>1, <2>2 DEF ProcessInv, CommandsLeaveNothing, Supervised, Live, Leads
  <2> QED
    BY <1>0, <2>1, <2>2, <2>3 DEF ProcessInv, ProcessTypes, InHand
<1>6. CASE HookTimesOut
  <2>1. /\ job' \in Job /\ job' # NoJob
        /\ job'.group = job.group /\ job'.kind = job.kind /\ job'.stage = "killed"
    BY <1>0, <1>6, Staged DEF HookTimesOut, InHand
  <2>2. /\ TerminateGroup({job.group}) /\ UNCHANGED <<notes, harness>>
        /\ job.stage = "watched" /\ job.kind = "hook"
    BY <1>6 DEF HookTimesOut
  <2>3. /\ groups' \in Seq(Group) /\ DOMAIN groups' = DOMAIN groups
        /\ \A g \in DOMAIN groups :
             groups'[g].kind = groups[g].kind /\ (Live(g)' => Live(g))
    BY <1>0, <2>2, EndedKeeps
  <2>4. CommandsLeaveNothing'
    BY <2>1, <2>3 DEF ProcessInv, CommandsLeaveNothing, Supervised
  <2> QED
    BY <1>0, <2>1, <2>2, <2>3, <2>4 DEF ProcessInv, ProcessTypes, InHand
<1>7. CASE HookEnds
  <2>1. job.stage \in {"closing", "killed"} /\ job.kind = "hook"
    BY <1>7 DEF HookEnds, ProcessInv
  <2>2. PICK stage \in {"done", "failed"} : Stage(stage)
    BY <1>7 DEF HookEnds
  <2>3. /\ job' \in Job /\ job' # NoJob
        /\ job'.group = job.group /\ job'.kind = job.kind /\ job'.stage = stage
    BY <1>0, <2>1, <2>2, Staged
  <2>4. UNCHANGED <<groups, harness>>
    BY <1>7 DEF HookEnds
  <2>5. CommandsLeaveNothing'
    BY <1>0, <2>1, <2>3, <2>4
       DEF ProcessInv, ProcessTypes, CommandsLeaveNothing, Supervised, Live, Leads
  <2> QED
    BY <1>0, <2>1, <2>3, <2>4, <2>5 DEF ProcessInv, ProcessTypes, InHand
<1> QED
  BY <1>1, <1>2, <1>3, <1>4, <1>5, <1>6, <1>7 DEF Supervises

(* Dropping the turn where it awaits ends what it supervised.               *)
LEMMA DropKeeps ==
    ASSUME ProcessInv, Drops, job.stage # "born"
    PROVE  ProcessInv' /\ job' = NoJob /\ Len(groups') = Len(groups)
<1>1. job' = NoJob /\ UNCHANGED harness
  BY DEF Drops
<1>2. CASE job.stage \in InHand
  <2>1. job # NoJob /\ DropsTheJob /\ ProcessTypes
    BY <1>2 DEF Drops, InHand, ProcessInv, NoJob
  <2>2. /\ groups' \in Seq(Group) /\ DOMAIN groups' = DOMAIN groups
        /\ \A g \in DOMAIN groups :
             /\ groups'[g].kind = groups[g].kind /\ (Live(g)' => Live(g))
             /\ g = job.group /\ job.kind = "command" => ~Live(g)'
    BY <2>1, JobDropped
  <2>3. CommandsLeaveNothing'
    BY <2>1, <2>2 DEF ProcessInv, ProcessTypes, CommandsLeaveNothing, Supervised
  <2>4. Len(groups') = Len(groups)
    BY <2>1, <2>2 DEF ProcessTypes
  <2> QED
    BY <1>1, <2>2, <2>3, <2>4 DEF ProcessInv, ProcessTypes, NoJob, InHand
<1>3. CASE job.stage \notin InHand
  <2>1. UNCHANGED <<groups, notes>>
    BY <1>3 DEF Drops, InHand
  <2>2. CommandsLeaveNothing'
    BY <1>3, <2>1 DEF ProcessInv, CommandsLeaveNothing, Supervised, Live, Leads, InHand
  <2> QED
    BY <1>1, <2>1, <2>2 DEF ProcessInv, ProcessTypes, NoJob, InHand
<1> QED
  BY <1>2, <1>3

LEMMA StartKeeps ==
    ASSUME ProcessInv, job = NoJob, NEW kind \in {"command", "hook"}, Start(kind)
    PROVE  ProcessInv' /\ job'.kind = kind /\ job'.stage = "born"
<1>1. groups' = Append(groups, Started(kind)) /\ Started(kind) \in Group
  BY DEF Start, Started, Group
<1>2. job' = [kind |-> kind, group |-> Len(groups) + 1, stage |-> "born"]
  BY DEF Start
<1>3. UNCHANGED <<notes, harness>>
  BY DEF Start
<1>4. groups \in Seq(Group) /\ Len(groups) \in Nat
  BY DEF ProcessInv, ProcessTypes
<1>5. /\ groups' \in Seq(Group) /\ DOMAIN groups' = 1 .. Len(groups) + 1
      /\ \A g \in DOMAIN groups : groups'[g] = groups[g]
      /\ groups'[Len(groups) + 1] = Started(kind)
  BY <1>1, <1>4
<1>6. job' \in Job /\ job' # NoJob
  BY <1>2, <1>4 DEF Job, NoJob
<1>7. ProcessTypes'
  BY <1>2, <1>4, <1>5, <1>6 DEF ProcessTypes, Started
<1>8. CommandsLeaveNothing'
  <2> SUFFICES ASSUME NEW g \in DOMAIN groups', groups'[g].kind = "command", Live(g)'
               PROVE  Supervised(g)'
    BY DEF CommandsLeaveNothing
  <2>1. CASE g \in DOMAIN groups
    <3>1. groups[g].kind = "command" /\ Live(g)
      BY <1>5, <2>1 DEF Live, Leads
    <3>2. ~Supervised(g)
      BY DEF Supervised, NoJob
    <3> QED
      BY <2>1, <3>1, <3>2 DEF ProcessInv, CommandsLeaveNothing
  <2>2. CASE g \notin DOMAIN groups
    <3>1. g = Len(groups) + 1
      BY <1>4, <1>5, <2>2
    <3> QED
      BY <1>2, <3>1 DEF Supervised
  <2> QED
    BY <2>1, <2>2
<1> QED
  BY <1>2, <1>3, <1>7, <1>8 DEF ProcessInv, InHand

-----------------------------------------------------------------------------
(* The turn.                                                               *)

\* Where the session is says what can be in hand; nothing is being born once
\* the signal was given; a call that runs was decided on.
TurnInv ==
    /\ ProcessInv
    /\ cancel \in BOOLEAN /\ hooks \subseteq {"pre", "post"}
    /\ at = "tool" => job.kind = "command"
    /\ at \in {"pre", "post"} => job.kind \in {"none", "hook"}
    /\ at \notin {"pre", "tool", "post"} => job = NoJob
    /\ cancel => job.stage # "born"
    /\ at = "run" /\ NeedsConsent(call) => granted = Executed(call)

LEMMA TurnInit == Init => TurnInv
<1> SUFFICES ASSUME Init
             PROVE  TurnInv
  OBVIOUS
<1>1. groups = <<>> /\ job = NoJob
  BY DEF Init, ProcessesInit
<1>2. ProcessTypes
  BY <1>1 DEF ProcessTypes
<1>3. CommandsLeaveNothing
  BY <1>1 DEF CommandsLeaveNothing
<1> QED
  BY <1>1, <1>2, <1>3 DEF Init, TurnInv, ProcessInv, NoJob, InHand

(* A step that leaves the processes alone leaves what is true of them.  *)
LEMMA ProcessesKept == ProcessInv /\ UNCHANGED processes => ProcessInv'
  BY DEF processes, ProcessInv, ProcessTypes, CommandsLeaveNothing, Supervised, Live, Leads

(* A job that is over is put away.                                         *)
LEMMA JobPutAway ==
    ASSUME ProcessInv, job.stage \notin InHand \cup {"born"}, job' = NoJob,
           UNCHANGED <<groups, notes, harness>>
    PROVE  ProcessInv'
  BY DEF ProcessInv, ProcessTypes, CommandsLeaveNothing, Supervised, Live, Leads, NoJob, InHand

(* Supervising goes on with a job there is, of the same kind.               *)
LEMMA SupervisesAJob ==
    ASSUME ProcessInv, Supervises
    PROVE  /\ job # NoJob /\ job'.kind = job.kind /\ job'.stage # "born"
           /\ Len(groups') = Len(groups)
<1>1. job.stage \in {"born"} \cup InHand
  BY DEF Supervises, Tracks, Reaps, Completes, CommandTimesOut, HookIsRead, HookTimesOut,
         HookEnds, InHand
<1>2. ProcessTypes /\ job # NoJob
  BY <1>1 DEF ProcessInv, NoJob, InHand
<1>3. PICK stage \in {"done", "failed"} \cup InHand : Stage(stage)
  BY DEF Supervises, Tracks, Reaps, Completes, CommandTimesOut, HookIsRead, HookTimesOut,
         HookEnds, InHand
<1>4. job'.kind = job.kind /\ job'.stage # "born"
  BY <1>2, <1>3, Staged DEF InHand
<1>5. CASE TerminateGroup({job.group})
  <2>1. groups' \in Seq(Group) /\ DOMAIN groups' = DOMAIN groups
    BY <1>2, <1>5, EndedKeeps
  <2> QED
    BY <1>2, <1>4, <2>1 DEF ProcessTypes
<1>6. CASE DropsTheJob
  <2>1. groups' \in Seq(Group) /\ DOMAIN groups' = DOMAIN groups
    BY <1>2, <1>6, JobDropped
  <2> QED
    BY <1>2, <1>4, <2>1 DEF ProcessTypes
<1>7. CASE UNCHANGED groups
  BY <1>2, <1>4, <1>7
<1> QED
  BY <1>5, <1>6, <1>7
     DEF Supervises, Tracks, Reaps, Completes, CommandTimesOut, HookIsRead, HookTimesOut,
         HookEnds

(* Between calls, and before and after one, there is nothing in hand.      *)
LEMMA CallsKeep == TurnInv /\ Calls => TurnInv'
<1> SUFFICES ASSUME TurnInv, Calls
             PROVE  TurnInv'
  OBVIOUS
<1>1. CASE NextTurn \/ CallsTool \/ Stops \/ SkipsHook \/ Refuses
  <2>1. UNCHANGED <<hooks, cancel, processes>>
    BY <1>1 DEF NextTurn, CallsTool, Stops, SkipsHook, Refuses
  <2>2. job = NoJob /\ at' \in {"model", "pre", "after", "gate", "next", "post"}
    BY <1>1 DEF NextTurn, CallsTool, Stops, SkipsHook, Refuses, TurnInv, Goes, TurnIsOver,
                Answered
  <2> QED
    BY <2>1, <2>2, ProcessesKept DEF TurnInv, NoJob, processes
<1>2. CASE FiresHook
  <2>1. job = NoJob /\ Start("hook") /\ at \in {"pre", "post"} /\ ~cancel
    BY <1>2 DEF FiresHook, TurnInv, Polled
  <2>2. ProcessInv' /\ job'.kind = "hook"
    BY <2>1, StartKeeps DEF TurnInv
  <2> QED
    BY <1>2, <2>1, <2>2 DEF FiresHook, TurnInv
<1>3. CASE HookAnswered \/ ToolReturns
  <2>1. /\ job' = NoJob /\ job.stage \in {"done", "failed"}
        /\ UNCHANGED <<hooks, cancel, groups, notes, harness>>
        /\ at' \in {"gate", "next", "post"}
    BY <1>3 DEF HookAnswered, ToolReturns, Goes, Answered
  <2> QED
    BY <2>1, JobPutAway DEF TurnInv, NoJob, InHand
<1>4. CASE PassesGate
  <2>1. /\ job = NoJob /\ UNCHANGED <<hooks, call, cancel, processes>>
        /\ at' \in {"run", "ask", "next"}
        /\ at' = "run" => Verdict(call.tool) = "allow"
    BY <1>4 DEF PassesGate, TurnInv, Goes, Answered
  <2>2. at' = "run" => ~NeedsConsent(call)
    BY <2>1 DEF Verdict, NeedsConsent
  <2> QED
    BY <2>1, <2>2, ProcessesKept DEF TurnInv, NeedsConsent, processes
<1>5. CASE Executes
  <2>1. at = "run" /\ job = NoJob /\ ~cancel /\ UNCHANGED <<hooks, cancel>>
    BY <1>5 DEF Executes, TurnInv, Polled
  <2>2. CASE Start("command") /\ at' = "tool"
    <3>1. ProcessInv' /\ job'.kind = "command"
      BY <2>1, <2>2, StartKeeps DEF TurnInv
    <3> QED
      BY <2>1, <2>2, <3>1 DEF TurnInv
  <2>3. CASE UNCHANGED processes /\ at' = "post"
    BY <2>1, <2>3, ProcessesKept DEF TurnInv, NoJob, processes
  <2> QED
    BY <1>5, <2>2, <2>3 DEF Executes, Goes
<1>6. CASE Cancelled
  <2>1. ProcessInv' /\ job' = NoJob
    BY <1>6, DropKeeps DEF Cancelled, TurnInv
  <2> QED
    BY <1>6, <2>1 DEF Cancelled, TurnIsOver, Goes, TurnInv, NoJob
<1> QED
  BY <1>1, <1>2, <1>3, <1>4, <1>5, <1>6 DEF Calls

LEMMA KeyboardKeeps ==
    TurnInv /\ (Presses \/ Steers \/ Answers \/ SurfaceBreaks \/ Prompts \/ TakesFollowUp)
        => TurnInv'
<1> SUFFICES ASSUME TurnInv,
                    Presses \/ Steers \/ Answers \/ SurfaceBreaks \/ Prompts \/ TakesFollowUp
             PROVE  TurnInv'
  OBVIOUS
<1>1. CASE Presses
  BY <1>1, ProcessesKept DEF Presses, history, TurnInv, processes
<1>2. MaySteer => job.stage # "born"
  BY DEF MaySteer, TurnAwaits, TurnInv, NoJob
<1>3. CASE Steers
  BY <1>2, <1>3, ProcessesKept DEF Steers, history, TurnInv, processes
<1>4. CASE Answers
  <2>1. /\ job = NoJob /\ UNCHANGED <<hooks, call, cancel, processes>>
        /\ at' \in {"run", "ask", "next"}
        /\ at' = "run" => granted' = Inspected(call)
    BY <1>4 DEF Answers, TurnInv, Goes, Answered
  <2> QED
    BY <2>1, ProcessesKept DEF TurnInv, NeedsConsent, Inspected, Executed, processes
<1>5. CASE SurfaceBreaks
  <2>1. Drops /\ at' = "after" /\ UNCHANGED <<hooks, cancel>>
    BY <1>5 DEF SurfaceBreaks, TurnIsOver, Goes
  <2>2. job.stage # "born"
    BY <1>2, <1>5 DEF SurfaceBreaks, TurnInv, NoJob
  <2>3. ProcessInv' /\ job' = NoJob
    BY <2>1, <2>2, DropKeeps DEF TurnInv
  <2> QED
    BY <2>1, <2>3 DEF TurnInv, NoJob
<1>6. CASE Prompts \/ TakesFollowUp
  <2>1. /\ job = NoJob /\ UNCHANGED <<hooks, processes>>
        /\ at' \in {"prompt", "next"} /\ cancel' \in {cancel, FALSE}
    BY <1>6 DEF Prompts, TakesFollowUp, Submitted, Goes, TurnInv
  <2> QED
    BY <2>1, ProcessesKept DEF TurnInv, NoJob, processes
<1> QED
  BY <1>1, <1>3, <1>4, <1>5, <1>6

LEMMA TurnNext == TurnInv /\ [Next]_vars => TurnInv'
<1> SUFFICES ASSUME TurnInv, [Next]_vars
             PROVE  TurnInv'
  OBVIOUS
<1>1. CASE (World \/ Sweeps) /\ Outside
  <2>1. ProcessInv' /\ UNCHANGED job
    BY <1>1, WorldKeeps, SweepKeeps DEF World, Sweeps, TurnInv
  <2> QED
    BY <1>1, <2>1 DEF Outside, history, TurnInv
<1>2. CASE Supervises /\ Outside
  <2>1. ProcessInv' /\ job # NoJob /\ job'.kind = job.kind /\ job'.stage # "born"
    BY <1>2, SuperviseKeeps, SupervisesAJob DEF TurnInv
  <2> QED
    BY <1>2, <2>1 DEF Outside, history, TurnInv
<1>3. CASE UNCHANGED vars
  BY <1>3, ProcessesKept DEF vars, history, TurnInv, processes
<1> QED
  BY <1>1, <1>2, <1>3, CallsKeep, KeyboardKeeps DEF Next

LEMMA TurnInvHolds == Spec => []TurnInv
  BY TurnInit, TurnNext, PTL DEF Spec

(* Whatever the programs do and however the turn ends, a command that is   *)
(* no longer supervised has nobody left in its group.                      *)
THEOREM NothingIsLeft == Spec => []CommandsLeaveNothing
<1>1. TurnInv => CommandsLeaveNothing
  BY DEF TurnInv, ProcessInv
<1> QED
  BY <1>1, TurnInvHolds, PTL

(* Until the signal is answered, what lives is in the registry it sweeps.   *)
THEOREM TheLivingAreNoted == Spec => []LiveGroupsAreNoted
<1>1. TurnInv => LiveGroupsAreNoted
  <2> SUFFICES ASSUME TurnInv, harness = "up", NEW g \in DOMAIN groups, Live(g)
               PROVE  \/ g \in notes
                      \/ job.group = g /\ job.stage = "born"
                      \/ ~Supervised(g) /\ groups[g].kind = "hook"
    BY DEF LiveGroupsAreNoted
  <2>1. groups[g].kind \in {"command", "hook"}
    <3>1. groups \in Seq(Group)
      BY DEF TurnInv, ProcessInv, ProcessTypes
    <3>2. groups[g] \in Group
      BY <3>1
    <3> QED
      BY <3>2 DEF Group
  <2>2. groups[g].kind = "command" => Supervised(g)
    BY DEF TurnInv, ProcessInv, CommandsLeaveNothing
  <2> QED
    BY <2>1, <2>2 DEF Supervised, TurnInv, ProcessInv, InHand
<1> QED
  BY <1>1, TurnInvHolds, PTL

(* A call that needs consent runs as it was shown to whoever said yes.      *)
THEOREM ConsentIsKept == Spec => ConsentIsForTheCall
<1>1. TurnInv /\ [Next]_vars => [ran' # ran /\ NeedsConsent(ran') => granted = ran']_vars
  <2> SUFFICES ASSUME TurnInv, Next, ran' # ran, NeedsConsent(ran')
               PROVE  granted = ran'
    OBVIOUS
  <2>1. Executes
    BY DEF Next, Calls, NextTurn, CallsTool, Stops, FiresHook, SkipsHook, HookAnswered,
           PassesGate, Refuses, ToolReturns, Cancelled, Steers, Answers, SurfaceBreaks,
           Prompts, TakesFollowUp, Presses, Outside, history
  <2>2. ran' = Executed(call) /\ at = "run"
    BY <2>1 DEF Executes
  <2>3. NeedsConsent(call)
    BY <2>2 DEF NeedsConsent, Executed, Coerced
  <2> QED
    BY <2>2, <2>3 DEF TurnInv
<1> QED
  BY <1>1, TurnInvHolds, PTL DEF Spec, ConsentIsForTheCall

(* Once the signal is given no tool and no process starts.                 *)
THEOREM NothingStartsCancelled == Spec => CancelStartsNothing
<1>1. TurnInv /\ [Next]_vars => [cancel => ran' = ran /\ Len(groups') = Len(groups)]_vars
  <2> SUFFICES ASSUME TurnInv, Next, cancel
               PROVE  ran' = ran /\ Len(groups') = Len(groups)
    OBVIOUS
  <2>1. CASE Cancelled \/ SurfaceBreaks
    <3>1. Drops /\ job.stage # "born" /\ UNCHANGED ran
      BY <2>1 DEF Cancelled, SurfaceBreaks, history, TurnInv
    <3> QED
      BY <3>1, DropKeeps DEF TurnInv
  <2>2. CASE Supervises /\ Outside
    BY <2>2, SupervisesAJob DEF Outside, history, TurnInv
  <2>3. CASE World /\ Outside
    <3>1. PICK g \in DOMAIN groups :
             \/ Forks(g) \/ ClosesOutput(g) \/ LeaderExits(g)
             \/ KinExits(g) \/ FarExits(g) \/ KinLeaves(g)
      BY <2>3 DEF World
    <3>2. groups \in Seq(Group) /\ groups' \in Seq(Group) /\ DOMAIN groups' = DOMAIN groups
      BY <3>1, WorldStep DEF TurnInv, ProcessInv, ProcessTypes
    <3> QED
      BY <2>3, <3>2 DEF Outside, history
  <2>4. CASE Sweeps /\ Outside
    <3>1. groups \in Seq(Group) /\ groups' \in Seq(Group) /\ DOMAIN groups' = DOMAIN groups
      BY <2>4, Kept DEF Sweeps, TurnInv, ProcessInv, ProcessTypes
    <3> QED
      BY <2>4, <3>1 DEF Outside, history
  <2>5. CASE Presses \/ Steers \/ Answers \/ Prompts \/ TakesFollowUp
    BY <2>5 DEF Presses, Steers, Answers, Prompts, TakesFollowUp, history, processes
  <2>6. CASE Calls /\ ~Cancelled
    BY <2>6 DEF Calls, NextTurn, CallsTool, Stops, FiresHook, SkipsHook, HookAnswered,
                PassesGate, Refuses, Executes, ToolReturns, Polled
  <2> QED
    BY <2>1, <2>2, <2>3, <2>4, <2>5, <2>6 DEF Next
<1> QED
  BY <1>1, TurnInvHolds, PTL DEF Spec, CancelStartsNothing
=============================================================================
