--------------------------- MODULE WorkspaceProofs ---------------------------
(***************************************************************************)
(* What holds of any number of processes in one workspace, and the files   *)
(* they share: starts sign with one key, run only what was agreed to, pin  *)
(* one definition of each tool and judge models by the catalog they read;  *)
(* and a session file keeps what was said, in one conversation, and loses  *)
(* to a crash one record at most.                                          *)
(***************************************************************************)
EXTENDS Startup, SessionStore, Facts

-----------------------------------------------------------------------------
(* The key.                                                                *)

\* Who is making the key found no file, and nobody else makes one until a key
\* is there; a key in use is the one in the file.
KeyInv ==
    /\ keyFile \in {Absent, Torn} \cup Starts
    /\ keying \in [Starts -> {"no", "absent", "made"}]
    /\ keys \subseteq {keyFile}
    /\ keyFile \notin Starts => keys = {}
    /\ \A p \in Starts : keying[p] = "made" => keyFile = Torn
    /\ \A p, q \in Starts : keying[p] = "made" /\ keying[q] = "made" => p = q

LEMMA KeyInit == Init => KeyInv
  BY DEF Init, KeyInv

(* Taking the key of the file, or failing to, keeps the invariant.         *)
LEMMA KeyTaken ==
    ASSUME NEW p \in Starts, KeyInv, keying[p] # "made",
           TakesTheKey(p), UNCHANGED keyFile
    PROVE  KeyInv'
  BY StartupConstants DEF KeyInv, TakesTheKey, KeyInHand, NoKey

LEMMA KeyNext == KeyInv /\ [Next]_vars => KeyInv'
<1> SUFFICES ASSUME KeyInv, [Next]_vars
             PROVE  KeyInv'
  OBVIOUS
<1>1. ASSUME NEW p \in Starts, ReadsKey(p)
      PROVE  KeyInv'
  <2>1. CASE keyFile = Absent
    BY <1>1, <2>1, StartupConstants DEF ReadsKey, KeyInv
  <2>2. CASE keyFile # Absent
    BY <1>1, <2>2, KeyTaken DEF ReadsKey
  <2> QED
    BY <2>1, <2>2
<1>2. ASSUME NEW p \in Starts, CreatesKey(p)
      PROVE  KeyInv'
  <2>1. CASE keyFile = Absent
    BY <1>2, <2>1, StartupConstants DEF CreatesKey, KeyInv
  <2>2. CASE keyFile # Absent
    BY <1>2, <2>2, KeyTaken DEF CreatesKey
  <2> QED
    BY <2>1, <2>2
<1>3. ASSUME NEW p \in Starts, WritesKey(p)
      PROVE  KeyInv'
  BY <1>3, StartupConstants DEF WritesKey, KeyInHand, NoKey, KeyInv
<1>4. ASSUME NEW p \in Starts, Crashes(p)
      PROVE  KeyInv'
  BY <1>4 DEF Crashes, KeyInv
<1>5. CASE UNCHANGED signing
  BY <1>5 DEF signing, KeyInv
<1>6. ASSUME NEW p \in Starts, Opens(p) \/ StartsAnew(p) \/ Lists(p) \/ Decides(p)
      PROVE  UNCHANGED signing
  <2>1. CASE Opens(p) \/ StartsAnew(p)
    BY <2>1 DEF Opens, StartsAnew
  <2>2. CASE Lists(p)
    BY <2>2 DEF Lists, ReadsCache, Fetches, CutsCache, WritesCache
  <2>3. CASE Decides(p)
    BY <2>3 DEF Decides, Discovers, Declares, Loads, HasNoTools, IsTrusted, IsGranted,
                IsRefused, CutsRegistry, SavesRegistry, Fires, Executes
  <2> QED
    BY <1>6, <2>1, <2>2, <2>3
<1>7. CASE Ticks \/ RepositoryChanges \/ EndpointChanges
  BY <1>5, <1>7 DEF Ticks, RepositoryChanges, EndpointChanges
<1>8. CASE UNCHANGED vars
  BY <1>5, <1>8 DEF vars
<1> QED
  BY <1>1, <1>2, <1>3, <1>4, <1>5, <1>6, <1>7, <1>8 DEF Next, Signs

LEMMA KeyIsOne == KeyInv => OneKey
<1> SUFFICES ASSUME KeyInv
             PROVE  Cardinality(keys) <= 1
  BY DEF OneKey
<1>1. keys = {} \/ keys = {keyFile}
  BY DEF KeyInv
<1>2. Cardinality({}) = 0 /\ Cardinality({keyFile}) = 1
  BY FS_EmptySet, FS_Singleton
<1> QED
  BY <1>1, <1>2

(* However many starts find no key, and whichever of them dies while it    *)
(* makes one, every record of the workspace is signed with the same key.   *)
THEOREM OneKeyIsUsed == Spec => []OneKey
<1>1. Spec => []KeyInv
  BY KeyInit, KeyNext, PTL DEF Spec
<1> QED
  BY <1>1, KeyIsOne, PTL

-----------------------------------------------------------------------------
(* Trust.                                                                  *)

Phases == {"off", "store", "failed", "catalog", "fetch", "cache", "caching", "refused",
           "find", "declare", "load", "decide", "cut", "save", "announce", "fire",
           "session", "dead"}

\* A yes under this name was to something with this fingerprint.
Covers(yes, n, print) == \E y \in yes : y[1] = n /\ Fingerprint(n, y[2]) = print

IsAgreed(n, print) == Covers(agreed, n, print)

\* All that a registry says of hooks and commands was agreed to.
IsSound(r) == \A n \in DOMAIN r : n # "tools" => IsAgreed(n, r[n])

TrustTypes ==
    /\ pc \in [Starts -> Phases]
    /\ repo \in [Names -> Versions]
    /\ round \in [Starts -> DOMAIN Rounds]
    /\ found \in [Starts -> Prints \cup {Unread}]
    /\ declared \in [Starts -> Versions \cup {Unread}]
    /\ registry \in [Starts -> Registries]
    /\ trustFile \in {Absent, Torn} \cup Registries
    /\ running \in [Starts -> SUBSET (Names \X Versions)]

\* The script a start has in mind, unless it changed between two readings, is
\* the one declared, and from the decision on one that was agreed to.
HookIsKept(p) ==
    /\ pc[p] = "declare" =>
          Name(p) = "hook" /\ found[p] = Fingerprint("hook", repo["hook"])
    /\ pc[p] \in {"load", "decide", "cut", "save"} /\ Name(p) = "hook" =>
          found[p] = Fingerprint("hook", declared[p])
    /\ pc[p] \in {"cut", "save", "announce", "fire", "session"} \/ Name(p) # "hook" =>
          found[p] = Unread \/ IsAgreed("hook", found[p])
    /\ pc[p] = "fire" => found[p] # Unread /\ found[p] = Fingerprint("hook", repo["hook"])

\* What is decided on was read; what a start holds, what is on disk and what is
\* kept of the hook say no more than was agreed to.
TrustInv ==
    /\ TrustTypes
    /\ \A p \in Starts :
          pc[p] \in {"load", "decide", "cut", "save"} => declared[p] \in Versions
    /\ trustFile \notin {Absent, Torn} => IsSound(trustFile)
    /\ \A p \in Starts : IsSound(registry[p])
    /\ \A p \in Starts \ swapped : HookIsKept(p)
    /\ RunsWhatWasAgreed

LEMMA NamesOfRounds ==
    /\ DOMAIN Rounds = 1 .. 3 /\ Len(Rounds) = 3
    /\ \A i \in DOMAIN Rounds : Rounds[i] \in Names /\ (Rounds[i] = "hook" <=> i = 1)
    /\ "hook" \in Names
    /\ Nothing \in Registries
    /\ DOMAIN Nothing = {}
<1>1. DOMAIN Rounds = 1 .. 3 /\ Len(Rounds) = 3
  BY DEF Rounds
<1>2. \A i \in DOMAIN Rounds : Rounds[i] \in Names /\ (Rounds[i] = "hook" <=> i = 1)
  BY DEF Names, Range, Rounds
<1>3. Nothing \in [{} -> Prints]
  BY DEF Nothing
<1>4. 1 \in DOMAIN Rounds
  BY <1>1
<1> QED
  BY <1>1, <1>2, <1>3, <1>4 DEF Registries

LEMMA PrintsAre ==
    ASSUME NEW n \in Names, NEW v \in Versions
    PROVE  Fingerprint(n, v) \in Prints
  BY DEF Fingerprint, Versions, Prints

LEMMA TrustInit == Init => TrustInv
<1> SUFFICES ASSUME Init
             PROVE  TrustInv
  OBVIOUS
<1>1. TrustTypes
  BY NamesOfRounds DEF Init, TrustTypes, Phases
<1>2. \A p \in Starts : IsSound(registry[p])
  BY NamesOfRounds DEF Init, IsSound
<1>3. \A p \in Starts : HookIsKept(p)
  BY DEF Init, HookIsKept
<1> QED
  BY <1>1, <1>2, <1>3 DEF Init, TrustInv, RunsWhatWasAgreed

(* Granting what is declared makes a registry.                             *)
LEMMA GrantedIsARegistry ==
    ASSUME TrustTypes, NEW p \in Starts, declared[p] \in Versions
    PROVE  /\ Granted(p) \in Registries
           /\ DOMAIN Granted(p) = DOMAIN registry[p] \cup {Name(p)}
           /\ Granted(p)[Name(p)] = Fingerprint(Name(p), declared[p])
           /\ \A n \in DOMAIN registry[p] \ {Name(p)} : Granted(p)[n] = registry[p][n]
<1>1. Name(p) \in Names
  BY NamesOfRounds DEF TrustTypes, Name
<1>2. PICK d \in SUBSET Names : registry[p] \in [d -> Prints]
  BY DEF TrustTypes, Registries
<1>3. Granted(p) \in [d \cup {Name(p)} -> Prints]
  BY <1>1, <1>2, PrintsAre DEF Granted
<1>4. d \cup {Name(p)} \in SUBSET Names
  BY <1>1
<1>5. Granted(p) \in Registries
  BY <1>3, <1>4 DEF Registries
<1> QED
  BY <1>2, <1>5 DEF Granted

(* What others keep of their hooks, a step of one start leaves to them.    *)
LEMMA OthersKeepTheirs ==
    ASSUME TrustInv, NEW p \in Starts, agreed \subseteq agreed', UNCHANGED <<repo, swapped>>,
           \A q \in Starts \ {p} : /\ pc'[q] = pc[q] /\ round'[q] = round[q]
                                   /\ found'[q] = found[q] /\ declared'[q] = declared[q]
    PROVE  \A q \in Starts \ (swapped \cup {p}) : HookIsKept(q)'
<1> SUFFICES ASSUME NEW q \in Starts \ (swapped \cup {p})
             PROVE  HookIsKept(q)'
  OBVIOUS
<1>1. HookIsKept(q) /\ Name(q)' = Name(q)
  BY DEF TrustInv, Name
<1>2. IsAgreed("hook", found[q]) => IsAgreed("hook", found[q])'
  BY DEF IsAgreed, Covers
<1> QED
  BY <1>1, <1>2 DEF HookIsKept

(* What was agreed to stays agreed to.                                     *)
LEMMA SoundStaysSound ==
    ASSUME agreed \subseteq agreed', NEW r, IsSound(r)
    PROVE  \A n \in DOMAIN r : n # "tools" => IsAgreed(n, r[n])'
  BY DEF IsSound, IsAgreed, Covers

(* After a round that is over comes the next one, or the session; after    *)
(* that of the hook, its first firing.                                     *)
LEMMA NextComes ==
    ASSUME TrustTypes, NEW p \in Starts, NextRound(p)
    PROVE  /\ pc' \in [Starts -> Phases] /\ pc'[p] \in {"find", "session"}
           /\ round' \in [Starts -> DOMAIN Rounds]
           /\ \A q \in Starts \ {p} : pc'[q] = pc[q] /\ round'[q] = round[q]
           /\ pc'[p] = "session" \/ Name(p)' # "hook"
           /\ Name(p) # "hook" => Name(p)' # "hook"
  BY NamesOfRounds DEF NextRound, Goes, TrustTypes, Phases, Name

(* The end of a round keeps the types, and every registry sound.           *)
LEMMA RoundEnds ==
    ASSUME TrustInv, NEW p \in Starts, RoundIsOver(p), UNCHANGED agreed
    PROVE  /\ pc' \in [Starts -> Phases] /\ pc'[p] \in {"find", "announce", "session"}
           /\ round' \in [Starts -> DOMAIN Rounds]
           /\ declared' \in [Starts -> Versions \cup {Unread}]
           /\ registry' \in [Starts -> Registries]
           /\ \A q \in Starts : IsSound(registry[q])'
           /\ \A q \in Starts \ {p} : /\ pc'[q] = pc[q] /\ round'[q] = round[q]
                                      /\ declared'[q] = declared[q] /\ registry'[q] = registry[q]
           /\ pc'[p] \in {"announce", "session"} \/ Name(p)' # "hook"
<1>0. TrustTypes
  BY DEF TrustInv
<1>1. /\ declared' \in [Starts -> Versions \cup {Unread}]
      /\ registry' \in [Starts -> Registries]
      /\ \A q \in Starts \ {p} : declared'[q] = declared[q] /\ registry'[q] = registry[q]
      /\ registry'[p] = Nothing
  BY <1>0, NamesOfRounds DEF RoundIsOver, TrustTypes
<1>2. \A q \in Starts : IsSound(registry[q])'
  BY <1>1, NamesOfRounds DEF TrustInv, IsSound, IsAgreed, Covers
<1>3. CASE Name(p) = "hook" /\ Goes(p, "announce") /\ UNCHANGED round
  BY <1>0, <1>1, <1>2, <1>3 DEF Goes, TrustTypes, Phases
<1>4. CASE NextRound(p)
  BY <1>0, <1>1, <1>2, <1>4, NextComes
<1> QED
  BY <1>3, <1>4 DEF RoundIsOver

(* So a round may end with what is kept of the hook agreed to, or nothing. *)
LEMMA EndsWellKept ==
    ASSUME TrustInv, NEW p \in Starts, RoundIsOver(p),
           UNCHANGED <<agreed, repo, swapped>>,
           running' \in [Starts -> SUBSET (Names \X Versions)], RunsWhatWasAgreed',
           found' \in [Starts -> Prints \cup {Unread}],
           \A q \in Starts \ {p} : found'[q] = found[q],
           p \notin swapped => found'[p] = Unread \/ IsAgreed("hook", found'[p]),
           trustFile' \in {Absent, Torn} \cup Registries,
           trustFile' \notin {Absent, Torn} => IsSound(trustFile')
    PROVE  TrustInv'
<1>0. TrustTypes
  BY DEF TrustInv
<1>1. TrustTypes'
  BY <1>0, RoundEnds DEF TrustTypes
<1>2. \A q \in Starts : pc'[q] \in {"load", "decide", "cut", "save"} => declared'[q] \in Versions
  BY RoundEnds DEF TrustInv
<1>3. \A q \in Starts \ (swapped \cup {p}) : HookIsKept(q)'
  BY RoundEnds, OthersKeepTheirs
<1>4. p \notin swapped => HookIsKept(p)'
  BY RoundEnds DEF HookIsKept, IsAgreed, Covers
<1>5. \A q \in Starts : IsSound(registry[q])'
  BY RoundEnds
<1>6. trustFile' \notin {Absent, Torn} => IsSound(trustFile)'
  BY DEF IsSound, IsAgreed, Covers
<1> QED
  BY <1>1, <1>2, <1>3, <1>4, <1>5, <1>6 DEF TrustInv

(* A start that reads a script, a declaration or the registry.             *)
LEMMA ReadingKeepsTrust ==
    ASSUME TrustInv, NEW p \in Starts, Discovers(p) \/ Declares(p) \/ Loads(p)
    PROVE  TrustInv'
<1>0. TrustTypes /\ "hook" \in Names /\ Name(p) \in Names
  BY NamesOfRounds DEF TrustInv, TrustTypes, Name
<1>1. /\ UNCHANGED <<repo, swapped, agreed, trustFile, running, round>>
      /\ \A q \in Starts \ {p} : /\ pc'[q] = pc[q] /\ found'[q] = found[q]
                                 /\ declared'[q] = declared[q] /\ registry'[q] = registry[q]
  BY <1>0 DEF Discovers, Declares, Loads, Goes, TrustTypes, world
<1>2. \A q \in Starts \ (swapped \cup {p}) : HookIsKept(q)'
  BY <1>1, OthersKeepTheirs
<1>3. RunsWhatWasAgreed' /\ (trustFile' \notin {Absent, Torn} => IsSound(trustFile)')
  BY <1>1 DEF TrustInv, RunsWhatWasAgreed, IsSound, IsAgreed, Covers
<1>4. \A q \in Starts \ {p} : IsSound(registry[q])'
  BY <1>1 DEF TrustInv, IsSound, IsAgreed, Covers
<1>5. Name(p)' = Name(p)
  BY <1>1 DEF Name
<1>6. CASE Discovers(p)
  <2>1. Fingerprint("hook", repo["hook"]) \in Prints
    BY <1>0, PrintsAre DEF TrustTypes
  <2>2. TrustTypes'
    BY <1>0, <1>1, <1>6, <2>1 DEF Discovers, Goes, TrustTypes, Phases
  <2>3. HookIsKept(p)'
    BY <1>0, <1>1, <1>5, <1>6 DEF Discovers, Goes, TrustTypes, HookIsKept
  <2>4. IsSound(registry[p])'
    BY <1>1, <1>6 DEF Discovers, TrustInv, IsSound, IsAgreed, Covers
  <2>5. \A q \in Starts : pc'[q] \in {"load", "decide", "cut", "save"} => declared'[q] \in Versions
    BY <1>0, <1>1, <1>6 DEF Discovers, Goes, TrustTypes, TrustInv
  <2> QED
    BY <1>1, <1>2, <1>3, <1>4, <2>2, <2>3, <2>4, <2>5 DEF TrustInv
<1>7. CASE Declares(p)
  <2>1. repo[Name(p)] \in Versions /\ declared'[p] = repo[Name(p)] /\ pc'[p] = "load"
    BY <1>0, <1>7 DEF Declares, Goes, TrustTypes
  <2>2. TrustTypes'
    BY <1>0, <1>1, <1>7, <2>1 DEF Declares, Goes, TrustTypes, Phases
  <2>3. ASSUME p \notin swapped PROVE HookIsKept(p)'
    <3>1. HookIsKept(p) /\ UNCHANGED <<found, agreed>>
      BY <1>7, <2>3 DEF Declares, TrustInv
    <3>2. CASE Name(p) = "hook"
      BY <1>5, <1>7, <2>1, <3>1, <3>2 DEF Declares, HookIsKept
    <3>3. CASE Name(p) # "hook"
      BY <1>5, <2>1, <3>1, <3>3 DEF HookIsKept, IsAgreed, Covers
    <3> QED
      BY <3>2, <3>3
  <2>4. IsSound(registry[p])'
    BY <1>1, <1>7 DEF Declares, TrustInv, IsSound, IsAgreed, Covers
  <2>5. \A q \in Starts : pc'[q] \in {"load", "decide", "cut", "save"} => declared'[q] \in Versions
    BY <1>1, <2>1 DEF TrustInv
  <2> QED
    BY <1>1, <1>2, <1>3, <1>4, <2>2, <2>3, <2>4, <2>5 DEF TrustInv
<1>8. CASE Loads(p)
  <2>1. /\ pc[p] = "load" /\ pc'[p] = "decide" /\ UNCHANGED <<found, declared>>
        /\ registry'[p] = IF trustFile \in {Absent, Torn} THEN Nothing ELSE trustFile
    BY <1>0, <1>8 DEF Loads, Goes, TrustTypes
  <2>2. TrustTypes'
    BY <1>0, <1>1, <1>8, NamesOfRounds DEF Loads, Goes, TrustTypes, Phases
  <2>3. p \notin swapped => HookIsKept(p)'
    BY <1>1, <1>5, <2>1 DEF HookIsKept, TrustInv, IsAgreed
  <2>4. IsSound(registry[p])'
    BY <1>1, <2>1, NamesOfRounds DEF TrustInv, IsSound, IsAgreed, Covers
  <2>5. \A q \in Starts : pc'[q] \in {"load", "decide", "cut", "save"} => declared'[q] \in Versions
    BY <1>1, <2>1 DEF TrustInv
  <2> QED
    BY <1>1, <1>2, <1>3, <1>4, <2>2, <2>3, <2>4, <2>5 DEF TrustInv
<1> QED
  BY <1>6, <1>7, <1>8

(* What a decision lets run at once was agreed to.                         *)
LEMMA LettingRunIsAgreed ==
    ASSUME TrustInv, NEW p \in Starts, LetsRun(p), declared[p] \in Versions,
           agreed \subseteq agreed', UNCHANGED swapped,
           Name(p) # "tools" => Covers(agreed', Name(p), Fingerprint(Name(p), declared[p]))
    PROVE  RunsWhatWasAgreed' /\ running' \in [Starts -> SUBSET (Names \X Versions)]
<1>0. Name(p) \in Names
  BY NamesOfRounds DEF TrustInv, TrustTypes, Name
<1>1. running' \in [Starts -> SUBSET (Names \X Versions)]
  BY <1>0 DEF LetsRun, Runs, TrustInv, TrustTypes
<1>2. \A q \in Starts : \A x \in running'[q] :
          x \in running[q] \/ (q = p /\ x = <<Name(p), declared[p]>>)
  BY DEF LetsRun, Runs, TrustInv, TrustTypes
<1>3. Name(p) # "tools" =>
          \E y \in agreed' : /\ y[1] = Name(p)
                             /\ Fingerprint(Name(p), y[2]) = Fingerprint(Name(p), declared[p])
  BY DEF Covers
<1>4. ASSUME NEW q \in Starts, NEW x \in running'[q]
      PROVE  \/ x[1] = "tools"
             \/ x[1] = "hook" /\ q \in swapped
             \/ \E y \in agreed' : y[1] = x[1] /\ Fingerprint(x[1], y[2]) = Fingerprint(x[1], x[2])
  <2>1. CASE x \in running[q]
    BY <2>1 DEF TrustInv, RunsWhatWasAgreed
  <2>2. CASE x = <<Name(p), declared[p]>>
    BY <1>3, <2>2
  <2> QED
    BY <1>2, <1>4, <2>1, <2>2
<1>5. RunsWhatWasAgreed'
  BY <1>4 DEF RunsWhatWasAgreed
<1> QED
  BY <1>1, <1>5

(* A grant is agreed to, unless it is the first of the tools.              *)
LEMMA GrantKeepsTrust ==
    ASSUME TrustInv, NEW p \in Starts, IsGranted(p)
    PROVE  TrustInv'
<1>0. TrustTypes /\ declared[p] \in Versions
  BY DEF IsGranted, TrustInv
<1>1. /\ registry' = [registry EXCEPT ![p] = Granted(p)]
      /\ LetsRun(p) /\ pc[p] = "decide" /\ pc' = [pc EXCEPT ![p] = "cut"]
      /\ agreed \subseteq agreed'
      /\ Name(p) # "tools" => <<Name(p), declared[p]>> \in agreed'
      /\ UNCHANGED <<repo, swapped, trustFile, round, found, declared>>
  BY DEF IsGranted, PinsFirst, Goes, world
<1>2. Name(p) # "tools" => Covers(agreed', Name(p), Fingerprint(Name(p), declared[p]))
  BY <1>1 DEF Covers
<1>3. RunsWhatWasAgreed' /\ running' \in [Starts -> SUBSET (Names \X Versions)]
  BY <1>0, <1>1, <1>2, LettingRunIsAgreed
<1>4. TrustTypes'
  BY <1>0, <1>1, <1>3, GrantedIsARegistry DEF TrustTypes, Phases
<1>5. IsSound(registry[p])'
  <2>1. registry'[p] = Granted(p)
    BY <1>0, <1>1 DEF TrustTypes
  <2>2. ASSUME NEW n \in DOMAIN Granted(p), n # "tools"
        PROVE  Covers(agreed', n, Granted(p)[n])
    <3>1. CASE n = Name(p)
      BY <1>0, <1>2, <2>2, <3>1, GrantedIsARegistry
    <3>2. CASE n # Name(p)
      <4>1. n \in DOMAIN registry[p] /\ Granted(p)[n] = registry[p][n]
        BY <1>0, <2>2, <3>2, GrantedIsARegistry
      <4>2. Covers(agreed, n, registry[p][n])
        BY <2>2, <4>1 DEF TrustInv, IsSound, IsAgreed, Covers
      <4> QED
        BY <1>1, <4>1, <4>2 DEF Covers
    <3> QED
      BY <3>1, <3>2
  <2> QED
    BY <2>1, <2>2 DEF IsSound, IsAgreed, Covers
<1>6. \A q \in Starts \ {p} : IsSound(registry[q])'
  BY <1>0, <1>1 DEF TrustInv, TrustTypes, IsSound, IsAgreed, Covers
<1>7. trustFile' \notin {Absent, Torn} => IsSound(trustFile)'
  BY <1>1 DEF TrustInv, IsSound, IsAgreed, Covers
<1>8. \A q \in Starts \ (swapped \cup {p}) : HookIsKept(q)'
  BY <1>0, <1>1, OthersKeepTheirs DEF TrustTypes
<1>9. ASSUME p \notin swapped PROVE HookIsKept(p)'
  <2>1. HookIsKept(p) /\ Name(p)' = Name(p) /\ pc'[p] = "cut"
    BY <1>0, <1>1, <1>9 DEF TrustInv, TrustTypes, Name
  <2>2. CASE Name(p) = "hook"
    BY <1>1, <1>2, <2>1, <2>2 DEF HookIsKept, IsAgreed, Covers
  <2>3. CASE Name(p) # "hook"
    BY <1>1, <2>1, <2>3 DEF HookIsKept, IsAgreed, Covers
  <2> QED
    BY <2>2, <2>3
<1>10. \A q \in Starts : pc'[q] \in {"load", "decide", "cut", "save"} => declared'[q] \in Versions
  BY <1>0, <1>1 DEF TrustInv, TrustTypes
<1> QED
  BY <1>1, <1>3, <1>4, <1>5, <1>6, <1>7, <1>8, <1>9, <1>10 DEF TrustInv

(* Firing checks the script, and what is there when it runs is as it was    *)
(* agreed to, unless it changed since.                                     *)
LEMMA FiringKeepsTrust ==
    ASSUME TrustInv, NEW p \in Starts, Fires(p) \/ Executes(p)
    PROVE  TrustInv'
<1>0. TrustTypes /\ "hook" \in Names /\ repo["hook"] \in Versions
  BY NamesOfRounds DEF TrustInv, TrustTypes
<1>1. /\ UNCHANGED <<repo, swapped, agreed, trustFile, found, declared, registry>>
      /\ pc[p] \in {"announce", "session", "fire"}
  BY DEF Fires, Executes, world
<1>2. \/ pc' = [pc EXCEPT ![p] = "fire"] /\ UNCHANGED round /\ IsUnchanged(p)
      \/ NextRound(p)
  BY DEF Fires, Executes, Goes
<1>3. /\ pc' \in [Starts -> Phases] /\ pc'[p] \in {"fire", "find", "session"}
      /\ round' \in [Starts -> DOMAIN Rounds]
      /\ \A q \in Starts \ {p} : pc'[q] = pc[q] /\ round'[q] = round[q]
      /\ pc'[p] = "fire" => IsUnchanged(p)
      /\ pc'[p] = "find" => Name(p)' # "hook"
  <2>1. CASE NextRound(p)
    BY <1>0, <2>1, NextComes
  <2>2. CASE pc' = [pc EXCEPT ![p] = "fire"] /\ UNCHANGED round /\ IsUnchanged(p)
    BY <1>0, <2>2 DEF TrustTypes, Phases
  <2> QED
    BY <1>2, <2>1, <2>2
<1>4. \A q \in Starts \ (swapped \cup {p}) : HookIsKept(q)'
  BY <1>1, <1>3, OthersKeepTheirs
<1>5. p \notin swapped => found[p] = Unread \/ IsAgreed("hook", found[p])
  BY <1>1 DEF TrustInv, HookIsKept
<1>6. p \notin swapped => HookIsKept(p)'
  BY <1>1, <1>3, <1>5 DEF HookIsKept, IsUnchanged, IsAgreed
<1>7. /\ running' \in [Starts -> SUBSET (Names \X Versions)]
      /\ \A q \in Starts : \A x \in running'[q] :
             \/ x \in running[q]
             \/ q = p /\ pc[p] = "fire" /\ x = <<"hook", repo["hook"]>>
  BY <1>0 DEF Fires, Executes, Runs, TrustTypes
<1>8. ASSUME NEW q \in Starts, NEW x \in running'[q]
      PROVE  \/ x[1] = "tools"
             \/ x[1] = "hook" /\ q \in swapped
             \/ \E y \in agreed' : y[1] = x[1] /\ Fingerprint(x[1], y[2]) = Fingerprint(x[1], x[2])
  <2>1. CASE x \in running[q]
    BY <1>1, <2>1 DEF TrustInv, RunsWhatWasAgreed
  <2>2. CASE q = p /\ pc[p] = "fire" /\ x = <<"hook", repo["hook"]>> /\ p \notin swapped
    <3>1. IsAgreed("hook", Fingerprint("hook", repo["hook"]))
      BY <1>5, <2>2 DEF TrustInv, HookIsKept
    <3> QED
      BY <1>1, <2>2, <3>1 DEF IsAgreed, Covers
  <2> QED
    BY <1>7, <1>8, <2>1, <2>2
<1>9. RunsWhatWasAgreed'
  BY <1>1, <1>8 DEF RunsWhatWasAgreed
<1>10. TrustTypes'
  BY <1>0, <1>1, <1>3, <1>7 DEF TrustTypes
<1>11. /\ \A q \in Starts : IsSound(registry[q])'
       /\ trustFile' \notin {Absent, Torn} => IsSound(trustFile)'
       /\ \A q \in Starts : pc'[q] \in {"load", "decide", "cut", "save"} => declared'[q] \in Versions
  BY <1>1, <1>3 DEF TrustInv, IsSound, IsAgreed, Covers
<1> QED
  BY <1>1, <1>4, <1>6, <1>9, <1>10, <1>11 DEF TrustInv

(* What the rest of a start does is nothing to trust.                      *)
LEMMA ElsewhereKeepsTrust ==
    ASSUME TrustInv, NEW p \in Starts, UNCHANGED <<repo, swapped, trusting>>,
           pc' = pc \/ \E x \in Phases \ {"declare", "load", "decide", "cut", "save",
                                          "announce", "fire", "session"} :
                           pc' = [pc EXCEPT ![p] = x]
    PROVE  TrustInv'
<1>1. /\ UNCHANGED <<repo, swapped, trustFile, round, found, declared, registry, running, agreed>>
      /\ pc' \in [Starts -> Phases]
      /\ \A q \in Starts : pc'[q] = pc[q] \/ pc'[q] \notin {"declare", "load", "decide", "cut",
                                                         "save", "announce", "fire", "session"}
  BY DEF trusting, TrustInv, TrustTypes
<1>2. TrustTypes'
  BY <1>1 DEF TrustInv, TrustTypes
<1>3. \A q \in Starts : HookIsKept(q) => HookIsKept(q)'
  BY <1>1 DEF HookIsKept, IsAgreed, Name
<1>4. RunsWhatWasAgreed'
  BY <1>1 DEF TrustInv, RunsWhatWasAgreed
<1> QED
  BY <1>1, <1>2, <1>3, <1>4 DEF TrustInv, IsSound, IsAgreed, Covers

(* A commit changes no decision, and what it does to a script between two   *)
(* readings of it is remembered.                                           *)
LEMMA CommitsKeepTrust ==
    ASSUME TrustInv, RepositoryChanges
    PROVE  TrustInv'
<1>1. PICK n \in Names, v \in Versions :
          /\ repo' = [repo EXCEPT ![n] = v]
          /\ swapped' = swapped \cup {p \in Starts : n = "hook" /\ pc[p] \in {"declare", "fire"}}
  BY DEF RepositoryChanges
<1>2. UNCHANGED <<pc, trustFile, round, found, declared, registry, running, agreed>>
  BY DEF RepositoryChanges, trusting
<1>3. TrustTypes'
  BY <1>1, <1>2 DEF TrustInv, TrustTypes
<1>4. ASSUME NEW q \in Starts \ swapped'
      PROVE  HookIsKept(q)'
  <2>1. HookIsKept(q) /\ Name(q)' = Name(q)
    BY <1>1, <1>2 DEF TrustInv, Name
  <2>2. pc[q] \in {"declare", "fire"} => repo'["hook"] = repo["hook"]
    BY <1>1 DEF TrustInv, TrustTypes
  <2> QED
    BY <1>2, <2>1, <2>2 DEF HookIsKept, IsAgreed, Covers
<1>5. RunsWhatWasAgreed'
  BY <1>1, <1>2 DEF TrustInv, RunsWhatWasAgreed
<1> QED
  BY <1>2, <1>3, <1>4, <1>5 DEF TrustInv, IsSound, IsAgreed, Covers

LEMMA TrustNext == TrustInv /\ [Next]_vars => TrustInv'
<1> SUFFICES ASSUME TrustInv, [Next]_vars
             PROVE  TrustInv'
  OBVIOUS
<1>0. TrustTypes
  BY DEF TrustInv
<1>1. ASSUME NEW p \in Starts, HasNoTools(p) \/ IsRefused(p) \/ IsTrusted(p)
      PROVE  TrustInv'
  <2>1. RoundIsOver(p) /\ UNCHANGED <<repo, swapped, trustFile, agreed>>
    BY <1>1 DEF HasNoTools, IsRefused, IsTrusted, world
  <2>2. /\ found' \in [Starts -> Prints \cup {Unread}]
        /\ \A q \in Starts \ {p} : found'[q] = found[q]
    BY <1>0, <1>1 DEF HasNoTools, IsRefused, IsTrusted, TrustTypes
  <2>3. CASE HasNoTools(p) \/ IsRefused(p)
    <3>1. UNCHANGED running
      BY <2>3 DEF HasNoTools, IsRefused
    <3>2. RunsWhatWasAgreed' /\ running' \in [Starts -> SUBSET (Names \X Versions)]
      BY <1>0, <2>1, <3>1 DEF TrustInv, TrustTypes, RunsWhatWasAgreed
    <3>3. ASSUME p \notin swapped PROVE found'[p] = Unread \/ IsAgreed("hook", found'[p])
      <4>1. found'[p] = Unread \/ (found'[p] = found[p] /\ Name(p) # "hook")
        BY <1>0, <2>3 DEF HasNoTools, IsRefused, TrustTypes
      <4> QED
        BY <3>3, <4>1 DEF TrustInv, HookIsKept
    <3> QED
      BY <2>1, <2>2, <3>2, <3>3, EndsWellKept DEF TrustInv, TrustTypes
  <2>4. CASE IsTrusted(p)
    <3>1. LetsRun(p) /\ declared[p] \in Versions /\ UNCHANGED found /\ pc[p] = "decide"
      BY <2>4 DEF IsTrusted, TrustInv
    <3>2. Name(p) # "tools" => IsAgreed(Name(p), Fingerprint(Name(p), declared[p]))
      BY <2>4 DEF IsTrusted, Trusted, Allows, Knows, TrustInv, IsSound
    <3>3. Name(p) # "tools" => Covers(agreed', Name(p), Fingerprint(Name(p), declared[p]))
      BY <2>1, <3>2 DEF IsAgreed, Covers
    <3>4. RunsWhatWasAgreed' /\ running' \in [Starts -> SUBSET (Names \X Versions)]
      BY <2>1, <3>1, <3>3, LettingRunIsAgreed
    <3>5. ASSUME p \notin swapped PROVE found[p] = Unread \/ IsAgreed("hook", found[p])
      BY <3>1, <3>2, <3>5 DEF TrustInv, HookIsKept
    <3> QED
      BY <2>1, <2>2, <3>1, <3>4, <3>5, EndsWellKept DEF TrustInv, TrustTypes
  <2> QED
    BY <1>1, <2>3, <2>4
<1>2. ASSUME NEW p \in Starts, CutsRegistry(p)
      PROVE  TrustInv'
  <2>1. /\ UNCHANGED <<repo, swapped, found, running, agreed>> /\ pc[p] = "cut"
        /\ RunsWhatWasAgreed'
    BY <1>2 DEF CutsRegistry, TrustInv, RunsWhatWasAgreed, world
  <2>2. CASE RoundIsOver(p) /\ UNCHANGED trustFile
    BY <1>0, <2>1, <2>2, EndsWellKept DEF TrustInv, TrustTypes, HookIsKept
  <2>3. CASE trustFile' = Torn /\ Goes(p, "save") /\ UNCHANGED <<round, declared, registry>>
    <3>1. TrustTypes'
      BY <1>0, <2>1, <2>3 DEF TrustTypes, Goes, Phases
    <3>2. \A q \in Starts \ (swapped \cup {p}) : HookIsKept(q)'
      BY <1>0, <2>1, <2>3, OthersKeepTheirs DEF Goes, TrustTypes
    <3>3. p \notin swapped => HookIsKept(p)'
      BY <1>0, <2>1, <2>3 DEF TrustInv, HookIsKept, Goes, TrustTypes, Name, IsAgreed
    <3>4. /\ \A q \in Starts : IsSound(registry[q])'
          /\ \A q \in Starts : pc'[q] \in {"load", "decide", "cut", "save"} => declared'[q] \in Versions
      BY <1>0, <2>1, <2>3 DEF TrustInv, IsSound, IsAgreed, Goes, TrustTypes
    <3> QED
      BY <2>1, <2>3, <3>1, <3>2, <3>3, <3>4 DEF TrustInv
  <2> QED
    BY <1>2, <2>2, <2>3 DEF CutsRegistry
<1>3. ASSUME NEW p \in Starts, SavesRegistry(p)
      PROVE  TrustInv'
  <2>1. /\ trustFile' = registry[p] /\ RoundIsOver(p) /\ pc[p] = "save"
        /\ UNCHANGED <<repo, swapped, found, running, agreed>>
        /\ RunsWhatWasAgreed'
    BY <1>3 DEF SavesRegistry, TrustInv, RunsWhatWasAgreed, world
  <2>2. IsSound(trustFile') /\ trustFile' \in Registries
    BY <1>0, <2>1 DEF TrustInv, TrustTypes
  <2> QED
    BY <1>0, <2>1, <2>2, EndsWellKept DEF TrustInv, TrustTypes, HookIsKept
<1>4. ASSUME NEW p \in Starts, Opens(p) \/ StartsAnew(p) \/ Signs(p) \/ Lists(p)
      PROVE  TrustInv'
  <2>1. UNCHANGED <<repo, swapped, trusting>>
    BY <1>4 DEF Opens, StartsAnew, Signs, ReadsKey, CreatesKey, WritesKey,
                Lists, ReadsCache, Fetches, CutsCache, WritesCache, world
  <2>2. \/ pc' = pc
        \/ pc' = [pc EXCEPT ![p] = IF pc[p] = "store" THEN "catalog" ELSE pc[p]]
        \/ pc' = [pc EXCEPT ![p] = IF pc[p] = "store" THEN "failed" ELSE pc[p]]
        \/ \E x \in {"store", "catalog", "fetch", "cache", "caching", "refused", "find"} :
               pc' = [pc EXCEPT ![p] = x]
    BY <1>4 DEF Opens, StartsAnew, Signs, ReadsKey, CreatesKey, WritesKey, TakesTheKey,
                KeyInHand, NoKey, Lists, ReadsCache, Fetches, CutsCache, WritesCache, Checks, Goes
  <2>3. \/ pc' = pc
        \/ \E x \in Phases \ {"declare", "load", "decide", "cut", "save",
                              "announce", "fire", "session"} :
               pc' = [pc EXCEPT ![p] = x]
    BY <1>0, <2>2 DEF TrustTypes, Phases
  <2> QED
    BY <2>1, <2>3, ElsewhereKeepsTrust
<1>5. ASSUME NEW p \in Starts, Crashes(p)
      PROVE  TrustInv'
  <2>1. /\ UNCHANGED <<repo, swapped, trustFile, round, running, agreed>>
        /\ pc' = [pc EXCEPT ![p] = "dead"]
        /\ found' = [found EXCEPT ![p] = Unread]
        /\ declared' = [declared EXCEPT ![p] = Unread]
        /\ registry' = [registry EXCEPT ![p] = Nothing]
    BY <1>5 DEF Crashes, Goes, world
  <2>2. TrustTypes'
    BY <1>0, <2>1, NamesOfRounds DEF TrustTypes, Phases
  <2>3. \A q \in Starts \ (swapped \cup {p}) : HookIsKept(q)'
    BY <1>0, <2>1, OthersKeepTheirs DEF TrustTypes
  <2>4. HookIsKept(p)'
    BY <1>0, <2>1 DEF TrustTypes, HookIsKept
  <2>5. \A q \in Starts : IsSound(registry[q])'
    BY <1>0, <2>1, NamesOfRounds DEF TrustInv, TrustTypes, IsSound, IsAgreed, Covers
  <2>6. \A q \in Starts : pc'[q] \in {"load", "decide", "cut", "save"} => declared'[q] \in Versions
    BY <1>0, <2>1 DEF TrustInv, TrustTypes
  <2>7. RunsWhatWasAgreed' /\ (trustFile' \notin {Absent, Torn} => IsSound(trustFile)')
    BY <2>1 DEF TrustInv, RunsWhatWasAgreed, IsSound, IsAgreed, Covers
  <2> QED
    BY <2>1, <2>2, <2>3, <2>4, <2>5, <2>6, <2>7 DEF TrustInv
<1>6. CASE Ticks \/ EndpointChanges \/ UNCHANGED vars
  <2>1. UNCHANGED <<pc, repo, swapped, trusting>>
    BY <1>6 DEF Ticks, EndpointChanges, vars, world
  <2>2. TrustTypes' /\ RunsWhatWasAgreed'
    BY <1>0, <2>1 DEF trusting, TrustTypes, TrustInv, RunsWhatWasAgreed
  <2>3. \A q \in Starts : HookIsKept(q) => HookIsKept(q)'
    BY <2>1 DEF trusting, HookIsKept, IsAgreed, Name
  <2> QED
    BY <2>1, <2>2, <2>3 DEF trusting, TrustInv, IsSound, IsAgreed, Covers
<1> QED
  BY <1>1, <1>2, <1>3, <1>4, <1>5, <1>6, ReadingKeepsTrust, GrantKeepsTrust,
     FiringKeepsTrust, CommitsKeepTrust DEF Next, Decides

(* With any number of starts writing the registry over one another, dying    *)
(* while they do, and a repository that changes meanwhile or is put back: a   *)
(* server runs only with a fingerprint that a user said yes to, and so does  *)
(* a hook, unless its script changed between two readings of it.             *)
THEOREM OnlyTheAgreedRuns == Spec => []RunsWhatWasAgreed
<1>1. Spec => []TrustInv
  BY TrustInit, TrustNext, PTL DEF Spec
<1>2. TrustInv => RunsWhatWasAgreed
  BY DEF TrustInv
<1> QED
  BY <1>1, <1>2, PTL

-----------------------------------------------------------------------------
(* Tools pinned with no question.                                          *)

HasTools(r) == "tools" \in DOMAIN r

\* While every decision reaches the next reader, one start at a time holds a
\* registry, a file that is torn is being written by it, and whoever looks for
\* a definition that was pinned finds it there.
OneHolder == \A p, q \in Starts : Holding(p) /\ Holding(q) => p = q

TornByItsWriter == trustFile = Torn => \E p \in Starts : pc[p] = "save"

PinIsFound ==
    /\ \/ trustFile \in Registries /\ HasTools(trustFile)
       \/ \E p \in Starts : pc[p] \in {"cut", "save"} /\ HasTools(registry[p])
    /\ \A p \in Starts : Holding(p) => HasTools(registry[p])

PinInv ==
    /\ pc \in [Starts -> Phases]
    /\ ~missed => /\ OneHolder /\ TornByItsWriter
                  /\ pinned # {} => PinIsFound
                  /\ \A x, y \in pinned : x = y

LEMMA PinInit == Init => PinInv
  BY StartupConstants
  DEF Init, PinInv, OneHolder, TornByItsWriter, Holding, Phases

(* The next phase of a round that is over is not one that holds.           *)
LEMMA RoundLetsGo ==
    ASSUME TrustTypes, NEW p \in Starts, RoundIsOver(p)
    PROVE  /\ pc' \in [Starts -> Phases] /\ pc'[p] \in {"find", "announce", "session"}
           /\ \A q \in Starts \ {p} : pc'[q] = pc[q] /\ registry'[q] = registry[q]
  BY DEF RoundIsOver, NextRound, Goes, Phases, TrustTypes

(* One that held lets go, with no more pinned and the file as it was.       *)
LEMMA LettingGoKeepsPins ==
    ASSUME TrustInv, PinInv, NEW p \in Starts, RoundIsOver(p), ~missed,
           pc[p] \in {"find", "decide"}, UNCHANGED <<trustFile, pinned, missed>>
    PROVE  PinInv'
<1>1. /\ pc' \in [Starts -> Phases] /\ pc'[p] \in {"find", "announce", "session"}
      /\ \A q \in Starts \ {p} : pc'[q] = pc[q] /\ registry'[q] = registry[q]
  BY RoundLetsGo DEF TrustInv, PinInv
<1>2. OneHolder' /\ TornByItsWriter'
  BY <1>1 DEF PinInv, OneHolder, TornByItsWriter, Holding
<1>3. pinned # {} => PinIsFound'
  BY <1>1 DEF PinInv, PinIsFound, Holding
<1> QED
  BY <1>1, <1>2, <1>3 DEF PinInv

LEMMA PinNext == TrustInv /\ PinInv /\ [Next]_vars => PinInv'
<1> SUFFICES ASSUME TrustInv, PinInv, [Next]_vars
             PROVE  PinInv'
  OBVIOUS
<1>0. TrustTypes /\ pc \in [Starts -> Phases]
  BY DEF TrustInv, TrustTypes
<1>1. ASSUME NEW p \in Starts, Loads(p)
      PROVE  PinInv'
  <2>1. /\ pc[p] = "load" /\ pc' = [pc EXCEPT ![p] = "decide"]
        /\ UNCHANGED <<trustFile, pinned>>
        /\ registry' = [registry EXCEPT ![p] =
                            IF trustFile \in {Absent, Torn} THEN Nothing ELSE trustFile]
        /\ missed' = (missed \/ trustFile = Torn \/ \E q \in Starts \ {p} : Holding(q))
    BY <1>1 DEF Loads, Goes
  <2>2. pc' \in [Starts -> Phases]
    BY <1>0, <2>1 DEF Phases
  <2>3. SUFFICES ASSUME ~missed' PROVE PinInv'
    BY <2>2 DEF PinInv
  <2>4. ~missed /\ trustFile # Torn /\ \A q \in Starts \ {p} : ~Holding(q)
    BY <2>1, <2>3
  <2>5. OneHolder' /\ TornByItsWriter'
    BY <1>0, <2>1, <2>4 DEF OneHolder, TornByItsWriter, Holding
  <2>6. ASSUME pinned # {} PROVE PinIsFound'
    <3>1. trustFile \in Registries /\ HasTools(trustFile)
      BY <2>1, <2>4, <2>6 DEF PinInv, PinIsFound, Holding
    <3>2. registry'[p] = trustFile
      BY <1>0, <2>1, <3>1, RegistryIsAFile DEF TrustTypes
    <3>3. \A q \in Starts \ {p} : ~Holding(q)'
      BY <1>0, <2>1, <2>4 DEF Holding
    <3> QED
      BY <2>1, <3>1, <3>2, <3>3 DEF PinIsFound
  <2> QED
    BY <2>1, <2>2, <2>4, <2>5, <2>6 DEF PinInv
<1>2. ASSUME NEW p \in Starts, HasNoTools(p) \/ IsTrusted(p) \/ IsRefused(p)
      PROVE  PinInv'
  <2>1. /\ RoundIsOver(p) /\ pc[p] \in {"find", "decide"}
        /\ UNCHANGED <<trustFile, pinned, missed>>
    BY <1>2 DEF HasNoTools, IsTrusted, IsRefused
  <2>2. CASE missed
    BY <1>0, <2>1, <2>2, RoundLetsGo DEF PinInv
  <2> QED
    BY <2>1, <2>2, LettingGoKeepsPins
<1>3. ASSUME NEW p \in Starts, IsGranted(p)
      PROVE  PinInv'
  <2>1. /\ pc[p] = "decide" /\ pc' = [pc EXCEPT ![p] = "cut"]
        /\ registry' = [registry EXCEPT ![p] = Granted(p)]
        /\ UNCHANGED <<trustFile, missed>>
    BY <1>3 DEF IsGranted, Goes
  <2>2. pc' \in [Starts -> Phases] /\ registry'[p] = Granted(p) /\ declared[p] \in Versions
    BY <1>0, <2>1 DEF Phases, TrustTypes, TrustInv
  <2>3. SUFFICES ASSUME ~missed PROVE PinInv'
    BY <2>1, <2>2 DEF PinInv
  <2>4. OneHolder' /\ TornByItsWriter'
    <3>1. OneHolder /\ TornByItsWriter
      BY <2>3 DEF PinInv
    <3> QED
      BY <1>0, <2>1, <3>1 DEF OneHolder, TornByItsWriter, Holding
  <2>5. \A q \in Starts \ {p} : ~Holding(q) /\ ~Holding(q)'
    BY <1>0, <2>1, <2>3 DEF PinInv, OneHolder, Holding
  <2>6. HasTools(registry[p]) => HasTools(Granted(p))
    BY <1>0, <2>2, GrantedIsARegistry DEF HasTools
  <2>7. CASE PinsFirst(p) /\ pinned' = pinned \cup {declared[p]}
    <3>1. ~HasTools(registry[p]) /\ HasTools(Granted(p))
      BY <1>0, <2>2, <2>7, GrantedIsARegistry DEF PinsFirst, Knows, HasTools
    <3>2. pinned = {}
      BY <2>1, <2>3, <3>1 DEF PinInv, PinIsFound, Holding
    <3>3. \A x, y \in pinned' : x = y
      BY <2>7, <3>2
    <3>4. PinIsFound'
      BY <1>0, <2>1, <2>2, <2>5, <3>1 DEF PinIsFound, HasTools
    <3> QED
      BY <2>2, <2>4, <3>3, <3>4 DEF PinInv
  <2>8. CASE pinned' = pinned
    <3>1. pinned # {} => HasTools(registry[p])
      BY <2>1, <2>3 DEF PinInv, PinIsFound, Holding
    <3>2. pinned # {} => PinIsFound'
      BY <1>0, <2>1, <2>2, <2>5, <2>6, <3>1 DEF PinIsFound, HasTools
    <3> QED
      BY <2>2, <2>3, <2>4, <2>8, <3>2 DEF PinInv
  <2> QED
    BY <1>3, <2>7, <2>8 DEF IsGranted
<1>4. ASSUME NEW p \in Starts, CutsRegistry(p)
      PROVE  PinInv'
  <2>1. pc[p] = "cut" /\ UNCHANGED pinned
    BY <1>4 DEF CutsRegistry
  <2>2. CASE missed' = TRUE /\ RoundIsOver(p)
    BY <1>0, <2>2, RoundLetsGo DEF PinInv
  <2>3. CASE /\ trustFile' = Torn /\ pc' = [pc EXCEPT ![p] = "save"]
             /\ UNCHANGED <<round, declared, registry, missed>>
    <3>1. pc' \in [Starts -> Phases] /\ pc'[p] = "save"
      BY <1>0, <2>3 DEF Phases
    <3>2. \A q \in Starts : Holding(q)' <=> Holding(q)
      BY <1>0, <2>1, <2>3 DEF Holding
    <3>3. ~missed => OneHolder' /\ TornByItsWriter'
      BY <3>1, <3>2 DEF PinInv, OneHolder, TornByItsWriter
    <3>4. ~missed /\ pinned # {} => PinIsFound'
      BY <2>1, <2>3, <3>1, <3>2 DEF PinInv, PinIsFound, Holding, HasTools
    <3> QED
      BY <2>1, <2>3, <3>1, <3>3, <3>4 DEF PinInv
  <2> QED
    BY <1>4, <2>2, <2>3 DEF CutsRegistry, Goes
<1>5. ASSUME NEW p \in Starts, SavesRegistry(p)
      PROVE  PinInv'
  <2>1. /\ pc[p] = "save" /\ trustFile' = registry[p] /\ RoundIsOver(p)
        /\ UNCHANGED <<pinned, missed>>
    BY <1>5 DEF SavesRegistry
  <2>2. /\ pc' \in [Starts -> Phases] /\ pc'[p] \in {"find", "announce", "session"}
        /\ \A q \in Starts \ {p} : pc'[q] = pc[q] /\ registry'[q] = registry[q]
    BY <1>0, <2>1, RoundLetsGo
  <2>3. trustFile' \in Registries /\ trustFile' # Torn
    BY <1>0, <2>1, RegistryIsAFile DEF TrustTypes
  <2>4. SUFFICES ASSUME ~missed PROVE PinInv'
    BY <2>1, <2>2 DEF PinInv
  <2>5. \A q \in Starts : ~Holding(q)'
    BY <2>1, <2>2, <2>4 DEF PinInv, OneHolder, Holding
  <2>6. pinned # {} => PinIsFound'
    BY <2>1, <2>3, <2>4, <2>5 DEF PinInv, PinIsFound, Holding, HasTools
  <2> QED
    BY <2>1, <2>2, <2>3, <2>4, <2>5, <2>6 DEF PinInv, OneHolder, TornByItsWriter
<1>6. ASSUME NEW p \in Starts, Crashes(p)
      PROVE  PinInv'
  <2>1. /\ pc' = [pc EXCEPT ![p] = "dead"] /\ missed' = (missed \/ Holding(p))
        /\ registry' = [registry EXCEPT ![p] = Nothing]
        /\ UNCHANGED <<trustFile, pinned>>
    BY <1>6 DEF Crashes, Goes
  <2>2. pc' \in [Starts -> Phases]
    BY <1>0, <2>1 DEF Phases
  <2>3. SUFFICES ASSUME ~missed, ~Holding(p) PROVE PinInv'
    BY <2>1, <2>2 DEF PinInv
  <2>4. \A q \in Starts : /\ Holding(q)' <=> Holding(q)
                          /\ Holding(q) => pc'[q] = pc[q] /\ registry'[q] = registry[q]
    BY <1>0, <2>1, <2>3 DEF Holding, TrustTypes
  <2>5. OneHolder' /\ TornByItsWriter'
    BY <2>1, <2>3, <2>4 DEF PinInv, OneHolder, TornByItsWriter, Holding
  <2>6. pinned # {} => PinIsFound'
    BY <2>1, <2>3, <2>4 DEF PinInv, PinIsFound, Holding, HasTools
  <2> QED
    BY <2>1, <2>2, <2>3, <2>5, <2>6 DEF PinInv
<1>7. ASSUME NEW p \in Starts, UNCHANGED <<trustFile, registry, pinned, missed>>, pc' \in [Starts -> Phases],
             \A q \in Starts \ {p} : pc'[q] = pc[q],
             ~Holding(p), ~Holding(p)'
      PROVE  PinInv'
  <2>1. \A q \in Starts : (Holding(q)' <=> Holding(q)) /\ (Holding(q) => pc'[q] = pc[q])
    BY <1>7 DEF Holding
  <2>2. ~missed => OneHolder' /\ TornByItsWriter'
    BY <1>7, <2>1 DEF PinInv, OneHolder, TornByItsWriter, Holding
  <2>3. ~missed /\ pinned # {} => PinIsFound'
    BY <1>7, <2>1 DEF PinInv, PinIsFound, Holding, HasTools
  <2> QED
    BY <1>7, <2>2, <2>3 DEF PinInv
<1>8. ASSUME NEW p \in Starts, Opens(p) \/ StartsAnew(p) \/ Signs(p) \/ Lists(p)
      PROVE  PinInv'
  <2>1. CASE Opens(p) \/ StartsAnew(p)
    BY <1>0, <1>7, <2>1 DEF Opens, StartsAnew, Goes, Phases, Holding, trusting
  <2>2. CASE Signs(p)
    <3>1. UNCHANGED trusting
      BY <2>2 DEF Signs, ReadsKey, CreatesKey, WritesKey
    <3>2. \/ UNCHANGED pc
          \/ pc' = [pc EXCEPT ![p] = IF pc[p] = "store" THEN "catalog" ELSE pc[p]]
          \/ pc' = [pc EXCEPT ![p] = IF pc[p] = "store" THEN "failed" ELSE pc[p]]
      BY <2>2 DEF Signs, ReadsKey, CreatesKey, WritesKey, TakesTheKey, KeyInHand, NoKey
    <3>3. CASE pc' = pc
      BY <3>1, <3>3 DEF trusting, PinInv, OneHolder, TornByItsWriter, PinIsFound, Holding, HasTools
    <3>4. CASE pc[p] = "store" /\ \E x \in {"catalog", "failed"} : pc' = [pc EXCEPT ![p] = x]
      BY <1>0, <1>7, <3>1, <3>4 DEF Phases, Holding, trusting
    <3> QED
      BY <1>0, <3>2, <3>3, <3>4
  <2>3. CASE Lists(p)
    <3>1. /\ UNCHANGED trusting /\ pc[p] \in {"catalog", "fetch", "cache", "caching"}
          /\ \E x \in {"fetch", "cache", "caching", "refused", "find"} :
                 pc' = [pc EXCEPT ![p] = x]
      BY <2>3 DEF Lists, ReadsCache, Fetches, CutsCache, WritesCache, Checks, Goes
    <3> QED
      BY <1>0, <1>7, <3>1 DEF Phases, Holding, trusting
  <2> QED
    BY <1>8, <2>1, <2>2, <2>3
<1>9. ASSUME NEW p \in Starts, Discovers(p) \/ Declares(p) \/ Fires(p) \/ Executes(p)
      PROVE  PinInv'
  <2>1. UNCHANGED <<trustFile, registry, pinned, missed>>
    BY <1>9 DEF Discovers, Declares, Fires, Executes
  <2>2. /\ pc[p] \in {"find", "declare", "announce", "session", "fire"}
        /\ \E x \in {"find", "declare", "load", "session", "fire"} : pc' = [pc EXCEPT ![p] = x]
    BY <1>9 DEF Discovers, Declares, Fires, Executes, NextRound, Goes
  <2> QED
    BY <1>0, <1>7, <2>1, <2>2 DEF Phases, Holding
<1>10. CASE Ticks \/ RepositoryChanges \/ EndpointChanges \/ UNCHANGED vars
  <2>1. UNCHANGED <<pc, trusting>>
    BY <1>10 DEF Ticks, RepositoryChanges, EndpointChanges, vars
  <2> QED
    BY <2>1 DEF trusting, PinInv, OneHolder, TornByItsWriter, PinIsFound, Holding, HasTools
<1> QED
  BY <1>1, <1>2, <1>3, <1>4, <1>5, <1>6, <1>8, <1>9, <1>10 DEF Next, Decides

(* As long as each decision reaches the next reader, the starts of a        *)
(* workspace together let one definition of a server's tools through with  *)
(* no question asked: the first.                                           *)
THEOREM OneDefinitionIsPinned == Spec => []OneFirstPin
<1>1. Spec => []TrustInv
  BY TrustInit, TrustNext, PTL DEF Spec
<1>2. Spec => []PinInv
  BY <1>1, PinInit, PinNext, PTL DEF Spec
<1>3. PinInv => OneFirstPin
  <2> SUFFICES ASSUME PinInv, ~missed
               PROVE  Cardinality(pinned) <= 1
    BY DEF OneFirstPin
  <2>1. CASE pinned = {}
    BY <2>1, FS_EmptySet
  <2>2. ASSUME NEW x \in pinned
        PROVE  Cardinality(pinned) <= 1
    <3>1. pinned = {x}
      BY <2>2 DEF PinInv
    <3> QED
      BY <3>1, FS_Singleton
  <2> QED
    BY <2>1, <2>2
<1> QED
  BY <1>2, <1>3, PTL

-----------------------------------------------------------------------------
(* The catalog.                                                            *)

\* The endpoint e served these models at some time from the given one on.
ServedSince(e, models, time) ==
    \E x \in log[e] : x[2] = models /\ x[1] >= time

CatalogTypes ==
    /\ pc \in [Starts -> Phases]
    /\ clock \in Nat
    /\ served \in [Endpoints -> SUBSET Models]
    /\ log \in [Endpoints -> SUBSET (Nat \X SUBSET Models)]
    /\ fetchedAt \in [Starts -> Nat]
    /\ catalog \in [Starts -> {Unread} \cup SUBSET Models]
    /\ cacheFile \in {Absent, Torn} \cup Catalogs
    /\ DOMAIN cfg = Starts /\ DOMAIN steady = Starts
    /\ \A p \in Starts : pc[p] # "off" => cfg[p] \in Invocations
    /\ \A p \in Starts : fetchedAt[p] <= clock

\* What a start has in hand while it lists, and what it may be refused for.
Listing(p) ==
    /\ pc[p] \in {"off", "store", "catalog", "fetch"} => catalog[p] = Unread
    /\ pc[p] \in {"store", "catalog", "fetch"} => steady[p] \subseteq served[cfg[p].base]
    /\ pc[p] \in {"cache", "caching"} =>
          /\ ServedSince(cfg[p].base, catalog[p], fetchedAt[p])
          /\ catalog[p] \in SUBSET Models
          /\ steady[p] \subseteq catalog[p]
    /\ pc[p] = "refused" => cfg[p].model \notin steady[p]
    /\ pc[p] # "off" /\ catalog[p] # Unread =>
          \E x \in log[cfg[p].base] : x[2] = catalog[p] /\ x[1] + FreshFor >= fetchedAt[p]

CacheIsSound ==
    cacheFile \in Catalogs => ServedSince(cacheFile.base, cacheFile.models, cacheFile.at)

LogIsCurrent == \A e \in Endpoints : <<clock, served[e]>> \in log[e]

CatalogInv ==
    /\ CatalogTypes
    /\ \A p \in Starts : Listing(p)
    /\ CacheIsSound /\ LogIsCurrent

LEMMA CatalogInit == Init => CatalogInv
<1> SUFFICES ASSUME Init
             PROVE  CatalogInv
  OBVIOUS
<1>1. served \in [Endpoints -> SUBSET Models]
  BY DEF Init
<1>2. CatalogTypes
  BY <1>1 DEF Init, CatalogTypes, Phases
<1>3. \A p \in Starts : Listing(p)
  BY DEF Init, Listing
<1>4. CacheIsSound /\ LogIsCurrent
  BY CatalogIsAFile DEF Init, CacheIsSound, LogIsCurrent
<1> QED
  BY <1>2, <1>3, <1>4 DEF CatalogInv

\* Nothing that one start does to its own state touches the world.
OnlyIts(p) ==
    /\ UNCHANGED world
    /\ \A q \in Starts \ {p} :
          /\ pc'[q] = pc[q] /\ cfg'[q] = cfg[q] /\ catalog'[q] = catalog[q]
          /\ fetchedAt'[q] = fetchedAt[q] /\ steady'[q] = steady[q]

LEMMA OthersKeepListing ==
    ASSUME CatalogInv, NEW p \in Starts, OnlyIts(p)
    PROVE  LogIsCurrent' /\ \A q \in Starts \ {p} : Listing(q)'
<1>1. LogIsCurrent'
  BY DEF CatalogInv, LogIsCurrent, OnlyIts, world
<1>2. ASSUME NEW q \in Starts \ {p} PROVE Listing(q)'
  <2>1. /\ Listing(q) /\ log' = log /\ served' = served
        /\ pc'[q] = pc[q] /\ cfg'[q] = cfg[q] /\ catalog'[q] = catalog[q]
        /\ fetchedAt'[q] = fetchedAt[q] /\ steady'[q] = steady[q]
    BY DEF CatalogInv, OnlyIts, world
  <2> QED
    BY <2>1 DEF Listing, ServedSince
<1> QED
  BY <1>1, <1>2

\* A step of a start that reads and writes no catalog.
Elsewhere(p) ==
    /\ \E x \in Phases \ {"off", "fetch", "cache", "caching", "refused"} :
          /\ pc' = [pc EXCEPT ![p] = x]
          /\ x \in {"store", "catalog"} => pc[p] \in {"store", "catalog"}
    /\ pc[p] # "off"
    /\ UNCHANGED <<world, cfg, listing, steady>>

LEMMA ElsewhereKeepsCatalog ==
    ASSUME CatalogInv, NEW p \in Starts, Elsewhere(p)
    PROVE  CatalogInv'
<1>1. PICK x \in Phases \ {"off", "fetch", "cache", "caching", "refused"} :
          /\ pc' = [pc EXCEPT ![p] = x]
          /\ x \in {"store", "catalog"} => pc[p] \in {"store", "catalog"}
  BY DEF Elsewhere
<1>2. /\ pc' \in [Starts -> Phases] /\ pc'[p] = x
      /\ \A q \in Starts \ {p} : pc'[q] = pc[q]
  BY <1>1 DEF CatalogInv, CatalogTypes
<1>3. CatalogTypes'
  BY <1>2 DEF CatalogInv, CatalogTypes, Elsewhere, world, listing
<1>4. OnlyIts(p)
  BY <1>2 DEF OnlyIts, Elsewhere, listing
<1>5. Listing(p)'
  <2>1. Listing(p) /\ UNCHANGED <<log, served, cfg, catalog, fetchedAt, steady>> /\ pc[p] # "off"
    BY DEF CatalogInv, Elsewhere, world, listing
  <2> QED
    BY <1>1, <1>2, <2>1 DEF Listing, ServedSince
<1>6. CacheIsSound'
  BY DEF CatalogInv, Elsewhere, world, listing, CacheIsSound, ServedSince
<1> QED
  BY <1>3, <1>4, <1>5, <1>6, OthersKeepListing DEF CatalogInv

(* Where a start goes once it knows, or does not know, the models.          *)
LEMMA ChecksWell ==
    ASSUME CatalogInv, NEW p \in Starts, NEW fetched, NEW models, Checks(p, fetched, models)
    PROVE  /\ pc' \in [Starts -> Phases] /\ pc'[p] \in {"refused", "find"}
           /\ pc'[p] = "refused" => fetched /\ cfg[p].model \notin models
           /\ \A q \in Starts \ {p} : pc'[q] = pc[q]
  BY DEF CatalogInv, CatalogTypes, Checks, Goes, Phases, IsAuthoritative

LEMMA ReadsCacheKeeps ==
    ASSUME CatalogInv, NEW p \in Starts, ReadsCache(p)
    PROVE  CatalogInv'
<1>1. /\ pc[p] = "catalog" /\ fetchedAt' = [fetchedAt EXCEPT ![p] = clock]
      /\ UNCHANGED <<world, cfg, cacheFile, steady>>
      /\ CatalogTypes /\ Listing(p) /\ cfg[p] \in Invocations
  BY DEF ReadsCache, CatalogInv, CatalogTypes
<1>2. /\ fetchedAt' \in [Starts -> Nat] /\ fetchedAt'[p] = clock
      /\ \A q \in Starts \ {p} : fetchedAt'[q] = fetchedAt[q]
  BY <1>1 DEF CatalogTypes
<1>3. CacheIsSound'
  BY <1>1 DEF CatalogInv, world, CacheIsSound, ServedSince
<1>4. CASE Readable(p)
  <2>1. /\ catalog' = [catalog EXCEPT ![p] = cacheFile.models]
        /\ Checks(p, FALSE, cacheFile.models)
        /\ cacheFile \in Catalogs /\ cacheFile.base = cfg[p].base
        /\ clock - cacheFile.at <= FreshFor
    BY <1>1, <1>4 DEF ReadsCache, Readable, CatalogTypes
  <2>2. /\ pc' \in [Starts -> Phases] /\ pc'[p] = "find"
        /\ \A q \in Starts \ {p} : pc'[q] = pc[q]
    BY <2>1, ChecksWell
  <2>3. /\ catalog' \in [Starts -> {Unread} \cup SUBSET Models]
        /\ catalog'[p] = cacheFile.models
        /\ \A q \in Starts \ {p} : catalog'[q] = catalog[q]
    BY <1>1, <2>1 DEF CatalogTypes, Catalogs
  <2>4. CatalogTypes'
    BY <1>1, <1>2, <2>2, <2>3 DEF CatalogTypes, world
  <2>5. OnlyIts(p)
    BY <1>1, <1>2, <2>2, <2>3 DEF OnlyIts
  <2>6. PICK x \in log[cfg[p].base] : x[2] = cacheFile.models /\ x[1] >= cacheFile.at
    BY <2>1 DEF CatalogInv, CacheIsSound, ServedSince
  <2>7. x[1] + FreshFor >= fetchedAt'[p]
    <3>1. x[1] \in Nat /\ cacheFile.at \in Nat /\ clock \in Nat /\ FreshFor \in Nat
      <4>1. log[cfg[p].base] \subseteq Nat \X SUBSET Models
        BY <1>1 DEF CatalogTypes, Invocations
      <4> QED
        BY <1>1, <2>1, <2>6, <4>1, StartupConstants DEF CatalogTypes, Catalogs
    <3> QED
      BY <1>2, <2>1, <2>6, <3>1
  <2>8. Listing(p)'
    <3>1. x \in log'[cfg'[p].base] /\ x[2] = catalog'[p]
      BY <1>1, <2>3, <2>6 DEF world
    <3> QED
      BY <2>2, <2>7, <3>1 DEF Listing
  <2> QED
    BY <1>3, <2>4, <2>5, <2>8, OthersKeepListing DEF CatalogInv
<1>5. CASE ~Readable(p)
  <2>1. pc' = [pc EXCEPT ![p] = "fetch"] /\ UNCHANGED catalog
    BY <1>5 DEF ReadsCache, Goes
  <2>2. /\ pc' \in [Starts -> Phases] /\ pc'[p] = "fetch"
        /\ \A q \in Starts \ {p} : pc'[q] = pc[q]
    BY <1>1, <2>1 DEF CatalogTypes, Phases
  <2>3. CatalogTypes'
    BY <1>1, <1>2, <2>1, <2>2 DEF CatalogTypes, world
  <2>4. OnlyIts(p)
    BY <1>1, <1>2, <2>1, <2>2 DEF OnlyIts
  <2>5. Listing(p)'
    BY <1>1, <2>1, <2>2 DEF Listing, world
  <2> QED
    BY <1>3, <2>3, <2>4, <2>5, OthersKeepListing DEF CatalogInv
<1> QED
  BY <1>4, <1>5

LEMMA FetchesKeeps ==
    ASSUME CatalogInv, NEW p \in Starts, Fetches(p)
    PROVE  CatalogInv'
<1>1. /\ pc[p] = "fetch" /\ UNCHANGED <<world, cfg, cacheFile, fetchedAt, steady>>
      /\ CatalogTypes /\ Listing(p) /\ cfg[p] \in Invocations
  BY DEF Fetches, CatalogInv, CatalogTypes
<1>2. CacheIsSound'
  BY <1>1 DEF CatalogInv, world, CacheIsSound, ServedSince
<1>3. CASE catalog' = [catalog EXCEPT ![p] = served[cfg[p].base]] /\ Goes(p, "cache")
  <2> DEFINE e == cfg[p].base
  <2>1. e \in Endpoints /\ served[e] \in SUBSET Models /\ <<clock, served[e]>> \in log[e]
    BY <1>1 DEF CatalogInv, CatalogTypes, Invocations, LogIsCurrent
  <2>2. /\ pc' \in [Starts -> Phases] /\ pc'[p] = "cache"
        /\ \A q \in Starts \ {p} : pc'[q] = pc[q]
    BY <1>1, <1>3 DEF CatalogTypes, Phases, Goes
  <2>3. /\ catalog' \in [Starts -> {Unread} \cup SUBSET Models]
        /\ catalog'[p] = served[e]
        /\ \A q \in Starts \ {p} : catalog'[q] = catalog[q]
    BY <1>1, <1>3, <2>1 DEF CatalogTypes
  <2>4. CatalogTypes'
    BY <1>1, <2>2, <2>3 DEF CatalogTypes, world
  <2>5. OnlyIts(p)
    BY <1>1, <2>2, <2>3 DEF OnlyIts
  <2>6. Listing(p)'
    <3>1. /\ log' = log /\ cfg' = cfg /\ fetchedAt' = fetchedAt
          /\ clock \in Nat /\ fetchedAt[p] \in Nat /\ fetchedAt[p] <= clock
          /\ FreshFor \in Nat /\ steady'[p] \subseteq served[e]
      BY <1>1, StartupConstants DEF CatalogTypes, world, Listing
    <3> DEFINE x == <<clock, served[e]>>
    <3>2. /\ x \in log'[cfg'[p].base] /\ x[2] = catalog'[p] /\ x[1] >= fetchedAt'[p]
          /\ x[1] + FreshFor >= fetchedAt'[p]
      BY <2>1, <2>3, <3>1
    <3> HIDE DEF x, e
    <3> QED
      BY <2>1, <2>2, <2>3, <3>1, <3>2 DEF Listing, ServedSince
  <2> QED
    BY <1>2, <2>4, <2>5, <2>6, OthersKeepListing DEF CatalogInv
<1>4. CASE Checks(p, FALSE, {}) /\ UNCHANGED catalog
  <2>1. /\ pc' \in [Starts -> Phases] /\ pc'[p] = "find"
        /\ \A q \in Starts \ {p} : pc'[q] = pc[q]
    BY <1>4, ChecksWell
  <2>2. CatalogTypes' /\ OnlyIts(p)
    BY <1>1, <1>4, <2>1 DEF CatalogTypes, OnlyIts, world
  <2>3. Listing(p)'
    BY <1>1, <1>4, <2>1 DEF Listing, world
  <2> QED
    BY <1>2, <2>2, <2>3, OthersKeepListing DEF CatalogInv
<1> QED
  BY <1>3, <1>4 DEF Fetches

LEMMA CachesKeeps ==
    ASSUME CatalogInv, NEW p \in Starts, CutsCache(p) \/ WritesCache(p)
    PROVE  CatalogInv'
<1>1. /\ pc[p] \in {"cache", "caching"}
      /\ UNCHANGED <<world, cfg, catalog, fetchedAt, steady>>
      /\ CatalogTypes /\ Listing(p) /\ cfg[p] \in Invocations
  BY DEF CutsCache, WritesCache, CatalogInv, CatalogTypes
<1>2. CacheIsSound' /\ cacheFile' \in {Absent, Torn} \cup Catalogs
  <2>1. CASE cacheFile' = cacheFile \/ cacheFile' = Torn
    <3>1. cacheFile' \in Catalogs => cacheFile' = cacheFile
      BY <2>1, CatalogIsAFile
    <3> QED
      BY <1>1, <2>1, <3>1 DEF CatalogInv, CatalogTypes, world, CacheIsSound, ServedSince
  <2>2. CASE WritesCache(p)
    <3>1. cacheFile' = [base |-> cfg[p].base, at |-> fetchedAt[p], models |-> catalog[p]]
          /\ pc[p] = "caching"
      BY <2>2 DEF WritesCache
    <3>2. /\ ServedSince(cfg[p].base, catalog[p], fetchedAt[p])
          /\ cfg[p].base \in Endpoints /\ fetchedAt[p] \in Nat
          /\ catalog[p] \in SUBSET Models
      BY <1>1, <3>1 DEF Listing, CatalogTypes, Invocations
    <3>3. cacheFile' \in Catalogs
      BY <3>1, <3>2 DEF Catalogs
    <3>4. /\ cacheFile'.base = cfg[p].base /\ cacheFile'.at = fetchedAt[p]
          /\ cacheFile'.models = catalog[p]
      BY <3>1
    <3> QED
      BY <1>1, <3>2, <3>3, <3>4 DEF CacheIsSound, ServedSince, world
  <2> QED
    BY <2>1, <2>2 DEF CutsCache
<1>3. \/ pc' = [pc EXCEPT ![p] = "caching"]
      \/ Checks(p, TRUE, catalog[p])
  BY DEF CutsCache, WritesCache, Goes
<1>4. CASE pc' = [pc EXCEPT ![p] = "caching"]
  <2>1. /\ pc' \in [Starts -> Phases] /\ pc'[p] = "caching"
        /\ \A q \in Starts \ {p} : pc'[q] = pc[q]
    BY <1>1, <1>4 DEF CatalogTypes, Phases
  <2>2. CatalogTypes' /\ OnlyIts(p)
    BY <1>1, <1>2, <2>1 DEF CatalogTypes, OnlyIts, world
  <2>3. Listing(p)'
    BY <1>1, <2>1 DEF Listing, ServedSince, world
  <2> QED
    BY <1>2, <2>2, <2>3, OthersKeepListing DEF CatalogInv
<1>5. CASE Checks(p, TRUE, catalog[p])
  <2>1. /\ pc' \in [Starts -> Phases] /\ pc'[p] \in {"refused", "find"}
        /\ pc'[p] = "refused" => cfg[p].model \notin catalog[p]
        /\ \A q \in Starts \ {p} : pc'[q] = pc[q]
    BY <1>5, ChecksWell
  <2>2. CatalogTypes' /\ OnlyIts(p)
    BY <1>1, <1>2, <2>1 DEF CatalogTypes, OnlyIts, world
  <2>3. Listing(p)'
    <3>1. steady[p] \subseteq catalog[p]
      BY <1>1 DEF Listing
    <3> QED
      BY <1>1, <2>1, <3>1 DEF Listing, world
  <2> QED
    BY <1>2, <2>2, <2>3, OthersKeepListing DEF CatalogInv
<1> QED
  BY <1>3, <1>4, <1>5

LEMMA OpensKeeps ==
    ASSUME CatalogInv, NEW p \in Starts, Opens(p)
    PROVE  CatalogInv'
<1>1. PICK c \in Invocations :
        /\ cfg' = [cfg EXCEPT ![p] = c]
        /\ steady' = [steady EXCEPT ![p] = served[c.base]]
  BY DEF Opens
<1>2. /\ pc[p] = "off" /\ pc' = [pc EXCEPT ![p] = "store"]
      /\ UNCHANGED <<world, catalog, fetchedAt, cacheFile>>
      /\ CatalogTypes /\ Listing(p)
  BY DEF Opens, Goes, listing, CatalogInv
<1>3. /\ pc' \in [Starts -> Phases] /\ pc'[p] = "store" /\ cfg'[p] = c
      /\ steady'[p] = served[c.base] /\ DOMAIN cfg' = Starts /\ DOMAIN steady' = Starts
      /\ \A q \in Starts \ {p} :
            pc'[q] = pc[q] /\ cfg'[q] = cfg[q] /\ steady'[q] = steady[q]
  BY <1>1, <1>2 DEF CatalogTypes, Phases
<1>4. CatalogTypes' /\ OnlyIts(p)
  BY <1>2, <1>3 DEF CatalogTypes, OnlyIts, world
<1>5. Listing(p)'
  BY <1>2, <1>3 DEF Listing, world
<1>6. CacheIsSound'
  BY <1>2 DEF CatalogInv, world, CacheIsSound, ServedSince
<1> QED
  BY <1>4, <1>5, <1>6, OthersKeepListing DEF CatalogInv

(* Time passes and endpoints change: what they served is on record still.   *)
LEMMA WorldKeeps ==
    ASSUME CatalogInv, Ticks \/ EndpointChanges
    PROVE  CatalogInv'
<1>1. CatalogTypes /\ LogIsCurrent /\ CacheIsSound
      /\ UNCHANGED <<pc, cfg, catalog, fetchedAt, cacheFile>>
  BY DEF CatalogInv, Ticks, EndpointChanges, listing
<1>2. /\ clock' \in Nat /\ clock <= clock'
      /\ served' \in [Endpoints -> SUBSET Models]
      /\ log' \in [Endpoints -> SUBSET (Nat \X SUBSET Models)]
      /\ \A e \in Endpoints : log[e] \subseteq log'[e] /\ <<clock', served'[e]>> \in log'[e]
      /\ DOMAIN steady' = Starts
      /\ \A p \in Starts : steady'[p] \subseteq steady[p]
      /\ \A p \in Starts :
            (pc[p] # "off" /\ steady[p] \subseteq served[cfg[p].base])
                => steady'[p] \subseteq served'[cfg[p].base]
  <2>1. CASE Ticks
    <3>1. /\ clock' = clock + 1 /\ UNCHANGED <<served, steady>>
          /\ log' = [e \in Endpoints |-> log[e] \cup {<<clock + 1, served[e]>>}]
      BY <2>1 DEF Ticks
    <3>2. /\ clock' \in Nat /\ clock <= clock' /\ served' = served
          /\ log' \in [Endpoints -> SUBSET (Nat \X SUBSET Models)]
      BY <1>1, <3>1 DEF CatalogTypes
    <3>3. \A e \in Endpoints : log[e] \subseteq log'[e] /\ <<clock', served'[e]>> \in log'[e]
      BY <3>1
    <3> QED
      BY <1>1, <3>1, <3>2, <3>3 DEF CatalogTypes
  <2>2. CASE EndpointChanges
    <3>1. PICK e \in Endpoints, ms \in SUBSET Models :
            /\ served' = [served EXCEPT ![e] = ms]
            /\ log' = [log EXCEPT ![e] = log[e] \cup {<<clock, ms>>}]
            /\ steady' = [p \in Starts |-> IF pc[p] # "off" /\ cfg[p].base = e
                                          THEN steady[p] \cap ms ELSE steady[p]]
      BY <2>2 DEF EndpointChanges
    <3>2. clock' = clock /\ clock \in Nat
      BY <1>1, <2>2 DEF EndpointChanges, CatalogTypes
    <3>3. /\ served' \in [Endpoints -> SUBSET Models]
          /\ log' \in [Endpoints -> SUBSET (Nat \X SUBSET Models)]
      BY <1>1, <3>1, <3>2 DEF CatalogTypes
    <3>4. \A x \in Endpoints : log[x] \subseteq log'[x] /\ <<clock', served'[x]>> \in log'[x]
      BY <1>1, <3>1, <3>2 DEF CatalogTypes, LogIsCurrent
    <3>5. ASSUME NEW p \in Starts
          PROVE  /\ steady'[p] \subseteq steady[p]
                 /\ (pc[p] # "off" /\ steady[p] \subseteq served[cfg[p].base])
                      => steady'[p] \subseteq served'[cfg[p].base]
      <4>1. CASE pc[p] # "off" /\ cfg[p].base = e
        BY <1>1, <3>1, <4>1 DEF CatalogTypes
      <4>2. CASE ~(pc[p] # "off" /\ cfg[p].base = e)
        BY <1>1, <3>1, <4>2 DEF CatalogTypes
      <4> QED
        BY <4>1, <4>2
    <3> QED
      BY <3>1, <3>2, <3>3, <3>4, <3>5, <1>1 DEF CatalogTypes
  <2> QED
    BY <2>1, <2>2
<1>3. CatalogTypes'
  <2>1. \A p \in Starts : fetchedAt[p] <= clock'
    BY <1>1, <1>2 DEF CatalogTypes
  <2> QED
    BY <1>1, <1>2, <2>1 DEF CatalogTypes
<1>4. CacheIsSound'
  <2>1. cacheFile \in Catalogs => cacheFile.base \in Endpoints
    BY DEF Catalogs
  <2> QED
    BY <1>1, <1>2, <2>1 DEF CacheIsSound, ServedSince
<1>5. ASSUME NEW p \in Starts PROVE Listing(p)'
  <2>1. Listing(p) /\ (pc[p] # "off" => cfg[p].base \in Endpoints)
    BY <1>1 DEF CatalogInv, CatalogTypes, Invocations
  <2>2. UNCHANGED <<pc, cfg, catalog, fetchedAt>> /\ steady'[p] \subseteq steady[p]
    BY <1>1, <1>2
  <2>3. pc[p] # "off" => log[cfg[p].base] \subseteq log'[cfg[p].base]
    BY <1>2, <2>1
  <2>4. pc[p] \in {"store", "catalog", "fetch"} => steady'[p] \subseteq served'[cfg[p].base]
    BY <1>2, <2>1 DEF Listing
  <2>5. pc[p] \in {"cache", "caching"} =>
            \E x \in log'[cfg[p].base] : x[2] = catalog[p] /\ x[1] >= fetchedAt[p]
    BY <2>1, <2>3 DEF Listing, ServedSince
  <2>6. pc[p] # "off" /\ catalog[p] # Unread =>
            \E x \in log'[cfg[p].base] : x[2] = catalog[p] /\ x[1] + FreshFor >= fetchedAt[p]
    BY <2>1, <2>3 DEF Listing
  <2> QED
    BY <2>1, <2>2, <2>4, <2>5, <2>6 DEF Listing, ServedSince
<1> QED
  BY <1>2, <1>3, <1>4, <1>5 DEF CatalogInv, LogIsCurrent

LEMMA CatalogNext == CatalogInv /\ [Next]_vars => CatalogInv'
<1> SUFFICES ASSUME CatalogInv, [Next]_vars
             PROVE  CatalogInv'
  OBVIOUS
<1>1. ASSUME NEW p \in Starts, Opens(p) \/ Lists(p)
      PROVE  CatalogInv'
  BY <1>1, OpensKeeps, ReadsCacheKeeps, FetchesKeeps, CachesKeeps DEF Lists
<1>2. ASSUME NEW p \in Starts, StartsAnew(p) \/ Signs(p) \/ Decides(p) \/ Crashes(p)
      PROVE  CatalogInv'
  <2>1. pc \in [Starts -> Phases]
    BY DEF CatalogInv, CatalogTypes
  <2>2. UNCHANGED <<world, cfg, listing, steady>>
    BY <1>2 DEF StartsAnew, Signs, ReadsKey, CreatesKey, WritesKey, Decides, Discovers,
       Declares, Loads, HasNoTools, IsTrusted, IsGranted, IsRefused, CutsRegistry,
       SavesRegistry, Fires, Executes, Crashes
  <2>3. CASE StartsAnew(p)
    <3>1. pc[p] = "store" /\ pc' = [pc EXCEPT ![p] = "catalog"]
      BY <2>3 DEF StartsAnew, Goes
    <3>2. "catalog" \in Phases \ {"off", "fetch", "cache", "caching", "refused"}
      BY DEF Phases
    <3>3. Elsewhere(p)
      BY <2>2, <3>1, <3>2 DEF Elsewhere
    <3> QED
      BY <3>3, ElsewhereKeepsCatalog
  <2>4. CASE Crashes(p)
    <3>1. pc[p] # "off" /\ pc' = [pc EXCEPT ![p] = "dead"]
      BY <2>4 DEF Crashes, Goes
    <3>2. "dead" \in Phases \ {"off", "fetch", "cache", "caching", "refused"}
      BY DEF Phases
    <3>3. Elsewhere(p)
      BY <2>2, <3>1, <3>2 DEF Elsewhere
    <3> QED
      BY <3>3, ElsewhereKeepsCatalog
  <2>5. CASE Decides(p)
    <3>1. pc[p] \in {"find", "declare", "load", "decide", "cut", "save", "announce", "fire",
                      "session"}
      BY <2>5 DEF Decides, Discovers, Declares, Loads, HasNoTools, IsTrusted, IsGranted,
         IsRefused, CutsRegistry, SavesRegistry, Fires, Executes
    <3>2. PICK x \in {"find", "declare", "load", "decide", "cut", "save", "announce", "fire",
                      "session"} :
             pc' = [pc EXCEPT ![p] = x]
      BY <2>5 DEF Decides, Discovers, Declares, Loads, HasNoTools, IsTrusted, IsGranted,
         IsRefused, CutsRegistry, SavesRegistry, Fires, Executes, RoundIsOver, NextRound, Goes
    <3> QED
      BY <2>2, <3>1, <3>2, ElsewhereKeepsCatalog DEF Elsewhere, Phases
  <2>6. CASE Signs(p)
    <3>1. \/ UNCHANGED pc
          \/ pc' = [pc EXCEPT ![p] = IF pc[p] = "store" THEN "catalog" ELSE pc[p]]
          \/ pc' = [pc EXCEPT ![p] = IF pc[p] = "store" THEN "failed" ELSE pc[p]]
      BY <2>6 DEF Signs, ReadsKey, CreatesKey, WritesKey, TakesTheKey, KeyInHand, NoKey
    <3>2. CASE pc' = pc
      BY <2>2, <3>2 DEF CatalogInv, CatalogTypes, Listing, ServedSince, CacheIsSound,
         LogIsCurrent, world, listing
    <3>3. CASE pc[p] = "store" /\ \E x \in {"catalog", "failed"} : pc' = [pc EXCEPT ![p] = x]
      BY <2>2, <3>3, ElsewhereKeepsCatalog DEF Elsewhere, Phases
    <3> QED
      BY <2>1, <3>1, <3>2, <3>3
  <2> QED
    BY <1>2, <2>3, <2>4, <2>5, <2>6
<1>3. CASE Ticks \/ EndpointChanges
  BY <1>3, WorldKeeps
<1>4. CASE RepositoryChanges \/ UNCHANGED vars
  <2>1. UNCHANGED <<served, clock, log, pc, cfg, listing, steady>>
    BY <1>4 DEF RepositoryChanges, vars, world
  <2> QED
    BY <2>1 DEF CatalogInv, CatalogTypes, Listing, ServedSince, CacheIsSound,
       LogIsCurrent, listing
<1> QED
  BY <1>1, <1>2, <1>3, <1>4 DEF Next

LEMMA CatalogIsKept == Spec => []CatalogInv
<1> QED
  BY CatalogInit, CatalogNext, PTL DEF Spec

(* However starts, caches and endpoints interleave, the models a start has  *)
(* in hand were served by its endpoint, no longer ago than a cache is fresh. *)
THEOREM TheCatalogIsFresh == Spec => []CatalogIsFresh
<1>1. CatalogInv => CatalogIsFresh
  BY DEF CatalogInv, Listing, CatalogIsFresh
<1> QED
  BY <1>1, CatalogIsKept, PTL

(* No start is refused a model that its endpoint served all along.         *)
THEOREM NoStaleRefusal == Spec => []RefusalIsCurrent
<1>1. CatalogInv => RefusalIsCurrent
  BY DEF CatalogInv, Listing, RefusalIsCurrent
<1> QED
  BY <1>1, CatalogIsKept, PTL

AnyLine == [record : Nat, ended : BOOLEAN, cut : BOOLEAN]

Writing == {"written", "ended"}
Stages == {"off", "loading", "idle", "locked"} \cup Writing

\* The records the lines of a file parse as.
Held(ls) == {ls[i].record : i \in DOMAIN ls}

\* Whether a file ends in the middle of a line: the next record is glued to it.
IsOpen(ls) == ls # <<>> /\ ~ls[Len(ls)].ended

\* The parents are a sequence, whatever was read to find them.
IsASequence(s) == \E S : s \in Seq(S)

StoreTypes ==
    /\ lines \in Seq(AnyLine) /\ durable \in Seq(AnyLine)
    /\ IsASequence(parent)
    /\ stage \in [Procs -> Stages]
    /\ mine \in [Procs -> Nat]
    /\ acked \in Seq(Nat)
    /\ crashes \in Nat

\* The lock is held by the process that writes.
OneWriter == \A p \in Procs : stage[p] \in {"locked"} \cup Writing => lock = {p}

\* What a writer left in the file so far.
WriterIsAtTheEnd ==
    \A p \in Procs : stage[p] \in Writing =>
        mine[p] \in 1..Len(parent) /\ lines # <<>>
            /\ (lines[Len(lines)].ended <=> stage[p] = "ended")

AckedWereBegun == Members(acked) \subseteq 1..Len(parent)

\* No append returned before its newline was written.
OpenIsNotAcked(ls) == IsOpen(ls) => ls[Len(ls)].record \notin Members(acked)

\* Whatever returned and can be read is on the disk.
DiskHolds == Members(acked) \cap Held(lines) \subseteq Held(durable)

Lost == Members(acked) \ Held(lines)

\* The record being written, or the next one, will be lost when it returns.
InDebt ==
    \/ \E p \in Procs : stage[p] \in Writing /\ mine[p] \notin Held(lines)
    \/ (\A p \in Procs : stage[p] \notin Writing) /\ IsOpen(lines)

Debt == IF InDebt THEN 1 ELSE 0

\* Each crash pays for one record: one that is lost, or one that will be.
CrashesPay == Cardinality(Lost) + Debt <= crashes

StoreInv ==
    /\ StoreTypes /\ OneWriter /\ WriterIsAtTheEnd /\ AckedWereBegun
    /\ OpenIsNotAcked(lines) /\ OpenIsNotAcked(durable)
    /\ DiskHolds /\ CrashesPay

-----------------------------------------------------------------------------
(* Lines.                                                                  *)

(* What a write leaves of a file: the line it makes, after every line that *)
(* was there, or in the place of a last one that had no end.               *)
LEMMA WrittenIs ==
    ASSUME NEW ls \in Seq(AnyLine), NEW text \in AnyLine
    PROVE  /\ Written(text, ls) \in Seq(AnyLine)
           /\ IsOpen(ls) =>
                /\ Len(Written(text, ls)) = Len(ls)
                /\ Written(text, ls)[Len(ls)].record = 0
                /\ ~Written(text, ls)[Len(ls)].ended
                /\ \A i \in 1..(Len(ls) - 1) : Written(text, ls)[i] = ls[i]
           /\ ~IsOpen(ls) =>
                /\ Len(Written(text, ls)) = Len(ls) + 1
                /\ Written(text, ls)[Len(ls) + 1] = text
                /\ \A i \in 1..Len(ls) : Written(text, ls)[i] = ls[i]
<1>1. CASE IsOpen(ls)
  <2>1. Len(ls) \in 1..Len(ls) /\ ls[Len(ls)] \in AnyLine
    BY <1>1 DEF IsOpen
  <2>2. Line(0, FALSE, ls[Len(ls)].cut \/ text.cut) \in AnyLine
    BY <2>1 DEF Line, AnyLine
  <2>3. Written(text, ls) =
          [ls EXCEPT ![Len(ls)] = Line(0, FALSE, ls[Len(ls)].cut \/ text.cut)]
    BY <1>1 DEF Written, IsOpen
  <2> HIDE DEF AnyLine
  <2> QED
    BY <1>1, <2>1, <2>2, <2>3 DEF Line
<1>2. CASE ~IsOpen(ls)
  <2>1. Written(text, ls) = Append(ls, text)
    BY <1>2 DEF Written, IsOpen
  <2> HIDE DEF AnyLine
  <2> QED
    BY <1>2, <2>1
<1> QED
  BY <1>1, <1>2

(* A write that does not reach the newline: it keeps what is on lines that *)
(* have an end, adds its own record at most, and does so on a line of its  *)
(* own.                                                                    *)
LEMMA WrittenHolds ==
    ASSUME NEW ls \in Seq(AnyLine), NEW text \in AnyLine, ~text.ended
    PROVE  /\ Written(text, ls) # <<>>
           /\ IsOpen(Written(text, ls))
           /\ Written(text, ls)[Len(Written(text, ls))].record \in {0, text.record}
           /\ Held(Written(text, ls)) \subseteq Held(ls) \cup {0, text.record}
           /\ \A r \in Held(ls) : r \in Held(Written(text, ls))
                                    \/ (IsOpen(ls) /\ r = ls[Len(ls)].record)
           /\ ~IsOpen(ls) => text.record \in Held(Written(text, ls))
<1> DEFINE ws == Written(text, ls)
<1>1. ws \in Seq(AnyLine)
  BY WrittenIs
<1>2. CASE IsOpen(ls)
  <2>1. Len(ls) \in Nat /\ Len(ls) > 0
    BY <1>2 DEF IsOpen
  <2>2. /\ Len(ws) = Len(ls) /\ ws[Len(ls)].record = 0 /\ ~ws[Len(ls)].ended
        /\ \A i \in 1..(Len(ls) - 1) : ws[i] = ls[i]
    BY <1>2, WrittenIs
  <2> HIDE DEF ws
  <2>3. ws # <<>> /\ IsOpen(ws) /\ ws[Len(ws)].record = 0
    BY <1>1, <2>1, <2>2 DEF IsOpen
  <2>4. \A i \in 1..Len(ls) : i # Len(ls) => i \in 1..(Len(ls) - 1)
    BY <2>1
  <2>5. Held(ws) \subseteq Held(ls) \cup {0, text.record}
    BY <1>1, <2>1, <2>2, <2>4 DEF Held
  <2>6. \A r \in Held(ls) : r \in Held(ws) \/ r = ls[Len(ls)].record
    BY <1>1, <2>1, <2>2, <2>4 DEF Held
  <2> QED
    BY <1>2, <2>3, <2>5, <2>6 DEF ws
<1>3. CASE ~IsOpen(ls)
  <2>1. Len(ls) \in Nat
    OBVIOUS
  <2>2. /\ Len(ws) = Len(ls) + 1 /\ ws[Len(ls) + 1] = text
        /\ \A i \in 1..Len(ls) : ws[i] = ls[i]
    BY <1>3, WrittenIs
  <2> HIDE DEF ws
  <2>3. ws # <<>> /\ IsOpen(ws) /\ ws[Len(ws)].record = text.record
    BY <1>1, <2>1, <2>2 DEF IsOpen
  <2>4. \A i \in 1..Len(ws) : i # Len(ls) + 1 => i \in 1..Len(ls)
    BY <2>1, <2>2
  <2>5. Held(ws) \subseteq Held(ls) \cup {0, text.record}
    BY <1>1, <2>1, <2>2, <2>4 DEF Held
  <2>6. \A i \in 1..Len(ls) : i \in 1..Len(ws)
    BY <2>1, <2>2
  <2>7. \A r \in Held(ls) : r \in Held(ws)
    BY <1>1, <2>1, <2>2, <2>6 DEF Held
  <2>8. Len(ws) \in 1..Len(ws)
    BY <2>1, <2>2
  <2>9. text.record \in Held(ws)
    BY <1>1, <2>2, <2>8 DEF Held
  <2> QED
    BY <2>3, <2>5, <2>7, <2>9 DEF ws
<1> QED
  BY <1>2, <1>3

Ended(ls) == [ls EXCEPT ![Len(ls)].ended = TRUE]

(* Ending the last line changes no record.                                 *)
LEMMA EndedHolds ==
    ASSUME NEW ls \in Seq(AnyLine), ls # <<>>, NEW es, es = Ended(ls)
    PROVE  /\ es \in Seq(AnyLine) /\ es # <<>> /\ Len(es) = Len(ls)
           /\ es[Len(es)].ended
           /\ Held(es) = Held(ls)
<1>1. Len(ls) \in 1..Len(ls) /\ ls[Len(ls)] \in AnyLine
  OBVIOUS
<1> DEFINE l == [ls[Len(ls)] EXCEPT !.ended = TRUE]
<1>2. l \in AnyLine /\ l.ended /\ l.record = ls[Len(ls)].record
  BY <1>1 DEF AnyLine
<1>3. es = [ls EXCEPT ![Len(ls)] = l]
  BY DEF Ended
<1> HIDE DEF l, AnyLine
<1>4. es \in Seq(AnyLine) /\ es # <<>> /\ Len(es) = Len(ls) /\ es[Len(es)] = l
  BY <1>2, <1>3, LastReplaced
<1>5. \A i \in 1..Len(ls) : es[i].record = ls[i].record
  <2> TAKE i \in 1..Len(ls)
  <2>1. i # Len(ls) => es[i] = ls[i]
    BY <1>2, <1>3, LastReplaced
  <2> QED
    BY <1>2, <1>4, <2>1
<1> QED
  BY <1>2, <1>4, <1>5 DEF Held

-----------------------------------------------------------------------------
(* Counting what is lost.                                                  *)

LEMMA LostIsCounted ==
    ASSUME StoreTypes, AckedWereBegun
    PROVE  IsFiniteSet(Lost) /\ Cardinality(Lost) \in Nat
<1>1. Len(parent) \in Nat
  BY DEF StoreTypes, IsASequence
<1>2. IsFiniteSet(1..Len(parent))
  BY <1>1, FS_Interval
<1>3. Lost \subseteq 1..Len(parent)
  BY DEF Lost, AckedWereBegun
<1> QED
  BY <1>2, <1>3, FS_Subset, FS_CardinalityType

(* A step that loses nothing more stays within what the crashes pay, if it *)
(* makes no debt or is a crash.                                            *)
LEMMA PaysOn ==
    ASSUME StoreTypes, AckedWereBegun, CrashesPay, Lost' \subseteq Lost,
           \/ crashes' = crashes /\ (InDebt' => InDebt)
           \/ crashes' = crashes + 1
    PROVE  CrashesPay'
<1>1. Cardinality(Lost) \in Nat /\ IsFiniteSet(Lost)
  BY LostIsCounted
<1>2. Cardinality(Lost') \in Nat /\ Cardinality(Lost') <= Cardinality(Lost)
  BY <1>1, FS_Subset, FS_CardinalityType
<1>3. Debt \in {0, 1} /\ Debt' \in {0, 1} /\ ((InDebt' => InDebt) => Debt' <= Debt)
  BY DEF Debt
<1> QED
  BY <1>1, <1>2, <1>3 DEF CrashesPay, StoreTypes

-----------------------------------------------------------------------------
(* Every step keeps the invariant.                                         *)

LEMMA StoreInvInit == StoreInit => StoreInv
<1> SUFFICES ASSUME StoreInit
             PROVE  StoreInv
  OBVIOUS
<1>1. StoreTypes
  <2>1. IsASequence(parent)
    <3>1. parent \in Seq({})
      BY DEF StoreInit
    <3> QED
      BY <3>1 DEF IsASequence
  <2> QED
    BY <2>1 DEF StoreInit, StoreTypes, Stages
<1>2. OneWriter /\ WriterIsAtTheEnd
  BY DEF StoreInit, OneWriter, WriterIsAtTheEnd, Writing
<1>3. Members(acked) = {}
  BY DEF StoreInit, Members
<1>4. AckedWereBegun /\ OpenIsNotAcked(lines) /\ OpenIsNotAcked(durable) /\ DiskHolds
  BY <1>3 DEF AckedWereBegun, OpenIsNotAcked, DiskHolds
<1>5. Lost = {} /\ ~InDebt
  BY <1>3 DEF Lost, InDebt, StoreInit, Writing, IsOpen
<1>6. CrashesPay
  BY <1>5, FS_EmptySet DEF CrashesPay, Debt, StoreInit
<1> QED
  BY <1>1, <1>2, <1>4, <1>6 DEF StoreInv

(* A step of a process that neither writes nor stops writing: it loads,    *)
(* takes the lock, or leaves.                                              *)
LEMMA WritesNothing ==
    ASSUME StoreInv, NEW p \in Procs, stage[p] \notin {"locked"} \cup Writing,
           NEW x \in Stages \ Writing, stage' = [stage EXCEPT ![p] = x],
           UNCHANGED <<file, mine, acked>>,
           \/ crashes' = crashes
           \/ crashes' = crashes + 1,
           \/ x # "locked" /\ lock' = lock \ {p}
           \/ x # "locked" /\ lock' = lock
           \/ x = "locked" /\ lock = {} /\ lock' = {p}
    PROVE  StoreInv'
<1> USE DEF file
<1>1. StoreTypes'
  BY DEF StoreInv, StoreTypes
<1>2. \A q \in Procs : q # p => stage'[q] = stage[q]
  BY DEF StoreInv, StoreTypes
<1>3. stage'[p] = x
  BY DEF StoreInv, StoreTypes
<1>4. OneWriter'
  BY <1>2, <1>3 DEF StoreInv, OneWriter
<1>5. \A q \in Procs : stage'[q] \in Writing <=> stage[q] \in Writing
  BY <1>2, <1>3
<1>6. WriterIsAtTheEnd'
  BY <1>2, <1>5, <1>3 DEF StoreInv, WriterIsAtTheEnd
<1>7. AckedWereBegun' /\ OpenIsNotAcked(lines)' /\ OpenIsNotAcked(durable)' /\ DiskHolds'
  <2>1. Members(acked)' = Members(acked) /\ Held(lines)' = Held(lines) /\ Held(durable)' = Held(durable)
    BY DEF Members, Held
  <2>2. AckedWereBegun' /\ DiskHolds'
    BY <2>1 DEF StoreInv, AckedWereBegun, DiskHolds
  <2>3. OpenIsNotAcked(lines)' /\ OpenIsNotAcked(durable)'
    BY <2>1 DEF StoreInv, OpenIsNotAcked, IsOpen
  <2> QED
    BY <2>2, <2>3
<1>8. Lost' = Lost /\ (InDebt' => InDebt)
  BY <1>5 DEF Lost, InDebt, IsOpen, Held, Members
<1>9. CrashesPay'
  BY <1>8, PaysOn DEF StoreInv
<1> QED
  BY <1>1, <1>4, <1>6, <1>7, <1>9 DEF StoreInv

LEMMA WriteRecordKeeps ==
    ASSUME StoreInv, NEW p \in Procs, WriteRecord(p)
    PROVE  StoreInv'
<1> DEFINE r == Len(parent) + 1
           text == Line(r, FALSE, FALSE)
<1>1. /\ stage[p] = "locked" /\ stage' = [stage EXCEPT ![p] = "written"]
      /\ lines' = Written(text, lines) /\ mine' = [mine EXCEPT ![p] = r]
      /\ UNCHANGED <<durable, lock, acked, crashes>>
      /\ parent' = Append(parent, chosen[p])
  BY DEF WriteRecord
<1>2. StoreTypes /\ lines \in Seq(AnyLine)
  BY DEF StoreInv, StoreTypes
<1>3. PICK S : parent \in Seq(S)
  BY <1>2 DEF StoreTypes, IsASequence
<1>4. parent' \in Seq(S \cup {chosen[p]}) /\ Len(parent') = r /\ r \in Nat
  <2>1. parent \in Seq(S \cup {chosen[p]})
    BY <1>3
  <2> QED
    BY <1>1, <1>3, <2>1
<1>5. text \in AnyLine /\ ~text.ended /\ text.record = r
  BY <1>4 DEF Line, AnyLine
<1> HIDE DEF r, text
<1>6. /\ lines' \in Seq(AnyLine) /\ lines' # <<>> /\ IsOpen(lines')
      /\ lines'[Len(lines')].record \in {0, r}
      /\ Held(lines') \subseteq Held(lines) \cup {0, r}
      /\ \A n \in Held(lines) : n \in Held(lines') \/ (IsOpen(lines) /\ n = lines[Len(lines)].record)
      /\ ~IsOpen(lines) => r \in Held(lines')
  <2>1. lines' \in Seq(AnyLine)
    BY <1>1, <1>2, <1>5, WrittenIs
  <2>2. /\ lines' # <<>> /\ IsOpen(lines')
        /\ lines'[Len(lines')].record \in {0, text.record}
        /\ Held(lines') \subseteq Held(lines) \cup {0, text.record}
        /\ \A n \in Held(lines) : n \in Held(lines') \/ (IsOpen(lines) /\ n = lines[Len(lines)].record)
        /\ ~IsOpen(lines) => text.record \in Held(lines')
    BY <1>1, <1>2, <1>5, WrittenHolds
  <2> QED
    BY <1>5, <2>1, <2>2
<1>7. StoreTypes'
  <2>1. IsASequence(parent)'
    BY <1>4 DEF IsASequence
  <2>2. stage' \in [Procs -> Stages] /\ mine' \in [Procs -> Nat]
    BY <1>1, <1>2, <1>4 DEF StoreTypes, Stages, Writing
  <2> QED
    BY <1>1, <1>2, <1>6, <2>1, <2>2 DEF StoreTypes
<1>8. /\ \A q \in Procs : q # p => stage'[q] = stage[q] /\ stage[q] \notin {"locked"} \cup Writing
      /\ stage'[p] = "written" /\ mine'[p] = r /\ lock = {p}
  BY <1>1, <1>2 DEF StoreInv, OneWriter, StoreTypes
<1>9. OneWriter'
  BY <1>1, <1>8 DEF OneWriter
<1>10. WriterIsAtTheEnd'
  <2>1. r \in 1..Len(parent)'
    BY <1>3, <1>4 DEF r
  <2>2. ~lines'[Len(lines')].ended
    BY <1>6 DEF IsOpen
  <2> QED
    BY <1>6, <1>8, <2>1, <2>2 DEF WriterIsAtTheEnd
<1>11. Members(acked)' = Members(acked) /\ Members(acked) \subseteq 1..Len(parent)
  BY <1>1 DEF StoreInv, AckedWereBegun, Members
<1>12. AckedWereBegun'
  BY <1>3, <1>4, <1>11 DEF AckedWereBegun, r
<1>13. r \notin Members(acked) /\ 0 \notin Members(acked)
  BY <1>3, <1>11 DEF r
<1>14. OpenIsNotAcked(lines)' /\ OpenIsNotAcked(durable)'
  BY <1>1, <1>6, <1>11, <1>13 DEF StoreInv, OpenIsNotAcked, IsOpen
<1>15. DiskHolds'
  <2>1. Held(durable)' = Held(durable)
    BY <1>1 DEF Held
  <2> QED
    BY <1>6, <1>11, <1>13, <2>1 DEF StoreInv, DiskHolds
<1>16. Lost' \subseteq Lost
  BY <1>6, <1>11 DEF StoreInv, OpenIsNotAcked, Lost
<1>17. InDebt' => InDebt
  <2>1. r \in Held(lines') => ~InDebt'
    BY <1>8 DEF InDebt, Writing
  <2>2. IsOpen(lines) => InDebt
    BY <1>1, <1>8 DEF InDebt, Writing
  <2> QED
    BY <1>6, <2>1, <2>2
<1>18. CrashesPay'
  BY <1>1, <1>16, <1>17, PaysOn DEF StoreInv
<1> QED
  BY <1>7, <1>9, <1>10, <1>12, <1>14, <1>15, <1>18 DEF StoreInv

LEMMA WriteNewlineKeeps ==
    ASSUME StoreInv, NEW p \in Procs, WriteNewline(p)
    PROVE  StoreInv'
<1>1. /\ stage[p] = "written" /\ stage' = [stage EXCEPT ![p] = "ended"]
      /\ lines' = Ended(lines)
      /\ UNCHANGED <<durable, parent, lock, mine, acked, crashes>>
  BY DEF WriteNewline, Ended, local
<1>2. StoreTypes /\ lines \in Seq(AnyLine) /\ lines # <<>>
  BY <1>1 DEF StoreInv, StoreTypes, WriterIsAtTheEnd, Writing
<1>3. /\ lines' \in Seq(AnyLine) /\ lines' # <<>> /\ lines'[Len(lines')].ended
      /\ Held(lines') = Held(lines)
  BY <1>1, <1>2, EndedHolds
<1>4. StoreTypes'
  BY <1>1, <1>2, <1>3 DEF StoreTypes, Stages, Writing
<1>5. /\ \A q \in Procs : q # p => stage'[q] = stage[q] /\ stage[q] \notin {"locked"} \cup Writing
      /\ stage'[p] = "ended" /\ lock = {p}
  BY <1>1, <1>2 DEF StoreInv, OneWriter, StoreTypes, Writing
<1>6. OneWriter'
  BY <1>1, <1>5 DEF OneWriter
<1>7. WriterIsAtTheEnd'
  BY <1>1, <1>3, <1>5 DEF StoreInv, WriterIsAtTheEnd, Writing
<1>8. Members(acked)' = Members(acked) /\ AckedWereBegun'
  BY <1>1 DEF StoreInv, AckedWereBegun, Members
<1>9. OpenIsNotAcked(lines)' /\ OpenIsNotAcked(durable)'
  BY <1>1, <1>3, <1>8 DEF StoreInv, OpenIsNotAcked, IsOpen
<1>10. DiskHolds'
  BY <1>1, <1>3, <1>8 DEF StoreInv, DiskHolds, Held
<1>11. Lost' = Lost
  BY <1>3, <1>8 DEF Lost
<1>12. InDebt' => InDebt
  BY <1>1, <1>3, <1>5 DEF InDebt, Writing
<1>13. CrashesPay'
  BY <1>1, <1>11, <1>12, PaysOn DEF StoreInv
<1> QED
  BY <1>4, <1>6, <1>7, <1>8, <1>9, <1>10, <1>13 DEF StoreInv

LEMMA FinishKeeps ==
    ASSUME StoreInv, NEW p \in Procs, Finish(p)
    PROVE  StoreInv'
<1>1. /\ stage[p] = "ended" /\ stage' = [stage EXCEPT ![p] = "idle"]
      /\ durable' = lines /\ acked' = Append(acked, mine[p])
      /\ mine' = [mine EXCEPT ![p] = 0] /\ lock' = {}
      /\ UNCHANGED <<lines, parent, crashes>>
  BY DEF Finish, Synchronise
<1>2. /\ StoreTypes /\ lines \in Seq(AnyLine) /\ acked \in Seq(Nat)
      /\ mine[p] \in 1..Len(parent) /\ mine[p] \in Nat /\ Len(parent) \in Nat
      /\ lines # <<>> /\ lines[Len(lines)].ended
  <2>1. StoreTypes /\ lines \in Seq(AnyLine) /\ acked \in Seq(Nat) /\ mine[p] \in Nat
    BY DEF StoreInv, StoreTypes
  <2>2. Len(parent) \in Nat
    BY <2>1 DEF StoreTypes, IsASequence
  <2>3. mine[p] \in 1..Len(parent) /\ lines # <<>> /\ lines[Len(lines)].ended
    BY <1>1 DEF StoreInv, WriterIsAtTheEnd, Writing
  <2> QED
    BY <2>1, <2>2, <2>3
<1>3. StoreTypes'
  BY <1>1, <1>2 DEF StoreTypes, Stages, Writing
<1>4. /\ \A q \in Procs : stage'[q] \notin {"locked"} \cup Writing
  BY <1>1, <1>2 DEF StoreInv, OneWriter, StoreTypes, Writing
<1>5. OneWriter' /\ WriterIsAtTheEnd'
  BY <1>4 DEF OneWriter, WriterIsAtTheEnd
<1>6. Members(acked)' = Members(acked) \cup {mine[p]}
  <2>1. /\ acked' \in Seq(Nat) /\ Len(acked') = Len(acked) + 1
        /\ acked'[Len(acked) + 1] = mine[p]
        /\ \A i \in 1..Len(acked) : acked'[i] = acked[i]
    BY <1>1, <1>2
  <2>2. /\ \A i \in 1..Len(acked') : i # Len(acked) + 1 => i \in 1..Len(acked)
        /\ \A i \in 1..Len(acked) : i \in 1..Len(acked')
        /\ Len(acked) + 1 \in 1..Len(acked')
    BY <1>2, <2>1
  <2>3. /\ Members(acked) = {acked[i] : i \in 1..Len(acked)}
        /\ Members(acked)' = {acked'[i] : i \in 1..Len(acked')}
    <3>1. DOMAIN acked = 1..Len(acked) /\ DOMAIN acked' = 1..Len(acked')
      BY <1>2, <2>1
    <3> QED
      BY <3>1 DEF Members
  <2>4. \A x \in Members(acked)' : x \in Members(acked) \cup {mine[p]}
    BY <2>1, <2>2, <2>3
  <2>5. \A x \in Members(acked) \cup {mine[p]} : x \in Members(acked)'
    BY <2>1, <2>2, <2>3
  <2> QED
    BY <2>4, <2>5
<1>7. AckedWereBegun'
  BY <1>1, <1>2, <1>6 DEF StoreInv, AckedWereBegun
<1>8. ~IsOpen(lines)' /\ ~IsOpen(durable)'
  BY <1>1, <1>2 DEF IsOpen
<1>9. OpenIsNotAcked(lines)' /\ OpenIsNotAcked(durable)' /\ DiskHolds'
  BY <1>1, <1>8 DEF OpenIsNotAcked, DiskHolds, Held, IsOpen
<1>10. Debt' = 0
  BY <1>4, <1>8 DEF Debt, InDebt
<1>11. IsFiniteSet(Lost) /\ Cardinality(Lost) \in Nat
  BY LostIsCounted DEF StoreInv
<1>12. CASE mine[p] \in Held(lines)
  <2>1. Lost' \subseteq Lost /\ ~InDebt'
    BY <1>1, <1>4, <1>6, <1>8, <1>12 DEF Lost, Held, InDebt
  <2>2. CrashesPay'
    BY <1>1, <2>1, PaysOn DEF StoreInv
  <2> QED
    BY <1>3, <1>5, <1>7, <1>9, <2>2 DEF StoreInv
<1>13. CASE mine[p] \notin Held(lines)
  <2>1. Debt = 1
    BY <1>1, <1>13 DEF Debt, InDebt, Writing
  <2>2. Lost' = Lost \cup {mine[p]}
    BY <1>1, <1>6, <1>13 DEF Lost, Held
  <2>3. Cardinality(Lost') \in Nat /\ Cardinality(Lost') <= Cardinality(Lost) + 1
    <3> DEFINE L == Lost
               M == Lost'
    <3>1. IsFiniteSet(L) /\ Cardinality(L) \in Nat /\ M = L \cup {mine[p]}
      BY <1>11, <2>2
    <3> HIDE DEF L, M
    <3>2. Cardinality(M) = Cardinality(L) \/ Cardinality(M) = Cardinality(L) + 1
      BY <3>1, FS_AddElement
    <3>3. Cardinality(M) \in Nat /\ Cardinality(M) <= Cardinality(L) + 1
      BY <3>1, <3>2
    <3> QED
      BY <3>3 DEF L, M
  <2>4. CrashesPay'
    BY <1>1, <1>2, <1>10, <1>11, <2>1, <2>3 DEF StoreInv, CrashesPay, StoreTypes
  <2> QED
    BY <1>3, <1>5, <1>7, <1>9, <2>4 DEF StoreInv
<1> QED
  BY <1>12, <1>13


\* A file that a crash may leave: it keeps whatever returned.
Keeps(ls) ==
    ls \in Seq(AnyLine) /\ OpenIsNotAcked(ls)
        /\ Members(acked) \cap Held(lines) \subseteq Held(ls)

LEMMA PieceKeeps ==
    ASSUME StoreInv, NEW ls, Keeps(ls), NEW c \in BOOLEAN
    PROVE  Keeps(Written(Line(0, FALSE, c), ls))
<1> DEFINE text == Line(0, FALSE, c)
           ws == Written(text, ls)
<1>1. text \in AnyLine /\ ~text.ended /\ text.record = 0
  BY DEF Line, AnyLine
<1>2. ls \in Seq(AnyLine)
  BY DEF Keeps
<1> HIDE DEF text
<1>3. ws \in Seq(AnyLine)
  BY <1>1, <1>2, WrittenIs
<1>4. /\ ws[Len(ws)].record \in {0, text.record}
      /\ \A r \in Held(ls) : r \in Held(ws) \/ (IsOpen(ls) /\ r = ls[Len(ls)].record)
  BY <1>1, <1>2, WrittenHolds
<1> HIDE DEF ws
<1>5. 0 \notin Members(acked)
  BY DEF StoreInv, AckedWereBegun
<1>6. OpenIsNotAcked(ws)
  BY <1>1, <1>4, <1>5 DEF OpenIsNotAcked
<1>7. Members(acked) \cap Held(lines) \subseteq Held(ws)
  BY <1>4 DEF Keeps, OpenIsNotAcked
<1> QED
  BY <1>3, <1>6, <1>7 DEF Keeps, ws, text

LEMMA FilesKeep == StoreInv => Keeps(lines) /\ Keeps(durable)
  BY DEF StoreInv, StoreTypes, Keeps, DiskHolds

(* What a crash leaves of the account.                                     *)
LEMMA CrashPays ==
    ASSUME StoreInv, Keeps(lines'), acked' = acked, crashes' = crashes + 1,
           UNCHANGED parent
    PROVE  AckedWereBegun' /\ OpenIsNotAcked(lines)' /\ CrashesPay'
<1>1. Members(acked)' = Members(acked) /\ AckedWereBegun'
  BY DEF Members, StoreInv, AckedWereBegun
<1>2. OpenIsNotAcked(lines)'
  BY <1>1 DEF Keeps, OpenIsNotAcked
<1>3. Lost' \subseteq Lost
  BY <1>1 DEF Keeps, Lost
<1> QED
  BY <1>1, <1>2, <1>3, PaysOn DEF StoreInv

LEMMA CrashKeeps ==
    ASSUME StoreInv, NEW p \in Procs, Crash(p)
    PROVE  StoreInv'
<1>1. /\ crashes' = crashes + 1 /\ lines' \in LeftBy(p)
      /\ stage' = [stage EXCEPT ![p] = "off"] /\ lock' = lock \ {p}
      /\ mine' = [mine EXCEPT ![p] = 0]
      /\ UNCHANGED <<durable, parent, acked>>
  BY DEF Crash
<1>2. StoreTypes
  BY DEF StoreInv
<1>3. \/ lines' = lines
      \/ /\ stage[p] = "locked"
         /\ \E c \in BOOLEAN : lines' = Written(Line(0, FALSE, c), lines)
  BY <1>1 DEF LeftBy
<1>4. Keeps(lines')
  BY <1>3, FilesKeep, PieceKeeps
<1>5. AckedWereBegun' /\ OpenIsNotAcked(lines)' /\ CrashesPay'
  BY <1>1, <1>4, CrashPays
<1>6. StoreTypes'
  <2>1. lines' \in Seq(AnyLine)
    BY <1>4 DEF Keeps
  <2> QED
    BY <1>1, <1>2, <2>1 DEF StoreTypes, Stages
<1>7. stage'[p] = "off" /\ \A q \in Procs : q # p => stage'[q] = stage[q] /\ mine'[q] = mine[q]
  BY <1>1, <1>2 DEF StoreTypes
<1>8. OneWriter'
  BY <1>1, <1>7 DEF StoreInv, OneWriter, Writing
<1>9. WriterIsAtTheEnd'
  <2> SUFFICES ASSUME NEW q \in Procs, stage'[q] \in Writing
               PROVE  mine'[q] \in 1..Len(parent') /\ lines' # <<>>
                        /\ (lines'[Len(lines')].ended <=> stage'[q] = "ended")
    BY DEF WriterIsAtTheEnd
  <2>1. q # p /\ stage[q] \in Writing
    BY <1>7 DEF Writing
  <2>2. stage[p] # "locked"
    BY <2>1 DEF StoreInv, OneWriter
  <2>3. lines' = lines
    BY <1>3, <2>2
  <2> QED
    BY <1>1, <1>7, <2>1, <2>3 DEF StoreInv, WriterIsAtTheEnd
<1>10. OpenIsNotAcked(durable)'
  BY <1>1 DEF StoreInv, OpenIsNotAcked, IsOpen, Members
<1>11. DiskHolds'
  <2>1. Members(acked)' = Members(acked) /\ Held(durable)' = Held(durable)
    BY <1>1 DEF Members, Held
  <2>2. CASE lines' = lines
    BY <2>1, <2>2 DEF StoreInv, DiskHolds
  <2>3. CASE /\ stage[p] = "locked"
             /\ \E c \in BOOLEAN : lines' = Written(Line(0, FALSE, c), lines)
    <3>1. PICK c \in BOOLEAN : lines' = Written(Line(0, FALSE, c), lines)
      BY <2>3
    <3>2. Line(0, FALSE, c) \in AnyLine /\ ~Line(0, FALSE, c).ended
            /\ Line(0, FALSE, c).record = 0
      BY DEF Line, AnyLine
    <3>3. Held(lines') \subseteq Held(lines) \cup {0}
      BY <1>2, <3>1, <3>2, WrittenHolds DEF StoreTypes
    <3>4. 0 \notin Members(acked)
      BY DEF StoreInv, AckedWereBegun
    <3> QED
      BY <2>1, <3>3, <3>4 DEF StoreInv, DiskHolds
  <2> QED
    BY <1>3, <2>2, <2>3
<1> QED
  BY <1>5, <1>6, <1>8, <1>9, <1>10, <1>11 DEF StoreInv

LEMMA PowerLossKeeps ==
    ASSUME StoreInv, PowerLoss
    PROVE  StoreInv'
<1>1. /\ crashes' = crashes + 1 /\ durable' = lines'
      /\ \/ lines' = lines
         \/ lines' = durable
         \/ \E c \in BOOLEAN : lines' = Written(Line(0, FALSE, c), durable)
      /\ stage' = [p \in Procs |-> "off"] /\ lock' = {}
      /\ mine' = [p \in Procs |-> 0]
      /\ UNCHANGED <<parent, acked>>
  BY DEF PowerLoss
<1>2. Keeps(lines')
  BY <1>1, FilesKeep, PieceKeeps
<1>3. AckedWereBegun' /\ OpenIsNotAcked(lines)' /\ CrashesPay'
  BY <1>1, <1>2, CrashPays
<1>4. StoreTypes'
  <2>1. lines' \in Seq(AnyLine)
    BY <1>2 DEF Keeps
  <2> QED
    BY <1>1, <2>1 DEF StoreInv, StoreTypes, Stages
<1>5. OneWriter' /\ WriterIsAtTheEnd'
  BY <1>1 DEF OneWriter, WriterIsAtTheEnd, Writing
<1>6. OpenIsNotAcked(durable)' /\ DiskHolds'
  BY <1>1, <1>3 DEF OpenIsNotAcked, IsOpen, DiskHolds, Held
<1> QED
  BY <1>3, <1>4, <1>5, <1>6 DEF StoreInv

LEMMA StoreInvNext == StoreInv /\ [StoreNext]_storeVars => StoreInv'
<1> SUFFICES ASSUME StoreInv, [StoreNext]_storeVars
             PROVE  StoreInv'
  OBVIOUS
<1> USE DEF file
<1>1. ASSUME NEW p \in Procs, LoadRead(p)
      PROVE  StoreInv'
  <2>1. "loading" \in Stages \ Writing
    BY DEF Stages, Writing
  <2> QED
    BY <1>1, <2>1, WritesNothing DEF LoadRead, Writing
<1>2. ASSUME NEW p \in Procs, LoadRemember(p)
      PROVE  StoreInv'
  <2>1. "idle" \in Stages \ Writing
    BY DEF Stages, Writing
  <2> QED
    BY <1>2, <2>1, WritesNothing DEF LoadRemember, Writing
<1>3. ASSUME NEW p \in Procs, Acquire(p)
      PROVE  StoreInv'
  <2>1. "locked" \in Stages \ Writing
    BY DEF Stages, Writing
  <2> QED
    BY <1>3, <2>1, WritesNothing DEF Acquire, LockIsFree, Writing
<1>4. ASSUME NEW p \in Procs, Close(p)
      PROVE  StoreInv'
  <2>1. "off" \in Stages \ Writing
    BY DEF Stages, Writing
  <2> QED
    BY <1>4, <2>1, WritesNothing DEF Close, Writing
<1>5. CASE UNCHANGED storeVars
  <2>1. UNCHANGED <<lines, durable, parent, stage, lock, mine, acked, crashes>>
    BY <1>5 DEF storeVars, local
  <2>2. /\ StoreTypes' /\ OneWriter' /\ WriterIsAtTheEnd' /\ AckedWereBegun'
        /\ OpenIsNotAcked(lines)' /\ OpenIsNotAcked(durable)'
    BY <2>1 DEF StoreInv, StoreTypes, OneWriter, WriterIsAtTheEnd, AckedWereBegun,
       OpenIsNotAcked, IsOpen, Members
  <2>3. DiskHolds' /\ Lost' = Lost /\ (InDebt' => InDebt)
    BY <2>1 DEF StoreInv, DiskHolds, Lost, Held, Members, InDebt, IsOpen
  <2> QED
    BY <2>1, <2>2, <2>3, PaysOn DEF StoreInv
<1> QED
  BY <1>1, <1>2, <1>3, <1>4, <1>5, WriteRecordKeeps, WriteNewlineKeeps, FinishKeeps,
     CrashKeeps, PowerLossKeeps DEF StoreNext

LEMMA StoreIsSound == StoreSpec => []StoreInv
<1> QED
  BY StoreInvInit, StoreInvNext, PTL DEF StoreSpec

(* However many processes append, are killed or lose power at once, an     *)
(* append that returned is lost only to a crash, one to each.              *)
THEOREM AppendsSurvive == StoreSpec => []AckedSurvive
<1>1. StoreInv => AckedSurvive
  <2> SUFFICES ASSUME StoreInv, IsText
               PROVE  Cardinality({r \in Members(acked) : ~IsReadable(r)}) <= crashes
    BY DEF AckedSurvive
  <2>1. 0 \notin Members(acked)
    BY DEF StoreInv, AckedWereBegun
  <2>2. {r \in Members(acked) : ~IsReadable(r)} = Lost
    BY <2>1 DEF IsReadable, Lost, Held
  <2>3. Cardinality(Lost) \in Nat /\ Debt \in {0, 1} /\ crashes \in Nat
    BY LostIsCounted DEF StoreInv, Debt, StoreTypes
  <2> QED
    BY <2>2, <2>3 DEF StoreInv, CrashesPay
<1> QED
  BY <1>1, StoreIsSound, PTL

-----------------------------------------------------------------------------
(* One conversation, as long as nothing goes wrong.                        *)

Counted(n) == [i \in 1 .. n |-> i]

LEMMA CountedIs ==
    ASSUME NEW n \in Nat
    PROVE  /\ Counted(n) \in Seq(Nat) /\ Len(Counted(n)) = n
           /\ \A i \in 1 .. n : Counted(n)[i] = i
           /\ Counted(n + 1) = Append(Counted(n), n + 1)
  BY DEF Counted

LEMMA OneByOneIsCounted ==
    ASSUME NEW n \in Nat
    PROVE  FlattenSeq([i \in 1 .. n |-> <<i>>]) = Counted(n)
<1> DEFINE Each(k) == [i \in 1 .. k |-> <<i>>]
           Fine == {k \in Nat : FlattenSeq(Each(k)) = Counted(k)}
<1>1. \A k \in Nat : Each(k) \in Seq(Seq(Nat)) /\ Len(Each(k)) = k
  OBVIOUS
<1>2. \A k \in Nat : Each(k + 1) = Append(Each(k), <<k + 1>>)
  OBVIOUS
<1> HIDE DEF Each
<1>3. 0 \in Fine
  <2>1. FlattenSeq(Each(0)) = <<>>
    BY <1>1, FlattenIs
  <2>2. Counted(0) = <<>>
    BY DEF Counted
  <2>3. FlattenSeq(Each(0)) = Counted(0)
    BY <2>1, <2>2, Zenon
  <2>4. 0 \in Nat
    OBVIOUS
  <2> QED
    BY <2>3, <2>4, Zenon
<1>4. ASSUME NEW k \in Nat, k \in Fine
      PROVE  k + 1 \in Fine
  <2>1. <<k + 1>> \in Seq(Nat)
    OBVIOUS
  <2>2. FlattenSeq(Append(Each(k), <<k + 1>>)) = FlattenSeq(Each(k)) \o <<k + 1>>
    BY <1>1, <2>1, FlattenAppends
  <2>3. FlattenSeq(Each(k + 1)) = Counted(k) \o <<k + 1>>
    BY <1>2, <1>4, <2>2
  <2>4. Counted(k) \o <<k + 1>> = Append(Counted(k), k + 1)
    BY CountedIs
  <2>5. FlattenSeq(Each(k + 1)) = Counted(k + 1)
    BY <2>3, <2>4, CountedIs
  <2>6. k + 1 \in Nat
    OBVIOUS
  <2> QED
    BY <2>5, <2>6, Zenon
<1> HIDE DEF Fine
<1>5. Nat \subseteq Fine
  BY <1>3, <1>4, InductionOverASet
<1> QED
  BY <1>5 DEF Fine, Each

\* What is so while nothing crashed and no load annotated what it did not read:
\* the n-th line is the n-th record, and its parent the one before it.
InStep ==
    /\ size \in Nat /\ tip \in [Procs -> [record : Nat, size : Nat]]
    /\ seen \in [Procs -> Nat] /\ chosen \in [Procs -> Nat]
    /\ parent \in Seq(Nat) /\ Len(lines) = Len(parent)
    /\ \A i \in 1 .. Len(lines) : lines[i].record = i /\ ~lines[i].cut
    /\ \A i \in 1 .. Len(parent) : parent[i] = i - 1

\* Every append returned but the one under way.
AckedButOne ==
    /\ (\A p \in Procs : stage[p] \notin Writing) => acked = Counted(Len(parent))
    /\ \A p \in Procs : stage[p] \in Writing =>
          mine[p] = Len(parent) /\ acked = Counted(Len(parent) - 1)

\* A line has no end only while it is written.
OpenIsWritten == IsOpen(lines) => \E p \in Procs : stage[p] = "written"

\* A tip remembered with the length the file has is the last record.
TipsAgree ==
    /\ \A p \in Procs : tip[p].size <= size
    /\ \A p \in Procs : TipIsCurrent(p) => tip[p].record = Len(parent)
    /\ \A p \in Procs : stage[p] = "locked" => chosen[p] = Len(parent)

IsStraight == InStep /\ AckedButOne /\ OpenIsWritten /\ TipsAgree

StraightInv == crashes = 0 /\ ~raced => IsStraight

LEMMA RecordsAreCounted ==
    ASSUME StoreInv, InStep
    PROVE  /\ IsText /\ Records = Counted(Len(parent))
           /\ LastRecord = Len(parent) /\ Len(parent) \in Nat
<1>1. lines \in Seq(AnyLine) /\ Len(lines) \in Nat /\ DOMAIN lines = 1 .. Len(lines)
  BY DEF StoreInv, StoreTypes
<1>2. IsText
  BY <1>1 DEF InStep, IsText
<1>3. [i \in DOMAIN lines |-> IF lines[i].record = 0 THEN <<>> ELSE <<lines[i].record>>]
          = [i \in 1 .. Len(lines) |-> <<i>>]
  BY <1>1 DEF InStep
<1>4. Records = Counted(Len(parent))
  BY <1>1, <1>2, <1>3, OneByOneIsCounted DEF Records, InStep
<1>5. LastRecord = Len(parent)
  <2> DEFINE n == Len(parent)
  <2>1. n \in Nat /\ Counted(n) \in Seq(Nat) /\ Len(Counted(n)) = n
          /\ \A i \in 1 .. n : Counted(n)[i] = i
    BY <1>1, CountedIs DEF InStep
  <2> HIDE DEF n
  <2>2. CASE n = 0
    <3>1. Counted(n) = <<>>
      BY <2>1, <2>2
    <3> QED
      BY <1>4, <2>2, <3>1 DEF LastRecord, n
  <2>3. CASE n # 0
    <3>1. Counted(n) # <<>> /\ n \in 1 .. n
      BY <2>1, <2>3
    <3> QED
      BY <1>4, <2>1, <3>1 DEF LastRecord, n
  <2> QED
    BY <2>2, <2>3
<1> QED
  BY <1>1, <1>2, <1>4, <1>5 DEF InStep

(* The path to the last record is then all of them.                        *)
LEMMA PathIsCounted ==
    ASSUME StoreInv, InStep
    PROVE  Conversation = Counted(Len(parent))
<1> DEFINE n == Len(parent)
           readable == {Records[i] : i \in DOMAIN Records}
           Path(f) == f = [r \in 0 .. n |-> IF r \in readable THEN Append(f[parent[r]], r) ELSE <<>>]
           followed == [r \in 0 .. n |-> Counted(r)]
           path == CHOOSE f : Path(f)
<1>1. n \in Nat /\ LastRecord = n
  BY RecordsAreCounted
<1>2. readable = 1 .. n
  <2>1. Records = Counted(n) /\ DOMAIN Counted(n) = 1 .. n
    BY <1>1, RecordsAreCounted DEF Counted
  <2> QED
    BY <2>1 DEF Counted
<1>3. \A r \in 1 .. n : parent[r] = r - 1 /\ r - 1 \in 0 .. n /\ r - 1 \in Nat
  BY <1>1 DEF InStep
<1> HIDE DEF readable, n
<1>4. Path(followed)
  <2>1. ASSUME NEW r \in 0 .. n
        PROVE  followed[r] = IF r \in readable THEN Append(followed[parent[r]], r) ELSE <<>>
    <3>1. CASE r \in 1 .. n
      <4>1. followed[parent[r]] = Counted(r - 1) /\ (r - 1) + 1 = r
        BY <1>3, <3>1
      <4>2. Counted(r) = Append(Counted(r - 1), r)
        BY <1>3, <3>1, <4>1, CountedIs
      <4> QED
        BY <1>2, <3>1, <4>1, <4>2
    <3>2. CASE r \notin 1 .. n
      <4>1. r = 0 /\ followed[r] = Counted(0)
        BY <1>1, <3>2
      <4> QED
        BY <1>2, <3>2, <4>1 DEF Counted
    <3> QED
      BY <3>1, <3>2
  <2>2. followed = [r \in 0 .. n |-> followed[r]]
    OBVIOUS
  <2> HIDE DEF followed
  <2> QED
    BY <2>1, <2>2
<1>5. Path(path)
  <2> HIDE DEF Path, followed
  <2> QED
    BY <1>4
<1>6. Conversation = path[n]
  BY <1>1 DEF Conversation, PathTo, n, readable
<1> HIDE DEF path
<1>7. \A r \in 0 .. n : path[r] = IF r \in readable THEN Append(path[parent[r]], r) ELSE <<>>
  BY <1>5
<1> DEFINE Fine == {k \in Nat : k <= n => path[k] = Counted(k)}
<1>8. 0 \in Fine
  <2>1. 0 \in 0 .. n /\ 0 \notin readable
    BY <1>1, <1>2
  <2> QED
    BY <1>7, <2>1 DEF Counted
<1>9. ASSUME NEW k \in Nat, k \in Fine
      PROVE  k + 1 \in Fine
  <2> SUFFICES ASSUME k + 1 <= n
               PROVE  path[k + 1] = Counted(k + 1)
    OBVIOUS
  <2>1. k + 1 \in 1 .. n /\ k + 1 \in 0 .. n /\ (k + 1) - 1 = k /\ k <= n
    BY <1>1
  <2>2. path[k + 1] = Append(path[k], k + 1) /\ path[k] = Counted(k)
    BY <1>2, <1>3, <1>7, <1>9, <2>1
  <2> QED
    BY <2>2, CountedIs
<1> HIDE DEF Fine
<1>10. Nat \subseteq Fine
  BY <1>8, <1>9, InductionOverASet
<1>11. path[n] = Counted(n)
  BY <1>1, <1>10 DEF Fine
<1> QED
  BY <1>6, <1>11 DEF n

(* A step that leaves the file alone, and neither starts nor ends a write. *)
LEMMA StaysStraight ==
    ASSUME StoreInv, IsStraight, NEW p \in Procs, stage[p] \notin Writing,
           NEW x \in Stages \ Writing, stage' = [stage EXCEPT ![p] = x],
           UNCHANGED <<file, mine, acked>>,
           tip' \in [Procs -> [record : Nat, size : Nat]],
           seen' \in [Procs -> Nat], chosen' \in [Procs -> Nat], TipsAgree'
    PROVE  IsStraight'
<1>1. \A q \in Procs : stage'[q] \in Writing <=> stage[q] \in Writing
  BY DEF StoreInv, StoreTypes
<1>2. \A q \in Procs : stage[q] = "written" => stage'[q] = "written"
  BY DEF StoreInv, StoreTypes, Writing
<1>3. InStep'
  BY DEF IsStraight, InStep, file
<1>4. AckedButOne'
  BY <1>1 DEF IsStraight, AckedButOne, file
<1>5. OpenIsWritten'
  BY <1>2 DEF IsStraight, OpenIsWritten, IsOpen, file
<1> QED
  BY <1>3, <1>4, <1>5 DEF IsStraight

LEMMA LoadReadStaysStraight ==
    ASSUME StoreInv, IsStraight, NEW p \in Procs, LoadRead(p)
    PROVE  IsStraight'
<1>1. /\ stage[p] = "off" /\ stage' = [stage EXCEPT ![p] = "loading"]
      /\ UNCHANGED <<file, mine, acked>> /\ tip' = tip /\ chosen' = chosen
      /\ seen' = [seen EXCEPT ![p] = LastRecord]
  BY DEF LoadRead
<1>2. LastRecord \in Nat
  BY RecordsAreCounted DEF IsStraight
<1>3. /\ tip' \in [Procs -> [record : Nat, size : Nat]]
      /\ seen' \in [Procs -> Nat] /\ chosen' \in [Procs -> Nat]
  BY <1>1, <1>2 DEF IsStraight, InStep
<1>4. \A q \in Procs : stage'[q] = "locked" => stage[q] = "locked"
  BY <1>1 DEF StoreInv, StoreTypes
<1>5. TipsAgree'
  BY <1>1, <1>4 DEF IsStraight, TipsAgree, TipIsCurrent, file
<1>6. stage[p] \notin Writing /\ "loading" \in Stages \ Writing
  BY <1>1 DEF Writing, Stages
<1> QED
  BY <1>1, <1>3, <1>5, <1>6, StaysStraight

(* What is remembered of the last record is the last record.               *)
LEMMA RememberAgrees ==
    ASSUME IsStraight, NEW p \in Procs, NEW r, r = Len(parent), r \in Nat,
           tip' = tip \/ Remember(p, r), UNCHANGED <<parent, size>>
    PROVE  /\ tip' \in [Procs -> [record : Nat, size : Nat]]
           /\ \A q \in Procs : tip'[q].size <= size'
           /\ \A q \in Procs : TipIsCurrent(q)' => tip'[q].record = Len(parent')
<1>1. CASE tip' = tip
  BY <1>1 DEF IsStraight, InStep, TipsAgree, TipIsCurrent
<1>2. CASE Remember(p, r)
  <2> DEFINE t == [record |-> r, size |-> size]
  <2>1. tip' = [tip EXCEPT ![p] = t] /\ t.record = r /\ t.size = size
          /\ t \in [record : Nat, size : Nat] /\ size \in Nat
          /\ tip \in [Procs -> [record : Nat, size : Nat]]
    BY <1>2 DEF Remember, IsStraight, InStep
  <2> HIDE DEF t
  <2>2. tip'[p] = t /\ \A q \in Procs : q # p => tip'[q] = tip[q]
    BY <2>1
  <2>3. tip' \in [Procs -> [record : Nat, size : Nat]]
    BY <2>1
  <2>4. \A q \in Procs : tip'[q].size <= size'
    BY <2>1, <2>2 DEF IsStraight, TipsAgree
  <2>5. \A q \in Procs : TipIsCurrent(q)' => tip'[q].record = Len(parent')
    <3> SUFFICES ASSUME NEW q \in Procs, TipIsCurrent(q)'
                 PROVE  tip'[q].record = Len(parent')
      OBVIOUS
    <3>1. CASE q = p
      BY <2>1, <2>2, <3>1
    <3>2. CASE q # p
      <4>1. TipIsCurrent(q) /\ tip'[q] = tip[q]
        BY <2>2, <3>2 DEF TipIsCurrent
      <4> QED
        BY <4>1 DEF IsStraight, TipsAgree
    <3> QED
      BY <3>1, <3>2
  <2> QED
    BY <2>3, <2>4, <2>5
<1> QED
  BY <1>1, <1>2

LEMMA LoadRememberStaysStraight ==
    ASSUME StoreInv, IsStraight, NEW p \in Procs, LoadRemember(p), ~raced'
    PROVE  IsStraight'
<1>1. /\ stage[p] = "loading" /\ stage' = [stage EXCEPT ![p] = "idle"]
      /\ UNCHANGED <<file, mine, acked>> /\ chosen' = chosen
      /\ seen' = [seen EXCEPT ![p] = 0] /\ UNCHANGED <<parent, size>>
  BY DEF LoadRemember, file
<1>2. LastRecord = Len(parent) /\ LastRecord \in Nat
  BY RecordsAreCounted DEF IsStraight
<1>3. tip' = tip \/ Remember(p, LastRecord)
  BY DEF LoadRemember
<1>4. /\ tip' \in [Procs -> [record : Nat, size : Nat]]
      /\ \A q \in Procs : tip'[q].size <= size'
      /\ \A q \in Procs : TipIsCurrent(q)' => tip'[q].record = Len(parent')
  BY <1>1, <1>2, <1>3, RememberAgrees
<1>5. seen' \in [Procs -> Nat] /\ chosen' \in [Procs -> Nat]
  BY <1>1 DEF IsStraight, InStep
<1>6. \A q \in Procs : stage'[q] = "locked" => stage[q] = "locked"
  BY <1>1 DEF StoreInv, StoreTypes
<1>7. TipsAgree'
  BY <1>1, <1>4, <1>6 DEF IsStraight, TipsAgree
<1>8. stage[p] \notin Writing /\ "idle" \in Stages \ Writing
  BY <1>1 DEF Writing, Stages
<1> QED
  BY <1>1, <1>4, <1>5, <1>7, <1>8, StaysStraight

LEMMA AcquireStaysStraight ==
    ASSUME StoreInv, IsStraight, NEW p \in Procs, Acquire(p)
    PROVE  IsStraight'
<1>1. /\ stage[p] = "idle" /\ stage' = [stage EXCEPT ![p] = "locked"]
      /\ UNCHANGED <<file, mine, acked>> /\ seen' = seen
      /\ UNCHANGED <<parent, size>>
  BY DEF Acquire, file
<1>2. LastRecord = Len(parent) /\ LastRecord \in Nat
  BY RecordsAreCounted DEF IsStraight
<1>3. tip' = tip \/ Remember(p, LastRecord)
  BY DEF Acquire
<1>4. /\ tip' \in [Procs -> [record : Nat, size : Nat]]
      /\ \A q \in Procs : tip'[q].size <= size'
      /\ \A q \in Procs : TipIsCurrent(q)' => tip'[q].record = Len(parent')
  BY <1>1, <1>2, <1>3, RememberAgrees
<1>5. chosen' = [chosen EXCEPT ![p] = Len(parent)]
  <2>1. TipIsCurrent(p) => tip[p].record = Len(parent)
    BY DEF IsStraight, TipsAgree
  <2> QED
    BY <1>2, <2>1 DEF Acquire
<1>6. seen' \in [Procs -> Nat] /\ chosen' \in [Procs -> Nat]
  BY <1>1, <1>2, <1>5 DEF IsStraight, InStep
<1>7. \A q \in Procs : stage'[q] = "locked" => chosen'[q] = Len(parent')
  <2>1. chosen \in [Procs -> Nat] /\ stage \in [Procs -> Stages]
    BY DEF IsStraight, InStep, StoreInv, StoreTypes
  <2> QED
    BY <1>1, <1>5, <2>1 DEF IsStraight, TipsAgree
<1>8. TipsAgree'
  BY <1>4, <1>7 DEF TipsAgree
<1>9. stage[p] \notin Writing /\ "locked" \in Stages \ Writing
  BY <1>1 DEF Writing, Stages
<1> QED
  BY <1>1, <1>4, <1>6, <1>8, <1>9, StaysStraight

LEMMA CloseStaysStraight ==
    ASSUME StoreInv, IsStraight, NEW p \in Procs, Close(p)
    PROVE  IsStraight'
<1>1. /\ stage[p] = "idle" /\ stage' = [stage EXCEPT ![p] = "off"]
      /\ UNCHANGED <<file, mine, acked>> /\ chosen' = chosen /\ seen' = seen
      /\ tip' = [tip EXCEPT ![p] = NoTip] /\ UNCHANGED <<parent, size>>
  BY DEF Close, file
<1>2. /\ NoTip \in [record : Nat, size : Nat] /\ NoTip.record = 0 /\ NoTip.size = 0
      /\ size \in Nat /\ tip \in [Procs -> [record : Nat, size : Nat]]
  BY DEF NoTip, IsStraight, InStep
<1>3. tip'[p] = NoTip /\ \A q \in Procs : q # p => tip'[q] = tip[q]
  BY <1>1, <1>2
<1>4. /\ tip' \in [Procs -> [record : Nat, size : Nat]]
      /\ seen' \in [Procs -> Nat] /\ chosen' \in [Procs -> Nat]
  BY <1>1, <1>2 DEF IsStraight, InStep
<1>5. \A q \in Procs : stage'[q] = "locked" => stage[q] = "locked"
  BY <1>1 DEF StoreInv, StoreTypes
<1>6. TipsAgree'
  <2>1. \A q \in Procs : tip'[q].size <= size'
    BY <1>1, <1>2, <1>3 DEF IsStraight, TipsAgree
  <2>2. \A q \in Procs : TipIsCurrent(q)' => tip'[q].record = Len(parent')
    <3> TAKE q \in Procs
    <3>1. TipIsCurrent(q)' => q # p /\ TipIsCurrent(q)
      BY <1>1, <1>2, <1>3 DEF TipIsCurrent
    <3> QED
      BY <1>1, <1>3, <3>1 DEF IsStraight, TipsAgree
  <2>3. \A q \in Procs : stage'[q] = "locked" => chosen'[q] = Len(parent')
    BY <1>1, <1>5 DEF IsStraight, TipsAgree
  <2> QED
    BY <2>1, <2>2, <2>3 DEF TipsAgree
<1>7. stage[p] \notin Writing /\ "off" \in Stages \ Writing
  BY <1>1 DEF Writing, Stages
<1> QED
  BY <1>1, <1>4, <1>6, <1>7, StaysStraight

LEMMA WriteRecordStaysStraight ==
    ASSUME StoreInv, IsStraight, NEW p \in Procs, WriteRecord(p)
    PROVE  IsStraight'
<1> DEFINE r == Len(parent) + 1
           text == Line(r, FALSE, FALSE)
<1>1. /\ stage[p] = "locked" /\ stage' = [stage EXCEPT ![p] = "written"]
      /\ lines' = Written(text, lines) /\ mine' = [mine EXCEPT ![p] = r]
      /\ parent' = Append(parent, chosen[p]) /\ size' = size + 1
      /\ tip' = tip /\ seen' = seen /\ chosen' = chosen /\ acked' = acked
  BY DEF WriteRecord
<1>2. /\ lines \in Seq(AnyLine) /\ stage \in [Procs -> Stages] /\ mine \in [Procs -> Nat]
      /\ parent \in Seq(Nat) /\ Len(lines) = Len(parent) /\ Len(parent) \in Nat
      /\ size \in Nat
  BY DEF StoreInv, StoreTypes, IsStraight, InStep
<1>3. chosen[p] = Len(parent)
  BY <1>1 DEF IsStraight, TipsAgree
<1>4. text \in AnyLine /\ ~text.ended /\ text.record = r /\ ~text.cut
  BY <1>2 DEF Line, AnyLine
<1>5. /\ \A q \in Procs : q # p => stage'[q] = stage[q] /\ stage[q] \notin {"locked"} \cup Writing
      /\ stage'[p] = "written" /\ mine'[p] = r
  BY <1>1, <1>2 DEF StoreInv, OneWriter
<1>6. ~IsOpen(lines)
  <2>1. \A q \in Procs : stage[q] # "written"
    BY <1>1, <1>5 DEF Writing
  <2> QED
    BY <2>1 DEF IsStraight, OpenIsWritten
<1> HIDE DEF text
<1>7. /\ lines' \in Seq(AnyLine) /\ Len(lines') = r /\ lines'[r] = text
      /\ \A i \in 1 .. Len(parent) : lines'[i] = lines[i]
  <2>1. /\ lines' \in Seq(AnyLine)
        /\ Len(lines') = Len(lines) + 1 /\ lines'[Len(lines) + 1] = text
        /\ \A i \in 1 .. Len(lines) : lines'[i] = lines[i]
    BY <1>1, <1>2, <1>4, <1>6, WrittenIs, ZenonT(40)
  <2> QED
    BY <1>2, <2>1
<1>8. /\ parent' \in Seq(Nat) /\ Len(parent') = r /\ parent'[r] = Len(parent)
      /\ \A i \in 1 .. Len(parent) : parent'[i] = parent[i]
  BY <1>1, <1>2, <1>3
<1>9. /\ r \in Nat /\ r - 1 = Len(parent)
      /\ \A i \in 1 .. r : i = r \/ i \in 1 .. Len(parent)
  BY <1>2
<1> HIDE DEF r
<1>10. InStep'
  <2>1. \A i \in 1 .. r : lines'[i].record = i /\ ~lines'[i].cut
    BY <1>2, <1>4, <1>7, <1>9 DEF IsStraight, InStep
  <2>2. \A i \in 1 .. r : parent'[i] = i - 1
    BY <1>8, <1>9 DEF IsStraight, InStep
  <2>3. /\ size' \in Nat /\ tip' \in [Procs -> [record : Nat, size : Nat]]
        /\ seen' \in [Procs -> Nat] /\ chosen' \in [Procs -> Nat]
    BY <1>1 DEF IsStraight, InStep
  <2> QED
    BY <1>7, <1>8, <2>1, <2>2, <2>3 DEF InStep
<1>11. AckedButOne'
  <2>1. acked = Counted(Len(parent))
    BY <1>1, <1>5 DEF IsStraight, AckedButOne, Writing
  <2>2. \A q \in Procs : stage'[q] \in Writing => q = p
    BY <1>5
  <2>3. "written" \in Writing
    BY DEF Writing
  <2> QED
    BY <1>1, <1>5, <1>8, <1>9, <2>1, <2>2, <2>3 DEF AckedButOne
<1>12. OpenIsWritten'
  BY <1>5 DEF OpenIsWritten
<1>13. TipsAgree'
  <2>1. \A q \in Procs : tip'[q].size <= size' /\ ~TipIsCurrent(q)'
    <3> TAKE q \in Procs
    <3>1. tip[q].size <= size /\ tip[q].size \in Nat
      BY DEF IsStraight, TipsAgree, InStep
    <3> QED
      BY <1>1, <1>2, <3>1 DEF TipIsCurrent
  <2>2. \A q \in Procs : stage'[q] # "locked"
    BY <1>5
  <2> QED
    BY <2>1, <2>2 DEF TipsAgree
<1> QED
  BY <1>10, <1>11, <1>12, <1>13 DEF IsStraight

LEMMA WriteNewlineStaysStraight ==
    ASSUME StoreInv, IsStraight, NEW p \in Procs, WriteNewline(p)
    PROVE  IsStraight'
<1>1. /\ stage[p] = "written" /\ stage' = [stage EXCEPT ![p] = "ended"]
      /\ lines' = Ended(lines) /\ size' = size + 1
      /\ UNCHANGED <<parent, mine, acked, tip, seen, chosen>>
  BY DEF WriteNewline, Ended, local
<1>2. /\ lines \in Seq(AnyLine) /\ lines # <<>> /\ stage \in [Procs -> Stages] /\ size \in Nat
  BY <1>1 DEF StoreInv, StoreTypes, WriterIsAtTheEnd, Writing, IsStraight, InStep
<1>3. /\ \A q \in Procs : q # p => stage'[q] = stage[q] /\ stage[q] \notin {"locked"} \cup Writing
      /\ stage'[p] = "ended"
  BY <1>1, <1>2 DEF StoreInv, OneWriter, Writing
<1> DEFINE n == Len(lines)
           l == [lines[n] EXCEPT !.ended = TRUE]
<1>4. /\ n \in 1 .. n /\ l \in AnyLine /\ l.ended
      /\ l.record = lines[n].record /\ l.cut = lines[n].cut
  <2>1. n \in 1 .. n /\ lines[n] \in AnyLine
    BY <1>2
  <2> QED
    BY <2>1 DEF AnyLine
<1>5. lines' = [lines EXCEPT ![n] = l]
  BY <1>1 DEF Ended
<1> HIDE DEF l
<1>6. /\ lines' \in Seq(AnyLine) /\ lines' # <<>> /\ Len(lines') = n /\ lines'[n] = l
      /\ \A i \in 1 .. n : i # n => lines'[i] = lines[i]
  BY <1>2, <1>4, <1>5, LastReplaced
<1>7. InStep'
  <2>1. \A i \in 1 .. n : lines'[i].record = i /\ ~lines'[i].cut
    <3> TAKE i \in 1 .. n
    <3>1. lines[i].record = i /\ ~lines[i].cut
      BY DEF IsStraight, InStep
    <3> QED
      BY <1>4, <1>6, <3>1
  <2> QED
    BY <1>1, <1>2, <1>6, <2>1 DEF IsStraight, InStep
<1>8. AckedButOne'
  <2>1. stage[p] \in Writing /\ stage'[p] \in Writing
    BY <1>1, <1>3 DEF Writing
  <2>2. \A q \in Procs : stage'[q] \in Writing <=> stage[q] \in Writing
    BY <1>3, <2>1
  <2> QED
    BY <1>1, <2>2 DEF IsStraight, AckedButOne
<1>9. OpenIsWritten'
  BY <1>4, <1>6 DEF OpenIsWritten, IsOpen
<1>10. TipsAgree'
  <2>1. \A q \in Procs : tip'[q].size <= size' /\ ~TipIsCurrent(q)'
    <3> TAKE q \in Procs
    <3>1. tip[q].size <= size /\ tip[q].size \in Nat
      BY DEF IsStraight, TipsAgree, InStep
    <3> QED
      BY <1>1, <1>2, <3>1 DEF TipIsCurrent
  <2>2. \A q \in Procs : stage'[q] # "locked"
    BY <1>3
  <2> QED
    BY <2>1, <2>2 DEF TipsAgree
<1> QED
  BY <1>7, <1>8, <1>9, <1>10 DEF IsStraight

LEMMA FinishStaysStraight ==
    ASSUME StoreInv, IsStraight, NEW p \in Procs, Finish(p)
    PROVE  IsStraight'
<1>1. /\ stage[p] = "ended" /\ stage' = [stage EXCEPT ![p] = "idle"]
      /\ acked' = Append(acked, mine[p])
      /\ mine' = [mine EXCEPT ![p] = 0] /\ chosen' = [chosen EXCEPT ![p] = 0]
      /\ Remember(p, mine[p])
      /\ UNCHANGED <<lines, size, parent, seen>>
  BY DEF Finish
<1>2. /\ stage \in [Procs -> Stages] /\ stage[p] \in Writing
      /\ lines # <<>> /\ lines[Len(lines)].ended
  BY <1>1 DEF StoreInv, StoreTypes, WriterIsAtTheEnd, Writing
<1>3. /\ mine[p] = Len(parent) /\ acked = Counted(Len(parent) - 1)
      /\ Len(parent) \in Nat /\ Len(parent) - 1 \in Nat
  <2>1. mine[p] = Len(parent) /\ acked = Counted(Len(parent) - 1)
    BY <1>2 DEF IsStraight, AckedButOne
  <2>2. Len(parent) \in Nat /\ mine[p] \in 1 .. Len(parent)
    BY <1>2 DEF StoreInv, WriterIsAtTheEnd, IsStraight, InStep
  <2> QED
    BY <2>1, <2>2
<1>4. /\ \A q \in Procs : q # p => stage'[q] = stage[q] /\ stage[q] \notin {"locked"} \cup Writing
      /\ stage'[p] = "idle"
  BY <1>1, <1>2 DEF StoreInv, OneWriter
<1>5. /\ tip' \in [Procs -> [record : Nat, size : Nat]]
      /\ \A q \in Procs : tip'[q].size <= size'
      /\ \A q \in Procs : TipIsCurrent(q)' => tip'[q].record = Len(parent')
  BY <1>1, <1>3, RememberAgrees
<1>6. InStep'
  <2>1. chosen' \in [Procs -> Nat] /\ seen' \in [Procs -> Nat]
    BY <1>1 DEF IsStraight, InStep
  <2> QED
    BY <1>1, <1>5, <2>1 DEF IsStraight, InStep
<1>7. AckedButOne'
  <2>1. acked' = Counted(Len(parent))
    <3>1. (Len(parent) - 1) + 1 = Len(parent)
      BY <1>3
    <3> QED
      BY <1>1, <1>3, <3>1, CountedIs
  <2>2. \A q \in Procs : stage'[q] \notin Writing
    BY <1>4 DEF Writing
  <2> QED
    BY <1>1, <2>1, <2>2 DEF AckedButOne
<1>8. OpenIsWritten'
  BY <1>1, <1>2 DEF OpenIsWritten, IsOpen
<1>9. \A q \in Procs : stage'[q] # "locked"
  BY <1>4
<1>10. TipsAgree'
  BY <1>5, <1>9 DEF TipsAgree
<1> QED
  BY <1>6, <1>7, <1>8, <1>10 DEF IsStraight

LEMMA StraightInit == StoreInit => StraightInv
<1> SUFFICES ASSUME StoreInit
             PROVE  IsStraight
  BY DEF StraightInv
<1>1. InStep
  BY DEF StoreInit, InStep, NoTip
<1>2. AckedButOne
  BY DEF StoreInit, AckedButOne, Counted, Writing
<1>3. OpenIsWritten
  BY DEF StoreInit, OpenIsWritten, IsOpen
<1>4. TipsAgree
  BY DEF StoreInit, TipsAgree, TipIsCurrent, NoTip
<1> QED
  BY <1>1, <1>2, <1>3, <1>4 DEF IsStraight

LEMMA StraightNext ==
    StoreInv /\ StraightInv /\ [StoreNext]_storeVars => StraightInv'
<1> SUFFICES ASSUME StoreInv, StraightInv, [StoreNext]_storeVars,
                    crashes' = 0, ~raced'
             PROVE  IsStraight'
  BY DEF StraightInv
<1>1. CASE UNCHANGED storeVars
  <2>1. UNCHANGED <<file, stage, lock, local, acked, crashes, raced>>
    BY <1>1 DEF storeVars
  <2>2. UNCHANGED <<lines, size, parent, stage, tip, chosen, mine, seen, acked, crashes, raced>>
    BY <2>1 DEF file, local
  <2>3. IsStraight
    BY <2>2 DEF StraightInv
  <2>4. InStep' /\ AckedButOne' /\ OpenIsWritten'
    BY <2>2, <2>3 DEF IsStraight, InStep, AckedButOne, OpenIsWritten, IsOpen
  <2>5. TipsAgree'
    BY <2>2, <2>3 DEF IsStraight, TipsAgree, TipIsCurrent
  <2> QED
    BY <2>4, <2>5 DEF IsStraight
<1>2. ASSUME NEW p \in Procs,
             \/ LoadRead(p) \/ LoadRemember(p) \/ Acquire(p) \/ WriteRecord(p)
             \/ WriteNewline(p) \/ Finish(p) \/ Close(p)
      PROVE  IsStraight'
  <2>1. crashes = 0 /\ ~raced
    <3>1. CASE LoadRead(p)
      BY <3>1 DEF LoadRead
    <3>2. CASE LoadRemember(p)
      BY <3>2, Zenon DEF LoadRemember
    <3>3. CASE Acquire(p)
      BY <3>3 DEF Acquire
    <3>4. CASE WriteRecord(p)
      BY <3>4 DEF WriteRecord
    <3>5. CASE WriteNewline(p)
      BY <3>5 DEF WriteNewline
    <3>6. CASE Finish(p)
      BY <3>6 DEF Finish
    <3>7. CASE Close(p)
      BY <3>7 DEF Close
    <3> QED
      BY <1>2, <3>1, <3>2, <3>3, <3>4, <3>5, <3>6, <3>7
  <2>2. IsStraight
    BY <2>1 DEF StraightInv
  <2> QED
    BY <1>2, <2>2, LoadReadStaysStraight, LoadRememberStaysStraight, AcquireStaysStraight,
       WriteRecordStaysStraight, WriteNewlineStaysStraight, FinishStaysStraight,
       CloseStaysStraight
<1>3. ASSUME PowerLoss \/ \E p \in Procs : Crash(p)
      PROVE  FALSE
  <2>1. crashes' = crashes + 1
    BY <1>3 DEF PowerLoss, Crash
  <2>2. crashes \in Nat
    BY DEF StoreInv, StoreTypes
  <2> QED
    BY <2>1, <2>2
<1> QED
  BY <1>1, <1>2, <1>3 DEF StoreNext

(* While nothing crashes and no load annotates a length it did not read,    *)
(* what a process resumes is every record that any process appended, in    *)
(* the order of the appends, and at most the one being written.            *)
THEOREM OneConversationIsWritten == StoreSpec => []OneConversation
<1>1. StoreInv /\ StraightInv => OneConversation
  <2> SUFFICES ASSUME StoreInv, IsStraight
               PROVE  Conversation = acked \/ \E r \in DOMAIN parent : Conversation = Append(acked, r)
    BY DEF OneConversation, StraightInv
  <2>1. Conversation = Counted(Len(parent))
    BY PathIsCounted DEF IsStraight
  <2>2. CASE \A p \in Procs : stage[p] \notin Writing
    BY <2>1, <2>2 DEF IsStraight, AckedButOne
  <2>3. CASE \E p \in Procs : stage[p] \in Writing
    <3> DEFINE n == Len(parent)
    <3>1. PICK p \in Procs : stage[p] \in Writing
      BY <2>3
    <3>2. mine[p] = n /\ acked = Counted(n - 1) /\ n \in Nat /\ mine[p] \in 1 .. n
      BY <3>1 DEF IsStraight, AckedButOne, InStep, StoreInv, WriterIsAtTheEnd
    <3>3. n \in DOMAIN parent /\ n - 1 \in Nat /\ (n - 1) + 1 = n
      BY <3>2 DEF IsStraight, InStep
    <3> HIDE DEF n
    <3>4. Counted(n) = Append(acked, n)
      BY <3>2, <3>3, CountedIs
    <3>5. Conversation = Counted(n)
      BY <2>1 DEF n
    <3> QED
      BY <3>3, <3>4, <3>5
  <2> QED
    BY <2>2, <2>3
<1>2. StoreInv /\ [StoreNext]_storeVars => StoreInv'
  BY StoreInvNext
<1> QED
  BY <1>1, <1>2, StoreInvInit, StraightInit, StraightNext, PTL DEF StoreSpec

=============================================================================
