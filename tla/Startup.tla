------------------------------ MODULE Startup ------------------------------
(***************************************************************************)
(* Starts of nycode in one workspace, some of them at the same time        *)
(* (session/mod.rs: prepare), and the three files they share: the key that *)
(* signs the records (session/store/mac.rs), the cached catalog of models  *)
(* (session/provider/catalog.rs) and the registry of trust                 *)
(* (policy/trust.rs, policy/definition.rs, session/consent.rs).  None is   *)
(* locked, and a file is written by cutting it and writing it.  What the   *)
(* repository declares, the scripts in it and what the endpoint serves     *)
(* change meanwhile, between any two readings of them.                     *)
(***************************************************************************)
EXTENDS Naturals, Sequences, FiniteSets, Functions

CONSTANTS
    Starts,        \* processes; each starts once
    Models,        \* names of models
    Endpoints,     \* gateways
    Absent,        \* a file that is not there
    Torn,          \* a file cut and not written yet
    Unread,        \* what a start did not come to
    Contents,      \* what is declared, as far as a fingerprint covers it
    Rests,         \* the rest of what is declared
    Uncovered,     \* stands for the rest in a fingerprint
    FreshFor,      \* for how long a cached catalog is taken
    MaxTime,       \* bound: of the clock
    MaxChanges     \* bound: changes of the repository and of the endpoints

ASSUME StartupConstants ==
    /\ Models # {} /\ Endpoints # {} /\ Contents # {} /\ Rests # {}
    /\ FreshFor \in Nat /\ MaxTime \in Nat /\ MaxChanges \in Nat
    /\ Absent # Torn /\ {Absent, Torn} \cap Starts = {}

\* The rounds of prepare that consult the registry, in order: a hook, the
\* command of a server, the tools the server declared once connected.
Rounds == <<"hook", "server", "tools">>
Names == Range(Rounds)

\* What a start is invoked with: a gateway, a model, somebody to answer.
Invocations == [base : Endpoints, model : Models, asks : BOOLEAN]

\* Versions of what the repository declares and would run.
Versions == [covered : Contents, rest : Rests]
Prints == [covered : Contents, rest : Rests \cup {Uncovered}]

\* The fingerprint covers the whole definition of the tools.  Of a server it
\* covers the command and its arguments joined by spaces and the names in its
\* environment, so neither where an argument ends nor any value; of a hook the
\* text of the script, in which bytes that are no text are all alike.
Fingerprint(n, version) ==
    IF n = "tools" THEN version ELSE [version EXCEPT !.rest = Uncovered]

Nothing == [n \in {} |-> Unread]

\* What the registry can hold: per name that was granted, a fingerprint.
Registries == UNION {[d -> Prints] : d \in SUBSET Names}

\* What the cache can hold.
Catalogs == [base : Endpoints, at : Nat, models : SUBSET Models]

\* No file that was written passes for one that is not there or is torn.
ASSUME CatalogIsAFile == Absent \notin Catalogs /\ Torn \notin Catalogs
ASSUME RegistryIsAFile == {Absent, Torn} \cap Registries = {}

VARIABLES
    keyFile, trustFile, cacheFile,
    repo,          \* per name, the version that is there
    served,        \* per endpoint, the models it serves
    clock,
    changes,
    pc,            \* per start
    cfg,           \* per start, what it was invoked with
    keying,        \* per start, how far load_or_create_key got
    catalog,       \* per start, the models in hand
    fetchedAt,     \* per start, the time read before the cache
    round,         \* per start, the place in Rounds
    found,         \* per start, the fingerprint of its hook when discovered
    declared,      \* per start, the version under decision
    registry,      \* per start, the registry in memory
    running,       \* per start, what it ran
    keys,          \* history: the keys used to sign or to verify
    agreed,        \* history: what a user said yes to
    pinned,        \* history: tools let run with no question, and no yes before
    missed,        \* history: a decision did not reach the next reader
    swapped,       \* history: starts whose hook changed between two readings
    log,           \* history: per endpoint, what it served at each time
    steady         \* history: per start, models served all along

files == <<keyFile, trustFile, cacheFile>>
world == <<repo, served, clock, changes, log, swapped>>
trusting == <<trustFile, round, found, declared, registry, running, agreed, pinned, missed>>
listing == <<cacheFile, catalog, fetchedAt>>
signing == <<keyFile, keying, keys>>
vars == <<world, pc, cfg, signing, listing, trusting, steady>>

Init ==
    /\ keyFile = Absent /\ trustFile = Absent /\ cacheFile = Absent
    /\ \E v \in Versions : repo = [n \in Names |-> v]
    /\ served \in [Endpoints -> {{m} : m \in Models}]
    /\ clock = 0 /\ changes = 0
    /\ log = [e \in Endpoints |-> {<<0, served[e]>>}]
    /\ pc = [p \in Starts |-> "off"]
    /\ cfg = [p \in Starts |-> Unread]
    /\ keying = [p \in Starts |-> "no"]
    /\ catalog = [p \in Starts |-> Unread]
    /\ fetchedAt = [p \in Starts |-> 0]
    /\ round = [p \in Starts |-> 1]
    /\ found = [p \in Starts |-> Unread]
    /\ declared = [p \in Starts |-> Unread]
    /\ registry = [p \in Starts |-> Nothing]
    /\ running = [p \in Starts |-> {}]
    /\ keys = {} /\ agreed = {} /\ pinned = {} /\ missed = FALSE /\ swapped = {}
    /\ steady = [p \in Starts |-> {}]

Goes(p, to) == pc' = [pc EXCEPT ![p] = to]

Opens(p) ==
    /\ pc[p] = "off"
    /\ Goes(p, "store")
    /\ \E c \in Invocations :
        /\ cfg' = [cfg EXCEPT ![p] = c]
        /\ steady' = [steady EXCEPT ![p] = served[c.base]]
    /\ UNCHANGED <<world, signing, listing, trusting>>

-----------------------------------------------------------------------------
(* The key.  A session that is resumed needs it to open, and any session   *)
(* each time it appends; a key is known by the start that made it.         *)

UsesKeys(p) == pc[p] \in {"store", "session"}

KeyInHand(p, k) ==
    /\ keys' = keys \cup {k}
    /\ keying' = [keying EXCEPT ![p] = "no"]
    /\ pc' = [pc EXCEPT ![p] = IF @ = "store" THEN "catalog" ELSE @]

\* The append fails, or the start does.
NoKey(p) ==
    /\ keying' = [keying EXCEPT ![p] = "no"]
    /\ pc' = [pc EXCEPT ![p] = IF @ = "store" THEN "failed" ELSE @]
    /\ UNCHANGED keys

\* validate_key: a file that does not hold a whole key is refused.
TakesTheKey(p) == IF keyFile \in Starts THEN KeyInHand(p, keyFile) ELSE NoKey(p)

ReadsKey(p) ==
    /\ UsesKeys(p) /\ keying[p] = "no"
    /\ IF keyFile = Absent
       THEN keying' = [keying EXCEPT ![p] = "absent"] /\ UNCHANGED <<pc, keys>>
       ELSE TakesTheKey(p)
    /\ UNCHANGED <<world, cfg, keyFile, listing, trusting, steady>>

\* Created whether the file is there or not.
CreatesKeyAnyway(p) ==
    /\ keying[p] = "absent"
    /\ keyFile' = Torn
    /\ keying' = [keying EXCEPT ![p] = "made"]
    /\ UNCHANGED <<world, pc, cfg, keys, listing, trusting, steady>>

\* create_new: the second of two starts reads what the first is writing.
CreatesKey(p) ==
    /\ keying[p] = "absent"
    /\ IF keyFile = Absent
       THEN /\ keyFile' = Torn
            /\ keying' = [keying EXCEPT ![p] = "made"]
            /\ UNCHANGED <<pc, keys>>
       ELSE TakesTheKey(p) /\ UNCHANGED keyFile
    /\ UNCHANGED <<world, cfg, listing, trusting, steady>>

\* A write that fails leaves the file empty, and the reading after it refuses.
WritesKey(p) ==
    /\ keying[p] = "made"
    /\ \/ keyFile' = p /\ KeyInHand(p, p)
       \/ NoKey(p) /\ UNCHANGED keyFile
    /\ UNCHANGED <<world, cfg, listing, trusting, steady>>

\* A new session is begun without reading a record.
StartsAnew(p) ==
    /\ pc[p] = "store" /\ keying[p] = "no"
    /\ Goes(p, "catalog")
    /\ UNCHANGED <<world, cfg, signing, listing, trusting, steady>>

-----------------------------------------------------------------------------
(* The catalog.                                                            *)

\* The cache of whatever endpoint.
ReadableOfAny(p) ==
    cacheFile \notin {Absent, Torn} /\ clock - cacheFile.at <= FreshFor

\* read_cache.
Readable(p) ==
    /\ cacheFile \notin {Absent, Torn}
    /\ cacheFile.base = cfg[p].base
    /\ clock - cacheFile.at <= FreshFor

\* Whatever was read can refuse a model.
RefusesAny(fetched, models) == models # {}

\* is_authoritative.
IsAuthoritative(fetched, models) == fetched /\ models # {}

\* check.
Checks(p, fetched, models) ==
    Goes(p, IF IsAuthoritative(fetched, models) /\ cfg[p].model \notin models
            THEN "refused" ELSE "find")

ReadsCache(p) ==
    /\ pc[p] = "catalog"
    /\ IF Readable(p)
       THEN /\ catalog' = [catalog EXCEPT ![p] = cacheFile.models]
            /\ Checks(p, FALSE, cacheFile.models)
       ELSE Goes(p, "fetch") /\ UNCHANGED catalog
    /\ fetchedAt' = [fetchedAt EXCEPT ![p] = clock]
    /\ UNCHANGED <<world, cfg, cacheFile, signing, trusting, steady>>

Fetches(p) ==
    /\ pc[p] = "fetch"
    /\ \/ /\ catalog' = [catalog EXCEPT ![p] = served[cfg[p].base]]
          /\ Goes(p, "cache")
       \/ Checks(p, FALSE, {}) /\ UNCHANGED catalog
    /\ UNCHANGED <<world, cfg, cacheFile, fetchedAt, signing, trusting, steady>>

\* A cache that cannot be written is done without.
CutsCache(p) ==
    /\ pc[p] = "cache"
    /\ \/ cacheFile' = Torn /\ Goes(p, "caching")
       \/ Checks(p, TRUE, catalog[p]) /\ UNCHANGED cacheFile
    /\ UNCHANGED <<world, cfg, catalog, fetchedAt, signing, trusting, steady>>

WritesCache(p) ==
    /\ pc[p] = "caching"
    /\ cacheFile' = [base |-> cfg[p].base, at |-> fetchedAt[p], models |-> catalog[p]]
    /\ Checks(p, TRUE, catalog[p])
    /\ UNCHANGED <<world, cfg, catalog, fetchedAt, signing, trusting, steady>>

-----------------------------------------------------------------------------
(* Trust.                                                                  *)

Name(p) == Rounds[round[p]]

\* Trust::allows, knows and grant.
Knows(p) == Name(p) \in DOMAIN registry[p]
Allows(p) == Knows(p) /\ registry[p][Name(p)] = Fingerprint(Name(p), declared[p])
Granted(p) ==
    [n \in DOMAIN registry[p] \cup {Name(p)} |->
        IF n = Name(p) THEN Fingerprint(n, declared[p]) ELSE registry[p][n]]

\* A server that may not run is not connected, and declares no tools.
IsConnected(p) == Name(p) = "tools" => \E x \in running[p] : x[1] = "server"

Holding(p) == pc[p] \in {"decide", "cut", "save"}

\* The next round, and in the end the session.
NextRound(p) ==
    IF round[p] < Len(Rounds)
    THEN Goes(p, "find") /\ round' = [round EXCEPT ![p] = @ + 1]
    ELSE Goes(p, "session") /\ UNCHANGED round

\* The start of the session is announced to the hook once it is decided on.
RoundIsOver(p) ==
    /\ declared' = [declared EXCEPT ![p] = Unread]
    /\ registry' = [registry EXCEPT ![p] = Nothing]
    /\ IF Name(p) = "hook" THEN Goes(p, "announce") /\ UNCHANGED round ELSE NextRound(p)

Runs(p, n, version) == running' = [running EXCEPT ![p] = @ \cup {<<n, version>>}]

\* A server runs as it was read; a hook waits to be fired.
LetsRun(p) == IF Name(p) = "hook" THEN UNCHANGED running ELSE Runs(p, Name(p), declared[p])

\* discover: the script of a hook is read for its fingerprint.
Discovers(p) ==
    /\ pc[p] = "find" /\ Name(p) = "hook"
    /\ found' = [found EXCEPT ![p] = Fingerprint("hook", repo["hook"])]
    /\ Goes(p, "declare")
    /\ UNCHANGED <<world, cfg, signing, listing, steady, trustFile,
                   round, declared, registry, running, agreed, pinned, missed>>

\* declarations: it is read again, for what is decided on.  A server is read
\* once, as its tools are.
Declares(p) ==
    /\ pc[p] = IF Name(p) = "hook" THEN "declare" ELSE "find"
    /\ IsConnected(p)
    /\ declared' = [declared EXCEPT ![p] = repo[Name(p)]]
    /\ Goes(p, "load")
    /\ UNCHANGED <<world, cfg, signing, listing, steady, trustFile,
                   round, found, registry, running, agreed, pinned, missed>>

\* The registry is read: absent or unreadable, it trusts nothing.
Loads(p) ==
    /\ pc[p] = "load"
    /\ registry' = [registry EXCEPT ![p] =
                        IF trustFile \in {Absent, Torn} THEN Nothing ELSE trustFile]
    /\ Goes(p, "decide")
    /\ missed' = (missed \/ trustFile = Torn \/ \E q \in Starts \ {p} : Holding(q))
    /\ UNCHANGED <<world, cfg, signing, listing, steady,
                   trustFile, round, found, declared, running, agreed, pinned>>

\* A server may fail to connect, too.
HasNoTools(p) ==
    /\ pc[p] = "find" /\ Name(p) = "tools"
    /\ RoundIsOver(p)
    /\ UNCHANGED <<world, cfg, signing, listing, steady,
                   trustFile, found, running, agreed, pinned, missed>>

\* Known by name, whatever it runs now.
TrustedByName(p) == Knows(p)

Trusted(p) == Allows(p)

\* authorize, and pin for the tools: already trusted, nothing is written.
IsTrusted(p) ==
    /\ pc[p] = "decide" /\ Trusted(p)
    /\ LetsRun(p) /\ RoundIsOver(p)
    /\ UNCHANGED <<world, cfg, signing, listing, steady,
                   trustFile, found, agreed, pinned, missed>>

\* The first definition a server declares is pinned without asking.
PinsFirst(p) == Name(p) = "tools" /\ ~Knows(p)

IsGranted(p) ==
    /\ pc[p] = "decide" /\ ~Trusted(p)
    /\ registry' = [registry EXCEPT ![p] = Granted(p)]
    /\ \/ /\ PinsFirst(p)
          /\ pinned' = pinned \cup {declared[p]} /\ UNCHANGED agreed
       \/ /\ ~PinsFirst(p) /\ cfg[p].asks
          /\ agreed' = agreed \cup {<<Name(p), declared[p]>>} /\ UNCHANGED pinned
    /\ LetsRun(p)
    /\ Goes(p, "cut")
    /\ UNCHANGED <<world, cfg, signing, listing, steady,
                   trustFile, round, found, declared, missed>>

\* A hook that is refused is not kept.
IsRefused(p) ==
    /\ pc[p] = "decide" /\ ~Trusted(p) /\ ~PinsFirst(p)
    /\ found' = [found EXCEPT ![p] = IF Name(p) = "hook" THEN Unread ELSE @]
    /\ RoundIsOver(p)
    /\ UNCHANGED <<world, cfg, signing, listing, steady,
                   trustFile, running, agreed, pinned, missed>>

\* A registry that cannot be written changes nothing in this session.
CutsRegistry(p) ==
    /\ pc[p] = "cut"
    /\ \/ /\ trustFile' = Torn /\ Goes(p, "save")
          /\ UNCHANGED <<round, declared, registry, missed>>
       \/ missed' = TRUE /\ RoundIsOver(p) /\ UNCHANGED trustFile
    /\ UNCHANGED <<world, cfg, signing, listing, steady, found, running, agreed, pinned>>

\* Only what authorize granted is written.
SavesCommands(p) ==
    /\ pc[p] = "save"
    /\ trustFile' = Restrict(registry[p], DOMAIN registry[p] \ {"tools"})
    /\ RoundIsOver(p)
    /\ UNCHANGED <<world, cfg, signing, listing, steady,
                   found, running, agreed, pinned, missed>>

SavesRegistry(p) ==
    /\ pc[p] = "save"
    /\ trustFile' = registry[p]
    /\ RoundIsOver(p)
    /\ UNCHANGED <<world, cfg, signing, listing, steady,
                   found, running, agreed, pinned, missed>>

\* The script still has the fingerprint it was discovered with.
IsUnchanged(p) == found[p] # Unread /\ Fingerprint("hook", repo["hook"]) = found[p]

\* fire: at the start of the session, and at any time in it.
Fires(p) ==
    /\ pc[p] \in {"announce", "session"}
    /\ IF IsUnchanged(p) THEN Goes(p, "fire") /\ UNCHANGED round
       ELSE pc[p] = "announce" /\ NextRound(p)
    /\ UNCHANGED <<world, cfg, signing, listing, steady, trustFile,
                   found, declared, registry, running, agreed, pinned, missed>>

\* The script that is there when the process starts is what runs, if it does.
Executes(p) ==
    /\ pc[p] = "fire"
    /\ Runs(p, "hook", repo["hook"]) \/ UNCHANGED running
    /\ NextRound(p)
    /\ UNCHANGED <<world, cfg, signing, listing, steady, trustFile,
                   found, declared, registry, agreed, pinned, missed>>

-----------------------------------------------------------------------------
(* The world.                                                              *)

\* The process is killed.  What it pinned and did not write is not in use.
Crashes(p) ==
    /\ pc[p] \notin {"off", "failed", "refused", "dead"}
    /\ Goes(p, "dead")
    /\ missed' = (missed \/ Holding(p))
    /\ keying' = [keying EXCEPT ![p] = "no"]
    /\ found' = [found EXCEPT ![p] = Unread]
    /\ declared' = [declared EXCEPT ![p] = Unread]
    /\ registry' = [registry EXCEPT ![p] = Nothing]
    /\ UNCHANGED <<world, cfg, keyFile, keys, listing, steady,
                   trustFile, round, running, agreed, pinned>>

Ticks ==
    /\ clock < MaxTime
    /\ clock' = clock + 1
    /\ log' = [e \in Endpoints |-> log[e] \cup {<<clock + 1, served[e]>>}]
    /\ UNCHANGED <<repo, served, changes, swapped, pc, cfg, signing, listing, trusting, steady>>

\* A commit changes a script, a command or a server, or puts it back; an
\* endpoint its models.
RepositoryChanges ==
    /\ changes < MaxChanges /\ changes' = changes + 1
    /\ \E n \in Names, v \in Versions :
        /\ repo' = [repo EXCEPT ![n] = v]
        /\ swapped' = swapped \cup {p \in Starts : n = "hook" /\ pc[p] \in {"declare", "fire"}}
    /\ UNCHANGED <<served, clock, log, pc, cfg, signing, listing, trusting, steady>>

EndpointChanges ==
    /\ changes < MaxChanges /\ changes' = changes + 1
    /\ \E e \in Endpoints, ms \in SUBSET Models :
        /\ served' = [served EXCEPT ![e] = ms]
        /\ log' = [log EXCEPT ![e] = @ \cup {<<clock, ms>>}]
        /\ steady' = [p \in Starts |->
                         IF pc[p] # "off" /\ cfg[p].base = e
                         THEN steady[p] \cap ms ELSE steady[p]]
    /\ UNCHANGED <<repo, clock, swapped, pc, cfg, signing, listing, trusting>>

Signs(p) == ReadsKey(p) \/ CreatesKey(p) \/ WritesKey(p)
Lists(p) == ReadsCache(p) \/ Fetches(p) \/ CutsCache(p) \/ WritesCache(p)
Decides(p) ==
    \/ Discovers(p) \/ Declares(p) \/ Loads(p) \/ HasNoTools(p)
    \/ IsTrusted(p) \/ IsGranted(p) \/ IsRefused(p)
    \/ CutsRegistry(p) \/ SavesRegistry(p) \/ Fires(p) \/ Executes(p)

Next ==
    \/ \E p \in Starts :
        Opens(p) \/ StartsAnew(p) \/ Signs(p) \/ Lists(p) \/ Decides(p) \/ Crashes(p)
    \/ Ticks \/ RepositoryChanges \/ EndpointChanges

Spec == Init /\ [][Next]_vars

-----------------------------------------------------------------------------

\* Every record of the workspace is signed with one key, however many starts
\* found none: a second key would drop, on load, what the first one signed
\* (mac.rs: load_or_create_key).
OneKey == Cardinality(keys) <= 1

\* What runs has the fingerprint of something a user said yes to under that
\* name: what changed as far as the fingerprint covers is asked for again, and
\* a hook that changed after it was agreed to is not run, whoever else writes
\* the registry meanwhile.  It is left open for a hook that changed between the
\* two readings of a start, or between the check and the run (trust.rs:
\* authorize; hooks.rs: discover, declarations, fire).
RunsWhatWasAgreed ==
    \A p \in Starts : \A x \in running[p] :
        \/ x[1] = "tools"
        \/ x[1] = "hook" /\ p \in swapped
        \/ \E y \in agreed : y[1] = x[1] /\ Fingerprint(x[1], y[2]) = Fingerprint(x[1], x[2])

\* Starts whose decisions all reach the next reader let one definition of the
\* tools through without a question, the first (definition.rs: pin).
OneFirstPin == ~missed => Cardinality(pinned) <= 1

\* A start is refused only a model that its endpoint did not serve all along
\* (catalog.rs: is_authoritative, check).
RefusalIsCurrent ==
    \A p \in Starts : pc[p] = "refused" => cfg[p].model \notin steady[p]

\* The models a start works with were served by its own endpoint, and not
\* longer ago than a cache is fresh when it looked (catalog.rs: read_cache).
CatalogIsFresh ==
    \A p \in Starts :
        catalog[p] # Unread =>
            \E x \in log[cfg[p].base] :
                x[2] = catalog[p] /\ x[1] + FreshFor >= fetchedAt[p]
=============================================================================
