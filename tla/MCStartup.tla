----------------------------- MODULE MCStartup -----------------------------
(***************************************************************************)
(* What processes in one workspace do to the files they share: the starts  *)
(* of Startup.tla and the session of SessionStore.tla, one file at a time. *)
(* No step on one of the files depends on another of them, so a behaviour  *)
(* explores one file in full, and passes by the others.                    *)
(***************************************************************************)
EXTENDS Startup, SessionStore, TLC

VARIABLE focus      \* the file this behaviour explores

MCInit ==
    /\ Init
    /\ StoreInit
    /\ \/ focus = "catalog"
       \/ focus \in {"key", "trust", "session"} /\ \E m \in Models : served = [e \in Endpoints |-> {m}]

\* What a behaviour leaves alone, by the file of a start it explores.  Nobody
\* sees whether a start that does not hold the registry died or is slow, nor
\* what it does before its rounds.
PassesBy ==
    CASE focus = "key" ->
            /\ UNCHANGED <<world, cacheFile, catalog, trustFile, running, agreed, pinned, missed>>
            /\ \A p \in Starts : pc'[p] # "fire"
      [] focus = "catalog" -> UNCHANGED <<signing, repo, trusting>>
      [] focus = "trust" ->
            /\ UNCHANGED <<signing, cacheFile, catalog, served, clock>>
            /\ \A p \in Starts :
                /\ pc[p] \in {"store", "catalog", "fetch"} => pc'[p] # pc[p]
                /\ pc'[p] = "dead" => pc[p] = "dead" \/ Holding(p)

\* How starts are invoked, as far as it makes a difference to the file: the
\* gateway and the model do to the catalog.  One with nobody to answer does
\* nothing that one who refuses would not do.
Invoked ==
    LET started == {p \in Starts : cfg'[p] # Unread}
    IN  /\ \A p \in started : cfg'[p].asks
        /\ focus # "catalog" => \A p, q \in started : cfg'[p] = cfg'[q]

MCNext ==
    /\ UNCHANGED focus
    /\ \/ focus # "session" /\ Next /\ PassesBy /\ Invoked /\ UNCHANGED storeVars
       \/ focus = "session" /\ StoreNext /\ UNCHANGED vars

\* Processes, models and endpoints are told apart by what happens to them only.
Symmetry ==
    Permutations(Starts) \cup Permutations(Procs)
        \cup Permutations(Models) \cup Permutations(Endpoints)
        \cup Permutations(Contents) \cup Permutations(Rests)

MCSpec == MCInit /\ [][MCNext]_<<vars, storeVars, focus>>
=============================================================================
