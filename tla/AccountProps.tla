---------------------------- MODULE AccountProps ----------------------------
(* The properties of AccountChat. *)
EXTENDS AccountChat

\* What the proofs need of the types.
StoreOK ==
    /\ status \in [Users -> {"none", "active", "inactive"}]
    /\ pointer \in [Users -> Combos]
    /\ keys \in [Users -> [Combos -> Keys \cup {NoKey}]]
    /\ commit \in Commits \cup {NoCommit}
    /\ draft \in [Users -> Drafts]

TypeOK ==
    /\ StoreOK
    /\ cap \in [Users -> Caps]
    /\ linked \in [Users -> BOOLEAN]
    /\ open \in [Users -> BOOLEAN]
    /\ exposed \in [Users -> SUBSET Combos]
    /\ pipe \in [Users -> Contexts \cup {Off}]
    /\ killed \in BOOLEAN
    /\ ahead \in [Users -> SUBSET {"credentials", "config"}]
    /\ conv \in [Users -> Conversations]

\* The active combo of a user names credentials that are stored, whatever the
\* conversation that moved it and wherever the process died in it; without them
\* the user could not be activated again (update_user_credentials, _commit_switch).
PointerHasKeys ==
    \A u \in Users : status[u] # "none" => keys[u][pointer[u]] # NoKey

\* The credentials are there before the pointer moves to them.
PointReady ==
    commit.pc = "point" => keys[commit.u][commit.to] # NoKey

\* The invariant the proofs go by.
StoreInv == StoreOK /\ PointReady /\ PointerHasKeys

\* No user trades with a client of an account that is not the active one: when no
\* handler is writing, the client of a pipeline was built from the credentials the
\* pointer names, except where the admin API, or a promotion whose last write
\* failed, changed the store behind the pipeline (activate_user skips a user it
\* knows).
ClientIsActive ==
    \A u \in Users :
        Free /\ pipe[u].on /\ "credentials" \notin ahead[u]
            => pipe[u].client = <<pointer[u], keys[u][pointer[u]]>>

\* The limit a pipeline enforces is the one the store holds, through every edit,
\* switch, promotion and restart, except where the admin API edited a running
\* user, the refresh after an edit in the chat failed, which is only logged, or a
\* promotion's last write did (refresh_user_config).
LimitIsCurrent ==
    \A u \in Users :
        Free /\ pipe[u].on /\ ahead[u] = {}
            => pipe[u].cap = cap[u] /\ pipe[u].exchange = pointer[u]

\* The invariant their proofs go by.  A user whose switch or promotion is half
\* written has a pipeline of before it, with which the store agrees as long as a
\* promotion has not moved the pointer; one who is being created has none; an edit
\* of the credentials has noted that it is not told to the pipeline before the
\* pointer moves.
Copying == commit.kind = "promote" /\ commit.pc \in {"save", "point"}
Rebuilding(u) ==
    /\ ~Free /\ commit.kind \in {"switch", "promote"} /\ commit.u = u
    /\ ~Copying

CommitKnowsPipe ==
    ~Free =>
      /\ commit.pc = "create" => status[commit.u] = "none"
      /\ commit.kind \in {"register", "create"} => ~pipe[commit.u].on
      /\ Copying /\ commit.to = pointer[commit.u] => commit.key = keys[commit.u][commit.to]
      /\ commit.kind = "edit" =>
            commit.pc = "save"
              \/ (commit.pc = "point" /\ (pipe[commit.u].on => "credentials" \in ahead[commit.u]))

ClientAgrees(u) == pipe[u].client = <<pointer[u], keys[u][pointer[u]]>>
LimitAgrees(u) == pipe[u].cap = cap[u] /\ pipe[u].exchange = pointer[u]

PipeInv ==
    /\ CommitKnowsPipe
    /\ \A u \in Users : pipe[u].on =>
          /\ status[u] # "none"
          /\ "credentials" \notin ahead[u] /\ ~Rebuilding(u) => ClientAgrees(u)
          /\ ahead[u] = {} /\ ~Rebuilding(u) => LimitAgrees(u)

-----------------------------------------------------------------------------
(* What the documentation says and the code does not do *)

\* A switch does not leave trades behind on the exchange it leaves ("HARD BLOCK if
\* the user has open/pending trades on the current exchange - switching would
\* orphan those positions").
SwitchOrphansNothing ==
    [][\A u \in Users :
        Rebuild /\ commit.kind = "switch" /\ commit.u = u /\ pipe[u].on /\ open[u]
            => pipe[u].client[1] \notin exposed[u]]_vars

=============================================================================
