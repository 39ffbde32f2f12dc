------------------------------ MODULE Accounts ------------------------------
(***************************************************************************)
(* The accounts: which user trades, on which exchange and network, with    *)
(* which settings.  The user store (users, user_credentials and            *)
(* user_config) survives a crash; the orchestrator's pipelines, the pause  *)
(* and the kill switch are in memory and are rebuilt from the store when   *)
(* the process starts again.                                               *)
(*                                                                         *)
(* A handler that changes the store makes several transactions one after   *)
(* the other with no await between them, so that only a crash comes        *)
(* between two: "commit" is what is left of the handler that is running.   *)
(*                                                                         *)
(* Abstractions: a combo's credentials are one value; the settings are one *)
(* limit, the position cap; a user's open trades are one flag in the store *)
(* and the set of combos whose venue holds a position or an order of them. *)
(***************************************************************************)
EXTENDS Naturals

CONSTANTS
    Users,      \* user ids; a user who registers by chat has the chat's id
    Combos,     \* the <<exchange, network>> pairs in use
    Keys,       \* credentials a user may hold
    NoKey,      \* no credentials: no row for the combo
    Caps,       \* values of max_position_size_usd
    Faults      \* what may go wrong

DefaultCap == 500   \* user_config's default of max_position_size_usd
MainnetCap == 100   \* MAINNET_DEFAULT_POSITION_CAP_USD

ASSUME CombosAssumption ==
    /\ Combos \subseteq {"hyperliquid", "blofin"} \X {"testnet", "mainnet"}
    /\ <<"hyperliquid", "testnet">> \in Combos
ASSUME KeysAssumption == NoKey \notin Keys
ASSUME CapsAssumption == Caps \subseteq Nat /\ {DefaultCap, MainnetCap} \subseteq Caps

\* "crash": the process dies; "start": a pipeline cannot be built (the venue
\* does not answer); "store": a read or a write of the store that the handler
\* tolerates fails; "venue": the venue refuses to cancel or to close.
ASSUME AccountFaults == Faults \subseteq {"crash", "start", "store", "venue"}

VARIABLES
    status,     \* users.status, or "none" for no row
    pointer,    \* users.active_exchange, active_network
    keys,       \* user_credentials: the key of each combo
    cap,        \* user_config.max_position_size_usd
    linked,     \* user_config.telegram_chat_id is set
    open,       \* the trades table has an open or pending trade of the user
    exposed,    \* combos whose venue holds a position or an order of the user
    pipe,       \* the orchestrator's pipelines
    killed,     \* the kill switch
    commit,     \* the handler that is writing the store
    ahead,      \* what the store holds that no pipeline was told of
    conv,       \* the conversations of the user's chat
    draft       \* context.user_data of the chat

store == <<status, pointer, keys, cap, linked>>
trades == <<open, exposed>>
chat == <<conv, draft>>
vars == <<store, trades, pipe, killed, commit, ahead, chat>>

-----------------------------------------------------------------------------
(* The values of the state *)

Default == <<"hyperliquid", "testnet">>
IsMainnet(c) == c[2] = "mainnet"

\* UserPipelineContext: the client, built once, and the Config, replaced by a
\* refresh, whose exchange part may come to differ from the client.
Contexts == [on: {TRUE}, client: Combos \X Keys, exchange: Combos, cap: Caps,
             paused: BOOLEAN]
Off == [on |-> FALSE]

Kinds == {"register", "switch", "promote", "create", "edit"}
Commits == [pc: {"create", "save", "point", "tighten", "link", "rebuild"},
            kind: Kinds, u: Users, to: Combos, key: Keys]
NoCommit == [pc |-> "idle"]
Begin(pc, kind, u, to, k) ==
    commit' = [pc |-> pc, kind |-> kind, u |-> u, to |-> to, key |-> k]
Free == commit.pc = "idle"

-----------------------------------------------------------------------------
(* The orchestrator *)

\* build_position_manager takes the exchange of the Config and the client.
Manageable(u) == pipe[u].exchange[1] = pipe[u].client[1][1]

\* What activate_user makes of the store as it is now.
Context(u) == [on |-> TRUE, client |-> <<pointer[u], keys[u][pointer[u]]>>,
               exchange |-> pointer[u], cap |-> cap[u], paused |-> FALSE]

\* sync_positions, the end of an activation: it closes or cancels the open trades
\* of which the combo's venue knows nothing, unless the venue cannot be read.
Synced(u) ==
    {open[u] /\ pointer[u] \in exposed[u]}
        \cup (IF "start" \in Faults THEN {open[u]} ELSE {})

\* get_user_config_as_config raises on an incomplete user.
CanStart(u) == status[u] # "none" /\ keys[u][pointer[u]] # NoKey

Start(u) ==
    /\ CanStart(u)
    /\ pipe' = [pipe EXCEPT ![u] = Context(u)]
    /\ \E o \in Synced(u) : open' = [open EXCEPT ![u] = o]
    /\ ahead' = [ahead EXCEPT ![u] = {}]

FailsToStart(u) ==
    /\ ~CanStart(u) \/ "start" \in Faults
    /\ pipe' = [pipe EXCEPT ![u] = Off]
    /\ ahead' = [ahead EXCEPT ![u] = {}]
    /\ UNCHANGED open

\* activate_user leaves a user who has a pipeline as is.
ActivateUser(u) ==
    IF pipe[u].on THEN UNCHANGED <<pipe, open, ahead>>
    ELSE Start(u) \/ FailsToStart(u)

\* Mutant: the old pipeline is still there, so that activate_user skips the user.
ReactivateInPlace(u) == ActivateUser(u)

\* deactivate_user, then activate_user.
Reactivate(u) == Start(u) \/ FailsToStart(u)

\* The store changes and the running pipeline is not told.
LeaveBehind(u, what) ==
    ahead' = IF pipe[u].on THEN [ahead EXCEPT ![u] = @ \cup {what}] ELSE ahead

\* refresh_user_config, with the cap that was just stored: a new Config for the
\* pipeline, the old client.  _refresh_pipeline swallows its failure, and the
\* pipeline keeps the Config it has.
RefreshUserConfig(u, c) ==
    \/ /\ pipe[u].on
       /\ pipe' = [pipe EXCEPT ![u].cap = c, ![u].exchange = pointer[u]]
       /\ ahead' = [ahead EXCEPT ![u] = @ \ {"config"}]
    \/ ~pipe[u].on /\ UNCHANGED <<pipe, ahead>>
    \/ "store" \in Faults /\ LeaveBehind(u, "config") /\ UNCHANGED pipe

\* pause_user, resume_user: in memory only.
Pause(u, paused) == pipe' = [pipe EXCEPT ![u].paused = paused]

\* /deactivate, /activate and the menu's buttons.
SetPaused(u) ==
    /\ Free /\ linked[u] /\ pipe[u].on
    /\ Pause(u, ~pipe[u].paused)
    /\ UNCHANGED <<store, trades, killed, commit, ahead, chat>>

-----------------------------------------------------------------------------
(* Trading, as far as the accounts are concerned *)

\* dispatch of a signal: each pipeline that is not paused may place a trade on
\* the venue of its client, S being those that do.
Dispatch ==
    /\ Free /\ ~killed
    /\ \E S \in SUBSET {u \in Users : pipe[u].on /\ ~pipe[u].paused} \ {{}} :
         /\ open' = [u \in Users |-> open[u] \/ u \in S]
         /\ exposed' = [u \in Users |->
                          IF u \in S THEN exposed[u] \cup {pipe[u].client[1]}
                          ELSE exposed[u]]
    /\ UNCHANGED <<store, pipe, killed, commit, ahead, chat>>

\* A venue closes what it holds of a user (a stop, a take-profit, the user).
VenueCloses(u, c) ==
    /\ c \in exposed[u]
    /\ exposed' = [exposed EXCEPT ![u] = @ \ {c}]
    /\ UNCHANGED <<store, open, pipe, killed, commit, ahead, chat>>

\* The provider's message or a reconciliation settles trades whose venue holds
\* nothing any more.
TradesSettle(u) ==
    /\ Free /\ pipe[u].on /\ open[u] /\ pipe[u].client[1] \notin exposed[u]
    /\ open' = [open EXCEPT ![u] = FALSE]
    /\ UNCHANGED <<store, exposed, pipe, killed, commit, ahead, chat>>

\* What the kill switch may make of the user u, o and x being what is open and
\* exposed after it: close_position of every open trade, of which each may fail
\* before or after its rows are marked canceled, with its orders or its position
\* left; the trades of a user cannot be told from each other here, so that some
\* closed and some not is left exposed too.
KillUser(u, o, x) ==
    \/ /\ pipe[u].on /\ open[u] /\ Manageable(u)
       /\ ~o /\ x = exposed[u] \ {pipe[u].client[1]}
    \/ /\ pipe[u].on /\ open[u] /\ (~Manageable(u) \/ "venue" \in Faults)
       /\ o \in BOOLEAN /\ x = exposed[u]
    \/ /\ ~pipe[u].on \/ ~open[u] \/ "store" \in Faults
       /\ o = open[u] /\ x = exposed[u]

\* kill_all: every user with a pipeline, paused or not, each in a try of its own.
KillAll ==
    /\ Free /\ killed' = TRUE
    /\ open' \in [Users -> BOOLEAN] /\ exposed' \in [Users -> SUBSET Combos]
    /\ \A u \in Users : KillUser(u, open'[u], exposed'[u])
    /\ UNCHANGED <<store, pipe, commit, ahead, chat>>

Resume ==
    /\ Free /\ killed /\ killed' = FALSE
    /\ UNCHANGED <<store, trades, pipe, commit, ahead, chat>>

-----------------------------------------------------------------------------
(* The transactions of a commit *)

\* What follows in the handler.
After(c) ==
    CASE c.pc = "create" ->
           IF c.kind = "create" THEN "rebuild"
           ELSE IF IsMainnet(c.to) THEN "tighten" ELSE "link"
      [] c.pc = "save" -> "point"
      [] c.pc = "point" ->
           IF c.kind = "edit" THEN "idle"
           ELSE IF IsMainnet(c.to) THEN "tighten" ELSE "rebuild"
      [] c.pc = "tighten" -> IF c.kind = "register" THEN "link" ELSE "rebuild"
      [] c.pc = "link" -> "rebuild"
      [] OTHER -> "idle"

Rest(c) == IF After(c) = "idle" THEN NoCommit ELSE [c EXCEPT !.pc = After(c)]
Advance(pc) == commit.pc = pc /\ commit' = Rest(commit)

\* create_user: one transaction over the three tables; only the admin API gives
\* settings of its own.
CreateUser ==
    /\ Advance("create")
    /\ status' = [status EXCEPT ![commit.u] = "active"]
    /\ pointer' = [pointer EXCEPT ![commit.u] = commit.to]
    /\ keys' = [keys EXCEPT ![commit.u][commit.to] = commit.key]
    /\ \E c \in Caps : /\ commit.kind = "create" \/ c = DefaultCap
                       /\ cap' = [cap EXCEPT ![commit.u] = c]
    /\ UNCHANGED <<linked, trades, pipe, killed, ahead, chat>>

\* save_credentials.
SaveCredentials ==
    /\ Advance("save")
    /\ keys' = [keys EXCEPT ![commit.u][commit.to] = commit.key]
    /\ IF commit.kind = "edit" THEN LeaveBehind(commit.u, "credentials")
         ELSE UNCHANGED ahead
    /\ UNCHANGED <<status, pointer, cap, linked, trades, pipe, killed, chat>>

\* set_active_exchange_network.
SetPointer ==
    /\ Advance("point")
    /\ pointer' = [pointer EXCEPT ![commit.u] = commit.to]
    /\ UNCHANGED <<status, keys, cap, linked, trades, pipe, killed, ahead, chat>>

\* apply_mainnet_defaults; a failure of it is passed over, but in a promotion.
Tighten ==
    /\ Advance("tighten")
    /\ cap' = [cap EXCEPT ![commit.u] = MainnetCap]
    /\ UNCHANGED <<status, pointer, keys, linked, trades, pipe, killed, ahead, chat>>

TightenFails ==
    /\ "store" \in Faults /\ commit.pc = "tighten" /\ commit.kind # "promote"
    /\ commit' = Rest(commit)
    /\ UNCHANGED <<store, trades, pipe, killed, ahead, chat>>

\* The three writes of a promotion are in one try: the first that fails ends it,
\* with the old pipeline, the pointer having moved when it is the last.
PromoteFails ==
    /\ "store" \in Faults
    /\ commit.pc \in {"save", "point", "tighten"} /\ commit.kind = "promote"
    /\ commit' = NoCommit
    /\ IF commit.pc = "tighten" THEN LeaveBehind(commit.u, "credentials")
         ELSE UNCHANGED ahead
    /\ UNCHANGED <<store, trades, pipe, killed, chat>>

\* set_telegram_chat_id: from here on the chat is the user's.
LinkChat ==
    /\ Advance("link")
    /\ linked' = [linked EXCEPT ![commit.u] = TRUE]
    /\ UNCHANGED <<status, pointer, keys, cap, trades, pipe, killed, ahead, chat>>

Rebuild ==
    /\ Advance("rebuild")
    /\ IF commit.kind \in {"switch", "promote"} THEN Reactivate(commit.u)
         ELSE ActivateUser(commit.u)
    /\ UNCHANGED <<store, exposed, killed, chat>>

CommitStep == CreateUser \/ SaveCredentials \/ SetPointer \/ Tighten \/ TightenFails
              \/ PromoteFails \/ LinkChat \/ Rebuild

-----------------------------------------------------------------------------
(* The admin API *)

ApiCreateUser(u, c, k) ==
    /\ Free /\ status[u] = "none"
    /\ Begin("create", "create", u, c, k)
    /\ UNCHANGED <<store, trades, pipe, killed, ahead, chat>>

\* PUT with config: stored, and not refreshed.
ApiEditConfig(u, c) ==
    /\ Free /\ status[u] # "none"
    /\ cap' = [cap EXCEPT ![u] = c]
    /\ LeaveBehind(u, "config")
    /\ UNCHANGED <<status, pointer, keys, linked, trades, pipe, killed, commit, chat>>

\* PUT with credentials, update_user_credentials: the active combo in place, or
\* another one that becomes the active one; nothing is reactivated.
ApiEditCredentials(u, c, k) ==
    /\ Free /\ status[u] # "none"
    /\ Begin("save", "edit", u, c, k)
    /\ UNCHANGED <<store, trades, pipe, killed, ahead, chat>>

ApiActivate(u) ==
    /\ Free /\ status[u] # "none"
    /\ status' = [status EXCEPT ![u] = "active"]
    /\ ActivateUser(u)
    /\ UNCHANGED <<pointer, keys, cap, linked, exposed, killed, commit, chat>>

ApiDeactivate(u) ==
    /\ Free /\ status[u] # "none"
    /\ status' = [status EXCEPT ![u] = "inactive"]
    /\ pipe' = [pipe EXCEPT ![u] = Off]
    /\ ahead' = [ahead EXCEPT ![u] = {}]
    /\ UNCHANGED <<pointer, keys, cap, linked, trades, killed, commit, chat>>

ApiStep(u) ==
    \/ \E c \in Combos, k \in Keys :
          ApiCreateUser(u, c, k) \/ ApiEditCredentials(u, c, k)
    \/ \E c \in Caps : ApiEditConfig(u, c)
    \/ ApiActivate(u) \/ ApiDeactivate(u)

=============================================================================
