---------------------------- MODULE AccountChat ----------------------------
(***************************************************************************)
(* A user's Telegram chat: the conversations that register an account,     *)
(* promote it to mainnet and switch its exchange, the settings dialog, and *)
(* the process around them.                                                *)
(*                                                                         *)
(* The bot handles one update at a time, but the provider's messages, the  *)
(* admin API and the venue go on between two updates of a conversation.    *)
(* The three conversations are independent of each other and share one     *)
(* draft (user_data).  A text goes to the first of them, in the order they *)
(* are registered with the bot, that waits for a text.                     *)
(*                                                                         *)
(* Abstraction: the messages that collect credentials are two, "first"     *)
(* (the account address or API key) and "second" (everything else).        *)
(***************************************************************************)
EXTENDS Accounts

Exchanges == {c[1] : c \in Combos}
Networks == {c[2] : c \in Combos}

RegStates == {"end", "exchange", "first", "second", "network", "confirm"}
SwStates == {"end", "exchange", "network", "mainnet", "saved", "first", "second"}
Conversations == [reg: RegStates, promo: {"end", "confirm"}, sw: SwStates]
NoConversation == [reg |-> "end", promo |-> "end", sw |-> "end"]

\* user_data: the exchange of a registration, the target of a switch, the
\* credentials so far.
Drafts == [ex: Exchanges \cup {"none"}, swEx: Exchanges \cup {"none"},
           swNet: Networks \cup {"none"}, key: Keys \cup {NoKey}]
EmptyDraft == [ex |-> "none", swEx |-> "none", swNet |-> "none", key |-> NoKey]

Goto(u, c, s) == conv' = [conv EXCEPT ![u][c] = s]
\* A step of a conversation that only asks the next question.
Asks(u, c, s) ==
    /\ Goto(u, c, s)
    /\ UNCHANGED <<store, trades, pipe, killed, commit, ahead, draft>>
Notes(u, c, s, d) ==
    /\ Goto(u, c, s) /\ draft' = [draft EXCEPT ![u] = d]
    /\ UNCHANGED <<store, trades, pipe, killed, commit, ahead>>

\* Who a text is for.
RegText(u) == conv[u].reg \in {"first", "second", "confirm"}
PromoText(u) == ~RegText(u) /\ conv[u].promo = "confirm"
SwText(u) == /\ ~RegText(u) /\ conv[u].promo # "confirm"
             /\ conv[u].sw \in {"mainnet", "first", "second"}

-----------------------------------------------------------------------------
(* /register *)

RegisterCommand(u) ==
    Free /\ conv[u].reg = "end" /\ ~linked[u] /\ Asks(u, "reg", "exchange")

ReceiveExchange(u, e) ==
    /\ Free /\ conv[u].reg = "exchange"
    /\ Notes(u, "reg", "first", [draft[u] EXCEPT !.ex = e])

ReceiveFirst(u, k) ==
    /\ Free /\ conv[u].reg = "first"
    /\ Notes(u, "reg", "second", [draft[u] EXCEPT !.key = k])

ReceiveSecond(u) ==
    Free /\ conv[u].reg = "second" /\ Asks(u, "reg", "network")

\* _complete_registration: without credentials in the draft it raises and the
\* conversation stays where it is; a failed validation, or a user row that is
\* there already, ends it.
Forget(u) == draft' = [draft EXCEPT ![u].ex = "none", ![u].key = NoKey]
ChosenExchange(u) == IF draft[u].ex = "none" THEN "hyperliquid" ELSE draft[u].ex

CompleteRegistration(u, n) ==
    /\ draft[u].key # NoKey /\ <<ChosenExchange(u), n>> \in Combos
    /\ Goto(u, "reg", "end") /\ Forget(u)
    /\ \/ UNCHANGED commit
       \/ /\ status[u] = "none"
          /\ Begin("create", "register", u, <<ChosenExchange(u), n>>, draft[u].key)
    /\ UNCHANGED <<store, trades, pipe, killed, ahead>>

ReceiveNetwork(u, n) ==
    /\ Free /\ conv[u].reg = "network"
    /\ IF n = "mainnet" THEN Asks(u, "reg", "confirm") ELSE CompleteRegistration(u, n)

ReceiveMainnetConfirm(u) ==
    Free /\ conv[u].reg = "confirm" /\ CompleteRegistration(u, "mainnet")

-----------------------------------------------------------------------------
(* /promote_to_mainnet *)

PromoteCommand(u) ==
    /\ Free /\ conv[u].promo = "end" /\ linked[u]
    /\ keys[u][pointer[u]] # NoKey /\ ~IsMainnet(pointer[u])
    /\ Asks(u, "promo", "confirm")

\* The token was typed.  The credentials are tried on Hyperliquid's mainnet,
\* whatever the exchange is by now, and copied to it.
ReceivePromoteConfirm(u) ==
    /\ Free /\ PromoText(u)
    /\ Goto(u, "promo", "end")
    /\ \/ UNCHANGED commit
       \/ /\ linked[u] /\ keys[u][pointer[u]] # NoKey
          /\ pointer[u][1] = "hyperliquid" /\ <<"hyperliquid", "mainnet">> \in Combos
          /\ Begin("save", "promote", u, <<"hyperliquid", "mainnet">>,
                   keys[u][pointer[u]])
    /\ UNCHANGED <<store, trades, pipe, killed, ahead, draft>>

-----------------------------------------------------------------------------
(* The switch of the exchange *)

\* The hard block: open trades are counted here and only here; a count that
\* fails is taken for zero.
SwitchStart(u) ==
    /\ Free /\ conv[u].sw = "end" /\ linked[u]
    /\ ~open[u] \/ (pipe[u].on /\ "store" \in Faults)
    /\ Asks(u, "sw", "exchange")

SwChooseExchange(u, e) ==
    /\ Free /\ conv[u].sw = "exchange"
    /\ Notes(u, "sw", "network", [draft[u] EXCEPT !.swEx = e])

Target(u) == <<draft[u].swEx, draft[u].swNet>>
HasTarget(u) == Target(u) \in Combos

\* _proceed_after_target.
Proceed(u, c) == IF keys[u][c] # NoKey THEN "saved" ELSE "first"

SwChooseNetwork(u, n) ==
    /\ Free /\ conv[u].sw = "network" /\ <<draft[u].swEx, n>> \in Combos
    /\ Notes(u, "sw", IF <<draft[u].swEx, n>> = pointer[u] THEN "end"
                      ELSE IF n = "mainnet" THEN "mainnet"
                      ELSE Proceed(u, <<draft[u].swEx, n>>),
             [draft[u] EXCEPT !.swNet = n])

SwMainnetConfirm(u) ==
    /\ Free /\ SwText(u) /\ conv[u].sw = "mainnet" /\ HasTarget(u)
    /\ Asks(u, "sw", Proceed(u, Target(u)))

Clear(u) == draft' = [draft EXCEPT ![u].swEx = "none", ![u].swNet = "none",
                                   ![u].key = NoKey]

\* Mutant: the pointer moves before the new credentials are stored.
CommitSwitchEarly(u, pc, k) ==
    /\ Goto(u, "sw", "end") /\ Clear(u)
    /\ Begin("point", "switch", u, Target(u), k)
    /\ UNCHANGED <<store, trades, pipe, killed, ahead>>

\* _commit_switch after the validation: the new credentials are stored (not those
\* that were saved), then the pointer moves.
CommitSwitch(u, pc, k) ==
    /\ Goto(u, "sw", "end") /\ Clear(u)
    /\ Begin(pc, "switch", u, Target(u), k)
    /\ UNCHANGED <<store, trades, pipe, killed, ahead>>

SwConfirmSaved(u) ==
    /\ Free /\ conv[u].sw = "saved"
    /\ \/ /\ Goto(u, "sw", "end") /\ Clear(u)                   \* no
          /\ UNCHANGED <<store, trades, pipe, killed, commit, ahead>>
       \/ /\ HasTarget(u) /\ keys[u][Target(u)] # NoKey
          /\ \/ Asks(u, "sw", "first")                          \* they fail
             \/ CommitSwitch(u, "point", keys[u][Target(u)])

SwFirst(u, k) ==
    /\ Free /\ SwText(u) /\ conv[u].sw = "first"
    /\ Notes(u, "sw", "second", [draft[u] EXCEPT !.key = k])

\* Mutant: a draft that /cancel emptied is taken as it is.
SwSecondEmpty(u) ==
    /\ Free /\ SwText(u) /\ conv[u].sw = "second"
    /\ CommitSwitch(u, "save", draft[u].key)

SwSecond(u) ==
    /\ Free /\ SwText(u) /\ conv[u].sw = "second"
    /\ HasTarget(u) /\ draft[u].key # NoKey
    /\ \/ /\ Goto(u, "sw", "end") /\ Clear(u)                   \* they fail
          /\ UNCHANGED <<store, trades, pipe, killed, commit, ahead>>
       \/ CommitSwitch(u, "save", draft[u].key)

-----------------------------------------------------------------------------
(* Settings and /cancel *)

\* Mutant: the new value is stored, the running pipeline is not refreshed.
ConfigTextStale(u, c) ==
    /\ Free /\ linked[u]
    /\ cap' = [cap EXCEPT ![u] = c]
    /\ UNCHANGED <<pipe, ahead>>
    /\ UNCHANGED <<status, pointer, keys, linked, trades, killed, commit, chat>>

\* config_text_handler once the number was given: stored, and the pipeline refreshed.
ConfigText(u, c) ==
    /\ Free /\ linked[u]
    /\ cap' = [cap EXCEPT ![u] = c]
    /\ RefreshUserConfig(u, c)
    /\ UNCHANGED <<status, pointer, keys, linked, trades, killed, commit, chat>>

\* /preset, /auto, the buttons of the dialog, the port's amount and mode: another
\* setting is stored, and the whole Config is read again.
ConfigButton(u) ==
    /\ Free /\ linked[u]
    /\ RefreshUserConfig(u, cap[u])
    /\ UNCHANGED <<store, trades, killed, commit, chat>>

\* /cancel is a command of the bot before it is a fallback of a conversation: it
\* empties the draft and ends no conversation.
Cancel(u) ==
    /\ Free /\ draft[u] # EmptyDraft
    /\ draft' = [draft EXCEPT ![u] = EmptyDraft]
    /\ UNCHANGED <<store, trades, pipe, killed, commit, ahead, conv>>

ChatStep(u) ==
    \/ RegisterCommand(u) \/ ReceiveSecond(u) \/ ReceiveMainnetConfirm(u)
    \/ PromoteCommand(u) \/ ReceivePromoteConfirm(u)
    \/ SwitchStart(u) \/ SwMainnetConfirm(u) \/ SwConfirmSaved(u) \/ SwSecond(u)
    \/ \E e \in Exchanges : ReceiveExchange(u, e) \/ SwChooseExchange(u, e)
    \/ \E n \in Networks : ReceiveNetwork(u, n) \/ SwChooseNetwork(u, n)
    \/ \E k \in Keys : ReceiveFirst(u, k) \/ SwFirst(u, k)
    \/ (\E c \in Caps : ConfigText(u, c)) \/ ConfigButton(u)
    \/ SetPaused(u) \/ Cancel(u)

-----------------------------------------------------------------------------
(* The process *)

\* Orchestrator.start: the active users are activated, each on its own; S are
\* those whose pipeline is built.
Startable == {u \in Users : status[u] = "active" /\ CanStart(u)}

\* The process dies and starts again.  Conversations, pauses and the kill switch
\* were in memory.
Crash ==
    /\ "crash" \in Faults
    /\ \E S \in (IF "start" \in Faults THEN SUBSET Startable ELSE {Startable}) :
         /\ pipe' = [u \in Users |-> IF u \in S THEN Context(u) ELSE Off]
         /\ open' \in [Users -> BOOLEAN]
         /\ \A u \in Users : open'[u] \in IF u \in S THEN Synced(u) ELSE {open[u]}
    /\ ahead' = [u \in Users |-> {}]
    /\ killed' = FALSE
    /\ commit' = NoCommit
    /\ conv' = [u \in Users |-> NoConversation]
    /\ draft' = [u \in Users |-> EmptyDraft]
    /\ UNCHANGED <<store, exposed>>

Init ==
    /\ status = [u \in Users |-> "none"]
    /\ pointer = [u \in Users |-> Default]
    /\ keys = [u \in Users |-> [c \in Combos |-> NoKey]]
    /\ cap = [u \in Users |-> DefaultCap]
    /\ linked = [u \in Users |-> FALSE]
    /\ open = [u \in Users |-> FALSE]
    /\ exposed = [u \in Users |-> {}]
    /\ pipe = [u \in Users |-> Off]
    /\ killed = FALSE
    /\ commit = NoCommit
    /\ ahead = [u \in Users |-> {}]
    /\ conv = [u \in Users |-> NoConversation]
    /\ draft = [u \in Users |-> EmptyDraft]

Next ==
    \/ CommitStep
    \/ \E u \in Users :
          \/ ChatStep(u) \/ ApiStep(u) \/ TradesSettle(u)
          \/ \E c \in Combos : VenueCloses(u, c)
    \/ Dispatch \/ KillAll \/ Resume \/ Crash

Spec == Init /\ [][Next]_vars

=============================================================================
