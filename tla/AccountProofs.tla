---------------------------- MODULE AccountProofs ----------------------------
(***************************************************************************)
(* For any users, combos, credentials and faults: the active combo of a    *)
(* user names credentials that are stored; a pipeline trades with the      *)
(* account and by the limit that the store holds.                          *)
(*                                                                         *)
(* PointerHasKeys is not inductive: the step that moves the pointer needs  *)
(* to know that the step before it stored the credentials (PointReady).    *)
(* While a commit runs nothing else writes the store, so that only the     *)
(* commit's own steps have to be looked at there; the steps of the other   *)
(* handlers start from a state without one and at most begin it.           *)
(*                                                                         *)
(* A pipeline may disagree with the store while the commit of its user     *)
(* runs.  PipeInv says between which steps: from the first write of a      *)
(* switch, or from where a promotion has moved the pointer, to the end,    *)
(* where the pipeline is built again; and for good where the change was    *)
(* noted in "ahead".                                                       *)
(***************************************************************************)
EXTENDS AccountProps, TLAPS

USE CombosAssumption, KeysAssumption

\* The steps that change neither the store nor the running commit.
KeepsStore == UNCHANGED <<status, pointer, keys, commit, draft>>

LEMMA KeptStore ==
    ASSUME StoreInv, KeepsStore
    PROVE  StoreInv'
BY DEF StoreInv, StoreOK, PointReady, PointerHasKeys, KeepsStore

\* A handler that begins a commit does so with a record of Commits; one that
\* begins at "point" takes credentials that are stored.
LEMMA BegunCommit ==
    ASSUME StoreInv, UNCHANGED <<status, pointer, keys>>,
           commit' \in Commits \cup {NoCommit}, draft' \in [Users -> Drafts],
           commit'.pc = "point" => keys[commit'.u][commit'.to] # NoKey
    PROVE  StoreInv'
BY DEF StoreInv, StoreOK, PointReady, PointerHasKeys

\* The transactions of a commit.
LEMMA RestOfCommit ==
    ASSUME commit \in Commits
    PROVE  /\ Rest(commit) \in Commits \cup {NoCommit}
           /\ Rest(commit).pc = "point" => /\ commit.pc = "save"
                                           /\ Rest(commit).u = commit.u
                                           /\ Rest(commit).to = commit.to
BY DEF Rest, After, Commits, NoCommit

LEMMA CommitStepKeeps ==
    ASSUME StoreInv, CommitStep
    PROVE  StoreInv'
<1>1. commit \in Commits
  BY DEF CommitStep, CreateUser, SaveCredentials, SetPointer, Tighten,
         TightenFails, PromoteFails, LinkChat, Rebuild, Advance, StoreInv, StoreOK, NoCommit
<1>2. /\ commit.u \in Users /\ commit.to \in Combos /\ commit.key \in Keys
  BY <1>1 DEF Commits
<1>3. /\ Rest(commit) \in Commits \cup {NoCommit}
      /\ Rest(commit).pc = "point" => /\ commit.pc = "save"
                                      /\ Rest(commit).u = commit.u
                                      /\ Rest(commit).to = commit.to
  BY <1>1, RestOfCommit
<1>4. CASE CreateUser
  <2>1. status' \in [Users -> {"none", "active", "inactive"}]
    BY <1>2, <1>4 DEF CreateUser, StoreInv, StoreOK
  <2>2. pointer' \in [Users -> Combos]
    BY <1>2, <1>4 DEF CreateUser, StoreInv, StoreOK
  <2>3. keys' = [keys EXCEPT ![commit.u][commit.to] = commit.key]
    BY <1>4 DEF CreateUser
  <2>4. keys' \in [Users -> [Combos -> Keys \cup {NoKey}]]
    BY <1>2, <2>3 DEF StoreInv, StoreOK
  <2>5. commit' = Rest(commit) /\ commit.pc = "create" /\ UNCHANGED draft
    BY <1>4 DEF CreateUser, Advance, chat
  <2>6. PointReady'
    BY <1>3, <2>5 DEF PointReady
  <2>7. PointerHasKeys'
    <3> SUFFICES ASSUME NEW u \in Users, status'[u] # "none"
                 PROVE  keys'[u][pointer'[u]] # NoKey
      BY DEF PointerHasKeys
    <3>1. CASE u = commit.u
      <4>1. pointer'[u] = commit.to
        BY <3>1, <1>2, <1>4 DEF CreateUser, StoreInv, StoreOK
      <4>2. keys'[u][commit.to] = commit.key
        BY <3>1, <1>2, <2>3 DEF StoreInv, StoreOK
      <4> QED BY <4>1, <4>2, <1>2
    <3>2. CASE u # commit.u
      <4>1. pointer'[u] = pointer[u] /\ status'[u] = status[u] /\ keys'[u] = keys[u]
        BY <3>2, <1>4, <1>2 DEF CreateUser, StoreInv, StoreOK
      <4> QED BY <4>1 DEF StoreInv, PointerHasKeys
    <3> QED BY <3>1, <3>2
  <2> QED BY <1>3, <2>1, <2>2, <2>4, <2>5, <2>6, <2>7 DEF StoreInv, StoreOK
<1>5. CASE SaveCredentials
  <2>1. keys' = [keys EXCEPT ![commit.u][commit.to] = commit.key]
    BY <1>5 DEF SaveCredentials
  <2>2. keys' \in [Users -> [Combos -> Keys \cup {NoKey}]]
    BY <1>2, <2>1 DEF StoreInv, StoreOK
  <2>3. UNCHANGED <<status, pointer, draft>> /\ commit' = Rest(commit)
    BY <1>5 DEF SaveCredentials, Advance, chat
  <2>4. \A u \in Users, c \in Combos :
           keys[u][c] # NoKey => keys'[u][c] # NoKey
    BY <1>2, <2>1 DEF StoreInv, StoreOK
  <2>5. keys'[commit.u][commit.to] # NoKey
    BY <1>2, <2>1 DEF StoreInv, StoreOK
  <2>6. PointReady'
    BY <1>3, <2>3, <2>5 DEF PointReady
  <2>7. PointerHasKeys'
    BY <2>3, <2>4 DEF StoreInv, StoreOK, PointerHasKeys
  <2> QED BY <1>3, <2>2, <2>3, <2>6, <2>7 DEF StoreInv, StoreOK
<1>6. CASE SetPointer
  <2>1. pointer' = [pointer EXCEPT ![commit.u] = commit.to]
    BY <1>6 DEF SetPointer
  <2>2. UNCHANGED <<status, keys, draft>> /\ commit' = Rest(commit)
        /\ commit.pc = "point"
    BY <1>6 DEF SetPointer, Advance, chat
  <2>3. PointReady'
    BY <1>3, <2>2 DEF PointReady
  <2>4. keys[commit.u][commit.to] # NoKey
    BY <2>2 DEF StoreInv, PointReady
  <2>5. PointerHasKeys'
    BY <1>2, <2>1, <2>2, <2>4 DEF StoreInv, StoreOK, PointerHasKeys
  <2> QED BY <1>2, <1>3, <2>1, <2>2, <2>3, <2>5 DEF StoreInv, StoreOK
<1>7. CASE Tighten \/ LinkChat \/ Rebuild
  <2>1. UNCHANGED <<status, pointer, keys, draft>> /\ commit' = Rest(commit)
        /\ commit.pc # "save"
    BY <1>7 DEF Tighten, LinkChat, Rebuild, Advance, chat, store
  <2> QED BY <1>3, <2>1, BegunCommit DEF StoreInv, StoreOK
<1>8. CASE TightenFails \/ PromoteFails
  <2>1. /\ UNCHANGED <<status, pointer, keys, draft>>
        /\ commit' = NoCommit \/ (commit' = Rest(commit) /\ commit.pc = "tighten")
    BY <1>8 DEF TightenFails, PromoteFails, chat, store
  <2>2. commit'.pc # "point"
    BY <1>3, <2>1 DEF NoCommit
  <2> QED BY <1>3, <2>1, <2>2, BegunCommit DEF StoreInv, StoreOK
<1> QED BY <1>4, <1>5, <1>6, <1>7, <1>8 DEF CommitStep

\* The admin API: it begins a commit, or changes the status of a known user.
LEMMA ApiKeeps ==
    ASSUME StoreInv, NEW u \in Users, ApiStep(u)
    PROVE  StoreInv'
<1>1. CASE \E c \in Combos, k \in Keys :
             ApiCreateUser(u, c, k) \/ ApiEditCredentials(u, c, k)
  <2>1. PICK c \in Combos, k \in Keys :
              ApiCreateUser(u, c, k) \/ ApiEditCredentials(u, c, k)
    BY <1>1
  <2>2. UNCHANGED <<status, pointer, keys, draft>>
        /\ \E pc \in {"create", "save"}, kind \in {"create", "edit"} :
               commit' = [pc |-> pc, kind |-> kind, u |-> u, to |-> c, key |-> k]
    BY <2>1 DEF ApiCreateUser, ApiEditCredentials, Begin, store, chat
  <2>3. commit' \in Commits /\ commit'.pc # "point"
    BY <2>2 DEF Commits, Kinds
  <2> QED BY <2>2, <2>3, BegunCommit DEF StoreInv, StoreOK
<1>2. CASE \E c \in Caps : ApiEditConfig(u, c)
  BY <1>2, KeptStore DEF ApiEditConfig, KeepsStore, chat
<1>3. CASE ApiActivate(u) \/ ApiDeactivate(u)
  <2>1. /\ UNCHANGED <<pointer, keys, commit, draft>> /\ status[u] # "none"
        /\ \E st \in {"active", "inactive"} : status' = [status EXCEPT ![u] = st]
    BY <1>3 DEF ApiActivate, ApiDeactivate, chat
  <2>2. status' \in [Users -> {"none", "active", "inactive"}]
    BY <2>1 DEF StoreInv, StoreOK
  <2>3. \A v \in Users : status'[v] # "none" => status[v] # "none"
    BY <2>1 DEF StoreInv, StoreOK
  <2> QED BY <2>1, <2>2, <2>3 DEF StoreInv, StoreOK, PointReady, PointerHasKeys
<1> QED BY <1>1, <1>2, <1>3 DEF ApiStep

\* A draft whose fields are given values of their types.
LEMMA DraftTyped ==
    ASSUME StoreInv, NEW u \in Users, NEW e \in Exchanges \cup {"none"},
           NEW n \in Networks \cup {"none"}, NEW k \in Keys \cup {NoKey}
    PROVE  /\ [draft[u] EXCEPT !.ex = e] \in Drafts
           /\ [draft[u] EXCEPT !.swEx = e] \in Drafts
           /\ [draft[u] EXCEPT !.swNet = n] \in Drafts
           /\ [draft[u] EXCEPT !.key = k] \in Drafts
           /\ [draft EXCEPT ![u].ex = "none", ![u].key = NoKey] \in [Users -> Drafts]
           /\ [draft EXCEPT ![u].swEx = "none", ![u].swNet = "none", ![u].key = NoKey]
                \in [Users -> Drafts]
           /\ EmptyDraft \in Drafts
           /\ draft[u].key \in Keys \cup {NoKey}
<1>1. draft[u] \in Drafts /\ draft \in [Users -> Drafts]
  BY DEF StoreInv, StoreOK
<1>2. [draft[u] EXCEPT !.ex = e] \in Drafts
  BY <1>1 DEF Drafts
<1>3. [draft[u] EXCEPT !.swEx = e] \in Drafts
  BY <1>1 DEF Drafts
<1>4. [draft[u] EXCEPT !.swNet = n] \in Drafts
  BY <1>1 DEF Drafts
<1>5. [draft[u] EXCEPT !.key = k] \in Drafts
  BY <1>1 DEF Drafts
<1>6. [draft EXCEPT ![u].ex = "none", ![u].key = NoKey] \in [Users -> Drafts]
  BY <1>1 DEF Drafts
<1>7. [draft EXCEPT ![u].swEx = "none", ![u].swNet = "none", ![u].key = NoKey]
        \in [Users -> Drafts]
  BY <1>1 DEF Drafts
<1>8. EmptyDraft \in Drafts /\ draft[u].key \in Keys \cup {NoKey}
  BY <1>1 DEF Drafts, EmptyDraft
<1> QED BY <1>2, <1>3, <1>4, <1>5, <1>6, <1>7, <1>8

\* A step that only asks the next question, and one that notes the answer too.
LEMMA AsksKeeps ==
    ASSUME StoreInv, NEW u, NEW c, NEW s, Asks(u, c, s)
    PROVE  StoreInv'
BY KeptStore DEF Asks, KeepsStore, store

LEMMA NotesKeeps ==
    ASSUME StoreInv, NEW u \in Users, NEW c, NEW s, NEW d \in Drafts, Notes(u, c, s, d)
    PROVE  StoreInv'
<1>1. draft' \in [Users -> Drafts] /\ UNCHANGED <<status, pointer, keys, commit>>
  BY DEF Notes, store, StoreInv, StoreOK
<1> QED BY <1>1 DEF StoreInv, StoreOK, PointReady, PointerHasKeys

\* The end of a switch begins a commit: with credentials that are stored when the
\* pointer is all that is left to move.
LEMMA CommitSwitchKeeps ==
    ASSUME StoreInv, NEW u \in Users, HasTarget(u), NEW pc \in {"point", "save"},
           NEW k \in Keys, pc = "point" => k = keys[u][Target(u)],
           CommitSwitch(u, pc, k)
    PROVE  StoreInv'
<1>1. commit' = [pc |-> pc, kind |-> "switch", u |-> u, to |-> Target(u), key |-> k]
      /\ UNCHANGED <<status, pointer, keys>> /\ Clear(u)
  BY DEF CommitSwitch, Begin, store
<1>2. commit' \in Commits
  BY <1>1 DEF Commits, Kinds, HasTarget
<1>3. commit'.pc = "point" => keys[commit'.u][commit'.to] # NoKey
  BY <1>1
<1>4. draft' \in [Users -> Drafts]
  BY <1>1, DraftTyped DEF Clear
<1> QED BY <1>1, <1>2, <1>3, <1>4, BegunCommit

LEMMA EndsSwitch ==
    ASSUME StoreInv, NEW u \in Users, Clear(u),
           UNCHANGED <<status, pointer, keys, commit>>
    PROVE  StoreInv'
<1>1. draft' \in [Users -> Drafts]
  BY DraftTyped DEF Clear
<1> QED BY <1>1 DEF StoreInv, StoreOK, PointReady, PointerHasKeys

LEMMA CompleteRegistrationKeeps ==
    ASSUME StoreInv, NEW u \in Users, NEW n, CompleteRegistration(u, n)
    PROVE  StoreInv'
<1>1. draft' \in [Users -> Drafts]
  BY DraftTyped DEF CompleteRegistration, Forget
<1>2. UNCHANGED <<status, pointer, keys>>
  BY DEF CompleteRegistration, store
<1>3. CASE UNCHANGED commit
  BY <1>1, <1>2, <1>3 DEF StoreInv, StoreOK, PointReady, PointerHasKeys
<1>4. CASE Begin("create", "register", u, <<ChosenExchange(u), n>>, draft[u].key)
  <2>1. draft[u].key \in Keys /\ <<ChosenExchange(u), n>> \in Combos
    BY DraftTyped DEF CompleteRegistration
  <2>2. commit' \in Commits /\ commit'.pc # "point"
    BY <1>4, <2>1 DEF Begin, Commits, Kinds
  <2> QED BY <1>1, <1>2, <2>2, BegunCommit
<1> QED BY <1>3, <1>4 DEF CompleteRegistration

LEMMA PromoteKeeps ==
    ASSUME StoreInv, NEW u \in Users, ReceivePromoteConfirm(u)
    PROVE  StoreInv'
<1>1. UNCHANGED <<status, pointer, keys, draft>>
  BY DEF ReceivePromoteConfirm, store
<1>2. CASE UNCHANGED commit
  BY <1>1, <1>2, KeptStore DEF KeepsStore
<1>3. CASE /\ keys[u][pointer[u]] # NoKey /\ <<"hyperliquid", "mainnet">> \in Combos
           /\ Begin("save", "promote", u, <<"hyperliquid", "mainnet">>,
                    keys[u][pointer[u]])
  <2>1. keys[u][pointer[u]] \in Keys
    BY <1>3 DEF StoreInv, StoreOK
  <2>2. commit' \in Commits /\ commit'.pc # "point"
    BY <1>3, <2>1 DEF Begin, Commits, Kinds
  <2> QED BY <1>1, <2>2, BegunCommit DEF StoreInv, StoreOK
<1> QED BY <1>2, <1>3 DEF ReceivePromoteConfirm

LEMMA SwConfirmSavedKeeps ==
    ASSUME StoreInv, NEW u \in Users, SwConfirmSaved(u)
    PROVE  StoreInv'
<1>1. CASE Clear(u) /\ UNCHANGED <<store, trades, pipe, killed, commit, ahead>>
  BY <1>1, EndsSwitch DEF store
<1>2. CASE Asks(u, "sw", "first")
  BY <1>2, AsksKeeps
<1>3. CASE /\ HasTarget(u) /\ keys[u][Target(u)] # NoKey
           /\ CommitSwitch(u, "point", keys[u][Target(u)])
  <2>1. keys[u][Target(u)] \in Keys
    BY <1>3 DEF StoreInv, StoreOK, HasTarget
  <2> QED BY <1>3, <2>1, CommitSwitchKeeps
<1> QED BY <1>1, <1>2, <1>3 DEF SwConfirmSaved

LEMMA SwSecondKeeps ==
    ASSUME StoreInv, NEW u \in Users, SwSecond(u)
    PROVE  StoreInv'
<1>1. CASE Clear(u) /\ UNCHANGED <<store, trades, pipe, killed, commit, ahead>>
  BY <1>1, EndsSwitch DEF store
<1>2. CASE CommitSwitch(u, "save", draft[u].key)
  <2>1. draft[u].key \in Keys /\ HasTarget(u)
    BY DraftTyped DEF SwSecond
  <2> QED BY <1>2, <2>1, CommitSwitchKeeps
<1> QED BY <1>1, <1>2 DEF SwSecond

LEMMA ChatKeeps ==
    ASSUME StoreInv, NEW u \in Users, ChatStep(u)
    PROVE  StoreInv'
<1>1. CASE \/ RegisterCommand(u) \/ ReceiveSecond(u) \/ PromoteCommand(u)
           \/ SwitchStart(u) \/ SwMainnetConfirm(u)
  BY <1>1, AsksKeeps DEF RegisterCommand, ReceiveSecond, PromoteCommand, SwitchStart,
     SwMainnetConfirm
<1>2. CASE ReceiveMainnetConfirm(u)
  BY <1>2, CompleteRegistrationKeeps DEF ReceiveMainnetConfirm
<1>3. CASE ReceivePromoteConfirm(u)
  BY <1>3, PromoteKeeps
<1>4. CASE SwConfirmSaved(u)
  BY <1>4, SwConfirmSavedKeeps
<1>5. CASE SwSecond(u)
  BY <1>5, SwSecondKeeps
<1>6. CASE \E e \in Exchanges : ReceiveExchange(u, e) \/ SwChooseExchange(u, e)
  BY <1>6, DraftTyped, NotesKeeps DEF ReceiveExchange, SwChooseExchange
<1>7. CASE \E n \in Networks : ReceiveNetwork(u, n) \/ SwChooseNetwork(u, n)
  <2>1. PICK n \in Networks : ReceiveNetwork(u, n) \/ SwChooseNetwork(u, n)
    BY <1>7
  <2>2. CASE SwChooseNetwork(u, n)
    BY <2>2, DraftTyped, NotesKeeps DEF SwChooseNetwork
  <2>3. CASE ReceiveNetwork(u, n)
    BY <2>3, AsksKeeps, CompleteRegistrationKeeps DEF ReceiveNetwork
  <2> QED BY <2>1, <2>2, <2>3
<1>8. CASE \E k \in Keys : ReceiveFirst(u, k) \/ SwFirst(u, k)
  BY <1>8, DraftTyped, NotesKeeps DEF ReceiveFirst, SwFirst
<1>9. CASE (\E c \in Caps : ConfigText(u, c)) \/ ConfigButton(u) \/ SetPaused(u)
  BY <1>9, KeptStore DEF ConfigText, ConfigButton, SetPaused, KeepsStore, chat, store
<1>10. CASE Cancel(u)
  <2>1. draft' \in [Users -> Drafts] /\ UNCHANGED <<status, pointer, keys, commit>>
    BY <1>10, DraftTyped DEF Cancel, store, StoreInv, StoreOK
  <2> QED BY <2>1 DEF StoreInv, StoreOK, PointReady, PointerHasKeys
<1> QED BY <1>1, <1>2, <1>3, <1>4, <1>5, <1>6, <1>7, <1>8, <1>9, <1>10 DEF ChatStep

LEMMA CrashKeeps ==
    ASSUME StoreInv, Crash
    PROVE  StoreInv'
<1>1. UNCHANGED <<status, pointer, keys>> /\ commit' = NoCommit
      /\ draft' = [u \in Users |-> EmptyDraft]
  BY DEF Crash, store
<1>2. draft' \in [Users -> Drafts]
  BY <1>1 DEF EmptyDraft, Drafts
<1> QED BY <1>1, <1>2, BegunCommit DEF NoCommit

LEMMA InitStored ==
    ASSUME Init
    PROVE  StoreInv
BY DEF Init, StoreInv, StoreOK, PointReady, PointerHasKeys, NoCommit, Drafts,
       EmptyDraft, Default, CombosAssumption

LEMMA StoreStep ==
    ASSUME StoreInv, [Next]_vars
    PROVE  StoreInv'
<1>1. CASE UNCHANGED vars
  BY <1>1, KeptStore DEF vars, store, chat, KeepsStore
<1>2. CASE CommitStep
  BY <1>2, CommitStepKeeps
<1>3. ASSUME NEW u \in Users, ChatStep(u) PROVE StoreInv'
  BY <1>3, ChatKeeps
<1>4. ASSUME NEW u \in Users, ApiStep(u) PROVE StoreInv'
  BY <1>4, ApiKeeps
<1>5. ASSUME NEW u \in Users, TradesSettle(u) \/ \E c \in Combos : VenueCloses(u, c)
      PROVE  StoreInv'
  BY <1>5, KeptStore DEF TradesSettle, VenueCloses, KeepsStore, store, chat
<1>6. CASE Dispatch \/ Resume \/ KillAll
  BY <1>6, KeptStore DEF Dispatch, Resume, KillAll, KeepsStore, store, chat
<1>7. CASE Crash
  BY <1>7, CrashKeeps
<1> QED BY <1>1, <1>2, <1>3, <1>4, <1>5, <1>6, <1>7 DEF Next

\* The credentials behind the active combo are there from the registration on.
THEOREM ActiveComboStored == Spec => []PointerHasKeys
<1>1. StoreInv => PointerHasKeys
  BY DEF StoreInv
<1> QED BY <1>1, InitStored, StoreStep, PTL DEF Spec

-----------------------------------------------------------------------------
(* The types *)

\* What TypeOK says beyond StoreOK.
RestOK ==
    /\ cap \in [Users -> Caps]
    /\ linked \in [Users -> BOOLEAN]
    /\ open \in [Users -> BOOLEAN]
    /\ exposed \in [Users -> SUBSET Combos]
    /\ pipe \in [Users -> Contexts \cup {Off}]
    /\ killed \in BOOLEAN
    /\ ahead \in [Users -> SUBSET {"credentials", "config"}]
    /\ conv \in [Users -> Conversations]

LEMMA TypesSplit == TypeOK <=> StoreOK /\ RestOK
BY DEF TypeOK, RestOK

\* A pipeline is built of what is stored.
LEMMA ContextTyped ==
    ASSUME StoreOK, RestOK, NEW u \in Users, CanStart(u)
    PROVE  Context(u) \in Contexts
BY DEF StoreOK, RestOK, CanStart, Context, Contexts

LEMMA ActivationTyped ==
    ASSUME StoreOK, RestOK, NEW u \in Users,
           Start(u) \/ FailsToStart(u) \/ UNCHANGED <<pipe, open, ahead>>
    PROVE  /\ pipe' \in [Users -> Contexts \cup {Off}]
           /\ open' \in [Users -> BOOLEAN]
           /\ ahead' \in [Users -> SUBSET {"credentials", "config"}]
<1>1. CASE Start(u)
  <2>1. Context(u) \in Contexts
    BY <1>1, ContextTyped DEF Start
  <2>2. Synced(u) \subseteq BOOLEAN
    BY DEF Synced, RestOK
  <2> QED BY <1>1, <2>1, <2>2 DEF Start, RestOK
<1>2. CASE FailsToStart(u)
  BY <1>2 DEF FailsToStart, RestOK
<1>3. CASE UNCHANGED <<pipe, open, ahead>>
  BY <1>3 DEF RestOK
<1> QED BY <1>1, <1>2, <1>3

LEMMA LeaveBehindTyped ==
    ASSUME RestOK, NEW u \in Users, NEW what \in {"credentials", "config"},
           LeaveBehind(u, what)
    PROVE  ahead' \in [Users -> SUBSET {"credentials", "config"}]
BY DEF LeaveBehind, RestOK

LEMMA RefreshTyped ==
    ASSUME StoreOK, RestOK, NEW u \in Users, NEW c \in Caps, RefreshUserConfig(u, c)
    PROVE  /\ pipe' \in [Users -> Contexts \cup {Off}]
           /\ ahead' \in [Users -> SUBSET {"credentials", "config"}]
<1>1. CASE /\ pipe[u].on
           /\ pipe' = [pipe EXCEPT ![u].cap = c, ![u].exchange = pointer[u]]
           /\ ahead' = [ahead EXCEPT ![u] = @ \ {"config"}]
  <2>1. pipe[u] \in Contexts /\ pointer[u] \in Combos
    BY <1>1 DEF RestOK, StoreOK, Off
  <2>2. pipe' = [pipe EXCEPT ![u].cap = c, ![u].exchange = pointer[u]]
        /\ ahead' = [ahead EXCEPT ![u] = @ \ {"config"}]
    BY <1>1
  <2>3. pipe'[u] \in Contexts /\ \A v \in Users \ {u} : pipe'[v] = pipe[v]
    BY <2>1, <2>2 DEF RestOK, Contexts
  <2>4. pipe' \in [Users -> Contexts \cup {Off}]
    BY <2>2, <2>3 DEF RestOK
  <2> QED BY <2>2, <2>4 DEF RestOK
<1>2. CASE UNCHANGED <<pipe, ahead>>
  BY <1>2 DEF RestOK
<1>3. CASE LeaveBehind(u, "config") /\ UNCHANGED pipe
  BY <1>3, LeaveBehindTyped DEF RestOK
<1> QED BY <1>1, <1>2, <1>3 DEF RefreshUserConfig

LEMMA PausedContext ==
    ASSUME NEW p \in Contexts
    PROVE  [p EXCEPT !.paused = ~p.paused] \in Contexts
<1> DEFINE b == ~p.paused
<1>1. b \in BOOLEAN
  OBVIOUS
<1> HIDE DEF b
<1>2. [p EXCEPT !.paused = b] \in Contexts
  BY <1>1 DEF Contexts
<1> QED BY <1>2 DEF b

LEMMA PauseTyped ==
    ASSUME RestOK, NEW u \in Users, pipe[u].on, Pause(u, ~pipe[u].paused)
    PROVE  /\ pipe' \in [Users -> Contexts \cup {Off}]
           /\ pipe'[u] = [pipe[u] EXCEPT !.paused = ~pipe[u].paused]
           /\ \A v \in Users \ {u} : pipe'[v] = pipe[v]
<1>1. pipe[u] \in Contexts
  BY DEF RestOK, Off
<1>2. pipe' = [pipe EXCEPT ![u].paused = ~pipe[u].paused]
  BY DEF Pause
<1>3. pipe'[u] = [pipe[u] EXCEPT !.paused = ~pipe[u].paused]
      /\ \A v \in Users \ {u} : pipe'[v] = pipe[v]
  BY <1>2 DEF RestOK
<1>4. pipe'[u] \in Contexts
  BY <1>1, <1>3, PausedContext
<1> QED BY <1>2, <1>3, <1>4 DEF RestOK

LEMMA GotoTyped ==
    ASSUME RestOK, NEW u \in Users
    PROVE  /\ \A x \in RegStates : Goto(u, "reg", x) => conv' \in [Users -> Conversations]
           /\ \A x \in {"end", "confirm"} :
                 Goto(u, "promo", x) => conv' \in [Users -> Conversations]
           /\ \A x \in SwStates : Goto(u, "sw", x) => conv' \in [Users -> Conversations]
<1>1. conv \in [Users -> Conversations] /\ conv[u] \in Conversations
  BY DEF RestOK
<1>2. \A x \in RegStates : [conv[u] EXCEPT !["reg"] = x] \in Conversations
  BY <1>1 DEF Conversations
<1>3. \A x \in {"end", "confirm"} : [conv[u] EXCEPT !["promo"] = x] \in Conversations
  BY <1>1 DEF Conversations
<1>4. \A x \in SwStates : [conv[u] EXCEPT !["sw"] = x] \in Conversations
  BY <1>1 DEF Conversations
<1>5. \A c, x : Goto(u, c, x) => conv' = [conv EXCEPT ![u] = [conv[u] EXCEPT ![c] = x]]
  BY <1>1 DEF Goto
<1>6. \A d \in Conversations : [conv EXCEPT ![u] = d] \in [Users -> Conversations]
  BY <1>1
<1>7. \A x \in RegStates : Goto(u, "reg", x) => conv' \in [Users -> Conversations]
  <2> TAKE x \in RegStates
  <2> DEFINE d == [conv[u] EXCEPT !["reg"] = x]
  <2> HAVE Goto(u, "reg", x)
  <2>1. d \in Conversations /\ conv' = [conv EXCEPT ![u] = d]
    BY <1>2, <1>5
  <2> HIDE DEF d
  <2> QED BY <1>6, <2>1
<1>8. \A x \in {"end", "confirm"} : Goto(u, "promo", x) => conv' \in [Users -> Conversations]
  <2> TAKE x \in {"end", "confirm"}
  <2> DEFINE d == [conv[u] EXCEPT !["promo"] = x]
  <2> HAVE Goto(u, "promo", x)
  <2>1. d \in Conversations /\ conv' = [conv EXCEPT ![u] = d]
    BY <1>3, <1>5
  <2> HIDE DEF d
  <2> QED BY <1>6, <2>1
<1>9. \A x \in SwStates : Goto(u, "sw", x) => conv' \in [Users -> Conversations]
  <2> TAKE x \in SwStates
  <2> DEFINE d == [conv[u] EXCEPT !["sw"] = x]
  <2> HAVE Goto(u, "sw", x)
  <2>1. d \in Conversations /\ conv' = [conv EXCEPT ![u] = d]
    BY <1>4, <1>5
  <2> HIDE DEF d
  <2> QED BY <1>6, <2>1
<1> QED BY <1>7, <1>8, <1>9

LEMMA ChatTyped ==
    ASSUME StoreOK, RestOK, NEW u \in Users, ChatStep(u)
    PROVE  RestOK'
<1> DEFINE Only == UNCHANGED <<cap, linked, trades, pipe, killed, ahead>>
<1>1. ASSUME Only, conv' \in [Users -> Conversations] PROVE RestOK'
  BY <1>1 DEF RestOK, trades
<1> USE GotoTyped DEF RegStates, SwStates
<1>2. CASE RegisterCommand(u) \/ ReceiveSecond(u) \/ \E e \in Exchanges : ReceiveExchange(u, e)
  BY <1>1, <1>2 DEF RegisterCommand, ReceiveSecond, ReceiveExchange, Asks, Notes, store
<1>3. ASSUME NEW n, CompleteRegistration(u, n) PROVE RestOK'
  BY <1>1, <1>3 DEF CompleteRegistration, store
<1>4. CASE ReceiveMainnetConfirm(u)
  BY <1>3, <1>4 DEF ReceiveMainnetConfirm
<1>5. CASE PromoteCommand(u)
  BY <1>1, <1>5 DEF PromoteCommand, Asks, store
<1>6. CASE ReceivePromoteConfirm(u)
  BY <1>1, <1>6 DEF ReceivePromoteConfirm, store
<1>7. CASE SwitchStart(u) \/ SwMainnetConfirm(u)
  BY <1>1, <1>7 DEF SwitchStart, SwMainnetConfirm, Proceed, Asks, store
<1>8. CASE SwConfirmSaved(u)
  BY <1>1, <1>8 DEF SwConfirmSaved, CommitSwitch, Asks, store
<1>9. CASE SwSecond(u)
  BY <1>1, <1>9 DEF SwSecond, CommitSwitch, store
<1>10. CASE \E e \in Exchanges : SwChooseExchange(u, e)
  BY <1>1, <1>10 DEF SwChooseExchange, Notes, store
<1>11. ASSUME NEW n \in Networks, ReceiveNetwork(u, n) PROVE RestOK'
  BY <1>1, <1>3, <1>11 DEF ReceiveNetwork, Asks, store
<1>12. ASSUME NEW n \in Networks, SwChooseNetwork(u, n) PROVE RestOK'
  BY <1>1, <1>12 DEF SwChooseNetwork, Proceed, Notes, store
<1>13. CASE \E k \in Keys : ReceiveFirst(u, k) \/ SwFirst(u, k)
  BY <1>1, <1>13 DEF ReceiveFirst, SwFirst, Notes, store
<1>14. ASSUME NEW c \in Caps, ConfigText(u, c) PROVE RestOK'
  BY <1>14, RefreshTyped DEF ConfigText, RestOK, trades, chat
<1>15. CASE ConfigButton(u)
  <2>1. cap[u] \in Caps
    BY DEF RestOK
  <2> QED BY <1>15, <2>1, RefreshTyped DEF ConfigButton, RestOK, store, trades, chat
<1>16. CASE SetPaused(u)
  BY <1>16, PauseTyped DEF SetPaused, RestOK, store, trades, chat
<1>17. CASE Cancel(u)
  BY <1>1, <1>17 DEF Cancel, RestOK, store
<1> QED
  BY <1>2, <1>4, <1>5, <1>6, <1>7, <1>8, <1>9, <1>10, <1>11, <1>12, <1>13, <1>14, <1>15,
     <1>16, <1>17 DEF ChatStep

LEMMA CommitTyped ==
    ASSUME StoreOK, RestOK, CommitStep
    PROVE  RestOK'
<1>1. commit \in Commits /\ commit.u \in Users
  BY DEF CommitStep, CreateUser, SaveCredentials, SetPointer, Tighten,
         TightenFails, PromoteFails, LinkChat, Rebuild, Advance, StoreOK, NoCommit,
         Commits
<1>2. CASE CreateUser
  BY <1>1, <1>2 DEF CreateUser, RestOK, trades, chat
<1>3. CASE SaveCredentials
  BY <1>1, <1>3, LeaveBehindTyped DEF SaveCredentials, RestOK, trades, chat
<1>4. CASE SetPointer
  BY <1>4 DEF SetPointer, RestOK, trades, chat
<1>5. CASE Tighten
  BY <1>1, <1>5, CapsAssumption DEF Tighten, RestOK, trades, chat
<1>6. CASE TightenFails \/ PromoteFails
  BY <1>1, <1>6, LeaveBehindTyped
  DEF TightenFails, PromoteFails, RestOK, store, trades, chat
<1>7. CASE LinkChat
  BY <1>1, <1>7 DEF LinkChat, RestOK, trades, chat
<1>8. CASE Rebuild
  <2>1. Start(commit.u) \/ FailsToStart(commit.u) \/ UNCHANGED <<pipe, open, ahead>>
    BY <1>8 DEF Rebuild, Reactivate, ActivateUser
  <2> QED BY <1>1, <1>8, <2>1, ActivationTyped DEF Rebuild, RestOK, store, chat
<1> QED BY <1>2, <1>3, <1>4, <1>5, <1>6, <1>7, <1>8 DEF CommitStep

LEMMA ApiTyped ==
    ASSUME StoreOK, RestOK, NEW u \in Users, ApiStep(u)
    PROVE  RestOK'
<1>1. CASE \E c \in Combos, k \in Keys :
             ApiCreateUser(u, c, k) \/ ApiEditCredentials(u, c, k)
  BY <1>1 DEF ApiCreateUser, ApiEditCredentials, RestOK, store, trades, chat
<1>2. ASSUME NEW c \in Caps, ApiEditConfig(u, c) PROVE RestOK'
  BY <1>2, LeaveBehindTyped DEF ApiEditConfig, RestOK, trades, chat
<1>3. CASE ApiActivate(u)
  <2>1. Start(u) \/ FailsToStart(u) \/ UNCHANGED <<pipe, open, ahead>>
    BY <1>3 DEF ApiActivate, ActivateUser
  <2> QED BY <1>3, <2>1, ActivationTyped DEF ApiActivate, RestOK, chat
<1>4. CASE ApiDeactivate(u)
  BY <1>4 DEF ApiDeactivate, RestOK, trades, chat
<1> QED BY <1>1, <1>2, <1>3, <1>4 DEF ApiStep

LEMMA WorldTyped ==
    ASSUME StoreOK, RestOK,
           \/ \E u \in Users : TradesSettle(u) \/ \E c \in Combos : VenueCloses(u, c)
           \/ Dispatch \/ Resume \/ Crash \/ KillAll
    PROVE  RestOK'
<1>1. ASSUME NEW u \in Users, TradesSettle(u) \/ \E c \in Combos : VenueCloses(u, c)
      PROVE  RestOK'
  <2>1. CASE TradesSettle(u)
    BY <2>1 DEF TradesSettle, RestOK, store, chat
  <2>2. ASSUME NEW c \in Combos, VenueCloses(u, c) PROVE RestOK'
    BY <2>2 DEF VenueCloses, RestOK, store, chat
  <2> QED BY <1>1, <2>1, <2>2
<1>2. CASE Resume
  BY <1>2 DEF Resume, RestOK, store, trades, chat
<1>3. CASE Dispatch
  <2>1. PICK S \in SUBSET {u \in Users : pipe[u].on /\ ~pipe[u].paused} :
          /\ open' = [u \in Users |-> open[u] \/ u \in S]
          /\ exposed' = [u \in Users |->
                           IF u \in S THEN exposed[u] \cup {pipe[u].client[1]}
                           ELSE exposed[u]]
    BY <1>3 DEF Dispatch
  <2>2. \A u \in S : pipe[u].client[1] \in Combos
    <3>1. ASSUME NEW u \in S PROVE pipe[u] \in Contexts
      <4>1. u \in Users /\ pipe[u].on
        OBVIOUS
      <4> QED BY <4>1 DEF RestOK, Off
    <3> QED BY <3>1 DEF Contexts
  <2>3. open' \in [Users -> BOOLEAN] /\ exposed' \in [Users -> SUBSET Combos]
    BY <2>1, <2>2 DEF RestOK
  <2> QED BY <1>3, <2>3 DEF Dispatch, RestOK, store, chat
<1>4. CASE KillAll
  BY <1>4 DEF KillAll, RestOK, store, chat
<1>5. CASE Crash
  <2>1. PICK S \in SUBSET Startable :
          /\ pipe' = [u \in Users |-> IF u \in S THEN Context(u) ELSE Off]
          /\ open' \in [Users -> BOOLEAN]
    BY <1>5 DEF Crash
  <2>2. \A u \in S : Context(u) \in Contexts
    BY ContextTyped DEF Startable
  <2>3. pipe' \in [Users -> Contexts \cup {Off}] /\ open' \in [Users -> BOOLEAN]
    BY <2>1, <2>2 DEF RestOK
  <2>4. conv' \in [Users -> Conversations] /\ killed' \in BOOLEAN
    BY <1>5 DEF Crash, NoConversation, Conversations, RegStates, SwStates
  <2> QED BY <1>5, <2>3, <2>4 DEF Crash, RestOK, store
<1> QED BY <1>1, <1>2, <1>3, <1>4, <1>5

LEMMA InitTyped ==
    ASSUME Init
    PROVE  RestOK
BY CapsAssumption DEF Init, RestOK, NoConversation, Conversations, RegStates, SwStates

LEMMA RestStep ==
    ASSUME StoreInv, RestOK, [Next]_vars
    PROVE  RestOK'
<1>1. StoreOK
  BY DEF StoreInv
<1>2. CASE UNCHANGED vars
  BY <1>2 DEF vars, store, trades, chat, RestOK
<1> QED BY <1>1, <1>2, CommitTyped, ChatTyped, ApiTyped, WorldTyped DEF Next

\* The store, the pipelines, the conversations and the trades keep their types.
THEOREM AccountsTyped == Spec => []TypeOK
<1>1. Init => StoreInv /\ RestOK
  BY InitStored, InitTyped
<1>2. StoreInv /\ RestOK /\ [Next]_vars => StoreInv' /\ RestOK'
  BY StoreStep, RestStep
<1>3. StoreInv /\ RestOK => TypeOK
  BY TypesSplit DEF StoreInv
<1> QED BY <1>1, <1>2, <1>3, PTL DEF Spec

-----------------------------------------------------------------------------
(* The pipelines and the store *)

LEMMA PipeKept ==
    ASSUME PipeInv, UNCHANGED <<status, pointer, keys, cap, pipe, commit, ahead>>
    PROVE  PipeInv'
BY DEF PipeInv, CommitKnowsPipe, ClientAgrees, LimitAgrees, Rebuilding, Copying, Free

\* A handler that begins to write has changed nothing yet.
LEMMA PipeBegun ==
    ASSUME PipeInv, Free, UNCHANGED <<status, pointer, keys, cap, pipe, ahead>>,
           NEW pc, NEW kind, NEW u \in Users, NEW c, NEW k, Begin(pc, kind, u, c, k),
           pc = "create" => status[u] = "none",
           kind \in {"register", "create"} => status[u] = "none",
           kind = "edit" => pc = "save",
           kind = "promote" /\ c = pointer[u] => k = keys[u][c]
    PROVE  PipeInv'
<1>1. commit' = [pc |-> pc, kind |-> kind, u |-> u, to |-> c, key |-> k]
  BY DEF Begin
<1>2. CommitKnowsPipe'
  BY <1>1 DEF PipeInv, CommitKnowsPipe, Copying
<1>3. \A v \in Users : ~Rebuilding(v)
  BY DEF Rebuilding
<1> QED BY <1>2, <1>3 DEF PipeInv, ClientAgrees, LimitAgrees

\* A user's pipeline is started, could not be started, or is left as it is.
LEMMA PipeActivated ==
    ASSUME StoreOK, RestOK, PipeInv, Free',
           NEW u \in Users, UNCHANGED <<pointer, keys, cap>>,
           status' = status \/ \E st : st # "none" /\ status' = [status EXCEPT ![u] = st],
           \A v \in Users \ {u} : ~Rebuilding(v),
           \/ Start(u) \/ FailsToStart(u)
           \/ UNCHANGED <<pipe, ahead>> /\ (pipe[u].on => ~Rebuilding(u))
    PROVE  PipeInv'
<1>1. CommitKnowsPipe' /\ \A v \in Users : ~Rebuilding(v)'
  BY DEF CommitKnowsPipe, Rebuilding
<1>2. \A v \in Users : status[v] # "none" => status'[v] # "none"
  BY DEF StoreOK
<1> SUFFICES ASSUME NEW v \in Users, pipe'[v].on
             PROVE  /\ status'[v] # "none"
                    /\ ("credentials" \notin ahead[v] => ClientAgrees(v))'
                    /\ (ahead[v] = {} => LimitAgrees(v))'
  BY <1>1 DEF PipeInv
<1>3. CASE v # u
  <2>1. pipe'[v] = pipe[v] /\ ahead'[v] = ahead[v]
    BY <1>3 DEF Start, FailsToStart, RestOK
  <2> QED BY <1>2, <1>3, <2>1 DEF PipeInv, ClientAgrees, LimitAgrees
<1>4. CASE v = u /\ Start(u)
  <2>1. pipe'[u] = Context(u) /\ status[u] # "none"
    BY <1>4 DEF Start, CanStart, RestOK
  <2> QED BY <1>2, <1>4, <2>1 DEF Context, ClientAgrees, LimitAgrees
<1>5. CASE v = u /\ FailsToStart(u)
  <2>1. pipe'[u] = Off
    BY <1>5 DEF FailsToStart, RestOK
  <2> QED BY <1>5, <2>1 DEF Off
<1>6. CASE v = u /\ UNCHANGED <<pipe, ahead>> /\ (pipe[u].on => ~Rebuilding(u))
  BY <1>2, <1>6 DEF PipeInv, ClientAgrees, LimitAgrees
<1> QED BY <1>3, <1>4, <1>5, <1>6

\* The store is edited behind a running pipeline, which is noted.
LEMMA PipeLeftBehind ==
    ASSUME StoreOK, RestOK, PipeInv, Free, NEW u \in Users, NEW c \in Caps,
           LeaveBehind(u, "config"), UNCHANGED <<status, pointer, keys, pipe, commit>>,
           cap' = [cap EXCEPT ![u] = c]
    PROVE  PipeInv'
<1>1. \A v \in Users \ {u} : cap'[v] = cap[v] /\ ahead'[v] = ahead[v]
  BY DEF RestOK, LeaveBehind
<1>2. pipe[u].on => ahead'[u] = ahead[u] \cup {"config"}
  BY DEF RestOK, LeaveBehind
<1>3. CommitKnowsPipe' /\ \A v \in Users : ~Rebuilding(v) /\ ~Rebuilding(v)'
  BY DEF CommitKnowsPipe, Rebuilding, Free
<1> SUFFICES ASSUME NEW v \in Users, pipe'[v].on
             PROVE  /\ status'[v] # "none"
                    /\ ("credentials" \notin ahead[v] => ClientAgrees(v))'
                    /\ (ahead[v] = {} => LimitAgrees(v))'
  BY <1>3 DEF PipeInv
<1>4. CASE v = u
  BY <1>2, <1>3, <1>4 DEF PipeInv, ClientAgrees, LimitAgrees
<1>5. CASE v # u
  BY <1>1, <1>3, <1>5 DEF PipeInv, ClientAgrees, LimitAgrees
<1> QED BY <1>4, <1>5

\* A new Config for the pipeline, read from the store; the client stays.
LEMMA PipeRefreshed ==
    ASSUME StoreOK, RestOK, PipeInv, Free, NEW u \in Users, NEW c \in Caps,
           RefreshUserConfig(u, c), UNCHANGED <<status, pointer, keys, commit>>,
           cap' = [cap EXCEPT ![u] = c]
    PROVE  PipeInv'
<1>1. CASE ~pipe[u].on /\ UNCHANGED <<pipe, ahead>>
  <2>2. \A v \in Users \ {u} : cap'[v] = cap[v]
    BY DEF RestOK
  <2> QED BY <1>1, <2>2 DEF PipeInv, CommitKnowsPipe, ClientAgrees, LimitAgrees,
             Rebuilding, Copying, Free
<1>2. CASE /\ pipe[u].on
           /\ pipe' = [pipe EXCEPT ![u].cap = c, ![u].exchange = pointer[u]]
           /\ ahead' = [ahead EXCEPT ![u] = @ \ {"config"}]
  <2>1. pipe[u] \in Contexts
    BY <1>2 DEF RestOK, Off
  <2>2. /\ pipe' = [pipe EXCEPT ![u].cap = c, ![u].exchange = pointer[u]]
        /\ ahead' = [ahead EXCEPT ![u] = @ \ {"config"}]
    BY <1>2
  <2>3. /\ pipe'[u].on /\ pipe'[u].client = pipe[u].client
        /\ pipe'[u].cap = c /\ pipe'[u].exchange = pointer[u]
    BY <2>1, <2>2 DEF RestOK, Contexts
  <2>4. \A v \in Users \ {u} : /\ pipe'[v] = pipe[v] /\ ahead'[v] = ahead[v]
                               /\ cap'[v] = cap[v]
    BY <2>2 DEF RestOK
  <2>5. "credentials" \notin ahead'[u] => "credentials" \notin ahead[u]
    BY <2>2 DEF RestOK
  <2>6. Free' /\ cap'[u] = c
    BY DEF Free, RestOK
  <2>7. CommitKnowsPipe' /\ \A v \in Users : ~Rebuilding(v) /\ ~Rebuilding(v)'
    BY <2>6 DEF CommitKnowsPipe, Rebuilding
  <2> SUFFICES ASSUME NEW v \in Users, pipe'[v].on
               PROVE  /\ status'[v] # "none"
                      /\ ("credentials" \notin ahead[v] => ClientAgrees(v))'
                      /\ (ahead[v] = {} => LimitAgrees(v))'
    BY <2>7 DEF PipeInv
  <2>8. CASE v = u
    BY <1>2, <2>3, <2>5, <2>6, <2>7, <2>8 DEF PipeInv, ClientAgrees, LimitAgrees
  <2>9. CASE v # u
    BY <2>4, <2>7, <2>9 DEF PipeInv, ClientAgrees, LimitAgrees
  <2> QED BY <2>8, <2>9
<1>3. CASE LeaveBehind(u, "config") /\ UNCHANGED pipe
  BY <1>3, PipeLeftBehind
<1> QED BY <1>1, <1>2, <1>3 DEF RefreshUserConfig

\* What follows a transaction belongs to the same handler.
LEMMA RestIsSame ==
    ASSUME commit \in Commits
    PROVE  \/ Rest(commit) = NoCommit
           \/ /\ Rest(commit).pc \in {"point", "tighten", "link", "rebuild"}
              /\ Rest(commit).kind = commit.kind /\ Rest(commit).u = commit.u
              /\ commit.pc = "save" <=> Rest(commit).pc = "point"
BY DEF Rest, After, Commits

\* A transaction for a user u: the others keep what they have; u has no pipeline, or
\* one that will be rebuilt, or that was noted as left behind.
LEMMA PipeWritten ==
    ASSUME StoreOK, RestOK, PipeInv, commit \in Commits, pipe' = pipe,
           commit' \in {NoCommit, Rest(commit)},
           NEW u \in Users, commit.u = u,
           \A v \in Users \ {u} :
              /\ status'[v] = status[v] /\ pointer'[v] = pointer[v]
              /\ keys'[v] = keys[v] /\ cap'[v] = cap[v] /\ ahead'[v] = ahead[v],
           pipe[u].on =>
              /\ status'[u] # "none"
              /\ "credentials" \in ahead'[u] \/ Rebuilding(u)',
           commit.kind = "edit" /\ ~Free' => commit.pc = "save",
           ~Copying'
    PROVE  PipeInv'
<1>1. ~Free
  BY DEF Commits, Free
<1>2. Free' <=> commit' = NoCommit
  BY RestIsSame DEF Free, NoCommit
<1>3. ~Free' => /\ commit'.pc \in {"point", "tighten", "link", "rebuild"}
                /\ commit'.kind = commit.kind /\ commit'.u = u
                /\ commit.pc = "save" <=> commit'.pc = "point"
  BY <1>2, RestIsSame
<1>4. CommitKnowsPipe'
  <2> SUFFICES ASSUME ~Free'
               PROVE  /\ commit.kind \in {"register", "create"} => ~pipe[u].on
                      /\ commit.kind = "edit" =>
                           /\ commit'.pc = "point"
                           /\ pipe[u].on => "credentials" \in ahead'[u]
    BY <1>3 DEF CommitKnowsPipe
  <2>1. commit.kind = "edit" => ~Rebuilding(u)'
    BY <1>3 DEF Rebuilding
  <2> QED BY <1>1, <1>3, <2>1 DEF PipeInv, CommitKnowsPipe
<1> SUFFICES ASSUME NEW v \in Users, pipe[v].on
             PROVE  /\ status'[v] # "none"
                    /\ ("credentials" \notin ahead[v] /\ ~Rebuilding(v) => ClientAgrees(v))'
                    /\ (ahead[v] = {} /\ ~Rebuilding(v) => LimitAgrees(v))'
  BY <1>4 DEF PipeInv
<1>5. CASE v = u
  BY <1>5
<1>6. CASE v # u
  <2>1. ~Rebuilding(v)
    BY <1>6 DEF Rebuilding
  <2> QED BY <1>6, <2>1 DEF PipeInv, ClientAgrees, LimitAgrees
<1> QED BY <1>5, <1>6

LEMMA CommitPipes ==
    ASSUME StoreInv, RestOK, PipeInv, CommitStep
    PROVE  PipeInv'
<1>0. StoreOK
  BY DEF StoreInv
<1>1. commit \in Commits /\ commit.u \in Users /\ ~Free
  BY <1>0 DEF CommitStep, CreateUser, SaveCredentials, SetPointer, Tighten, Free,
     TightenFails, PromoteFails, LinkChat, Rebuild, Advance, StoreOK, NoCommit, Commits
<1>2. /\ commit.kind \in {"switch", "promote", "edit"} \/ ~pipe[commit.u].on
      /\ pipe[commit.u].on => status[commit.u] # "none"
      /\ commit.pc = "create" => ~pipe[commit.u].on /\ commit.kind # "edit"
  BY <1>1 DEF PipeInv, CommitKnowsPipe, Commits, Kinds
<1>u. PICK u \in Users : commit.u = u
  BY <1>1
<1>3. CASE CreateUser
  <2>1. commit.pc = "create" /\ commit' = Rest(commit)
    BY <1>3 DEF CreateUser, Advance
  <2>2. \A v \in Users \ {commit.u} :
              /\ status'[v] = status[v] /\ pointer'[v] = pointer[v]
              /\ keys'[v] = keys[v] /\ cap'[v] = cap[v] /\ ahead'[v] = ahead[v]
    BY <1>0, <1>3 DEF CreateUser, StoreOK, RestOK
  <2>3. pipe' = pipe
    BY <1>3 DEF CreateUser
  <2>4. ~Copying'
    BY <1>1, <2>1, RestIsSame DEF Copying, NoCommit
  <2> QED BY <1>0, <1>1, <1>2, <2>1, <2>2, <2>3, <2>4, <1>u, PipeWritten
<1>4. CASE SaveCredentials
  <2>1. /\ commit.pc = "save" /\ commit' = Rest(commit) /\ pipe' = pipe
        /\ UNCHANGED <<status, pointer, cap>>
    BY <1>4 DEF SaveCredentials, Advance
  <2>2. \A v \in Users \ {commit.u} : keys'[v] = keys[v] /\ ahead'[v] = ahead[v]
    BY <1>0, <1>4 DEF SaveCredentials, LeaveBehind, StoreOK, RestOK
  <2>3. commit.kind = "edit" /\ pipe[commit.u].on => "credentials" \in ahead'[commit.u]
    BY <1>1, <1>4 DEF SaveCredentials, LeaveBehind, RestOK
  <2>4. /\ commit'.pc = "point" /\ commit'.kind = commit.kind
        /\ commit'.u = commit.u /\ commit'.to = commit.to /\ commit'.key = commit.key
    BY <1>1, <2>1 DEF Rest, After, Commits
  <2>5. CASE commit.kind # "promote"
    <3>1. ~Copying' /\ (commit.kind = "switch" => Rebuilding(u)')
      BY <1>u, <2>4, <2>5 DEF Rebuilding, Copying, Free
    <3> QED BY <1>0, <1>1, <1>2, <2>1, <2>2, <2>3, <2>5, <3>1, <1>u, PipeWritten
  <2>6. CASE commit.kind = "promote"
    <3>1. UNCHANGED <<ahead>> /\ keys' = [keys EXCEPT ![commit.u][commit.to] = commit.key]
      BY <1>4, <2>6 DEF SaveCredentials
    <3>2. commit.to = pointer[commit.u] => commit.key = keys[commit.u][commit.to]
      BY <1>1, <2>1, <2>6 DEF PipeInv, CommitKnowsPipe, Copying
    <3>3. keys'[commit.u][commit.to] = commit.key
      BY <1>0, <1>1, <3>1 DEF StoreOK, Commits
    <3>4. \A v \in Users : keys'[v][pointer[v]] = keys[v][pointer[v]]
      <4>1. CASE commit.to = pointer[commit.u]
        BY <1>0, <1>1, <2>2, <3>2, <3>3, <4>1 DEF StoreOK, Commits
      <4>2. CASE commit.to # pointer[commit.u]
        BY <1>0, <1>1, <2>2, <3>1, <4>2 DEF StoreOK, Commits
      <4> QED BY <4>1, <4>2
    <3>5. \A v \in Users : ~Rebuilding(v)
      BY <2>1, <2>6 DEF Rebuilding, Copying
    <3>6. CommitKnowsPipe'
      BY <2>1, <2>4, <2>6, <3>3 DEF CommitKnowsPipe
    <3> QED BY <2>1, <3>1, <3>4, <3>5, <3>6 DEF PipeInv, ClientAgrees, LimitAgrees
  <2> QED BY <2>5, <2>6
<1>5. CASE SetPointer
  <2>1. /\ commit.pc = "point" /\ commit' = Rest(commit) /\ pipe' = pipe
        /\ UNCHANGED <<status, keys, cap, ahead>>
    BY <1>5 DEF SetPointer, Advance
  <2>2. \A v \in Users \ {commit.u} : pointer'[v] = pointer[v]
    BY <1>0, <1>5 DEF SetPointer, StoreOK
  <2>3. commit.kind = "edit" => /\ Free'
                                /\ pipe[commit.u].on => "credentials" \in ahead'[commit.u]
    BY <1>1, <2>1 DEF PipeInv, CommitKnowsPipe, Rest, After, Free, NoCommit
  <2>4. ~Copying' /\ (commit.kind \in {"switch", "promote"} => Rebuilding(u)')
    <3>1. commit.kind \in {"switch", "promote"} =>
            /\ Rest(commit).pc \in {"tighten", "rebuild"}
            /\ Rest(commit).kind = commit.kind /\ Rest(commit).u = commit.u
      BY <1>1, <2>1 DEF Rest, After, Commits
    <3> QED BY <1>1, <1>u, <2>1, <3>1, RestIsSame DEF Rebuilding, Copying, Free, NoCommit
  <2> QED BY <1>0, <1>1, <1>2, <2>1, <2>2, <2>3, <2>4, <1>u, PipeWritten
<1>6. CASE Tighten \/ LinkChat
  <2>1. /\ commit.pc \in {"tighten", "link"} /\ commit' = Rest(commit) /\ pipe' = pipe
        /\ UNCHANGED <<status, pointer, keys, ahead>>
    BY <1>6 DEF Tighten, LinkChat, Advance
  <2>2. \A v \in Users \ {commit.u} : cap'[v] = cap[v]
    BY <1>6 DEF Tighten, LinkChat, RestOK
  <2>3. commit.kind # "edit"
    BY <1>1, <2>1 DEF PipeInv, CommitKnowsPipe
  <2>4. ~Copying' /\ (commit.kind \in {"switch", "promote"} => Rebuilding(u)')
    <3>1. commit.kind \in {"switch", "promote"} =>
            /\ Rest(commit).pc = "rebuild"
            /\ Rest(commit).kind = commit.kind /\ Rest(commit).u = commit.u
      BY <1>1, <2>1 DEF Rest, After, Commits
    <3> QED BY <1>1, <1>u, <2>1, <3>1, RestIsSame DEF Rebuilding, Copying, Free, NoCommit
  <2> QED BY <1>0, <1>1, <1>2, <2>1, <2>2, <2>3, <2>4, <1>u, PipeWritten
<1>7. CASE TightenFails
  <2>1. /\ commit.pc = "tighten" /\ pipe' = pipe /\ commit' = Rest(commit)
        /\ UNCHANGED <<status, pointer, keys, cap, ahead>> /\ commit.kind # "promote"
    BY <1>7 DEF TightenFails, store
  <2>2. commit.kind # "edit"
    BY <1>1, <2>1 DEF PipeInv, CommitKnowsPipe
  <2>3. ~Copying' /\ (commit.kind = "switch" => Rebuilding(u)')
    <3>1. commit.kind = "switch" =>
            /\ Rest(commit).pc = "rebuild"
            /\ Rest(commit).kind = commit.kind /\ Rest(commit).u = commit.u
      BY <1>1, <2>1 DEF Rest, After, Commits
    <3> QED BY <1>1, <1>u, <2>1, <3>1, RestIsSame DEF Rebuilding, Copying, Free, NoCommit
  <2> QED BY <1>0, <1>1, <1>2, <2>1, <2>2, <2>3, <1>u, PipeWritten
<1>9. CASE PromoteFails
  <2>1. /\ commit.kind = "promote" /\ pipe' = pipe /\ commit' = NoCommit
        /\ UNCHANGED <<status, pointer, keys, cap>>
    BY <1>9 DEF PromoteFails, store
  <2>2. ~Copying'
    BY <2>1 DEF Copying, NoCommit
  <2>3. CASE commit.pc = "tighten"
    <3>1. LeaveBehind(commit.u, "credentials")
      BY <1>9, <2>3 DEF PromoteFails
    <3>2. /\ \A v \in Users \ {commit.u} : ahead'[v] = ahead[v]
          /\ pipe[commit.u].on => "credentials" \in ahead'[commit.u]
      BY <1>1, <3>1 DEF LeaveBehind, RestOK
    <3> QED BY <1>0, <1>1, <1>2, <2>1, <2>2, <3>2, <1>u, PipeWritten
  <2>4. CASE commit.pc # "tighten"
    <3>1. UNCHANGED ahead /\ \A v \in Users : ~Rebuilding(v)
      BY <1>9, <2>1, <2>4 DEF PromoteFails, Rebuilding, Copying
    <3>2. CommitKnowsPipe'
      BY <2>1 DEF CommitKnowsPipe, Free, NoCommit
    <3> QED BY <2>1, <3>1, <3>2 DEF PipeInv, ClientAgrees, LimitAgrees
  <2> QED BY <2>3, <2>4
<1>8. CASE Rebuild
  <2>1. UNCHANGED <<status, pointer, keys, cap>> /\ Free'
    BY <1>1, <1>8 DEF Rebuild, Advance, Rest, After, Free, NoCommit, store
  <2>2. \A v \in Users \ {commit.u} : ~Rebuilding(v)
    BY DEF Rebuilding
  <2>3. \/ Start(commit.u) \/ FailsToStart(commit.u)
        \/ UNCHANGED <<pipe, ahead>> /\ ~Rebuilding(commit.u)
    BY <1>8 DEF Rebuild, Reactivate, ActivateUser, Rebuilding
  <2> QED BY <1>0, <1>1, <2>1, <2>2, <2>3, PipeActivated
<1> QED BY <1>3, <1>4, <1>5, <1>6, <1>7, <1>8, <1>9 DEF CommitStep

LEMMA ApiPipes ==
    ASSUME StoreInv, RestOK, PipeInv, NEW u \in Users, ApiStep(u)
    PROVE  PipeInv'
<1>0. StoreOK
  BY DEF StoreInv
<1>1. ASSUME NEW c \in Combos, NEW k \in Keys, ApiCreateUser(u, c, k)
      PROVE  PipeInv'
  BY <1>1, PipeBegun DEF ApiCreateUser, store
<1>2. ASSUME NEW c \in Combos, NEW k \in Keys, ApiEditCredentials(u, c, k)
      PROVE  PipeInv'
  BY <1>2, PipeBegun DEF ApiEditCredentials, store
<1>3. ASSUME NEW c \in Caps, ApiEditConfig(u, c)
      PROVE  PipeInv'
  BY <1>0, <1>3, PipeLeftBehind DEF ApiEditConfig
<1>4. CASE ApiActivate(u)
  <2>1. /\ UNCHANGED <<pointer, keys, cap>> /\ Free'
        /\ status' = [status EXCEPT ![u] = "active"]
        /\ \A v \in Users : ~Rebuilding(v)
    BY <1>4 DEF ApiActivate, Free, Rebuilding
  <2>2. Start(u) \/ FailsToStart(u) \/ UNCHANGED <<pipe, ahead>>
    BY <1>4 DEF ApiActivate, ActivateUser
  <2> QED BY <1>0, <2>1, <2>2, PipeActivated
<1>5. CASE ApiDeactivate(u)
  <2>1. /\ UNCHANGED <<pointer, keys, cap, commit>> /\ Free
        /\ \A v \in Users \ {u} : /\ status'[v] = status[v] /\ pipe'[v] = pipe[v]
                                  /\ ahead'[v] = ahead[v]
        /\ pipe'[u] = Off
    BY <1>0, <1>5 DEF ApiDeactivate, StoreOK, RestOK
  <2>2. CommitKnowsPipe' /\ \A v \in Users : ~Rebuilding(v)
    BY <2>1 DEF CommitKnowsPipe, Rebuilding, Free
  <2> QED BY <2>1, <2>2 DEF PipeInv, ClientAgrees, LimitAgrees, Off
<1> QED BY <1>1, <1>2, <1>3, <1>4, <1>5 DEF ApiStep

LEMMA RegistrationPipes ==
    ASSUME PipeInv, Free, NEW u \in Users, NEW n, CompleteRegistration(u, n)
    PROVE  PipeInv'
<1>1. CASE UNCHANGED commit
  BY <1>1, PipeKept DEF CompleteRegistration, store
<1>2. CASE /\ status[u] = "none"
           /\ Begin("create", "register", u, <<ChosenExchange(u), n>>, draft[u].key)
  BY <1>2, PipeBegun DEF CompleteRegistration, store
<1> QED BY <1>1, <1>2 DEF CompleteRegistration

LEMMA SwitchPipes ==
    ASSUME PipeInv, Free, NEW u \in Users, NEW pc \in {"save", "point"}, NEW k,
           CommitSwitch(u, pc, k)
    PROVE  PipeInv'
BY PipeBegun DEF CommitSwitch, store

LEMMA PausePipes ==
    ASSUME RestOK, PipeInv, NEW u \in Users, SetPaused(u)
    PROVE  PipeInv'
<1>1. pipe[u] \in Contexts
  BY DEF SetPaused, RestOK, Off
<1>2. \A v \in Users : /\ pipe'[v].on = pipe[v].on
                       /\ pipe[v].on => /\ pipe'[v].client = pipe[v].client
                                        /\ pipe'[v].exchange = pipe[v].exchange
                                        /\ pipe'[v].cap = pipe[v].cap
  BY <1>1 DEF SetPaused, Pause, RestOK, Contexts
<1>3. UNCHANGED <<status, pointer, keys, cap, commit, ahead>>
  BY DEF SetPaused, store
<1>4. CommitKnowsPipe'
  BY <1>3 DEF SetPaused, CommitKnowsPipe, Free
<1>5. \A v \in Users : ~Rebuilding(v)
  BY DEF SetPaused, Rebuilding
<1> QED BY <1>2, <1>3, <1>4, <1>5 DEF PipeInv, ClientAgrees, LimitAgrees

LEMMA ChatPipes ==
    ASSUME StoreInv, RestOK, PipeInv, NEW u \in Users, ChatStep(u)
    PROVE  PipeInv'
<1>0. StoreOK
  BY DEF StoreInv
<1> DEFINE Only == UNCHANGED <<status, pointer, keys, cap, pipe, commit, ahead>>
<1>1. ASSUME Only PROVE PipeInv'
  BY <1>1, PipeKept
<1>2. CASE RegisterCommand(u) \/ ReceiveSecond(u) \/ \E e \in Exchanges : ReceiveExchange(u, e)
  BY <1>1, <1>2 DEF RegisterCommand, ReceiveSecond, ReceiveExchange, Asks, Notes, store
<1>3. CASE ReceiveMainnetConfirm(u)
  BY <1>3, RegistrationPipes DEF ReceiveMainnetConfirm
<1>4. CASE PromoteCommand(u) \/ SwitchStart(u) \/ SwMainnetConfirm(u)
  BY <1>1, <1>4 DEF PromoteCommand, SwitchStart, SwMainnetConfirm, Asks, store
<1>5. CASE ReceivePromoteConfirm(u)
  <2>1. CASE UNCHANGED commit
    BY <1>1, <1>5, <2>1 DEF ReceivePromoteConfirm, store
  <2>2. CASE Begin("save", "promote", u, <<"hyperliquid", "mainnet">>, keys[u][pointer[u]])
    <3>1. <<"hyperliquid", "mainnet">> = pointer[u]
            => keys[u][pointer[u]] = keys[u][<<"hyperliquid", "mainnet">>]
      OBVIOUS
    <3> QED BY <1>5, <2>2, <3>1, PipeBegun DEF ReceivePromoteConfirm, store
  <2> QED BY <1>5, <2>1, <2>2 DEF ReceivePromoteConfirm
<1>6. CASE SwConfirmSaved(u)
  <2>1. CASE CommitSwitch(u, "point", keys[u][Target(u)])
    BY <1>6, <2>1, SwitchPipes DEF SwConfirmSaved
  <2> QED BY <1>1, <1>6, <2>1 DEF SwConfirmSaved, Asks, store
<1>7. CASE SwSecond(u)
  <2>1. CASE CommitSwitch(u, "save", draft[u].key)
    BY <1>7, <2>1, SwitchPipes DEF SwSecond
  <2> QED BY <1>1, <1>7, <2>1 DEF SwSecond, store
<1>8. CASE \E e \in Exchanges : SwChooseExchange(u, e)
  BY <1>1, <1>8 DEF SwChooseExchange, Notes, store
<1>9. ASSUME NEW n \in Networks, ReceiveNetwork(u, n) PROVE PipeInv'
  <2>1. CASE n = "mainnet"
    BY <1>1, <1>9, <2>1 DEF ReceiveNetwork, Asks, store
  <2>2. CASE n # "mainnet"
    BY <1>9, <2>2, RegistrationPipes DEF ReceiveNetwork
  <2> QED BY <2>1, <2>2
<1>10. CASE \E n \in Networks : SwChooseNetwork(u, n)
  BY <1>1, <1>10 DEF SwChooseNetwork, Notes, store
<1>11. CASE \E k \in Keys : ReceiveFirst(u, k) \/ SwFirst(u, k)
  BY <1>1, <1>11 DEF ReceiveFirst, SwFirst, Notes, store
<1>12. ASSUME NEW c \in Caps, ConfigText(u, c) PROVE PipeInv'
  BY <1>0, <1>12, PipeRefreshed DEF ConfigText
<1>13. CASE ConfigButton(u)
  <2>1. cap[u] \in Caps /\ cap' = [cap EXCEPT ![u] = cap[u]]
    BY <1>13 DEF ConfigButton, RestOK, store
  <2> QED BY <1>0, <1>13, <2>1, PipeRefreshed DEF ConfigButton, store
<1>14. CASE SetPaused(u)
  BY <1>14, PausePipes
<1>15. CASE Cancel(u)
  BY <1>1, <1>15 DEF Cancel, store
<1> QED BY <1>2, <1>3, <1>4, <1>5, <1>6, <1>7, <1>8, <1>9, <1>10, <1>11, <1>12, <1>13,
           <1>14, <1>15 DEF ChatStep

\* A restart builds every pipeline from the store.
LEMMA CrashPipes ==
    ASSUME Crash
    PROVE  PipeInv'
<1>1. PICK S \in SUBSET Startable :
          pipe' = [u \in Users |-> IF u \in S THEN Context(u) ELSE Off]
  BY DEF Crash
<1>2. /\ UNCHANGED <<status, pointer, keys, cap>> /\ commit' = NoCommit
      /\ ahead' = [u \in Users |-> {}]
  BY DEF Crash, store
<1>3. CommitKnowsPipe'
  BY <1>2 DEF CommitKnowsPipe, Free, NoCommit
<1>4. ASSUME NEW u \in Users, pipe'[u].on
      PROVE  status'[u] # "none" /\ ClientAgrees(u)' /\ LimitAgrees(u)'
  <2>1. pipe'[u] = Context(u) /\ status[u] # "none"
    BY <1>1, <1>4 DEF Off, Startable, CanStart
  <2> QED BY <1>2, <2>1 DEF Context, ClientAgrees, LimitAgrees
<1> QED BY <1>3, <1>4 DEF PipeInv

LEMMA PipeStep ==
    ASSUME StoreInv, RestOK, PipeInv, [Next]_vars
    PROVE  PipeInv'
<1>1. CASE UNCHANGED vars
  BY <1>1, PipeKept DEF vars, store
<1>2. CASE CommitStep
  BY <1>2, CommitPipes
<1>3. ASSUME NEW u \in Users, ChatStep(u) \/ ApiStep(u)
      PROVE  PipeInv'
  BY <1>3, ChatPipes, ApiPipes
<1>4. ASSUME NEW u \in Users, TradesSettle(u) \/ \E c \in Combos : VenueCloses(u, c)
      PROVE  PipeInv'
  BY <1>4, PipeKept DEF TradesSettle, VenueCloses, store
<1>5. CASE Dispatch \/ Resume \/ KillAll
  BY <1>5, PipeKept DEF Dispatch, Resume, KillAll, store
<1>6. CASE Crash
  BY <1>6, CrashPipes
<1> QED BY <1>1, <1>2, <1>3, <1>4, <1>5, <1>6 DEF Next

AccountInv == StoreInv /\ RestOK /\ PipeInv

LEMMA AccountInvariance == Spec => []AccountInv
<1>1. Init => AccountInv
  <2>1. Init => PipeInv
    BY DEF Init, PipeInv, CommitKnowsPipe, Free, NoCommit, Off
  <2> QED BY <2>1, InitStored, InitTyped DEF AccountInv
<1>2. AccountInv /\ [Next]_vars => AccountInv'
  BY StoreStep, RestStep, PipeStep DEF AccountInv
<1> QED BY <1>1, <1>2, PTL DEF Spec

\* A user's orders go to the account that the store names as the active one, but for
\* the users whose credentials the store changed behind their pipeline.
THEOREM ActiveClient == Spec => []ClientIsActive
<1>1. AccountInv => ClientIsActive
  BY DEF AccountInv, PipeInv, ClientIsActive, ClientAgrees, Rebuilding
<1> QED BY <1>1, AccountInvariance, PTL

\* A pipeline trades by the limit and on the exchange that the store holds, through
\* every edit, switch, promotion and restart.
THEOREM CurrentLimit == Spec => []LimitIsCurrent
<1>1. AccountInv => LimitIsCurrent
  BY DEF AccountInv, PipeInv, LimitIsCurrent, LimitAgrees, Rebuilding
<1> QED BY <1>1, AccountInvariance, PTL

=============================================================================
