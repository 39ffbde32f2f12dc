----------------------------- MODULE TradeLedger -----------------------------
(***************************************************************************)
(* What a user's trades promise, whatever the venue, the provider and the  *)
(* process do: a trade is admitted once and settled once, never to live    *)
(* again, and its profit or loss reaches the port at most once, after it   *)
(* was settled.                                                            *)
(***************************************************************************)
EXTENDS Naturals

CONSTANT Trades

VARIABLES
    life,       \* "none", "live" or "settled", for each trade
    owed,       \* settled trades whose profit or loss is about to be applied
    credited    \* how often it was applied

ledgerVars == <<life, owed, credited>>

Init ==
    /\ life = [t \in Trades |-> "none"]
    /\ owed = {}
    /\ credited = [t \in Trades |-> 0]

Admit(t) ==
    /\ life[t] = "none"
    /\ life' = [life EXCEPT ![t] = "live"]
    /\ UNCHANGED <<owed, credited>>

\* Trades found dead are settled together, without profit or loss.
SettleAll(S) ==
    /\ \A t \in S : life[t] = "live"
    /\ life' = [t \in Trades |-> IF t \in S THEN "settled" ELSE life[t]]
    /\ UNCHANGED <<owed, credited>>

SettleWithPnl(t) ==
    /\ life[t] = "live"
    /\ life' = [life EXCEPT ![t] = "settled"]
    /\ owed' = owed \cup {t}
    /\ UNCHANGED credited

Credit(t) ==
    /\ t \in owed
    /\ owed' = owed \ {t}
    /\ credited' = [credited EXCEPT ![t] = @ + 1]
    /\ UNCHANGED life

\* The port could not be written, or the process died first.
Forfeit(t) ==
    /\ t \in owed
    /\ owed' = owed \ {t}
    /\ UNCHANGED <<life, credited>>

Next ==
    \/ \E S \in SUBSET Trades : SettleAll(S)
    \/ \E t \in Trades : Admit(t) \/ SettleWithPnl(t) \/ Credit(t) \/ Forfeit(t)

Spec == Init /\ [][Next]_ledgerVars

=============================================================================
