----------------------------- MODULE LimitProofs -----------------------------
(***************************************************************************)
(* The limits hold over all admitted trades together, for any limits,      *)
(* amounts, results and faults.                                            *)
(*                                                                         *)
(* The exposure is a recursive sum over a set, and the induction over sets *)
(* it takes is done by a smallest counterexample (WFMin, which needs no    *)
(* operator as a parameter).                                               *)
(***************************************************************************)
EXTENDS IntakeProofs, FiniteSetTheorems, WellFoundedInduction

-----------------------------------------------------------------------------
(* Sums over finite sets *)

\* A set of subsets of a finite set has a smallest member.
LEMMA SmallestSet ==
    ASSUME NEW S, IsFiniteSet(S), NEW B \in SUBSET SUBSET S, B # {}
    PROVE  \E T \in B : \A U \in B : U \subseteq T => U = T
<1>1. IsWellFoundedOn(StrictSubsetOrdering(S), FiniteSubsetsOf(S))
  BY FS_StrictSubsetOrderingWellFounded
<1>2. FiniteSubsetsOf(S) = SUBSET S
  BY FS_FiniteSubsetsOfFinite
<1>3. PICK T \in B : \A U \in B : <<U, T>> \notin StrictSubsetOrdering(S)
  <2> HIDE DEF IsWellFoundedOn, StrictSubsetOrdering, FiniteSubsetsOf
  <2> QED BY <1>1, <1>2, WFMin
<1>4. \A U \in B : U \subseteq T => U = T
  BY <1>3 DEF StrictSubsetOrdering
<1> QED BY <1>4

\* The sizes of the trades tr in s, from the sums g over smaller sets.
Pick(s) == CHOOSE x \in s : TRUE
SumStep(g, tr, s) ==
    IF s = {} THEN 0 ELSE tr[Pick(s)].size + g[s \ {Pick(s)}]

IsSum(g, tr, S) == g = [s \in SUBSET S |-> SumStep(g, tr, s)]
TheSum(tr, S) == CHOOSE g : IsSum(g, tr, S)
Total(tr, S) == TheSum(tr, S)[S]

LEMMA ExposureIsTotal ==
    ASSUME NEW S
    PROVE  Exposure(S) = Total(trades, S)
BY DEF Exposure, MapThenSumSet, MapThenFoldSet, SizeOf, Total, TheSum, IsSum, SumStep, Pick

LEMMA ExposureIsTotalNext ==
    ASSUME NEW S
    PROVE  Exposure(S)' = Total(trades', S')
BY DEF Exposure, MapThenSumSet, MapThenFoldSet, SizeOf, Total, TheSum, IsSum, SumStep, Pick

LEMMA Picked ==
    ASSUME NEW s, s # {}
    PROVE  Pick(s) \in s
BY DEF Pick

\* Two sums agree where both are defined.
LEMMA SumsAgree ==
    ASSUME NEW tr, NEW S, NEW U, NEW g, NEW h, IsSum(g, tr, S), IsSum(h, tr, U),
           NEW W, W \subseteq S, W \subseteq U, IsFiniteSet(W)
    PROVE  g[W] = h[W]
<1> DEFINE B == {T \in SUBSET W : g[T] # h[T]}
<1> SUFFICES ASSUME B # {} PROVE FALSE
  OBVIOUS
<1>1. PICK T \in B : \A V \in B : V \subseteq T => V = T
  <2>1. B \in SUBSET SUBSET W
    OBVIOUS
  <2> HIDE DEF B
  <2> QED BY <2>1, SmallestSet
<1>2. T \in SUBSET S /\ T \in SUBSET U /\ T \subseteq W
  OBVIOUS
<1>3. g[T] = SumStep(g, tr, T) /\ h[T] = SumStep(h, tr, T)
  BY <1>2 DEF IsSum
<1>4. T # {}
  BY <1>3 DEF SumStep
<1>5. g[T \ {Pick(T)}] = h[T \ {Pick(T)}]
  BY <1>1, <1>2, <1>4, Picked
<1> QED BY <1>3, <1>4, <1>5 DEF SumStep

\* There is a sum over every finite set.
LEMMA SumExists ==
    ASSUME NEW tr, NEW S, IsFiniteSet(S)
    PROVE  IsSum(TheSum(tr, S), tr, S)
<1> DEFINE B == {T \in SUBSET S : ~\E g : IsSum(g, tr, T)}
<1>1. CASE B = {}
  <2>1. \E g : IsSum(g, tr, S)
    BY <1>1
  <2> QED BY <2>1 DEF TheSum
<1>2. CASE B # {}
  <2>1. PICK T \in B : \A V \in B : V \subseteq T => V = T
    <3>1. B \in SUBSET SUBSET S
      OBVIOUS
    <3> HIDE DEF B
    <3> QED BY <1>2, <3>1, SmallestSet
  <2>2. \A V \in SUBSET T : V # T => IsSum(TheSum(tr, V), tr, V)
    <3> SUFFICES ASSUME NEW V \in SUBSET T, V # T PROVE IsSum(TheSum(tr, V), tr, V)
      OBVIOUS
    <3>1. \E g : IsSum(g, tr, V)
      BY <2>1
    <3> QED BY <3>1 DEF TheSum
  <2>3. IsFiniteSet(T)
    BY FS_Subset
  <2> DEFINE rest(s) == s \ {Pick(s)}
             g == [s \in SUBSET T |-> IF s = {} THEN 0
                                      ELSE tr[Pick(s)].size + TheSum(tr, rest(s))[rest(s)]]
  <2>4. ASSUME NEW s \in SUBSET T, s # {}
        PROVE  g[rest(s)] = TheSum(tr, rest(s))[rest(s)]
    <3>1. rest(s) \in SUBSET T /\ rest(s) # T
      BY <2>4, Picked
    <3> DEFINE V == rest(s)
    <3>2. V \in SUBSET T /\ IsSum(TheSum(tr, V), tr, V)
      BY <3>1, <2>2
    <3> HIDE DEF V
    <3>3. TheSum(tr, V)[V] = SumStep(TheSum(tr, V), tr, V)
      BY <3>2 DEF IsSum
    <3>4. CASE V = {}
      <4>1. TheSum(tr, V)[V] = 0
        BY <3>3, <3>4 DEF SumStep
      <4>2. g[V] = 0
        BY <3>2, <3>4
      <4> QED BY <4>1, <4>2 DEF V
    <3>5. CASE V # {}
      <4> DEFINE W == rest(V)
      <4>1. W \in SUBSET V /\ W # T /\ W \in SUBSET T
        BY <3>2, <3>5, Picked
      <4>2. g[V] = tr[Pick(V)].size + TheSum(tr, W)[W]
        BY <3>2, <3>5
      <4>3. TheSum(tr, V)[V] = tr[Pick(V)].size + TheSum(tr, V)[W]
        BY <3>3, <3>5 DEF SumStep
      <4>4. IsSum(TheSum(tr, W), tr, W) /\ IsFiniteSet(W)
        BY <2>2, <2>3, <4>1, FS_Subset
      <4> HIDE DEF W, g
      <4>5. TheSum(tr, V)[W] = TheSum(tr, W)[W]
        BY <3>2, <4>1, <4>4, SumsAgree
      <4> QED BY <4>2, <4>3, <4>5 DEF V
    <3> QED BY <3>4, <3>5
  <2>5. \A s \in SUBSET T : g[s] = SumStep(g, tr, s)
    <3> SUFFICES ASSUME NEW s \in SUBSET T PROVE g[s] = SumStep(g, tr, s)
      OBVIOUS
    <3>1. CASE s = {}
      BY <3>1 DEF SumStep
    <3>2. CASE s # {}
      <4>1. g[s] = tr[Pick(s)].size + TheSum(tr, rest(s))[rest(s)]
        BY <3>2
      <4>2. g[rest(s)] = TheSum(tr, rest(s))[rest(s)]
        BY <2>4, <3>2
      <4> HIDE DEF g
      <4> QED BY <3>2, <4>1, <4>2 DEF SumStep
    <3> QED BY <3>1, <3>2
  <2>6. g = [s \in SUBSET T |-> g[s]]
    OBVIOUS
  <2> HIDE DEF g
  <2>7. IsSum(g, tr, T)
    BY <2>5, <2>6 DEF IsSum
  <2> QED BY <2>1, <2>7
<1> QED BY <1>1, <1>2

LEMMA TotalOfNone ==
    ASSUME NEW tr
    PROVE  Total(tr, {}) = 0
<1>1. IsSum(TheSum(tr, {}), tr, {})
  BY SumExists, FS_EmptySet
<1> QED BY <1>1 DEF IsSum, Total, SumStep

LEMMA TotalPicks ==
    ASSUME NEW tr, NEW S, IsFiniteSet(S), S # {}
    PROVE  Total(tr, S) = tr[Pick(S)].size + Total(tr, S \ {Pick(S)})
<1> DEFINE W == S \ {Pick(S)}
<1>1. W \subseteq S /\ IsFiniteSet(W)
  BY FS_Subset
<1>2. IsSum(TheSum(tr, S), tr, S) /\ IsSum(TheSum(tr, W), tr, W)
  BY <1>1, SumExists
<1>3. Total(tr, S) = tr[Pick(S)].size + TheSum(tr, S)[W]
  BY <1>2 DEF IsSum, Total, SumStep
<1> HIDE DEF W
<1>4. TheSum(tr, S)[W] = TheSum(tr, W)[W]
  BY <1>1, <1>2, SumsAgree
<1> QED BY <1>3, <1>4 DEF Total, W

HaveSizes(tr, S) == \A x \in S : tr[x].size \in Nat

\* A sum of sizes is an amount.
LEMMA TotalTyped ==
    ASSUME NEW tr, NEW S, IsFiniteSet(S), HaveSizes(tr, S)
    PROVE  Total(tr, S) \in Nat
<1> DEFINE B == {T \in SUBSET S : Total(tr, T) \notin Nat}
<1> SUFFICES ASSUME B # {} PROVE FALSE
  OBVIOUS
<1>1. PICK T \in B : \A V \in B : V \subseteq T => V = T
  <2>1. B \in SUBSET SUBSET S
    OBVIOUS
  <2> HIDE DEF B
  <2> QED BY <2>1, SmallestSet
<1>2. IsFiniteSet(T) /\ T # {}
  <2>1. T # {}
    <3>1. Total(tr, {}) \in Nat /\ Total(tr, T) \notin Nat
      BY TotalOfNone
    <3> QED BY <3>1
  <2> QED BY <2>1, FS_Subset
<1>3. Total(tr, T) = tr[Pick(T)].size + Total(tr, T \ {Pick(T)})
  BY <1>2, TotalPicks
<1>4. Pick(T) \in T /\ T \subseteq S
  BY <1>2, Picked
<1>5. Total(tr, T \ {Pick(T)}) \in Nat
  BY <1>1, <1>4
<1> QED BY <1>3, <1>4, <1>5 DEF HaveSizes

\* Whichever element is taken first.
LEMMA TotalTakes ==
    ASSUME NEW tr, NEW S, IsFiniteSet(S), HaveSizes(tr, S), NEW x \in S
    PROVE  Total(tr, S) = tr[x].size + Total(tr, S \ {x})
<1> DEFINE B == {T \in SUBSET S :
                   \E y \in T : Total(tr, T) # tr[y].size + Total(tr, T \ {y})}
<1> SUFFICES ASSUME B # {} PROVE FALSE
  OBVIOUS
<1>1. PICK T \in B : \A V \in B : V \subseteq T => V = T
  <2>1. B \in SUBSET SUBSET S
    OBVIOUS
  <2> HIDE DEF B
  <2> QED BY <2>1, SmallestSet
<1>2. PICK y \in T : Total(tr, T) # tr[y].size + Total(tr, T \ {y})
  OBVIOUS
<1> DEFINE p == Pick(T)
<1>3. IsFiniteSet(T) /\ p \in T /\ T \subseteq S
  BY Picked, FS_Subset
<1>4. Total(tr, T) = tr[p].size + Total(tr, T \ {p})
  BY <1>3, TotalPicks
<1> HIDE DEF p
<1>5. y # p
  BY <1>2, <1>4
<1> DEFINE R == T \ {p, y}
<1>6. Total(tr, T \ {p}) = tr[y].size + Total(tr, R)
  <2>1. T \ {p} \notin B /\ T \ {p} \in SUBSET S /\ y \in T \ {p}
    BY <1>1, <1>3, <1>5
  <2>2. (T \ {p}) \ {y} = R
    OBVIOUS
  <2> QED BY <2>1, <2>2
<1>7. Total(tr, T \ {y}) = tr[p].size + Total(tr, R)
  <2>1. T \ {y} \notin B /\ T \ {y} \in SUBSET S /\ p \in T \ {y}
    BY <1>1, <1>3, <1>5
  <2>2. (T \ {y}) \ {p} = R
    OBVIOUS
  <2> QED BY <2>1, <2>2
<1>8. Total(tr, R) \in Nat /\ tr[p].size \in Nat /\ tr[y].size \in Nat
  <2>1. IsFiniteSet(R) /\ HaveSizes(tr, R)
    BY <1>3, FS_Subset DEF HaveSizes
  <2> QED BY <2>1, <1>3, TotalTyped DEF HaveSizes
<1> HIDE DEF R
<1> QED BY <1>2, <1>4, <1>6, <1>7, <1>8

\* Fewer trades, no larger sum.
LEMMA TotalGrows ==
    ASSUME NEW tr, NEW S, IsFiniteSet(S), HaveSizes(tr, S), NEW U, U \subseteq S
    PROVE  Total(tr, U) <= Total(tr, S)
<1> DEFINE B == {T \in SUBSET S : U \subseteq T /\ ~(Total(tr, U) <= Total(tr, T))}
<1> SUFFICES ASSUME B # {} PROVE FALSE
  OBVIOUS
<1>1. PICK T \in B : \A V \in B : V \subseteq T => V = T
  <2>1. B \in SUBSET SUBSET S
    OBVIOUS
  <2> HIDE DEF B
  <2> QED BY <2>1, SmallestSet
<1>2. \A V \in SUBSET S : Total(tr, V) \in Nat
  <2> SUFFICES ASSUME NEW V \in SUBSET S PROVE Total(tr, V) \in Nat
    OBVIOUS
  <2>1. IsFiniteSet(V) /\ HaveSizes(tr, V)
    BY FS_Subset DEF HaveSizes
  <2> QED BY <2>1, TotalTyped
<1>3. PICK x \in T : x \notin U
  <2>1. T # U
    BY <1>2
  <2> QED BY <2>1
<1>4. Total(tr, T) = tr[x].size + Total(tr, T \ {x})
  <2>1. IsFiniteSet(T) /\ HaveSizes(tr, T)
    BY FS_Subset DEF HaveSizes
  <2> QED BY <2>1, TotalTakes
<1>5. Total(tr, U) <= Total(tr, T \ {x})
  BY <1>1, <1>3
<1>6. /\ Total(tr, U) \in Nat /\ Total(tr, T) \in Nat /\ Total(tr, T \ {x}) \in Nat
      /\ tr[x].size \in Nat
  BY <1>2 DEF HaveSizes
<1>7. ~(Total(tr, U) <= Total(tr, T))
  OBVIOUS
<1> HIDE DEF B
<1> QED BY <1>4, <1>5, <1>6, <1>7

\* The sum depends on the sizes only.
LEMMA TotalSame ==
    ASSUME NEW tr, NEW tr2, NEW S, IsFiniteSet(S), \A x \in S : tr2[x].size = tr[x].size
    PROVE  Total(tr2, S) = Total(tr, S)
<1> DEFINE B == {T \in SUBSET S : Total(tr2, T) # Total(tr, T)}
<1> SUFFICES ASSUME B # {} PROVE FALSE
  OBVIOUS
<1>1. PICK T \in B : \A V \in B : V \subseteq T => V = T
  <2>1. B \in SUBSET SUBSET S
    OBVIOUS
  <2> HIDE DEF B
  <2> QED BY <2>1, SmallestSet
<1>2. IsFiniteSet(T) /\ T # {} /\ T \subseteq S
  BY TotalOfNone, FS_Subset
<1>3. /\ Total(tr, T) = tr[Pick(T)].size + Total(tr, T \ {Pick(T)})
      /\ Total(tr2, T) = tr2[Pick(T)].size + Total(tr2, T \ {Pick(T)})
  BY <1>2, TotalPicks
<1>4. Pick(T) \in T
  BY <1>2, Picked
<1>5. Total(tr2, T \ {Pick(T)}) = Total(tr, T \ {Pick(T)})
  BY <1>1, <1>2, <1>4
<1>6. Total(tr2, T) # Total(tr, T)
  OBVIOUS
<1> HIDE DEF B
<1> QED BY <1>2, <1>3, <1>4, <1>5, <1>6

-----------------------------------------------------------------------------
(* The limits *)

\* LimitsHold is inductive with the types once the live trades are known to be
\* finitely many; it says less than the gate checks, which counts every live trade.
LimitInv == IsFiniteSet(LiveTrades) /\ LimitsHold

LEMMA LiveSizes ==
    ASSUME TypeOK
    PROVE  HaveSizes(trades, LiveTrades)
<1>1. \A t \in LiveTrades : trades[t] \in Recorded
  BY DEF TypeOK, LiveTrades, Unknown, Settled
<1> QED BY <1>1 DEF HaveSizes, Recorded

\* A smaller set of admitted trades of the sizes they had.
LEMMA FewerKeepLimits ==
    ASSUME TypeOK, LimitInv, LiveTrades' \subseteq LiveTrades,
           \A t \in LiveTrades' : trades'[t] = trades[t]
    PROVE  LimitInv'
<1>1. IsFiniteSet(LiveTrades') /\ IsFiniteSet(LiveTrades)
  BY FS_Subset DEF LimitInv
<1>2. Admitted' \subseteq Admitted /\ Admitted \subseteq LiveTrades
  BY DEF Admitted
<1>3. IsFiniteSet(Admitted) /\ IsFiniteSet(Admitted')
  BY <1>1, <1>2, FS_Subset
<1>4. Cardinality(Admitted') \in Nat /\ Cardinality(Admitted) \in Nat
      /\ Cardinality(Admitted') <= Cardinality(Admitted)
  BY <1>2, <1>3, FS_Subset, FS_CardinalityType
<1>5. HaveSizes(trades, Admitted)
  BY <1>2, LiveSizes DEF HaveSizes
<1>6. Total(trades', Admitted') = Total(trades, Admitted')
  <2>1. \A t \in Admitted' : trades'[t].size = trades[t].size
    BY DEF Admitted
  <2> QED BY <1>3, <2>1, TotalSame
<1>7. Total(trades, Admitted') <= Total(trades, Admitted)
  BY <1>2, <1>3, <1>5, TotalGrows
<1>8. Total(trades, Admitted') \in Nat /\ Total(trades, Admitted) \in Nat
  <2>1. HaveSizes(trades, Admitted')
    BY <1>2, <1>5 DEF HaveSizes
  <2> QED BY <1>3, <1>5, <2>1, TotalTyped
<1>9. Exposure(Admitted) = Total(trades, Admitted)
      /\ Exposure(Admitted)' = Total(trades', Admitted')
  BY ExposureIsTotal, ExposureIsTotalNext
<1>10. MaxOpen \in Nat /\ MaxExposure \in Nat
  BY LimitsAssumption
<1>11. Cardinality(Admitted) <= MaxOpen /\ Exposure(Admitted) <= MaxExposure
  BY DEF LimitInv, LimitsHold
<1>12. Cardinality(Admitted') <= MaxOpen
  BY <1>4, <1>10, <1>11
<1>13. Total(trades', Admitted') <= MaxExposure
  BY <1>6, <1>7, <1>8, <1>9, <1>10, <1>11
<1> QED BY <1>1, <1>9, <1>12, <1>13 DEF LimitInv, LimitsHold

\* The gate: the new trade fits beside all that are live, so beside the admitted.
LEMMA AdmitKeepsLimits ==
    ASSUME PortInv, TypeOK, LimitInv, NEW t \in Trades, NEW pct \in Pcts, Admit(t, pct)
    PROVE  LimitInv'
<1> DEFINE size == PositionSize(port.usd, pct, network)
<1>1. size \in Nat
  BY Sized DEF Admit
<1>2. PICK lots \in Built(size) : Record(t, size, lots)
  BY DEF Admit
<1>3. /\ trades'[t].st = "live" /\ trades'[t].size = size
      /\ \A u \in Trades \ {t} : trades'[u] = trades[u]
  BY <1>1, <1>2, RecordTyped
<1>4. /\ Cardinality(LiveTrades) < MaxOpen
      /\ Exposure(LiveTrades) + size <= MaxExposure
      /\ t \notin LiveTrades
  BY DEF Admit, InLimits, WithinLimits, LiveTrades
<1> HIDE DEF size
<1>5. LiveTrades' = LiveTrades \cup {t}
  BY <1>3 DEF LiveTrades
<1>6. IsFiniteSet(LiveTrades) /\ IsFiniteSet(LiveTrades')
      /\ Cardinality(LiveTrades') = Cardinality(LiveTrades) + 1
      /\ Cardinality(LiveTrades) \in Nat
  BY <1>4, <1>5, FS_AddElement, FS_CardinalityType DEF LimitInv
<1>7. Admitted' \subseteq LiveTrades' /\ IsFiniteSet(Admitted')
      /\ Cardinality(Admitted') \in Nat /\ Cardinality(Admitted') <= Cardinality(LiveTrades')
  <2>1. Admitted' \subseteq LiveTrades'
    BY DEF Admitted
  <2> QED BY <1>6, <2>1, FS_Subset, FS_CardinalityType
<1>8. HaveSizes(trades', LiveTrades')
  BY <1>1, <1>3, <1>5, LiveSizes DEF HaveSizes, LiveTrades
<1>9. Total(trades', LiveTrades') = size + Total(trades', LiveTrades)
  <2>1. LiveTrades' \ {t} = LiveTrades /\ t \in LiveTrades'
    BY <1>4, <1>5
  <2> QED BY <1>3, <1>6, <1>8, <2>1, TotalTakes
<1>10. Total(trades', LiveTrades) = Total(trades, LiveTrades)
  <2>1. \A u \in LiveTrades : trades'[u].size = trades[u].size
    BY <1>3, <1>4 DEF LiveTrades
  <2> QED BY <1>6, <2>1, TotalSame
<1>11. Total(trades', Admitted') <= Total(trades', LiveTrades')
  BY <1>6, <1>7, <1>8, TotalGrows
<1>12. /\ Total(trades', Admitted') \in Nat /\ Total(trades', LiveTrades') \in Nat
       /\ Total(trades, LiveTrades) \in Nat
  <2>1. HaveSizes(trades', Admitted')
    BY <1>7, <1>8 DEF HaveSizes
  <2> QED BY <1>6, <1>7, <1>8, <2>1, LiveSizes, TotalTyped
<1>13. Exposure(LiveTrades) = Total(trades, LiveTrades)
       /\ Exposure(Admitted)' = Total(trades', Admitted')
  BY ExposureIsTotal, ExposureIsTotalNext
<1>14. MaxOpen \in Nat /\ MaxExposure \in Nat
  BY LimitsAssumption
<1>15. Cardinality(Admitted') <= MaxOpen
  BY <1>4, <1>6, <1>7, <1>14
<1>16. Total(trades', Admitted') <= MaxExposure
  BY <1>1, <1>4, <1>9, <1>10, <1>11, <1>12, <1>13, <1>14
<1> QED BY <1>6, <1>13, <1>15, <1>16 DEF LimitInv, LimitsHold

\* What is recorded for the user is not admitted, and the admitted stay as they are.
LEMMA RecordKeepsLimits ==
    ASSUME PortInv, TypeOK, LimitInv, NEW t \in Trades, NEW pct \in Pcts,
           RecordForUser(t, pct)
    PROVE  LimitInv'
<1>1. PICK kept \in Nat : \E lots \in Built(kept) : Record(t, kept, lots)
  BY Sized DEF RecordForUser
<1>2. /\ trades'[t].st = "live" /\ trades'[t].gate = "manual"
      /\ \A u \in Trades \ {t} : trades'[u] = trades[u]
      /\ t \notin LiveTrades
  <2>1. ~auto /\ t \notin LiveTrades
    BY DEF RecordForUser, LiveTrades
  <2> QED BY <1>1, <2>1, RecordTyped DEF Gate
<1>3. LiveTrades' = LiveTrades \cup {t} /\ Admitted' = Admitted
  BY <1>2 DEF LiveTrades, Admitted
<1>4. IsFiniteSet(LiveTrades')
  BY <1>3, FS_AddElement DEF LimitInv
<1>5. IsFiniteSet(Admitted) /\ \A u \in Admitted : trades'[u].size = trades[u].size
  <2>1. Admitted \subseteq LiveTrades
    BY DEF Admitted
  <2> QED BY <1>2, <2>1, FS_Subset DEF LimitInv, LiveTrades
<1>6. Total(trades', Admitted) = Total(trades, Admitted)
  BY <1>5, TotalSame
<1>7. Exposure(Admitted)' = Exposure(Admitted)
  BY <1>3, <1>6, ExposureIsTotal, ExposureIsTotalNext
<1> QED BY <1>3, <1>4, <1>7 DEF LimitInv, LimitsHold

LEMMA LimitStep ==
    ASSUME PortInv, TypeOK, LimitInv, [Next]_vars
    PROVE  LimitInv'
<1>1. ASSUME NEW t \in Trades, trades' = [trades EXCEPT ![t] = Settled]
      PROVE  LimitInv'
  <2>1. trades'[t].st = "over" /\ \A u \in Trades \ {t} : trades'[u] = trades[u]
    BY <1>1 DEF TypeOK, Settled
  <2> QED BY <2>1, FewerKeepLimits DEF LiveTrades
<1>2. CASE UNCHANGED trades
  BY <1>2, FewerKeepLimits DEF LiveTrades
<1> QED
  BY <1>1, <1>2, AdmitKeepsLimits, RecordKeepsLimits
     DEF Next, CloseWithPnl, EndWithoutPnl, SetAmount, ChangeMode, ApiEditPort, ToggleAuto,
         WalletMoves, Midnight, vars

\* The trades the bot admits without its user keep to max_open_positions and
\* max_total_exposure_usd together, in whatever order signals, ends, results and
\* changes of auto_execute come.
THEOREM LimitsAreKept == Spec => []LimitsHold
<1>1. Init => LimitInv
  <2> SUFFICES ASSUME Init PROVE LimitInv
    OBVIOUS
  <2>1. LiveTrades = {} /\ Admitted = {}
    BY DEF Init, LiveTrades, Admitted, Unknown
  <2>2. Exposure(Admitted) = 0
    BY <2>1, ExposureIsTotal, TotalOfNone
  <2> QED BY <2>1, <2>2, FS_EmptySet, LimitsAssumption DEF LimitInv, LimitsHold
<1>2. PortInv /\ TypeOK /\ LimitInv /\ [Next]_vars => PortInv' /\ TypeOK' /\ LimitInv'
  BY PortStep, TypeStep, LimitStep
<1>3. LimitInv => LimitsHold
  BY DEF LimitInv
<1> QED BY <1>1, <1>2, <1>3, PortInit, TypeInit, PTL DEF Spec

=============================================================================
