------------------------- MODULE MCTradingComponents -------------------------
(***************************************************************************)
(* Components that share no state and never call each other while one of   *)
(* their operations is under way, checked side by side: the behaviours of  *)
(* this module are those of each of them alone.                            *)
(***************************************************************************)
EXTENDS ArtifactPublication, ManualLedger, DemoTrading, EntryOrders, BacktestPosition,
        StrategyReleases, TLC

VARIABLE active  \* the component whose behaviour this is

publication == vars
components == {"publication", "ledger", "demo", "entry", "position", "releases"}

\* A component that is not active stays in one of its initial states.
ComponentsInit ==
    /\ active \in components
    /\ Init /\ (active # "publication" => legacyContent = None)
    /\ LedgerInit /\ DemoInit /\ EntryInit
    /\ BacktestInit /\ (active # "position" => rule = CHOOSE r \in Rules : TRUE)
    /\ ReleasesInit

ComponentsNext ==
    /\ UNCHANGED active
    /\ \/ active = "publication" /\ Next
            /\ UNCHANGED <<ledger, demo, entry, backtest, releasing>>
       \/ active = "ledger" /\ LedgerNext
            /\ UNCHANGED <<publication, demo, entry, backtest, releasing>>
       \/ active = "demo" /\ DemoNext
            /\ UNCHANGED <<publication, ledger, entry, backtest, releasing>>
       \/ active = "entry" /\ EntryNext
            /\ UNCHANGED <<publication, ledger, demo, backtest, releasing>>
       \/ active = "position" /\ BacktestNext
            /\ UNCHANGED <<publication, ledger, demo, entry, releasing>>
       \/ active = "releases" /\ ReleasesNext
            /\ UNCHANGED <<publication, ledger, demo, entry, backtest>>

ComponentsSpec ==
    ComponentsInit
        /\ [][ComponentsNext]_<<active, publication, ledger, demo, entry, backtest, releasing>>

-----------------------------------------------------------------------------
(* The instance.                                                           *)

FillForm(action, units, time, voided) ==
    [action |-> action, units |-> units, time |-> time, voided |-> voided]

MCFillForms ==
    {FillForm("buy", 1, 1, FALSE), FillForm("buy", 2, 2, FALSE), FillForm("buy", 1, 1, TRUE),
     FillForm("sell", 1, 1, FALSE)}

MCStateForms ==
    {[stage |-> 1, stop |-> TRUE], [stage |-> 2, stop |-> FALSE]}

MCRules ==
    {[regime \in Regimes |-> "baseline"],
     [regime \in Regimes |-> IF regime = "green" THEN "wide" ELSE "half_protect"],
     [regime \in Regimes |-> "delayed_baseline"]}
MCMarginSteps == <<1, 1, 1, 2>>
MCAddThresholds == <<2, 4, 6>>

\* Eve may review both commits, but is independent of the first only.
MCAuthors == [c \in Commits |-> IF c = "c1" THEN {"bob"} ELSE {"bob", "eve"}]

\* The 1h candles of the last hour are missing, or one in the middle is.
MCGenerations ==
    {[symbol |-> Symbol, intervals |-> {"5m", "15m", "1h"}, quarters |-> 1..4, hours |-> hours] :
        hours \in {1..3, {1, 2, 4}}}
MCWindowings ==
    {[i \in 1..3 |-> [role |-> Roles[i], start |-> i, end |-> IF i = 3 THEN end ELSE i + 1]] :
        end \in {4, 5}}
MCOutcomes == {[trades |-> 1, gross_profit |-> 1, gross_loss |-> 0]}

\* The components share the model values of their instances, so that one small
\* group of permutations serves them all: publishers, contents, positions and
\* signals are permuted together, and one request is left out.
Interchangeable == Permutations(Symbols) \union Permutations(Contents)
=============================================================================
