------------------------ MODULE MCResearchComponents -------------------------
(***************************************************************************)
(* The components of research together with the calculations that have no  *)
(* state of their own: for "calculations" as the `part` of a behavior,     *)
(* each step picks an input of one of them.                                *)
(***************************************************************************)
EXTENDS ResearchComponents

CONSTANTS
    MaxUniverseSize, MaxSweepRuns, MaxSweepParameters   \* Calculations

\* Each instrument has a bar in each period.
EachPeriod == [X |-> 1 .. 3, Y |-> 1 .. 3]

VARIABLES
    topic, input

pure == <<topic, input>>

Pure == INSTANCE Calculations

MCInit ==
    /\ InitOf(Parts \cup {"calculations"})
    /\ Pure!Init
    /\ part # "calculations" => input.next = "list"

MCNext ==
    \/ Next /\ UNCHANGED pure
    \/ part = "calculations" /\ Pure!Next /\ UNCHANGED vars

MCSpec == MCInit /\ [][MCNext]_<<vars, pure>> /\ Fairness

-----------------------------------------------------------------------------
\* Calculations: the round trips explain the equity, the parts of a split make the test, no metric is missing
\* without a reason that is true, and the comparison of a forward test agrees with its metrics.
MetricsAreConsistent == Pure!MetricsAreConsistent
\* Calculations: the periods, members, bars and runs of a backtest are those that its request says. ExchangeRates: no
\* reader asks IBKR two times for a day that it saved.
InputsAreWhole == Pure!InputsAreWhole /\ (part = "rates" => Rates!RatesAreReadOnce)
\* Calculations: a screen, a formula, an indicator, a chart and the written rules do what their definition says, and so
\* do the Databento import and the merge of two bar sources.
DefinitionsAreExact == Pure!DefinitionsAreExact
=============================================================================
