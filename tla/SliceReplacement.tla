-------------------------- MODULE SliceReplacement --------------------------
(***************************************************************************)
(* What the Snowflake loading notebooks promise to a reader of ANALYTICS:  *)
(* each table changes only by replacing one whole slice (a source month of *)
(* a fact or an aggregate, the whole of a dimension) by everything its     *)
(* LANDING table holds at that moment.  Loading LANDING is not visible in  *)
(* ANALYTICS.                                                              *)
(***************************************************************************)
EXTENDS Naturals

CONSTANTS
    Datasets,  \* tables
    Months,    \* source periods
    Rows,      \* rows
    Slices     \* Slices[d][m]: the rows a load of d for month m replaces

VARIABLES
    landing,   \* landing[d]: bag of rows
    analytics  \* analytics[d]: bag of rows

Init ==
    /\ landing = [d \in Datasets |-> [r \in Rows |-> 0]]
    /\ analytics = [d \in Datasets |-> [r \in Rows |-> 0]]

(* The landing table of d gets other contents.                             *)
Stage(d) ==
    /\ landing' = [landing EXCEPT ![d] = landing'[d]]
    /\ UNCHANGED analytics

(* The slice of d for month m is replaced in one step.                     *)
Load(d, m) ==
    /\ analytics' = [analytics EXCEPT ![d] =
          [r \in Rows |-> (IF r \in Slices[d][m] THEN 0 ELSE analytics[d][r])
                          + landing[d][r]]]
    /\ UNCHANGED landing

Next == \E d \in Datasets : Stage(d) \/ \E m \in Months : Load(d, m)

Spec == Init /\ [][Next]_<<landing, analytics>>
=============================================================================
