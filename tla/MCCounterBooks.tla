--------------------------- MODULE MCCounterBooks ---------------------------
EXTENDS CounterBooks, TLC

MCDocuments == {<<[v |-> 1, n |-> 2], [v |-> 2, n |-> 1]>>,
                <<[v |-> 2, n |-> 1], [v |-> 1, n |-> 1]>>}

\* Item 1 on the shelf or sold below zero, item 2 on the shelf; and neither
\* ever received.
MCOpenings ==
    {(1 :> s @@ 2 :> "stocked") : s \in {"stocked", "short"}}
    \cup {(1 :> "new" @@ 2 :> "new")}
=============================================================================
