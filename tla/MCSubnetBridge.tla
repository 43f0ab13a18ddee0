--------------------------- MODULE MCSubnetBridge ---------------------------
\* Time is in units of half a minute: a query may take its timeout of 30 s, the
\* bridge recovers in 60 s, and a miner in 90 s where the code has 120 s.
EXTENDS SubnetBridge

Report(t, f) == [total |-> t, final |-> f]

\* Two honest reports, a poor one close to them, and a good one that is far off.
FourReports == {Report(10, 5), Report(12, 3), Report(12, 1), Report(40, 9)}

\* Miners report, with a majority of honest ones or of far ones; or some fail
\* and the others report the same; or miner 1 sends what cannot be scored.
InOrder(s) == [m \in Miners |-> s[m + 1]]
MoodsOfThree ==
    {InOrder(s) : s \in {<<Report(10, 5), Report(12, 1), Report(40, 9)>>,
                         <<Report(10, 5), Report(12, 3), Report(40, 9)>>,
                         <<Report(12, 1), Report(12, 1), Report(40, 9)>>,
                         <<Report(12, 1), Report(12, 3), Report(12, 3)>>,
                         <<Report(40, 9), Report(12, 3), Report(40, 9)>>}}
    \cup [Miners -> {Report(10, 5), Failed}]
    \cup {[mood EXCEPT ![1] = Unreadable] : mood \in [Miners -> {Report(10, 5), Failed}]}
=============================================================================
