--------------------------- MODULE MCCollection ---------------------------
EXTENDS Collection, TLC

CONSTANTS c1, c2, noOffset

\* Tronscan needs a page per transfer, so that several are under way at once.
MCPageLimit == [n \in Network |-> IF n = "tron" THEN 1 ELSE 2]
=============================================================================
