------------------------- MODULE MCSanctionsRegistry -------------------------
(***************************************************************************)
(* Instances of SanctionsRegistry for TLC.                                 *)
(***************************************************************************)
EXTENDS SanctionsRegistry, TLC

CONSTANTS i1, i2, i3, a1, a2, b1, ua, ub, c1, c2

\* A designation, the same amended, and another designation.
TwoUid == a1 :> ua @@ a2 :> ua @@ b1 :> ub

\* The list, the list with the first designation amended, and it shortened.
ThreeFiles == i1 :> {a1, b1} @@ i2 :> {a2, b1} @@ i3 :> {a2}
TwoFiles   == i1 :> {a2, b1} @@ i2 :> {a2}

\* The screened person has the name of the first designation, and from the
\* amendment on its document too; the other bears a name that begins alike.
Person == [s \in Screening |->
             a1 :> {"name"} @@ a2 :> {"name", "document"} @@ b1 :> {"similar"}]

\* A name that is equal begins alike too, so that a subject found by its name
\* is found again by its prefix; the amendment has an alias that begins alike.
PersonFound ==
  [s \in Screening |->
     a1 :> {<<"names", c1>>, <<"prefixes", c1>>}
  @@ a2 :> {<<"identifiers", c2>>, <<"names", c1>>, <<"prefixes", c1>>, <<"prefixes", c2>>}
  @@ b1 :> {<<"prefixes", c1>>}]
=============================================================================
