--------------------------- MODULE MCAssessment ---------------------------
(***************************************************************************)
(* Instances of Assessment for TLC.                                        *)
(***************************************************************************)
EXTENDS Assessment, TLC

CONSTANTS me, peer, far, src, mixer, plain, l1, e1, a1, a2, atSource,
          ada, bob

MCTagPoints == [t \in Tag |-> IF t = mixer THEN 80 ELSE 0]
MCTagRules  == {[tags |-> {mixer}, within |-> 1]}
MCKeyAddr   == [k \in TagKey |-> IF k = atSource THEN src ELSE far]
MCKeyTag    == [k \in TagKey |-> mixer]

\* A trace from me: a source at depth -1, its source at -2.
MCNodes == {[addr |-> me, depth |-> 0], [addr |-> src, depth |-> -1],
            [addr |-> peer, depth |-> 1]}
MCEdges == {[from |-> src, to |-> me, distance |-> 1],
            [from |-> me, to |-> peer, distance |-> 1]}

Answer(score, floor) ==
  [score |-> score, floor |-> floor,
   share |-> [c \in Category |-> IF c = "mixing_service" THEN 2500 ELSE 0],
   monthly |-> 20]
Evidence == Answer(9000, FALSE)
\* A floor between YELLOW and ORANGE.
Between == Answer(5050, TRUE)
MCKytAnswers == {Evidence, Between, Answer(9000, TRUE)}

Blank == [points |-> [c \in Component |-> NoPoints], fatf |-> "unlisted",
          refusal |-> FALSE]
Listed == [points |-> [c \in Component |-> IF c = "A1" THEN 25 ELSE NoPoints],
           fatf |-> "increased_monitoring", refusal |-> FALSE]

Base ==
  [mode |-> "model", skip |-> FALSE, trace |-> FALSE, provider |-> "none",
   required |-> FALSE, force |-> FALSE, persist |-> TRUE, manual |-> None,
   rows |-> {}, profile |-> Blank, subjects |-> <<>>]

MCRequests ==
  {[Base EXCEPT !.trace = TRUE, !.subjects = <<ada, bob>>, !.profile = Listed,
                !.manual = Between],
   [Base EXCEPT !.skip = TRUE, !.provider = "known",
                !.rows = {[addr |-> peer, tag |-> mixer, via |-> "request"]}],
   [Base EXCEPT !.skip = TRUE, !.manual = Evidence],
   [Base EXCEPT !.provider = "known", !.force = TRUE, !.persist = FALSE],
   [Base EXCEPT !.provider = "unknown", !.manual = Answer(9000, TRUE),
                !.rows = {[addr |-> me, tag |-> plain, via |-> "request"]}],
   [Base EXCEPT !.mode = "provider", !.provider = "known", !.subjects = <<ada>>]}

MCSymmetry == Permutations(Assessor)
=============================================================================
