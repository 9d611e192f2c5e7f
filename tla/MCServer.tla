------------------------------ MODULE MCServer ------------------------------
(***************************************************************************)
(* Server with two connections: every single wrong option, and good ones   *)
(* with and without TLS, a CA file and a least version below and above the *)
(* library's own.                                                          *)
(***************************************************************************)
EXTENDS Server, TLC

CONSTANTS c1, c2

MCConns == {c1, c2}
MCVersions == {11, 12, 13}

Plain == [showVersion |-> FALSE, cert |-> FALSE, key |-> FALSE, ca |-> FALSE,
          min |-> 12, wrong |-> {}]
WithPair(min, ca) == [Plain EXCEPT !.cert = TRUE, !.key = TRUE, !.min = min, !.ca = ca]

MCOptions ==
    {Plain, [Plain EXCEPT !.showVersion = TRUE], [Plain EXCEPT !.cert = TRUE],
     WithPair(11, TRUE), WithPair(13, FALSE), WithPair(13, TRUE)}
      \cup {[WithPair(12, FALSE) EXCEPT !.wrong = {w}] : w \in Inputs}
      \cup {[Plain EXCEPT !.wrong = {w}] : w \in Inputs}

Symmetry == Permutations(MCConns)
=============================================================================
