--------------------------- MODULE MCRelaySessions ---------------------------
(* Small instances of RelaySessions.                                         *)
EXTENDS RelaySessions, TLC

CONSTANTS s1, s2, u1, u2, r1, r2, alice, bob

MCSessions2 == {s1, s2}
MCUpstreams1 == {u1}
MCUpstreams2 == {u1, u2}
MCRecords1 == {r1}
MCRecords2 == {r1, r2}

(* Two viewers with different relay identities.                              *)
MCSubOf == [s \in Sessions |-> IF s = s2 THEN bob ELSE alice]

(* A relay without OIDC: nobody has an identity.                             *)
MCNoSub == [s \in Sessions |-> None]

(* Upstreams and records are interchangeable; so are sessions when nobody    *)
(* has an identity.                                                          *)
Symmetry == Permutations(Upstreams) \cup Permutations(Records)
AnonSymmetry == Symmetry \cup Permutations(Sessions)

=============================================================================
