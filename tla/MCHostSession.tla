--------------------------- MODULE MCHostSession ---------------------------
(* Small instances of HostSession: two names with an account each, or two   *)
(* names of one account.                                                    *)
EXTENDS HostSession

CONSTANTS c1, c2, c3, alice, bob

MCConns2 == {c1, c2}
MCConns3 == {c1, c2, c3}
MCUsers == {alice, bob}
TwoAccounts == [u \in MCUsers |-> u]
OneAccount == [u \in MCUsers |-> alice]

=============================================================================
