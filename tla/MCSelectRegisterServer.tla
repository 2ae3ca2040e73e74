----------------------- MODULE MCSelectRegisterServer -----------------------
(* Instances of SelectRegisterServer for TLC. *)
EXTENDS SelectRegisterServer

CONSTANTS c1, u1, w1, w2, ua, ub, uc, d1, d2

Req2(verb, user, email, valid) == [verb |-> verb, user |-> user, email |-> email, valid |-> valid]

\* A GET of the registered user and REGISTERs of two new ones: with a
\* bound of two records the first is stored and the second is refused.
MCRequests ==
    {Req2("GET", ua, "e1", TRUE), Req2("REGISTER", ub, "e2", TRUE), Req2("REGISTER", uc, "e3", TRUE)}
MCRecords == << [user |-> ua, email |-> "e1"] >>
\* maint lines: none, an empty value, 0, 1, 2, a negative and a non-number.
MCMaintValues == {None, "", "0", "1", "2", "-1", "x"}
=============================================================================
