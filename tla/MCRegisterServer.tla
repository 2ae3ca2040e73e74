-------------------------- MODULE MCRegisterServer --------------------------
(* Instances of RegisterServer for TLC. *)
EXTENDS RegisterServer

CONSTANTS c1, c2, w1, w2

MCClients == {c1, c2}
MCWorkers == {w1, w2}

\* Descriptor numbers: 3 and 4 are the self-pipe, accepted sockets get 5, 6.
MCFDs == {5, 6}
MCPipeFD == 3

\* User names as letter sequences, as FoundEmail and the REGISTER test compare them.
UA == <<"a">>
UB == <<"b">>

Req(kind, user, email, valid) == [kind |-> kind, user |-> user, email |-> email, valid |-> valid]

\* A GET of a registered user, a REGISTER of a new one, a line that fails
\* to parse.
MCGetA == Req("GET", UA, "none", TRUE)
MCRegB == Req("REGISTER", UB, "e2", TRUE)
MCBad == Req("BAD", <<>>, "none", FALSE)

MCSafeRequests == {MCGetA, MCRegB}
MCLiveRequests == {MCRegB}
MCOneRegister == {Req("REGISTER", UA, "e1", TRUE)}

MCRecordsA == << [user |-> UA, email |-> "e1"] >>
MCNoRecords == << >>

MCClientSymmetry == Permutations(MCClients)
=============================================================================
