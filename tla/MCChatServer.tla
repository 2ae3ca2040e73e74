---------------------------- MODULE MCChatServer ----------------------------
(* Two clients and two descriptor numbers, so that the second client can    *)
(* get the number the first one released.                                   *)
EXTENDS ChatServer, TLC

CONSTANTS c1, c2, f1, s1

MCClients == {c1, c2}
MCFDs == {4, 5}
MCOneFD == {4}
MCSlowWorkers == {s1}
MCOneFast == {f1}

\* the clients are interchangeable
MCClientSymmetry == Permutations(MCClients)
=============================================================================
