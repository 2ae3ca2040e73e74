------------------------- MODULE MCLegacyChatServer -------------------------
(* Two peers and two pool threads for the legacy chat server: the pool is *)
(* at least as large as the number of connections, as the ten threads of  *)
(* StartListener(10) are for fewer than ten peers.                        *)
EXTENDS LegacyChatServer

CONSTANTS c1, c2, w1, w2

MCClients == {c1, c2}
MCWorkers == {w1, w2}

\* command lines: none, --help, --version, an unknown option
Launch(o, b) == [opts |-> o, bad |-> b]
MCLaunches == {Launch({}, FALSE), Launch({"help"}, FALSE), Launch({"version"}, FALSE),
               Launch({}, TRUE)}
MCConfigOnly == {Launch({}, FALSE)}

\* ptree::get<int> of each token
MCIntOf == ("0" :> 0) @@ ("1" :> 1) @@ ("2" :> 2) @@ ("9" :> 9) @@ ("6000" :> 6000)
           @@ ("x" :> NotInt) @@ ("127.0.0.1" :> NotInt) @@ ("eth0" :> NotInt)

\* an address and port to listen on, daemon mode, a log level out of range
FileServe == ("daemon" :> "1") @@ ("tcp_if" :> "127.0.0.1") @@ ("tcp_port" :> "6000")
             @@ ("loglevel" :> "9")
\* a device name, which inet_addr refuses; daemon no number; level Error
FileDevice == ("daemon" :> "x") @@ ("tcp_if" :> "eth0") @@ ("tcp_port" :> "6000")
              @@ ("loglevel" :> "2")
MCFiles == {FileServe, FileDevice, Missing, Malformed}
MCServeOnly == {FileServe}
=============================================================================
