---------------------------- MODULE MCChatEngine ----------------------------
(* Instances of ChatEngine for TLC. *)
EXTENDS ChatEngine

CONSTANTS F

L(n, v) == [name |-> n, value |-> v]

\* Value tokens, and what "stream >> int" stores for each (0 when the
\* extraction fails).
MCValueTokens == {"0", "1", "2", "3", "5", "10", "6667", "eth0"}
MCIntOf == ("0" :> 0) @@ ("1" :> 1) @@ ("2" :> 2) @@ ("3" :> 3) @@ ("5" :> 5)
           @@ ("10" :> 10) @@ ("6667" :> 6667) @@ ("eth0" :> 0)
\* "port" is a word but no parameter; "tcp-port" is no word.
MCWordNames == ParamNames \cup {"port"}

\* A file as launched: a comment, then every setting; the fast pool has
\* NWorkers = 2 threads.
Base(daemon, level, fast) ==
    << L("#", "x"), L("daemon", daemon), L("tcp_if", "eth0"), L("tcp_port", "6667"),
       L("loglevel", level), L("fast_pool_size", fast), L("slow_pool_size", "1") >>
MCStart == Base("0", "1", "2")
\* a new log level, given twice (the first one counts) and a misspelt name
MCLevel3 == Base("0", "3", "2") \o << L("loglevel", "2"), L("tcp-port", "1") >>
\* an unknown name: the whole file is refused
MCUnknown == Base("0", "2", "2") \o << L("port", "1") >>
\* a pool size out of 1..50
MCPool0 == Base("0", "1", "0")
\* no daemon line
MCNoDaemon == SubSeq(MCStart, 3, Len(MCStart))
\* daemon mode switched on
MCDaemon == Base("1", "1", "2")

MCStarts == {MCStart, MCPool0, MCNoDaemon, Missing}
MCContents == {MCLevel3, MCUnknown, Missing}
MCDaemonContents == {MCDaemon}
MCStartOnly == {MCStart}

Arg(opts, bad) == [opts |-> opts, bad |-> bad, file |-> F]
MCArgs == {Arg({"config"}, FALSE), Arg({"gen-config"}, FALSE), Arg({"help", "config"}, FALSE),
           Arg({"config"}, TRUE)}
MCConfigArgs == {Arg({"config"}, FALSE)}
=============================================================================
