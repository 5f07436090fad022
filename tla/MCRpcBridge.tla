---------------------------- MODULE MCRpcBridge ----------------------------
\* Two C programs and the main thread, which in bridge_own makes the calls of
\* testing/test.py; a list with two servers, and one with a third and an entry that is
\* no address.
EXTENDS RpcBridge, TLC

MCValue == {<<"a">>, <<"b", "c">>, <<"[">>}
MCBad == {<<"[">>}
Put(v) == [op |-> "put", k |-> "k", v |-> v]
Get == [op |-> "get", k |-> "k"]
Use(l) == [op |-> "init", list |-> l]
Shutdown == [op |-> "shutdown"]
MCAsks == "p1" :> {Put(<<"a">>), Put(<<"[">>), Get, Use(<<"s1", "s2">>), Shutdown} @@
          "p2" :> {Put(<<"b", "c">>), Use(<<"s3", "?">>)} @@
          "main" :> {Get}
MCOwnAsks == "main" :> {Use(<<"s1", "s2">>), Put(<<"a">>), Get}
=============================================================================
