----------------------------- MODULE MCSession -----------------------------
(* Session on a small instance.                                            *)
EXTENDS Session

\* Hosts on both sides of every list, and one that only looks like Discord's.
MCOwnHosts ==
    {<<"gg", "discord", "gateway">>, <<"gg", "discord", "gateway-us-east1-b">>,
     <<"gg", "discord", "remote-auth-gateway">>, <<"com", "discord">>,
     <<"com", "discord", "status">>, <<"com", "discordapp", "cdn">>,
     <<"com", "discordcdn">>, <<"media", "discord", "rotterdam1">>,
     <<"net", "discordapp", "media">>}
MCHosts ==
    MCOwnHosts \cup {<<"com", "example", "gg", "discord">>, <<"com", "example">>}
=============================================================================
