------------------------------ MODULE MCRouter ------------------------------
EXTENDS Router

MCPort == <<0, 7>>
MCDomain == <<5>>
MCPackIds == {<<3>>, <<5, 3>>}

\* A login for the pack, its length spelt with a needless group, and two bytes of
\* play; a login for another host; a status request with a ping; garbage.
MCLogin == <<5, 6, 0>> \o <<0, 3, 3>> \o <<4, 0, 5>> \o MCPort \o <<2>> \o <<7, 6>>
MCStranger == <<7, 1>> \o <<0, 3, 1, 5>> \o MCPort \o <<2>>
MCPing == <<7, 1>> \o <<0, 3, 1, 3>> \o MCPort \o <<1>> \o <<1, 0>> \o <<1, 6>>
MCStreams == {MCLogin, MCStranger, MCPing, <<4, 4, 4>>}
=============================================================================
