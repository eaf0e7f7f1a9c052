---------------------------- MODULE MCSmokeTool ----------------------------
\* Constants for checking SmokeTool, and with it CliSession and TelnetProtocol.
EXTENDS SmokeTool

AllKinds == {"ssh", "pooled", "serial", "telnet"}
Plain == {<<>>, <<"text">>}
HonestScripts == Plain \cup {<<"text", "pager", "text">>, <<"confirm", "text">>,
                             <<"pager", "pager", "text">>, <<"pager", "confirm">>}
AllScripts == HonestScripts \cup {<<"text", "lookalike", "text">>, <<"mention">>}
AllBanners == {<<>>, <<"text">>, <<"hash">>, <<"welcome">>}
Either == BOOLEAN

===========================================================================
