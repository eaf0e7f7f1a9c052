--------------------------- MODULE MCCliSession ---------------------------
\* Constants for checking what a shell's own first prompt does to CliSession.
EXTENDS CliSession

SshOnly == {"ssh"}
Plain == {<<>>, <<"text">>}
NoBanner == {<<>>}
Always == {TRUE}

===========================================================================
