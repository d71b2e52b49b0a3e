------------------------------ MODULE MCSqlLog ------------------------------
EXTENDS SqlLog, TLC

\* a plain read, a locking read with FOR UPDATE in upper and in lower case,
\* and a write
MCStmts == {<<"show", "a">>, <<"SELECT", "a", "FOR", "UPDATE">>,
            <<"select", "a", "for", "update">>, <<"update", "a">>}
=============================================================================
