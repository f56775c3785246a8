---- MODULE MCIntercept ----
EXTENDS Intercept

MCThreads == {"t1", "t2"}
MCPaths == <<"a">>
====
