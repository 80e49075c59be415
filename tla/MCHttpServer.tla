---------------------------- MODULE MCHttpServer ----------------------------
EXTENDS HttpServer

\* One environment that sets no dimension and one that does.
EnvChoices == {Uninit, [dim |-> 2, metric |-> "l2"]}
=============================================================================
