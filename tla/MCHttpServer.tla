---------------------------- MODULE MCHttpServer ----------------------------
(* Instances of HttpServer for TLC.                                         *)
EXTENDS HttpServer, TLC

\* bufio.Writers are interchangeable.  Only for runs without liveness properties.
Symmetry == Permutations(Writers)
=============================================================================
