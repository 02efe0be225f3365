---------------------------- MODULE MCHttpServer ----------------------------
(* Small instances of HttpServer for TLC.                                   *)
EXTENDS HttpServer, TLC

Symmetry == Permutations(Addrs) \cup Permutations(Fds) \cup Permutations(Conns)
=============================================================================
