------------------------------ MODULE MCSafeHttp ------------------------------
(* Bounds for SafeHttp: two allowed hosts and a foreign one, two allowed      *)
(* paths and another.                                                         *)
EXTENDS SafeHttp

CONSTANTS h1, h2, foreign, p1, p2, out

=============================================================================
