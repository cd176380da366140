---------------------------- MODULE MCSafeFetch ----------------------------
(* A small instance of SafeFetch for TLC.                                  *)
EXTENDS SafeFetch, TLC

CONSTANTS u1, u2, u3, u4, h1, h2, h3, public, local, private

(* One allowed host has a second URL that is not good; one host is not     *)
(* allowed.                                                                *)
MCHostOf == u1 :> h1 @@ u2 :> h2 @@ u3 :> h3 @@ u4 :> h1
============================================================================
