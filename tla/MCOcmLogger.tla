----------------------------- MODULE MCOcmLogger -----------------------------
(***************************************************************************)
(* A small instance of OcmLogger: a logger and a slice, with room behind   *)
(* it, that all share, and one key for callbacks.                          *)
(***************************************************************************)
EXTENDS OcmLogger, TLC

CONSTANTS g1, g2, k1, a, v1, one

OneLogger == [g \in Goroutines |-> one]

\* A pair under the callback's own key, and one whose key is no string.
TwoPairs ==
    <<<<"string", k1>>, <<"value", v1>>, <<"value", v1>>, <<"string", a>>>>

=============================================================================
