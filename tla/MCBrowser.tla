------------------------------ MODULE MCBrowser ------------------------------
(***************************************************************************)
(* A module of a few functions, two translators.                           *)
(***************************************************************************)
EXTENDS BrowserCompileServer, TLC

CONSTANTS t1, t2

TwoTranslators == {t1, t2}
Default == [recovery |-> FALSE, buildOnRead |-> TRUE]
DefaultFlags == {Default}
AllFlags == {Default, [Default EXCEPT !.recovery = TRUE], [Default EXCEPT !.buildOnRead = FALSE]}
=============================================================================
