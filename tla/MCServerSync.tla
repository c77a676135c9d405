---------------------------- MODULE MCServerSync ----------------------------
(* A small instance of ServerSync for TLC.                                 *)
EXTENDS ServerSync

\* The first and the last reading fill a page, the second one alone does: a
\* scan that meets them in order drops the second and admits the third.
MCBytes == <<1, 2, 1>>
=============================================================================
