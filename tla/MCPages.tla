------------------------------- MODULE MCPages -------------------------------
(***************************************************************************)
(* Instances of LedPages for TLC: one LED, two browsers.                   *)
(***************************************************************************)
EXTENDS LedPages, TLC

Symmetry == Permutations(Pages)

\* No step reads the last answer.
Screens == <<platform, boot, urls, topics, led, raced, pageVars>>
=============================================================================
