-------------------------------- MODULE MCLed --------------------------------
(***************************************************************************)
(* Instances of LedControl for TLC.                                        *)
(***************************************************************************)
EXTENDS LedControl

\* Full brightness, and a number that is too large.
SomeRestLevels == {100, 150}
SomeJsonLevels == {100, 101}
FewLevels == {40}

\* No step reads the last answer.
Device == <<platform, boot, urls, topics, led, raced>>
=============================================================================
