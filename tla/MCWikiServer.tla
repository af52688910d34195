---------------------------- MODULE MCWikiServer ----------------------------
(* WikiServer on two browsers and three or four names. *)
EXTENDS WikiServer, TLC

CONSTANTS b1, b2, StartPage, NewPage, IndexPage, dot

\* Half of the title NewPage names another page, as WikiWords names the page
\* WikiWord; half of the other titles names no page.
MCCutTitle == [p \in WikiWords |-> IF p = NewPage THEN StartPage ELSE dot]

TwoBrowsers == Permutations({b1, b2})
=============================================================================
