------------------------------- MODULE MCFlash -------------------------------
(* Small instances of Flash for TLC.                                       *)
EXTENDS Flash

\* A constraint on the host: it asks only for the first sector of page 0 and
\* for the other pages whole, so that there is a page stored in part.
FirstPageInPart ==
  \A c \in Chips : cmd[c].operation = "WRITE" =>
    cmd[c].bitMap = IF cmd[c].lpn = 0 THEN {0} ELSE SubPages
=============================================================================
