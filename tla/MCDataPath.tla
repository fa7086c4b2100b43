------------------------------ MODULE MCDataPath ------------------------------
(* Small instances of DataPath for TLC.                                    *)
EXTENDS DataPath

\* Of the second page the host asks for the first sector only.
SecondPageSmall == BitMap(request, 1) \subseteq {0}
=============================================================================
