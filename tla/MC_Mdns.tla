------------------------------ MODULE MC_Mdns -------------------------------
(***************************************************************************)
(* The questions TLC asks the mDNS responder.                              *)
(***************************************************************************)
EXTENDS Mdns

CONSTANTS i1, i2, t1, t2

\* The strings of the one service are too long.
LongStrings == {<<i2, t1>>}

\* Of every kind of name, with the types that matter for it.
SomeQuestions ==
    [name : {HostName}, type : {"A"}]
    \cup [name : {EnumName}, type : {"PTR"}]
    \cup [name : {t1}, type : {"ANY"}]
    \cup [name : {<<i1, t1>>}, type : {"SRV", "TXT", "ANY"}]
    \cup [name : {<<i2, t1>>}, type : {"TXT"}]
=============================================================================
