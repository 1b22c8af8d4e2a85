-------------------------------- MODULE MCRace --------------------------------
(* Race for TLC.                                                           *)
EXTENDS Race

(* Lists of different lengths, one of them empty.                          *)
SomeLengths == <<3, 0, 2>>

=============================================================================
