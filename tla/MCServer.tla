-------------------------------- MODULE MCServer --------------------------------
(* The values TLC gives the constants of Server.                              *)
EXTENDS Server

CONSTANTS t1, t2, s1, s2, s3

MCThreads == {t1, t2}
MCSessions == {s1, s2, s3}
================================================================================
