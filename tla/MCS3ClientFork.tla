--------------------------- MODULE MCS3ClientFork ---------------------------
(* S3ClientFork with the forking thread and another one.                    *)
EXTENDS S3ClientFork

CONSTANT t1

MCOthers == {t1}
=============================================================================
