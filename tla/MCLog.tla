------------------------------- MODULE MCLog --------------------------------
(* Log on a small disk.                                                    *)
EXTENDS Log
=============================================================================
