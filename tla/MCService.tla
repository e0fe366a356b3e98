------------------------------ MODULE MCService ------------------------------
(* An instance of the services of two contexts for TLC.                    *)
EXTENDS Service
=============================================================================
