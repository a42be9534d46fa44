------------------------------ MODULE MCHttpRetry ------------------------------
(* Instances of HttpRetry: waits of a few units, hints below and above the    *)
(* budget.                                                                    *)
EXTENDS HttpRetry
=============================================================================
