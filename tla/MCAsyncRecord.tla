--------------------------- MODULE MCAsyncRecord ---------------------------
(* Small instances of AsyncRecord: the constants are those of the cfg, a    *)
(* record with device support, a pycalc record and one worker.              *)
EXTENDS AsyncRecord
=============================================================================
