---------------------------- MODULE MCCaptureSession ----------------------------
(* CaptureSession with every reading carrying names of its own.  Requests are  *)
(* interchangeable.                                                            *)
EXTENDS CaptureSession, TLC

MCNames == {[of |-> t] : t \in Terms}

MCNamesIn == [t \in Terms |-> [of |-> t]]

Interchangeable == Permutations(Procs)
=============================================================================
