---------------------- MODULE MCCompletionVerification ----------------------
(* Requests and the task slots as model values. *)
EXTENDS CompletionVerification

CONSTANTS r1, s1, s2, s3
=============================================================================
