--------------------------- MODULE MCMailTransfer ---------------------------
(***************************************************************************)
(* p: every flag but "secure"; q: needs TLS 1.3, and not all variants of   *)
(* the body; n: a Shield address of nobody; d: another address of nobody,  *)
(* which AEM-MTA takes and AEM-Deliver stores nothing for.                 *)
(***************************************************************************)
EXTENDS MailTransfer

CONSTANTS p, q, n, d

MCFlag == [r \in Rcpt |-> CASE r = p -> {"allver", "attach", "origin"}
                            [] r = q -> {"secure", "attach"}
                            [] OTHER -> {}]
=============================================================================
