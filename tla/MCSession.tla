------------------------------ MODULE MCSession -----------------------------
(***************************************************************************)
(* Small instances of Session.  There is a token for each identity and     *)
(* thread, which is all that racing threads can use up.  Clients come with *)
(* one of them, which may be that of any session, or of none yet.          *)
(***************************************************************************)
EXTENDS Session, TLC

CONSTANTS h1, h2, k1, k2, k3, k4
=============================================================================
