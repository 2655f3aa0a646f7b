----------------------------- MODULE MCIocGuard -----------------------------
(***************************************************************************)
(* The instance of IocGuard for TLC: its constants are numbers, which the  *)
(* configuration gives.                                                    *)
(***************************************************************************)
EXTENDS IocGuard
=============================================================================
