---------------------------- MODULE MCLoginGuard ----------------------------
(* A finite instance of LoginGuard for TLC. *)
EXTENDS LoginGuard, TLC

CONSTANTS a1, a2, a3, ann, mail, ip1

\* A request names an account by its name, or by name and mail.
PayloadsOf == {{ann}, {ann, mail}}
=============================================================================
