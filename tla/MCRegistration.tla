--------------------------- MODULE MCRegistration ---------------------------
(* A finite instance of Registration for TLC. *)
EXTENDS Registration, TLC

CONSTANTS r1, r2, r3, a1, i1, ann, bob, eve, ann_mail, bob_mail

\* r1 and r2 want the same address under different names, r2 and a1 the same name.
NameOf == (r1 :> ann) @@ (r2 :> bob) @@ (r3 :> eve) @@ (a1 :> bob)
MailOf == (r1 :> ann_mail) @@ (r2 :> ann_mail) @@ (r3 :> bob_mail) @@ (a1 :> bob_mail)

\* All present the same invite.
CodeOf == [r \in Registrations |-> i1]
=============================================================================
