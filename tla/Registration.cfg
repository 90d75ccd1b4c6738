SPECIFICATION Spec
CONSTANTS
  r1 = r1
  r2 = r2
  r3 = r3
  a1 = a1
  i1 = i1
  ann = ann
  bob = bob
  eve = eve
  ann_mail = ann_mail
  bob_mail = bob_mail
  Registrations = {r1, r2, r3}
  Created = {a1}
  Names = {ann, bob, eve}
  Mails = {ann_mail, bob_mail}
  Name <- NameOf
  Mail <- MailOf
  Invites = {i1}
  Code <- CodeOf
  NoInvite = NoInvite
  Sizes = {0, 2, 1001}
  MaxUpdates = 2
INVARIANTS
  TypeOK
  InviteAccounting
  AdmittedByRule
  OneAccountPerAddress
PROPERTIES
  ImplementsInvite
