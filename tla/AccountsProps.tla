---------------------------- MODULE AccountsProps ----------------------------
(***************************************************************************)
(* What must be true of the accounts.                                      *)
(***************************************************************************)
EXTENDS Accounts

(* Two accounts never share an email or a name, and an account never has   *)
(* one preset twice, although signUp, createUser and addAmount look for    *)
(* the row first and insert it later.                                      *)
RowsUnique ==
  /\ \A q, r \in Req : q # r /\ users[q] # None /\ users[r] # None =>
       users[q].email # users[r].email /\ users[q].name # users[r].name
  /\ \A p, q \in presets : p.user = q.user /\ p.amount = q.amount => p = q

(* A locked account is inactive and an unlocked one active: the two flags  *)
(* setLockStatus writes stay together whatever stale entities concurrent   *)
(* sign-ins, password changes and locks write back.                        *)
FlagsAgree == \A u \in Req : users[u] # None => users[u].isActive = ~users[u].isLocked

(* When signUp or createUser answers, the account has its role and its     *)
(* wallet; signUp's token carries the role; and createUser's account had   *)
(* its presets seeded, so that one is missing only if it was deleted.      *)
Deleting(u, a) == \E r \in Req : /\ pc[r] = "done" /\ call[r] # None
                                 /\ Op(r) = "deleteAmount"
                                 /\ call[r].user = u /\ call[r].amount = a

AnsweredComplete ==
  \A r \in Req : pc[r] = "done" /\ call[r] # None /\ Op(r) \in {"signUp", "createUser"} =>
    /\ users[r] # None /\ roles[r] = {call[r].role} /\ r \in wallets
    /\ Op(r) = "signUp" => tokens[r] # None /\ tokens[r].roles = {"user"}
    /\ Op(r) = "createUser" =>
         \A a \in DefaultPresets : ~NoPreset(r, a) \/ Deleting(r, a)

(* A token is exchanged, never copied: whoever was issued a token for      *)
(* another one cannot use the old one any more, even if the server failed  *)
(* in between.                                                             *)
SuccessorRetires ==
  \A r \in Req : tokens[r] # None /\ Op(r) = "refreshToken" =>
    /\ tokens[call[r].token].revoked
    /\ tokens[call[r].token].user = tokens[r].user

(* The two rules of WalletService agree: an admin or superadmin is listed   *)
(* exactly the accounts he can open one by one, although one rule looks at *)
(* roles and the other does not, and roles are assigned after the row.     *)
ListsWhatOpens ==
  \A a \in Req : HasRole(a, {"admin", "superadmin"}) =>
    ResolveAccessible(a, None) = UNION {ResolveAccessible(a, u) : u \in Req}

(* "Admin can only access users they personally created": CreatedBy holds  *)
(* an email, so this rests on nobody else ever having the creator's email. *)
AdminsSeeTheirOwn ==
  \A a, u \in Req : "superadmin" \notin roles[a] /\ CanAccess(a, u) =>
    call[u] # None /\ Op(u) = "createUser" /\ call[u].actor = a

(* "Password reset successfully" (users.service.ts), "Password updated     *)
(* successfully" (auth.service.ts): only a reset or a change of password   *)
(* changes a password.                                                     *)
PasswordsStand ==
  [][\A u \in Req : users[u] # None /\ users'[u].pass # users[u].pass =>
       \E r \in Req : /\ pc[r] = "save" /\ pc'[r] = "done" /\ tx[r].user = u
                      /\ Op(r) \in {"changePassword", "resetPassword"}]_vars
=============================================================================
