------------------------------ MODULE Accounts ------------------------------
(***************************************************************************)
(* User accounts: identities, roles, wallets, presets and refresh tokens,  *)
(* and the requests that create and change them.                           *)
(*                                                                         *)
(* No request here opens a transaction: every statement commits alone and  *)
(* is one step.  An identity is changed by TypeORM's save() of an entity   *)
(* the request read before: save() reads the row again and writes the      *)
(* columns in which the entity differs from it.                            *)
(***************************************************************************)
EXTENDS Naturals, FiniteSets

CONSTANTS
  Req,             \* requests; also the ids of the accounts and tokens they insert
  Email, Name, Password,
  Preset,          \* quick-bet amounts
  DefaultPresets,  \* DEFAULT_BET_AMOUNT_PRESETS
  Calls,           \* Calls[r]: what request r may ask for
  Existing,        \* Existing[r]: the account already on record, or None
  None

RoleName == {"user", "admin", "superadmin"}

\* What the controllers of authentication, users, presets and wallets take.
AuthCalls ==
       [op : {"signUp"}, email : Email, name : Name, pass : Password, role : RoleName]
  \cup [op : {"signIn"}, login : Email \cup Name, pass : Password]
  \cup [op : {"changePassword"}, user : Req, old : Password, new : Password]
  \cup [op : {"refreshToken", "logout"}, token : Req]
UserCalls ==
       [op : {"createUser"}, email : Email, name : Name, pass : Password,
        role : RoleName, actor : Req]
  \cup [op : {"resetPassword"}, user : Req, new : Password]
  \cup [op : {"setLockStatus"}, user : Req, on : BOOLEAN]
PresetCalls == [op : {"addAmount", "deleteAmount"}, user : Req, amount : Preset]
WalletCalls == [op : {"updateCreditReference"}, user : Req]
CallSet == AuthCalls \cup UserCalls \cup PresetCalls \cup WalletCalls

\* Rows of UserIdentityTbl, BetAmountPresetTbl and RefreshTokenTbl.
Account == [email : Email, by : Email \cup {"system"}, name : Name, pass : Password,
            isLocked : BOOLEAN, isActive : BOOLEAN, loggedIn : BOOLEAN]
PresetRow == [user : Req, amount : Preset, by : Req]
Token == [user : Req, roles : SUBSET RoleName, revoked : BOOLEAN, expired : BOOLEAN]

ASSUME AccountsAssumption ==
  /\ None \notin Req \cup Account \cup PresetRow \cup Token \cup CallSet
  /\ "system" \notin Email
  /\ Calls \in [Req -> SUBSET CallSet]
  /\ DefaultPresets \subseteq Preset
  /\ Existing \in [Req -> Account \cup {None}]
  /\ \A q, r \in Req : Existing[q] # None =>
       /\ Existing[q].by = "system" /\ Existing[q].isActive = ~Existing[q].isLocked
       /\ q # r /\ Existing[r] # None => /\ Existing[q].email # Existing[r].email
                                         /\ Existing[q].name # Existing[r].name

VARIABLES
  users,    \* UserIdentityTbl: the account request r inserted, or None
  roles,    \* UserRoleTbl: the roles of each account
  wallets,  \* accounts with a UserWalletTbl row
  presets,  \* BetAmountPresetTbl
  tokens,   \* RefreshTokenTbl: the token request r was issued, or None
  pc, call, \* the next statement of each request, and what it asks for
  tx        \* what the request has read

tables == <<users, roles, wallets, presets, tokens>>
vars   == <<tables, pc, call, tx>>

\* The account or preset a request found, the entity it holds, and the row
\* save() has read to see what changed.
Tx   == [user : Req \cup {None}, entity : Account \cup {None},
         loaded : Account \cup {None}, preset : PresetRow \cup {None}]
NoTx == [user |-> None, entity |-> None, loaded |-> None, preset |-> None]

Stages == {"insert", "role", "findWallet", "insertWallet", "seed", "load", "save",
           "owner", "revoke", "issue", "addPreset", "dropPreset"}

InFlight(r) == pc[r] \in Stages
Op(r)       == call[r].op
Goto(r, s)  == pc' = [pc EXCEPT ![r] = s]

\* The request ends and what it has read is gone.
Forget(r) == tx' = [tx EXCEPT ![r] = NoTx]

Begin(r, c, s) ==
  /\ pc[r] = "idle" /\ c \in Calls[r]
  /\ call' = [call EXCEPT ![r] = c]
  /\ Goto(r, s)

\* A crash, or a statement the database refuses (a unique index, a foreign
\* key): what the request has already run stays committed.
Fail(r) ==
  /\ InFlight(r)
  /\ Goto(r, "failed") /\ Forget(r)
  /\ UNCHANGED <<tables, call>>

-----------------------------------------------------------------------------
(* AuthService.signUp and UsersService.createUser *)

\* Some account has this email or this name.
Taken(email, name) ==
  \E u \in Req : users[u] # None /\ (users[u].email = email \/ users[u].name = name)

\* signUp accepts only the role "user".
SignUp(r) ==
  /\ \E c \in Calls[r] :
       /\ c.op = "signUp"
       /\ Begin(r, c, IF c.role # "user" \/ Taken(c.email, c.name) THEN "failed" ELSE "insert")
  /\ UNCHANGED <<tables, tx>>

\* Mutant of Creatable: any role may be given.
Creatable_Any == RoleName

\* ADMIN_CREATABLE_ROLES, the roles CreateUserDto lets through.
Creatable == {"admin", "user"}

\* getRoleNamesForUser.
RoleNames(u) == roles[u]

\* RolesGuard, on the roles of the actor's token.
HasRole(actor, required) == RoleNames(actor) \cap required # {}

CreateUser(r) ==
  /\ \E c \in Calls[r] :
       /\ c.op = "createUser"
       /\ LET refused == \/ ~HasRole(c.actor, {"admin", "superadmin"})
                         \/ c.role \notin Creatable \/ Taken(c.email, c.name) IN
            Begin(r, c, IF refused THEN "failed" ELSE "insert")
  /\ UNCHANGED <<tables, tx>>

\* CreatedBy is the actor's email; who signs up is his own creator.
CreatedBy(c) == IF c.op = "signUp" THEN c.email ELSE users[c.actor].email

NewAccount(c) == [email |-> c.email, by |-> CreatedBy(c), name |-> c.name, pass |-> c.pass,
                  isLocked |-> FALSE, isActive |-> TRUE, loggedIn |-> FALSE]

\* Mutant of Insertable: no unique indexes on Email and Name.
Insertable_Any(c) == TRUE

\* The unique indexes on Email and Name let the row in.
Insertable(c) == ~Taken(c.email, c.name)

InsertUser(r) ==
  /\ pc[r] = "insert" /\ Insertable(call[r])
  /\ users' = [users EXCEPT ![r] = NewAccount(call[r])]
  /\ Goto(r, "role")
  /\ UNCHANGED <<roles, wallets, presets, tokens, call, tx>>

AssignRole(r) ==
  /\ pc[r] = "role"
  /\ roles' = [roles EXCEPT ![r] = @ \cup {call[r].role}]
  /\ Goto(r, "findWallet")
  /\ UNCHANGED <<users, wallets, presets, tokens, call, tx>>

\* Whose wallet createWalletForUser is to find or insert.
WalletOf(r) == IF Op(r) = "updateCreditReference" THEN call[r].user ELSE r

\* Mutant of AfterWallet: createUser answers before the presets are saved.
AfterWallet_NoPresets(r) == IF Op(r) = "signUp" THEN "issue" ELSE "done"

\* The statement after the wallet: a token, the presets, or the credit
\* reference, an update of a column nothing else reads.
AfterWallet(r) ==
  CASE Op(r) = "signUp"     -> "issue"
    [] Op(r) = "createUser" -> "seed"
    [] OTHER                -> "done"

\* createWalletForUser looks for the wallet.
FindWallet(r) ==
  /\ pc[r] = "findWallet"
  /\ Goto(r, IF WalletOf(r) \in wallets THEN AfterWallet(r) ELSE "insertWallet")
  /\ UNCHANGED <<tables, call, tx>>

\* It found none: the unique index on UserId lets one insert through, the
\* foreign key only that of an account.
InsertWallet(r) ==
  /\ pc[r] = "insertWallet"
  /\ WalletOf(r) \notin wallets /\ users[WalletOf(r)] # None
  /\ wallets' = wallets \cup {WalletOf(r)}
  /\ Goto(r, AfterWallet(r))
  /\ UNCHANGED <<users, roles, presets, tokens, call, tx>>

\* The unique index on UserId and Amount lets the row in.
NoPreset(u, a) == \A p \in presets : p.user # u \/ p.amount # a

\* seedDefaultsForUser saves all the rows in one transaction.
SeedDefaults(r) ==
  /\ pc[r] = "seed"
  /\ \A a \in DefaultPresets : NoPreset(r, a)
  /\ presets' = presets \cup {[user |-> r, amount |-> a, by |-> r] : a \in DefaultPresets}
  /\ Goto(r, "done")
  /\ UNCHANGED <<users, roles, wallets, tokens, call, tx>>

UpdateCreditReference(r) ==
  /\ \E c \in Calls[r] : c.op = "updateCreditReference" /\ Begin(r, c, "findWallet")
  /\ UNCHANGED <<tables, tx>>

-----------------------------------------------------------------------------
(* Requests that read an identity, change the entity and save it *)

\* r has found account u and goes on with this entity.
Edit(r, u, entity) == tx' = [tx EXCEPT ![r].user = u, ![r].entity = entity]

\* findOne by email or name: any of the accounts that match.
SignIn(r) ==
  /\ \E c \in Calls[r] :
       /\ c.op = "signIn"
       /\ LET Matching == {u \in Req : /\ users[u] # None
                                      /\ c.login \in {users[u].email, users[u].name}}
              Admitted(u) == c.pass = users[u].pass /\ users[u].isActive /\ ~users[u].isLocked IN
            \/ /\ Matching = {} \/ \E u \in Matching : ~Admitted(u)
               /\ Begin(r, c, "failed") /\ UNCHANGED tx
            \/ \E u \in Matching :
                 /\ Admitted(u)
                 /\ Begin(r, c, "load") /\ Edit(r, u, [users[u] EXCEPT !.loggedIn = TRUE])
  /\ UNCHANGED tables

ChangePassword(r) ==
  /\ \E c \in Calls[r] :
       /\ c.op = "changePassword"
       /\ LET a == users[c.user] IN
            \/ (a = None \/ a.pass # c.old) /\ Begin(r, c, "failed") /\ UNCHANGED tx
            \/ /\ a # None /\ a.pass = c.old
               /\ Begin(r, c, "load") /\ Edit(r, c.user, [a EXCEPT !.pass = c.new])
  /\ UNCHANGED tables

ResetPassword(r) ==
  /\ \E c \in Calls[r] :
       /\ c.op = "resetPassword"
       /\ LET a == users[c.user] IN
            \/ a = None /\ Begin(r, c, "failed") /\ UNCHANGED tx
            \/ a # None /\ Begin(r, c, "load") /\ Edit(r, c.user, [a EXCEPT !.pass = c.new])
  /\ UNCHANGED tables

\* Mutant of Locked: the account is not deactivated with the lock.
Locked_OnlyFlag(a, on) == [a EXCEPT !.isLocked = on]

Locked(a, on) == [a EXCEPT !.isLocked = on, !.isActive = ~on]

SetLockStatus(r) ==
  /\ \E c \in Calls[r] :
       /\ c.op = "setLockStatus"
       /\ LET a == users[c.user] IN
            \/ a = None /\ Begin(r, c, "failed") /\ UNCHANGED tx
            \/ a # None /\ Begin(r, c, "load") /\ Edit(r, c.user, Locked(a, c.on))
  /\ UNCHANGED tables

\* save() reads the row it is about to write.
LoadIdentity(r) ==
  /\ pc[r] = "load"
  /\ tx' = [tx EXCEPT ![r].loaded = users[tx[r].user]]
  /\ Goto(r, "save")
  /\ UNCHANGED <<tables, call>>

\* The row after save(): the columns in which the entity differs from the
\* row loaded are written, the others keep what they hold now.
Written(now, entity, loaded) ==
  [c \in DOMAIN now |-> IF entity[c] = loaded[c] THEN now[c] ELSE entity[c]]

SaveIdentity(r) ==
  /\ pc[r] = "save"
  /\ users' = [users EXCEPT ![tx[r].user] = Written(@, tx[r].entity, tx[r].loaded)]
  /\ \/ Op(r) = "signIn" /\ Goto(r, "issue") /\ UNCHANGED tx
     \/ Op(r) # "signIn" /\ Goto(r, "done") /\ Forget(r)
  /\ UNCHANGED <<roles, wallets, presets, tokens, call>>

-----------------------------------------------------------------------------
(* Refresh tokens *)

\* The token presented is known, not revoked and not expired.
RefreshToken(r) ==
  /\ \E c \in Calls[r] :
       /\ c.op = "refreshToken"
       /\ LET t == tokens[c.token]  ok == t # None /\ ~t.revoked /\ ~t.expired IN
            \/ ~ok /\ Begin(r, c, "failed") /\ UNCHANGED tx
            \/ ok /\ Begin(r, c, "owner") /\ Edit(r, t.user, None)
  /\ UNCHANGED tables

\* Mutant of AfterOwner: the token presented is not revoked.
AfterOwner_NoRevoke == "issue"

AfterOwner == "revoke"

\* Its owner may sign in.
CheckOwner(r) ==
  /\ pc[r] = "owner"
  /\ LET a == users[tx[r].user] IN
       Goto(r, IF a.isActive /\ ~a.isLocked THEN AfterOwner ELSE "failed")
  /\ UNCHANGED <<tables, call, tx>>

Logout(r) ==
  /\ \E c \in Calls[r] :
       /\ c.op = "logout"
       /\ LET t == tokens[c.token] IN
            Begin(r, c, IF t # None /\ ~t.revoked THEN "revoke" ELSE "done")
  /\ UNCHANGED <<tables, tx>>

RevokeToken(r) ==
  /\ pc[r] = "revoke"
  /\ tokens' = [tokens EXCEPT ![call[r].token].revoked = TRUE]
  /\ Goto(r, IF Op(r) = "logout" THEN "done" ELSE "issue")
  /\ UNCHANGED <<users, roles, wallets, presets, call, tx>>

\* buildAuthResponse: read the roles and insert a refresh token.
IssueToken(r) ==
  /\ pc[r] = "issue"
  /\ LET u == IF Op(r) = "signUp" THEN r ELSE tx[r].user IN
       tokens' = [tokens EXCEPT ![r] =
         [user |-> u, roles |-> RoleNames(u), revoked |-> FALSE, expired |-> FALSE]]
  /\ Goto(r, "done") /\ Forget(r)
  /\ UNCHANGED <<users, roles, wallets, presets, call>>

Expire(t) ==
  /\ tokens[t] # None /\ ~tokens[t].expired
  /\ tokens' = [tokens EXCEPT ![t].expired = TRUE]
  /\ UNCHANGED <<users, roles, wallets, presets, pc, call, tx>>

-----------------------------------------------------------------------------
(* BetAmountPresetService *)

AddAmount(r) ==
  /\ \E c \in Calls[r] :
       /\ c.op = "addAmount"
       /\ Begin(r, c, IF \E p \in presets : p.user = c.user /\ p.amount = c.amount
                      THEN "failed" ELSE "addPreset")
  /\ UNCHANGED <<tables, tx>>

AddPreset(r) ==
  /\ pc[r] = "addPreset" /\ NoPreset(call[r].user, call[r].amount)
  /\ presets' = presets \cup {[user |-> call[r].user, amount |-> call[r].amount, by |-> r]}
  /\ Goto(r, "done")
  /\ UNCHANGED <<users, roles, wallets, tokens, call, tx>>

\* deleteAmount finds the row of an id, which may be gone by now, then deletes
\* it by that id.
DeleteAmount(r) ==
  /\ \E c \in Calls[r] :
       /\ c.op = "deleteAmount"
       /\ LET Found == {p \in presets : p.user = c.user /\ p.amount = c.amount} IN
            \/ Begin(r, c, "failed") /\ UNCHANGED tx
            \/ \E p \in Found : Begin(r, c, "dropPreset") /\ tx' = [tx EXCEPT ![r].preset = p]
  /\ UNCHANGED tables

DropPreset(r) ==
  /\ pc[r] = "dropPreset"
  /\ presets' = presets \ {tx[r].preset}
  /\ Goto(r, "done") /\ Forget(r)
  /\ UNCHANGED <<users, roles, wallets, tokens, call>>

-----------------------------------------------------------------------------
(* Who may see whose wallet and transactions (WalletService) *)

\* assertCanAccessUser: may the actor open this account by its id?
CanAccess(actor, u) ==
  /\ users[u] # None
  /\ \/ "superadmin" \in RoleNames(actor)
     \/ /\ "admin" \in RoleNames(actor) /\ "superadmin" \notin RoleNames(u)
        /\ users[u].by = users[actor].email

\* buildAccessibleUsersWhere: the accounts a list shows the actor.
AccessibleUsers(actor) ==
  {u \in Req : /\ users[u] # None
               /\ "superadmin" \in RoleNames(actor) \/ users[u].by = users[actor].email}

\* resolveAccessibleUserIds: of one account or, if none is named, of all; a
\* refusal shows as no account.
ResolveAccessible(actor, u) ==
  IF u = None THEN AccessibleUsers(actor) ELSE {v \in {u} : CanAccess(actor, v)}

-----------------------------------------------------------------------------
\* The seeded superadmin is on record.
Init ==
  /\ users = Existing
  /\ roles = [u \in Req |-> IF Existing[u] = None THEN {} ELSE {"superadmin"}]
  /\ wallets = {u \in Req : Existing[u] # None}
  /\ presets = {}
  /\ tokens = [r \in Req |-> None]
  /\ pc = [r \in Req |-> IF Existing[r] = None THEN "idle" ELSE "done"]
  /\ call = [r \in Req |-> None]
  /\ tx = [r \in Req |-> NoTx]

Step(r) ==
  \/ SignUp(r) \/ CreateUser(r) \/ InsertUser(r) \/ AssignRole(r)
  \/ FindWallet(r) \/ InsertWallet(r) \/ SeedDefaults(r) \/ UpdateCreditReference(r)
  \/ SignIn(r) \/ ChangePassword(r) \/ ResetPassword(r) \/ SetLockStatus(r)
  \/ LoadIdentity(r) \/ SaveIdentity(r)
  \/ RefreshToken(r) \/ CheckOwner(r) \/ Logout(r) \/ RevokeToken(r) \/ IssueToken(r)
  \/ AddAmount(r) \/ AddPreset(r) \/ DeleteAmount(r) \/ DropPreset(r)

Next == \E r \in Req : Step(r) \/ Fail(r) \/ Expire(r)

Spec == Init /\ [][Next]_vars
=============================================================================
