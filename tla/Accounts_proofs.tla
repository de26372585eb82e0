--------------------------- MODULE Accounts_proofs ---------------------------
(***************************************************************************)
(* Proofs about accounts.  No request has a transaction, so the invariant  *)
(* says of each request what its statements so far have left behind, and   *)
(* that nothing it relies on is ever taken away by the others.             *)
(***************************************************************************)
EXTENDS AccountsProps, TLAPS

New   == {"signUp", "createUser"}
Edits == {"signIn", "changePassword", "resetPassword", "setLockStatus"}

TypeOK ==
  /\ users \in [Req -> Account \cup {None}]
  /\ roles \in [Req -> SUBSET RoleName]
  /\ wallets \subseteq Req
  /\ presets \subseteq PresetRow
  /\ tokens \in [Req -> Token \cup {None}]
  /\ pc \in [Req -> Stages \cup {"idle", "done", "failed"}]
  /\ call \in [Req -> CallSet \cup {None}]
  /\ tx \in [Req -> Tx]

\* The stages of each kind of request.
StageOK(r) ==
  InFlight(r) =>
    /\ call[r] \in CallSet
    /\ pc[r] \in {"insert", "role"} => Op(r) \in New
    /\ pc[r] \in {"findWallet", "insertWallet"} => Op(r) \in New \cup {"updateCreditReference"}
    /\ pc[r] = "seed" => Op(r) = "createUser"
    /\ pc[r] \in {"load", "save"} => Op(r) \in Edits
    /\ pc[r] = "owner" => Op(r) = "refreshToken"
    /\ pc[r] = "revoke" => Op(r) \in {"refreshToken", "logout"}
    /\ pc[r] = "issue" => Op(r) \in {"signUp", "signIn", "refreshToken"}
    /\ pc[r] = "addPreset" => Op(r) = "addAmount"
    /\ pc[r] = "dropPreset" => Op(r) = "deleteAmount"

\* The rows a request has inserted are there after its insert and not before.
RecordOK(r) ==
  /\ Existing[r] # None => /\ pc[r] = "done" /\ call[r] = None
                           /\ users[r] # None /\ users[r].by = "system"
  /\ Existing[r] = None =>
       /\ users[r] # None => call[r] \in CallSet /\ Op(r) \in New /\ pc[r] \notin {"idle", "insert"}
       /\ roles[r] # {} => users[r] # None /\ pc[r] # "role" /\ roles[r] = {call[r].role}
  /\ tokens[r] # None => pc[r] = "done" /\ call[r] \in CallSet

\* What an account is allowed to be, and whom it names as its creator.
CreatorOK(r) ==
  Existing[r] = None /\ (users[r] # None \/ pc[r] = "insert") =>
    /\ Op(r) = "signUp" => /\ call[r].role = "user"
                           /\ users[r] # None => users[r].by = users[r].email
    /\ Op(r) = "createUser" =>
         /\ call[r].role \in Creatable /\ users[call[r].actor] # None
         /\ users[r] # None => users[r].by = users[call[r].actor].email

\* How far the creation of an account is.
ProgressOK(r) ==
  call[r] # None /\ Op(r) \in New =>
    /\ pc[r] \in {"role", "findWallet", "insertWallet", "issue", "seed", "done"} => users[r] # None
    /\ pc[r] \in {"findWallet", "insertWallet", "issue", "seed", "done"} => roles[r] = {call[r].role}
    /\ pc[r] \in {"issue", "seed", "done"} => r \in wallets
    /\ pc[r] = "done" /\ Op(r) = "signUp" => tokens[r] # None /\ tokens[r].roles = {"user"}
    /\ pc[r] = "done" /\ Op(r) = "createUser" =>
         \A a \in DefaultPresets : ~NoPreset(r, a) \/ Deleting(r, a)

\* An entity differs from the row it was read from in what the request
\* changes, never in what identifies the account, and its flags agree.
Same(a, b) == a.email = b.email /\ a.name = b.name /\ a.by = b.by
Agree(a)   == a.isActive = ~a.isLocked
CopyOf(a, u) == a \in Account /\ Agree(a) /\ Same(a, users[u])

EntityOK(r) ==
  pc[r] \in {"load", "save"} =>
    /\ tx[r].user \in Req /\ users[tx[r].user] # None
    /\ CopyOf(tx[r].entity, tx[r].user)
    /\ pc[r] = "save" => CopyOf(tx[r].loaded, tx[r].user)

\* The token a request presents, and the one it was issued for it.
SessionOK(r) ==
  /\ pc[r] = "issue" /\ Op(r) # "signUp" => tx[r].user \in Req
  /\ pc[r] = "revoke" => tokens[call[r].token] # None
  /\ pc[r] \in {"owner", "revoke", "issue"} /\ Op(r) = "refreshToken" =>
       /\ tokens[call[r].token] # None /\ tokens[call[r].token].user = tx[r].user
       /\ tx[r].user \in Req
       /\ pc[r] = "issue" => tokens[call[r].token].revoked
  /\ tokens[r] # None /\ Op(r) = "refreshToken" =>
       /\ tokens[call[r].token] # None /\ tokens[call[r].token].revoked
       /\ tokens[call[r].token].user = tokens[r].user

PresetOK(r) ==
  pc[r] = "dropPreset" => /\ tx[r].preset \in PresetRow
                          /\ tx[r].preset.user = call[r].user
                          /\ tx[r].preset.amount = call[r].amount

RequestOK(r) == /\ StageOK(r) /\ RecordOK(r) /\ CreatorOK(r) /\ ProgressOK(r)
                /\ EntityOK(r) /\ SessionOK(r) /\ PresetOK(r)

IInv == TypeOK /\ RowsUnique /\ FlagsAgree /\ \A r \in Req : RequestOK(r)

-----------------------------------------------------------------------------
(* What a step of one request is to the others *)

\* Accounts keep what identifies them, tokens their owner and roles, a token
\* revoked stays so, wallets stay, and presets go only by deleteAmount.
Grows ==
  /\ \A u \in Req : users[u] # None => users'[u] # None /\ Same(users'[u], users[u])
  /\ \A t \in Req : tokens[t] # None =>
       /\ tokens'[t] # None /\ tokens'[t].user = tokens[t].user
       /\ tokens'[t].roles = tokens[t].roles
       /\ tokens[t].revoked => tokens'[t].revoked
  /\ wallets \subseteq wallets'
  /\ \A u \in Req, a \in Preset :
       ~NoPreset(u, a) \/ Deleting(u, a) => ~NoPreset(u, a)' \/ Deleting(u, a)'

\* Only request r moves on, and only its own rows appear.
OnlyMoves(r) ==
  \A q \in Req \ {r} :
    /\ pc'[q] = pc[q] /\ call'[q] = call[q] /\ tx'[q] = tx[q] /\ roles'[q] = roles[q]
    /\ users[q] = None => users'[q] = None
    /\ tokens[q] = None => tokens'[q] = None

Kept(r) == TypeOK' /\ Grows /\ OnlyMoves(r)

\* What a call carries, by the operation it asks for.
LEMMA CallFacts ==
  ASSUME NEW c \in CallSet
  PROVE  /\ c # None
         /\ c.op \in New => c.email \in Email /\ c.name \in Name /\ c.pass \in Password
                            /\ c.role \in RoleName
         /\ c.op = "createUser" => c.actor \in Req
         /\ c.op \in {"changePassword", "resetPassword"} => c.user \in Req /\ c.new \in Password
         /\ c.op = "setLockStatus" => c.user \in Req /\ c.on \in BOOLEAN
         /\ c.op \in {"refreshToken", "logout"} => c.token \in Req
         /\ c.op \in {"addAmount", "deleteAmount"} => c.user \in Req /\ c.amount \in Preset
         /\ c.op = "updateCreditReference" => c.user \in Req
<1>1. c # None
  BY AccountsAssumption
<1> QED BY <1>1 DEF CallSet, AuthCalls, UserCalls, PresetCalls, WalletCalls, New

\* What holds of a request goes on to hold while others take steps.
LEMMA OthersKeep ==
  ASSUME IInv, NEW r \in Req, Kept(r), NEW q \in Req, q # r
  PROVE  RequestOK(q)'
<1>0. /\ pc'[q] = pc[q] /\ call'[q] = call[q] /\ tx'[q] = tx[q] /\ roles'[q] = roles[q]
      /\ users[q] = None <=> users'[q] = None
      /\ tokens[q] = None <=> tokens'[q] = None
      /\ RequestOK(q) /\ TypeOK
  BY DEF Kept, OnlyMoves, Grows, IInv
<1>1. StageOK(q)'
  BY <1>0 DEF RequestOK, StageOK, InFlight, Op
<1>2. RecordOK(q)'
  BY <1>0 DEF RequestOK, RecordOK, Kept, Grows, Same, Op
<1>3. CreatorOK(q)'
  <2>1. SUFFICES ASSUME Existing[q] = None, users'[q] # None \/ pc'[q] = "insert"
                 PROVE  CreatorOK(q)'
    BY DEF CreatorOK
  <2>2. call[q] \in CallSet
    BY <1>0, <2>1 DEF RequestOK, RecordOK, StageOK, InFlight, Stages
  <2>3. Op(q) = "createUser" => call[q].actor \in Req
    BY <2>2, CallFacts DEF Op
  <2>4. users[q] # None => Same(users'[q], users[q])
    BY DEF Kept, Grows
  <2>5. Op(q) = "createUser" => /\ users[call[q].actor] # None
                               /\ users'[call[q].actor] # None
                               /\ Same(users'[call[q].actor], users[call[q].actor])
    BY <1>0, <2>1, <2>3 DEF Kept, Grows, RequestOK, CreatorOK
  <2> QED BY <1>0, <2>1, <2>4, <2>5 DEF RequestOK, CreatorOK, Same, Op
<1>4. ProgressOK(q)'
  <2>1. SUFFICES ASSUME call[q] # None, Op(q) \in New PROVE ProgressOK(q)'
    BY <1>0 DEF ProgressOK, Op
  <2>2. q \in wallets => q \in wallets'
    BY DEF Kept, Grows
  <2>3. tokens[q] # None => tokens'[q] # None /\ tokens'[q].roles = tokens[q].roles
    BY DEF Kept, Grows
  <2>4. ASSUME NEW a \in DefaultPresets, ~NoPreset(q, a) \/ Deleting(q, a)
        PROVE  (~NoPreset(q, a) \/ Deleting(q, a))'
    BY <2>4, AccountsAssumption DEF Kept, Grows
  <2>5. Op(q)' = Op(q) /\ ProgressOK(q)
    BY <1>0 DEF Op, RequestOK
  <2> QED BY <1>0, <2>1, <2>2, <2>3, <2>4, <2>5 DEF ProgressOK
<1>5. EntityOK(q)'
  <2>1. SUFFICES ASSUME pc[q] \in {"load", "save"} PROVE EntityOK(q)'
    BY <1>0 DEF EntityOK
  <2>2. tx[q].user \in Req /\ users[tx[q].user] # None
    BY <1>0, <2>1 DEF RequestOK, EntityOK
  <2>3. users'[tx[q].user] # None /\ Same(users'[tx[q].user], users[tx[q].user])
    BY <2>2 DEF Kept, Grows
  <2> QED BY <1>0, <2>1, <2>2, <2>3 DEF RequestOK, EntityOK, CopyOf, Same
<1>6. SessionOK(q)'
  <2>1. Op(q)' = Op(q) /\ SessionOK(q)
    BY <1>0 DEF Op, RequestOK
  <2>2. \/ pc[q] = "revoke"
        \/ pc[q] \in {"owner", "revoke", "issue"} /\ Op(q) = "refreshToken"
        \/ tokens[q] # None /\ Op(q) = "refreshToken"
        => /\ tokens[call[q].token] # None /\ tokens'[call[q].token] # None
           /\ tokens'[call[q].token].user = tokens[call[q].token].user
           /\ tokens[call[q].token].revoked => tokens'[call[q].token].revoked
    <3>1. SUFFICES ASSUME \/ pc[q] = "revoke"
                          \/ pc[q] \in {"owner", "revoke", "issue"} /\ Op(q) = "refreshToken"
                          \/ tokens[q] # None /\ Op(q) = "refreshToken"
                   PROVE  /\ tokens[call[q].token] # None /\ tokens'[call[q].token] # None
                          /\ tokens'[call[q].token].user = tokens[call[q].token].user
                          /\ tokens[call[q].token].revoked => tokens'[call[q].token].revoked
      OBVIOUS
    <3>2. call[q] \in CallSet /\ Op(q) \in {"refreshToken", "logout"}
      BY <1>0, <3>1 DEF RequestOK, StageOK, RecordOK, InFlight, Stages
    <3>3. call[q].token \in Req /\ tokens[call[q].token] # None
      BY <2>1, <3>1, <3>2, CallFacts DEF SessionOK, Op
    <3> QED BY <3>3 DEF Kept, Grows
  <2>3. tokens[q] # None => tokens'[q].user = tokens[q].user
    BY DEF Kept, Grows
  <2> QED BY <1>0, <2>1, <2>2, <2>3 DEF SessionOK
<1>7. PresetOK(q)'
  BY <1>0 DEF RequestOK, PresetOK
<1> QED BY <1>1, <1>2, <1>3, <1>4, <1>5, <1>6, <1>7 DEF RequestOK

-----------------------------------------------------------------------------
(* Requests that begin *)

\* A request that begins touches no table, and what it has read is its own.
LEMMA AskStep ==
  ASSUME IInv, NEW r \in Req, NEW c, NEW s \in Stages \cup {"done", "failed"}, NEW t \in Tx,
         Begin(r, c, s), UNCHANGED tables, tx' = [tx EXCEPT ![r] = t]
  PROVE  /\ Kept(r) /\ c \in CallSet /\ pc[r] = "idle"
         /\ pc'[r] = s /\ call'[r] = c /\ tx'[r] = t
         /\ users' = users /\ roles' = roles /\ tokens' = tokens
<1>1. c \in CallSet /\ pc[r] = "idle"
  BY AccountsAssumption DEF Begin
<1>2. /\ pc' = [pc EXCEPT ![r] = s] /\ call' = [call EXCEPT ![r] = c]
      /\ users' = users /\ roles' = roles /\ tokens' = tokens
      /\ wallets' = wallets /\ presets' = presets
  BY DEF Begin, Goto, tables
<1>3. TypeOK
  BY DEF IInv
<1>4. TypeOK'
  BY <1>1, <1>2, <1>3 DEF TypeOK
<1>5. /\ pc'[r] = s /\ call'[r] = c /\ tx'[r] = t
      /\ \A q \in Req \ {r} : pc'[q] = pc[q] /\ call'[q] = call[q] /\ tx'[q] = tx[q]
  BY <1>2, <1>3 DEF TypeOK
<1>6. ASSUME NEW u \in Req, NEW a \in Preset, ~NoPreset(u, a) \/ Deleting(u, a)
      PROVE  (~NoPreset(u, a) \/ Deleting(u, a))'
  BY <1>1, <1>2, <1>5, <1>6 DEF NoPreset, Deleting, Op
<1>7. Grows /\ OnlyMoves(r)
  BY <1>2, <1>5, <1>6 DEF Grows, OnlyMoves, Same
<1> QED BY <1>1, <1>2, <1>4, <1>5, <1>7 DEF Kept

\* One that has only begun holds nothing but what its stage asks for.
LEMMA AskOK ==
  ASSUME IInv, NEW r \in Req, NEW c, NEW s \in Stages \cup {"done", "failed"}, NEW t \in Tx,
         Begin(r, c, s), UNCHANGED tables, tx' = [tx EXCEPT ![r] = t],
         s \notin {"issue", "role", "findWallet", "insertWallet", "seed"} \/ c.op \notin New,
         s = "done" => c.op \notin New,
         StageOK(r)', CreatorOK(r)', EntityOK(r)', SessionOK(r)', PresetOK(r)'
  PROVE  Kept(r) /\ RequestOK(r)'
<1>1. /\ Kept(r) /\ c \in CallSet /\ pc[r] = "idle"
      /\ pc'[r] = s /\ call'[r] = c /\ tx'[r] = t
      /\ users' = users /\ roles' = roles /\ tokens' = tokens
  BY AskStep
<1>2. RecordOK(r)
  BY DEF IInv, RequestOK
<1>3. Existing[r] = None /\ users[r] = None /\ roles[r] = {} /\ tokens[r] = None
  BY <1>1, <1>2 DEF RecordOK
<1>4. RecordOK(r)'
  BY <1>1, <1>3 DEF RecordOK
<1>5. ProgressOK(r)'
  BY <1>1 DEF ProgressOK, Op
<1> QED BY <1>1, <1>4, <1>5 DEF RequestOK

\* A call refused at once.
LEMMA Refused ==
  ASSUME IInv, NEW r \in Req, NEW c, NEW s \in {"failed", "done"}, s = "done" => c.op \notin New,
         Begin(r, c, s), UNCHANGED <<tables, tx>>
  PROVE  Kept(r) /\ RequestOK(r)'
<1>1. tx' = [tx EXCEPT ![r] = tx[r]] /\ tx[r] \in Tx /\ UNCHANGED tables
  BY DEF IInv, TypeOK
<1>2. s \in Stages \cup {"done", "failed"} /\ s \notin Stages
  BY DEF Stages
<1>3. /\ pc[r] = "idle" /\ pc'[r] = s /\ call'[r] = c
      /\ users' = users /\ roles' = roles /\ tokens' = tokens
  BY <1>1, <1>2, AskStep
<1>4. users[r] = None /\ tokens[r] = None
  BY <1>3 DEF IInv, RequestOK, RecordOK
<1>5. StageOK(r)' /\ CreatorOK(r)' /\ EntityOK(r)' /\ SessionOK(r)' /\ PresetOK(r)'
  BY <1>2, <1>3, <1>4
     DEF StageOK, CreatorOK, EntityOK, SessionOK, PresetOK, InFlight, Stages
<1> QED BY <1>1, <1>2, <1>5, AskOK DEF Stages

\* A copy of an account, changed in its password, flags or session.
LEMMA EditOK ==
  ASSUME IInv, NEW u \in Req, users[u] # None
  PROVE  /\ \A p \in Password : CopyOf([users[u] EXCEPT !.pass = p], u)
         /\ CopyOf([users[u] EXCEPT !.loggedIn = TRUE], u)
         /\ \A b \in BOOLEAN : CopyOf(Locked(users[u], b), u)
<1>1. users[u] \in Account /\ Agree(users[u])
  BY DEF IInv, TypeOK, FlagsAgree, Agree
<1> QED BY <1>1 DEF CopyOf, Account, Agree, Same, Locked

\* A request that has found an account and goes on to save it.
LEMMA EditBegins ==
  ASSUME IInv, NEW r \in Req, NEW c, c.op \in Edits, NEW u \in Req, users[u] # None,
         NEW e, CopyOf(e, u), Begin(r, c, "load"), Edit(r, u, e), UNCHANGED tables
  PROVE  Kept(r) /\ RequestOK(r)'
<1> DEFINE t == [tx[r] EXCEPT !.user = u, !.entity = e]
<1>1. t \in Tx /\ t.user = u /\ t.entity = e
  BY DEF IInv, TypeOK, Tx, CopyOf
<1>2. tx' = [tx EXCEPT ![r] = t]
  BY DEF Edit, IInv, TypeOK, Tx
<1>3. "load" \in Stages \cup {"done", "failed"}
  BY DEF Stages
<1>4. /\ Kept(r) /\ c \in CallSet /\ pc[r] = "idle"
      /\ pc'[r] = "load" /\ call'[r] = c /\ tx'[r] = t
      /\ users' = users /\ roles' = roles /\ tokens' = tokens
  BY <1>1, <1>2, <1>3, AskStep
<1>5. users[r] = None /\ tokens[r] = None
  BY <1>4 DEF IInv, RequestOK, RecordOK
<1>6. StageOK(r)' /\ CreatorOK(r)' /\ SessionOK(r)' /\ PresetOK(r)'
  BY <1>4, <1>5 DEF StageOK, CreatorOK, SessionOK, PresetOK, InFlight, Stages, Op
<1>7. EntityOK(r)'
  BY <1>1, <1>4 DEF EntityOK, CopyOf, Same
<1> HIDE DEF t
<1> QED BY <1>1, <1>2, <1>3, <1>6, <1>7, AskOK

\* A request that begins without having read a row to keep.
LEMMA PlainBegins ==
  ASSUME IInv, NEW r \in Req, NEW c \in CallSet, NEW s, Begin(r, c, s), UNCHANGED <<tables, tx>>,
         \/ s = "insert" /\ c.op \in New
            /\ (c.op = "signUp" => c.role = "user")
            /\ (c.op = "createUser" => c.role \in Creatable /\ users[c.actor] # None)
         \/ s = "findWallet" /\ c.op = "updateCreditReference"
         \/ s = "revoke" /\ c.op = "logout" /\ tokens[c.token] # None
         \/ s = "addPreset" /\ c.op = "addAmount"
  PROVE  Kept(r) /\ RequestOK(r)'
<1>1. tx' = [tx EXCEPT ![r] = tx[r]] /\ tx[r] \in Tx /\ UNCHANGED tables
  BY DEF IInv, TypeOK
<1>2. s \in Stages \cup {"done", "failed"} /\ s # "done"
  BY DEF Stages
<1>3. /\ pc[r] = "idle" /\ pc'[r] = s /\ call'[r] = c
      /\ users' = users /\ roles' = roles /\ tokens' = tokens
  BY <1>1, <1>2, AskStep
<1>4. users[r] = None /\ tokens[r] = None
  BY <1>3 DEF IInv, RequestOK, RecordOK
<1>5. StageOK(r)' /\ EntityOK(r)' /\ PresetOK(r)'
  BY <1>3 DEF StageOK, EntityOK, PresetOK, InFlight, Stages, Op, New
<1>6. CreatorOK(r)' /\ SessionOK(r)'
  BY <1>3, <1>4 DEF CreatorOK, SessionOK, Op
<1>7. s \notin {"issue", "role", "findWallet", "insertWallet", "seed"} \/ c.op \notin New
  BY DEF New
<1> QED BY <1>1, <1>2, <1>5, <1>6, <1>7, AskOK

\* Accounts without a role are not let in by RolesGuard.
LEMMA ActorsExist ==
  ASSUME IInv, NEW u \in Req, NEW R, HasRole(u, R)
  PROVE  users[u] # None
<1>1. roles[u] # {}
  BY DEF HasRole, RoleNames
<1> QED BY <1>1 DEF IInv, RequestOK, RecordOK

\* Requests that create an account, or only work with rows not yet read.
LEMMA CreationsBegin ==
  ASSUME IInv, NEW r \in Req,
         \/ SignUp(r) \/ CreateUser(r) \/ UpdateCreditReference(r) \/ Logout(r) \/ AddAmount(r)
  PROVE  Kept(r) /\ RequestOK(r)'
<1>0. \A c \in Calls[r] : c \in CallSet
  BY AccountsAssumption
<1>1. CASE SignUp(r)
  <2>1. PICK c \in Calls[r] :
          /\ c.op = "signUp" /\ UNCHANGED <<tables, tx>>
          /\ Begin(r, c, "failed") \/ (c.role = "user" /\ Begin(r, c, "insert"))
    BY <1>1 DEF SignUp
  <2> QED BY <1>0, <2>1, Refused, PlainBegins DEF New
<1>2. CASE CreateUser(r)
  <2>1. PICK c \in Calls[r] :
          /\ c.op = "createUser" /\ UNCHANGED <<tables, tx>>
          /\ \/ Begin(r, c, "failed")
             \/ /\ c.role \in Creatable /\ HasRole(c.actor, {"admin", "superadmin"})
                /\ Begin(r, c, "insert")
    BY <1>2 DEF CreateUser
  <2>2. c.actor \in Req
    BY <1>0, <2>1, CallFacts
  <2> QED BY <1>0, <2>1, <2>2, Refused, PlainBegins, ActorsExist DEF New
<1>3. CASE UpdateCreditReference(r)
  BY <1>0, <1>3, PlainBegins DEF UpdateCreditReference
<1>4. CASE Logout(r)
  <2>1. PICK c \in Calls[r] :
          /\ c.op = "logout" /\ UNCHANGED <<tables, tx>>
          /\ Begin(r, c, "done") \/ (tokens[c.token] # None /\ Begin(r, c, "revoke"))
    BY <1>4 DEF Logout
  <2> QED BY <1>0, <2>1, Refused, PlainBegins DEF New
<1>5. CASE AddAmount(r)
  <2>1. PICK c \in Calls[r] :
          /\ c.op = "addAmount" /\ UNCHANGED <<tables, tx>>
          /\ Begin(r, c, "failed") \/ Begin(r, c, "addPreset")
    BY <1>5 DEF AddAmount
  <2> QED BY <1>0, <2>1, Refused, PlainBegins DEF New
<1> QED BY <1>1, <1>2, <1>3, <1>4, <1>5

\* Requests that read the row they are to change.
LEMMA EditsBegin ==
  ASSUME IInv, NEW r \in Req,
         SignIn(r) \/ ChangePassword(r) \/ ResetPassword(r) \/ SetLockStatus(r)
  PROVE  Kept(r) /\ RequestOK(r)'
<1>1. PICK c \in Calls[r] :
        /\ c.op \in Edits /\ UNCHANGED tables
        /\ \/ Begin(r, c, "failed") /\ UNCHANGED tx
           \/ \E u \in Req : \E e :
                /\ users[u] # None /\ Begin(r, c, "load") /\ Edit(r, u, e)
                /\ \/ e = [users[u] EXCEPT !.loggedIn = TRUE]
                   \/ c.op \in {"changePassword", "resetPassword"}
                      /\ e = [users[u] EXCEPT !.pass = c.new]
                   \/ c.op = "setLockStatus" /\ e = Locked(users[u], c.on)
  <2>0. \A c \in Calls[r] : c.op \in {"changePassword", "resetPassword", "setLockStatus"} =>
          c.user \in Req
    BY AccountsAssumption, CallFacts
  <2>1. CASE SignIn(r)
    BY <2>1 DEF SignIn, Edits
  <2>2. CASE ChangePassword(r)
    BY <2>0, <2>2 DEF ChangePassword, Edits
  <2>3. CASE ResetPassword(r)
    BY <2>0, <2>3 DEF ResetPassword, Edits
  <2>4. CASE SetLockStatus(r)
    BY <2>0, <2>4 DEF SetLockStatus, Edits
  <2> QED BY <2>1, <2>2, <2>3, <2>4
<1>2. c \in CallSet
  BY AccountsAssumption
<1>3. CASE Begin(r, c, "failed") /\ UNCHANGED tx
  BY <1>1, <1>3, Refused
<1>4. CASE \E u \in Req : \E e :
             /\ users[u] # None /\ Begin(r, c, "load") /\ Edit(r, u, e)
             /\ \/ e = [users[u] EXCEPT !.loggedIn = TRUE]
                \/ c.op \in {"changePassword", "resetPassword"}
                   /\ e = [users[u] EXCEPT !.pass = c.new]
                \/ c.op = "setLockStatus" /\ e = Locked(users[u], c.on)
  <2>a. PICK u \in Req : \E e :
          /\ users[u] # None /\ Begin(r, c, "load") /\ Edit(r, u, e)
          /\ \/ e = [users[u] EXCEPT !.loggedIn = TRUE]
             \/ c.op \in {"changePassword", "resetPassword"}
                /\ e = [users[u] EXCEPT !.pass = c.new]
             \/ c.op = "setLockStatus" /\ e = Locked(users[u], c.on)
    BY <1>4
  <2>1. PICK e :
          /\ users[u] # None /\ Begin(r, c, "load") /\ Edit(r, u, e)
          /\ \/ e = [users[u] EXCEPT !.loggedIn = TRUE]
             \/ c.op \in {"changePassword", "resetPassword"}
                /\ e = [users[u] EXCEPT !.pass = c.new]
             \/ c.op = "setLockStatus" /\ e = Locked(users[u], c.on)
    BY <2>a
  <2>3. CopyOf(e, u)
    <3>1. CASE e = [users[u] EXCEPT !.loggedIn = TRUE]
      BY <2>1, <3>1, EditOK
    <3>2. CASE c.op \in {"changePassword", "resetPassword"} /\ e = [users[u] EXCEPT !.pass = c.new]
      <4>1. c.new \in Password
        BY <1>2, <3>2, CallFacts
      <4> QED BY <2>1, <3>2, <4>1, EditOK
    <3>3. CASE c.op = "setLockStatus" /\ e = Locked(users[u], c.on)
      <4>1. c.on \in BOOLEAN
        BY <1>2, <3>3, CallFacts
      <4> QED BY <2>1, <3>3, <4>1, EditOK
    <3> QED BY <2>1, <3>1, <3>2, <3>3
  <2> QED BY <1>1, <2>1, <2>3, EditBegins
<1> QED BY <1>1, <1>3, <1>4

\* A token presented is one on record, and its owner stays what he is.
LEMMA RefreshBegins ==
  ASSUME IInv, NEW r \in Req, RefreshToken(r)
  PROVE  Kept(r) /\ RequestOK(r)'
<1>1. PICK c \in Calls[r] :
        /\ c.op = "refreshToken" /\ UNCHANGED tables
        /\ \/ Begin(r, c, "failed") /\ UNCHANGED tx
           \/ /\ tokens[c.token] # None /\ Begin(r, c, "owner")
              /\ Edit(r, tokens[c.token].user, None)
  BY DEF RefreshToken
<1>2. c \in CallSet /\ c.token \in Req
  BY <1>1, AccountsAssumption, CallFacts
<1>3. CASE Begin(r, c, "failed") /\ UNCHANGED tx
  BY <1>1, <1>3, Refused
<1>4. CASE tokens[c.token] # None /\ Begin(r, c, "owner") /\ Edit(r, tokens[c.token].user, None)
  <2> DEFINE t == [tx[r] EXCEPT !.user = tokens[c.token].user, !.entity = None]
  <2>1. tokens[c.token].user \in Req
    BY <1>2, <1>4 DEF IInv, TypeOK, Token
  <2>2. t \in Tx /\ t.user = tokens[c.token].user
    BY <2>1 DEF IInv, TypeOK, Tx
  <2>3. tx' = [tx EXCEPT ![r] = t]
    BY <1>4 DEF Edit, IInv, TypeOK, Tx
  <2> HIDE DEF t
  <2>4. /\ "owner" \in Stages \cup {"done", "failed"}
        /\ Begin(r, c, "owner") /\ UNCHANGED tables
    BY <1>1, <1>4 DEF Stages
  <2>5. /\ pc[r] = "idle" /\ pc'[r] = "owner" /\ call'[r] = c /\ tx'[r] = t
        /\ users' = users /\ tokens' = tokens
    BY <2>2, <2>3, <2>4, AskStep
  <2>6. users[r] = None /\ tokens[r] = None
    BY <2>5 DEF IInv, RequestOK, RecordOK
  <2>7. StageOK(r)' /\ CreatorOK(r)' /\ EntityOK(r)' /\ PresetOK(r)'
    BY <1>1, <1>2, <2>5, <2>6
       DEF StageOK, CreatorOK, EntityOK, PresetOK, InFlight, Stages, Op
  <2>8. SessionOK(r)'
    BY <1>1, <1>4, <2>1, <2>2, <2>5, <2>6 DEF SessionOK, Op
  <2> QED BY <1>1, <1>4, <2>2, <2>3, <2>4, <2>7, <2>8, AskOK
<1> QED BY <1>1, <1>3, <1>4

\* deleteAmount remembers a row of the user and amount it is asked for.
LEMMA DeletionBegins ==
  ASSUME IInv, NEW r \in Req, DeleteAmount(r)
  PROVE  Kept(r) /\ RequestOK(r)'
<1>1. PICK c \in Calls[r] :
        /\ c.op = "deleteAmount" /\ UNCHANGED tables
        /\ \/ Begin(r, c, "failed") /\ UNCHANGED tx
           \/ \E p \in presets : /\ p.user = c.user /\ p.amount = c.amount
                                 /\ Begin(r, c, "dropPreset")
                                 /\ tx' = [tx EXCEPT ![r].preset = p]
  BY DEF DeleteAmount
<1>2. c \in CallSet
  BY AccountsAssumption
<1>3. CASE Begin(r, c, "failed") /\ UNCHANGED tx
  BY <1>1, <1>3, Refused
<1>4. ASSUME NEW p \in presets, p.user = c.user, p.amount = c.amount,
             Begin(r, c, "dropPreset"), tx' = [tx EXCEPT ![r].preset = p]
      PROVE  Kept(r) /\ RequestOK(r)'
  <2> DEFINE t == [tx[r] EXCEPT !.preset = p]
  <2>1. p \in PresetRow
    BY DEF IInv, TypeOK
  <2>2. t \in Tx /\ t.preset = p
    BY <2>1 DEF IInv, TypeOK, Tx
  <2>3. tx' = [tx EXCEPT ![r] = t]
    BY <1>4 DEF IInv, TypeOK, Tx
  <2> HIDE DEF t
  <2>4. /\ "dropPreset" \in Stages \cup {"done", "failed"}
        /\ Begin(r, c, "dropPreset") /\ UNCHANGED tables
    BY <1>1, <1>4 DEF Stages
  <2>5. /\ pc[r] = "idle" /\ pc'[r] = "dropPreset" /\ call'[r] = c /\ tx'[r] = t
        /\ users' = users /\ tokens' = tokens
    BY <2>2, <2>3, <2>4, AskStep
  <2>6. users[r] = None /\ tokens[r] = None
    BY <2>5 DEF IInv, RequestOK, RecordOK
  <2>7. StageOK(r)' /\ CreatorOK(r)' /\ EntityOK(r)' /\ SessionOK(r)' /\ PresetOK(r)'
    BY <1>1, <1>2, <1>4, <2>1, <2>2, <2>5, <2>6
       DEF StageOK, CreatorOK, EntityOK, SessionOK, PresetOK, InFlight, Stages, Op
  <2> QED BY <1>1, <1>4, <2>2, <2>3, <2>4, <2>7, AskOK
<1> QED BY <1>1, <1>3, <1>4

-----------------------------------------------------------------------------
(* Requests at work *)

\* What a statement of a request leaves of the bookkeeping.
LEMMA WorkStep ==
  ASSUME IInv, NEW r \in Req, NEW s \in Stages \cup {"done", "failed"}, NEW t \in Tx,
         InFlight(r), Goto(r, s), UNCHANGED call, tx' = [tx EXCEPT ![r] = t]
  PROVE  /\ pc'[r] = s /\ tx'[r] = t /\ call' = call
         /\ call[r] \in CallSet /\ call[r] # None
         /\ pc' \in [Req -> Stages \cup {"idle", "done", "failed"}] /\ tx' \in [Req -> Tx]
         /\ \A q \in Req \ {r} : pc'[q] = pc[q] /\ tx'[q] = tx[q]
         /\ Existing[r] = None /\ tokens[r] = None
         /\ pc[r] # "done" /\ TypeOK /\ RequestOK(r)
         /\ \A q \in Req, a \in Preset : Deleting(q, a) => Deleting(q, a)'
<1>1. TypeOK /\ RequestOK(r)
  BY DEF IInv
<1>2. pc[r] \in Stages /\ pc[r] # "done"
  BY DEF InFlight, Stages
<1>3. call[r] \in CallSet /\ call[r] # None
  BY <1>1, CallFacts DEF RequestOK, StageOK
<1>4. Existing[r] = None /\ tokens[r] = None
  BY <1>1, <1>2 DEF RequestOK, RecordOK
<1>5. pc'[r] = s /\ tx'[r] = t /\ \A q \in Req \ {r} : pc'[q] = pc[q] /\ tx'[q] = tx[q]
  BY <1>1 DEF TypeOK, Goto
<1>6. pc' \in [Req -> Stages \cup {"idle", "done", "failed"}] /\ tx' \in [Req -> Tx]
  BY <1>1 DEF TypeOK, Goto
<1>7. \A q \in Req, a \in Preset : Deleting(q, a) => Deleting(q, a)'
  BY <1>2, <1>5 DEF Deleting, Op
<1> QED BY <1>1, <1>2, <1>3, <1>4, <1>5, <1>6, <1>7

\* A statement without memory leaves what its request has read.
LEMMA SameTx ==
  ASSUME IInv, NEW r \in Req
  PROVE  /\ tx[r] \in Tx /\ (UNCHANGED tx => tx' = [tx EXCEPT ![r] = tx[r]])
         /\ NoTx \in Tx
BY DEF IInv, TypeOK, Tx, NoTx

\* The new account of the insert statement.
LEMMA InsertUserKeeps ==
  ASSUME IInv, NEW r \in Req, InsertUser(r)
  PROVE  Kept(r) /\ RequestOK(r)'
<1>0. /\ pc[r] = "insert" /\ InFlight(r) /\ "role" \in Stages
      /\ Goto(r, "role") /\ UNCHANGED call /\ tx' = [tx EXCEPT ![r] = tx[r]] /\ tx[r] \in Tx
  BY SameTx DEF InsertUser, InFlight, Stages
<1>1. /\ pc'[r] = "role" /\ call' = call /\ call[r] \in CallSet /\ call[r] # None
      /\ pc' \in [Req -> Stages \cup {"idle", "done", "failed"}] /\ tx' \in [Req -> Tx]
      /\ \A q \in Req \ {r} : pc'[q] = pc[q] /\ tx'[q] = tx[q]
      /\ Existing[r] = None /\ tokens[r] = None /\ TypeOK /\ RequestOK(r)
      /\ \A q \in Req, a \in Preset : Deleting(q, a) => Deleting(q, a)'
  BY <1>0, WorkStep
<1>2. /\ roles' = roles /\ wallets' = wallets /\ presets' = presets /\ tokens' = tokens
      /\ users' = [users EXCEPT ![r] = NewAccount(call[r])]
  BY DEF InsertUser
<1>3. Op(r) \in New /\ users[r] = None /\ roles[r] = {}
  BY <1>0, <1>1 DEF RequestOK, StageOK, RecordOK
<1>4. Op(r) = "createUser" => call[r].actor \in Req /\ users[call[r].actor] \in Account
  BY <1>0, <1>1, <1>3, CallFacts DEF RequestOK, CreatorOK, TypeOK, Op
<1>5. CreatedBy(call[r]) \in Email
  BY <1>1, <1>3, <1>4, CallFacts DEF CreatedBy, New, Op, Account
<1>6. NewAccount(call[r]) \in Account /\ NewAccount(call[r]) # None
  <2>1. NewAccount(call[r]) \in Account
    BY <1>1, <1>3, <1>5, CallFacts DEF NewAccount, Account, Op
  <2> QED BY <2>1, AccountsAssumption
<1>7. TypeOK'
  BY <1>1, <1>2, <1>6 DEF TypeOK
<1>8. /\ users'[r] = NewAccount(call[r])
      /\ \A u \in Req \ {r} : users'[u] = users[u]
  BY <1>1, <1>2 DEF TypeOK
<1>9. Grows /\ OnlyMoves(r)
  BY <1>1, <1>2, <1>3, <1>6, <1>8 DEF Grows, OnlyMoves, Same, NoPreset
<1>10. StageOK(r)' /\ EntityOK(r)' /\ SessionOK(r)' /\ PresetOK(r)' /\ ProgressOK(r)'
  BY <1>1, <1>2, <1>3, <1>6, <1>8
     DEF StageOK, EntityOK, SessionOK, PresetOK, ProgressOK, InFlight, Stages, Op
<1>11. RecordOK(r)'
  BY <1>1, <1>2, <1>3, <1>6, <1>8 DEF RecordOK, Op
<1>12. CreatorOK(r)'
  <2>1. CreatorOK(r)
    BY <1>1 DEF RequestOK
  <2>2. /\ users'[r].email = call[r].email
        /\ users'[r].by = CreatedBy(call[r])
    BY <1>8 DEF NewAccount
  <2>3. Op(r) = "createUser" => call[r].actor # r
    BY <1>0, <1>1, <1>3, <2>1 DEF CreatorOK
  <2> QED BY <1>0, <1>1, <1>3, <1>4, <1>8, <2>1, <2>2, <2>3
          DEF CreatorOK, CreatedBy, New, Op
<1> QED BY <1>7, <1>9, <1>10, <1>11, <1>12 DEF Kept, RequestOK

\* The role of an account that had none.
LEMMA AssignRoleKeeps ==
  ASSUME IInv, NEW r \in Req, AssignRole(r)
  PROVE  Kept(r) /\ RequestOK(r)'
<1>0. /\ pc[r] = "role" /\ InFlight(r) /\ "findWallet" \in Stages
      /\ Goto(r, "findWallet") /\ UNCHANGED call
      /\ tx' = [tx EXCEPT ![r] = tx[r]] /\ tx[r] \in Tx
  BY SameTx DEF AssignRole, InFlight, Stages
<1>1. /\ pc'[r] = "findWallet" /\ call' = call /\ call[r] \in CallSet /\ call[r] # None
      /\ pc' \in [Req -> Stages \cup {"idle", "done", "failed"}] /\ tx' \in [Req -> Tx]
      /\ \A q \in Req \ {r} : pc'[q] = pc[q] /\ tx'[q] = tx[q]
      /\ Existing[r] = None /\ tokens[r] = None /\ TypeOK /\ RequestOK(r)
      /\ \A q \in Req, a \in Preset : Deleting(q, a) => Deleting(q, a)'
  BY <1>0, WorkStep
<1>2. /\ users' = users /\ wallets' = wallets /\ presets' = presets /\ tokens' = tokens
      /\ roles' = [roles EXCEPT ![r] = @ \cup {call[r].role}]
  BY DEF AssignRole
<1>3. Op(r) \in New /\ users[r] # None /\ roles[r] = {}
  BY <1>0, <1>1 DEF RequestOK, StageOK, RecordOK, ProgressOK
<1>4. call[r].role \in RoleName
  BY <1>1, <1>3, CallFacts DEF Op
<1>5. TypeOK'
  BY <1>1, <1>2, <1>4 DEF TypeOK
<1>6. roles'[r] = {call[r].role} /\ \A q \in Req \ {r} : roles'[q] = roles[q]
  BY <1>1, <1>2, <1>3 DEF TypeOK
<1>7. Grows /\ OnlyMoves(r)
  BY <1>1, <1>2, <1>6 DEF Grows, OnlyMoves, Same, NoPreset
<1>8. StageOK(r)' /\ EntityOK(r)' /\ SessionOK(r)' /\ PresetOK(r)' /\ ProgressOK(r)'
  BY <1>1, <1>2, <1>3, <1>6
     DEF StageOK, EntityOK, SessionOK, PresetOK, ProgressOK, InFlight, Stages, Op
<1>9. RecordOK(r)'
  BY <1>1, <1>2, <1>3, <1>6 DEF RecordOK, Op
<1>10. CreatorOK(r)'
  BY <1>1, <1>2, <1>3 DEF RequestOK, CreatorOK, Op
<1> QED BY <1>5, <1>7, <1>8, <1>9, <1>10 DEF Kept, RequestOK

\* createWalletForUser: the next statement is one of its caller's.
LEMMA WalletKeeps ==
  ASSUME IInv, NEW r \in Req, FindWallet(r) \/ InsertWallet(r)
  PROVE  Kept(r) /\ RequestOK(r)'
<1> DEFINE s == pc'[r]
<1>a. /\ pc[r] \in {"findWallet", "insertWallet"} /\ InFlight(r) /\ UNCHANGED <<call, tx>>
      /\ \/ Goto(r, "insertWallet") \/ Goto(r, AfterWallet(r))
  BY DEF FindWallet, InsertWallet, InFlight, Stages
<1>b. Goto(r, s) /\ (s = "insertWallet" \/ s = AfterWallet(r))
  BY <1>a DEF Goto, IInv, TypeOK
<1>0. /\ InFlight(r) /\ s \in Stages \cup {"done", "failed"}
      /\ Goto(r, s) /\ UNCHANGED call /\ tx' = [tx EXCEPT ![r] = tx[r]] /\ tx[r] \in Tx
  BY <1>a, <1>b, SameTx DEF AfterWallet, Stages
<1>1. /\ pc'[r] = s /\ call' = call /\ call[r] \in CallSet /\ call[r] # None
      /\ pc' \in [Req -> Stages \cup {"idle", "done", "failed"}] /\ tx' \in [Req -> Tx]
      /\ \A q \in Req \ {r} : pc'[q] = pc[q] /\ tx'[q] = tx[q]
      /\ Existing[r] = None /\ tokens[r] = None /\ TypeOK /\ RequestOK(r) /\ tx'[r] = tx[r]
      /\ \A q \in Req, a \in Preset : Deleting(q, a) => Deleting(q, a)'
  BY <1>0, WorkStep
<1>2. /\ users' = users /\ roles' = roles /\ presets' = presets /\ tokens' = tokens
      /\ wallets \subseteq wallets'
  BY DEF FindWallet, InsertWallet, tables
<1>3. Op(r) \in New \cup {"updateCreditReference"}
  BY <1>a, <1>1 DEF RequestOK, StageOK
<1>4. WalletOf(r) \in Req
  BY <1>1, <1>3, CallFacts DEF WalletOf, Op
<1>5. wallets' \subseteq Req
  BY <1>1, <1>4 DEF FindWallet, InsertWallet, tables, TypeOK
<1>6. TypeOK'
  BY <1>1, <1>2, <1>5 DEF TypeOK
<1>7. Grows /\ OnlyMoves(r)
  BY <1>1, <1>2 DEF Grows, OnlyMoves, Same, NoPreset
<1>8. s = "insertWallet" \/ WalletOf(r) \in wallets'
  <2>1. CASE FindWallet(r)
    BY <1>1, <2>1 DEF FindWallet, Goto, TypeOK, tables
  <2>2. CASE InsertWallet(r)
    BY <2>2 DEF InsertWallet
  <2> QED BY <2>1, <2>2
<1>9. Op(r) \in New => WalletOf(r) = r
  BY DEF WalletOf, New
<1>10. /\ Op(r) \in New => s \in {"insertWallet", "issue", "seed"}
       /\ s = "issue" => Op(r) = "signUp"
       /\ s = "seed" => Op(r) = "createUser"
       /\ s \in {"insertWallet", "issue", "seed", "done"}
  BY <1>b, <1>3 DEF AfterWallet, New
<1> HIDE DEF s
<1>11. StageOK(r)' /\ EntityOK(r)' /\ SessionOK(r)' /\ PresetOK(r)'
  BY <1>1, <1>2, <1>3, <1>10
     DEF StageOK, EntityOK, SessionOK, PresetOK, InFlight, Stages, Op, New
<1>12. ProgressOK(r)'
  BY <1>a, <1>1, <1>2, <1>8, <1>9, <1>10 DEF RequestOK, ProgressOK, Op
<1>13. RecordOK(r)'
  BY <1>a, <1>1, <1>2, <1>10 DEF RequestOK, RecordOK, Op
<1>14. CreatorOK(r)'
  BY <1>1, <1>2, <1>10 DEF RequestOK, CreatorOK, Op
<1> QED BY <1>6, <1>7, <1>11, <1>12, <1>13, <1>14 DEF Kept, RequestOK

\* The default presets of an account that has none of them.
LEMMA SeedKeeps ==
  ASSUME IInv, NEW r \in Req, SeedDefaults(r)
  PROVE  Kept(r) /\ RequestOK(r)'
<1>0. /\ pc[r] = "seed" /\ InFlight(r) /\ "done" \in Stages \cup {"done", "failed"}
      /\ Goto(r, "done") /\ UNCHANGED call
      /\ tx' = [tx EXCEPT ![r] = tx[r]] /\ tx[r] \in Tx
  BY SameTx DEF SeedDefaults, InFlight, Stages
<1>1. /\ pc'[r] = "done" /\ call' = call /\ call[r] \in CallSet /\ call[r] # None
      /\ pc' \in [Req -> Stages \cup {"idle", "done", "failed"}] /\ tx' \in [Req -> Tx]
      /\ \A q \in Req \ {r} : pc'[q] = pc[q] /\ tx'[q] = tx[q]
      /\ Existing[r] = None /\ tokens[r] = None /\ TypeOK /\ RequestOK(r) /\ tx'[r] = tx[r]
      /\ \A q \in Req, a \in Preset : Deleting(q, a) => Deleting(q, a)'
  BY <1>0, WorkStep
<1>2. /\ users' = users /\ roles' = roles /\ wallets' = wallets /\ tokens' = tokens
      /\ presets' = presets \cup {[user |-> r, amount |-> a, by |-> r] : a \in DefaultPresets}
  BY DEF SeedDefaults
<1>3. Op(r) = "createUser"
  BY <1>0, <1>1 DEF RequestOK, StageOK
<1>4. presets' \subseteq PresetRow
  BY <1>1, <1>2, AccountsAssumption DEF TypeOK, PresetRow
<1>5. TypeOK'
  BY <1>1, <1>2, <1>4 DEF TypeOK
<1>6. Grows /\ OnlyMoves(r)
  BY <1>1, <1>2 DEF Grows, OnlyMoves, Same, NoPreset
<1>7. \A a \in DefaultPresets : ~NoPreset(r, a)'
  <2>1. SUFFICES ASSUME NEW a \in DefaultPresets PROVE ~NoPreset(r, a)'
    OBVIOUS
  <2> DEFINE row == [user |-> r, amount |-> a, by |-> r]
  <2>2. row \in presets' /\ row.user = r /\ row.amount = a
    BY <1>2
  <2> HIDE DEF row
  <2> QED BY <2>2 DEF NoPreset
<1>8. StageOK(r)' /\ EntityOK(r)' /\ SessionOK(r)' /\ PresetOK(r)'
  BY <1>1, <1>2 DEF StageOK, EntityOK, SessionOK, PresetOK, InFlight, Stages, Op
<1>9. ProgressOK(r)'
  <2>1. ProgressOK(r)
    BY <1>1 DEF RequestOK
  <2> QED BY <1>0, <1>1, <1>2, <1>3, <1>7, <2>1 DEF ProgressOK, Op, New
<1>10. RecordOK(r)'
  BY <1>0, <1>1, <1>2 DEF RequestOK, RecordOK, Op
<1>11. CreatorOK(r)'
  BY <1>1, <1>2 DEF RequestOK, CreatorOK, Op
<1> QED BY <1>5, <1>6, <1>8, <1>9, <1>10, <1>11 DEF Kept, RequestOK

\* The two statements that change presets one by one; a row is missing
\* afterwards only if a deletion has ended.
LEMMA PresetsKeep ==
  ASSUME IInv, NEW r \in Req, AddPreset(r) \/ DropPreset(r)
  PROVE  Kept(r) /\ RequestOK(r)'
<1> DEFINE t == tx'[r]
<1>a. /\ pc[r] \in {"addPreset", "dropPreset"} /\ Goto(r, "done") /\ UNCHANGED call
      /\ UNCHANGED tx \/ Forget(r)
  BY DEF AddPreset, DropPreset
<1>0. /\ InFlight(r) /\ "done" \in Stages \cup {"done", "failed"}
      /\ Goto(r, "done") /\ UNCHANGED call /\ t \in Tx /\ tx' = [tx EXCEPT ![r] = t]
  BY <1>a, SameTx DEF InFlight, Stages, Forget, IInv, TypeOK
<1>1. /\ pc'[r] = "done" /\ call' = call /\ call[r] \in CallSet /\ call[r] # None
      /\ pc' \in [Req -> Stages \cup {"idle", "done", "failed"}] /\ tx' \in [Req -> Tx]
      /\ \A q \in Req \ {r} : pc'[q] = pc[q] /\ tx'[q] = tx[q]
      /\ Existing[r] = None /\ tokens[r] = None /\ TypeOK /\ RequestOK(r) /\ tx'[r] = t
      /\ \A q \in Req, a \in Preset : Deleting(q, a) => Deleting(q, a)'
  BY <1>0, WorkStep
<1>2. users' = users /\ roles' = roles /\ wallets' = wallets /\ tokens' = tokens
  BY DEF AddPreset, DropPreset
<1>3. Op(r) \in {"addAmount", "deleteAmount"}
  BY <1>a, <1>0, <1>1 DEF RequestOK, StageOK
<1>4. call[r].user \in Req /\ call[r].amount \in Preset
  BY <1>1, <1>3, CallFacts DEF Op
<1>5. presets' \subseteq PresetRow
  BY <1>1, <1>4 DEF AddPreset, DropPreset, TypeOK, PresetRow
<1>6. TypeOK'
  BY <1>1, <1>2, <1>5 DEF TypeOK
<1>7. ASSUME NEW u \in Req, NEW a \in Preset, ~NoPreset(u, a) \/ Deleting(u, a)
      PROVE  (~NoPreset(u, a) \/ Deleting(u, a))'
  <2>1. CASE Deleting(u, a)
    BY <1>1, <2>1
  <2>2. CASE AddPreset(r) /\ ~NoPreset(u, a)
    BY <2>2 DEF AddPreset, NoPreset
  <2>3. CASE DropPreset(r) /\ ~NoPreset(u, a)
    <3>1. PICK p \in presets : p.user = u /\ p.amount = a
      BY <2>3 DEF NoPreset
    <3>2. CASE p \in presets'
      BY <3>1, <3>2 DEF NoPreset
    <3>3. CASE p \notin presets'
      <4>1. p = tx[r].preset /\ pc[r] = "dropPreset"
        BY <2>3, <3>3 DEF DropPreset
      <4>2. call[r].user = u /\ call[r].amount = a /\ Op(r) = "deleteAmount"
        BY <1>1, <3>1, <4>1 DEF RequestOK, PresetOK, StageOK, InFlight, Stages
      <4>3. Deleting(u, a)'
        BY <1>1, <4>2 DEF Deleting, Op
      <4> QED BY <4>3
    <3> QED BY <3>2, <3>3
  <2> QED BY <1>7, <2>1, <2>2, <2>3
<1>8. Grows /\ OnlyMoves(r)
  BY <1>1, <1>2, <1>7 DEF Grows, OnlyMoves, Same
<1>9. StageOK(r)' /\ EntityOK(r)' /\ SessionOK(r)' /\ PresetOK(r)' /\ ProgressOK(r)'
  BY <1>1, <1>2, <1>3
     DEF StageOK, EntityOK, SessionOK, PresetOK, ProgressOK, InFlight, Stages, Op, New
<1>10. RecordOK(r)'
  BY <1>a, <1>1, <1>2 DEF RequestOK, RecordOK, Op
<1>11. CreatorOK(r)'
  BY <1>1, <1>2 DEF RequestOK, CreatorOK, Op
<1> QED BY <1>6, <1>8, <1>9, <1>10, <1>11 DEF Kept, RequestOK

\* save() reads the row of the account the request has found.
LEMMA LoadKeeps ==
  ASSUME IInv, NEW r \in Req, LoadIdentity(r)
  PROVE  Kept(r) /\ RequestOK(r)'
<1> DEFINE u == tx[r].user
           t == [tx[r] EXCEPT !.loaded = users[u]]
<1>a. /\ pc[r] = "load" /\ u \in Req /\ users[u] # None /\ users[u] \in Account
      /\ CopyOf(tx[r].entity, u) /\ Agree(users[u])
  BY DEF LoadIdentity, IInv, TypeOK, RequestOK, EntityOK, FlagsAgree, Agree
<1>b. t \in Tx /\ t.user = u /\ t.entity = tx[r].entity /\ t.loaded = users[u]
  BY <1>a DEF IInv, TypeOK, Tx
<1>0. /\ InFlight(r) /\ "save" \in Stages \cup {"done", "failed"}
      /\ Goto(r, "save") /\ UNCHANGED call /\ t \in Tx /\ tx' = [tx EXCEPT ![r] = t]
  BY <1>a, <1>b DEF LoadIdentity, InFlight, Stages, IInv, TypeOK, Tx
<1> HIDE DEF t
<1>1. /\ pc'[r] = "save" /\ call' = call /\ call[r] \in CallSet /\ call[r] # None
      /\ pc' \in [Req -> Stages \cup {"idle", "done", "failed"}] /\ tx' \in [Req -> Tx]
      /\ \A q \in Req \ {r} : pc'[q] = pc[q] /\ tx'[q] = tx[q]
      /\ Existing[r] = None /\ tokens[r] = None /\ TypeOK /\ RequestOK(r) /\ tx'[r] = t
      /\ \A q \in Req, a \in Preset : Deleting(q, a) => Deleting(q, a)'
  BY <1>0, WorkStep
<1>2. /\ users' = users /\ roles' = roles /\ wallets' = wallets /\ tokens' = tokens
      /\ presets' = presets
  BY DEF LoadIdentity, tables
<1>3. Op(r) \in Edits
  BY <1>a, <1>0, <1>1 DEF RequestOK, StageOK
<1>4. TypeOK'
  BY <1>1, <1>2 DEF TypeOK
<1>5. Grows /\ OnlyMoves(r)
  BY <1>1, <1>2 DEF Grows, OnlyMoves, Same, NoPreset
<1>6. EntityOK(r)'
  BY <1>a, <1>b, <1>1, <1>2 DEF EntityOK, CopyOf, Same
<1>7. StageOK(r)' /\ SessionOK(r)' /\ PresetOK(r)' /\ ProgressOK(r)'
  BY <1>1, <1>2, <1>3
     DEF StageOK, SessionOK, PresetOK, ProgressOK, InFlight, Stages, Op, New, Edits
<1>8. RecordOK(r)'
  BY <1>a, <1>1, <1>2 DEF RequestOK, RecordOK, Op
<1>9. CreatorOK(r)'
  BY <1>1, <1>2 DEF RequestOK, CreatorOK, Op
<1> QED BY <1>4, <1>5, <1>6, <1>7, <1>8, <1>9 DEF Kept, RequestOK

\* What save() writes leaves an account what it is, and its flags agree: if
\* the entity differs from the row loaded in one flag, it does in both.
LEMMA WrittenFacts ==
  ASSUME NEW now \in Account, Agree(now), NEW e \in Account, Agree(e), NEW l \in Account, Agree(l),
         Same(e, l)
  PROVE  /\ Written(now, e, l) \in Account
         /\ Same(Written(now, e, l), now)
         /\ Agree(Written(now, e, l))
<1> DEFINE w == Written(now, e, l)
<1>1. DOMAIN now = {"email", "by", "name", "pass", "isLocked", "isActive", "loggedIn"}
  BY DEF Account
<1>2. w = [c \in {"email", "by", "name", "pass", "isLocked", "isActive", "loggedIn"} |->
             IF e[c] = l[c] THEN now[c] ELSE e[c]]
  BY <1>1 DEF Written
<1>3. /\ w.email = now.email /\ w.by = now.by /\ w.name = now.name
      /\ w.pass = IF e.pass = l.pass THEN now.pass ELSE e.pass
      /\ w.isLocked = IF e.isLocked = l.isLocked THEN now.isLocked ELSE e.isLocked
      /\ w.isActive = IF e.isActive = l.isActive THEN now.isActive ELSE e.isActive
      /\ w.loggedIn = IF e.loggedIn = l.loggedIn THEN now.loggedIn ELSE e.loggedIn
  BY <1>2 DEF Same
<1>4. w = [email |-> w.email, by |-> w.by, name |-> w.name, pass |-> w.pass,
           isLocked |-> w.isLocked, isActive |-> w.isActive, loggedIn |-> w.loggedIn]
  BY <1>2
<1>5. /\ w.email \in Email /\ w.by \in Email \cup {"system"} /\ w.name \in Name
      /\ w.pass \in Password /\ w.isLocked \in BOOLEAN /\ w.isActive \in BOOLEAN
      /\ w.loggedIn \in BOOLEAN
  BY <1>3 DEF Account
<1>6. Agree(w)
  BY <1>3 DEF Agree, Account
<1> HIDE DEF w
<1>7. w \in Account
  BY <1>4, <1>5 DEF Account
<1>8. Same(w, now)
  BY <1>3 DEF Same
<1> QED BY <1>6, <1>7, <1>8 DEF w

\* The row save() writes is one that is there, and not the request's own.
LEMMA SaveFacts ==
  ASSUME IInv, NEW r \in Req, SaveIdentity(r)
  PROVE  LET u == tx[r].user IN
           /\ u \in Req /\ u # r /\ users[u] # None /\ users'[u] \in Account
           /\ Same(users'[u], users[u]) /\ Agree(users'[u])
           /\ \A v \in Req \ {u} : users'[v] = users[v]
<1> DEFINE u == tx[r].user
<1>1. /\ pc[r] = "save" /\ u \in Req /\ users[u] # None /\ users[u] \in Account
      /\ CopyOf(tx[r].entity, u) /\ CopyOf(tx[r].loaded, u) /\ Agree(users[u])
  BY DEF SaveIdentity, IInv, TypeOK, RequestOK, EntityOK, FlagsAgree, Agree
<1>2. users[r] = None
  BY <1>1 DEF IInv, RequestOK, RecordOK, StageOK, InFlight, Stages, Op, Edits, New
<1>3. /\ users'[u] = Written(users[u], tx[r].entity, tx[r].loaded)
      /\ \A v \in Req \ {u} : users'[v] = users[v]
  BY <1>1 DEF SaveIdentity, IInv, TypeOK
<1>4. Same(tx[r].entity, tx[r].loaded)
  BY <1>1 DEF CopyOf, Same
<1> QED BY <1>1, <1>2, <1>3, <1>4, WrittenFacts DEF CopyOf

\* save() writes it.
LEMMA SaveKeeps ==
  ASSUME IInv, NEW r \in Req, SaveIdentity(r)
  PROVE  Kept(r) /\ RequestOK(r)'
<1> DEFINE u == tx[r].user
           s == pc'[r]
           t == tx'[r]
<1>a. /\ pc[r] = "save" /\ UNCHANGED call
      /\ \/ Op(r) = "signIn" /\ Goto(r, "issue") /\ UNCHANGED tx
         \/ Op(r) # "signIn" /\ Goto(r, "done") /\ Forget(r)
  BY DEF SaveIdentity
<1>b. /\ Goto(r, s) /\ s \in {"issue", "done"} /\ (s = "issue" => Op(r) = "signIn" /\ t = tx[r])
      /\ t \in Tx /\ tx' = [tx EXCEPT ![r] = t]
  BY <1>a, SameTx DEF Goto, Forget, IInv, TypeOK
<1>0. /\ InFlight(r) /\ s \in Stages \cup {"done", "failed"}
      /\ Goto(r, s) /\ UNCHANGED call /\ t \in Tx /\ tx' = [tx EXCEPT ![r] = t]
  BY <1>a, <1>b DEF InFlight, Stages
<1>1. /\ pc'[r] = s /\ call' = call /\ call[r] \in CallSet /\ call[r] # None
      /\ pc' \in [Req -> Stages \cup {"idle", "done", "failed"}] /\ tx' \in [Req -> Tx]
      /\ \A q \in Req \ {r} : pc'[q] = pc[q] /\ tx'[q] = tx[q]
      /\ Existing[r] = None /\ tokens[r] = None /\ TypeOK /\ RequestOK(r) /\ tx'[r] = t
      /\ \A q \in Req, a \in Preset : Deleting(q, a) => Deleting(q, a)'
  BY <1>0, WorkStep
<1> HIDE DEF s, t
<1>2. /\ roles' = roles /\ wallets' = wallets /\ tokens' = tokens /\ presets' = presets
  BY DEF SaveIdentity
<1>3. /\ u \in Req /\ u # r /\ users[u] # None /\ users'[u] \in Account
      /\ Same(users'[u], users[u])
      /\ \A v \in Req \ {u} : users'[v] = users[v]
  BY SaveFacts
<1>4. users' \in [Req -> Account \cup {None}] /\ users'[u] # None
  <2>1. users'[u] # None
    BY <1>3, AccountsAssumption
  <2>2. \A v \in Req : users'[v] \in Account \cup {None}
    BY <1>1, <1>3 DEF TypeOK
  <2>3. users' = [users EXCEPT ![u] = Written(@, tx[r].entity, tx[r].loaded)]
    BY DEF SaveIdentity
  <2> QED BY <1>1, <1>3, <2>1, <2>2, <2>3 DEF TypeOK
<1>5. TypeOK'
  BY <1>1, <1>2, <1>4 DEF TypeOK
<1>6. Grows /\ OnlyMoves(r)
  BY <1>1, <1>2, <1>3, <1>4 DEF Grows, OnlyMoves, Same, NoPreset
<1>7. Op(r) \in Edits
  BY <1>a, <1>0, <1>1 DEF RequestOK, StageOK
<1>8. users[r] = None /\ users'[r] = None
  BY <1>1, <1>3, <1>7 DEF RequestOK, RecordOK, Edits, New
<1>9. StageOK(r)' /\ EntityOK(r)' /\ PresetOK(r)' /\ ProgressOK(r)' /\ CreatorOK(r)'
  BY <1>b, <1>1, <1>2, <1>7, <1>8
     DEF StageOK, EntityOK, PresetOK, ProgressOK, CreatorOK, InFlight, Stages, Op, New, Edits
<1>10. SessionOK(r)'
  BY <1>b, <1>1, <1>2, <1>3, <1>7 DEF SessionOK, Op, Edits
<1>11. RecordOK(r)'
  BY <1>a, <1>1, <1>2, <1>8 DEF RequestOK, RecordOK, Op
<1> QED BY <1>5, <1>6, <1>9, <1>10, <1>11 DEF Kept, RequestOK

\* The owner of a token is let in, or not.
LEMMA OwnerKeeps ==
  ASSUME IInv, NEW r \in Req, CheckOwner(r)
  PROVE  Kept(r) /\ RequestOK(r)'
<1> DEFINE s == pc'[r]
<1>a. pc[r] = "owner" /\ Goto(r, s) /\ s \in {"revoke", "failed"}
  BY DEF CheckOwner, AfterOwner, Goto, IInv, TypeOK
<1>0. /\ InFlight(r) /\ s \in Stages \cup {"done", "failed"} /\ UNCHANGED call
      /\ Goto(r, s) /\ tx' = [tx EXCEPT ![r] = tx[r]] /\ tx[r] \in Tx
  BY <1>a, SameTx DEF CheckOwner, InFlight, Stages
<1>1. /\ pc'[r] = s /\ call' = call /\ call[r] \in CallSet /\ call[r] # None
      /\ pc' \in [Req -> Stages \cup {"idle", "done", "failed"}] /\ tx' \in [Req -> Tx]
      /\ \A q \in Req \ {r} : pc'[q] = pc[q] /\ tx'[q] = tx[q]
      /\ Existing[r] = None /\ tokens[r] = None /\ TypeOK /\ RequestOK(r) /\ tx'[r] = tx[r]
      /\ \A q \in Req, a \in Preset : Deleting(q, a) => Deleting(q, a)'
  BY <1>0, WorkStep
<1>2. /\ users' = users /\ roles' = roles /\ wallets' = wallets /\ tokens' = tokens
      /\ presets' = presets
  BY DEF CheckOwner, tables
<1> HIDE DEF s
<1>3. Op(r) = "refreshToken"
  BY <1>a, <1>0, <1>1 DEF RequestOK, StageOK
<1>4. TypeOK'
  BY <1>1, <1>2 DEF TypeOK
<1>5. Grows /\ OnlyMoves(r)
  BY <1>1, <1>2 DEF Grows, OnlyMoves, Same, NoPreset
<1>6. StageOK(r)' /\ EntityOK(r)' /\ PresetOK(r)' /\ ProgressOK(r)'
  BY <1>a, <1>1, <1>3
     DEF StageOK, EntityOK, PresetOK, ProgressOK, InFlight, Stages, Op, New
<1>7. SessionOK(r)'
  BY <1>a, <1>1, <1>2, <1>3 DEF RequestOK, SessionOK, Op
<1>8. RecordOK(r)'
  BY <1>a, <1>1, <1>2 DEF RequestOK, RecordOK, Op
<1>9. CreatorOK(r)'
  BY <1>a, <1>1, <1>2 DEF RequestOK, CreatorOK, Op
<1> QED BY <1>4, <1>5, <1>6, <1>7, <1>8, <1>9 DEF Kept, RequestOK

\* The token presented is revoked, and stays its owner's.
LEMMA RevokeKeeps ==
  ASSUME IInv, NEW r \in Req, RevokeToken(r)
  PROVE  Kept(r) /\ RequestOK(r)'
<1> DEFINE s == pc'[r]
           k == call[r].token
<1>a. pc[r] = "revoke" /\ Goto(r, s) /\ s = IF Op(r) = "logout" THEN "done" ELSE "issue"
  BY DEF RevokeToken, Goto, IInv, TypeOK
<1>0. /\ InFlight(r) /\ s \in Stages \cup {"done", "failed"} /\ UNCHANGED call
      /\ Goto(r, s) /\ tx' = [tx EXCEPT ![r] = tx[r]] /\ tx[r] \in Tx
  BY <1>a, SameTx DEF RevokeToken, InFlight, Stages
<1>1. /\ pc'[r] = s /\ call' = call /\ call[r] \in CallSet /\ call[r] # None
      /\ pc' \in [Req -> Stages \cup {"idle", "done", "failed"}] /\ tx' \in [Req -> Tx]
      /\ \A q \in Req \ {r} : pc'[q] = pc[q] /\ tx'[q] = tx[q]
      /\ Existing[r] = None /\ tokens[r] = None /\ TypeOK /\ RequestOK(r) /\ tx'[r] = tx[r]
      /\ \A q \in Req, a \in Preset : Deleting(q, a) => Deleting(q, a)'
  BY <1>0, WorkStep
<1>2. /\ users' = users /\ roles' = roles /\ wallets' = wallets /\ presets' = presets
      /\ tokens' = [tokens EXCEPT ![k].revoked = TRUE]
  BY DEF RevokeToken
<1> HIDE DEF s
<1>3. Op(r) \in {"refreshToken", "logout"}
  BY <1>a, <1>0, <1>1 DEF RequestOK, StageOK
<1>4. k \in Req /\ tokens[k] # None /\ tokens[k] \in Token /\ k # r
  BY <1>a, <1>1, <1>3, CallFacts DEF RequestOK, SessionOK, Op, TypeOK
<1>5. /\ tokens'[k] = [tokens[k] EXCEPT !.revoked = TRUE]
      /\ \A q \in Req \ {k} : tokens'[q] = tokens[q]
      /\ DOMAIN tokens' = Req
  BY <1>1, <1>2, <1>4 DEF TypeOK
<1>6. /\ tokens'[k] \in Token /\ tokens'[k] # None /\ tokens'[k].revoked
      /\ tokens'[k].user = tokens[k].user /\ tokens'[k].roles = tokens[k].roles
  <2>1. tokens'[k] \in Token /\ tokens'[k].revoked
    BY <1>4, <1>5 DEF Token
  <2>2. tokens'[k].user = tokens[k].user /\ tokens'[k].roles = tokens[k].roles
    BY <1>4, <1>5 DEF Token
  <2> QED BY <2>1, <2>2, AccountsAssumption
<1>7. tokens' \in [Req -> Token \cup {None}]
  BY <1>1, <1>2, <1>4, <1>6 DEF TypeOK, Token
<1>8. TypeOK'
  BY <1>1, <1>2, <1>7 DEF TypeOK
<1>9. Grows /\ OnlyMoves(r)
  BY <1>1, <1>2, <1>4, <1>5, <1>6 DEF Grows, OnlyMoves, Same, NoPreset
<1>10. StageOK(r)' /\ EntityOK(r)' /\ PresetOK(r)' /\ ProgressOK(r)'
  BY <1>a, <1>1, <1>3
     DEF StageOK, EntityOK, PresetOK, ProgressOK, InFlight, Stages, Op, New
<1>11. tokens'[r] = None
  BY <1>1, <1>4, <1>5
<1>12. SessionOK(r)'
  BY <1>a, <1>1, <1>3, <1>6, <1>11 DEF RequestOK, SessionOK, Op
<1>13. RecordOK(r)'
  BY <1>a, <1>1, <1>2, <1>11 DEF RequestOK, RecordOK, Op
<1>14. CreatorOK(r)'
  BY <1>a, <1>1, <1>2 DEF RequestOK, CreatorOK, Op
<1> QED BY <1>8, <1>9, <1>10, <1>12, <1>13, <1>14 DEF Kept, RequestOK

\* The new token bears the roles its user has.
LEMMA IssueKeeps ==
  ASSUME IInv, NEW r \in Req, IssueToken(r)
  PROVE  Kept(r) /\ RequestOK(r)'
<1> DEFINE u == IF Op(r) = "signUp" THEN r ELSE tx[r].user
           k == [user |-> u, roles |-> roles[u], revoked |-> FALSE, expired |-> FALSE]
<1>0. /\ pc[r] = "issue" /\ InFlight(r) /\ "done" \in Stages \cup {"done", "failed"}
      /\ Goto(r, "done") /\ UNCHANGED call
      /\ NoTx \in Tx /\ tx' = [tx EXCEPT ![r] = NoTx]
  BY SameTx DEF IssueToken, Forget, InFlight, Stages
<1>1. /\ pc'[r] = "done" /\ call' = call /\ call[r] \in CallSet /\ call[r] # None
      /\ pc' \in [Req -> Stages \cup {"idle", "done", "failed"}] /\ tx' \in [Req -> Tx]
      /\ \A q \in Req \ {r} : pc'[q] = pc[q] /\ tx'[q] = tx[q]
      /\ Existing[r] = None /\ tokens[r] = None /\ TypeOK /\ RequestOK(r) /\ tx'[r] = NoTx
      /\ \A q \in Req, a \in Preset : Deleting(q, a) => Deleting(q, a)'
  BY <1>0, WorkStep
<1>2. /\ users' = users /\ roles' = roles /\ wallets' = wallets /\ presets' = presets
      /\ tokens' = [tokens EXCEPT ![r] = k]
  BY DEF IssueToken, RoleNames
<1>3. Op(r) \in {"signUp", "signIn", "refreshToken"}
  BY <1>0, <1>1 DEF RequestOK, StageOK
<1>4. u \in Req
  BY <1>0, <1>1 DEF RequestOK, SessionOK
<1>5. /\ k \in Token /\ k # None /\ k.user = u /\ k.roles = roles[u]
  <2>1. k \in Token
    BY <1>1, <1>4 DEF Token, TypeOK
  <2> QED BY <2>1, AccountsAssumption
<1>6. tokens'[r] = k /\ \A q \in Req \ {r} : tokens'[q] = tokens[q]
  BY <1>1, <1>2 DEF TypeOK
<1> HIDE DEF k
<1>7. TypeOK'
  BY <1>1, <1>2, <1>5 DEF TypeOK
<1>8. Grows /\ OnlyMoves(r)
  BY <1>1, <1>2, <1>6 DEF Grows, OnlyMoves, Same, NoPreset
<1>9. StageOK(r)' /\ EntityOK(r)' /\ PresetOK(r)'
  BY <1>1 DEF StageOK, EntityOK, PresetOK, InFlight, Stages
<1>10. SessionOK(r)'
  <2>1. Op(r) = "refreshToken" =>
          /\ call[r].token \in Req /\ call[r].token # r /\ tokens[call[r].token] # None
          /\ tokens[call[r].token].revoked /\ tokens[call[r].token].user = u
    BY <1>0, <1>1, CallFacts DEF RequestOK, SessionOK, Op
  <2> QED BY <1>1, <1>5, <1>6, <2>1 DEF SessionOK, Op
<1>11. ProgressOK(r)'
  <2>1. Op(r) = "signUp" => /\ users[r] # None /\ roles[r] = {call[r].role} /\ r \in wallets
                           /\ call[r].role = "user"
    BY <1>0, <1>1 DEF RequestOK, ProgressOK, CreatorOK, New
  <2> QED BY <1>1, <1>2, <1>3, <1>5, <1>6, <2>1 DEF ProgressOK, Op, New
<1>12. RecordOK(r)'
  BY <1>0, <1>1, <1>2 DEF RequestOK, RecordOK, Op
<1>13. CreatorOK(r)'
  BY <1>0, <1>1, <1>2 DEF RequestOK, CreatorOK, Op
<1> QED BY <1>7, <1>8, <1>9, <1>10, <1>11, <1>12, <1>13 DEF Kept, RequestOK

\* A request that fails leaves what it has done.
LEMMA FailKeeps ==
  ASSUME IInv, NEW r \in Req, Fail(r)
  PROVE  Kept(r) /\ RequestOK(r)'
<1>0. /\ InFlight(r) /\ "failed" \in Stages \cup {"done", "failed"}
      /\ Goto(r, "failed") /\ UNCHANGED call
      /\ NoTx \in Tx /\ tx' = [tx EXCEPT ![r] = NoTx]
  BY SameTx DEF Fail, Forget
<1>1. /\ pc'[r] = "failed" /\ call' = call /\ call[r] \in CallSet /\ call[r] # None
      /\ pc' \in [Req -> Stages \cup {"idle", "done", "failed"}] /\ tx' \in [Req -> Tx]
      /\ \A q \in Req \ {r} : pc'[q] = pc[q] /\ tx'[q] = tx[q]
      /\ Existing[r] = None /\ tokens[r] = None /\ TypeOK /\ RequestOK(r) /\ tx'[r] = NoTx
      /\ \A q \in Req, a \in Preset : Deleting(q, a) => Deleting(q, a)'
  BY <1>0, WorkStep
<1>2. /\ users' = users /\ roles' = roles /\ wallets' = wallets /\ presets' = presets
      /\ tokens' = tokens
  BY DEF Fail, tables
<1>3. TypeOK'
  BY <1>1, <1>2 DEF TypeOK
<1>4. Grows /\ OnlyMoves(r)
  BY <1>1, <1>2 DEF Grows, OnlyMoves, Same, NoPreset
<1>5. StageOK(r)' /\ EntityOK(r)' /\ PresetOK(r)' /\ ProgressOK(r)' /\ SessionOK(r)'
  BY <1>1, <1>2 DEF StageOK, EntityOK, PresetOK, ProgressOK, SessionOK, InFlight, Stages
<1>6. RecordOK(r)'
  BY <1>1, <1>2 DEF RequestOK, RecordOK, Op
<1>7. CreatorOK(r)'
  BY <1>1, <1>2 DEF RequestOK, CreatorOK, Op
<1> QED BY <1>3, <1>4, <1>5, <1>6, <1>7 DEF Kept, RequestOK

\* A token that expires is the same token.
LEMMA ExpireKeeps ==
  ASSUME IInv, NEW r \in Req, Expire(r)
  PROVE  Kept(r) /\ RequestOK(r)'
<1>1. TypeOK /\ RequestOK(r)
  BY DEF IInv
<1>2. /\ users' = users /\ roles' = roles /\ wallets' = wallets /\ presets' = presets
      /\ pc' = pc /\ call' = call /\ tx' = tx
      /\ tokens[r] # None /\ tokens' = [tokens EXCEPT ![r].expired = TRUE]
  BY DEF Expire
<1>3. tokens[r] \in Token
  BY <1>1, <1>2 DEF TypeOK
<1>4. /\ tokens'[r] = [tokens[r] EXCEPT !.expired = TRUE]
      /\ \A q \in Req \ {r} : tokens'[q] = tokens[q]
  BY <1>1, <1>2 DEF TypeOK
<1>5. /\ tokens'[r] \in Token /\ tokens'[r].revoked = tokens[r].revoked
      /\ tokens'[r].user = tokens[r].user /\ tokens'[r].roles = tokens[r].roles
  BY <1>3, <1>4 DEF Token
<1>6. tokens'[r] # None
  BY <1>5, AccountsAssumption
<1>7. tokens' \in [Req -> Token \cup {None}]
  BY <1>1, <1>2, <1>3 DEF TypeOK, Token
<1>8. TypeOK'
  BY <1>1, <1>2, <1>7 DEF TypeOK
<1>9. Grows /\ OnlyMoves(r)
  BY <1>2, <1>4, <1>5, <1>6 DEF Grows, OnlyMoves, Same, NoPreset, Deleting, Op
<1>10. StageOK(r)' /\ EntityOK(r)' /\ PresetOK(r)'
  BY <1>1, <1>2 DEF RequestOK, StageOK, EntityOK, PresetOK, InFlight, Op, CopyOf, Same
<1>11. SessionOK(r)'
  <2>1. pc[r] = "done" /\ call[r] \in CallSet
    BY <1>1, <1>2 DEF RequestOK, RecordOK
  <2>2. Op(r) = "refreshToken" =>
          /\ call[r].token \in Req /\ tokens[call[r].token] # None
          /\ tokens[call[r].token].revoked /\ tokens[call[r].token].user = tokens[r].user
    BY <1>1, <1>2, <2>1, CallFacts DEF RequestOK, SessionOK, Op
  <2> QED BY <1>2, <1>4, <1>5, <1>6, <2>1, <2>2 DEF SessionOK, Op
<1>12. RecordOK(r)'
  BY <1>1, <1>2 DEF RequestOK, RecordOK, Op
<1>13. CreatorOK(r)'
  BY <1>1, <1>2 DEF RequestOK, CreatorOK, Op
<1>14. ProgressOK(r)'
  BY <1>1, <1>2, <1>5, <1>6 DEF RequestOK, ProgressOK, Op, NoPreset, Deleting
<1> QED BY <1>8, <1>9, <1>10, <1>11, <1>12, <1>13, <1>14 DEF Kept, RequestOK

-----------------------------------------------------------------------------
(* The invariant *)

\* It holds with only the seeded superadmin on record.
LEMMA InitInv == Init => IInv
<1> SUFFICES ASSUME Init PROVE IInv
  OBVIOUS
<1>1. TypeOK
  BY AccountsAssumption DEF Init, TypeOK, RoleName, Stages, Tx, NoTx
<1>2. RowsUnique /\ FlagsAgree
  BY AccountsAssumption DEF Init, RowsUnique, FlagsAgree
<1>3. ASSUME NEW r \in Req PROVE RequestOK(r)
  <2>1. /\ pc[r] = IF Existing[r] = None THEN "idle" ELSE "done"
        /\ call[r] = None /\ tokens[r] = None /\ users[r] = Existing[r]
        /\ Existing[r] = None => roles[r] = {}
        /\ Existing[r] # None => users[r].by = "system"
    BY <1>3, AccountsAssumption DEF Init
  <2> QED BY <2>1 DEF RequestOK, StageOK, RecordOK, CreatorOK, ProgressOK, EntityOK,
                      SessionOK, PresetOK, InFlight, Stages
<1> QED BY <1>1, <1>2, <1>3 DEF IInv

\* The requests that write accounts, and those that write presets.
LEMMA Writers ==
  ASSUME NEW r \in Req, Step(r) \/ Fail(r) \/ Expire(r)
  PROVE  /\ users' = users \/ InsertUser(r) \/ SaveIdentity(r)
         /\ presets' = presets \/ SeedDefaults(r) \/ AddPreset(r) \/ DropPreset(r)
<1>1. CASE \/ SignUp(r) \/ CreateUser(r) \/ UpdateCreditReference(r) \/ SignIn(r)
           \/ ChangePassword(r) \/ ResetPassword(r) \/ SetLockStatus(r) \/ RefreshToken(r)
           \/ Logout(r) \/ AddAmount(r) \/ DeleteAmount(r)
  BY <1>1 DEF SignUp, CreateUser, UpdateCreditReference, SignIn, ChangePassword, ResetPassword,
       SetLockStatus, RefreshToken, Logout, AddAmount, DeleteAmount, tables
<1>2. CASE \/ AssignRole(r) \/ FindWallet(r) \/ InsertWallet(r) \/ LoadIdentity(r) \/ CheckOwner(r)
           \/ RevokeToken(r) \/ IssueToken(r) \/ Fail(r) \/ Expire(r)
  BY <1>2 DEF AssignRole, FindWallet, InsertWallet, LoadIdentity, CheckOwner, RevokeToken,
       IssueToken, Fail, Expire, tables
<1>3. CASE InsertUser(r) \/ SaveIdentity(r)
  BY <1>3 DEF InsertUser, SaveIdentity
<1>4. CASE SeedDefaults(r) \/ AddPreset(r) \/ DropPreset(r)
  BY <1>4 DEF SeedDefaults, AddPreset, DropPreset
<1> QED BY <1>1, <1>2, <1>3, <1>4 DEF Step

\* No two accounts share an email or a name, and flags agree.
LEMMA UsersNext ==
  ASSUME IInv, NEW r \in Req, Step(r) \/ Fail(r) \/ Expire(r)
  PROVE  /\ FlagsAgree'
         /\ \A p, q \in Req : p # q /\ users'[p] # None /\ users'[q] # None =>
              users'[p].email # users'[q].email /\ users'[p].name # users'[q].name
<1>1. CASE users' = users
  BY <1>1 DEF IInv, FlagsAgree, RowsUnique
<1>2. CASE InsertUser(r)
  <2>1. /\ users'[r] = NewAccount(call[r]) /\ ~Taken(call[r].email, call[r].name)
        /\ \A q \in Req \ {r} : users'[q] = users[q]
    BY <1>2 DEF InsertUser, Insertable, IInv, TypeOK
  <2>2. /\ users'[r].email = call[r].email /\ users'[r].name = call[r].name
        /\ users'[r].isActive = TRUE /\ users'[r].isLocked = FALSE
    BY <2>1 DEF NewAccount
  <2>3. ASSUME NEW u \in Req, users'[u] # None PROVE users'[u].isActive = ~users'[u].isLocked
    <3>1. CASE u = r
      <4>1. TRUE = ~FALSE
        OBVIOUS
      <4> QED BY <2>2, <3>1, <4>1
    <3>2. CASE u # r
      BY <2>1, <2>3, <3>2 DEF IInv, FlagsAgree
    <3> QED BY <3>1, <3>2
  <2>4. \A q \in Req \ {r} : users[q] # None =>
          users[q].email # call[r].email /\ users[q].name # call[r].name
    BY <2>1 DEF Taken
  <2>5. FlagsAgree'
    BY <2>3 DEF FlagsAgree
  <2> QED BY <2>1, <2>2, <2>4, <2>5 DEF IInv, RowsUnique
<1>3. CASE SaveIdentity(r)
  <2> DEFINE u == tx[r].user
  <2>1. /\ u \in Req /\ users[u] # None /\ Same(users'[u], users[u]) /\ Agree(users'[u])
        /\ \A v \in Req \ {u} : users'[v] = users[v]
    BY <1>3, SaveFacts
  <2> HIDE DEF u
  <2>2. FlagsAgree'
    BY <2>1 DEF IInv, FlagsAgree, Agree
  <2> QED BY <2>1, <2>2 DEF IInv, RowsUnique, Same
<1> QED BY <1>1, <1>2, <1>3, Writers

\* No account has a preset twice.
LEMMA PresetsNext ==
  ASSUME IInv, NEW r \in Req, Step(r) \/ Fail(r) \/ Expire(r)
  PROVE  \A p, q \in presets' : p.user = q.user /\ p.amount = q.amount => p = q
<1>0. \A p, q \in presets : p.user = q.user /\ p.amount = q.amount => p = q
  BY DEF IInv, RowsUnique
<1>1. CASE presets' = presets \/ DropPreset(r)
  BY <1>0, <1>1 DEF DropPreset
<1>2. CASE AddPreset(r)
  <2> DEFINE row == [user |-> call[r].user, amount |-> call[r].amount, by |-> r]
  <2>1. /\ presets' = presets \cup {row} /\ NoPreset(row.user, row.amount)
    BY <1>2 DEF AddPreset
  <2> HIDE DEF row
  <2> QED BY <1>0, <2>1 DEF NoPreset
<1>3. CASE SeedDefaults(r)
  <2> DEFINE Row(a) == [user |-> r, amount |-> a, by |-> r]
  <2>1. presets' = presets \cup {Row(a) : a \in DefaultPresets}
    BY <1>3 DEF SeedDefaults
  <2>2. \A a \in DefaultPresets : Row(a).user = r /\ Row(a).amount = a /\ NoPreset(r, a)
    BY <1>3 DEF SeedDefaults
  <2> HIDE DEF Row
  <2>3. \A p \in presets, a \in DefaultPresets :
          ~(p.user = Row(a).user /\ p.amount = Row(a).amount)
    BY <2>2 DEF NoPreset
  <2>4. \A a, b \in DefaultPresets : Row(a).amount = Row(b).amount => Row(a) = Row(b)
    BY <2>2
  <2> QED BY <1>0, <2>1, <2>3, <2>4
<1> QED BY <1>1, <1>2, <1>3, Writers

\* A step of a request leaves it, and so every other, in order.
LEMMA StepKeeps ==
  ASSUME IInv, NEW r \in Req, Step(r) \/ Fail(r) \/ Expire(r)
  PROVE  Kept(r) /\ RequestOK(r)'
<1>1. CASE \/ SignUp(r) \/ CreateUser(r) \/ UpdateCreditReference(r) \/ Logout(r) \/ AddAmount(r)
  BY <1>1, CreationsBegin
<1>2. CASE SignIn(r) \/ ChangePassword(r) \/ ResetPassword(r) \/ SetLockStatus(r)
  BY <1>2, EditsBegin
<1>3. CASE RefreshToken(r) \/ DeleteAmount(r)
  BY <1>3, RefreshBegins, DeletionBegins
<1>4. CASE \/ InsertUser(r) \/ AssignRole(r) \/ FindWallet(r) \/ InsertWallet(r) \/ SeedDefaults(r)
  BY <1>4, InsertUserKeeps, AssignRoleKeeps, WalletKeeps, SeedKeeps
<1>5. CASE LoadIdentity(r) \/ SaveIdentity(r) \/ AddPreset(r) \/ DropPreset(r)
  BY <1>5, LoadKeeps, SaveKeeps, PresetsKeep
<1>6. CASE CheckOwner(r) \/ RevokeToken(r) \/ IssueToken(r) \/ Fail(r) \/ Expire(r)
  BY <1>6, OwnerKeeps, RevokeKeeps, IssueKeeps, FailKeeps, ExpireKeeps
<1> QED BY <1>1, <1>2, <1>3, <1>4, <1>5, <1>6 DEF Step

\* And it is kept by every step.
LEMMA NextInv == IInv /\ [Next]_vars => IInv'
<1>1. ASSUME IInv, NEW r \in Req, Step(r) \/ Fail(r) \/ Expire(r) PROVE IInv'
  <2>1. Kept(r) /\ RequestOK(r)'
    BY <1>1, StepKeeps
  <2>2. ASSUME NEW q \in Req PROVE RequestOK(q)'
    BY <1>1, <2>1, <2>2, OthersKeep
  <2>3. FlagsAgree' /\ RowsUnique'
    BY <1>1, UsersNext, PresetsNext DEF RowsUnique
  <2> QED BY <2>1, <2>2, <2>3 DEF IInv, Kept
<1>2. ASSUME IInv, UNCHANGED vars PROVE IInv'
  BY <1>2 DEF vars, tables, IInv, TypeOK, RowsUnique, FlagsAgree, RequestOK, StageOK, RecordOK,
       CreatorOK, ProgressOK, EntityOK, SessionOK, PresetOK, InFlight, Op, NoPreset, Deleting,
       CopyOf, Same
<1> QED BY <1>1, <1>2 DEF Next

\* In every reachable state each request has left behind just what its stage says.
THEOREM AccountsInvariance == Spec => []IInv
BY InitInv, NextInv, PTL DEF Spec

\* Accounts share no email and no name, and no account has a preset twice.
THEOREM NoTwins == Spec => []RowsUnique
<1>1. IInv => RowsUnique
  BY DEF IInv
<1> QED BY <1>1, AccountsInvariance, PTL

\* The two flags of an account agree, whatever stale entities are saved.
THEOREM FlagsTogether == Spec => []FlagsAgree
<1>1. IInv => FlagsAgree
  BY DEF IInv
<1> QED BY <1>1, AccountsInvariance, PTL

\* An account whose creation was answered has all that belongs to it.
THEOREM CreationsComplete == Spec => []AnsweredComplete
<1>1. IInv => AnsweredComplete
  BY DEF IInv, RequestOK, ProgressOK, AnsweredComplete, New
<1> QED BY <1>1, AccountsInvariance, PTL

\* A token that was exchanged for another is revoked, and its owner's.
THEOREM TokensExchanged == Spec => []SuccessorRetires
<1>1. IInv => SuccessorRetires
  BY DEF IInv, RequestOK, SessionOK, SuccessorRetires
<1> QED BY <1>1, AccountsInvariance, PTL

\* Only the accounts on record from the start may be superadmins.
LEMMA Superadmins ==
  ASSUME IInv, NEW u \in Req, users[u] # None, Existing[u] = None
  PROVE  /\ "superadmin" \notin roles[u]
         /\ "admin" \in roles[u] => Op(u) = "createUser"
         /\ call[u] \in CallSet /\ call[u] # None /\ Op(u) \in New
<1>1. RecordOK(u) /\ CreatorOK(u)
  BY DEF IInv, RequestOK
<1>2. call[u] \in CallSet /\ call[u] # None /\ Op(u) \in New
  BY <1>1, CallFacts DEF RecordOK
<1>3. roles[u] \subseteq {call[u].role}
  BY <1>1 DEF RecordOK
<1> QED BY <1>1, <1>2, <1>3 DEF CreatorOK, Creatable, New

\* An account names as its creator whoever has the email, and nobody else.
LEMMA Creators ==
  ASSUME IInv, NEW a \in Req, NEW u \in Req, users[u] # None, users[u].by = users[a].email,
         "admin" \in roles[a], "superadmin" \notin roles[a]
  PROVE  Existing[u] = None /\ Op(u) = "createUser" /\ call[u].actor = a
<1>1. users[a] # None /\ users[a] \in Account
  BY DEF IInv, TypeOK, RequestOK, RecordOK
<1>2. users[a].email \in Email
  BY <1>1 DEF Account
<1>3. Existing[u] = None
  BY <1>2, AccountsAssumption DEF IInv, RequestOK, RecordOK
<1>4. Op(u) \in New /\ call[u] \in CallSet /\ CreatorOK(u)
  BY <1>3, Superadmins DEF IInv, RequestOK
<1>5. CASE Op(u) = "signUp"
  <2>1. users[u].email = users[a].email
    BY <1>3, <1>4, <1>5 DEF CreatorOK
  <2>2. u = a
    BY <1>1, <2>1 DEF IInv, RowsUnique
  <2> QED BY <1>3, <1>5, <2>2, Superadmins
<1>6. CASE Op(u) = "createUser"
  <2>1. call[u].actor \in Req
    BY <1>4, <1>6, CallFacts DEF Op
  <2>2. users[call[u].actor] # None /\ users[call[u].actor].email = users[a].email
    BY <1>3, <1>4, <1>6 DEF CreatorOK
  <2>3. call[u].actor = a
    BY <1>1, <2>1, <2>2 DEF IInv, RowsUnique
  <2> QED BY <1>3, <1>6, <2>3
<1> QED BY <1>4, <1>5, <1>6 DEF New

\* An admin reaches the accounts he created and no others.
THEOREM OwnAccountsOnly == Spec => []AdminsSeeTheirOwn
<1>1. ASSUME IInv, NEW a \in Req, NEW u \in Req, "superadmin" \notin roles[a], CanAccess(a, u)
      PROVE  call[u] # None /\ Op(u) = "createUser" /\ call[u].actor = a
  <2>1. users[u] # None /\ users[u].by = users[a].email /\ "admin" \in roles[a]
    BY <1>1 DEF CanAccess, RoleNames
  <2>2. Existing[u] = None /\ Op(u) = "createUser" /\ call[u].actor = a
    BY <1>1, <2>1, Creators
  <2> QED BY <1>1, <2>1, <2>2, Superadmins
<1>2. IInv => AdminsSeeTheirOwn
  BY <1>1 DEF AdminsSeeTheirOwn
<1> QED BY <1>2, AccountsInvariance, PTL

\* The two rules of WalletService agree on whom an operator may see.
THEOREM RulesAgree == Spec => []ListsWhatOpens
<1>1. ASSUME IInv, NEW a \in Req, HasRole(a, {"admin", "superadmin"}), NEW u \in Req
      PROVE  u \in AccessibleUsers(a) <=> CanAccess(a, u)
  <2>1. CASE "superadmin" \in roles[a]
    BY <2>1 DEF AccessibleUsers, CanAccess, RoleNames
  <2>2. CASE "superadmin" \notin roles[a]
    <3>1. "admin" \in roles[a]
      BY <1>1, <2>2 DEF HasRole, RoleNames
    <3>2. ASSUME users[u] # None, users[u].by = users[a].email
          PROVE  "superadmin" \notin roles[u]
      BY <1>1, <2>2, <3>1, <3>2, Creators, Superadmins
    <3> QED BY <2>2, <3>1, <3>2 DEF AccessibleUsers, CanAccess, RoleNames
  <2> QED BY <2>1, <2>2
<1>2. ASSUME IInv, NEW a \in Req, HasRole(a, {"admin", "superadmin"})
      PROVE  ResolveAccessible(a, None) = UNION {ResolveAccessible(a, u) : u \in Req}
  <2>1. ResolveAccessible(a, None) = AccessibleUsers(a)
    BY DEF ResolveAccessible
  <2>2. \A u \in Req : ResolveAccessible(a, u) = {v \in {u} : CanAccess(a, v)}
    BY AccountsAssumption DEF ResolveAccessible
  <2>3. AccessibleUsers(a) \subseteq Req
    BY DEF AccessibleUsers
  <2>4. \A v : v \in UNION {ResolveAccessible(a, u) : u \in Req} <=> v \in Req /\ CanAccess(a, v)
    BY <2>2
  <2> QED BY <1>1, <1>2, <2>1, <2>3, <2>4
<1>3. IInv => ListsWhatOpens
  BY <1>2 DEF ListsWhatOpens
<1> QED BY <1>3, AccountsInvariance, PTL
=============================================================================
