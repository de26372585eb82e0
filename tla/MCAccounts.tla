----------------------------- MODULE MCAccounts -----------------------------
(***************************************************************************)
(* Small instances of Accounts for TLC.                                    *)
(***************************************************************************)
EXTENDS AccountsProps, TLC

CONSTANTS r0, r1, r2, r3, r4

\* One account on record, the seeded superadmin.
OnRecord == [email |-> "e0", by |-> "system", name |-> "n0", pass |-> "p0",
             isLocked |-> FALSE, isActive |-> TRUE, loggedIn |-> FALSE]
OneAccount == [r \in Req |-> IF r = r0 THEN OnRecord ELSE None]

SignUpOf(E, N)    == [op : {"signUp"}, email : E, name : N, pass : {"p0"}, role : {"user"}]
CreateOf(E, N, R, a) ==
  [op : {"createUser"}, email : E, name : N, pass : {"p0"}, role : R, actor : {a}]
SignInOf(L, P)    == [op : {"signIn"}, login : L, pass : P]
ChangeOf(u)       == [op : {"changePassword"}, user : {u}, old : {"p0"}, new : {"p1"}]
ResetOf(u)        == [op : {"resetPassword"}, user : {u}, new : {"p1"}]
LockOf(u, B)      == [op : {"setLockStatus"}, user : {u}, on : B]
TokenOf(op, T)    == [op : {op}, token : T]
PresetOf(op, u)   == [op : {op}, user : {u}, amount : {10}]
CreditRefOf(u)    == [op : {"updateCreditReference"}, user : {u}]

\* Sign-ups racing for a name or an email, one of them by an operator; edits
\* of the account on record; sessions of the new and the old account.
AccountCalls ==
     (r0 :> {})
  @@ (r1 :> SignUpOf({"e1"}, {"n1"}) \cup SignInOf({"e0"}, {"p0"}))
  @@ (r2 :> CreateOf({"e1", "e2"}, {"n1"}, {"admin"}, r0) \cup LockOf(r0, {TRUE}))
  @@ (r3 :> CreditRefOf(r1) \cup PresetOf("addAmount", r2) \cup TokenOf("refreshToken", {r1})
            \cup ChangeOf(r0) \cup ResetOf(r0)
            \cup CreateOf({"e3"}, {"n3"}, {"user", "superadmin"}, r2))
  @@ (r4 :> TokenOf("refreshToken", {r1, r3}) \cup TokenOf("logout", {r1})
            \cup PresetOf("addAmount", r2) \cup PresetOf("deleteAmount", r2)
            \cup LockOf(r0, {FALSE}))

\* A sign-in and a reset of the password.
StaleCalls == (r1 :> SignInOf({"n0"}, {"p0"})) @@ (r2 :> ResetOf(r0)) @@ [r \in Req |-> {}]
=============================================================================
