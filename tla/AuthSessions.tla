---------------------------- MODULE AuthSessions ----------------------------
(* usecases/auth and the user, session, invite and API token repositories: *)
(* the credentials of one account.  Each step of a request is one          *)
(* statement or transaction; between two of them any other request, on any *)
(* replica, may run.  Passwords, salts and hashes are a generation number, *)
(* fresh at each change; a secret is sealed under one generation.          *)
EXTENDS Naturals, FiniteSets

CONSTANTS
  Logins, Changes, Mints, Joins, Boots, \* requests by kind; each runs once
  Invites,                              \* invite tokens
  None,
  Bootstrap,                            \* the origin of the first admin
  MaxCode,    \* bound: TOTP time steps
  MaxGen,     \* bound: generations of credentials, of all accounts together
  MaxRequests, \* bound: requests that run in one behaviour, of whatever kinds
  TokenLimit  \* maxAPITokensPerUser

Requests == Logins \cup Changes \cup Mints \cup Joins \cup Boots

ASSUME AuthAssumption ==
  /\ LET kinds == <<Logins, Changes, Mints, Joins, Boots>> IN
       \A i, j \in 1..5 : i # j => kinds[i] \cap kinds[j] = {}
  /\ None \notin Requests \cup Invites
  /\ Requests \cap Invites = {}
  /\ Bootstrap \notin Invites
  /\ MaxCode \in Nat /\ MaxGen \in Nat \ {0} /\ TokenLimit \in Nat

VARIABLES
  user,     \* the row of the account; NoUser when there is none
  admin,    \* whether the admin's row exists
  invites,  \* each invite: unissued, open, or spent (used, expired or swept)
  sessions, \* rows that are not expired, each named by the request that made it
  tokens,   \* rows; line has the key and those of all its issuers
  cost,     \* the argon2 cost that seals are made with
  req,      \* the requests
  lastGen,
  accepted, \* history: the one-time codes that were accepted, and for whom
  admitted, \* history: accounts that each invite, and the bootstrap, led to
  before    \* history: the credentials a password change found

tables  == <<user, admin, invites, sessions, tokens, cost>>
history == <<lastGen, accepted, admitted, before>>
vars    == <<tables, req, history>>

Generations == 0..MaxGen

(* id and gen of a new account are the same fresh number. *)
NoUser == [id |-> 0, gen |-> 0, seal |-> 0, cost |-> 0, counter |-> 0]
User == [id: Generations, gen: Generations, seal: Generations, cost: 0..1, counter: 0..MaxCode]

Session == [key: Logins \cup Changes, id: Generations]
Token   == [key: Mints, id: Generations, line: SUBSET Mints]

Stages == {"idle", "user", "factors", "reseal", "update", "session", "previous",
           "revoke", "tokens", "tokensLate", "insert", "redeem", "done", "failed"}

TypeOK ==
  /\ user \in User
  /\ admin \in BOOLEAN
  /\ invites \in [Invites -> {"unissued", "open", "spent"}]
  /\ sessions \subseteq Session
  /\ tokens \subseteq Token
  /\ cost \in 0..1
  /\ req \in [Requests -> [pc: Stages, id: Generations, snap: User,
                           with: Requests \cup Invites \cup {None}]]
  /\ lastGen \in Generations
  /\ accepted \subseteq [id: Generations, code: 1..MaxCode, by: Requests]
  /\ admitted \in [Invites \cup {Bootstrap} -> Nat]
  /\ before \in [Changes -> SUBSET Requests]

Begun == [pc |-> "idle", id |-> 0, snap |-> NoUser, with |-> None]

FirstUser == [id |-> 1, gen |-> 1, seal |-> 1, cost |-> 0, counter |-> 0]

(* An empty database, or one whose admin has invited an account.           *)
Init ==
  /\ \/ admin = FALSE /\ user = NoUser /\ lastGen = 0
     \/ admin = TRUE /\ user = FirstUser /\ lastGen = 1
  /\ invites = [i \in Invites |-> "unissued"]
  /\ sessions = {}
  /\ tokens = {}
  /\ cost = 0
  /\ req = [q \in Requests |-> Begun]
  /\ accepted = {}
  /\ admitted = [o \in Invites \cup {Bootstrap} |-> IF o = Bootstrap /\ admin THEN 1 ELSE 0]
  /\ before = [c \in Changes |-> {}]

Arrives(q) == req[q].pc = "idle" /\ Cardinality({r \in Requests : req[r].pc # "idle"}) < MaxRequests

Keys(rows) == {r.key : r \in rows}
Lives(id) == user.id = id /\ id # 0

(* Only a password change has an outcome that anything below depends on,   *)
(* and a request keeps the row it read only as long as it uses it.         *)
Ended(q, pc) == [Begun EXCEPT !.pc = IF q \in Changes THEN pc ELSE "done"]
Goes(q, pc) ==
  req' = [req EXCEPT ![q] =
    IF pc \in {"done", "failed"} THEN Ended(q, pc)
    ELSE [req[q] EXCEPT !.pc = pc, !.snap = IF pc = "reseal" THEN req[q].snap ELSE NoUser]]

(* The row of an account that has just been built. *)
NewUser == [id |-> lastGen + 1, gen |-> lastGen + 1, seal |-> lastGen + 1,
            cost |-> cost, counter |-> 0]
Admit(origin) == admitted' = [admitted EXCEPT ![origin] = @ + 1]

-----------------------------------------------------------------------------
(* How accounts begin and end. *)

(* AcceptFirstAdmin: the List of users is empty. *)
BootstrapCheck(b) ==
  /\ Arrives(b)
  /\ ~admin /\ user = NoUser
  /\ Goes(b, "insert")
  /\ UNCHANGED <<tables, history>>

NoIndex == TRUE
(* idx_users_single_admin. *)
SingleAdmin == ~admin

(* Create, under the index. *)
BootstrapCreate(b) ==
  /\ b \in Boots
  /\ req[b].pc = "insert"
  /\ IF SingleAdmin
       THEN admin' = TRUE /\ Admit(Bootstrap) /\ Goes(b, "done")
       ELSE UNCHANGED <<admin, admitted>> /\ Goes(b, "failed")
  /\ UNCHANGED <<user, invites, sessions, tokens, cost, lastGen, accepted, before>>

(* GenerateInvite, by the admin's session. *)
GenerateInvite(i) ==
  /\ admin
  /\ invites[i] = "unissued"
  /\ invites' = [invites EXCEPT ![i] = "open"]
  /\ UNCHANGED <<user, admin, sessions, tokens, cost, req, history>>

InviteExpires(i) ==
  /\ invites[i] = "open"
  /\ invites' = [invites EXCEPT ![i] = "spent"]
  /\ UNCHANGED <<user, admin, sessions, tokens, cost, req, history>>

(* AcceptInvite: the name is free, so the account is built. *)
AcceptInvite(j) ==
  /\ Arrives(j)
  /\ user = NoUser
  /\ \E i \in Invites : invites[i] # "unissued"
       /\ req' = [req EXCEPT ![j].pc = "redeem", ![j].with = i]
  /\ UNCHANGED <<tables, history>>

InviteOpen(i) == invites[i] = "open"

(* RedeemInvite: one transaction that uses up the invite and inserts the   *)
(* account, or does neither.                                               *)
RedeemInvite(j) ==
  LET i == req[j].with IN
  /\ req[j].pc = "redeem"
  /\ lastGen < MaxGen
  /\ IF InviteOpen(i) /\ user = NoUser
       THEN /\ invites' = [invites EXCEPT ![i] = "spent"]
            /\ user' = NewUser
            /\ lastGen' = lastGen + 1
            /\ Admit(i)
            /\ Goes(j, "done")
       ELSE /\ Goes(j, "failed")
            /\ UNCHANGED <<user, invites, lastGen, admitted>>
  /\ UNCHANGED <<admin, sessions, tokens, cost, accepted, before>>

(* RevokeUser, by the admin; sessions and tokens go with the row.          *)
RevokeUser ==
  /\ admin /\ user # NoUser
  /\ user' = NoUser
  /\ sessions' = {s \in sessions : s.id # user.id}
  /\ tokens' = {t \in tokens : t.id # user.id}
  /\ UNCHANGED <<admin, invites, cost, req, history>>

(* An operator raises the argon2 cost: seals made before are stale. *)
RaiseCost ==
  /\ cost = 0
  /\ cost' = 1
  /\ UNCHANGED <<user, admin, invites, sessions, tokens, req, history>>

-----------------------------------------------------------------------------
(* The two factors, of a login, of a step-up and of a password change.     *)

CodeFreshInSnapshot(q, k) == req[q].snap.counter < k
(* UpdateTOTPCounter. *)
CodeFresh(q, k) == Lives(req[q].id) /\ user.counter < k

AfterFactors(q) == IF q \in Logins THEN "session" ELSE IF q \in Mints THEN "insert" ELSE "update"

(* The right password for the row that was read, a seal that opens with    *)
(* it, and a valid code of time step k, recorded by one conditional        *)
(* UPDATE.  A wrong password or code is Abort.                             *)
VerifyFactors(q, k) ==
  LET snap == req[q].snap IN
  /\ req[q].pc = "factors"
  /\ snap.seal = snap.gen
  /\ IF CodeFresh(q, k)
       THEN /\ user' = [user EXCEPT !.counter = k]
            /\ accepted' = accepted \cup {[id |-> snap.id, code |-> k, by |-> q]}
            /\ Goes(q, IF snap.cost # cost /\ q \notin Changes THEN "reseal" ELSE AfterFactors(q))
       ELSE UNCHANGED <<user, accepted>> /\ Goes(q, "failed")
  /\ UNCHANGED <<admin, invites, sessions, tokens, cost, lastGen, admitted, before>>

(* resealTOTPSecret: sealed with the password and salt that were read; a   *)
(* failure is ignored.                                                     *)
ResealTOTPSecret(q) ==
  LET snap == req[q].snap IN
  /\ req[q].pc = "reseal"
  /\ \/ user' = IF Lives(snap.id) THEN [user EXCEPT !.seal = snap.gen, !.cost = cost] ELSE user
     \/ UNCHANGED user
  /\ Goes(q, AfterFactors(q))
  /\ UNCHANGED <<admin, invites, sessions, tokens, cost, history>>

-----------------------------------------------------------------------------
(* Sessions. *)

(* GetByUsername; the client may present the session it has had so far. *)
Login(l) ==
  /\ Arrives(l)
  /\ user # NoUser
  /\ \E previous \in Keys(sessions) \cup {None} :
       req' = [req EXCEPT ![l] = [pc |-> "factors", id |-> user.id, snap |-> user,
                                  with |-> previous]]
  /\ UNCHANGED <<tables, history>>

ForeignKeysOff(q) == req[q].id # 0
(* The foreign key on users of a row inserted for the account that was     *)
(* read.                                                                   *)
OwnerLives(q) == Lives(req[q].id)

CreateSession(q) ==
  /\ req[q].pc = "session"
  /\ IF OwnerLives(q)
       THEN /\ sessions' = sessions \cup {[key |-> q, id |-> req[q].id]}
            /\ Goes(q, IF q \in Changes THEN "revoke" ELSE "previous")
       ELSE UNCHANGED sessions /\ Goes(q, "failed")
  /\ UNCHANGED <<user, admin, invites, tokens, cost, history>>

(* revokePreviousSession, whose failure is ignored. *)
RevokePreviousSession(l) ==
  /\ req[l].pc = "previous"
  /\ \/ sessions' = {s \in sessions : s.key # req[l].with}
     \/ UNCHANGED sessions
  /\ Goes(l, "done")
  /\ UNCHANGED <<user, admin, invites, tokens, cost, history>>

(* Logout, or the session expires. *)
EndSession(s) ==
  /\ sessions' = sessions \ {s}
  /\ UNCHANGED <<user, admin, invites, tokens, cost, req, history>>

-----------------------------------------------------------------------------
(* The password change. *)

(* The caller's session is read, and then its account. *)
ChangePassword(c) ==
  /\ Arrives(c)
  /\ \E s \in sessions : req' = [req EXCEPT ![c].pc = "user", ![c].id = s.id, ![c].with = s.key]
  /\ UNCHANGED <<tables, history>>

ReadUser(q) ==
  /\ req[q].pc = "user"
  /\ IF Lives(req[q].id)
       THEN req' = [req EXCEPT ![q].snap = user,
                               ![q].pc = IF q \in Mints /\ req[q].with = None
                                           THEN "insert" ELSE "factors"]
       ELSE Goes(q, "failed")
  /\ UNCHANGED <<tables, history>>

(* Hash, salt and seal in one UPDATE by id; no row matched is no error.    *)
UpdatePassword(c) ==
  /\ req[c].pc = "update"
  /\ lastGen < MaxGen
  /\ lastGen' = lastGen + 1
  /\ user' = IF Lives(req[c].id)
               THEN [user EXCEPT !.gen = lastGen + 1, !.seal = lastGen + 1, !.cost = cost]
               ELSE user
  /\ before' = [before EXCEPT ![c] = Keys(sessions) \cup Keys(tokens)]
  /\ Goes(c, "session")
  /\ UNCHANGED <<admin, invites, sessions, tokens, cost, accepted, admitted>>

(* revokeOldCredentials: both deletions are tried, and the failure of      *)
(* either is reported.                                                     *)
RevokeSessions(c) ==
  /\ req[c].pc = "revoke"
  /\ \/ /\ sessions' = {s \in sessions : s.id # req[c].id \/ s.key = c}
        /\ Goes(c, "tokens")
     \/ UNCHANGED sessions /\ Goes(c, "tokensLate")
  /\ UNCHANGED <<user, admin, invites, tokens, cost, history>>

OutcomeOfLast(stage) == "done"
Outcome(stage) == IF stage = "tokens" THEN "done" ELSE "failed"

RevokeTokens(c) ==
  /\ req[c].pc \in {"tokens", "tokensLate"}
  /\ \/ /\ tokens' = {t \in tokens : t.id # req[c].id}
        /\ Goes(c, Outcome(req[c].pc))
     \/ UNCHANGED tokens /\ Goes(c, "failed")
  /\ UNCHANGED <<user, admin, invites, sessions, cost, history>>

-----------------------------------------------------------------------------
(* API tokens. *)

(* CreateAPIToken, after the middleware has accepted a session, which need *)
(* not step up, or a bearer token, which becomes the issuer.               *)
CreateAPIToken(m) ==
  /\ Arrives(m)
  /\ \/ \E s \in sessions : req' = [req EXCEPT ![m].pc = "user", ![m].id = s.id]
     \/ \E t \in tokens :
          req' = [req EXCEPT ![m].pc = "user", ![m].id = t.id, ![m].with = t.key]
  /\ UNCHANGED <<tables, history>>

IssuerAsSent(m) == {req[m].with}
(* apiTokenIssuedBy. *)
Issuer(m) == IF req[m].with = None THEN {} ELSE {req[m].with}
Line(m) == {m} \cup Issuer(m) \cup UNION {t.line : t \in {u \in tokens : u.key = req[m].with}}

(* The foreign key on the issuing token. *)
IssuerLives(m) == req[m].with = None \/ req[m].with \in Keys(tokens)

(* One transaction; expired tokens count too. *)
CreateIfUnderLimit(m) ==
  /\ m \in Mints
  /\ req[m].pc = "insert"
  /\ IF /\ Cardinality({t \in tokens : t.id = req[m].id}) < TokenLimit
        /\ OwnerLives(m) /\ IssuerLives(m)
       THEN /\ tokens' = tokens \cup {[key |-> m, id |-> req[m].id, line |-> Line(m)]}
            /\ Goes(m, "done")
       ELSE UNCHANGED tokens /\ Goes(m, "failed")
  /\ UNCHANGED <<user, admin, invites, sessions, cost, history>>

(* RevokeAPIToken: the DELETE cascades along the issuers. *)
RevokeAPIToken(t) ==
  /\ tokens' = {u \in tokens : t.key \notin u.line}
  /\ UNCHANGED <<user, admin, invites, sessions, cost, req, history>>

(* A cancelled context, a storage error, a wrong password or code, a       *)
(* refused new password, or the end of the process.                        *)
Abort(q) ==
  /\ req[q].pc \notin {"idle", "done", "failed"}
  /\ Goes(q, "failed")
  /\ UNCHANGED <<tables, history>>

-----------------------------------------------------------------------------
Next ==
  \/ \E b \in Boots : BootstrapCheck(b) \/ BootstrapCreate(b)
  \/ \E i \in Invites : GenerateInvite(i) \/ InviteExpires(i)
  \/ \E j \in Joins : AcceptInvite(j) \/ RedeemInvite(j)
  \/ RevokeUser
  \/ RaiseCost
  \/ \E l \in Logins : Login(l) \/ RevokePreviousSession(l)
  \/ \E s \in sessions : EndSession(s)
  \/ \E c \in Changes :
       ChangePassword(c) \/ UpdatePassword(c) \/ RevokeSessions(c) \/ RevokeTokens(c)
  \/ \E m \in Mints : CreateAPIToken(m) \/ CreateIfUnderLimit(m)
  \/ \E t \in tokens : RevokeAPIToken(t)
  \/ \E q \in Requests :
       \/ \E k \in 1..MaxCode : VerifyFactors(q, k)
       \/ ReadUser(q) \/ ResealTOTPSecret(q) \/ CreateSession(q) \/ Abort(q)

Spec == Init /\ [][Next]_vars

-----------------------------------------------------------------------------
(* A one-time code opens one door: whatever requests of an account present *)
(* it, logins, step-ups or password changes on any replica, it is accepted *)
(* once (UpdateTOTPCounter).                                               *)
CodesAcceptedOnce ==
  \A a, b \in accepted : a.id = b.id /\ a.code = b.code => a = b

(* When a password change reports success, no session or token that it     *)
(* found lives, nor any token whose issuers go back to one it found        *)
(* (revokeOldCredentials: "a leaked key, and whatever it minted, must not  *)
(* outlive the change").                                                   *)
OldCredentialsEnd ==
  \A c \in Changes : req[c].pc = "done" =>
    /\ Keys(sessions) \cap before[c] = {}
    /\ \A t \in tokens : t.line \cap before[c] = {}

(* No session or token outlives its account, and no token outlives any of  *)
(* its issuers, although requests insert them for what they read earlier.  *)
CredentialsFollowOwners ==
  /\ \A s \in sessions : Lives(s.id)
  /\ \A t \in tokens : Lives(t.id) /\ t.line \subseteq Keys(tokens)

(* The bootstrap, and each invite, leads to one account at most, however   *)
(* many servers race (AcceptFirstAdmin, RedeemInvite).                     *)
OriginsServeOnce == \A o \in DOMAIN admitted : admitted[o] <= 1

(* The stored TOTP secret opens with the stored salt and the password that *)
(* the stored hash accepts, or nobody can log in any more                  *)
(* (resealTOTPSecret: "The KDF salt is unchanged, so only totp_secret      *)
(* moves").                                                                *)
SecretOpens == user.seal = user.gen
=============================================================================
