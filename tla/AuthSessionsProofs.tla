-------------------------- MODULE AuthSessionsProofs --------------------------
(* Proofs about AuthSessions, for any number of requests of each kind,     *)
(* invites, codes and accounts.                                            *)
EXTENDS AuthSessions, TLAPS

USE AuthAssumption

Request == [pc: Stages, id: Generations, snap: User, with: Requests \cup Invites \cup {None}]

(* The stages that a request of each kind goes through. *)
LoginStages  == {"idle", "factors", "reseal", "session", "previous", "done"}
ChangeStages == {"idle", "user", "factors", "update", "session", "revoke", "tokens", "tokensLate",
                 "done", "failed"}
MintStages   == {"idle", "user", "factors", "reseal", "insert", "done"}
JoinStages   == {"idle", "redeem", "done"}
BootStages   == {"idle", "insert", "done"}

(* What a request at a stage may rely on: it is of the right kind, it      *)
(* checks the factors of the row that it names, a mint was sent by a mint, *)
(* and an account is built from an invite.                                 *)
Staged ==
  \A q \in Requests :
    /\ q \in Logins  => req[q].pc \in LoginStages
    /\ q \in Changes => req[q].pc \in ChangeStages
    /\ q \in Mints   => req[q].pc \in MintStages
    /\ q \in Joins   => req[q].pc \in JoinStages
    /\ q \in Boots   => req[q].pc \in BootStages
    /\ req[q].pc = "factors" => req[q].snap.id = req[q].id
    /\ q \in Mints => req[q].with \in Mints \cup {None}
    /\ req[q].pc = "redeem" => req[q].with \in Invites

TypedInv == TypeOK /\ Staged

LEMMA Disjoint ==
  /\ Logins \cap Changes = {} /\ Logins \cap Mints = {} /\ Logins \cap Joins = {}
  /\ Logins \cap Boots = {} /\ Changes \cap Mints = {} /\ Changes \cap Joins = {}
  /\ Changes \cap Boots = {} /\ Mints \cap Joins = {} /\ Mints \cap Boots = {}
  /\ Joins \cap Boots = {}
<1> DEFINE kinds == <<Logins, Changes, Mints, Joins, Boots>>
<1>1. \A i, j \in 1..5 : i # j => kinds[i] \cap kinds[j] = {}
  BY DEF AuthAssumption
<1>2. /\ kinds[1] = Logins /\ kinds[2] = Changes /\ kinds[3] = Mints
      /\ kinds[4] = Joins /\ kinds[5] = Boots
  OBVIOUS
<1>3. 1 \in 1..5 /\ 2 \in 1..5 /\ 3 \in 1..5 /\ 4 \in 1..5 /\ 5 \in 1..5
  OBVIOUS
<1> HIDE DEF kinds
<1>4. /\ kinds[1] \cap kinds[2] = {} /\ kinds[1] \cap kinds[3] = {} /\ kinds[1] \cap kinds[4] = {}
      /\ kinds[1] \cap kinds[5] = {}
  BY <1>1, <1>3
<1>5. /\ kinds[2] \cap kinds[3] = {} /\ kinds[2] \cap kinds[4] = {} /\ kinds[2] \cap kinds[5] = {}
      /\ kinds[3] \cap kinds[4] = {} /\ kinds[3] \cap kinds[5] = {} /\ kinds[4] \cap kinds[5] = {}
  BY <1>1, <1>3
<1> QED BY <1>2, <1>4, <1>5

LEMMA Sizes ==
  /\ 0 \in Generations /\ 1 \in Generations
  /\ NoUser \in User /\ FirstUser \in User
  /\ NoUser.id = 0 /\ NoUser.counter = 0 /\ FirstUser.id = 1
  BY DEF AuthAssumption, Generations, NoUser, FirstUser, User

LEMMA BegunIsRequest ==
  Begun \in Request /\ Begun.pc = "idle" /\ Begun.id = 0 /\ Begun.with = None
  BY Sizes DEF Begun, Request, Stages

(* Where Goes leads. *)
LEMMA GoesTo ==
  ASSUME req \in [Requests -> Request], NEW q \in Requests, NEW pc \in Stages, Goes(q, pc)
  PROVE  /\ req' \in [Requests -> Request]
         /\ \A p \in Requests \ {q} : req'[p] = req[p]
         /\ pc \in {"done", "failed"} =>
              /\ req'[q].pc = (IF q \in Changes THEN pc ELSE "done")
              /\ req'[q].with = None
         /\ pc \notin {"done", "failed"} =>
              /\ req'[q].pc = pc /\ req'[q].id = req[q].id /\ req'[q].with = req[q].with
              /\ pc = "reseal" => req'[q].snap = req[q].snap
<1>1. CASE pc \in {"done", "failed"}
  <2> DEFINE p == [Begun EXCEPT !.pc = IF q \in Changes THEN pc ELSE "done"]
  <2>1. req' = [req EXCEPT ![q] = p]
    BY <1>1 DEF Goes, Ended
  <2>2. p \in Request
    BY BegunIsRequest DEF Request, Stages
  <2>3. p.pc = (IF q \in Changes THEN pc ELSE "done") /\ p.with = None
    BY BegunIsRequest DEF Request
  <2> HIDE DEF p
  <2> QED BY <1>1, <2>1, <2>2, <2>3
<1>2. CASE pc \notin {"done", "failed"}
  <2> DEFINE r == req[q]
             p == [r EXCEPT !.pc = pc, !.snap = IF pc = "reseal" THEN r.snap ELSE NoUser]
  <2>1. req' = [req EXCEPT ![q] = p]
    BY <1>2 DEF Goes
  <2>2. p \in Request
    BY Sizes DEF Request
  <2>3. /\ p.pc = pc /\ p.id = r.id /\ p.with = r.with
        /\ p.snap = (IF pc = "reseal" THEN r.snap ELSE NoUser)
    BY DEF Request
  <2> HIDE DEF p
  <2> QED BY <1>2, <2>1, <2>2, <2>3
<1> QED BY <1>1, <1>2

-----------------------------------------------------------------------------
(* Types and stages. *)

LEMMA GoesStaged ==
  ASSUME TypedInv, NEW q \in Requests, NEW pc \in Stages, Goes(q, pc),
         pc \notin {"factors", "redeem"},
         pc \notin {"done", "failed"} =>
           /\ q \in Logins  => pc \in LoginStages
           /\ q \in Changes => pc \in ChangeStages
           /\ q \in Mints   => pc \in MintStages
           /\ q \in Joins   => pc \in JoinStages
           /\ q \in Boots   => pc \in BootStages
  PROVE  req' \in [Requests -> Request] /\ Staged'
<1>1. req \in [Requests -> Request]
  BY DEF TypedInv, TypeOK, Request
<1>2. /\ req' \in [Requests -> Request]
      /\ \A p \in Requests \ {q} : req'[p] = req[p]
  BY <1>1, GoesTo
<1>3. CASE pc \in {"done", "failed"}
  <2>1. req'[q].pc = (IF q \in Changes THEN pc ELSE "done") /\ req'[q].with = None
    BY <1>1, <1>3, GoesTo
  <2> QED BY <1>2, <1>3, <2>1, Disjoint DEF TypedInv, Staged, LoginStages, ChangeStages, MintStages, JoinStages, BootStages
<1>4. CASE pc \notin {"done", "failed"}
  <2>1. req'[q].pc = pc /\ req'[q].with = req[q].with
    BY <1>1, <1>4, GoesTo
  <2> QED BY <1>2, <1>4, <2>1 DEF TypedInv, Staged
<1> QED BY <1>3, <1>4

(* A request that is set to p. *)
LEMMA SetStaged ==
  ASSUME TypedInv, NEW q \in Requests, NEW p \in Request, req' = [req EXCEPT ![q] = p],
         /\ q \in Logins  => p.pc \in LoginStages
         /\ q \in Changes => p.pc \in ChangeStages
         /\ q \in Mints   => p.pc \in MintStages
         /\ q \in Joins   => p.pc \in JoinStages
         /\ q \in Boots   => p.pc \in BootStages,
         p.pc = "factors" => p.snap.id = p.id,
         q \in Mints => p.with \in Mints \cup {None},
         p.pc = "redeem" => p.with \in Invites
  PROVE  req' \in [Requests -> Request] /\ Staged'
<1>1. req \in [Requests -> Request]
  BY DEF TypedInv, TypeOK, Request
<1>2. req' \in [Requests -> Request] /\ req'[q] = p /\ \A r \in Requests \ {q} : req'[r] = req[r]
  BY <1>1
<1> QED BY <1>2 DEF TypedInv, Staged

LEMMA RequestTyped ==
  ASSUME TypedInv, NEW q \in Requests
  PROVE  /\ req[q] \in Request /\ req[q].pc \in Stages /\ req[q].id \in Generations
         /\ req[q].snap \in User
  BY DEF TypedInv, TypeOK, Request

LEMMA TypedInit == Init => TypedInv
<1> SUFFICES ASSUME Init PROVE TypedInv
  OBVIOUS
<1>1. req \in [Requests -> Request] /\ \A q \in Requests : req[q].pc = "idle" /\ req[q].with = None
  BY BegunIsRequest DEF Init
<1>2. Staged
  BY <1>1 DEF Staged, LoginStages, ChangeStages, MintStages, JoinStages, BootStages
<1>3. user \in User /\ admin \in BOOLEAN /\ lastGen \in Generations
  BY Sizes DEF Init
<1>4. admitted \in [Invites \cup {Bootstrap} -> Nat]
  BY DEF Init
<1> QED BY <1>1, <1>2, <1>3, <1>4 DEF Init, TypedInv, TypeOK, Request

LEMMA AdmitTyped ==
  ASSUME TypedInv, NEW o \in Invites \cup {Bootstrap}, Admit(o)
  PROVE  /\ admitted' \in [Invites \cup {Bootstrap} -> Nat]
         /\ admitted'[o] = admitted[o] + 1
         /\ \A p \in (Invites \cup {Bootstrap}) \ {o} : admitted'[p] = admitted[p]
<1>1. admitted \in [Invites \cup {Bootstrap} -> Nat]
  BY DEF TypedInv, TypeOK
<1> QED BY <1>1 DEF Admit

(* How accounts begin. *)
LEMMA AccountsTyped ==
  ASSUME TypedInv,
         \/ \E b \in Boots : BootstrapCheck(b) \/ BootstrapCreate(b)
         \/ \E i \in Invites : GenerateInvite(i) \/ InviteExpires(i)
         \/ \E j \in Joins : AcceptInvite(j) \/ RedeemInvite(j)
         \/ RevokeUser \/ RaiseCost
  PROVE  TypedInv'
<1> USE DEF BootStages, JoinStages
<1>0. {"insert", "done", "failed", "redeem"} \subseteq Stages
  BY DEF Stages
<1>1. ASSUME NEW b \in Boots, BootstrapCheck(b) PROVE TypedInv'
  <2>1. req' \in [Requests -> Request] /\ Staged'
    BY <1>0, <1>1, GoesStaged, Disjoint DEF BootstrapCheck, Requests
  <2> QED BY <1>1, <2>1 DEF BootstrapCheck, TypedInv, TypeOK, Request, tables, history
<1>2. ASSUME NEW b \in Boots, BootstrapCreate(b) PROVE TypedInv'
  <2>1. req' \in [Requests -> Request] /\ Staged'
    BY <1>0, <1>2, GoesStaged, Disjoint DEF BootstrapCreate, Requests
  <2>2. admin' \in BOOLEAN /\ admitted' \in [Invites \cup {Bootstrap} -> Nat]
    <3>1. CASE SingleAdmin
      BY <1>2, <3>1, AdmitTyped DEF BootstrapCreate
    <3>2. CASE ~SingleAdmin
      BY <1>2, <3>2 DEF BootstrapCreate, TypedInv, TypeOK
    <3> QED BY <3>1, <3>2
  <2> QED BY <1>2, <2>1, <2>2 DEF BootstrapCreate, TypedInv, TypeOK, Request
<1>3. ASSUME NEW i \in Invites, GenerateInvite(i) \/ InviteExpires(i) PROVE TypedInv'
  <2>1. invites' \in [Invites -> {"unissued", "open", "spent"}]
    BY <1>3 DEF GenerateInvite, InviteExpires, TypedInv, TypeOK
  <2>2. UNCHANGED <<user, admin, sessions, tokens, cost, req, history>>
    BY <1>3 DEF GenerateInvite, InviteExpires
  <2> QED BY <2>1, <2>2 DEF TypedInv, TypeOK, Staged, history
<1>4. ASSUME NEW j \in Joins, AcceptInvite(j) PROVE TypedInv'
  <2>0. j \in Requests
    BY DEF Requests
  <2>1. PICK i \in Invites : req' = [req EXCEPT ![j].pc = "redeem", ![j].with = i]
    BY <1>4 DEF AcceptInvite
  <2> DEFINE p == [req[j] EXCEPT !.pc = "redeem", !.with = i]
  <2>2. req[j] \in Request
    BY <2>0, RequestTyped
  <2>3. p \in Request /\ p.pc = "redeem" /\ p.with = i
    BY <1>0, <2>2 DEF Request
  <2>4. req' = [req EXCEPT ![j] = p]
    BY <2>0, <2>1 DEF TypedInv, TypeOK
  <2> HIDE DEF p
  <2>5. req' \in [Requests -> Request] /\ Staged'
    BY <2>0, <2>3, <2>4, SetStaged, Disjoint
  <2> QED BY <1>4, <2>5 DEF AcceptInvite, TypedInv, TypeOK, Request, tables, history
<1>5. ASSUME NEW j \in Joins, RedeemInvite(j) PROVE TypedInv'
  <2>1. req' \in [Requests -> Request] /\ Staged'
    BY <1>0, <1>5, GoesStaged, Disjoint DEF RedeemInvite, Requests
  <2>2. lastGen < MaxGen /\ lastGen \in Generations
    BY <1>5 DEF RedeemInvite, TypedInv, TypeOK
  <2>3. lastGen + 1 \in Generations
    BY <2>2 DEF Generations
  <2>4. NewUser \in User
    BY <2>3 DEF NewUser, User, TypedInv, TypeOK
  <2>5. req[j].with \in Invites
    BY <1>5 DEF RedeemInvite, TypedInv, Staged, Requests
  <2>6. /\ user' \in User /\ lastGen' \in Generations
        /\ invites' \in [Invites -> {"unissued", "open", "spent"}]
        /\ admitted' \in [Invites \cup {Bootstrap} -> Nat]
    BY <1>5, <2>3, <2>4, <2>5 DEF RedeemInvite, Admit, TypedInv, TypeOK
  <2> QED BY <1>5, <2>1, <2>6 DEF RedeemInvite, TypedInv, TypeOK, Request
<1>6. CASE RevokeUser
  <2>1. user' \in User /\ sessions' \subseteq Session /\ tokens' \subseteq Token
    BY <1>6, Sizes DEF RevokeUser, TypedInv, TypeOK
  <2> QED BY <1>6, <2>1 DEF RevokeUser, TypedInv, TypeOK, Staged, history
<1>7. CASE RaiseCost
  BY <1>7 DEF RaiseCost, TypedInv, TypeOK, Staged, history
<1> QED BY <1>1, <1>2, <1>3, <1>4, <1>5, <1>6, <1>7

LEMMA TokenTyped ==
  ASSUME TypedInv, NEW m \in Mints
  PROVE  [key |-> m, id |-> req[m].id, line |-> Line(m)] \in Token
<1>1. m \in Requests
  BY DEF Requests
<1>2. req[m].id \in Generations /\ req[m].with \in Mints \cup {None}
  BY <1>1, RequestTyped DEF TypedInv, Staged
<1>3. Line(m) \subseteq Mints
  BY <1>2 DEF Line, Issuer, TypedInv, TypeOK, Token
<1> QED BY <1>2, <1>3 DEF Token

(* The factors. *)
LEMMA FactorsTyped ==
  ASSUME TypedInv, NEW q \in Requests,
         (\E k \in 1..MaxCode : VerifyFactors(q, k)) \/ ReadUser(q) \/ ResealTOTPSecret(q)
  PROVE  TypedInv'
<1> USE DEF LoginStages, ChangeStages, MintStages, JoinStages, BootStages
<1>0. {"insert", "done", "failed", "factors", "reseal", "update", "session"} \subseteq Stages
  BY DEF Stages
<1>1. req[q] \in Request /\ req[q].id \in Generations /\ req[q].snap \in User /\ user \in User
  BY RequestTyped DEF TypedInv, TypeOK
<1>2. req[q].pc \in {"user", "factors", "reseal"} => q \in Logins \cup Changes \cup Mints
  BY DEF TypedInv, Staged, Requests
<1>3. AfterFactors(q) \in Stages \ {"factors", "redeem", "done", "failed", "reseal"}
  BY DEF AfterFactors, Stages
<1>4. ASSUME NEW k \in 1..MaxCode, VerifyFactors(q, k) PROVE TypedInv'
  <2>1. ASSUME CodeFresh(q, k) PROVE TypedInv'
    <3> DEFINE next == IF req[q].snap.cost # cost /\ q \notin Changes THEN "reseal" ELSE AfterFactors(q)
    <3>1. /\ user' = [user EXCEPT !.counter = k]
          /\ accepted' = accepted \cup {[id |-> req[q].snap.id, code |-> k, by |-> q]}
          /\ Goes(q, next)
      BY <1>4, <2>1 DEF VerifyFactors
    <3>2. next \in Stages /\ next \notin {"factors", "redeem", "done", "failed"}
      BY <1>0, <1>3
    <3>3. /\ q \in Logins  => next \in LoginStages
          /\ q \in Changes => next \in ChangeStages
          /\ q \in Mints   => next \in MintStages
      BY Disjoint DEF AfterFactors
    <3>4. q \notin Joins /\ q \notin Boots
      BY <1>2, <1>4, Disjoint DEF VerifyFactors
    <3> HIDE DEF next
    <3>5. req' \in [Requests -> Request] /\ Staged'
      BY <3>1, <3>2, <3>3, <3>4, GoesStaged
    <3>6. user' \in User
      <4>1. k \in 0..MaxCode
        OBVIOUS
      <4> QED BY <1>1, <3>1, <4>1 DEF User
    <3>7. accepted' \subseteq [id: Generations, code: 1..MaxCode, by: Requests]
      <4>1. req[q].snap.id \in Generations
        BY <1>1 DEF User
      <4> QED BY <3>1, <4>1 DEF TypedInv, TypeOK
    <3> QED BY <1>4, <3>5, <3>6, <3>7 DEF VerifyFactors, TypedInv, TypeOK, Request
  <2>2. ASSUME ~CodeFresh(q, k) PROVE TypedInv'
    <3>1. UNCHANGED <<user, accepted>> /\ Goes(q, "failed")
      BY <1>4, <2>2 DEF VerifyFactors
    <3>2. req' \in [Requests -> Request] /\ Staged'
      BY <1>0, <3>1, GoesStaged
    <3> QED BY <1>4, <3>1, <3>2 DEF VerifyFactors, TypedInv, TypeOK, Request
  <2> QED BY <2>1, <2>2
<1>5. CASE ReadUser(q)
  <2>1. CASE Lives(req[q].id)
    <3> DEFINE next == IF q \in Mints /\ req[q].with = None THEN "insert" ELSE "factors"
               p == [req[q] EXCEPT !.snap = user, !.pc = next]
    <3>1. req' = [req EXCEPT ![q] = p]
      BY <1>5, <2>1 DEF ReadUser, TypedInv, TypeOK
    <3>2. p \in Request /\ p.pc = next /\ p.snap = user /\ p.id = req[q].id /\ p.with = req[q].with
      BY <1>0, <1>1 DEF Request
    <3>3. user.id = req[q].id
      BY <2>1 DEF Lives
    <3>4. q \in Changes \/ q \in Mints
      BY <1>2, <1>5 DEF ReadUser, TypedInv, Staged
    <3>5. q \in Mints => req[q].with \in Mints \cup {None}
      BY DEF TypedInv, Staged
    <3>6. next \in {"insert", "factors"} /\ (q \in Changes => next = "factors")
      BY Disjoint
    <3> HIDE DEF p, next
    <3>7. req' \in [Requests -> Request] /\ Staged'
      BY <3>1, <3>2, <3>3, <3>4, <3>5, <3>6, SetStaged, Disjoint
    <3> QED BY <1>5, <3>7 DEF ReadUser, TypedInv, TypeOK, Request, tables, history
  <2>2. CASE ~Lives(req[q].id)
    <3>1. Goes(q, "failed")
      BY <1>5, <2>2 DEF ReadUser
    <3>2. req' \in [Requests -> Request] /\ Staged'
      BY <1>0, <3>1, GoesStaged
    <3> QED BY <1>5, <3>2 DEF ReadUser, TypedInv, TypeOK, Request, tables, history
  <2> QED BY <2>1, <2>2
<1>6. CASE ResealTOTPSecret(q)
  <2>1. q \in Logins \/ q \in Mints
    BY <1>2, <1>6 DEF ResealTOTPSecret, TypedInv, Staged
  <2>2. /\ q \in Logins => AfterFactors(q) \in LoginStages
        /\ q \in Mints  => AfterFactors(q) \in MintStages
    BY Disjoint DEF AfterFactors
  <2>3. req' \in [Requests -> Request] /\ Staged'
    BY <1>3, <1>6, <2>1, <2>2, GoesStaged, Disjoint DEF ResealTOTPSecret
  <2>4. user' \in User
    <3>1. req[q].snap.gen \in Generations
      BY <1>1 DEF User
    <3>2. cost \in 0..1
      BY DEF TypedInv, TypeOK
    <3> QED BY <1>1, <1>6, <3>1, <3>2 DEF ResealTOTPSecret, User
  <2> QED BY <1>6, <2>3, <2>4 DEF ResealTOTPSecret, TypedInv, TypeOK, Request, history
<1> QED BY <1>4, <1>5, <1>6

(* Sessions, the password change, tokens. *)
LEMMA CredentialsTyped ==
  ASSUME TypedInv,
         \/ \E l \in Logins : Login(l) \/ RevokePreviousSession(l)
         \/ \E s \in sessions : EndSession(s)
         \/ \E c \in Changes :
              ChangePassword(c) \/ UpdatePassword(c) \/ RevokeSessions(c) \/ RevokeTokens(c)
         \/ \E m \in Mints : CreateAPIToken(m) \/ CreateIfUnderLimit(m)
         \/ \E t \in tokens : RevokeAPIToken(t)
         \/ \E q \in Requests : CreateSession(q) \/ Abort(q)
  PROVE  TypedInv'
<1> USE DEF LoginStages, ChangeStages, MintStages, JoinStages, BootStages
<1>0. Stages = {"idle", "user", "factors", "reseal", "update", "session", "previous",
                "revoke", "tokens", "tokensLate", "insert", "redeem", "done", "failed"}
  BY DEF Stages
<1>1. ASSUME NEW l \in Logins, Login(l) PROVE TypedInv'
  <2>0. l \in Requests
    BY DEF Requests
  <2>1. PICK previous \in Keys(sessions) \cup {None} :
          req' = [req EXCEPT ![l] = [pc |-> "factors", id |-> user.id, snap |-> user, with |-> previous]]
    BY <1>1 DEF Login
  <2> DEFINE p == [pc |-> "factors", id |-> user.id, snap |-> user, with |-> previous]
  <2>2. user \in User /\ user.id \in Generations
    BY DEF TypedInv, TypeOK, User
  <2>3. previous \in Requests \cup {None}
    BY DEF Keys, TypedInv, TypeOK, Session, Requests
  <2>4. p \in Request /\ p.pc = "factors" /\ p.snap.id = p.id
    BY <1>0, <2>2, <2>3 DEF Request
  <2> HIDE DEF p
  <2>5. req' \in [Requests -> Request] /\ Staged'
    BY <2>0, <2>1, <2>4, SetStaged, Disjoint DEF p
  <2> QED BY <1>1, <2>5 DEF Login, TypedInv, TypeOK, Request, tables, history
<1>2. ASSUME NEW l \in Logins, RevokePreviousSession(l) PROVE TypedInv'
  <2>1. req' \in [Requests -> Request] /\ Staged'
    BY <1>0, <1>2, GoesStaged DEF RevokePreviousSession, Requests
  <2>2. sessions' \subseteq Session
    BY <1>2 DEF RevokePreviousSession, TypedInv, TypeOK
  <2> QED BY <1>2, <2>1, <2>2 DEF RevokePreviousSession, TypedInv, TypeOK, Request, history
<1>3. ASSUME NEW s \in sessions, EndSession(s) PROVE TypedInv'
  BY <1>3 DEF EndSession, TypedInv, TypeOK, Staged, history
<1>4. ASSUME NEW c \in Changes, ChangePassword(c) PROVE TypedInv'
  <2>0. c \in Requests
    BY DEF Requests
  <2>1. PICK s \in sessions : req' = [req EXCEPT ![c].pc = "user", ![c].id = s.id, ![c].with = s.key]
    BY <1>4 DEF ChangePassword
  <2> DEFINE p == [req[c] EXCEPT !.pc = "user", !.id = s.id, !.with = s.key]
  <2>2. s.id \in Generations /\ s.key \in Requests /\ req[c] \in Request
    BY <2>0, RequestTyped DEF TypedInv, TypeOK, Session, Requests
  <2>3. p \in Request /\ p.pc = "user"
    BY <1>0, <2>2 DEF Request
  <2>4. req' = [req EXCEPT ![c] = p]
    BY <2>0, <2>1 DEF TypedInv, TypeOK
  <2> HIDE DEF p
  <2>5. req' \in [Requests -> Request] /\ Staged'
    BY <2>0, <2>3, <2>4, SetStaged, Disjoint
  <2> QED BY <1>4, <2>5 DEF ChangePassword, TypedInv, TypeOK, Request, tables, history
<1>5. ASSUME NEW c \in Changes, UpdatePassword(c) PROVE TypedInv'
  <2>1. req' \in [Requests -> Request] /\ Staged'
    BY <1>0, <1>5, GoesStaged, Disjoint DEF UpdatePassword, Requests
  <2>2. lastGen \in Generations /\ lastGen + 1 \in Generations
    BY <1>5 DEF UpdatePassword, TypedInv, TypeOK, Generations
  <2>3. user' \in User
    <3>1. user \in User /\ cost \in 0..1
      BY DEF TypedInv, TypeOK
    <3> QED BY <1>5, <2>2, <3>1 DEF UpdatePassword, User
  <2>4. before' \in [Changes -> SUBSET Requests]
    <3>1. Keys(sessions) \subseteq Requests /\ Keys(tokens) \subseteq Requests
      BY DEF Keys, TypedInv, TypeOK, Session, Token, Requests
    <3> QED BY <1>5, <3>1 DEF UpdatePassword, TypedInv, TypeOK
  <2> QED BY <1>5, <2>1, <2>2, <2>3, <2>4 DEF UpdatePassword, TypedInv, TypeOK, Request
<1>6. ASSUME NEW c \in Changes, RevokeSessions(c) PROVE TypedInv'
  <2>1. req' \in [Requests -> Request] /\ Staged'
    BY <1>0, <1>6, GoesStaged, Disjoint DEF RevokeSessions, Requests
  <2>2. sessions' \subseteq Session
    BY <1>6 DEF RevokeSessions, TypedInv, TypeOK
  <2> QED BY <1>6, <2>1, <2>2 DEF RevokeSessions, TypedInv, TypeOK, Request, history
<1>7. ASSUME NEW c \in Changes, RevokeTokens(c) PROVE TypedInv'
  <2>1. req' \in [Requests -> Request] /\ Staged'
    BY <1>0, <1>7, GoesStaged, Disjoint DEF RevokeTokens, Requests, Outcome
  <2>2. tokens' \subseteq Token
    BY <1>7 DEF RevokeTokens, TypedInv, TypeOK
  <2> QED BY <1>7, <2>1, <2>2 DEF RevokeTokens, TypedInv, TypeOK, Request, history
<1>8. ASSUME NEW m \in Mints, CreateAPIToken(m) PROVE TypedInv'
  <2>0. m \in Requests /\ req[m] \in Request /\ req[m].with \in Mints \cup {None}
    BY RequestTyped DEF Requests, TypedInv, Staged
  <2>1. ASSUME NEW id \in Generations, NEW with \in Mints \cup {None},
               req' = [req EXCEPT ![m] = [req[m] EXCEPT !.pc = "user", !.id = id, !.with = with]]
        PROVE  req' \in [Requests -> Request] /\ Staged'
    <3> DEFINE p == [req[m] EXCEPT !.pc = "user", !.id = id, !.with = with]
    <3>1. with \in Requests \cup {None}
      BY DEF Requests
    <3>2. p \in Request /\ p.pc = "user" /\ p.with = with
      BY <1>0, <2>0, <3>1 DEF Request
    <3>3. req' = [req EXCEPT ![m] = p]
      BY <2>1
    <3> HIDE DEF p
    <3> QED BY <2>0, <3>2, <3>3, SetStaged, Disjoint
  <2>2. ASSUME NEW s \in sessions, req' = [req EXCEPT ![m].pc = "user", ![m].id = s.id]
        PROVE  req' \in [Requests -> Request] /\ Staged'
    <3>1. s.id \in Generations
      BY DEF TypedInv, TypeOK, Session
    <3>2. [req[m] EXCEPT !.pc = "user", !.id = s.id, !.with = req[m].with]
            = [req[m] EXCEPT !.pc = "user", !.id = s.id]
      BY <2>0 DEF Request
    <3>3. req' = [req EXCEPT ![m] = [req[m] EXCEPT !.pc = "user", !.id = s.id]]
      BY <2>0, <2>2 DEF TypedInv, TypeOK
    <3> QED BY <2>0, <2>1, <3>1, <3>2, <3>3
  <2>3. ASSUME NEW t \in tokens, req' = [req EXCEPT ![m].pc = "user", ![m].id = t.id, ![m].with = t.key]
        PROVE  req' \in [Requests -> Request] /\ Staged'
    <3>1. t.id \in Generations /\ t.key \in Mints
      BY DEF TypedInv, TypeOK, Token
    <3>2. req' = [req EXCEPT ![m] = [req[m] EXCEPT !.pc = "user", !.id = t.id, !.with = t.key]]
      BY <2>0, <2>3 DEF TypedInv, TypeOK
    <3> QED BY <2>1, <3>1, <3>2
  <2>4. req' \in [Requests -> Request] /\ Staged'
    BY <1>8, <2>2, <2>3 DEF CreateAPIToken
  <2> QED BY <1>8, <2>4 DEF CreateAPIToken, TypedInv, TypeOK, Request, tables, history
<1>9. ASSUME NEW m \in Mints, CreateIfUnderLimit(m) PROVE TypedInv'
  <2>1. req' \in [Requests -> Request] /\ Staged'
    BY <1>0, <1>9, GoesStaged, Disjoint DEF CreateIfUnderLimit, Requests
  <2>2. tokens' \subseteq Token
    BY <1>9, TokenTyped DEF CreateIfUnderLimit, TypedInv, TypeOK
  <2> QED BY <1>9, <2>1, <2>2 DEF CreateIfUnderLimit, TypedInv, TypeOK, Request, history
<1>10. ASSUME NEW t \in tokens, RevokeAPIToken(t) PROVE TypedInv'
  BY <1>10 DEF RevokeAPIToken, TypedInv, TypeOK, Staged, history
<1>11. ASSUME NEW q \in Requests, CreateSession(q) PROVE TypedInv'
  <2>1. q \in Logins \/ q \in Changes
    BY <1>11 DEF CreateSession, TypedInv, Staged, Requests
  <2>2. req' \in [Requests -> Request] /\ Staged'
    BY <1>0, <1>11, <2>1, GoesStaged, Disjoint DEF CreateSession
  <2>3. [key |-> q, id |-> req[q].id] \in Session
    BY <2>1, RequestTyped DEF Session
  <2>4. sessions' \subseteq Session
    BY <1>11, <2>3 DEF CreateSession, TypedInv, TypeOK
  <2> QED BY <1>11, <2>2, <2>4 DEF CreateSession, TypedInv, TypeOK, Request, history
<1>12. ASSUME NEW q \in Requests, Abort(q) PROVE TypedInv'
  <2>1. req' \in [Requests -> Request] /\ Staged'
    BY <1>0, <1>12, GoesStaged DEF Abort
  <2> QED BY <1>12, <2>1 DEF Abort, TypedInv, TypeOK, Request, tables, history
<1> QED BY <1>1, <1>2, <1>3, <1>4, <1>5, <1>6, <1>7, <1>8, <1>9, <1>10, <1>11, <1>12

LEMMA TypedStep == TypedInv /\ [Next]_vars => TypedInv'
<1> SUFFICES ASSUME TypedInv, [Next]_vars PROVE TypedInv'
  OBVIOUS
<1>1. CASE UNCHANGED vars
  BY <1>1 DEF vars, tables, history, TypedInv, TypeOK, Staged
<1> QED BY <1>1, AccountsTyped, FactorsTyped, CredentialsTyped DEF Next

LEMMA Typed == Spec => []TypedInv
  BY TypedInit, TypedStep, PTL DEF Spec

(* Every state of the tables and requests is well typed.                   *)
THEOREM TypeCorrect == Spec => []TypeOK
<1>1. TypedInv => TypeOK
  BY DEF TypedInv
<1> QED BY <1>1, Typed, PTL

-----------------------------------------------------------------------------
(* One-time codes.  Whoever accepts a code raises the counter of the       *)
(* account to it, and no account has the number of an earlier one.         *)
CodesInv ==
  /\ user.id <= lastGen
  /\ \A a \in accepted :
       a.id # 0 /\ a.id <= lastGen /\ (a.id = user.id => a.code <= user.counter)
  /\ CodesAcceptedOnce

LEMMA CodesStep == TypedInv /\ CodesInv /\ [Next]_vars => CodesInv'
<1> SUFFICES ASSUME TypedInv, CodesInv, [Next]_vars PROVE CodesInv'
  OBVIOUS
<1> USE DEF CodesInv, CodesAcceptedOnce
<1>0. /\ user \in User /\ user.id \in Nat /\ user.counter \in Nat /\ lastGen \in Nat
      /\ \A a \in accepted : a.id \in Nat /\ a.code \in Nat
  BY DEF TypedInv, TypeOK, User, Generations
<1>1. CASE UNCHANGED <<user, lastGen, accepted>>
  BY <1>1
<1>2. ASSUME NEW j \in Joins, RedeemInvite(j) PROVE CodesInv'
  <2>1. CASE UNCHANGED <<user, lastGen>>
    BY <1>1, <1>2, <2>1 DEF RedeemInvite
  <2>2. CASE user' = NewUser /\ lastGen' = lastGen + 1
    <3>1. user'.id = lastGen + 1
      BY <2>2 DEF NewUser
    <3>2. accepted' = accepted
      BY <1>2 DEF RedeemInvite
    <3> QED BY <1>0, <2>2, <3>1, <3>2
  <2> QED BY <1>2, <2>1, <2>2 DEF RedeemInvite
<1>3. CASE RevokeUser
  <2>1. user'.id = 0 /\ UNCHANGED <<lastGen, accepted>>
    BY <1>3, Sizes DEF RevokeUser, history
  <2> QED BY <1>0, <2>1
<1>4. ASSUME UNCHANGED accepted, user'.id = user.id, user'.counter = user.counter,
             lastGen' \in {lastGen, lastGen + 1}
      PROVE  CodesInv'
  BY <1>0, <1>4
<1>5. ASSUME NEW q \in Requests, ResealTOTPSecret(q) PROVE CodesInv'
  <2>1. user'.id = user.id /\ user'.counter = user.counter
    BY <1>0, <1>5 DEF ResealTOTPSecret, User
  <2> QED BY <1>4, <1>5, <2>1 DEF ResealTOTPSecret, history
<1>6. ASSUME NEW c \in Changes, UpdatePassword(c) PROVE CodesInv'
  <2>1. user'.id = user.id /\ user'.counter = user.counter
    BY <1>0, <1>6 DEF UpdatePassword, User
  <2> QED BY <1>4, <1>6, <2>1 DEF UpdatePassword
<1>7. ASSUME NEW q \in Requests, NEW k \in 1..MaxCode, VerifyFactors(q, k) PROVE CodesInv'
  <2>1. CASE ~CodeFresh(q, k)
    BY <1>1, <1>7, <2>1 DEF VerifyFactors
  <2>2. CASE CodeFresh(q, k)
    <3> DEFINE new == [id |-> req[q].snap.id, code |-> k, by |-> q]
    <3>1. user' = [user EXCEPT !.counter = k] /\ accepted' = accepted \cup {new} /\ lastGen' = lastGen
      BY <1>7, <2>2 DEF VerifyFactors
    <3>2. req[q].snap.id = req[q].id
      BY <1>7 DEF VerifyFactors, TypedInv, Staged
    <3>3. user.id = req[q].id /\ user.id # 0 /\ user.counter < k
      BY <2>2 DEF CodeFresh, Lives
    <3>4. new.id = user.id /\ new.code = k
      BY <3>2, <3>3
    <3>5. user'.id = user.id /\ user'.counter = k
      BY <1>0, <3>1 DEF User
    <3>6. k \in Nat
      OBVIOUS
    <3>7. \A a \in accepted : a.id = user.id => a.code < k
      BY <1>0, <3>3, <3>6
    <3> HIDE DEF new
    <3>8. \A a \in accepted' :
            a.id # 0 /\ a.id <= lastGen' /\ (a.id = user'.id => a.code <= user'.counter)
      BY <1>0, <3>1, <3>3, <3>4, <3>5, <3>6, <3>7
    <3>9. \A a \in accepted : ~(a.id = new.id /\ a.code = new.code)
      BY <1>0, <3>4, <3>6, <3>7
    <3>10. \A a, b \in accepted' : a.id = b.id /\ a.code = b.code => a = b
      BY <3>1, <3>9
    <3> QED BY <3>1, <3>5, <3>8, <3>10
  <2> QED BY <2>1, <2>2
<1> QED BY <1>1, <1>2, <1>3, <1>5, <1>6, <1>7 DEF Next, vars, tables, history, BootstrapCheck, BootstrapCreate,
      GenerateInvite, InviteExpires, AcceptInvite, RaiseCost, Login, RevokePreviousSession, EndSession,
      ChangePassword, RevokeSessions, RevokeTokens, CreateAPIToken, CreateIfUnderLimit, RevokeAPIToken,
      ReadUser, CreateSession, Abort

(* A one-time code of an account is accepted once, for any number of       *)
(* logins, step-ups and password changes.                                  *)
THEOREM CodesOnce == Spec => []CodesAcceptedOnce
<1>1. Init => CodesInv
  BY Sizes DEF Init, CodesInv, CodesAcceptedOnce
<1>2. CodesInv => CodesAcceptedOnce
  BY DEF CodesInv
<1> QED BY <1>1, <1>2, CodesStep, Typed, PTL DEF Spec

-----------------------------------------------------------------------------
(* How accounts begin: an invite that led to one is spent, and the         *)
(* bootstrap has led to the admin's.                                       *)
OriginInv ==
  /\ admitted[Bootstrap] = (IF admin THEN 1 ELSE 0)
  /\ \A i \in Invites : admitted[i] = 0 \/ (admitted[i] = 1 /\ invites[i] = "spent")

LEMMA OriginStep == TypedInv /\ OriginInv /\ [Next]_vars => OriginInv'
<1> SUFFICES ASSUME TypedInv, OriginInv, [Next]_vars PROVE OriginInv'
  OBVIOUS
<1> USE DEF OriginInv
<1>1. CASE UNCHANGED <<admin, invites, admitted>>
  BY <1>1
<1>2. ASSUME NEW b \in Boots, BootstrapCreate(b) PROVE OriginInv'
  <2>1. CASE SingleAdmin
    <3>1. admin' = TRUE /\ Admit(Bootstrap) /\ invites' = invites /\ ~admin
      BY <1>2, <2>1 DEF BootstrapCreate, SingleAdmin
    <3>2. admitted'[Bootstrap] = 1 /\ \A i \in Invites : admitted'[i] = admitted[i]
      BY <3>1, AdmitTyped
    <3> QED BY <3>1, <3>2
  <2>2. CASE ~SingleAdmin
    BY <1>1, <1>2, <2>2 DEF BootstrapCreate
  <2> QED BY <2>1, <2>2
<1>3. ASSUME NEW i \in Invites, GenerateInvite(i) \/ InviteExpires(i) PROVE OriginInv'
  <2>1. UNCHANGED <<admin, admitted>> /\ \A h \in Invites : invites[h] = "spent" => invites'[h] = "spent"
    BY <1>3 DEF GenerateInvite, InviteExpires, history, TypedInv, TypeOK
  <2> QED BY <2>1
<1>4. ASSUME NEW j \in Joins, RedeemInvite(j) PROVE OriginInv'
  <2> DEFINE i == req[j].with
  <2>1. i \in Invites /\ admin' = admin
    BY <1>4 DEF RedeemInvite, TypedInv, Staged, Requests
  <2>2. CASE InviteOpen(i) /\ Admit(i) /\ invites' = [invites EXCEPT ![i] = "spent"]
    <3>1. admitted[i] = 0
      BY <2>1, <2>2 DEF InviteOpen
    <3>2. /\ admitted'[i] = 1 /\ \A h \in Invites \ {i} : admitted'[h] = admitted[h]
          /\ admitted'[Bootstrap] = admitted[Bootstrap]
      BY <2>1, <2>2, <3>1, AdmitTyped
    <3>3. invites'[i] = "spent" /\ \A h \in Invites \ {i} : invites'[h] = invites[h]
      BY <2>1, <2>2 DEF TypedInv, TypeOK
    <3> HIDE DEF i
    <3> QED BY <2>1, <3>2, <3>3
  <2>3. CASE UNCHANGED <<invites, admitted>>
    BY <1>1, <2>1, <2>3
  <2> QED BY <1>4, <2>2, <2>3 DEF RedeemInvite
<1> QED BY <1>1, <1>2, <1>3, <1>4 DEF Next, vars, tables, history, BootstrapCheck, AcceptInvite, RevokeUser,
      RaiseCost, Login, RevokePreviousSession, EndSession, ChangePassword, UpdatePassword, RevokeSessions,
      RevokeTokens, CreateAPIToken, CreateIfUnderLimit, RevokeAPIToken, VerifyFactors, ResealTOTPSecret,
      ReadUser, CreateSession, Abort

(* Each invite, and the bootstrap, leads to one account at most.           *)
THEOREM OriginsOnce == Spec => []OriginsServeOnce
<1>1. Init => OriginInv
  BY DEF Init, OriginInv
<1>2. TypedInv /\ OriginInv => OriginsServeOnce
  <2> SUFFICES ASSUME TypedInv, OriginInv, NEW o \in DOMAIN admitted PROVE admitted[o] <= 1
    BY DEF OriginsServeOnce
  <2>1. o \in Invites \/ o = Bootstrap
    BY DEF TypedInv, TypeOK
  <2> QED BY <2>1 DEF OriginInv
<1> QED BY <1>1, <1>2, OriginStep, Typed, PTL DEF Spec

-----------------------------------------------------------------------------
(* What a step does to the requests: those that have made their session or *)
(* token, or never will, stay so, and a password change goes on only by    *)
(* its own steps.                                                          *)
Past == {"previous", "revoke", "tokens", "tokensLate", "done", "failed"}

(* The steps of request q. *)
Acts(q) ==
  \/ q \in Boots /\ (BootstrapCheck(q) \/ BootstrapCreate(q))
  \/ q \in Joins /\ (AcceptInvite(q) \/ RedeemInvite(q))
  \/ q \in Logins /\ (Login(q) \/ RevokePreviousSession(q))
  \/ q \in Changes /\ (ChangePassword(q) \/ UpdatePassword(q) \/ RevokeSessions(q) \/ RevokeTokens(q))
  \/ q \in Mints /\ (CreateAPIToken(q) \/ CreateIfUnderLimit(q))
  \/ \E k \in 1..MaxCode : VerifyFactors(q, k)
  \/ ReadUser(q) \/ ResealTOTPSecret(q) \/ CreateSession(q) \/ Abort(q)

(* Only q moves, and does not come back from the stages of Past. *)
Moves(q) ==
  /\ \A r \in Requests \ {q} : req'[r] = req[r]
  /\ req[q].pc \in Past => req'[q].pc \in Past

LEMMA GoesMoves ==
  ASSUME TypedInv, NEW q \in Requests, NEW pc \in Stages, Goes(q, pc),
         req[q].pc \in Past => pc \in Past
  PROVE  Moves(q)
<1>1. req \in [Requests -> Request]
  BY DEF TypedInv, TypeOK, Request
<1>2. /\ \A p \in Requests \ {q} : req'[p] = req[p]
      /\ req'[q].pc = pc \/ (req'[q].pc = "done" /\ pc \in {"done", "failed"})
  BY <1>1, GoesTo
<1> QED BY <1>2 DEF Moves, Past

LEMMA ActsMove ==
  ASSUME TypedInv, NEW x \in Requests, Acts(x) PROVE Moves(x)
<1>0. Stages = {"idle", "user", "factors", "reseal", "update", "session", "previous",
                "revoke", "tokens", "tokensLate", "insert", "redeem", "done", "failed"}
  BY DEF Stages
<1>1. ASSUME NEW q \in Requests, req[q].pc \notin Past,
             \A r \in Requests \ {q} : req'[r] = req[r]
      PROVE  Moves(q)
  BY <1>1 DEF Moves
<1>2. ASSUME NEW q \in Requests, NEW p, req' = [req EXCEPT ![q] = p], req[q].pc \notin Past PROVE Moves(q)
  <2>1. \A r \in Requests \ {q} : req'[r] = req[r]
    BY <1>2 DEF TypedInv, TypeOK
  <2> QED BY <1>1, <1>2, <2>1
<1>3. ASSUME NEW b \in Boots, BootstrapCheck(b) \/ BootstrapCreate(b) PROVE Moves(b)
  <2>1. b \in Requests /\ req[b].pc \notin Past /\ \E pc \in Stages : Goes(b, pc)
    BY <1>0, <1>3 DEF BootstrapCheck, BootstrapCreate, Arrives, Past, Requests
  <2> QED BY <2>1, GoesMoves
<1>4. ASSUME NEW j \in Joins, AcceptInvite(j) PROVE Moves(j)
  <2>1. PICK i \in Invites : req' = [req EXCEPT ![j].pc = "redeem", ![j].with = i]
    BY <1>4 DEF AcceptInvite
  <2>2. j \in Requests /\ req[j].pc \notin Past
    BY <1>4 DEF AcceptInvite, Arrives, Past, Requests
  <2>3. \A r \in Requests \ {j} : req'[r] = req[r]
    BY <2>1 DEF TypedInv, TypeOK
  <2> QED BY <1>1, <2>2, <2>3
<1>5. ASSUME NEW j \in Joins, RedeemInvite(j) PROVE Moves(j)
  <2>1. j \in Requests /\ req[j].pc \notin Past /\ \E pc \in Stages : Goes(j, pc)
    BY <1>0, <1>5 DEF RedeemInvite, Past, Requests
  <2> QED BY <2>1, GoesMoves
<1>6. ASSUME NEW l \in Logins, Login(l) PROVE Moves(l)
  <2>1. l \in Requests /\ req[l].pc \notin Past
    BY <1>6 DEF Login, Arrives, Past, Requests
  <2> QED BY <1>2, <1>6, <2>1 DEF Login
<1>7. ASSUME NEW l \in Logins, RevokePreviousSession(l) PROVE Moves(l)
  <2>1. l \in Requests /\ Goes(l, "done")
    BY <1>7 DEF RevokePreviousSession, Requests
  <2> QED BY <1>0, <2>1, GoesMoves DEF Past
<1>8. ASSUME NEW c \in Changes, ChangePassword(c) PROVE Moves(c)
  <2>1. PICK s \in sessions : req' = [req EXCEPT ![c].pc = "user", ![c].id = s.id, ![c].with = s.key]
    BY <1>8 DEF ChangePassword
  <2>2. c \in Requests /\ req[c].pc \notin Past
    BY <1>8 DEF ChangePassword, Arrives, Past, Requests
  <2>3. \A r \in Requests \ {c} : req'[r] = req[r]
    BY <2>1 DEF TypedInv, TypeOK
  <2> QED BY <1>1, <2>2, <2>3
<1>9. ASSUME NEW c \in Changes, UpdatePassword(c) \/ RevokeSessions(c) \/ RevokeTokens(c) PROVE Moves(c)
  <2>1. c \in Requests
    BY DEF Requests
  <2>2. CASE UpdatePassword(c)
    BY <1>0, <2>1, <2>2, GoesMoves DEF UpdatePassword, Past
  <2>3. CASE RevokeSessions(c)
    BY <1>0, <2>1, <2>3, GoesMoves DEF RevokeSessions, Past
  <2>4. CASE RevokeTokens(c)
    <3>1. Goes(c, "done") \/ Goes(c, "failed")
      BY <2>4 DEF RevokeTokens, Outcome
    <3> QED BY <1>0, <2>1, <3>1, GoesMoves DEF Past
  <2> QED BY <1>9, <2>2, <2>3, <2>4
<1>10. ASSUME NEW m \in Mints, CreateAPIToken(m) PROVE Moves(m)
  <2>1. m \in Requests /\ req[m].pc \notin Past
    BY <1>10 DEF CreateAPIToken, Arrives, Past, Requests
  <2>2. \A r \in Requests \ {m} : req'[r] = req[r]
    BY <1>10 DEF CreateAPIToken, TypedInv, TypeOK
  <2> QED BY <1>1, <2>1, <2>2
<1>11. ASSUME NEW m \in Mints, CreateIfUnderLimit(m) PROVE Moves(m)
  <2>1. m \in Requests /\ (Goes(m, "done") \/ Goes(m, "failed"))
    BY <1>11 DEF CreateIfUnderLimit, Requests
  <2> QED BY <1>0, <2>1, GoesMoves DEF Past
<1>12. ASSUME NEW q \in Requests, NEW k \in 1..MaxCode, VerifyFactors(q, k) PROVE Moves(q)
  <2>1. req[q].pc \notin Past /\ \E pc \in Stages : Goes(q, pc)
    BY <1>0, <1>12 DEF VerifyFactors, AfterFactors, Past
  <2> QED BY <2>1, GoesMoves
<1>13. ASSUME NEW q \in Requests, ReadUser(q) PROVE Moves(q)
  <2>1. req[q].pc \notin Past
    BY <1>13 DEF ReadUser, Past
  <2>2. CASE Goes(q, "failed")
    BY <1>0, <2>1, <2>2, GoesMoves
  <2>3. CASE Lives(req[q].id)
    <3>1. \A r \in Requests \ {q} : req'[r] = req[r]
      BY <1>13, <2>3 DEF ReadUser, TypedInv, TypeOK
    <3> QED BY <1>1, <2>1, <3>1
  <2> QED BY <1>13, <2>2, <2>3 DEF ReadUser
<1>14. ASSUME NEW q \in Requests, ResealTOTPSecret(q) PROVE Moves(q)
  <2>1. req[q].pc \notin Past /\ \E pc \in Stages : Goes(q, pc)
    BY <1>0, <1>14 DEF ResealTOTPSecret, AfterFactors, Past
  <2> QED BY <2>1, GoesMoves
<1>15. ASSUME NEW q \in Requests, CreateSession(q) PROVE Moves(q)
  <2>1. req[q].pc \notin Past /\ \E pc \in Stages : Goes(q, pc)
    BY <1>0, <1>15 DEF CreateSession, Past
  <2> QED BY <2>1, GoesMoves
<1>16. ASSUME NEW q \in Requests, Abort(q) PROVE Moves(q)
  BY <1>0, <1>16, GoesMoves DEF Abort, Past
<1> QED BY <1>3, <1>4, <1>5, <1>6, <1>7, <1>8, <1>9, <1>10, <1>11, <1>12, <1>13, <1>14, <1>15, <1>16 DEF Acts

LEMMA EveryStepActs ==
  ASSUME [Next]_vars PROVE req' = req \/ \E q \in Requests : Acts(q)
<1>1. UNCHANGED vars => req' = req
  BY DEF vars
<1> QED BY <1>1 DEF Next, GenerateInvite, InviteExpires, RevokeUser, RaiseCost, EndSession, RevokeAPIToken,
      Acts, Requests

LEMMA PastStays ==
  ASSUME TypedInv, [Next]_vars, NEW q \in Requests, req[q].pc \in Past
  PROVE  req'[q].pc \in Past
  BY EveryStepActs, ActsMove DEF Moves

(* How a password change comes to the stages that matter. *)
LEMMA ChangeMoves ==
  ASSUME TypedInv, [Next]_vars, NEW c \in Changes
  PROVE  \/ req'[c] = req[c]
         \/ req'[c].pc \notin {"revoke", "tokens", "done"}
         \/ /\ req'[c].id = req[c].id /\ Lives(req[c].id) /\ user' = user
            /\ req[c].pc = "session" /\ req'[c].pc = "revoke"
         \/ /\ req'[c].id = req[c].id /\ UNCHANGED <<user, tokens>>
            /\ req[c].pc = "revoke" /\ req'[c].pc = "tokens"
            /\ sessions' = {s \in sessions : s.id # req[c].id \/ s.key = c}
         \/ /\ UNCHANGED <<user, sessions>>
            /\ req[c].pc = "tokens" /\ req'[c].pc = "done"
            /\ tokens' = {t \in tokens : t.id # req[c].id}
<1>0. /\ c \in Requests /\ req \in [Requests -> Request] /\ req[c] \in Request
      /\ c \notin Boots /\ c \notin Joins /\ c \notin Logins /\ c \notin Mints
  BY Disjoint, RequestTyped DEF Requests, TypedInv, TypeOK, Request
<1>1. CASE req' = req
  BY <1>1
<1>2. ASSUME NEW q \in Requests, Acts(q), q # c PROVE req'[c] = req[c]
  BY <1>0, <1>2, ActsMove DEF Moves
<1>3. ASSUME NEW pc \in Stages, Goes(c, pc), pc \notin {"revoke", "tokens", "done"}
      PROVE  req'[c].pc \notin {"revoke", "tokens", "done"}
  BY <1>0, <1>3, GoesTo
<1>4. Stages = {"idle", "user", "factors", "reseal", "update", "session", "previous",
                "revoke", "tokens", "tokensLate", "insert", "redeem", "done", "failed"}
  BY DEF Stages
<1>5. ASSUME Acts(c) PROVE
         \/ req'[c] = req[c]
         \/ req'[c].pc \notin {"revoke", "tokens", "done"}
         \/ /\ req'[c].id = req[c].id /\ Lives(req[c].id) /\ user' = user
            /\ req[c].pc = "session" /\ req'[c].pc = "revoke"
         \/ /\ req'[c].id = req[c].id /\ UNCHANGED <<user, tokens>>
            /\ req[c].pc = "revoke" /\ req'[c].pc = "tokens"
            /\ sessions' = {s \in sessions : s.id # req[c].id \/ s.key = c}
         \/ /\ UNCHANGED <<user, sessions>>
            /\ req[c].pc = "tokens" /\ req'[c].pc = "done"
            /\ tokens' = {t \in tokens : t.id # req[c].id}
  <2>1. CASE ChangePassword(c)
    <3>1. PICK s \in sessions : req' = [req EXCEPT ![c].pc = "user", ![c].id = s.id, ![c].with = s.key]
      BY <2>1 DEF ChangePassword
    <3>2. req'[c].pc = "user"
      BY <1>0, <3>1 DEF Request
    <3> QED BY <3>2
  <2>2. CASE UpdatePassword(c)
    <3>1. Goes(c, "session")
      BY <2>2 DEF UpdatePassword
    <3> QED BY <1>3, <1>4, <3>1
  <2>3. CASE RevokeSessions(c)
    <3>1. CASE Goes(c, "tokensLate")
      BY <1>3, <1>4, <3>1
    <3>2. CASE Goes(c, "tokens") /\ sessions' = {s \in sessions : s.id # req[c].id \/ s.key = c}
      <4>1. req'[c].pc = "tokens" /\ req'[c].id = req[c].id
        BY <1>0, <1>4, <3>2, GoesTo
      <4> QED BY <2>3, <3>2, <4>1 DEF RevokeSessions
    <3> QED BY <2>3, <3>1, <3>2 DEF RevokeSessions
  <2>4. CASE RevokeTokens(c)
    <3>1. CASE Goes(c, "failed")
      BY <1>3, <1>4, <3>1
    <3>2. CASE req[c].pc = "tokens" /\ Goes(c, "done") /\ tokens' = {t \in tokens : t.id # req[c].id}
      <4>1. req'[c].pc = "done"
        BY <1>0, <1>4, <3>2, GoesTo
      <4> QED BY <2>4, <3>2, <4>1 DEF RevokeTokens
    <3> QED BY <2>4, <3>1, <3>2 DEF RevokeTokens, Outcome
  <2>5. ASSUME NEW k \in 1..MaxCode, VerifyFactors(c, k)
        PROVE  req'[c].pc \notin {"revoke", "tokens", "done"}
    <3>1. Goes(c, "update") \/ Goes(c, "failed")
      BY <1>0, <2>5 DEF VerifyFactors, AfterFactors
    <3> QED BY <1>3, <1>4, <3>1
  <2>6. CASE ReadUser(c)
    <3>1. CASE Goes(c, "failed")
      BY <1>3, <1>4, <3>1
    <3>2. CASE req' = [req EXCEPT ![c].snap = user, ![c].pc = "factors"]
      <4>1. req'[c].pc = "factors"
        BY <1>0, <3>2 DEF Request
      <4> QED BY <4>1
    <3> QED BY <1>0, <2>6, <3>1, <3>2 DEF ReadUser
  <2>7. CASE ResealTOTPSecret(c)
    BY <1>0, <2>7 DEF ResealTOTPSecret, TypedInv, Staged, ChangeStages
  <2>8. CASE CreateSession(c)
    <3>1. CASE Goes(c, "failed")
      BY <1>3, <1>4, <3>1
    <3>2. CASE OwnerLives(c) /\ Goes(c, "revoke")
      <4>1. req'[c].pc = "revoke" /\ req'[c].id = req[c].id
        BY <1>0, <1>4, <3>2, GoesTo
      <4> QED BY <2>8, <3>2, <4>1 DEF CreateSession, OwnerLives
    <3> QED BY <2>8, <3>1, <3>2 DEF CreateSession
  <2>9. CASE Abort(c)
    <3>1. Goes(c, "failed")
      BY <2>9 DEF Abort
    <3> QED BY <1>3, <1>4, <3>1
  <2> QED BY <1>0, <1>5, <2>1, <2>2, <2>3, <2>4, <2>5, <2>6, <2>7, <2>8, <2>9 DEF Acts
<1> QED BY <1>1, <1>2, <1>5, EveryStepActs

-----------------------------------------------------------------------------
(* Sessions and tokens belong to the account that lives; the line of a     *)
(* token holds the lines of all its issuers; and a request that has left   *)
(* one has done so for good.                                               *)
FollowInv ==
  /\ \A s \in sessions : Lives(s.id)
  /\ \A t \in tokens : Lives(t.id) /\ t.key \in t.line /\ t.line \subseteq Keys(tokens)
  /\ \A t, u \in tokens : t.key = u.key => t = u
  /\ \A t, u \in tokens : t.key \in u.line => t.line \subseteq u.line
  /\ \A k \in Keys(sessions) \cup Keys(tokens) : k \in Requests /\ req[k].pc \in Past

(* The tables lose rows, all those of their account or one token with what *)
(* it issued, or nothing.                                                  *)
LEMMA FewerRows ==
  ASSUME TypedInv, FollowInv, [Next]_vars,
         user'.id = user.id \/ (sessions' = {} /\ tokens' = {}),
         sessions' \subseteq sessions,
         tokens' \in {tokens, {}} \/ \E t \in tokens : tokens' = {u \in tokens : t.key \notin u.line}
  PROVE  FollowInv'
<1>1. Keys(sessions') \subseteq Keys(sessions) /\ Keys(tokens') \subseteq Keys(tokens) /\ tokens' \subseteq tokens
  BY DEF Keys
<1>2. \A k \in Keys(sessions') \cup Keys(tokens') : k \in Requests /\ req'[k].pc \in Past
  BY <1>1, PastStays DEF FollowInv
<1>3. /\ \A s \in sessions' : user'.id = s.id /\ s.id # 0
      /\ \A t \in tokens' : user'.id = t.id /\ t.id # 0
  BY <1>1 DEF FollowInv, Lives
<1>4. \A t \in tokens' : t.line \subseteq Keys(tokens')
  <2>1. CASE tokens' \in {tokens, {}}
    BY <2>1 DEF FollowInv, Keys
  <2>2. ASSUME NEW t \in tokens, tokens' = {u \in tokens : t.key \notin u.line},
               NEW u \in tokens', NEW k \in u.line
        PROVE  k \in Keys(tokens')
    <3>1. u \in tokens /\ t.key \notin u.line
      BY <2>2
    <3>2. PICK v \in tokens : v.key = k
      BY <3>1 DEF FollowInv, Keys
    <3>3. t.key \notin v.line
      BY <3>1, <3>2 DEF FollowInv
    <3>4. v \in tokens'
      BY <2>2, <3>3
    <3> QED BY <3>2, <3>4 DEF Keys
  <2> QED BY <2>1, <2>2
<1> QED BY <1>1, <1>2, <1>3, <1>4 DEF FollowInv, Lives, Keys

LEMMA MintFollows ==
  ASSUME TypedInv, FollowInv, [Next]_vars, NEW m \in Mints, CreateIfUnderLimit(m)
  PROVE  FollowInv'
<1>1. UNCHANGED <<user, sessions>> /\ req[m].pc = "insert" /\ m \in Requests
  BY DEF CreateIfUnderLimit, history, Requests
<1>2. CASE tokens' = tokens
  BY <1>1, <1>2, FewerRows
<1>3. CASE /\ OwnerLives(m) /\ IssuerLives(m) /\ Goes(m, "done")
           /\ tokens' = tokens \cup {[key |-> m, id |-> req[m].id, line |-> Line(m)]}
  <2> DEFINE new == [key |-> m, id |-> req[m].id, line |-> Line(m)]
             line == Line(m)
             with == req[m].with
  <2>1. new.key = m /\ new.id = req[m].id /\ new.line = line /\ tokens' = tokens \cup {new}
    BY <1>3
  <2>2. m \notin Keys(tokens) /\ \A t \in tokens : m \notin t.line /\ t.key # m
    BY <1>1 DEF FollowInv, Past, Keys
  <2>3. line = {m} \cup (IF with = None THEN {} ELSE {with}) \cup UNION {t.line : t \in {u \in tokens : u.key = with}}
    BY DEF Line, Issuer
  <2>4. with = None \/ with \in Keys(tokens)
    BY <1>3 DEF IssuerLives
  <2>5. line \subseteq {m} \cup Keys(tokens)
    BY <2>3, <2>4 DEF FollowInv
  <2>6. \A t \in tokens : t.key \in line => t.line \subseteq line
    <3> SUFFICES ASSUME NEW t \in tokens, t.key \in line PROVE t.line \subseteq line
      OBVIOUS
    <3>1. CASE t.key = with
      BY <2>3, <3>1
    <3>2. ASSUME NEW u \in tokens, u.key = with, t.key \in u.line PROVE t.line \subseteq line
      BY <2>3, <3>2 DEF FollowInv
    <3>3. t.key # m
      BY <2>2
    <3> QED BY <2>3, <3>1, <3>2, <3>3
  <2>7. m \in line
    BY <2>3
  <2>8. req'[m].pc \in Past
    <3>1. req \in [Requests -> Request] /\ "done" \in Stages
      BY DEF TypedInv, TypeOK, Request, Stages
    <3> QED BY <1>1, <1>3, <3>1, GoesTo DEF Past
  <2>9. user.id = req[m].id /\ user.id # 0
    BY <1>3 DEF OwnerLives, Lives
  <2> HIDE DEF new, line, with
  <2>10. {r.key : r \in tokens'} = {r.key : r \in tokens} \cup {m}
    BY <2>1
  <2>11. \A k \in Keys(sessions) \cup Keys(tokens) : k \in Requests /\ req'[k].pc \in Past
    BY PastStays DEF FollowInv
  <2>12. \A s \in sessions' : user'.id = s.id /\ s.id # 0
    BY <1>1 DEF FollowInv, Lives
  <2>13. \A t \in tokens' : /\ user'.id = t.id /\ t.id # 0 /\ t.key \in t.line
                            /\ t.line \subseteq {r.key : r \in tokens'}
    BY <1>1, <2>1, <2>5, <2>7, <2>9, <2>10 DEF FollowInv, Lives, Keys
  <2>14. \A t, u \in tokens' : t.key = u.key => t = u
    BY <2>1, <2>2 DEF FollowInv
  <2>15. \A t, u \in tokens' : t.key \in u.line => t.line \subseteq u.line
    BY <2>1, <2>2, <2>6 DEF FollowInv
  <2>16. \A k \in {r.key : r \in sessions'} \cup {r.key : r \in tokens'} :
            k \in Requests /\ req'[k].pc \in Past
    BY <1>1, <2>8, <2>10, <2>11 DEF Keys
  <2> QED BY <2>12, <2>13, <2>14, <2>15, <2>16 DEF FollowInv, Lives, Keys
<1> QED BY <1>2, <1>3 DEF CreateIfUnderLimit

LEMMA SessionFollows ==
  ASSUME TypedInv, FollowInv, [Next]_vars, NEW q \in Requests, CreateSession(q)
  PROVE  FollowInv'
<1>1. UNCHANGED <<user, tokens>>
  BY DEF CreateSession
<1>2. CASE sessions' = sessions
  BY <1>1, <1>2, FewerRows
<1>3. CASE /\ OwnerLives(q) /\ Goes(q, IF q \in Changes THEN "revoke" ELSE "previous")
           /\ sessions' = sessions \cup {[key |-> q, id |-> req[q].id]}
  <2>1. req'[q].pc \in Past
    <3>1. req \in [Requests -> Request] /\ "revoke" \in Stages /\ "previous" \in Stages
      BY DEF TypedInv, TypeOK, Request, Stages
    <3> QED BY <1>3, <3>1, GoesTo DEF Past
  <2>2. \A s \in sessions' : user'.id = s.id /\ s.id # 0
    BY <1>1, <1>3 DEF FollowInv, Lives, OwnerLives
  <2>3. \A k \in Keys(sessions) \cup Keys(tokens) : k \in Requests /\ req'[k].pc \in Past
    BY PastStays DEF FollowInv
  <2> DEFINE new == [key |-> q, id |-> req[q].id]
  <2>6. new.key = q /\ sessions' = sessions \cup {new}
    BY <1>3
  <2> HIDE DEF new
  <2>4. {r.key : r \in sessions'} = {r.key : r \in sessions} \cup {q}
    BY <2>6
  <2>5. \A k \in {r.key : r \in sessions'} \cup {r.key : r \in tokens'} :
            k \in Requests /\ req'[k].pc \in Past
    BY <1>1, <2>1, <2>3, <2>4 DEF Keys
  <2> QED BY <1>1, <2>2, <2>5 DEF FollowInv, Lives, Keys
<1> QED BY <1>2, <1>3 DEF CreateSession

(* Nothing belongs to an account that is gone or has just begun. *)
LEMMA NewOwner ==
  ASSUME TypedInv, FollowInv, [Next]_vars, user'.id # user.id
  PROVE  sessions' = {} /\ tokens' = {}
<1>1. user \in User
  BY DEF TypedInv, TypeOK
<1>2. ASSUME NEW j \in Joins, RedeemInvite(j) PROVE sessions' = {} /\ tokens' = {}
  <2>1. user.id = 0
    BY <1>2, Sizes DEF RedeemInvite
  <2> QED BY <1>2, <2>1 DEF RedeemInvite, FollowInv, Lives
<1>3. CASE RevokeUser
  BY <1>3 DEF RevokeUser, FollowInv, Lives
<1>4. \A q \in Requests : ResealTOTPSecret(q) => user'.id = user.id
  BY <1>1 DEF ResealTOTPSecret, User
<1>5. \A q \in Requests, k \in 1..MaxCode : VerifyFactors(q, k) => user'.id = user.id
  BY <1>1 DEF VerifyFactors, User
<1>6. \A c \in Changes : UpdatePassword(c) => user'.id = user.id
  BY <1>1 DEF UpdatePassword, User
<1> QED BY <1>2, <1>3, <1>4, <1>5, <1>6 DEF Next, vars, tables, history, BootstrapCheck, BootstrapCreate,
      GenerateInvite, InviteExpires, AcceptInvite, RaiseCost, Login, RevokePreviousSession, EndSession,
      ChangePassword, RevokeSessions, RevokeTokens, CreateAPIToken, CreateIfUnderLimit, RevokeAPIToken,
      ReadUser, CreateSession, Abort

LEMMA FollowStep == TypedInv /\ FollowInv /\ [Next]_vars => FollowInv'
<1> SUFFICES ASSUME TypedInv, FollowInv, [Next]_vars PROVE FollowInv'
  OBVIOUS
<1>0. user'.id = user.id \/ (sessions' = {} /\ tokens' = {})
  BY NewOwner
<1>1. CASE UNCHANGED <<sessions, tokens>>
  BY <1>0, <1>1, FewerRows
<1>2. CASE RevokeUser
  <2>1. sessions' = {} /\ tokens' = {}
    BY <1>2 DEF RevokeUser, FollowInv, Lives
  <2> QED BY <2>1, FewerRows
<1>3. ASSUME NEW l \in Logins, RevokePreviousSession(l) PROVE FollowInv'
  BY <1>0, <1>3, FewerRows DEF RevokePreviousSession
<1>4. ASSUME NEW s \in sessions, EndSession(s) PROVE FollowInv'
  BY <1>0, <1>4, FewerRows DEF EndSession
<1>5. ASSUME NEW c \in Changes, RevokeSessions(c) PROVE FollowInv'
  BY <1>0, <1>5, FewerRows DEF RevokeSessions
<1>6. ASSUME NEW c \in Changes, RevokeTokens(c) PROVE FollowInv'
  <2>1. CASE tokens' = tokens
    BY <1>0, <1>6, <2>1, FewerRows DEF RevokeTokens
  <2>2. CASE tokens' = {t \in tokens : t.id # req[c].id}
    <3>1. \A t \in tokens : t.id = user.id
      BY DEF FollowInv, Lives
    <3>2. tokens' \in {tokens, {}}
      <4>1. CASE req[c].id = user.id
        BY <2>2, <3>1, <4>1
      <4>2. CASE req[c].id # user.id
        BY <2>2, <3>1, <4>2
      <4> QED BY <4>1, <4>2
    <3> QED BY <1>0, <1>6, <3>2, FewerRows DEF RevokeTokens
  <2> QED BY <1>6, <2>1, <2>2 DEF RevokeTokens
<1>7. ASSUME NEW t \in tokens, RevokeAPIToken(t) PROVE FollowInv'
  BY <1>0, <1>7, FewerRows DEF RevokeAPIToken
<1> QED BY <1>1, <1>2, <1>3, <1>4, <1>5, <1>6, <1>7, MintFollows, SessionFollows DEF Next, vars, tables,
      history, BootstrapCheck, BootstrapCreate, GenerateInvite, InviteExpires, AcceptInvite, RedeemInvite,
      RaiseCost, Login, ChangePassword, UpdatePassword, CreateAPIToken, VerifyFactors, ReadUser,
      ResealTOTPSecret, Abort

LEMMA FollowInit == Init => FollowInv
  BY DEF Init, FollowInv, Keys

(* No credential outlives its account or any of its issuers.               *)
THEOREM CredentialsFollow == Spec => []CredentialsFollowOwners
<1>1. FollowInv => CredentialsFollowOwners
  BY DEF FollowInv, CredentialsFollowOwners
<1> QED BY <1>1, FollowInit, FollowStep, Typed, PTL DEF Spec

-----------------------------------------------------------------------------
(* New rows are made by requests that have not made any. *)
LEMMA NewSessions ==
  ASSUME TypedInv, [Next]_vars, NEW s \in sessions'
  PROVE  s \in sessions \/ (s.key \in Requests /\ req[s.key].pc = "session")
<1>1. ASSUME NEW q \in Requests, CreateSession(q)
      PROVE  s \in sessions \/ (s.key \in Requests /\ req[s.key].pc = "session")
  <2>1. CASE sessions' = sessions
    BY <2>1
  <2>2. CASE sessions' = sessions \cup {[key |-> q, id |-> req[q].id]}
    BY <1>1, <2>2 DEF CreateSession
  <2> QED BY <1>1, <2>1, <2>2 DEF CreateSession
<1>2. CASE UNCHANGED sessions
  BY <1>2
<1> QED BY <1>1, <1>2 DEF Next, vars, tables, history, BootstrapCheck, BootstrapCreate, GenerateInvite,
      InviteExpires, AcceptInvite, RedeemInvite, RevokeUser, RaiseCost, Login, RevokePreviousSession,
      EndSession, ChangePassword, UpdatePassword, RevokeSessions, RevokeTokens, CreateAPIToken,
      CreateIfUnderLimit, RevokeAPIToken, VerifyFactors, ReadUser, ResealTOTPSecret, Abort

LEMMA NewTokens ==
  ASSUME TypedInv, FollowInv, [Next]_vars, NEW t \in tokens', NEW k \in t.line
  PROVE  (\E u \in tokens : k \in u.line) \/ (k \in Requests /\ req[k].pc = "insert")
<1>1. CASE t \in tokens
  BY <1>1
<1>2. ASSUME NEW m \in Mints, CreateIfUnderLimit(m), t \notin tokens
      PROVE  (\E u \in tokens : k \in u.line) \/ (k \in Requests /\ req[k].pc = "insert")
  <2> DEFINE with == req[m].with
             line == Line(m)
             new == [key |-> m, id |-> req[m].id, line |-> line]
  <2>1. tokens' = tokens \cup {new} /\ IssuerLives(m) /\ req[m].pc = "insert" /\ m \in Requests
    BY <1>2 DEF CreateIfUnderLimit, Requests
  <2>2. new.line = line
    OBVIOUS
  <2>3. line = {m} \cup (IF with = None THEN {} ELSE {with}) \cup UNION {u.line : u \in {v \in tokens : v.key = with}}
    BY DEF Line, Issuer
  <2>4. with = None \/ \E u \in tokens : u.key = with /\ with \in u.line
    BY <2>1 DEF IssuerLives, Keys, FollowInv
  <2> HIDE DEF new, line, with
  <2>5. k \in line
    BY <1>2, <2>1, <2>2
  <2> QED BY <2>1, <2>3, <2>4, <2>5
<1>3. CASE tokens' \subseteq tokens
  BY <1>1, <1>3
<1> QED BY <1>1, <1>2, <1>3 DEF Next, vars, tables, history, BootstrapCheck, BootstrapCreate,
      GenerateInvite, InviteExpires, AcceptInvite, RedeemInvite, RevokeUser, RaiseCost, Login,
      RevokePreviousSession, EndSession, ChangePassword, UpdatePassword, RevokeSessions, RevokeTokens,
      CreateAPIToken, RevokeAPIToken, VerifyFactors, ReadUser, CreateSession, ResealTOTPSecret, Abort

(* What a change has found it finds once, and it is over by then.          *)
LEMMA BeforeStays ==
  ASSUME TypedInv, [Next]_vars, NEW c \in Changes
  PROVE  \/ before'[c] = before[c]
         \/ UpdatePassword(c) /\ before'[c] = Keys(sessions) \cup Keys(tokens)
<1>1. before \in [Changes -> SUBSET Requests]
  BY DEF TypedInv, TypeOK
<1>2. ASSUME NEW d \in Changes, UpdatePassword(d)
      PROVE  \/ before'[c] = before[c]
             \/ UpdatePassword(c) /\ before'[c] = Keys(sessions) \cup Keys(tokens)
  BY <1>1, <1>2 DEF UpdatePassword
<1>3. CASE UNCHANGED before
  BY <1>3
<1> QED BY <1>2, <1>3 DEF Next, vars, tables, history, BootstrapCheck, BootstrapCreate, GenerateInvite,
      InviteExpires, AcceptInvite, RedeemInvite, RevokeUser, RaiseCost, Login, RevokePreviousSession,
      EndSession, ChangePassword, RevokeSessions, RevokeTokens, CreateAPIToken, CreateIfUnderLimit,
      RevokeAPIToken, VerifyFactors, ReadUser, CreateSession, ResealTOTPSecret, Abort

(* Once the tables are clean of requests that are over they stay so.       *)
NoSessionOf(old) == \A s \in sessions : s.key \notin old
NoTokenOf(old) == \A t \in tokens : \A k \in t.line : k \notin old

LEMMA CleanStays ==
  ASSUME TypedInv, FollowInv, [Next]_vars, NEW old,
         \A k \in old : k \in Requests /\ req[k].pc \in Past
  PROVE  /\ NoSessionOf(old) => \A s \in sessions' : s.key \notin old
         /\ NoTokenOf(old) => \A t \in tokens' : \A k \in t.line : k \notin old
<1>1. ASSUME NoSessionOf(old), NEW s \in sessions', s.key \in old PROVE FALSE
  BY <1>1, NewSessions DEF NoSessionOf, Past
<1>2. ASSUME NoTokenOf(old), NEW t \in tokens', NEW k \in t.line, k \in old PROVE FALSE
  BY <1>2, NewTokens DEF NoTokenOf, Past
<1> QED BY <1>1, <1>2

(* How far a change has come in ending what it found: of an account that   *)
(* is gone nothing is left anyway.                                         *)
Ending(c) ==
  /\ c \notin before[c]
  /\ \A k \in before[c] : k \in Requests /\ req[k].pc \in Past
  /\ req[c].pc = "revoke" /\ user.id # req[c].id => NoSessionOf(before[c]) /\ NoTokenOf(before[c])
  /\ req[c].pc = "tokens" => /\ NoSessionOf(before[c])
                             /\ user.id # req[c].id => NoTokenOf(before[c])
  /\ req[c].pc = "done" => NoSessionOf(before[c]) /\ NoTokenOf(before[c])
EndInv == \A c \in Changes : Ending(c)

LEMMA EndStep == TypedInv /\ FollowInv /\ EndInv /\ [Next]_vars => EndInv'
<1> SUFFICES ASSUME TypedInv, FollowInv, EndInv, [Next]_vars, NEW c \in Changes PROVE Ending(c)'
  BY DEF EndInv
<1>0. c \in Requests /\ Ending(c)
  BY DEF Requests, EndInv
<1>1. CASE UpdatePassword(c) /\ before'[c] = Keys(sessions) \cup Keys(tokens)
  <2>1. req[c].pc = "update" /\ req'[c].pc = "session"
    <3>1. req \in [Requests -> Request] /\ "session" \in Stages
      BY DEF TypedInv, TypeOK, Request, Stages
    <3> QED BY <1>0, <1>1, <3>1, GoesTo DEF UpdatePassword
  <2>2. \A k \in before'[c] : k \in Requests /\ req[k].pc \in Past /\ req'[k].pc \in Past
    BY <1>1, PastStays DEF FollowInv
  <2>3. c \notin before'[c]
    BY <2>1, <2>2 DEF Past
  <2> QED BY <2>1, <2>2, <2>3 DEF Ending
<1>2. CASE before'[c] = before[c]
  <2> DEFINE old == before[c]
  <2>1. c \notin old /\ \A k \in old : k \in Requests /\ req[k].pc \in Past /\ req'[k].pc \in Past
    BY <1>0, PastStays DEF Ending
  <2>2. /\ NoSessionOf(old) => \A s \in sessions' : s.key \notin old
        /\ NoTokenOf(old) => \A t \in tokens' : \A k \in t.line : k \notin old
    BY <2>1, CleanStays
  <2>3. user'.id = user.id \/ (sessions' = {} /\ tokens' = {})
    BY NewOwner
  <2>4. /\ \A s \in sessions : s.id = user.id
        /\ \A t \in tokens : t.id = user.id
    BY DEF FollowInv, Lives
  <2>5. CASE req'[c] = req[c]
    BY <1>0, <1>2, <2>1, <2>2, <2>3, <2>5 DEF Ending, NoSessionOf, NoTokenOf
  <2>6. CASE req'[c].pc \notin {"revoke", "tokens", "done"}
    BY <1>2, <2>1, <2>6 DEF Ending
  <2>7. CASE /\ req'[c].id = req[c].id /\ Lives(req[c].id) /\ user' = user
             /\ req[c].pc = "session" /\ req'[c].pc = "revoke"
    BY <1>2, <2>1, <2>7 DEF Ending, Lives
  <2>8. CASE /\ req'[c].id = req[c].id /\ UNCHANGED <<user, tokens>>
             /\ req[c].pc = "revoke" /\ req'[c].pc = "tokens"
             /\ sessions' = {s \in sessions : s.id # req[c].id \/ s.key = c}
    BY <1>0, <1>2, <2>1, <2>2, <2>4, <2>8 DEF Ending, NoSessionOf, NoTokenOf
  <2>9. CASE /\ UNCHANGED <<user, sessions>>
             /\ req[c].pc = "tokens" /\ req'[c].pc = "done"
             /\ tokens' = {t \in tokens : t.id # req[c].id}
    BY <1>0, <1>2, <2>1, <2>2, <2>4, <2>9 DEF Ending, NoSessionOf, NoTokenOf
  <2> QED BY <2>5, <2>6, <2>7, <2>8, <2>9, ChangeMoves
<1> QED BY <1>1, <1>2, BeforeStays

LEMMA EndInit == Init => EndInv
<1> SUFFICES ASSUME Init, NEW c \in Changes PROVE Ending(c)
  BY DEF EndInv
<1>1. c \in Requests /\ before[c] = {} /\ sessions = {} /\ tokens = {}
  BY DEF Init, Requests
<1> QED BY <1>1 DEF Ending, NoSessionOf, NoTokenOf

(* A password change that reports success has ended every session and      *)
(* token that it found, and what those tokens issued.                      *)
THEOREM OldCredentialsGone == Spec => []OldCredentialsEnd
<1>1. EndInv => OldCredentialsEnd
  <2> SUFFICES ASSUME EndInv, NEW c \in Changes, req[c].pc = "done"
               PROVE  /\ Keys(sessions) \cap before[c] = {}
                      /\ \A t \in tokens : t.line \cap before[c] = {}
    BY DEF OldCredentialsEnd
  <2>1. NoSessionOf(before[c]) /\ NoTokenOf(before[c])
    BY DEF EndInv, Ending
  <2> QED BY <2>1 DEF NoSessionOf, NoTokenOf, Keys
<1> QED BY <1>1, EndInit, EndStep, FollowInit, FollowStep, Typed, PTL DEF Spec

-----------------------------------------------------------------------------
(* The seal of the TOTP secret.  A reseal that was read before a password  *)
(* change and written after it leaves a secret that nobody can open.  That *)
(* is the only way to such a secret.                                       *)

(* The secret opens, unless the operator has raised the argon2 cost and    *)
(* the account has changed its password (resealTOTPSecret).                *)
SecretOpensUnlessRaced == ~SecretOpens => cost = 1 /\ user.gen # user.id

(* A secret ceases to open only by a reseal that read the row before the   *)
(* last password change of this account.                                   *)
SecretLostOnlyByStaleReseal ==
  [][SecretOpens /\ ~SecretOpens' =>
       \E q \in Requests :
         /\ req[q].pc = "reseal" /\ Lives(req[q].snap.id)
         /\ req[q].snap.gen < user.gen /\ user'.seal = req[q].snap.gen]_vars

(* A snapshot is of the account as it is or was, and nobody reseals while  *)
(* there is one cost.                                                      *)
Older(snap) ==
  /\ snap.id <= snap.gen /\ snap.id <= lastGen
  /\ Lives(snap.id) => snap.gen <= user.gen

SealInv ==
  /\ SecretOpensUnlessRaced
  /\ cost = 0 => user.cost = 0 /\ \A q \in Requests : req[q].pc # "reseal" /\ req[q].snap.cost = 0
  /\ user.id <= user.gen /\ user.gen <= lastGen
  /\ \A q \in Requests : Older(req[q].snap)

LEMMA GoesSnap ==
  ASSUME TypedInv, NEW q \in Requests, NEW pc \in Stages, Goes(q, pc)
  PROVE  /\ req'[q].pc = "reseal" <=> pc = "reseal"
         /\ req'[q].snap = (IF pc = "reseal" THEN req[q].snap ELSE NoUser)
<1>1. req \in [Requests -> Request] /\ req[q] \in Request
  BY DEF TypedInv, TypeOK, Request
<1>2. CASE pc \in {"done", "failed"}
  <2> DEFINE p == [Begun EXCEPT !.pc = IF q \in Changes THEN pc ELSE "done"]
  <2>1. req' = [req EXCEPT ![q] = p]
    BY <1>2 DEF Goes, Ended
  <2>2. p.snap = NoUser /\ p.pc # "reseal"
    BY <1>2, BegunIsRequest DEF Begun
  <2> HIDE DEF p
  <2> QED BY <1>1, <1>2, <2>1, <2>2
<1>3. CASE pc \notin {"done", "failed"}
  <2> DEFINE r == req[q]
             p == [r EXCEPT !.pc = pc, !.snap = IF pc = "reseal" THEN r.snap ELSE NoUser]
  <2>1. req' = [req EXCEPT ![q] = p]
    BY <1>3 DEF Goes
  <2>2. p.pc = pc /\ p.snap = (IF pc = "reseal" THEN r.snap ELSE NoUser)
    BY <1>1 DEF Request
  <2> HIDE DEF p
  <2> QED BY <1>1, <2>1, <2>2
<1> QED BY <1>2, <1>3

(* What a request that acts holds next: nothing, or what it held, or the   *)
(* row; and it comes to reseal only if the cost is not that of its row.    *)
SnapMove(q) ==
  \/ req'[q].pc # "reseal" /\ req'[q].snap \in {NoUser, req[q].snap}
  \/ req'[q].pc # "reseal" /\ req'[q].snap = user /\ UNCHANGED <<user, cost, lastGen>>
  \/ req'[q].snap = req[q].snap /\ req[q].snap.cost # cost /\ cost' = cost

LEMMA SnapMoves ==
  ASSUME TypedInv, NEW x \in Requests, Acts(x)
  PROVE  SnapMove(x)
<1>0. Stages = {"idle", "user", "factors", "reseal", "update", "session", "previous",
                "revoke", "tokens", "tokensLate", "insert", "redeem", "done", "failed"}
  BY DEF Stages
<1>a. req \in [Requests -> Request]
  BY DEF TypedInv, TypeOK, Request
<1>1. ASSUME NEW q \in Requests, NEW pc \in Stages \ {"reseal"}, Goes(q, pc) PROVE SnapMove(q)
  BY <1>1, GoesSnap DEF SnapMove
<1>2. ASSUME NEW b \in Boots, BootstrapCheck(b) \/ BootstrapCreate(b) PROVE SnapMove(b)
  BY <1>0, <1>1, <1>2 DEF BootstrapCheck, BootstrapCreate, Requests
<1>3. ASSUME NEW j \in Joins, AcceptInvite(j) PROVE SnapMove(j)
  <2>1. PICK i \in Invites : req' = [req EXCEPT ![j].pc = "redeem", ![j].with = i]
    BY <1>3 DEF AcceptInvite
  <2>2. req'[j].pc = "redeem" /\ req'[j].snap = req[j].snap
    BY <1>a, <2>1 DEF Requests, Request
  <2> QED BY <2>2 DEF SnapMove
<1>4. ASSUME NEW j \in Joins, RedeemInvite(j) PROVE SnapMove(j)
  BY <1>0, <1>1, <1>4 DEF RedeemInvite, Requests
<1>5. ASSUME NEW l \in Logins, Login(l) PROVE SnapMove(l)
  <2>1. PICK previous \in Keys(sessions) \cup {None} :
          req' = [req EXCEPT ![l] = [pc |-> "factors", id |-> user.id, snap |-> user, with |-> previous]]
    BY <1>5 DEF Login
  <2>2. req'[l].pc = "factors" /\ req'[l].snap = user
    BY <1>a, <2>1 DEF Requests
  <2> QED BY <1>5, <2>2 DEF SnapMove, Login, tables, history
<1>6. ASSUME NEW l \in Logins, RevokePreviousSession(l) PROVE SnapMove(l)
  BY <1>0, <1>1, <1>6 DEF RevokePreviousSession, Requests
<1>7. ASSUME NEW c \in Changes, ChangePassword(c) PROVE SnapMove(c)
  <2>1. PICK s \in sessions : req' = [req EXCEPT ![c].pc = "user", ![c].id = s.id, ![c].with = s.key]
    BY <1>7 DEF ChangePassword
  <2>2. req'[c].pc = "user" /\ req'[c].snap = req[c].snap
    BY <1>a, <2>1 DEF Requests, Request
  <2> QED BY <2>2 DEF SnapMove
<1>8. ASSUME NEW c \in Changes, UpdatePassword(c) \/ RevokeSessions(c) \/ RevokeTokens(c) PROVE SnapMove(c)
  <2>1. \E pc \in {"session", "tokens", "tokensLate", "done", "failed"} : Goes(c, pc)
    BY <1>8 DEF UpdatePassword, RevokeSessions, RevokeTokens, Outcome
  <2> QED BY <1>0, <1>1, <2>1 DEF Requests
<1>9. ASSUME NEW m \in Mints, CreateAPIToken(m) PROVE SnapMove(m)
  <2>1. \E i, k : \/ req' = [req EXCEPT ![m].pc = "user", ![m].id = i]
                  \/ req' = [req EXCEPT ![m].pc = "user", ![m].id = i, ![m].with = k]
    BY <1>9 DEF CreateAPIToken
  <2>2. req'[m].pc = "user" /\ req'[m].snap = req[m].snap
    BY <1>a, <2>1 DEF Requests, Request
  <2> QED BY <2>2 DEF SnapMove
<1>10. ASSUME NEW m \in Mints, CreateIfUnderLimit(m) PROVE SnapMove(m)
  BY <1>0, <1>1, <1>10 DEF CreateIfUnderLimit, Requests
<1>11. ASSUME NEW q \in Requests, NEW k \in 1..MaxCode, VerifyFactors(q, k) PROVE SnapMove(q)
  <2>1. CASE req[q].snap.cost # cost /\ Goes(q, "reseal")
    <3>1. req'[q].snap = req[q].snap
      BY <1>0, <2>1, GoesSnap
    <3> QED BY <1>11, <2>1, <3>1 DEF SnapMove, VerifyFactors
  <2>2. CASE \E pc \in {"session", "insert", "update", "failed"} : Goes(q, pc)
    BY <1>0, <1>1, <2>2
  <2> QED BY <1>11, <2>1, <2>2 DEF VerifyFactors, AfterFactors
<1>12. ASSUME NEW q \in Requests, ReadUser(q) PROVE SnapMove(q)
  <2>1. CASE Goes(q, "failed")
    BY <1>0, <1>1, <2>1
  <2>2. CASE Lives(req[q].id)
    <3> DEFINE pc == IF q \in Mints /\ req[q].with = None THEN "insert" ELSE "factors"
    <3>1. req' = [req EXCEPT ![q].snap = user, ![q].pc = pc]
      BY <1>12, <2>2 DEF ReadUser
    <3>2. req'[q].snap = user /\ req'[q].pc # "reseal"
      BY <1>a, <3>1 DEF Request
    <3> QED BY <1>12, <3>2 DEF SnapMove, ReadUser, tables, history
  <2> QED BY <1>12, <2>1, <2>2 DEF ReadUser
<1>13. ASSUME NEW q \in Requests, ResealTOTPSecret(q) PROVE SnapMove(q)
  <2>1. \E pc \in {"session", "insert", "update"} : Goes(q, pc)
    BY <1>13 DEF ResealTOTPSecret, AfterFactors
  <2> QED BY <1>0, <1>1, <2>1
<1>14. ASSUME NEW q \in Requests, CreateSession(q) \/ Abort(q) PROVE SnapMove(q)
  <2>1. \E pc \in {"revoke", "previous", "failed"} : Goes(q, pc)
    BY <1>14 DEF CreateSession, Abort
  <2> QED BY <1>0, <1>1, <2>1
<1> QED BY <1>2, <1>3, <1>4, <1>5, <1>6, <1>7, <1>8, <1>9, <1>10, <1>11, <1>12, <1>13, <1>14 DEF Acts

(* What a step does to the row, to the cost and to the generations.        *)
LEMMA RowMoves ==
  ASSUME TypedInv, [Next]_vars
  PROVE  \/ UNCHANGED <<user, cost, lastGen>>
         \/ user' = NewUser /\ lastGen' = lastGen + 1 /\ cost' = cost
         \/ user' = NoUser /\ UNCHANGED <<cost, lastGen>>
         \/ UNCHANGED <<user, lastGen>> /\ cost' = 1
         \/ \E k \in Nat : user' = [user EXCEPT !.counter = k] /\ UNCHANGED <<cost, lastGen>>
         \/ \E q \in Requests :
              /\ req[q].pc = "reseal" /\ Lives(req[q].snap.id) /\ UNCHANGED <<cost, lastGen>>
              /\ user' = [user EXCEPT !.seal = req[q].snap.gen, !.cost = cost]
         \/ /\ user' = [user EXCEPT !.gen = lastGen + 1, !.seal = lastGen + 1, !.cost = cost]
            /\ lastGen' = lastGen + 1 /\ cost' = cost
         \/ UNCHANGED <<user, cost>> /\ lastGen' = lastGen + 1
<1>1. ASSUME NEW j \in Joins, RedeemInvite(j)
      PROVE  \/ user' = NewUser /\ lastGen' = lastGen + 1 /\ cost' = cost
             \/ UNCHANGED <<user, cost, lastGen>>
  BY <1>1 DEF RedeemInvite
<1>2. ASSUME NEW q \in Requests, NEW k \in 1..MaxCode, VerifyFactors(q, k)
      PROVE  UNCHANGED <<user, cost, lastGen>> \/ (user' = [user EXCEPT !.counter = k] /\ UNCHANGED <<cost, lastGen>>)
  BY <1>2 DEF VerifyFactors
<1>3. ASSUME NEW q \in Requests, ResealTOTPSecret(q)
      PROVE  \/ UNCHANGED <<user, cost, lastGen>>
             \/ /\ req[q].pc = "reseal" /\ Lives(req[q].snap.id) /\ UNCHANGED <<cost, lastGen>>
                /\ user' = [user EXCEPT !.seal = req[q].snap.gen, !.cost = cost]
  BY <1>3 DEF ResealTOTPSecret, history
<1>4. ASSUME NEW c \in Changes, UpdatePassword(c)
      PROVE  \/ /\ user' = [user EXCEPT !.gen = lastGen + 1, !.seal = lastGen + 1, !.cost = cost]
                /\ lastGen' = lastGen + 1 /\ cost' = cost
             \/ UNCHANGED <<user, cost>> /\ lastGen' = lastGen + 1
  BY <1>4 DEF UpdatePassword
<1>5. RevokeUser => user' = NoUser /\ UNCHANGED <<cost, lastGen>>
  BY DEF RevokeUser, history
<1>6. RaiseCost => UNCHANGED <<user, lastGen>> /\ cost' = 1
  BY DEF RaiseCost, history
<1>7. ASSUME ~\E j \in Joins : RedeemInvite(j),
             ~\E q \in Requests : ResealTOTPSecret(q) \/ \E k \in 1..MaxCode : VerifyFactors(q, k),
             ~\E c \in Changes : UpdatePassword(c), ~RevokeUser, ~RaiseCost
      PROVE  UNCHANGED <<user, cost, lastGen>>
  BY <1>7 DEF Next, vars, tables, history, BootstrapCheck, BootstrapCreate, GenerateInvite, InviteExpires,
     AcceptInvite, Login, RevokePreviousSession, EndSession, ChangePassword, RevokeSessions, RevokeTokens,
     CreateAPIToken, CreateIfUnderLimit, RevokeAPIToken, ReadUser, CreateSession, Abort
<1>8. \A k \in 1..MaxCode : k \in Nat
  OBVIOUS
<1>9. CASE \/ \E j \in Joins : RedeemInvite(j)
           \/ \E c \in Changes : UpdatePassword(c)
           \/ RevokeUser \/ RaiseCost
  BY <1>1, <1>4, <1>5, <1>6, <1>9
<1>10. CASE \E q \in Requests : ResealTOTPSecret(q)
  BY <1>3, <1>10
<1>11. CASE \E q \in Requests, k \in 1..MaxCode : VerifyFactors(q, k)
  BY <1>2, <1>8, <1>11
<1> QED BY <1>7, <1>9, <1>10, <1>11

LEMMA SealTypes ==
  ASSUME TypedInv
  PROVE  /\ user \in User /\ user.id \in Nat /\ user.gen \in Nat /\ user.seal \in Nat /\ user.cost \in 0..1
         /\ lastGen \in Nat /\ cost \in 0..1
         /\ \A q \in Requests : req[q].snap \in User /\ req[q].snap.id \in Nat /\ req[q].snap.gen \in Nat
         /\ NoUser.id = 0 /\ NoUser.gen = 0 /\ NoUser.seal = 0 /\ NoUser.cost = 0
         /\ NewUser.id = lastGen + 1 /\ NewUser.gen = lastGen + 1 /\ NewUser.seal = lastGen + 1
         /\ NewUser.cost = cost
<1>1. user \in User /\ lastGen \in Nat /\ cost \in 0..1
  BY DEF TypedInv, TypeOK, Generations
<1>2. \A q \in Requests : req[q].snap \in User
  BY RequestTyped
<1>3. \A u \in User : u.id \in Nat /\ u.gen \in Nat /\ u.seal \in Nat /\ u.cost \in 0..1
  BY DEF User, Generations
<1> QED BY <1>1, <1>2, <1>3 DEF NoUser, NewUser

(* The row keeps its account and its generation, or has a fresh one, or is *)
(* gone.                                                                   *)
LEMMA GenMoves ==
  ASSUME TypedInv, [Next]_vars
  PROVE  /\ lastGen' \in Nat /\ lastGen <= lastGen'
         /\ \/ user'.id = user.id /\ user'.gen = user.gen
            \/ user'.id = user.id /\ user'.gen = lastGen + 1 /\ lastGen' = lastGen + 1
            \/ user'.id = lastGen + 1 /\ user'.gen = lastGen + 1 /\ lastGen' = lastGen + 1
            \/ user'.id = 0 /\ user'.gen = 0
<1> DEFINE Same == user'.id = user.id /\ user'.gen = user.gen
<1>0. user \in User /\ lastGen \in Nat
  BY SealTypes
<1>1. ASSUME NEW k, user' = [user EXCEPT !.counter = k] PROVE Same
  BY <1>0, <1>1 DEF User
<1>2. ASSUME NEW g, NEW c, user' = [user EXCEPT !.seal = g, !.cost = c] PROVE Same
  BY <1>0, <1>2 DEF User
<1>3. ASSUME NEW g, NEW c, user' = [user EXCEPT !.gen = g, !.seal = g, !.cost = c]
      PROVE  user'.id = user.id /\ user'.gen = g
  BY <1>0, <1>3 DEF User
<1>4. lastGen' \in {lastGen, lastGen + 1}
  BY RowMoves
<1>5. lastGen' \in Nat /\ lastGen <= lastGen'
  BY <1>0, <1>4
<1>6. CASE UNCHANGED user \/ user' = NoUser \/ (user' = NewUser /\ lastGen' = lastGen + 1)
  BY <1>0, <1>5, <1>6, SealTypes
<1>7. CASE \/ \E k : user' = [user EXCEPT !.counter = k]
           \/ \E g, c : user' = [user EXCEPT !.seal = g, !.cost = c]
  <2>1. Same
    BY <1>1, <1>2, <1>7
  <2> QED BY <1>5, <2>1
<1>8. CASE user' = [user EXCEPT !.gen = lastGen + 1, !.seal = lastGen + 1, !.cost = cost] /\ lastGen' = lastGen + 1
  BY <1>5, <1>3, <1>8
<1> QED BY <1>6, <1>7, <1>8, RowMoves

(* What becomes of the seal and its cost.                                  *)
LEMMA SealMoves ==
  ASSUME TypedInv, SealInv, [Next]_vars
  PROVE  /\ SecretOpensUnlessRaced'
         /\ cost' = 0 => cost = 0 /\ user'.cost = 0
         /\ SecretOpens /\ ~SecretOpens' =>
              \E q \in Requests : /\ req[q].pc = "reseal" /\ Lives(req[q].snap.id)
                                  /\ req[q].snap.gen < user.gen /\ user'.seal = req[q].snap.gen
<1> USE DEF SecretOpens, SecretOpensUnlessRaced
<1>0. SecretOpensUnlessRaced /\ user.id <= user.gen /\ (cost = 0 => user.cost = 0)
  BY DEF SealInv
<1>1. CASE UNCHANGED user /\ cost' \in {cost, 1}
  BY <1>0, <1>1, SealTypes
<1>2. CASE user' \in {NoUser, NewUser} /\ cost' = cost
  BY <1>2, SealTypes
<1>3. ASSUME NEW k \in Nat, user' = [user EXCEPT !.counter = k], cost' = cost
      PROVE  /\ user'.seal = user.seal /\ user'.gen = user.gen /\ user'.id = user.id /\ user'.cost = user.cost
  BY <1>3, SealTypes DEF User
<1>4. ASSUME user' = [user EXCEPT !.gen = lastGen + 1, !.seal = lastGen + 1, !.cost = cost], cost' = cost
      PROVE  user'.seal = user'.gen /\ user'.cost = cost
  BY <1>4, SealTypes DEF User
<1>5. ASSUME NEW q \in Requests, req[q].pc = "reseal", Lives(req[q].snap.id), cost' = cost,
             user' = [user EXCEPT !.seal = req[q].snap.gen, !.cost = cost]
      PROVE  /\ SecretOpensUnlessRaced'
             /\ cost' = 0 => FALSE
             /\ user'.seal # user'.gen => req[q].snap.gen < user.gen /\ user'.seal = req[q].snap.gen
  <2>1. user'.seal = req[q].snap.gen /\ user'.gen = user.gen /\ user'.id = user.id
    BY <1>5, SealTypes DEF User
  <2>2. /\ req[q].snap.id <= req[q].snap.gen /\ req[q].snap.gen <= user.gen
        /\ req[q].snap.id = user.id /\ cost = 1
    BY <1>5, SealTypes DEF SealInv, Older, Lives
  <2> QED BY <1>5, <2>1, <2>2, SealTypes
<1>6. CASE \E k \in Nat : user' = [user EXCEPT !.counter = k] /\ cost' = cost
  BY <1>0, <1>3, <1>6
<1>7. CASE user' = [user EXCEPT !.gen = lastGen + 1, !.seal = lastGen + 1, !.cost = cost] /\ cost' = cost
  BY <1>4, <1>7
<1>8. CASE \E q \in Requests :
             /\ req[q].pc = "reseal" /\ Lives(req[q].snap.id) /\ cost' = cost
             /\ user' = [user EXCEPT !.seal = req[q].snap.gen, !.cost = cost]
  BY <1>5, <1>8
<1>9. \/ UNCHANGED user /\ cost' \in {cost, 1}
      \/ user' \in {NoUser, NewUser} /\ cost' = cost
      \/ \E k \in Nat : user' = [user EXCEPT !.counter = k] /\ cost' = cost
      \/ user' = [user EXCEPT !.gen = lastGen + 1, !.seal = lastGen + 1, !.cost = cost] /\ cost' = cost
      \/ \E q \in Requests :
           /\ req[q].pc = "reseal" /\ Lives(req[q].snap.id) /\ cost' = cost
           /\ user' = [user EXCEPT !.seal = req[q].snap.gen, !.cost = cost]
  BY RowMoves
<1> QED BY <1>1, <1>2, <1>6, <1>7, <1>8, <1>9

LEMMA SealStep ==
  ASSUME TypedInv, SealInv, [Next]_vars
  PROVE  SealInv'
<1>1. /\ user'.id <= user'.gen /\ user'.gen <= lastGen' /\ lastGen <= lastGen' /\ lastGen' \in Nat
  BY GenMoves, SealTypes DEF SealInv
<1>2. ASSUME NEW snap \in User, Older(snap) PROVE Older(snap)'
  <2>1. snap.id \in Nat /\ snap.gen \in Nat
    BY DEF User, Generations
  <2> QED BY <1>2, <2>1, GenMoves, SealTypes DEF Older, Lives, SealInv
<1>3. Older(user) /\ Older(NoUser)
  BY SealTypes DEF SealInv, Older, Lives
<1>4. ASSUME NEW q \in Requests, NEW snap, snap = req'[q].snap
      PROVE  Older(snap)' /\ (cost' = 0 => req'[q].pc # "reseal" /\ snap.cost = 0)
  <2>0. /\ Older(req[q].snap) /\ req[q].snap \in User /\ NoUser \in User /\ user \in User
        /\ cost' = 0 => cost = 0
        /\ cost = 0 => req[q].pc # "reseal" /\ req[q].snap.cost = 0 /\ user.cost = 0
        /\ NoUser.cost = 0
    BY SealTypes, SealMoves, Sizes DEF SealInv
  <2>1. CASE req'[q] = req[q]
    BY <1>2, <1>4, <2>0, <2>1
  <2>2. CASE SnapMove(q)
    <3>1. CASE req'[q].pc # "reseal" /\ req'[q].snap \in {NoUser, req[q].snap, user}
      BY <1>2, <1>3, <1>4, <2>0, <3>1
    <3>2. CASE req'[q].snap = req[q].snap /\ req[q].snap.cost # cost /\ cost' = cost
      BY <1>2, <1>4, <2>0, <3>2
    <3> QED BY <2>2, <3>1, <3>2 DEF SnapMove
  <2>3. req'[q] = req[q] \/ SnapMove(q)
    BY EveryStepActs, ActsMove, SnapMoves DEF Moves
  <2> QED BY <2>1, <2>2, <2>3
<1>5. \A q \in Requests : Older(req[q].snap)'
  BY <1>4 DEF Older, Lives
<1> QED BY <1>1, <1>4, <1>5, SealMoves DEF SealInv

LEMMA SealInvariant == Spec => []SealInv
<1>1. Init => SealInv
  <2> SUFFICES ASSUME Init PROVE SealInv
    OBVIOUS
  <2>1. \A q \in Requests : req[q] = Begun
    BY DEF Init
  <2>2. /\ user \in {NoUser, FirstUser} /\ cost = 0
        /\ \/ user = NoUser /\ lastGen = 0
           \/ user = FirstUser /\ lastGen = 1
    BY DEF Init
  <2>3. /\ Begun.pc = "idle" /\ Begun.snap = NoUser
        /\ NoUser.id = 0 /\ NoUser.gen = 0 /\ NoUser.seal = 0 /\ NoUser.cost = 0
        /\ FirstUser.id = 1 /\ FirstUser.gen = 1 /\ FirstUser.seal = 1 /\ FirstUser.cost = 0
    BY DEF Begun, NoUser, FirstUser
  <2> QED BY <2>1, <2>2, <2>3 DEF SealInv, SecretOpensUnlessRaced, SecretOpens, Older, Lives
<1> QED BY <1>1, SealStep, Typed, PTL DEF Spec

(* As long as no operator raises the argon2 cost, or the account keeps its *)
(* first password, the stored secret opens.                                *)
THEOREM SecretKept == Spec => []SecretOpensUnlessRaced
<1>1. SealInv => SecretOpensUnlessRaced
  BY DEF SealInv
<1> QED BY <1>1, SealInvariant, PTL

(* And it is lost in one way only.                                         *)
THEOREM SecretLostByRace == Spec => SecretLostOnlyByStaleReseal
<1>1. TypedInv /\ SealInv /\ [Next]_vars =>
        [SecretOpens /\ ~SecretOpens' =>
           \E q \in Requests :
             /\ req[q].pc = "reseal" /\ Lives(req[q].snap.id)
             /\ req[q].snap.gen < user.gen /\ user'.seal = req[q].snap.gen]_vars
  BY SealMoves
<1> QED BY <1>1, Typed, SealInvariant, PTL DEF Spec, SecretLostOnlyByStaleReseal
=============================================================================
