----------------------------- MODULE AccountsProofs -----------------------------
(* Theorems about Access, Roles and ResetTokens, the three components that     *)
(* the account requests of the web processes go through. Each stands alone.    *)
(*                                                                             *)
(* Access, for any number of accounts and callers: AssignmentsSound needs that *)
(* a request about to insert an assignment has found its role, which is never  *)
(* deleted (Known); HeldBounded needs in addition that an account that is not  *)
(* there has no assignment, and NobodyLogsIn that no login gets past its first *)
(* statement (Locked).                                                         *)
(*                                                                             *)
(* Roles, for any names, slugs and list of defaults: DefaultsPresent needs     *)
(* that every default an ensure operation has passed is still there (Passed),  *)
(* and SlugRefusedOnlyByRace that a slug chosen by probing is free until       *)
(* another process inserts or deletes a row (Sound).                           *)
(*                                                                             *)
(* ResetTokens, for any number of users, requests and tokens, any length of    *)
(* the hour and any limit: RateBounded and LiveBounded are inductive on top of *)
(* the types: a request that joins those creating has just seen the limit, or  *)
(* spent all tokens. RedeemedBounded needs Spent: a token marked by a request  *)
(* stays used, and no request and no redemption is of a token that is yet to   *)
(* be issued.                                                                  *)
EXTENDS Access, Roles, ResetTokens, FiniteSetTheorems, SequenceTheorems, TLAPS

-----------------------------------------------------------------------------
(* The accounts, their roles and the sessions (Access).                       *)

\* A request that is about to insert an assignment names a role that is there.
Known ==
  \A c \in Callers :
    /\ request[c].op = "promote" => request[c].role \in hasRole
    /\ In(c, "assign", "absent") => request[c].role \in hasRole

\* In the tables as migrated a login does not get past its stamp.
Locked ==
  ~amended => \A c \in Callers :
    /\ session[c] = "nobody" /\ request[c].op \in {"none", "login", "promote"}
    /\ request[c].op = "login" => request[c].at = "verified"

AccessInv == AccessTypeOK /\ AssignmentsSound /\ Known /\ Locked /\ HeldBounded

\* A request in state q is about to insert a row that gives u the role r.
Grants(q, u, r) ==
  \/ q.op \in {"assign", "promote"} /\ q.at = "absent" /\ q.user = u /\ q.role = r
  \/ q.op = "create" /\ q.at = "inserted" /\ q.user = u /\ r = "member"

-----------------------------------------------------------------------------
(* Requests and assignments.                                                  *)

\* What a request has depends on its operation.
LEMMA RequestFields ==
  ASSUME NEW q \in {NoRequest} \cup Request
  PROVE  /\ q.op = "none" => q = NoRequest
         /\ q.op # "none" => q.user \in Users
         /\ q.op \in {"assign", "promote", "revoke"} => q.role \in RoleSlugs
         /\ q.op = "promote" => q.role = "superuser"
         /\ q.op \in {"none", "login", "assign", "promote", "revoke", "create", "update",
                      "delete", "password"}
  BY DEF NoRequest, Request, RoleSlugs

\* Moving on keeps a request well formed.
LEMMA MovedRequest ==
  ASSUME NEW q \in {NoRequest} \cup Request
  PROVE  /\ q.op = "login" => [q EXCEPT !.at = "stamped"] \in Request
         /\ q.op = "create" => [q EXCEPT !.at = "inserted"] \in Request
         /\ q.op \in {"assign", "promote"} => [q EXCEPT !.at = "absent"] \in Request
         /\ q.op = "revoke" => [q EXCEPT !.at = "present"] \in Request
         /\ q.op # "none" => \A place : /\ [q EXCEPT !.at = place].op = q.op
                                        /\ [q EXCEPT !.at = place].user = q.user
                                        /\ [q EXCEPT !.at = place].at = place
         /\ q.op \in {"assign", "promote", "revoke"} =>
              \A place : [q EXCEPT !.at = place].role = q.role
  BY DEF NoRequest, Request

\* One request changes, the others do not.
LEMMA OneBecomes ==
  ASSUME AccessTypeOK, NEW c \in Callers, NEW q \in {NoRequest} \cup Request, Becomes(c, q)
  PROVE  /\ request' \in [Callers -> {NoRequest} \cup Request] /\ request'[c] = q
         /\ \A d \in Callers \ {c} : request'[d] = request[d]
  BY DEF AccessTypeOK, Becomes

\* One count of assignments changes, the others do not.
LEMMA OneHeld ==
  ASSUME AccessTypeOK, NEW u \in Users, NEW r \in RoleSlugs, NEW n \in Nat, Held(u, r, n)
  PROVE  /\ held' \in [Users -> [RoleSlugs -> Nat]] /\ held'[u][r] = n
         /\ \A v \in Users, s \in RoleSlugs : v # u \/ s # r => held'[v][s] = held[v][s]
<1> DEFINE row == [held[u] EXCEPT ![r] = n]
<1>1. held[u] \in [RoleSlugs -> Nat] /\ held \in [Users -> [RoleSlugs -> Nat]]
  BY DEF AccessTypeOK
<1>2. row \in [RoleSlugs -> Nat] /\ row[r] = n /\ \A s \in RoleSlugs \ {r} : row[s] = held[u][s]
  BY <1>1
<1>3. held' = [held EXCEPT ![u] = row]
  BY DEF Held
<1> HIDE DEF row
<1>4. QED BY <1>1, <1>2, <1>3

\* The requests that are granting are those whose state is.
LEMMA GrantingIs ==
  ASSUME NEW u \in Users, NEW r \in RoleSlugs
  PROVE  Granting(u, r) = {c \in Callers : Grants(request[c], u, r)}
  BY DEF Granting, Grants, In

\* The bound is kept for one account and role when one request changes and: it does not begin
\* to grant and no row is inserted; or it inserts its row; or no row is there afterwards; or
\* the row inserted is the first, and not that of a granting request.
LEMMA BoundKept ==
  ASSUME AccessTypeOK, HeldBounded, NEW c \in Callers, NEW q, NEW u \in Users, NEW r \in RoleSlugs,
         request'[c] = q, \A d \in Callers \ {c} : request'[d] = request[d],
         held'[u][r] \in Nat,
         \/ /\ Grants(q, u, r) => Grants(request[c], u, r)
            /\ held'[u][r] <= held[u][r]
         \/ /\ ~Grants(q, u, r) /\ Grants(request[c], u, r)
            /\ held'[u][r] <= held[u][r] + 1
         \/ held'[u][r] = 0
         \/ ~Grants(q, u, r) /\ held'[u][r] <= 1
  PROVE  held'[u][r] + Cardinality(Granting(u, r)') <= Cardinality(Callers)
<1> DEFINE G == {d \in Callers : Grants(request[d], u, r)}
           H == {d \in Callers : Grants(request'[d], u, r)}
<1>1. Granting(u, r) = G /\ Granting(u, r)' = H
  BY DEF Granting, Grants, In
<1>2. IsFiniteSet(Callers) /\ Cardinality(Callers) \in Nat
  BY AccessAssumption, FS_CardinalityType DEF AccessAssumption
<1>3. G \subseteq Callers /\ H \subseteq Callers /\ IsFiniteSet(G) /\ IsFiniteSet(H)
  BY <1>2, FS_Subset
<1>4. Cardinality(G) \in Nat /\ Cardinality(H) \in Nat /\ Cardinality(H) <= Cardinality(Callers)
  BY <1>2, <1>3, FS_CardinalityType, FS_Subset
<1>5. held[u][r] \in Nat /\ held[u][r] + Cardinality(G) <= Cardinality(Callers)
  <2>1. held[u][r] \in Nat
    BY DEF AccessTypeOK
  <2>2. held[u][r] + Cardinality(Granting(u, r)) <= Cardinality(Callers)
    BY DEF HeldBounded
  <2>3. QED BY <1>1, <2>1, <2>2
<1>6. CASE (Grants(q, u, r) => Grants(request[c], u, r)) /\ held'[u][r] <= held[u][r]
  <2>1. H \subseteq G
    BY <1>6
  <2>2. Cardinality(H) <= Cardinality(G)
    BY <2>1, <1>3, FS_Subset
  <2>3. QED BY <1>1, <1>2, <1>4, <1>5, <1>6, <2>2
<1>7. CASE ~Grants(q, u, r) /\ Grants(request[c], u, r) /\ held'[u][r] <= held[u][r] + 1
  <2>1. H = G \ {c} /\ c \in G
    BY <1>7
  <2>2. Cardinality(H) = Cardinality(G) - 1
    BY <2>1, <1>3, FS_RemoveElement
  <2>3. QED BY <1>1, <1>2, <1>4, <1>5, <1>7, <2>2
<1>8. CASE ~Grants(q, u, r) /\ held'[u][r] <= 1
  <2>1. H \subseteq Callers \ {c} /\ Cardinality(Callers \ {c}) = Cardinality(Callers) - 1
    BY <1>2, <1>8, FS_RemoveElement
  <2>2. Cardinality(H) <= Cardinality(Callers) - 1
    BY <2>1, <1>2, FS_RemoveElement, FS_Subset
  <2>3. QED BY <1>1, <1>2, <1>4, <1>8, <2>2
<1>9. CASE held'[u][r] = 0
  BY <1>1, <1>2, <1>4, <1>9
<1>10. QED BY <1>6, <1>7, <1>8, <1>9

\* A request in state q keeps Known and Locked when the table has these slugs.
Fits(q, slugs) ==
  /\ q.op = "promote" => q.role \in slugs
  /\ q.op = "assign" /\ q.at = "absent" => q.role \in slugs
  /\ ~amended => /\ q.op \in {"none", "login", "promote"}
                 /\ q.op = "login" => q.at = "verified"

\* What a step of one caller must do to keep the invariant.
LEMMA StepKeeps ==
  ASSUME AccessInv, NEW c \in Callers, NEW q \in {NoRequest} \cup Request, Becomes(c, q),
         amended' = amended, hasRole \subseteq hasRole', hasRole' \subseteq RoleSlugs,
         account' \in [Users -> {"none", "active", "inactive", "gone"}],
         held' \in [Users -> [RoleSlugs -> Nat]],
         session' \in [Callers -> Users \cup {"nobody"}],
         ~amended => \A d \in Callers : session'[d] = "nobody",
         AssignmentsSound', Fits(q, hasRole'),
         \A u \in Users, r \in RoleSlugs :
           \/ /\ Grants(q, u, r) => Grants(request[c], u, r)
              /\ held'[u][r] <= held[u][r]
           \/ /\ ~Grants(q, u, r) /\ Grants(request[c], u, r)
              /\ held'[u][r] <= held[u][r] + 1
           \/ held'[u][r] = 0
           \/ ~Grants(q, u, r) /\ held'[u][r] <= 1
  PROVE  AccessInv'
<1>1. AccessTypeOK /\ HeldBounded
  BY DEF AccessInv
<1>2. /\ request' \in [Callers -> {NoRequest} \cup Request] /\ request'[c] = q
      /\ \A d \in Callers \ {c} : request'[d] = request[d]
  BY <1>1, OneBecomes
<1>3. AccessTypeOK'
  BY <1>1, <1>2 DEF AccessTypeOK
<1>4. Known'
  BY <1>2 DEF AccessInv, Known, Fits, In
<1>5. Locked'
  BY <1>2 DEF AccessInv, Locked, Fits
<1>6. HeldBounded'
  <2> SUFFICES ASSUME NEW u \in Users, NEW r \in RoleSlugs
               PROVE  held'[u][r] + Cardinality(Granting(u, r)') <= Cardinality(Callers)
    BY DEF HeldBounded
  <2>1. held'[u][r] \in Nat
    OBVIOUS
  <2>2. QED BY <1>1, <1>2, <2>1, BoundKept
<1>7. QED BY <1>3, <1>4, <1>5, <1>6 DEF AccessInv

\* A step that only moves a request on, and into granting only where no row is there.
LEMMA MoveKeeps ==
  ASSUME AccessInv, NEW c \in Callers, NEW q \in {NoRequest} \cup Request, Becomes(c, q),
         UNCHANGED <<account, hasRole, held, session, amended>>, Fits(q, hasRole),
         \A u \in Users, r \in RoleSlugs :
           Grants(q, u, r) => Grants(request[c], u, r) \/ held[u][r] = 0
  PROVE  AccessInv'
<1>1. /\ hasRole' \subseteq RoleSlugs
      /\ account' \in [Users -> {"none", "active", "inactive", "gone"}]
      /\ held' \in [Users -> [RoleSlugs -> Nat]]
      /\ session' \in [Callers -> Users \cup {"nobody"}]
  BY DEF AccessInv, AccessTypeOK
<1>2. ~amended => \A d \in Callers : session'[d] = "nobody"
  BY DEF AccessInv, Locked
<1>3. AssignmentsSound'
  BY DEF AccessInv, AssignmentsSound, There
<1>4. \A u \in Users, r \in RoleSlugs :
        \/ (Grants(q, u, r) => Grants(request[c], u, r)) /\ held'[u][r] <= held[u][r]
        \/ held'[u][r] = 0
  BY <1>1
<1>5. QED BY <1>1, <1>2, <1>3, <1>4, StepKeeps

\* So a request may end at any time, and begin or go on without granting.
LEMMA EndKeeps ==
  ASSUME AccessInv, NEW c \in Callers, Ends(c),
         UNCHANGED <<account, hasRole, held, session, amended>>
  PROVE  AccessInv'
<1>1. Fits(NoRequest, hasRole) /\ \A u \in Users, r \in RoleSlugs : ~Grants(NoRequest, u, r)
  BY DEF Fits, Grants, NoRequest
<1>2. QED BY <1>1, MoveKeeps DEF Ends

\* Before the first request.
LEMMA AccessInitInv == AccessInit => AccessInv
<1> SUFFICES ASSUME AccessInit PROVE AccessInv
  OBVIOUS
<1>1. AccessTypeOK
  BY DEF AccessInit, AccessTypeOK
<1>2. AssignmentsSound /\ Known /\ Locked
  BY DEF AccessInit, AssignmentsSound, Known, Locked, NoRequest, In
<1>3. HeldBounded
  <2> SUFFICES ASSUME NEW u \in Users, NEW r \in RoleSlugs
               PROVE  held[u][r] + Cardinality(Granting(u, r)) <= Cardinality(Callers)
    BY DEF HeldBounded
  <2>1. Granting(u, r) = {} /\ held[u][r] = 0
    BY DEF AccessInit, Granting, In, NoRequest
  <2>2. Cardinality({}) = 0 /\ Cardinality(Callers) \in Nat
    BY AccessAssumption, FS_EmptySet, FS_CardinalityType DEF AccessAssumption
  <2>3. QED BY <2>1, <2>2
<1>4. QED BY <1>1, <1>2, <1>3 DEF AccessInv

-----------------------------------------------------------------------------
(* The steps of a request.                                                    *)

\* What the invariant says of one request.
LEMMA AtRequest ==
  ASSUME AccessInv, NEW c \in Callers
  PROVE  /\ request[c] \in {NoRequest} \cup Request
         /\ Fits(request[c], hasRole)
         /\ session[c] # "nobody" => amended /\ session[c] \in Users
  BY DEF AccessInv, AccessTypeOK, Known, Locked, Fits, In

\* Neither does a request that is beginning grant anything yet.
LEMMA Beginning ==
  ASSUME NEW q \in Request, q.at \in {"begun", "verified", "stamped", "present"}
  PROVE  \A u \in Users, r \in RoleSlugs : ~Grants(q, u, r)
  BY DEF Grants

\* Authorized requests and logins begin.
LEMMA BeginInv ==
  ASSUME AccessInv, NEW c \in Callers, NEW u \in Users,
         \/ Verify(c, u)
         \/ \E op \in {"create", "update", "delete", "assign", "revoke"} : Administer(c, op, u)
         \/ \E op \in {"delete", "password"} : Own(c, op)
  PROVE  AccessInv'
<1>1. PICK q \in Request : /\ Becomes(c, q) /\ Fits(q, hasRole)
                          /\ q.at \in {"begun", "verified"}
  <2>1. CASE Verify(c, u)
    <3> DEFINE q == [op |-> "login", at |-> "verified", user |-> u]
    <3>1. q \in Request /\ Fits(q, hasRole)
      BY DEF Request, Fits
    <3>2. QED BY <2>1, <3>1 DEF Verify
  <2>2. CASE \E op \in {"create", "update", "delete", "assign", "revoke"} : Administer(c, op, u)
    <3>1. amended
      BY <2>2, AtRequest DEF Administer, Superuser, Authenticated
    <3>2. CASE \E op \in {"create", "update", "delete"} :
                 Becomes(c, [op |-> op, at |-> "begun", user |-> u])
      <4>1. PICK op \in {"create", "update", "delete"} :
              Becomes(c, [op |-> op, at |-> "begun", user |-> u])
        BY <3>2
      <4> DEFINE q == [op |-> op, at |-> "begun", user |-> u]
      <4>2. q \in Request /\ Fits(q, hasRole)
        BY <3>1 DEF Request, Fits
      <4>3. QED BY <4>1, <4>2
    <3>3. CASE \E op \in {"assign", "revoke"}, r \in RoleSlugs :
                 Becomes(c, [op |-> op, at |-> "begun", user |-> u, role |-> r])
      <4>1. PICK op \in {"assign", "revoke"}, r \in RoleSlugs :
              Becomes(c, [op |-> op, at |-> "begun", user |-> u, role |-> r])
        BY <3>3
      <4> DEFINE q == [op |-> op, at |-> "begun", user |-> u, role |-> r]
      <4>2. q \in Request /\ Fits(q, hasRole)
        BY <3>1 DEF Request, Fits
      <4>3. QED BY <4>1, <4>2
    <3>4. QED BY <2>2, <3>2, <3>3 DEF Administer
  <2>3. CASE \E op \in {"delete", "password"} : Own(c, op)
    <3>1. PICK op \in {"delete", "password"} :
            Becomes(c, [op |-> op, at |-> "begun", user |-> session[c]])
      BY <2>3 DEF Own
    <3>2. amended /\ session[c] \in Users
      BY <2>3, AtRequest DEF Own, Authenticated
    <3> DEFINE q == [op |-> op, at |-> "begun", user |-> session[c]]
    <3>3. q \in Request /\ Fits(q, hasRole)
      BY <3>2 DEF Request, Fits
    <3>4. QED BY <3>1, <3>3
  <2>4. QED BY <2>1, <2>2, <2>3
<1>2. \A v \in Users, r \in RoleSlugs : ~Grants(q, v, r)
  BY <1>1, Beginning
<1>3. UNCHANGED <<account, hasRole, held, session, amended>>
  BY DEF Verify, Administer, Own
<1>4. QED BY <1>1, <1>2, <1>3, MoveKeeps

\* The statements of a login.
LEMMA LoginInv ==
  ASSUME AccessInv, NEW c \in Callers, Stamp(c) \/ StampFails(c) \/ Establish(c) \/ Logout(c)
  PROVE  AccessInv'
<1>1. request[c] \in {NoRequest} \cup Request /\ Fits(request[c], hasRole)
  BY AtRequest
<1>2. CASE Stamp(c)
  <2> DEFINE q == [request[c] EXCEPT !.at = "stamped"]
  <2>1. q \in Request /\ q.op = "login" /\ q.at = "stamped" /\ amended /\ Becomes(c, q)
    BY <1>1, <1>2, MovedRequest DEF Stamp, In, Moves
  <2> HIDE DEF q
  <2>2. Fits(q, hasRole) /\ \A u \in Users, r \in RoleSlugs : ~Grants(q, u, r)
    BY <2>1 DEF Fits, Grants
  <2>3. QED BY <1>2, <2>1, <2>2, MoveKeeps DEF Stamp
<1>3. CASE StampFails(c)
  BY <1>3, EndKeeps DEF StampFails
<1>4. CASE Establish(c) \/ Logout(c)
  <2>1. PICK q \in {NoRequest} \cup Request :
          /\ Becomes(c, q) /\ Fits(q, hasRole)
          /\ \A u \in Users, r \in RoleSlugs : Grants(q, u, r) => Grants(request[c], u, r)
    <3>1. CASE Establish(c)
      <4>1. Fits(NoRequest, hasRole) /\ \A u \in Users, r \in RoleSlugs : ~Grants(NoRequest, u, r)
        BY DEF Fits, Grants, NoRequest
      <4>2. QED BY <3>1, <4>1 DEF Establish, Ends
    <3>2. CASE Logout(c)
      <4>1. Becomes(c, request[c])
        BY <3>2 DEF Logout, Becomes, AccessInv, AccessTypeOK
      <4>2. QED BY <1>1, <4>1
    <3>3. QED BY <1>4, <3>1, <3>2
  <2>2. amended
    <3>1. CASE Establish(c)
      BY <1>1, <3>1 DEF Establish, In, Fits
    <3>2. CASE Logout(c)
      BY <3>2, AtRequest DEF Logout, Authenticated
    <3>3. QED BY <1>4, <3>1, <3>2
  <2>3. UNCHANGED <<account, hasRole, held, amended>>
    BY <1>4 DEF Establish, Logout
  <2>4. session' \in [Callers -> Users \cup {"nobody"}]
    <3>1. session \in [Callers -> Users \cup {"nobody"}]
      BY DEF AccessInv, AccessTypeOK
    <3>2. CASE Logout(c)
      BY <3>1, <3>2 DEF Logout
    <3>3. CASE Establish(c)
      <4>1. request[c].user \in Users
        BY <1>1, <3>3, RequestFields DEF Establish, In
      <4>2. QED BY <3>1, <3>3, <4>1 DEF Establish
    <3>4. QED BY <1>4, <3>2, <3>3
  <2>5. AssignmentsSound'
    BY <2>3 DEF AccessInv, AssignmentsSound, There
  <2>6. /\ hasRole' \subseteq RoleSlugs
        /\ account' \in [Users -> {"none", "active", "inactive", "gone"}]
        /\ held' \in [Users -> [RoleSlugs -> Nat]]
    BY <2>3 DEF AccessInv, AccessTypeOK
  <2>7. \A u \in Users, r \in RoleSlugs :
          (Grants(q, u, r) => Grants(request[c], u, r)) /\ held'[u][r] <= held[u][r]
    BY <2>1, <2>3, <2>6
  <2>8. Fits(q, hasRole')
    BY <2>1, <2>3
  <2>9. QED BY <2>1, <2>2, <2>3, <2>4, <2>5, <2>6, <2>7, <2>8, StepKeeps
<1>5. QED BY <1>2, <1>3, <1>4

\* The checks before a statement, and the statement that writes only a password.
LEMMA CheckInv ==
  ASSUME AccessInv, NEW c \in Callers,
         CheckAbsent(c) \/ CheckPresent(c) \/ CheckHeld(c) \/ SetPassword(c)
  PROVE  AccessInv'
<1>1. request[c] \in {NoRequest} \cup Request /\ Fits(request[c], hasRole)
  BY AtRequest
<1>2. CASE Ends(c)
  BY <1>2, EndKeeps DEF CheckAbsent, CheckPresent, CheckHeld, SetPassword
<1>3. CASE CheckPresent(c) /\ Moves(c, "present")
  <2> DEFINE q == [request[c] EXCEPT !.at = "present"]
  <2>1. q \in Request /\ q.op = "revoke" /\ q.at = "present" /\ Becomes(c, q)
    BY <1>1, <1>3, MovedRequest DEF CheckPresent, In, Moves
  <2>2. amended
    BY <1>1, <1>3 DEF CheckPresent, In, Fits
  <2> HIDE DEF q
  <2>3. Fits(q, hasRole) /\ \A u \in Users, r \in RoleSlugs : ~Grants(q, u, r)
    BY <2>1, <2>2 DEF Fits, Grants
  <2>4. QED BY <1>3, <2>1, <2>3, MoveKeeps DEF CheckPresent
<1>4. CASE (CheckAbsent(c) \/ CheckHeld(c)) /\ Moves(c, "absent")
  <2> DEFINE q == [request[c] EXCEPT !.at = "absent"]
  <2>1. request[c].op \in {"assign", "promote"}
    BY <1>4 DEF CheckAbsent, CheckHeld, In
  <2>2. /\ q \in Request /\ q.op = request[c].op /\ q.at = "absent" /\ Becomes(c, q)
        /\ q.user = request[c].user /\ q.role = request[c].role
    BY <1>1, <1>4, <2>1, MovedRequest DEF Moves
  <2>3. request[c].op = "promote" => request[c].role = "superuser"
    BY <1>1, RequestFields
  <2>4. ~Ends(c)
    <3>1. AccessTypeOK /\ NoRequest.op = "none"
      BY DEF AccessInv, NoRequest
    <3>2. request'[c] = q
      BY <2>2, <3>1, OneBecomes
    <3>3. q # NoRequest
      BY <2>1, <2>2, <3>1
    <3>4. QED BY <3>1, <3>2, <3>3 DEF Ends, Becomes, AccessTypeOK
  <2>5. held[request[c].user][request[c].role] = 0 /\ request[c].role \in hasRole
    <3>1. CASE CheckAbsent(c)
      BY <2>4, <3>1 DEF CheckAbsent
    <3>2. CASE CheckHeld(c)
      <4>1. request[c].op = "promote" /\ ~(held[request[c].user]["superuser"] > 0)
        BY <2>4, <3>2 DEF CheckHeld, In
      <4>2. request[c].user \in Users /\ held[request[c].user]["superuser"] \in Nat
        BY <1>1, <4>1, RequestFields DEF AccessInv, AccessTypeOK, RoleSlugs
      <4>3. QED BY <1>1, <2>3, <4>1, <4>2 DEF Fits
    <3>3. QED BY <1>4, <3>1, <3>2
  <2> HIDE DEF q
  <2>6. Fits(q, hasRole)
    BY <1>1, <2>1, <2>2, <2>5 DEF Fits
  <2>7. \A u \in Users, r \in RoleSlugs : Grants(q, u, r) => held[u][r] = 0
    BY <2>1, <2>2, <2>5 DEF Grants
  <2>8. QED BY <1>4, <2>2, <2>6, <2>7, MoveKeeps DEF CheckAbsent, CheckHeld
<1>5. QED BY <1>2, <1>3, <1>4 DEF CheckAbsent, CheckPresent, CheckHeld, SetPassword

\* What every step may take from the types.
LEMMA Typed ==
  ASSUME AccessInv, UNCHANGED session
  PROVE  /\ session' \in [Callers -> Users \cup {"nobody"}]
         /\ ~amended => \A d \in Callers : session'[d] = "nobody"
         /\ held \in [Users -> [RoleSlugs -> Nat]] /\ hasRole \subseteq RoleSlugs
         /\ account \in [Users -> {"none", "active", "inactive", "gone"}]
         /\ \A r \in {"superuser", "member"} : r \in RoleSlugs
         /\ NoRequest \in {NoRequest} \cup Request
         /\ \A slugs : Fits(NoRequest, slugs)
         /\ \A u \in Users, r \in RoleSlugs : ~Grants(NoRequest, u, r)
  BY DEF AccessInv, AccessTypeOK, Locked, RoleSlugs, Fits, Grants, NoRequest

\* A row is inserted by a request that was granting it.
LEMMA GrantKeeps ==
  ASSUME AccessInv, NEW c \in Callers, NEW u \in Users, NEW r \in RoleSlugs,
         Grants(request[c], u, r), There(u), r \in hasRole,
         Held(u, r, held[u][r] + 1), Ends(c), UNCHANGED <<account, hasRole, session, amended>>
  PROVE  AccessInv'
<1>1. AccessTypeOK /\ held[u][r] + 1 \in Nat
  BY DEF AccessInv, AccessTypeOK
<1>2. /\ held' \in [Users -> [RoleSlugs -> Nat]] /\ held'[u][r] = held[u][r] + 1
      /\ \A v \in Users, s \in RoleSlugs : v # u \/ s # r => held'[v][s] = held[v][s]
  BY <1>1, OneHeld
<1>3. AssignmentsSound'
  BY <1>2 DEF AccessInv, AssignmentsSound, There
<1>4. \A v \in Users, s \in RoleSlugs :
        \/ held'[v][s] <= held[v][s]
        \/ Grants(request[c], v, s) /\ held'[v][s] <= held[v][s] + 1
  BY <1>1, <1>2, Typed
<1>5. QED BY <1>2, <1>3, <1>4, Typed, StepKeeps DEF Ends

\* The statements that insert and delete assignments.
LEMMA AssignInv ==
  ASSUME AccessInv, NEW c \in Callers,
         Assign(c) \/ AssignSuperuser(c) \/ DefaultRole(c) \/ Revoke(c)
  PROVE  AccessInv'
<1>1. request[c] \in {NoRequest} \cup Request /\ Fits(request[c], hasRole)
  BY AtRequest
<1> DEFINE u == request[c].user
<1>2. u \in Users /\ UNCHANGED <<account, hasRole, session, amended>> /\ Ends(c)
  BY <1>1, RequestFields DEF Assign, AssignSuperuser, DefaultRole, Revoke, In
<1>3. CASE UNCHANGED held
  BY <1>2, <1>3, EndKeeps
<1>4. CASE Assign(c) /\ ~UNCHANGED held
  <2>1. /\ request[c].role \in RoleSlugs /\ request[c].role \in hasRole
        /\ Grants(request[c], u, request[c].role)
    BY <1>1, <1>4, RequestFields DEF Assign, In, Fits, Grants
  <2>2. QED BY <1>2, <1>4, <2>1, GrantKeeps DEF Assign
<1>5. CASE AssignSuperuser(c) /\ ~UNCHANGED held
  <2>1. /\ request[c].role = "superuser" /\ "superuser" \in RoleSlugs
        /\ "superuser" \in hasRole /\ Grants(request[c], u, "superuser")
    BY <1>1, <1>5, RequestFields DEF AssignSuperuser, In, Fits, Grants
  <2>2. QED BY <1>2, <1>5, <2>1, GrantKeeps DEF AssignSuperuser
<1>6. CASE DefaultRole(c) /\ ~UNCHANGED held
  <2>1. "member" \in RoleSlugs /\ Grants(request[c], u, "member")
    BY <1>6 DEF DefaultRole, In, Grants, RoleSlugs
  <2>2. QED BY <1>2, <1>6, <2>1, GrantKeeps DEF DefaultRole
<1>7. CASE Revoke(c)
  <2>1. request[c].role \in RoleSlugs /\ AccessTypeOK
    BY <1>1, <1>7, RequestFields DEF Revoke, In, AccessInv
  <2>2. /\ held' \in [Users -> [RoleSlugs -> Nat]] /\ held'[u][request[c].role] = 0
        /\ \A v \in Users, s \in RoleSlugs :
             v # u \/ s # request[c].role => held'[v][s] = held[v][s]
    BY <1>2, <1>7, <2>1, OneHeld DEF Revoke
  <2>3. AssignmentsSound'
    BY <1>2, <2>2 DEF AccessInv, AssignmentsSound, There
  <2>4. \A v \in Users, s \in RoleSlugs : held'[v][s] <= held[v][s] \/ held'[v][s] = 0
    BY <1>2, <2>2, Typed
  <2>5. QED BY <1>2, <2>2, <2>3, <2>4, Typed, StepKeeps DEF Ends
<1>8. QED BY <1>3, <1>4, <1>5, <1>6, <1>7

\* The statements that create, change and delete accounts.
LEMMA AccountInv ==
  ASSUME AccessInv, NEW c \in Callers, InsertUser(c) \/ UpdateUser(c) \/ DeleteUser(c)
  PROVE  AccessInv'
<1>1. request[c] \in {NoRequest} \cup Request /\ Fits(request[c], hasRole)
  BY AtRequest
<1> DEFINE u == request[c].user
<1>2. u \in Users /\ amended /\ UNCHANGED <<hasRole, session, amended>>
  BY <1>1, RequestFields DEF InsertUser, UpdateUser, DeleteUser, In, Fits
<1>3. CASE UNCHANGED account /\ UNCHANGED held /\ Ends(c)
  BY <1>2, <1>3, EndKeeps
<1>4. CASE InsertUser(c) /\ account[u] = "none"
  <2> DEFINE q == [request[c] EXCEPT !.at = "inserted"]
  <2>1. /\ q \in Request /\ q.op = "create" /\ q.at = "inserted" /\ q.user = u
        /\ Becomes(c, q) /\ account' = [account EXCEPT ![u] = "active"] /\ UNCHANGED held
    BY <1>1, <1>4, MovedRequest DEF InsertUser, In, Moves
  <2> HIDE DEF q
  <2>2. AssignmentsSound' /\ account' \in [Users -> {"none", "active", "inactive", "gone"}]
    BY <1>2, <2>1, Typed DEF AccessInv, AssignmentsSound, There
  <2>3. \A r \in RoleSlugs : held[u][r] = 0
    BY <1>2, <1>4, Typed DEF AccessInv, AssignmentsSound, There
  <2>4. \A v \in Users, r \in RoleSlugs :
          (~Grants(q, v, r) /\ held'[v][r] <= held[v][r]) \/ held'[v][r] = 0
    BY <1>2, <2>1, <2>3, Typed DEF Grants
  <2>5. Fits(q, hasRole')
    BY <1>2, <2>1 DEF Fits
  <2>6. QED BY <1>2, <2>1, <2>2, <2>4, <2>5, Typed, StepKeeps
<1>5. CASE UpdateUser(c) /\ There(u)
  <2>1. PICK row \in {"active", "inactive"} : account' = [account EXCEPT ![u] = row]
    BY <1>5 DEF UpdateUser
  <2>2. UNCHANGED held /\ Ends(c)
    BY <1>5 DEF UpdateUser
  <2>3. AssignmentsSound' /\ account' \in [Users -> {"none", "active", "inactive", "gone"}]
    BY <1>2, <2>1, <2>2, Typed DEF AccessInv, AssignmentsSound, There
  <2>4. /\ held' \in [Users -> [RoleSlugs -> Nat]]
        /\ \A v \in Users, r \in RoleSlugs : held'[v][r] <= held[v][r]
    BY <1>2, <2>2, Typed
  <2>5. QED BY <1>2, <2>2, <2>3, <2>4, Typed, StepKeeps DEF Ends
<1>6. CASE DeleteUser(c) /\ There(u)
  <2>1. /\ account' = [account EXCEPT ![u] = "gone"] /\ Ends(c)
        /\ held' = [held EXCEPT ![u] = [r \in RoleSlugs |-> 0]]
    BY <1>6 DEF DeleteUser
  <2>2. /\ held' \in [Users -> [RoleSlugs -> Nat]]
        /\ \A r \in RoleSlugs : held'[u][r] = 0
        /\ \A v \in Users \ {u} : held'[v] = held[v]
    BY <1>2, <2>1, Typed
  <2>3. AssignmentsSound' /\ account' \in [Users -> {"none", "active", "inactive", "gone"}]
    BY <1>2, <2>1, <2>2, Typed DEF AccessInv, AssignmentsSound, There
  <2>4. \A v \in Users, r \in RoleSlugs : held'[v][r] <= held[v][r] \/ held'[v][r] = 0
    BY <2>2, Typed
  <2>5. QED BY <1>2, <2>1, <2>2, <2>3, <2>4, Typed, StepKeeps DEF Ends
<1>7. QED BY <1>3, <1>4, <1>5, <1>6 DEF InsertUser, UpdateUser, DeleteUser

\* The commands.
LEMMA CommandInv ==
  ASSUME AccessInv, NEW c \in Callers, NEW u \in Users,
         CreateSuperuser(c, u) \/ CreatePlain(c, u) \/ Promote(c, u)
  PROVE  AccessInv'
<1>1. /\ request[c] = NoRequest
      /\ Becomes(c, request[c]) \/ Promote(c, u)
      /\ UNCHANGED <<session, amended>>
  BY DEF CreateSuperuser, CreatePlain, Promote, Free, Becomes, AccessInv, AccessTypeOK
<1>2. hasRole \subseteq hasRole' /\ hasRole' \subseteq RoleSlugs
  BY Typed, <1>1 DEF CreateSuperuser, CreatePlain, Promote
<1>3. CASE CreateSuperuser(c, u) \/ CreatePlain(c, u)
  <2>1. Becomes(c, NoRequest)
    BY <1>3 DEF CreateSuperuser, CreatePlain, Free, Becomes, AccessInv, AccessTypeOK
  <2>2. /\ account' = [account EXCEPT ![u] = "active"]
        /\ held' \in [Users -> [RoleSlugs -> Nat]]
        /\ \A r \in RoleSlugs : held'[u][r] \in {0, 1} /\ (held'[u][r] = 1 => r \in hasRole')
        /\ \A v \in Users \ {u} : held'[v] = held[v]
    <3>1. PICK slugs \in SUBSET hasRole' :
            held' = [held EXCEPT ![u] = [r \in RoleSlugs |-> IF r \in slugs THEN 1 ELSE 0]]
      <4>1. CASE CreateSuperuser(c, u)
        <5>1. [r \in RoleSlugs |-> IF r = "superuser" \/ r \in hasRole THEN 1 ELSE 0]
                = [r \in RoleSlugs |-> IF r \in hasRole' THEN 1 ELSE 0]
          BY <4>1 DEF CreateSuperuser
        <5>2. QED BY <4>1, <5>1 DEF CreateSuperuser
      <4>2. CASE CreatePlain(c, u)
        <5>1. [r \in RoleSlugs |-> IF r = "member" /\ r \in hasRole THEN 1 ELSE 0]
                = [r \in RoleSlugs |-> IF r \in {"member"} \cap hasRole THEN 1 ELSE 0]
          OBVIOUS
        <5>2. {"member"} \cap hasRole \in SUBSET hasRole'
          BY <1>2
        <5>3. QED BY <4>2, <5>1, <5>2 DEF CreatePlain
      <4>3. QED BY <1>3, <4>1, <4>2
    <3>2. QED BY <1>1, <1>3, <3>1, Typed DEF CreateSuperuser, CreatePlain
  <2>3. AssignmentsSound' /\ account' \in [Users -> {"none", "active", "inactive", "gone"}]
    BY <1>1, <1>2, <2>2, Typed DEF AccessInv, AssignmentsSound, There
  <2>4. \A v \in Users, r \in RoleSlugs : held'[v][r] <= held[v][r] \/ held'[v][r] <= 1
    BY <1>1, <2>2, Typed
  <2>5. QED BY <1>1, <1>2, <2>1, <2>2, <2>3, <2>4, Typed, StepKeeps
<1>4. CASE Promote(c, u)
  <2> DEFINE q == [op |-> "promote", at |-> "begun", user |-> u, role |-> "superuser"]
  <2>1. q \in Request /\ Fits(q, hasRole') /\ Becomes(c, q)
    BY <1>4 DEF Promote, Request, Fits
  <2>2. \A v \in Users, r \in RoleSlugs : ~Grants(q, v, r)
    BY DEF Grants
  <2> HIDE DEF q
  <2>3. UNCHANGED <<account, held>>
    BY <1>4 DEF Promote
  <2>4. AssignmentsSound'
    BY <1>2, <2>3 DEF AccessInv, AssignmentsSound, There
  <2>5. \A v \in Users, r \in RoleSlugs : held'[v][r] <= held[v][r]
    BY <1>1, <2>3, Typed
  <2>6. QED BY <1>1, <1>2, <2>1, <2>2, <2>3, <2>4, <2>5, Typed, StepKeeps
<1>5. QED BY <1>3, <1>4

\* Every step keeps the invariant.
LEMMA AccessStepInv == AccessInv /\ [AccessNext]_accessVars => AccessInv'
<1>1. ASSUME AccessInv, UNCHANGED accessVars PROVE AccessInv'
  <2>1. UNCHANGED <<account, hasRole, held, session, request, amended>>
    BY <1>1 DEF accessVars
  <2>2. \A u \in Users, r \in RoleSlugs : Granting(u, r)' = Granting(u, r)
    BY <2>1 DEF Granting, In
  <2>3. QED BY <1>1, <2>1, <2>2
         DEF AccessInv, AccessTypeOK, AssignmentsSound, Known, Locked, HeldBounded, There, In
<1>2. ASSUME AccessInv, AccessNext PROVE AccessInv'
  <2>1. PICK c \in Callers :
          \/ Stamp(c) \/ StampFails(c) \/ Establish(c) \/ Logout(c)
          \/ InsertUser(c) \/ DefaultRole(c) \/ UpdateUser(c) \/ DeleteUser(c) \/ SetPassword(c)
          \/ CheckAbsent(c) \/ Assign(c) \/ CheckPresent(c) \/ Revoke(c)
          \/ CheckHeld(c) \/ AssignSuperuser(c)
          \/ \E op \in {"delete", "password"} : Own(c, op)
          \/ \E u \in Users :
               \/ Verify(c, u) \/ CreateSuperuser(c, u) \/ CreatePlain(c, u) \/ Promote(c, u)
               \/ \E op \in {"create", "update", "delete", "assign", "revoke"} : Administer(c, op, u)
    BY <1>2 DEF AccessNext
  <2>2. CASE \E op \in {"delete", "password"} : Own(c, op)
    <3>1. PICK u \in Users : u = session[c]
      BY <1>2, <2>2, AtRequest DEF Own, Authenticated
    <3>2. QED BY <1>2, <2>2, <3>1, BeginInv
  <2>3. CASE \E u \in Users :
               \/ Verify(c, u) \/ CreateSuperuser(c, u) \/ CreatePlain(c, u) \/ Promote(c, u)
               \/ \E op \in {"create", "update", "delete", "assign", "revoke"} : Administer(c, op, u)
    BY <1>2, <2>3, BeginInv, CommandInv
  <2>4. QED BY <1>2, <2>1, <2>2, <2>3, LoginInv, CheckInv, AssignInv, AccountInv
<1>3. QED BY <1>1, <1>2

\* The invariant holds in every reachable state.
LEMMA AccessInvHolds == AccessSpec => []AccessInv
  BY AccessInitInv, AccessStepInv, PTL DEF AccessSpec

-----------------------------------------------------------------------------
\* Types are as declared, for any number of accounts and callers.
THEOREM AccessTypeCorrect == AccessSpec => []AccessTypeOK
<1>1. AccessInv => AccessTypeOK
  BY DEF AccessInv
<1>2. QED BY <1>1, AccessInvHolds, PTL

\* An assignment names an account and a role that are there, however handlers interleave.
THEOREM AssignmentsSoundHolds == AccessSpec => []AssignmentsSound
<1>1. AccessInv => AssignmentsSound
  BY DEF AccessInv
<1>2. QED BY <1>1, AccessInvHolds, PTL

\* An assignment is made no more often than callers overlap.
THEOREM HeldBoundedHolds == AccessSpec => []HeldBounded
<1>1. AccessInv => HeldBounded
  BY DEF AccessInv
<1>2. QED BY <1>1, AccessInvHolds, PTL

\* In the tables as migrated no session ever names a user.
THEOREM NobodyLogsInHolds == AccessSpec => []NobodyLogsIn
<1>1. AccessInv => NobodyLogsIn
  BY DEF AccessInv, Locked, NobodyLogsIn
<1>2. QED BY <1>1, AccessInvHolds, PTL

-----------------------------------------------------------------------------
(* The roles (Roles).                                                         *)

\* The names still to look at end the list of defaults.
Ending(names) ==
  /\ Len(names) <= Len(DefaultNames)
  /\ \A i \in 1..Len(names) : names[i] = DefaultNames[Len(DefaultNames) - Len(names) + i]

\* The names before them.
Before(names) == {DefaultNames[i] : i \in 1..(Len(DefaultNames) - Len(names))}

\* Those are there, for an operation that looks roles up by name or by slug.
Passed(q) ==
  \A n \in Before(q.todo) : IF q.by = "name" THEN n \in DOMAIN roles ELSE <<Base[n], 0>> \in Taken

\* An operation under way, in state q, is what its own steps have made it, and the slug it
\* is about to insert is free unless another process came before it.
Sound(q) ==
  /\ q \in Operation
  /\ q.by = "slug" => q.counter = 0 /\ q.at # "probing"
  /\ q.by = "create" => q.at # "looking"
  /\ q.at # "looking" => q.todo # <<>>
  /\ q.by # "create" => Ending(q.todo)
  /\ q.by # "create" /\ q.intact => Passed(q)
  /\ q.at = "inserting" /\ ~q.raced => <<Base[Head(q.todo)], q.counter>> \notin Taken

RolesInv == RolesTypeOK /\ \A c \in Creators : Busy(c) => Sound(creator[c])

-----------------------------------------------------------------------------
(* Roles: one operation.                                                      *)

\* An operation is never at rest.
LEMMA OperationBusy == \A q \in Operation : q # Resting
<1>1. \A q \in Operation : q.at # "resting"
  BY DEF Operation
<1>2. Resting.at = "resting"
  BY DEF Resting
<1>3. QED BY <1>1, <1>2

\* The first of the names still to look at is the next of the defaults.
LEMMA NextDefault ==
  ASSUME NEW names \in Seq(Names), names # <<>>, Ending(names)
  PROVE  /\ Tail(names) \in Seq(Names) /\ Ending(Tail(names)) /\ Head(names) \in Names
         /\ Before(Tail(names)) = Before(names) \union {Head(names)}
<1>1. /\ Len(names) \in Nat \ {0} /\ Head(names) = names[1] /\ Len(Tail(names)) = Len(names) - 1
      /\ Tail(names) \in Seq(Names) /\ Head(names) \in Names
      /\ \A i \in 1..Len(Tail(names)) : Tail(names)[i] = names[i + 1]
  BY HeadTailProperties, EmptySeq
<1>2. DefaultNames \in Seq(Names) /\ Len(DefaultNames) \in Nat
  BY RolesAssumption DEF RolesAssumption
<1> DEFINE m == Len(DefaultNames) - Len(names)
<1>3. m \in Nat /\ Len(DefaultNames) - Len(Tail(names)) = m + 1
  BY <1>1, <1>2 DEF Ending
<1>4. Head(names) = DefaultNames[m + 1]
  BY <1>1 DEF Ending
<1>5. Ending(Tail(names))
  <2>1. Len(Tail(names)) <= Len(DefaultNames)
    BY <1>1, <1>2 DEF Ending
  <2>2. ASSUME NEW i \in 1..Len(Tail(names))
        PROVE  Tail(names)[i] = DefaultNames[Len(DefaultNames) - Len(Tail(names)) + i]
    <3>1. i + 1 \in 1..Len(names) /\ m + (i + 1) = (m + 1) + i
      BY <1>1, <1>3
    <3>2. names[i + 1] = DefaultNames[m + (i + 1)]
      BY <3>1 DEF Ending
    <3>3. QED BY <1>1, <1>3, <3>1, <3>2
  <2>3. QED BY <2>1, <2>2 DEF Ending
<1> HIDE DEF m
<1>6. 1..(m + 1) = 1..m \union {m + 1}
  BY <1>3
<1>7. Before(Tail(names)) = {DefaultNames[i] : i \in 1..(m + 1)}
  BY <1>3 DEF Before
<1>8. Before(names) = {DefaultNames[i] : i \in 1..m}
  BY DEF Before, m
<1>9. {DefaultNames[i] : i \in 1..(m + 1)} = {DefaultNames[i] : i \in 1..m} \union {DefaultNames[m + 1]}
  BY <1>6
<1>10. Before(Tail(names)) = Before(names) \union {Head(names)}
  BY <1>4, <1>7, <1>8, <1>9, Zenon
<1>11. QED BY <1>1, <1>5, <1>10

\* One operation moves, or comes to rest, and the rows stay.
LEMMA CreatorMoves ==
  ASSUME RolesInv, NEW c \in Creators, NEW q, q = Resting \/ Sound(q),
         creator' = [creator EXCEPT ![c] = q], roles' = roles
  PROVE  RolesInv'
<1>1. q \in {Resting} \union Operation
  BY DEF Sound
<1>2. RolesTypeOK'
  BY <1>1 DEF RolesInv, RolesTypeOK
<1>3. \A p : Sound(p)' <=> Sound(p)
  BY DEF Sound, Passed, Taken
<1>4. ASSUME NEW d \in Creators, creator'[d] # Resting PROVE Sound(creator'[d])
  BY <1>4 DEF RolesInv, RolesTypeOK, Busy
<1>5. ASSUME NEW d \in Creators, Busy(d)' PROVE Sound(creator[d])'
  BY <1>3, <1>4, <1>5 DEF Busy, Sound, Passed, Taken
<1>6. QED BY <1>2, <1>5 DEF RolesInv

-----------------------------------------------------------------------------
(* Roles: the steps.                                                          *)

\* A call that begins has dealt with no name yet.
LEMMA StartInv ==
  ASSUME RolesInv, NEW c \in Creators,
         (\E n \in Names : StartCreate(c, n)) \/ (\E by \in {"name", "slug"} : StartEnsure(c, by))
  PROVE  RolesInv'
<1>1. DefaultNames \in Seq(Names) /\ Len(DefaultNames) \in Nat
  BY RolesAssumption DEF RolesAssumption
<1>2. ASSUME NEW n \in Names, StartCreate(c, n) PROVE RolesInv'
  <2> DEFINE q == Operate("create", "probing", <<n>>)
  <2>1. q \in Operation /\ q.by = "create" /\ q.at = "probing" /\ q.todo # <<>>
    BY DEF Operate, Operation
  <2>2. Sound(q)
    BY <2>1 DEF Sound
  <2>3. creator' = [creator EXCEPT ![c] = q] /\ roles' = roles
    BY <1>2 DEF StartCreate
  <2> HIDE DEF q
  <2>4. QED BY <2>2, <2>3, CreatorMoves
<1>3. ASSUME NEW by \in {"name", "slug"}, StartEnsure(c, by) PROVE RolesInv'
  <2> DEFINE q == Operate(by, "looking", DefaultNames)
  <2>1. q \in Operation /\ q.by = by /\ q.at = "looking" /\ q.todo = DefaultNames /\ q.counter = 0
    BY <1>1 DEF Operate, Operation
  <2>2. Ending(DefaultNames) /\ Before(DefaultNames) = {}
    BY <1>1 DEF Ending, Before
  <2>3. Sound(q)
    BY <2>1, <2>2 DEF Sound, Passed
  <2>4. creator' = [creator EXCEPT ![c] = q] /\ roles' = roles
    BY <1>3 DEF StartEnsure
  <2> HIDE DEF q
  <2>5. QED BY <2>3, <2>4, CreatorMoves
<1>4. QED BY <1>2, <1>3

\* A name that is found is dealt with, and one that is not is to be created.
LEMMA LookInv ==
  ASSUME RolesInv, NEW c \in Creators, Look(c)
  PROVE  RolesInv'
<1> DEFINE q == creator[c]
<1>1. /\ Sound(q) /\ q \in Operation /\ q.at = "looking" /\ q.todo # <<>> /\ q.todo \in Seq(Names)
      /\ roles' = roles
  BY DEF RolesInv, Look, At, Sound, Operation
<1>2. ASSUME NEW p, p = Resting \/ Sound(p), creator' = [creator EXCEPT ![c] = p]
      PROVE  RolesInv'
  BY <1>1, <1>2, CreatorMoves
<1>3. CASE SlugExists(c)
  <2> DEFINE p == [q EXCEPT !.todo = Tail(@)]
  <2>1. creator' = [creator EXCEPT ![c] = p]
    BY <1>3 DEF Look
  <2>2. q.by # "create"
    BY <1>3 DEF SlugExists
  <2>3. /\ Tail(q.todo) \in Seq(Names) /\ Ending(Tail(q.todo))
        /\ Before(Tail(q.todo)) = Before(q.todo) \union {Head(q.todo)}
    BY <1>1, <2>2, NextDefault DEF Sound
  <2>4. /\ p \in Operation /\ p.at = "looking" /\ p.by = q.by /\ p.counter = q.counter
        /\ p.intact = q.intact /\ p.todo = Tail(q.todo)
    BY <1>1, <2>3 DEF Operation
  <2>5. IF q.by = "name" THEN Head(q.todo) \in DOMAIN roles ELSE <<Base[Head(q.todo)], 0>> \in Taken
    BY <1>3 DEF SlugExists, Current
  <2>6. q.intact => Passed(p)
    BY <1>1, <2>2, <2>3, <2>4, <2>5 DEF Sound, Passed
  <2>7. Sound(p)
    BY <1>1, <2>3, <2>4, <2>6 DEF Sound
  <2> HIDE DEF p
  <2>8. QED BY <1>2, <2>1, <2>7
<1>4. CASE ~SlugExists(c)
  <2> DEFINE place == IF q.by = "name" THEN "probing" ELSE "inserting"
             p == [q EXCEPT !.at = place]
  <2>1. creator' = [creator EXCEPT ![c] = p]
    BY <1>4 DEF Look
  <2>2. /\ p \in Operation /\ p.at = place /\ p.by = q.by /\ p.counter = q.counter
        /\ p.intact = q.intact /\ p.todo = q.todo /\ p.raced = q.raced
    BY <1>1 DEF Operation
  <2>3. p.at = "inserting" => q.by \in {"create", "slug"}
    BY <1>1, <2>2 DEF Operation
  <2>4. q.by # "create"
    BY <1>1 DEF Sound
  <2>5. p.at = "inserting" => <<Base[Head(p.todo)], p.counter>> \notin Taken
    BY <1>1, <1>4, <2>2, <2>3, <2>4 DEF Sound, SlugExists, Current
  <2>6. Passed(q) => Passed(p)
    BY <2>2 DEF Passed
  <2>7. Sound(p)
    BY <1>1, <2>2, <2>5, <2>6 DEF Sound
  <2> HIDE DEF p
  <2>8. QED BY <1>2, <2>1, <2>7
<1>5. QED BY <1>3, <1>4

\* One turn of the search finds the slug free, or goes on to the next.
LEMMA ProbeInv ==
  ASSUME RolesInv, NEW c \in Creators, Probe(c)
  PROVE  RolesInv'
<1> DEFINE q == creator[c]
<1>1. /\ Sound(q) /\ q \in Operation /\ q.at = "probing" /\ q.counter \in Nat /\ q.by # "slug"
      /\ roles' = roles /\ q.todo # <<>>
  BY DEF RolesInv, Probe, At, Sound, Operation
<1>2. ASSUME NEW p, p = Resting \/ Sound(p), creator' = [creator EXCEPT ![c] = p]
      PROVE  RolesInv'
  BY <1>1, <1>2, CreatorMoves
<1>3. CASE <<Base[Current(c)], q.counter>> \in Taken
  <2> DEFINE p == [q EXCEPT !.counter = @ + 1]
  <2>1. creator' = [creator EXCEPT ![c] = p]
    BY <1>3 DEF Probe
  <2>2. /\ p \in Operation /\ p.at = "probing" /\ p.by = q.by /\ p.intact = q.intact /\ p.todo = q.todo
    BY <1>1 DEF Operation
  <2>3. Passed(q) => Passed(p)
    BY <2>2 DEF Passed
  <2>4. Sound(p)
    BY <1>1, <2>2, <2>3 DEF Sound
  <2> HIDE DEF p
  <2>5. QED BY <1>2, <2>1, <2>4
<1>4. CASE <<Base[Current(c)], q.counter>> \notin Taken
  <2> DEFINE p == [q EXCEPT !.at = "inserting"]
  <2>1. creator' = [creator EXCEPT ![c] = p]
    BY <1>4 DEF Probe
  <2>2. /\ p \in Operation /\ p.at = "inserting" /\ p.by = q.by /\ p.intact = q.intact
        /\ p.todo = q.todo /\ p.counter = q.counter /\ p.raced = q.raced
    BY <1>1 DEF Operation
  <2>3. Passed(q) => Passed(p)
    BY <2>2 DEF Passed
  <2>4. <<Base[Head(p.todo)], p.counter>> \notin Taken
    BY <1>4, <2>2 DEF Current
  <2>5. Sound(p)
    BY <1>1, <2>2, <2>3, <2>4 DEF Sound
  <2> HIDE DEF p
  <2>6. QED BY <1>2, <2>1, <2>5
<1>5. QED BY <1>3, <1>4

\* An insert adds a row, under a slug that was free.
LEMMA InsertAdds ==
  ASSUME RolesInv, NEW c \in Creators, InsertRole(c)
  PROVE  /\ Current(c) \in Names
         /\ DOMAIN roles' = DOMAIN roles \union {Current(c)}
         /\ \A n \in DOMAIN roles : roles'[n] = roles[n]
         /\ roles'[Current(c)] = <<Base[Current(c)], creator[c].counter>>
         /\ Taken \subseteq Taken' /\ <<Base[Current(c)], creator[c].counter>> \in Taken' \ Taken
         /\ <<Base[Current(c)], creator[c].counter>> \in Slugs
<1>1. /\ Sound(creator[c]) /\ creator[c] \in Operation /\ creator[c].todo # <<>>
      /\ creator[c].todo \in Seq(Names) /\ creator[c].counter \in Nat
  BY DEF RolesInv, InsertRole, At, Sound, Operation
<1>2. Current(c) \in Names
  BY <1>1, HeadTailProperties, EmptySeq DEF Current
<1>3. /\ Current(c) \notin DOMAIN roles /\ <<Base[Current(c)], creator[c].counter>> \notin Taken
      /\ roles' = [n \in DOMAIN roles \union {Current(c)} |->
                     IF n = Current(c) THEN <<Base[n], creator[c].counter>> ELSE roles[n]]
  BY DEF InsertRole, Admissible
<1> HIDE DEF Current
<1>4. /\ DOMAIN roles' = DOMAIN roles \union {Current(c)}
      /\ \A n \in DOMAIN roles : roles'[n] = roles[n]
      /\ roles'[Current(c)] = <<Base[Current(c)], creator[c].counter>>
  BY <1>3
<1>5. Taken \subseteq Taken' /\ <<Base[Current(c)], creator[c].counter>> \in Taken'
  BY <1>4 DEF Taken
<1>6. QED BY <1>1, <1>2, <1>3, <1>4, <1>5 DEF Slugs

\* The creation of a role keeps what the others have found, but for the slugs they found free.
LEMMA InsertInv ==
  ASSUME RolesInv, NEW c \in Creators, InsertRole(c)
  PROVE  RolesInv'
<1> DEFINE q == creator[c]  x == Current(c)  slug == <<Base[x], q.counter>>
<1>1. /\ Sound(q) /\ q \in Operation /\ q.at = "inserting" /\ q.todo # <<>> /\ q.todo \in Seq(Names)
      /\ RolesTypeOK
  BY DEF RolesInv, InsertRole, At, Sound, Operation
<1>2. /\ x \in Names
      /\ DOMAIN roles' = DOMAIN roles \union {x}
      /\ \A n \in DOMAIN roles : roles'[n] = roles[n]
      /\ roles'[x] = slug
      /\ Taken \subseteq Taken' /\ slug \in Taken' \ Taken
      /\ slug \in Slugs
  BY InsertAdds
<1>3. creator' = [Outrun(c) EXCEPT ![c] = AfterInsert(c)]
  BY DEF InsertRole
<1>4. x = Head(q.todo)
  BY DEF Current
<1> HIDE DEF x, slug
<1>5. /\ DOMAIN roles' \subseteq Names /\ \A n \in DOMAIN roles' : roles'[n] \in Slugs
      /\ \A m, n \in DOMAIN roles' : roles'[m] = roles'[n] => m = n
  <2>1. \A n \in DOMAIN roles : roles[n] # slug
    BY <1>2 DEF Taken
  <2>2. QED BY <1>1, <1>2, <2>1 DEF RolesTypeOK
<1>6. ASSUME NEW p, Passed(p) PROVE Passed(p)'
  BY <1>2, <1>6 DEF Passed
<1>7. creator'[c] = Resting \/ \E p : creator'[c] = p /\ Sound(p)'
  <2>1. creator'[c] = AfterInsert(c)
    BY <1>3 DEF Outrun
  <2>2. CASE q.by = "create"
    BY <2>1, <2>2 DEF AfterInsert
  <2>3. CASE q.by # "create"
    <3>0. PICK p : p = [q EXCEPT !.at = "looking", !.todo = Tail(@), !.counter = 0, !.raced = FALSE]
      OBVIOUS
    <3>1. creator'[c] = p
      BY <2>1, <2>3, <3>0 DEF AfterInsert
    <3>2. /\ Tail(q.todo) \in Seq(Names) /\ Ending(Tail(q.todo))
          /\ Before(Tail(q.todo)) = Before(q.todo) \union {x}
      BY <1>1, <1>4, <2>3, NextDefault DEF Sound
    <3>3. /\ p \in Operation /\ p.at = "looking" /\ p.by = q.by /\ p.counter = 0
          /\ p.intact = q.intact /\ p.todo = Tail(q.todo)
      BY <1>1, <3>0, <3>2 DEF Operation
    <3>4. IF q.by = "name" THEN x \in DOMAIN roles' ELSE <<Base[x], 0>> \in Taken'
      <4>1. q.by # "name" => q.counter = 0
        BY <1>1, <2>3 DEF Sound, Operation
      <4>2. QED BY <1>2, <4>1 DEF slug
    <3>5. p.intact => Passed(p)'
      <4>1. PICK o : o = q
        OBVIOUS
      <4>2. p.intact => Passed(o)'
        BY <1>1, <1>6, <2>3, <3>3, <4>1 DEF Sound
      <4>3. QED BY <3>2, <3>3, <3>4, <4>1, <4>2 DEF Passed
    <3>6. Sound(p)'
      BY <2>3, <3>2, <3>3, <3>5 DEF Sound
    <3>7. QED BY <3>1, <3>6
  <2>4. QED BY <2>2, <2>3
<1>8. ASSUME NEW d \in Creators \ {c}
      PROVE  creator'[d] = Resting \/ \E p : creator'[d] = p /\ Sound(p)'
  <2>0. PICK o : o = creator[d]
    OBVIOUS
  <2>1. o \in {Resting} \union Operation /\ (o # Resting => Sound(o))
    BY <1>1, <2>0 DEF RolesTypeOK, RolesInv, Busy
  <2>2. creator'[d] = IF o # Resting /\ o.at # "looking" THEN [o EXCEPT !.raced = TRUE] ELSE o
    BY <1>3, <2>0 DEF Outrun, Busy
  <2>3. CASE o = Resting
    BY <2>2, <2>3
  <2>4. CASE o \in Operation /\ Sound(o) /\ o.at = "looking"
    <3>1. creator'[d] = o
      BY <2>2, <2>4
    <3>2. Sound(o)'
      BY <1>6, <2>4 DEF Sound
    <3>3. QED BY <2>4, <3>1, <3>2
  <2>5. CASE o \in Operation /\ Sound(o) /\ o.at # "looking"
    <3>0. PICK p : p = [o EXCEPT !.raced = TRUE]
      OBVIOUS
    <3>1. creator'[d] = p
      BY <2>2, <2>5, <3>0, OperationBusy
    <3>2. /\ p \in Operation /\ p.at = o.at /\ p.by = o.by /\ p.counter = o.counter
          /\ p.intact = o.intact /\ p.todo = o.todo /\ p.raced
      BY <2>5, <3>0 DEF Operation
    <3>3. Passed(o)' => Passed(p)'
      BY <3>2 DEF Passed
    <3>4. Sound(p)'
      BY <1>6, <2>5, <3>2, <3>3 DEF Sound
    <3>5. QED BY <3>1, <3>4
  <2>6. QED BY <2>1, <2>3, <2>4, <2>5
<1>9. DOMAIN creator' = Creators /\ creator' = [d \in Creators |-> creator'[d]]
  BY <1>3 DEF Outrun
<1>10. creator' \in [Creators -> {Resting} \union Operation]
  BY <1>7, <1>8, <1>9 DEF Sound
<1>11. ASSUME NEW d \in Creators, Busy(d)'
       PROVE  Sound(creator[d])'
  <2>1. PICK p : creator'[d] = p /\ Sound(p)'
    BY <1>7, <1>8, <1>11 DEF Busy
  <2>2. QED BY <2>1 DEF Sound, Passed, Taken
<1>12. QED BY <1>5, <1>10, <1>11 DEF RolesInv, RolesTypeOK

\* A deletion takes a row away, and every call by name or slug notes it.
LEMMA DeleteInv ==
  ASSUME RolesInv, NEW n \in Names, DeleteRole(n)
  PROVE  RolesInv'
<1>1. /\ DOMAIN roles' = DOMAIN roles \ {n}
      /\ \A m \in DOMAIN roles' : roles'[m] = roles[m]
      /\ creator' = Disturbed /\ RolesTypeOK
  BY DEF DeleteRole, RolesInv
<1>2. Taken' \subseteq Taken
  BY <1>1 DEF Taken
<1>3. /\ DOMAIN roles' \subseteq Names /\ \A m \in DOMAIN roles' : roles'[m] \in Slugs
      /\ \A l, m \in DOMAIN roles' : roles'[l] = roles'[m] => l = m
  BY <1>1 DEF RolesTypeOK
<1>4. ASSUME NEW d \in Creators
      PROVE  creator'[d] = Resting \/ \E p : creator'[d] = p /\ Sound(p)'
  <2>1. PICK o : o = creator[d]
    OBVIOUS
  <2>2. o = Resting \/ (o \in Operation /\ Sound(o))
    BY <1>1, <2>1 DEF RolesTypeOK, RolesInv, Busy
  <2>3. creator'[d] = IF o # Resting /\ o.by # "create" THEN [o EXCEPT !.intact = FALSE] ELSE o
    BY <1>1, <2>1 DEF Disturbed, Busy
  <2>4. CASE o = Resting
    BY <2>3, <2>4
  <2>5. CASE o \in Operation /\ Sound(o) /\ o.by = "create"
    <3>1. Sound(o)'
      BY <1>2, <2>5 DEF Sound
    <3>2. QED BY <2>3, <2>5, <3>1
  <2>6. CASE o \in Operation /\ Sound(o) /\ o.by # "create"
    <3>1. PICK p : p = [o EXCEPT !.intact = FALSE]
      OBVIOUS
    <3>2. creator'[d] = p
      BY <2>3, <2>6, <3>1, OperationBusy
    <3>3. /\ p \in Operation /\ p.at = o.at /\ p.by = o.by /\ p.counter = o.counter
          /\ ~p.intact /\ p.todo = o.todo /\ p.raced = o.raced
      BY <2>6, <3>1 DEF Operation
    <3>4. Sound(p)'
      BY <1>2, <2>6, <3>3 DEF Sound
    <3>5. QED BY <3>2, <3>4
  <2>7. QED BY <2>2, <2>4, <2>5, <2>6
<1>5. creator' \in [Creators -> {Resting} \union Operation]
  BY <1>1, <1>4 DEF Sound, Disturbed
<1>6. ASSUME NEW d \in Creators, Busy(d)'
      PROVE  Sound(creator[d])'
  <2>1. PICK p : creator'[d] = p /\ Sound(p)'
    BY <1>4, <1>6 DEF Busy
  <2>2. QED BY <2>1 DEF Sound, Passed, Taken
<1>7. QED BY <1>3, <1>5, <1>6 DEF RolesInv, RolesTypeOK

\* Every step keeps the invariant.
LEMMA RolesStepInv == RolesInv /\ [RolesNext]_roleVars => RolesInv'
<1> SUFFICES ASSUME RolesInv, [RolesNext]_roleVars PROVE RolesInv'
  OBVIOUS
<1>1. CASE UNCHANGED roleVars
  BY <1>1 DEF roleVars, RolesInv, RolesTypeOK, Busy, Sound, Passed, Taken
<1>2. ASSUME NEW c \in Creators, Ensured(c) \/ Refuse(c) PROVE RolesInv'
  <2>1. creator' = [creator EXCEPT ![c] = Resting] /\ roles' = roles
    BY <1>2 DEF Ensured, Refuse
  <2>2. QED BY <2>1, CreatorMoves
<1>3. QED BY <1>1, <1>2, StartInv, LookInv, ProbeInv, InsertInv, DeleteInv DEF RolesNext

\* The invariant that the properties of Roles rest on.
LEMMA RolesInvHolds == RolesSpec => []RolesInv
<1>1. ASSUME RolesInit PROVE RolesInv
  <2>1. DOMAIN roles = {} /\ creator = [c \in Creators |-> Resting]
    BY <1>1 DEF RolesInit
  <2>2. QED BY <2>1 DEF RolesInv, RolesTypeOK, Busy
<1>2. QED BY <1>1, RolesStepInv, PTL DEF RolesSpec

\* Names and slugs stay unique, and every operation well formed.
THEOREM RolesTypeCorrect == RolesSpec => []RolesTypeOK
<1>1. RolesInv => RolesTypeOK
  BY DEF RolesInv
<1>2. QED BY <1>1, RolesInvHolds, PTL

\* Whatever other processes create, the default roles that ensure_default_roles or create-roles
\* has passed are there, unless a role was deleted.
THEOREM DefaultsPresentHolds == RolesSpec => []DefaultsPresent
<1>1. ASSUME RolesInv PROVE DefaultsPresent
  <2>1. ASSUME NEW c \in Creators, Busy(c), creator[c].by # "create", creator[c].intact
        PROVE  \A n \in Treated(c) :
                 IF creator[c].by = "name" THEN n \in DOMAIN roles ELSE <<Base[n], 0>> \in Taken
    BY <1>1, <2>1 DEF RolesInv, Sound, Passed, Before, Treated
  <2>2. QED BY <2>1 DEF DefaultsPresent
<1>2. QED BY <1>1, RolesInvHolds, PTL

\* The slug that get_available_slug finds is free: a creation is refused only for its name, or
\* because another process inserted a role since the search began.
THEOREM SlugRefusedOnlyByRaceHolds == RolesSpec => SlugRefusedOnlyByRace
<1>1. ASSUME RolesInv, NEW c \in Creators, Refuse(c)
      PROVE  Current(c) \in DOMAIN roles \/ creator[c].raced
  <2>1. Sound(creator[c]) /\ creator[c].at = "inserting" /\ ~Admissible(c)
    BY <1>1 DEF Refuse, RolesInv, At
  <2>2. QED BY <2>1 DEF Sound, Admissible, Current
<1>2. ASSUME RolesInv
      PROVE  [\A c \in Creators :
                Refuse(c) => Current(c) \in DOMAIN roles \/ creator[c].raced]_roleVars
  BY <1>1, <1>2
<1>3. QED BY <1>2, RolesInvHolds, PTL DEF SlugRefusedOnlyByRace

-----------------------------------------------------------------------------
(* The tokens that reset a password (ResetTokens).                            *)

\* A token that a request has marked, or that was redeemed, is used or gone, and the tokens
\* that requests have validated are issued ones.
Spent ==
  /\ \A r \in Requests : reset[r].at \in {"validated", "marked"} =>
       /\ reset[r].token <= issued
       /\ reset[r].at = "marked" /\ reset[r].token \in DOMAIN tokens =>
            tokens[reset[r].token].used
  /\ \A t \in TokenIds : redeemed[t] > 0 => t <= issued

TokenInv == TokensTypeOK /\ RateBounded /\ LiveBounded /\ Spent /\ RedeemedBounded

-----------------------------------------------------------------------------
(* Counting.                                                                  *)

\* The rows and the requests are finitely many.
LEMMA Finite ==
  ASSUME TokensTypeOK
  PROVE  /\ IsFiniteSet(DOMAIN tokens)
         /\ IsFiniteSet(Requests) /\ Cardinality(Requests) \in Nat
<1>1. IsFiniteSet(1..issued)
  BY FS_Interval, TokensAssumption DEF TokensTypeOK, TokensAssumption
<1>2. QED
  BY <1>1, FS_Subset, FS_CardinalityType, TokensAssumption DEF TokensTypeOK, TokensAssumption

\* A part of a finite set has no more elements.
LEMMA Counts ==
  ASSUME NEW S, IsFiniteSet(S), NEW T, T \subseteq S
  PROVE  /\ IsFiniteSet(T) /\ Cardinality(T) \in Nat
         /\ Cardinality(S) \in Nat /\ Cardinality(T) <= Cardinality(S)
  BY FS_Subset, FS_CardinalityType

\* The sum of two counts does not grow when neither set does.
LEMMA NoMore ==
  ASSUME NEW S, IsFiniteSet(S), NEW T, IsFiniteSet(T), NEW n \in Int,
         NEW S2, S2 \subseteq S, NEW T2, T2 \subseteq T,
         Cardinality(S) + Cardinality(T) <= n
  PROVE  Cardinality(S2) + Cardinality(T2) <= n
<1>1. Cardinality(S2) <= Cardinality(S) /\ Cardinality(T2) <= Cardinality(T)
  BY Counts
<1>2. /\ Cardinality(S2) \in Nat /\ Cardinality(S) \in Nat
      /\ Cardinality(T2) \in Nat /\ Cardinality(T) \in Nat
  BY Counts
<1>3. QED BY <1>1, <1>2

\* Nor when one of them gains an element that a member of the other makes room for.
LEMMA Trade ==
  ASSUME NEW S, IsFiniteSet(S), NEW T, IsFiniteSet(T), NEW n \in Int,
         NEW x, NEW r \in T, NEW S2, S2 \subseteq S \cup {x}, NEW T2, T2 \subseteq T \ {r},
         Cardinality(S) + Cardinality(T) <= n
  PROVE  Cardinality(S2) + Cardinality(T2) <= n
<1>1. IsFiniteSet(S \cup {x}) /\ Cardinality(S \cup {x}) <= Cardinality(S) + 1
  <2>1. /\ IsFiniteSet(S \cup {x})
        /\ Cardinality(S \cup {x}) = IF x \in S THEN Cardinality(S) ELSE Cardinality(S) + 1
    BY FS_AddElement
  <2>2. Cardinality(S) \in Nat
    BY FS_CardinalityType
  <2>3. QED BY <2>1, <2>2
<1>2. IsFiniteSet(T \ {r}) /\ Cardinality(T \ {r}) = Cardinality(T) - 1
  BY FS_RemoveElement
<1>3. /\ Cardinality(S2) <= Cardinality(S \cup {x}) /\ Cardinality(T2) <= Cardinality(T \ {r})
      /\ Cardinality(S2) \in Nat /\ Cardinality(T2) \in Nat
  BY <1>1, <1>2, Counts
<1>4. Cardinality(S) \in Nat /\ Cardinality(T) \in Nat /\ Cardinality(S \cup {x}) \in Nat
  BY <1>1, FS_CardinalityType
<1>5. QED BY <1>1, <1>2, <1>3, <1>4

-----------------------------------------------------------------------------
(* Requests.                                                                  *)

State == {Idle} \union Creating \union Using

\* What a request has depends on where it is.
LEMMA StateFields ==
  ASSUME NEW q \in State
  PROVE  /\ q.at \in {"idle", "counted", "invalidated", "validated", "marked"}
         /\ q.at = "idle" => q = Idle
         /\ q.at \in {"counted", "invalidated"} => q.user \in Owners
         /\ q.at \in {"validated", "marked"} => q.token \in TokenIds
  BY DEF State, Idle, Creating, Using

\* Moving on keeps a request well formed.
LEMMA MovedState ==
  ASSUME NEW q \in State
  PROVE  /\ q.at = "counted" => /\ [q EXCEPT !.at = "invalidated"] \in State
                                /\ [q EXCEPT !.at = "invalidated"].at = "invalidated"
                                /\ [q EXCEPT !.at = "invalidated"].user = q.user
         /\ q.at = "validated" => /\ [q EXCEPT !.at = "marked"] \in State
                                  /\ [q EXCEPT !.at = "marked"].at = "marked"
                                  /\ [q EXCEPT !.at = "marked"].token = q.token
  BY DEF State, Idle, Creating, Using

\* One request moves, the others stay.
LEMMA OneGoes ==
  ASSUME TokensTypeOK, NEW r \in Requests, NEW q \in State, GoesTo(r, q)
  PROVE  /\ reset' \in [Requests -> State] /\ reset'[r] = q
         /\ \A s \in Requests \ {r} : reset'[s] = reset[s]
  BY DEF TokensTypeOK, GoesTo, State

\* The four sets that the bounds count are finite.
LEMMA FiniteSets ==
  ASSUME TokensTypeOK, NEW u, NEW places, NEW t
  PROVE  /\ IsFiniteSet(Recent(u)) /\ IsFiniteSet(Live(u))
         /\ IsFiniteSet(CreatingFor(u, places)) /\ CreatingFor(u, places) \subseteq Requests
         /\ IsFiniteSet(UsingToken(t)) /\ UsingToken(t) \subseteq Requests
<1>1. /\ Recent(u) \subseteq DOMAIN tokens /\ Live(u) \subseteq DOMAIN tokens
      /\ CreatingFor(u, places) \subseteq Requests /\ UsingToken(t) \subseteq Requests
  BY DEF Recent, Live, Of, CreatingFor, UsingToken
<1>2. QED BY <1>1, Finite, Counts

\* Who is creating and who is using after one request has moved.
LEMMA SetsMove ==
  ASSUME TokensTypeOK, NEW r \in Requests, NEW q \in State, GoesTo(r, q)
  PROVE  /\ \A u, places :
              /\ CreatingFor(u, places)' \subseteq CreatingFor(u, places) \cup {r}
              /\ ~(q.at \in places /\ q.user = u) =>
                   CreatingFor(u, places)' \subseteq CreatingFor(u, places) \ {r}
         /\ \A t :
              /\ UsingToken(t)' \subseteq UsingToken(t) \cup {r}
              /\ ~(q.at \in {"validated", "marked"} /\ q.token = t) =>
                   UsingToken(t)' \subseteq UsingToken(t) \ {r}
  BY OneGoes DEF CreatingFor, UsingToken

\* Rows that are kept, grow older or are used make no token recent or live.
LEMMA RowsAge ==
  ASSUME TokensTypeOK, DOMAIN tokens' \subseteq DOMAIN tokens,
         \A t \in DOMAIN tokens' :
           /\ tokens'[t] \in Token /\ tokens'[t].user = tokens[t].user
           /\ tokens'[t].age >= tokens[t].age
           /\ tokens[t].used => tokens'[t].used
  PROVE  \A u : Recent(u)' \subseteq Recent(u) /\ Live(u)' \subseteq Live(u)
<1>1. \A t \in DOMAIN tokens : tokens[t] \in Token /\ tokens[t].age \in Nat
  BY TokensAssumption DEF TokensTypeOK, Token, TokensAssumption
<1>2. \A t \in DOMAIN tokens' : tokens'[t].age \in Nat
  BY TokensAssumption DEF Token, TokensAssumption
<1>3. Hour \in Nat
  BY TokensAssumption DEF TokensAssumption
<1>4. \A u : Recent(u)' \subseteq Recent(u)
  BY <1>1, <1>2, <1>3 DEF Recent, Of
<1>5. \A u : Live(u)' \subseteq Live(u)
  <2> SUFFICES ASSUME NEW u, NEW t \in Live(u)' PROVE t \in Live(u)
    OBVIOUS
  <2>1. t \in Recent(u)' /\ ~tokens'[t].used /\ t \in DOMAIN tokens'
    BY DEF Live, Recent, Of
  <2>2. t \in Recent(u) /\ ~tokens[t].used
    BY <1>4, <2>1
  <2>3. QED BY <2>2 DEF Live
<1>6. QED BY <1>4, <1>5

\* What Spend does to the rows.
LEMMA SpendRows ==
  ASSUME TokensTypeOK, NEW rows, Spend(rows)
  PROVE  /\ DOMAIN tokens' = DOMAIN tokens
         /\ \A t \in DOMAIN tokens :
              /\ tokens'[t] \in Token /\ tokens'[t].user = tokens[t].user
              /\ tokens'[t].age = tokens[t].age
              /\ tokens[t].used => tokens'[t].used
              /\ t \in rows => tokens'[t].used
<1>1. DOMAIN tokens' = DOMAIN tokens
  BY DEF Spend
<1>2. ASSUME NEW t \in DOMAIN tokens
      PROVE  /\ tokens'[t] \in Token /\ tokens'[t].user = tokens[t].user
             /\ tokens'[t].age = tokens[t].age
             /\ tokens[t].used => tokens'[t].used
             /\ t \in rows => tokens'[t].used
  <2> DEFINE spent == tokens[t].used \/ t \in rows
  <2>1. tokens[t] \in Token /\ spent \in BOOLEAN
    BY DEF TokensTypeOK
  <2>2. tokens'[t] = [tokens[t] EXCEPT !.used = spent]
    BY DEF Spend
  <2>3. (tokens[t].used => spent) /\ (t \in rows => spent)
    OBVIOUS
  <2> HIDE DEF spent
  <2>4. /\ tokens'[t] \in Token /\ tokens'[t].user = tokens[t].user
        /\ tokens'[t].age = tokens[t].age /\ tokens'[t].used = spent
    BY <2>1, <2>2 DEF Token
  <2>5. QED BY <2>3, <2>4
<1>3. QED BY <1>1, <1>2

-----------------------------------------------------------------------------
(* The bounds, each kept by a step of one of three kinds.                     *)

LimitOf == MaxPerHour - 1 + Cardinality(Requests)
AllCreating == {"counted", "invalidated"}

\* Nothing is added; or a token is, by a request that is done; or a request joins below the limit.
LEMMA RateKept ==
  ASSUME TokensTypeOK, TokensTypeOK', RateBounded, NEW u \in Owners,
         \/ /\ Recent(u)' \subseteq Recent(u)
            /\ CreatingFor(u, AllCreating)' \subseteq CreatingFor(u, AllCreating)
         \/ \E x : \E r \in CreatingFor(u, AllCreating) :
              /\ Recent(u)' \subseteq Recent(u) \cup {x}
              /\ CreatingFor(u, AllCreating)' \subseteq CreatingFor(u, AllCreating) \ {r}
         \/ Recent(u)' \subseteq Recent(u) /\ Cardinality(Recent(u)) < MaxPerHour
  PROVE  Cardinality(Recent(u)') + Cardinality(CreatingFor(u, AllCreating)') <= LimitOf
<1>1. /\ IsFiniteSet(Recent(u)) /\ IsFiniteSet(CreatingFor(u, AllCreating))
      /\ CreatingFor(u, AllCreating)' \subseteq Requests
  BY FiniteSets DEF CreatingFor
<1>2. LimitOf \in Int /\ MaxPerHour \in Int
  BY Finite, TokensAssumption DEF LimitOf, TokensAssumption
<1>3. Cardinality(Recent(u)) + Cardinality(CreatingFor(u, AllCreating)) <= LimitOf
  BY DEF RateBounded, LimitOf, AllCreating
<1>4. CASE /\ Recent(u)' \subseteq Recent(u)
           /\ CreatingFor(u, AllCreating)' \subseteq CreatingFor(u, AllCreating)
  BY <1>1, <1>2, <1>3, <1>4, NoMore
<1>5. CASE \E x : \E r \in CreatingFor(u, AllCreating) :
             /\ Recent(u)' \subseteq Recent(u) \cup {x}
             /\ CreatingFor(u, AllCreating)' \subseteq CreatingFor(u, AllCreating) \ {r}
  <2>1. PICK x : \E r \in CreatingFor(u, AllCreating) :
           /\ Recent(u)' \subseteq Recent(u) \cup {x}
           /\ CreatingFor(u, AllCreating)' \subseteq CreatingFor(u, AllCreating) \ {r}
    BY <1>5
  <2>2. PICK r \in CreatingFor(u, AllCreating) :
           /\ Recent(u)' \subseteq Recent(u) \cup {x}
           /\ CreatingFor(u, AllCreating)' \subseteq CreatingFor(u, AllCreating) \ {r}
    BY <2>1
  <2> DEFINE S == Recent(u)   S2 == Recent(u)'   n == LimitOf
             T == CreatingFor(u, AllCreating)   T2 == CreatingFor(u, AllCreating)'
  <2>3. /\ IsFiniteSet(S) /\ IsFiniteSet(T) /\ n \in Int /\ r \in T
        /\ S2 \subseteq S \cup {x} /\ T2 \subseteq T \ {r}
        /\ Cardinality(S) + Cardinality(T) <= n
    BY <1>1, <1>2, <1>3, <2>2
  <2> HIDE DEF S, S2, T, T2, n
  <2>4. Cardinality(S2) + Cardinality(T2) <= n
    BY <2>3, Trade
  <2>5. QED BY <2>4 DEF S2, T2, n
<1>6. CASE Recent(u)' \subseteq Recent(u) /\ Cardinality(Recent(u)) < MaxPerHour
  <2>1. /\ Cardinality(Recent(u)') <= Cardinality(Recent(u))
        /\ Cardinality(Recent(u)') \in Nat /\ Cardinality(Recent(u)) \in Nat
    BY <1>1, <1>6, Counts
  <2>2. /\ Cardinality(CreatingFor(u, AllCreating)') <= Cardinality(Requests)
        /\ Cardinality(CreatingFor(u, AllCreating)') \in Nat /\ Cardinality(Requests) \in Nat
    BY <1>1, Finite, Counts
  <2>3. QED BY <1>2, <1>6, <2>1, <2>2 DEF LimitOf
<1>7. QED BY <1>4, <1>5, <1>6

\* Nothing is added; or a token is, by a request that is done; or all tokens have been spent.
LEMMA LiveKept ==
  ASSUME TokensTypeOK, TokensTypeOK', LiveBounded, NEW u \in Owners,
         \/ /\ Live(u)' \subseteq Live(u)
            /\ CreatingFor(u, {"invalidated"})' \subseteq CreatingFor(u, {"invalidated"})
         \/ \E x : \E r \in CreatingFor(u, {"invalidated"}) :
              /\ Live(u)' \subseteq Live(u) \cup {x}
              /\ CreatingFor(u, {"invalidated"})' \subseteq CreatingFor(u, {"invalidated"}) \ {r}
         \/ Live(u)' = {}
  PROVE  Cardinality(Live(u)') + Cardinality(CreatingFor(u, {"invalidated"})')
           <= Cardinality(Requests)
<1>1. /\ IsFiniteSet(Live(u)) /\ IsFiniteSet(CreatingFor(u, {"invalidated"}))
      /\ CreatingFor(u, {"invalidated"})' \subseteq Requests
  BY FiniteSets DEF CreatingFor
<1>2. Cardinality(Requests) \in Int
  BY Finite
<1>3. Cardinality(Live(u)) + Cardinality(CreatingFor(u, {"invalidated"})) <= Cardinality(Requests)
  BY DEF LiveBounded
<1>4. CASE /\ Live(u)' \subseteq Live(u)
           /\ CreatingFor(u, {"invalidated"})' \subseteq CreatingFor(u, {"invalidated"})
  BY <1>1, <1>2, <1>3, <1>4, NoMore
<1>5. CASE \E x : \E r \in CreatingFor(u, {"invalidated"}) :
             /\ Live(u)' \subseteq Live(u) \cup {x}
             /\ CreatingFor(u, {"invalidated"})' \subseteq CreatingFor(u, {"invalidated"}) \ {r}
  <2>1. PICK x : \E r \in CreatingFor(u, {"invalidated"}) :
           /\ Live(u)' \subseteq Live(u) \cup {x}
           /\ CreatingFor(u, {"invalidated"})' \subseteq CreatingFor(u, {"invalidated"}) \ {r}
    BY <1>5
  <2>2. PICK r \in CreatingFor(u, {"invalidated"}) :
           /\ Live(u)' \subseteq Live(u) \cup {x}
           /\ CreatingFor(u, {"invalidated"})' \subseteq CreatingFor(u, {"invalidated"}) \ {r}
    BY <2>1
  <2> DEFINE S == Live(u)   S2 == Live(u)'   n == Cardinality(Requests)
             T == CreatingFor(u, {"invalidated"})   T2 == CreatingFor(u, {"invalidated"})'
  <2>3. /\ IsFiniteSet(S) /\ IsFiniteSet(T) /\ n \in Int /\ r \in T
        /\ S2 \subseteq S \cup {x} /\ T2 \subseteq T \ {r}
        /\ Cardinality(S) + Cardinality(T) <= n
    BY <1>1, <1>2, <1>3, <2>2
  <2> HIDE DEF S, S2, T, T2, n
  <2>4. Cardinality(S2) + Cardinality(T2) <= n
    BY <2>3, Trade
  <2>5. QED BY <2>4 DEF S2, T2, n
<1>6. CASE Live(u)' = {}
  <2>1. Cardinality(Live(u)') = 0
    BY <1>6, FS_EmptySet
  <2>2. /\ Cardinality(CreatingFor(u, {"invalidated"})') <= Cardinality(Requests)
        /\ Cardinality(CreatingFor(u, {"invalidated"})') \in Nat
    BY <1>1, Finite, Counts
  <2>3. QED BY <1>2, <2>1, <2>2
<1>7. QED BY <1>4, <1>5, <1>6

\* Nothing is added; or a request has redeemed the token and is done; or nobody has.
LEMMA RedeemedKept ==
  ASSUME TokensTypeOK, TokensTypeOK', RedeemedBounded, NEW t \in TokenIds,
         \/ /\ redeemed'[t] = redeemed[t]
            /\ UsingToken(t)' \subseteq UsingToken(t)
         \/ \E r \in UsingToken(t) :
              /\ redeemed'[t] <= redeemed[t] + 1
              /\ UsingToken(t)' \subseteq UsingToken(t) \ {r}
         \/ redeemed'[t] = 0
  PROVE  redeemed'[t] + Cardinality(UsingToken(t)') <= Cardinality(Requests)
<1>1. /\ IsFiniteSet(UsingToken(t)) /\ UsingToken(t)' \subseteq Requests
  BY FiniteSets DEF UsingToken
<1>2. /\ Cardinality(Requests) \in Nat /\ IsFiniteSet(Requests)
      /\ redeemed[t] \in Nat /\ redeemed'[t] \in Nat
  BY Finite DEF TokensTypeOK
<1>3. redeemed[t] + Cardinality(UsingToken(t)) <= Cardinality(Requests)
  BY DEF RedeemedBounded
<1>4. CASE redeemed'[t] = redeemed[t] /\ UsingToken(t)' \subseteq UsingToken(t)
  <2>1. /\ Cardinality(UsingToken(t)') <= Cardinality(UsingToken(t))
        /\ Cardinality(UsingToken(t)') \in Nat /\ Cardinality(UsingToken(t)) \in Nat
    BY <1>1, <1>4, Counts
  <2>2. QED BY <1>2, <1>3, <1>4, <2>1
<1>5. CASE \E r \in UsingToken(t) :
             /\ redeemed'[t] <= redeemed[t] + 1
             /\ UsingToken(t)' \subseteq UsingToken(t) \ {r}
  <2>1. PICK r \in UsingToken(t) : /\ redeemed'[t] <= redeemed[t] + 1
                                   /\ UsingToken(t)' \subseteq UsingToken(t) \ {r}
    BY <1>5
  <2>2. /\ IsFiniteSet(UsingToken(t) \ {r})
        /\ Cardinality(UsingToken(t) \ {r}) = Cardinality(UsingToken(t)) - 1
    BY <1>1, FS_RemoveElement
  <2>3. /\ Cardinality(UsingToken(t)') <= Cardinality(UsingToken(t) \ {r})
        /\ Cardinality(UsingToken(t)') \in Nat
    BY <2>1, <2>2, Counts
  <2>4. Cardinality(UsingToken(t)) \in Nat
    BY <1>1, FS_CardinalityType
  <2>5. QED BY <1>2, <1>3, <2>1, <2>2, <2>3, <2>4
<1>6. CASE redeemed'[t] = 0
  <2>1. /\ Cardinality(UsingToken(t)') <= Cardinality(Requests)
        /\ Cardinality(UsingToken(t)') \in Nat
    BY <1>1, <1>2, Counts
  <2>2. QED BY <1>2, <1>6, <2>1
<1>7. QED BY <1>4, <1>5, <1>6

-----------------------------------------------------------------------------
(* The steps.                                                                 *)

\* Rows are kept, grow older, are used or go.
RowsOnlyAge ==
  /\ DOMAIN tokens' \subseteq DOMAIN tokens
  /\ \A t \in DOMAIN tokens' :
       /\ tokens'[t] \in Token /\ tokens'[t].user = tokens[t].user
       /\ tokens'[t].age >= tokens[t].age
       /\ tokens[t].used => tokens'[t].used

Uses(q, t) == q.at \in {"validated", "marked"} /\ q.token = t
Creates(q, u) == q.at \in AllCreating /\ q.user = u

\* A step of one request that issues no token.
LEMMA RequestKeeps ==
  ASSUME TokenInv, NEW r \in Requests, NEW q \in State, GoesTo(r, q),
         owners' = owners, issued' = issued, tokenDefaults' = tokenDefaults, RowsOnlyAge,
         redeemed' \in [TokenIds -> Nat],
         \A u \in Owners :
           /\ Creates(q, u) => Creates(reset[r], u) \/ Cardinality(Recent(u)) < MaxPerHour
           /\ q.at = "invalidated" /\ q.user = u => Live(u)' = {},
         \A t \in TokenIds :
           /\ \/ redeemed'[t] = redeemed[t] /\ (Uses(q, t) => Uses(reset[r], t))
              \/ redeemed'[t] <= redeemed[t] + 1 /\ Uses(reset[r], t) /\ ~Uses(q, t)
              \/ redeemed'[t] = 0
           /\ redeemed'[t] > 0 => redeemed[t] > 0 \/ (reset[r].at = "marked" /\ reset[r].token = t),
         Uses(q, q.token) => q.token <= issued,
         q.at = "marked" /\ q.token \in DOMAIN tokens' => tokens'[q.token].used
  PROVE  TokenInv'
<1>1. /\ reset' \in [Requests -> State] /\ reset'[r] = q
      /\ \A s \in Requests \ {r} : reset'[s] = reset[s]
  BY OneGoes DEF TokenInv
<1>2. TokensTypeOK /\ TokensTypeOK'
  BY <1>1 DEF TokenInv, TokensTypeOK, RowsOnlyAge, State
<1>3. \A u : Recent(u)' \subseteq Recent(u) /\ Live(u)' \subseteq Live(u)
  BY <1>2, RowsAge DEF RowsOnlyAge
<1>4. RateBounded'
  <2> SUFFICES ASSUME NEW u \in Owners
               PROVE  Cardinality(Recent(u)') + Cardinality(CreatingFor(u, AllCreating)') <= LimitOf
    BY DEF RateBounded, LimitOf, AllCreating
  <2>1. CASE Creates(q, u) /\ ~Creates(reset[r], u)
    BY <1>2, <1>3, <2>1, RateKept DEF TokenInv
  <2>2. CASE Creates(q, u) => Creates(reset[r], u)
    <3>1. CreatingFor(u, AllCreating)' \subseteq CreatingFor(u, AllCreating)
      BY <1>1, <2>2 DEF CreatingFor, Creates
    <3>2. QED BY <1>2, <1>3, <3>1, RateKept DEF TokenInv
  <2>3. QED BY <2>1, <2>2
<1>5. LiveBounded'
  <2> SUFFICES ASSUME NEW u \in Owners
               PROVE  Cardinality(Live(u)') + Cardinality(CreatingFor(u, {"invalidated"})')
                        <= Cardinality(Requests)
    BY DEF LiveBounded
  <2>1. CASE q.at = "invalidated" /\ q.user = u
    BY <1>2, <2>1, LiveKept DEF TokenInv
  <2>2. CASE ~(q.at = "invalidated" /\ q.user = u)
    <3>1. CreatingFor(u, {"invalidated"})' \subseteq CreatingFor(u, {"invalidated"})
      BY <1>1, <2>2 DEF CreatingFor
    <3>2. QED BY <1>2, <1>3, <3>1, LiveKept DEF TokenInv
  <2>3. QED BY <2>1, <2>2
<1>6. Spent'
  <2>1. ASSUME NEW s \in Requests, reset'[s].at \in {"validated", "marked"}
        PROVE  /\ reset'[s].token <= issued'
               /\ reset'[s].at = "marked" /\ reset'[s].token \in DOMAIN tokens' =>
                    tokens'[reset'[s].token].used
    <3>1. CASE s = r
      BY <1>1, <2>1, <3>1 DEF Uses
    <3>2. CASE s # r
      BY <1>1, <2>1, <3>2 DEF TokenInv, Spent, RowsOnlyAge
    <3>3. QED BY <3>1, <3>2
  <2>2. ASSUME NEW t \in TokenIds, redeemed'[t] > 0 PROVE t <= issued'
    BY <2>2 DEF TokenInv, Spent
  <2>3. QED BY <2>1, <2>2 DEF Spent
<1>7. RedeemedBounded'
  <2> SUFFICES ASSUME NEW t \in TokenIds
               PROVE  /\ redeemed'[t] + Cardinality(UsingToken(t)') <= Cardinality(Requests)
                      /\ redeemed'[t] > 0 /\ t \in DOMAIN tokens' => tokens'[t].used
    BY DEF RedeemedBounded
  <2>1. CASE redeemed'[t] = redeemed[t] /\ (Uses(q, t) => Uses(reset[r], t))
    <3>1. UsingToken(t)' \subseteq UsingToken(t)
      BY <1>1, <2>1 DEF UsingToken, Uses
    <3>2. QED BY <1>2, <2>1, <3>1, RedeemedKept DEF TokenInv, RedeemedBounded, RowsOnlyAge
  <2>2. redeemed'[t] > 0 /\ t \in DOMAIN tokens' => tokens'[t].used
    BY DEF TokenInv, RedeemedBounded, Spent, RowsOnlyAge
  <2>3. CASE redeemed'[t] <= redeemed[t] + 1 /\ Uses(reset[r], t) /\ ~Uses(q, t)
    <3>1. UsingToken(t)' \subseteq UsingToken(t) \ {r} /\ r \in UsingToken(t)
      BY <1>1, <2>3 DEF UsingToken, Uses
    <3>2. QED BY <1>2, <2>2, <2>3, <3>1, RedeemedKept DEF TokenInv
  <2>4. CASE redeemed'[t] = 0
    BY <1>2, <2>2, <2>4, RedeemedKept DEF TokenInv
  <2>5. QED BY <2>1, <2>3, <2>4
<1>8. QED BY <1>2, <1>4, <1>5, <1>6, <1>7 DEF TokenInv

\* A step of the table alone.
LEMMA TableKeeps ==
  ASSUME TokenInv, RowsOnlyAge, owners' \subseteq Owners,
         UNCHANGED <<issued, reset, redeemed, tokenDefaults>>
  PROVE  TokenInv'
<1>1. TokensTypeOK /\ TokensTypeOK'
  BY DEF TokenInv, TokensTypeOK, RowsOnlyAge
<1>2. \A u : Recent(u)' \subseteq Recent(u) /\ Live(u)' \subseteq Live(u)
  BY <1>1, RowsAge DEF RowsOnlyAge
<1>3. \A u, places, t : /\ CreatingFor(u, places)' = CreatingFor(u, places)
                        /\ UsingToken(t)' = UsingToken(t)
  BY DEF CreatingFor, UsingToken
<1>4. RateBounded'
  BY <1>1, <1>2, <1>3, RateKept DEF TokenInv, RateBounded, LimitOf, AllCreating
<1>5. LiveBounded'
  BY <1>1, <1>2, <1>3, LiveKept DEF TokenInv, LiveBounded
<1>6. Spent' /\ RedeemedBounded'
  BY <1>3 DEF TokenInv, Spent, RedeemedBounded, RowsOnlyAge
<1>7. QED BY <1>1, <1>4, <1>5, <1>6 DEF TokenInv

\* Before the first request.
LEMMA TokenInitInv == TokensInit => TokenInv
<1> SUFFICES ASSUME TokensInit PROVE TokenInv
  OBVIOUS
<1>1. Idle.at = "idle" /\ DOMAIN tokens = {} /\ \A r \in Requests : reset[r].at = "idle"
  BY DEF TokensInit, Idle
<1>2. TokensTypeOK
  BY <1>1, TokensAssumption DEF TokensInit, TokensTypeOK, TokensAssumption
<1>3. \A u, places, t : /\ Recent(u) = {} /\ Live(u) = {}
                        /\ CreatingFor(u, {"invalidated"}) = {}
                        /\ CreatingFor(u, {"counted", "invalidated"}) = {} /\ UsingToken(t) = {}
  BY <1>1 DEF Recent, Live, Of, CreatingFor, UsingToken
<1>4. Cardinality({}) = 0 /\ Cardinality(Requests) \in Nat
  BY <1>2, Finite, FS_EmptySet
<1>5. 0 + 0 <= MaxPerHour - 1 + Cardinality(Requests) /\ 0 + 0 <= Cardinality(Requests)
  BY <1>4, TokensAssumption DEF TokensAssumption
<1>6. RateBounded
  <2>1. \A u \in Owners : /\ Cardinality(Recent(u)) = 0
                          /\ Cardinality(CreatingFor(u, {"counted", "invalidated"})) = 0
    BY <1>3, <1>4
  <2>2. QED BY <1>5, <2>1 DEF RateBounded
<1>7. LiveBounded
  <2>1. \A u \in Owners : /\ Cardinality(Live(u)) = 0
                          /\ Cardinality(CreatingFor(u, {"invalidated"})) = 0
    BY <1>3, <1>4
  <2>2. QED BY <1>5, <2>1 DEF LiveBounded
<1>8. \A t \in TokenIds : redeemed[t] = 0 /\ Cardinality(UsingToken(t)) = 0
  BY <1>3, <1>4 DEF TokensInit
<1>9. Spent /\ RedeemedBounded
  BY <1>1, <1>5, <1>8 DEF Spent, RedeemedBounded
<1>10. QED BY <1>2, <1>6, <1>7, <1>9 DEF TokenInv

\* Rows that do not change only age.
LEMMA SameRows == ASSUME TokensTypeOK, UNCHANGED tokens PROVE RowsOnlyAge
<1>1. \A t \in DOMAIN tokens : tokens[t] \in Token /\ tokens[t].age \in Nat
  BY TokensAssumption DEF TokensTypeOK, Token, TokensAssumption
<1>2. QED BY <1>1 DEF RowsOnlyAge

\* Nor do rows that are spent.
LEMMA SpentRows == ASSUME TokensTypeOK, NEW rows, Spend(rows) PROVE RowsOnlyAge
<1>1. \A t \in DOMAIN tokens : tokens[t] \in Token /\ tokens[t].age \in Nat
  BY TokensAssumption DEF TokensTypeOK, Token, TokensAssumption
<1>2. QED BY <1>1, SpendRows DEF RowsOnlyAge

\* Nor the rows that are left.
LEMMA KeptRows ==
  ASSUME TokensTypeOK, NEW rows \in SUBSET DOMAIN tokens, Keep(rows) PROVE RowsOnlyAge
<1>1. \A t \in DOMAIN tokens : tokens[t] \in Token /\ tokens[t].age \in Nat
  BY TokensAssumption DEF TokensTypeOK, Token, TokensAssumption
<1>2. DOMAIN tokens' = rows /\ \A t \in rows : tokens'[t] = tokens[t]
  BY DEF Keep
<1>3. QED BY <1>1, <1>2 DEF RowsOnlyAge

\* The statements of create_reset_token before its INSERT, and an INSERT that fails.
LEMMA CreateInv ==
  ASSUME TokenInv, NEW r \in Requests,
         Invalidate(r) \/ IssueFails(r) \/ \E u \in Owners : CountRecent(r, u)
  PROVE  TokenInv'
<1>1. /\ TokensTypeOK /\ reset[r] \in State /\ redeemed' \in [TokenIds -> Nat]
      /\ UNCHANGED <<owners, issued, redeemed, tokenDefaults>>
  BY DEF TokenInv, TokensTypeOK, State, Invalidate, IssueFails, CountRecent
<1>2. \A t \in TokenIds : redeemed'[t] = redeemed[t] /\ redeemed[t] \in Nat
  BY <1>1 DEF TokensTypeOK
<1>3. ASSUME NEW u \in Owners, CountRecent(r, u) PROVE TokenInv'
  <2> DEFINE q == [at |-> "counted", user |-> u]
  <2>1. q \in State /\ q.at = "counted" /\ q.user = u
    BY DEF State, Creating
  <2>2. GoesTo(r, q) /\ Cardinality(Recent(u)) < MaxPerHour /\ RowsOnlyAge
    BY <1>1, <1>3, SameRows DEF CountRecent
  <2> HIDE DEF q
  <2>3. QED BY <1>1, <1>2, <2>1, <2>2, RequestKeeps DEF Creates, Uses
<1>4. CASE Invalidate(r)
  <2> DEFINE q == [reset[r] EXCEPT !.at = "invalidated"]
  <2>0. SUFFICES ASSUME NEW u \in Owners, u = reset[r].user PROVE TokenInv'
    BY <1>1, <1>4, StateFields DEF Invalidate
  <2>1. /\ q \in State /\ q.at = "invalidated" /\ q.user = u /\ GoesTo(r, q)
        /\ u \in Owners /\ reset[r].at = "counted" /\ Spend(Of(u))
    BY <1>1, <1>4, <2>0, MovedState, StateFields DEF Invalidate
  <2> HIDE DEF q
  <2>2. RowsOnlyAge
    BY <1>1, <2>1, SpentRows
  <2>3. Live(u)' = {}
    <3> SUFFICES ASSUME NEW t \in Live(u)' PROVE FALSE
      OBVIOUS
    <3>1. t \in DOMAIN tokens' /\ tokens'[t].user = u /\ ~tokens'[t].used
      BY DEF Live, Recent, Of
    <3>2. /\ DOMAIN tokens' = DOMAIN tokens
          /\ \A k \in DOMAIN tokens : /\ tokens'[k].user = tokens[k].user
                                      /\ k \in Of(u) => tokens'[k].used
      BY <1>1, <2>1, SpendRows
    <3>3. t \in DOMAIN tokens /\ t \in Of(u)
      BY <3>1, <3>2 DEF Of
    <3>4. QED BY <3>1, <3>2, <3>3
  <2>4. \A v \in Owners : Creates(q, v) => Creates(reset[r], v)
    BY <2>0, <2>1 DEF Creates, AllCreating
  <2>5. /\ ~Uses(q, q.token) /\ q.at # "marked" /\ \A t \in TokenIds : ~Uses(q, t)
        /\ \A v \in Owners : q.user = v => Live(v)' = {}
    BY <2>1, <2>3 DEF Uses
  <2>6. QED BY <1>1, <1>2, <2>1, <2>2, <2>4, <2>5, RequestKeeps
<1>5. CASE IssueFails(r)
  <2>1. Idle \in State /\ Idle.at = "idle" /\ GoesTo(r, Idle) /\ RowsOnlyAge
    BY <1>1, <1>5, SameRows DEF IssueFails, State, Idle
  <2>2. /\ \A u \in Owners : ~Creates(Idle, u)
        /\ ~Uses(Idle, Idle.token) /\ \A t \in TokenIds : ~Uses(Idle, t)
    BY <2>1 DEF Creates, Uses, AllCreating
  <2>3. QED BY <1>1, <1>2, <2>1, <2>2, RequestKeeps
<1>6. QED BY <1>3, <1>4, <1>5

\* The statements of use_reset_token.
LEMMA UseInv ==
  ASSUME TokenInv, NEW r \in Requests,
         MarkUsed(r) \/ Return(r) \/ \E t \in TokenIds : Validate(r, t)
  PROVE  TokenInv'
<1>1. /\ TokensTypeOK /\ reset[r] \in State /\ \A t \in TokenIds : redeemed[t] \in Nat
      /\ UNCHANGED <<owners, issued, tokenDefaults>>
      /\ reset[r].at \in {"validated", "marked"} => reset[r].token \in TokenIds
  BY StateFields DEF TokenInv, TokensTypeOK, State, MarkUsed, Return, Validate
<1>2. ASSUME NEW t \in TokenIds, Validate(r, t) PROVE TokenInv'
  <2> DEFINE q == [at |-> "validated", token |-> t]
  <2>1. q \in State /\ q.at = "validated" /\ q.token = t
    BY DEF State, Using
  <2>2. /\ GoesTo(r, q) /\ RowsOnlyAge /\ redeemed' = redeemed
        /\ t \in DOMAIN tokens /\ ~tokens[t].used
    BY <1>1, <1>2, SameRows DEF Validate
  <2> HIDE DEF q
  <2>3. t <= issued /\ redeemed[t] = 0
    BY <1>1, <2>2 DEF TokensTypeOK, TokenInv, RedeemedBounded
  <2>4. \A u \in Owners : ~Creates(q, u)
    BY <2>1 DEF Creates, AllCreating
  <2>5. redeemed' \in [TokenIds -> Nat]
    BY <1>1, <2>2 DEF TokensTypeOK
  <2>6. QED BY <1>1, <2>1, <2>2, <2>3, <2>4, <2>5, RequestKeeps DEF Uses
<1>3. CASE MarkUsed(r)
  <2> DEFINE q == [reset[r] EXCEPT !.at = "marked"]
             t == reset[r].token
  <2>1. /\ q \in State /\ q.at = "marked" /\ q.token = t /\ GoesTo(r, q)
        /\ t \in TokenIds /\ reset[r].at = "validated" /\ Spend({t}) /\ redeemed' = redeemed
    BY <1>1, <1>3, MovedState DEF MarkUsed
  <2> HIDE DEF q
  <2>2. RowsOnlyAge /\ (t \in DOMAIN tokens' => tokens'[t].used)
    BY <1>1, <2>1, SpentRows, SpendRows
  <2>3. t <= issued
    BY <2>1 DEF TokenInv, Spent
  <2>4. \A u \in Owners : ~Creates(q, u)
    BY <2>1 DEF Creates, AllCreating
  <2>5. redeemed' \in [TokenIds -> Nat]
    BY <1>1, <2>1 DEF TokensTypeOK
  <2>6. QED BY <1>1, <2>1, <2>2, <2>3, <2>4, <2>5, RequestKeeps DEF Uses
<1>4. CASE Return(r)
  <2> DEFINE t == reset[r].token
  <2>1. Idle \in State /\ Idle.at = "idle" /\ GoesTo(r, Idle) /\ RowsOnlyAge
    BY <1>1, <1>4, SameRows DEF Return, State, Idle
  <2>2. t \in TokenIds /\ reset[r].at = "marked"
    BY <1>1, <1>4 DEF Return
  <2>3. /\ redeemed' \in [TokenIds -> Nat] /\ redeemed'[t] <= redeemed[t] + 1
        /\ \A k \in TokenIds \ {t} : redeemed'[k] = redeemed[k]
    BY <1>1, <1>4, <2>2 DEF Return, TokensTypeOK
  <2>4. /\ \A u \in Owners : ~Creates(Idle, u)
        /\ ~Uses(Idle, Idle.token) /\ \A k \in TokenIds : ~Uses(Idle, k)
    BY <2>1 DEF Creates, Uses, AllCreating
  <2>5. Uses(reset[r], t)
    BY <2>2 DEF Uses
  <2>6. QED BY <1>1, <2>1, <2>2, <2>3, <2>4, <2>5, RequestKeeps
<1>5. QED BY <1>2, <1>3, <1>4

\* Clean-up, a deleted account and the clock.
LEMMA OthersInv ==
  ASSUME TokenInv, CleanupExpired \/ TokensTick \/ \E u \in Owners : DeleteOwner(u)
  PROVE  TokenInv'
<1>1. TokensTypeOK
  BY DEF TokenInv
<1>2. /\ owners' \subseteq Owners /\ UNCHANGED <<issued, reset, redeemed, tokenDefaults>>
  BY <1>1 DEF CleanupExpired, TokensTick, DeleteOwner, TokensTypeOK
<1>3. CASE CleanupExpired
  BY <1>1, <1>2, <1>3, KeptRows, TableKeeps DEF CleanupExpired
<1>4. CASE \E u \in Owners : DeleteOwner(u)
  BY <1>1, <1>2, <1>4, KeptRows, TableKeeps DEF DeleteOwner
<1>5. CASE TokensTick
  <2>1. DOMAIN tokens' = DOMAIN tokens /\ Hour \in Nat
    BY <1>5, TokensAssumption DEF TokensTick, TokensAssumption
  <2>2. ASSUME NEW t \in DOMAIN tokens
        PROVE  /\ tokens'[t] \in Token /\ tokens'[t].user = tokens[t].user
               /\ tokens'[t].age >= tokens[t].age
               /\ tokens[t].used => tokens'[t].used
    <3> DEFINE older == IF tokens[t].age <= Hour THEN tokens[t].age + 1 ELSE tokens[t].age
    <3>1. tokens[t] \in Token /\ tokens[t].age \in 0..(Hour + 1)
      BY <1>1 DEF TokensTypeOK, Token
    <3>2. older \in 0..(Hour + 1) /\ older >= tokens[t].age
      BY <2>1, <3>1
    <3>3. tokens'[t] = [tokens[t] EXCEPT !.age = older]
      BY <1>5 DEF TokensTick
    <3> HIDE DEF older
    <3>4. QED BY <3>1, <3>2, <3>3 DEF Token
  <2>3. RowsOnlyAge
    BY <2>1, <2>2 DEF RowsOnlyAge
  <2>4. QED BY <1>2, <2>3, TableKeeps
<1>6. QED BY <1>3, <1>4, <1>5

\* The INSERT of create_reset_token.
LEMMA IssueInv == ASSUME TokenInv, NEW r \in Requests, Issue(r) PROVE TokenInv'
<1> DEFINE k == issued + 1
<1>1. /\ TokensTypeOK /\ reset[r] \in State /\ Idle \in State /\ Idle.at = "idle"
      /\ issued \in Nat /\ k \in TokenIds /\ k \notin DOMAIN tokens /\ Hour \in Nat
  BY TokensAssumption DEF TokenInv, TokensTypeOK, State, Idle, Issue, TokenIds, TokensAssumption
<1>u. SUFFICES ASSUME NEW u \in Owners, u = reset[r].user PROVE TokenInv'
  BY <1>1, StateFields DEF Issue
<1>2. /\ reset' \in [Requests -> State] /\ reset'[r] = Idle
      /\ \A s \in Requests \ {r} : reset'[s] = reset[s]
  <2>1. GoesTo(r, Idle)
    BY DEF Issue
  <2>2. QED BY <1>1, <2>1, OneGoes
<1>3. /\ DOMAIN tokens' = DOMAIN tokens \cup {k}
      /\ tokens'[k] = [user |-> u, age |-> 0, used |-> FALSE]
      /\ \A t \in DOMAIN tokens : tokens'[t] = tokens[t]
      /\ issued' = k /\ UNCHANGED <<owners, redeemed, tokenDefaults>>
  BY <1>u, <1>1 DEF Issue
<1>4. TokensTypeOK'
  <2>1. DOMAIN tokens' \subseteq 1..issued' /\ issued' \in 0..MaxTokens
    BY <1>1, <1>3 DEF TokensTypeOK, TokenIds
  <2>2. tokens'[k] \in Token
    BY <1>u, <1>1, <1>3 DEF Token
  <2>3. \A t \in DOMAIN tokens' : tokens'[t] \in Token
    BY <1>1, <1>3, <2>2 DEF TokensTypeOK
  <2>4. QED BY <1>1, <1>2, <1>3, <2>1, <2>3 DEF TokensTypeOK, State
<1>5. \A v \in Owners : /\ Recent(v)' \subseteq Recent(v) \cup {k}
                        /\ Live(v)' \subseteq Live(v) \cup {k}
                        /\ v # u => /\ Recent(v)' \subseteq Recent(v)
                                    /\ Live(v)' \subseteq Live(v)
  BY <1>3 DEF Recent, Live, Of
<1>6. /\ \A v, t : /\ CreatingFor(v, AllCreating)' \subseteq CreatingFor(v, AllCreating) \ {r}
                   /\ CreatingFor(v, {"invalidated"})' \subseteq CreatingFor(v, {"invalidated"}) \ {r}
                   /\ UsingToken(t)' \subseteq UsingToken(t)
      /\ r \in CreatingFor(u, AllCreating) /\ r \in CreatingFor(u, {"invalidated"})
  BY <1>u, <1>1, <1>2 DEF CreatingFor, UsingToken, AllCreating, Issue
<1> HIDE DEF k
<1>7. RateBounded'
  <2> SUFFICES ASSUME NEW v \in Owners
               PROVE  Cardinality(Recent(v)') + Cardinality(CreatingFor(v, AllCreating)') <= LimitOf
    BY DEF RateBounded, LimitOf, AllCreating
  <2>1. CASE v = u
    <3>1. /\ Recent(v)' \subseteq Recent(v) \cup {k}
          /\ CreatingFor(v, AllCreating)' \subseteq CreatingFor(v, AllCreating) \ {r}
          /\ r \in CreatingFor(v, AllCreating)
      BY <1>5, <1>6, <2>1
    <3>2. TokensTypeOK /\ RateBounded
      BY DEF TokenInv
    <3>3. QED BY <1>4, <3>1, <3>2, RateKept
  <2>2. CASE v # u
    <3>1. /\ Recent(v)' \subseteq Recent(v)
          /\ CreatingFor(v, AllCreating)' \subseteq CreatingFor(v, AllCreating)
      BY <1>5, <1>6, <2>2
    <3>2. QED BY <1>1, <1>4, <3>1, RateKept DEF TokenInv
  <2>3. QED BY <2>1, <2>2
<1>8. LiveBounded'
  <2> SUFFICES ASSUME NEW v \in Owners
               PROVE  Cardinality(Live(v)') + Cardinality(CreatingFor(v, {"invalidated"})')
                        <= Cardinality(Requests)
    BY DEF LiveBounded
  <2>1. CASE v = u
    <3>1. /\ Live(v)' \subseteq Live(v) \cup {k}
          /\ CreatingFor(v, {"invalidated"})' \subseteq CreatingFor(v, {"invalidated"}) \ {r}
          /\ r \in CreatingFor(v, {"invalidated"})
      BY <1>5, <1>6, <2>1
    <3>2. TokensTypeOK /\ LiveBounded
      BY DEF TokenInv
    <3>3. QED BY <1>4, <3>1, <3>2, LiveKept
  <2>2. CASE v # u
    <3>1. /\ Live(v)' \subseteq Live(v)
          /\ CreatingFor(v, {"invalidated"})' \subseteq CreatingFor(v, {"invalidated"})
      BY <1>5, <1>6, <2>2
    <3>2. QED BY <1>1, <1>4, <3>1, LiveKept DEF TokenInv
  <2>3. QED BY <2>1, <2>2
<1>9. Spent'
  <2>1. ASSUME NEW s \in Requests, reset'[s].at \in {"validated", "marked"}
        PROVE  /\ reset'[s].token <= issued'
               /\ reset'[s].at = "marked" /\ reset'[s].token \in DOMAIN tokens' =>
                    tokens'[reset'[s].token].used
    <3>1. s # r /\ reset'[s] = reset[s] /\ reset[s] \in State
      BY <1>1, <1>2, <2>1 DEF TokensTypeOK, State
    <3>2. /\ reset[s].token \in TokenIds /\ reset[s].token <= issued
          /\ reset[s].at = "marked" /\ reset[s].token \in DOMAIN tokens =>
               tokens[reset[s].token].used
      BY <2>1, <3>1, StateFields DEF TokenInv, Spent
    <3>3. reset[s].token # k /\ reset[s].token <= k
      BY <1>1, <3>2 DEF k, TokenIds
    <3>4. QED BY <1>3, <3>1, <3>2, <3>3
  <2>2. ASSUME NEW t \in TokenIds, redeemed'[t] > 0 PROVE t <= issued'
    BY <1>1, <1>3, <2>2 DEF TokenInv, Spent, TokenIds, k
  <2>3. QED BY <2>1, <2>2 DEF Spent
<1>10. RedeemedBounded'
  <2> SUFFICES ASSUME NEW t \in TokenIds
               PROVE  /\ redeemed'[t] + Cardinality(UsingToken(t)') <= Cardinality(Requests)
                      /\ redeemed'[t] > 0 /\ t \in DOMAIN tokens' => tokens'[t].used
    BY DEF RedeemedBounded
  <2>1. redeemed'[t] + Cardinality(UsingToken(t)') <= Cardinality(Requests)
    BY <1>1, <1>3, <1>4, <1>6, RedeemedKept DEF TokenInv
  <2>2. redeemed'[t] > 0 => t # k
    BY <1>1, <1>3 DEF TokenInv, Spent, TokenIds, k
  <2>3. QED BY <1>3, <2>1, <2>2 DEF TokenInv, RedeemedBounded
<1>11. QED BY <1>4, <1>7, <1>8, <1>9, <1>10 DEF TokenInv

\* A step of any kind, or none.
LEMMA TokenStepInv == TokenInv /\ [TokensNext]_tokenVars => TokenInv'
<1>1. ASSUME TokenInv, TokensNext PROVE TokenInv'
  <2>1. CASE \E r \in Requests : \/ Invalidate(r) \/ IssueFails(r)
                                \/ \E u \in Owners : CountRecent(r, u)
    BY <1>1, <2>1, CreateInv
  <2>2. CASE \E r \in Requests : \/ MarkUsed(r) \/ Return(r)
                                \/ \E t \in TokenIds : Validate(r, t)
    BY <1>1, <2>2, UseInv
  <2>3. CASE \E r \in Requests : Issue(r)
    BY <1>1, <2>3, IssueInv
  <2>4. CASE CleanupExpired \/ TokensTick \/ \E u \in Owners : DeleteOwner(u)
    BY <1>1, <2>4, OthersInv
  <2>5. QED BY <1>1, <2>1, <2>2, <2>3, <2>4 DEF TokensNext
<1>2. ASSUME TokenInv, UNCHANGED tokenVars PROVE TokenInv'
  <2>1. TokensTypeOK /\ RowsOnlyAge
    BY <1>2, SameRows DEF TokenInv, tokenVars
  <2>2. /\ owners' \subseteq Owners
        /\ UNCHANGED <<issued, reset, redeemed, tokenDefaults>>
    BY <1>2, <2>1 DEF tokenVars, TokensTypeOK
  <2>3. QED BY <1>2, <2>1, <2>2, TableKeeps
<1>3. QED BY <1>1, <1>2

\* The invariant holds of every behaviour.
LEMMA TokenInvHolds == TokensSpec => []TokenInv
<1>1. QED BY TokenInitInv, TokenStepInv, PTL DEF TokensSpec

-----------------------------------------------------------------------------
\* Every variable of the reset tokens keeps its type: tokens are numbered up to the last
\* one issued, and requests are where the code can be.
THEOREM TokensTypeCorrect == TokensSpec => []TokensTypeOK
<1>1. TokenInv => TokensTypeOK
  BY DEF TokenInv
<1>2. QED BY <1>1, TokenInvHolds, PTL

\* _check_rate_limit is exceeded by no more than the requests that overlap.
THEOREM RateBoundedHolds == TokensSpec => []RateBounded
<1>1. TokenInv => RateBounded
  BY DEF TokenInv
<1>2. QED BY <1>1, TokenInvHolds, PTL

\* A user has no more live tokens than create_reset_token has overlapping calls.
THEOREM LiveBoundedHolds == TokensSpec => []LiveBounded
<1>1. TokenInv => LiveBounded
  BY DEF TokenInv
<1>2. QED BY <1>1, TokenInvHolds, PTL

\* use_reset_token returns a token to no more requests than overlap, and one it has
\* returned is used for good.
THEOREM RedeemedBoundedHolds == TokensSpec => []RedeemedBounded
<1>1. TokenInv => RedeemedBounded
  BY DEF TokenInv
<1>2. QED BY <1>1, TokenInvHolds, PTL
===============================================================================
