------------------------------ MODULE Access ------------------------------
(* Accounts, role assignments and sessions, and the HTTP handlers and       *)
(* commands that change them. A handler is authorized once, by a SELECT of  *)
(* the session's user, and then runs its own statements, each committed     *)
(* alone; handlers of different callers interleave at every one. Left out:  *)
(* the column is_superuser, which commands and updates set and nothing      *)
(* reads, and names, emails and passwords.                                  *)
(*                                                                          *)
(* Columns: update_last_login writes a column last_login, and set_password  *)
(* a column password_hash, that no migration creates (0001 has              *)
(* last_login_at and hashed_password). amended says whether the database    *)
(* has them; in the tables as migrated these statements raise.              *)
EXTENDS Naturals, FiniteSets

CONSTANTS
  Users,          \* accounts that may come to exist, each at most once: ids are not reused
  Callers         \* clients, each with a session and at most one request in progress

ASSUME AccessAssumption == IsFiniteSet(Callers)

VARIABLES
  account,        \* account[u]: not created yet, a row with its is_active, or deleted
  hasRole,        \* the slugs of the rows of role
  held,           \* held[u][r]: how many rows of user_account_role give u the role r
  session,        \* session[c]: the user in c's session, or "nobody"
  request,        \* request[c]: the request c is in
  amended         \* whether the columns that the services write exist

accessVars == <<account, hasRole, held, session, request, amended>>

\* "superuser" is what requires_superuser looks for, "member" what create_user assigns
RoleSlugs == {"superuser", "member"}

NoRequest == [op |-> "none"]
Request ==
       [op : {"login"}, at : {"verified", "stamped"}, user : Users]
  \cup [op : {"assign"}, at : {"begun", "absent"}, user : Users, role : RoleSlugs]
  \cup [op : {"promote"}, at : {"begun", "absent"}, user : Users, role : {"superuser"}]
  \cup [op : {"revoke"}, at : {"begun", "present"}, user : Users, role : RoleSlugs]
  \cup [op : {"create"}, at : {"begun", "inserted"}, user : Users]
  \cup [op : {"update", "delete", "password"}, at : {"begun"}, user : Users]

AccessTypeOK ==
  /\ account \in [Users -> {"none", "active", "inactive", "gone"}]
  /\ hasRole \subseteq RoleSlugs
  /\ held \in [Users -> [RoleSlugs -> Nat]]
  /\ session \in [Callers -> Users \cup {"nobody"}]
  /\ request \in [Callers -> {NoRequest} \cup Request]
  /\ amended \in BOOLEAN

\* Before the first request the database is migrated and may hold the fixture's role
AccessInit ==
  /\ account = [u \in Users |-> "none"]
  /\ hasRole \in SUBSET RoleSlugs
  /\ held = [u \in Users |-> [r \in RoleSlugs |-> 0]]
  /\ session = [c \in Callers |-> "nobody"]
  /\ request = [c \in Callers |-> NoRequest]
  /\ amended \in BOOLEAN

----------------------------------------------------------------------------
There(u) == account[u] \in {"active", "inactive"}
Free(c) == request[c] = NoRequest
In(c, op, place) == request[c].op = op /\ request[c].at = place
Becomes(c, state) == request' = [request EXCEPT ![c] = state]
Moves(c, place) == Becomes(c, [request[c] EXCEPT !.at = place])
Ends(c) == Becomes(c, NoRequest)
Held(u, r, n) == held' = [held EXCEPT ![u] = [@ EXCEPT ![r] = n]]

\* retrieve_user_from_session, the guard of every route behind authentication
Authenticated(c) ==
  session[c] # "nobody" /\ account[session[c]] = "active"

\* requires_superuser
Superuser(c) == Authenticated(c) /\ held[session[c]]["superuser"] > 0

\* login -----------------------------------------------------------------
\* authenticate: the SELECT and the verification; a wrong password and an inactive
\* account are refused here.
Verify(c, u) ==
  /\ Free(c) /\ account[u] = "active"
  /\ Becomes(c, [op |-> "login", at |-> "verified", user |-> u])
  /\ UNCHANGED <<account, hasRole, held, session, amended>>

\* update_last_login
Stamp(c) ==
  /\ In(c, "login", "verified") /\ amended
  /\ Moves(c, "stamped")
  /\ UNCHANGED <<account, hasRole, held, session, amended>>

\* Mutant of StampFails: the error is swallowed.
StampIgnored(c) ==
  /\ In(c, "login", "verified") /\ ~amended
  /\ Moves(c, "stamped")
  /\ UNCHANGED <<account, hasRole, held, session, amended>>

StampFails(c) ==
  /\ In(c, "login", "verified") /\ ~amended
  /\ Ends(c)
  /\ UNCHANGED <<account, hasRole, held, session, amended>>

\* The last SELECT of authenticate raises when the account is gone; then set_session
Establish(c) ==
  /\ In(c, "login", "stamped")
  /\ session' = IF There(request[c].user)
                THEN [session EXCEPT ![c] = request[c].user] ELSE session
  /\ Ends(c)
  /\ UNCHANGED <<account, hasRole, held, amended>>

Logout(c) ==
  /\ Free(c) /\ Authenticated(c)
  /\ session' = [session EXCEPT ![c] = "nobody"]
  /\ UNCHANGED <<account, hasRole, held, request, amended>>

\* requests that are authorized and then run -----------------------------------
\* The routes of UserController and UserRoleController
Administer(c, op, u) ==
  /\ Free(c) /\ Superuser(c)
  /\ \/ /\ op \in {"create", "update", "delete"}
        /\ Becomes(c, [op |-> op, at |-> "begun", user |-> u])
     \/ /\ op \in {"assign", "revoke"}
        /\ \E r \in RoleSlugs :
             Becomes(c, [op |-> op, at |-> "begun", user |-> u, role |-> r])
  /\ UNCHANGED <<account, hasRole, held, session, amended>>

\* The routes of ProfileController on one's own account
Own(c, op) ==
  /\ Free(c) /\ Authenticated(c) /\ op \in {"delete", "password"}
  /\ Becomes(c, [op |-> op, at |-> "begun", user |-> session[c]])
  /\ UNCHANGED <<account, hasRole, held, session, amended>>

\* create_user's first INSERT. A second row for the account would break the unique email
\* (here: the id).
InsertUser(c) ==
  /\ In(c, "create", "begun")
  /\ IF account[request[c].user] = "none"
     THEN /\ account' = [account EXCEPT ![request[c].user] = "active"]
          /\ Moves(c, "inserted")
     ELSE Ends(c) /\ UNCHANGED account
  /\ UNCHANGED <<hasRole, held, session, amended>>

\* create_user then looks for the role "member" and assigns it if it is there. The
\* foreign key refuses it for an account deleted meanwhile.
DefaultRole(c) ==
  /\ In(c, "create", "inserted")
  /\ IF "member" \in hasRole /\ There(request[c].user)
     THEN Held(request[c].user, "member", held[request[c].user]["member"] + 1)
     ELSE UNCHANGED held
  /\ Ends(c)
  /\ UNCHANGED <<account, hasRole, session, amended>>

\* Mutant of UpdateUser: a row that is gone is written.
UpdateAny(c) ==
  /\ In(c, "update", "begun")
  /\ \E row \in {"active", "none"} : account' = [account EXCEPT ![request[c].user] = row]
  /\ Ends(c)
  /\ UNCHANGED <<hasRole, held, session, amended>>

\* update_user, which may set is_active of a row that is there
UpdateUser(c) ==
  /\ In(c, "update", "begun")
  /\ IF There(request[c].user)
     THEN \E row \in {"active", "inactive"} : account' = [account EXCEPT ![request[c].user] = row]
     ELSE UNCHANGED account
  /\ Ends(c)
  /\ UNCHANGED <<hasRole, held, session, amended>>

\* delete_user; assignments go with the account (on delete cascade)
DeleteUser(c) ==
  /\ In(c, "delete", "begun")
  /\ IF There(request[c].user)
     THEN /\ account' = [account EXCEPT ![request[c].user] = "gone"]
          /\ held' = [held EXCEPT ![request[c].user] = [r \in RoleSlugs |-> 0]]
     ELSE UNCHANGED <<account, held>>
  /\ Ends(c)
  /\ UNCHANGED <<hasRole, session, amended>>

\* update_password: the new hash is not modelled, and where the column is missing nothing
\* is written
SetPassword(c) ==
  /\ In(c, "password", "begun")
  /\ Ends(c)
  /\ UNCHANGED <<account, hasRole, held, session, amended>>

\* Mutant of CheckAbsent: the 409 of a role that is held is forgotten.
CheckThere(c) ==
  /\ In(c, "assign", "begun")
  /\ IF There(request[c].user) /\ request[c].role \in hasRole
     THEN Moves(c, "absent") ELSE Ends(c)
  /\ UNCHANGED <<account, hasRole, held, session, amended>>

\* The checks of assign_role: the user and the role are there (404) and the role is not
\* held (409). Their three SELECTs are one step: only the last matters to what follows.
CheckAbsent(c) ==
  /\ In(c, "assign", "begun")
  /\ IF /\ There(request[c].user) /\ request[c].role \in hasRole
        /\ held[request[c].user][request[c].role] = 0
     THEN Moves(c, "absent") ELSE Ends(c)
  /\ UNCHANGED <<account, hasRole, held, session, amended>>

\* Mutant of Assign: the foreign key is missing.
AssignUnchecked(c) ==
  /\ In(c, "assign", "absent")
  /\ Held(request[c].user, request[c].role, held[request[c].user][request[c].role] + 1)
  /\ Ends(c)
  /\ UNCHANGED <<account, hasRole, session, amended>>

\* assign_role_to_user: no constraint makes the pair unique, only the foreign key refuses
Assign(c) ==
  /\ In(c, "assign", "absent")
  /\ IF There(request[c].user)
     THEN Held(request[c].user, request[c].role, held[request[c].user][request[c].role] + 1)
     ELSE UNCHANGED held
  /\ Ends(c)
  /\ UNCHANGED <<account, hasRole, session, amended>>

CheckPresent(c) ==
  /\ In(c, "revoke", "begun")
  /\ IF There(request[c].user) /\ held[request[c].user][request[c].role] > 0
     THEN Moves(c, "present") ELSE Ends(c)
  /\ UNCHANGED <<account, hasRole, held, session, amended>>

\* revoke_role_from_user
Revoke(c) ==
  /\ In(c, "revoke", "present")
  /\ Held(request[c].user, request[c].role, 0)
  /\ Ends(c)
  /\ UNCHANGED <<account, hasRole, session, amended>>

\* commands ----------------------------------------------------------------
\* create-user --superuser runs in one transaction: account, default role, the role
\* "superuser" (created if missing) and its assignment are committed together.
CreateSuperuser(c, u) ==
  /\ Free(c) /\ account[u] = "none"
  /\ account' = [account EXCEPT ![u] = "active"]
  /\ hasRole' = hasRole \cup {"superuser"}
  /\ held' = [held EXCEPT ![u] =
                [r \in RoleSlugs |-> IF r = "superuser" \/ r \in hasRole THEN 1 ELSE 0]]
  /\ UNCHANGED <<session, request, amended>>

\* create-user without --superuser, in its transaction
CreatePlain(c, u) ==
  /\ Free(c) /\ account[u] = "none"
  /\ account' = [account EXCEPT ![u] = "active"]
  /\ held' = [held EXCEPT ![u] =
                [r \in RoleSlugs |-> IF r = "member" /\ r \in hasRole THEN 1 ELSE 0]]
  /\ UNCHANGED <<hasRole, session, request, amended>>

\* promote-to-superuser has no transaction: find the account and ensure the role, ...
Promote(c, u) ==
  /\ Free(c) /\ There(u)
  /\ hasRole' = hasRole \cup {"superuser"}
  /\ Becomes(c, [op |-> "promote", at |-> "begun", user |-> u, role |-> "superuser"])
  /\ UNCHANGED <<account, held, session, amended>>

\* ... look whether it is held, ...
CheckHeld(c) ==
  /\ In(c, "promote", "begun")
  /\ IF held[request[c].user]["superuser"] > 0 THEN Ends(c) ELSE Moves(c, "absent")
  /\ UNCHANGED <<account, hasRole, held, session, amended>>

\* ... and assign it; the foreign key ends the command when the account is gone
AssignSuperuser(c) ==
  /\ In(c, "promote", "absent")
  /\ IF There(request[c].user)
     THEN Held(request[c].user, "superuser", held[request[c].user]["superuser"] + 1)
     ELSE UNCHANGED held
  /\ Ends(c)
  /\ UNCHANGED <<account, hasRole, session, amended>>

AccessNext ==
  \E c \in Callers :
    \/ Stamp(c) \/ StampFails(c) \/ Establish(c) \/ Logout(c)
    \/ InsertUser(c) \/ DefaultRole(c) \/ UpdateUser(c) \/ DeleteUser(c) \/ SetPassword(c)
    \/ CheckAbsent(c) \/ Assign(c) \/ CheckPresent(c) \/ Revoke(c)
    \/ CheckHeld(c) \/ AssignSuperuser(c)
    \/ \E op \in {"delete", "password"} : Own(c, op)
    \/ \E u \in Users :
         \/ Verify(c, u) \/ CreateSuperuser(c, u) \/ CreatePlain(c, u) \/ Promote(c, u)
         \/ \E op \in {"create", "update", "delete", "assign", "revoke"} : Administer(c, op, u)

AccessSpec == AccessInit /\ [][AccessNext]_accessVars

----------------------------------------------------------------------------
\* The requests that are about to insert a row that gives u the role r
Granting(u, r) ==
  {c \in Callers :
     \/ /\ request[c].op \in {"assign", "promote"} /\ request[c].at = "absent"
        /\ request[c].user = u /\ request[c].role = r
     \/ In(c, "create", "inserted") /\ request[c].user = u /\ r = "member"}

\* Nothing but the checks before the INSERT keeps an assignment from being made twice
\* ("already has the role"): it is made no more often than requests may overlap, however
\* the handlers, create_user and the commands interleave.
HeldBounded ==
  \A u \in Users : \A r \in RoleSlugs :
    held[u][r] + Cardinality(Granting(u, r)) <= Cardinality(Callers)

\* An assignment names an account and a role that are there, although handlers insert it
\* several statements after they looked.
AssignmentsSound ==
  \A u \in Users : \A r \in RoleSlugs :
    held[u][r] > 0 => There(u) /\ r \in hasRole

\* In the tables as migrated no login succeeds, so no session ever names a user and no
\* route behind authentication is ever entered, whatever the commands create.
NobodyLogsIn ==
  ~amended => \A c \in Callers :
    /\ session[c] = "nobody"
    /\ request[c].op \in {"none", "login", "promote"}

============================================================================
