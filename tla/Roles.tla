------------------------------ MODULE Roles ------------------------------
(* The creation of roles: create_role with its search for a free slug,      *)
(* ensure_default_roles of RoleService, and the create-roles command, each  *)
(* a sequence of statements that commit one by one, in processes that       *)
(* interleave. A slug is a base, what slugify makes of a name, and a        *)
(* counter: <<base, 0>> is the bare slug. Names and slugs are UNIQUE in the *)
(* table, so an INSERT that would repeat one raises.                        *)
EXTENDS Naturals, Sequences

CONSTANTS
  Names,          \* the names given to roles
  Base,           \* Base[n]: slugify(n); different names may share a base
  DefaultNames,   \* the names that are ensured, in order
  Creators        \* processes that create roles

ASSUME RolesAssumption ==
  /\ DOMAIN Base = Names
  /\ DefaultNames \in Seq(Names)

VARIABLES
  roles,          \* the rows: roles[n] is the slug of the role named n
  creator         \* creator[c]: the operation process c is in

roleVars == <<roles, creator>>

Slugs == {Base[n] : n \in Names} \X Nat
Taken == {roles[n] : n \in DOMAIN roles}

Resting == [at |-> "resting"]

\* The operations: "create" (create_role), "name" (ensure_default_roles, which looks roles
\* up by name) and "slug" (create-roles, which looks them up by slug). todo: the names not
\* looked at yet. Two fields record what happened meanwhile: raced, another process has
\* inserted a role since this one began the search; intact, no role was deleted since
\* the call began. update_role, which nothing calls, is left out.
Operation == [at : {"looking", "probing", "inserting"}, by : {"create", "name", "slug"},
              todo : Seq(Names), counter : Nat, raced : BOOLEAN, intact : BOOLEAN]

RolesTypeOK ==
  /\ DOMAIN roles \subseteq Names
  /\ \A n \in DOMAIN roles : roles[n] \in Slugs
  /\ creator \in [Creators -> {Resting} \union Operation]
  /\ \A m, n \in DOMAIN roles : roles[m] = roles[n] => m = n

RolesInit ==
  /\ roles = [n \in {} |-> <<>>]
  /\ creator = [c \in Creators |-> Resting]

----------------------------------------------------------------------------
Busy(c) == creator[c] # Resting
At(c, place) == creator[c].at = place
Current(c) == Head(creator[c].todo)

\* The others' searches after process c inserted a role
Outrun(c) == [d \in Creators |->
                IF d # c /\ Busy(d) /\ creator[d].at # "looking"
                THEN [creator[d] EXCEPT !.raced = TRUE] ELSE creator[d]]

\* The others' calls after a role was deleted
Disturbed == [c \in Creators |->
                IF Busy(c) /\ creator[c].by # "create"
                THEN [creator[c] EXCEPT !.intact = FALSE] ELSE creator[c]]

Operate(by, place, todo) ==
  [at |-> place, by |-> by, todo |-> todo, counter |-> 0, raced |-> FALSE, intact |-> TRUE]

\* create_role(data) without a slug
StartCreate(c, n) ==
  /\ ~Busy(c)
  /\ creator' = [creator EXCEPT ![c] = Operate("create", "probing", <<n>>)]
  /\ UNCHANGED roles

\* ensure_default_roles, or the create-roles command
StartEnsure(c, by) ==
  /\ ~Busy(c)
  /\ creator' = [creator EXCEPT ![c] = Operate(by, "looking", DefaultNames)]
  /\ UNCHANGED roles

SlugExists(c) ==
  \/ creator[c].by = "name" /\ Current(c) \in DOMAIN roles
  \/ creator[c].by = "slug" /\ <<Base[Current(c)], 0>> \in Taken

\* Mutant of Look: every default role is passed over.
LookPast(c) ==
  /\ Busy(c) /\ At(c, "looking") /\ creator[c].todo # <<>>
  /\ creator' = [creator EXCEPT ![c] = [creator[c] EXCEPT !.todo = Tail(@)]]
  /\ UNCHANGED roles

\* exists_by_name, or the SELECT of _ensure_role: a role that is there is passed over, one
\* that is not is created. By name, create_role follows; by slug, the INSERT at once.
Look(c) ==
  /\ Busy(c) /\ At(c, "looking") /\ creator[c].todo # <<>>
  /\ creator' = [creator EXCEPT ![c] =
       IF SlugExists(c) THEN [creator[c] EXCEPT !.todo = Tail(@)]
       ELSE [creator[c] EXCEPT !.at = IF creator[c].by = "name" THEN "probing" ELSE "inserting"]]
  /\ UNCHANGED roles

\* The call returns
Ensured(c) ==
  /\ Busy(c) /\ At(c, "looking") /\ creator[c].todo = <<>>
  /\ creator' = [creator EXCEPT ![c] = Resting]
  /\ UNCHANGED roles

\* Mutant of Probe: the slug with a counter is not looked up.
ProbeOnce(c) ==
  /\ Busy(c) /\ At(c, "probing")
  /\ creator' = [creator EXCEPT ![c] =
       IF <<Base[Current(c)], 0>> \in Taken
       THEN [creator[c] EXCEPT !.at = "inserting", !.counter = 1]
       ELSE [creator[c] EXCEPT !.at = "inserting"]]
  /\ UNCHANGED roles

\* One turn of the loop of get_available_slug
Probe(c) ==
  /\ Busy(c) /\ At(c, "probing")
  /\ creator' = [creator EXCEPT ![c] =
       IF <<Base[Current(c)], creator[c].counter>> \in Taken
       THEN [creator[c] EXCEPT !.counter = @ + 1]
       ELSE [creator[c] EXCEPT !.at = "inserting"]]
  /\ UNCHANGED roles

Admissible(c) == /\ Current(c) \notin DOMAIN roles
                 /\ <<Base[Current(c)], creator[c].counter>> \notin Taken

\* What follows a role created: the end of create_role, or the next default
AfterInsert(c) ==
  IF creator[c].by = "create" THEN Resting
  ELSE [creator[c] EXCEPT !.at = "looking", !.todo = Tail(@), !.counter = 0, !.raced = FALSE]

\* Mutant of InsertRole: the constraint on slugs is missing.
InsertAnyway(c) ==
  /\ Busy(c) /\ At(c, "inserting") /\ Current(c) \notin DOMAIN roles
  /\ roles' = [n \in DOMAIN roles \union {Current(c)} |->
                 IF n = Current(c) THEN <<Base[n], creator[c].counter>> ELSE roles[n]]
  /\ creator' = [Outrun(c) EXCEPT ![c] = AfterInsert(c)]

InsertRole(c) ==
  /\ Busy(c) /\ At(c, "inserting") /\ Admissible(c)
  /\ roles' = [n \in DOMAIN roles \union {Current(c)} |->
                 IF n = Current(c) THEN <<Base[n], creator[c].counter>> ELSE roles[n]]
  /\ creator' = [Outrun(c) EXCEPT ![c] = AfterInsert(c)]

\* The INSERT raises, and with it the whole operation
Refuse(c) ==
  /\ Busy(c) /\ At(c, "inserting") /\ ~Admissible(c)
  /\ creator' = [creator EXCEPT ![c] = Resting]
  /\ UNCHANGED roles

\* RoleService.delete
DeleteRole(n) ==
  /\ n \in DOMAIN roles
  /\ roles' = [m \in DOMAIN roles \ {n} |-> roles[m]]
  /\ creator' = Disturbed

RolesNext ==
  \/ \E c \in Creators :
       \/ \E n \in Names : StartCreate(c, n)
       \/ \E by \in {"name", "slug"} : StartEnsure(c, by)
       \/ Look(c) \/ Ensured(c) \/ Probe(c) \/ InsertRole(c) \/ Refuse(c)
  \/ \E n \in Names : DeleteRole(n)

RolesSpec == RolesInit /\ [][RolesNext]_roleVars

----------------------------------------------------------------------------
\* The names among those to ensure that process c has dealt with
Treated(c) == {DefaultNames[i] : i \in 1..(Len(DefaultNames) - Len(creator[c].todo))}

\* When a call of ensure_default_roles or create-roles comes to its end, and so when it
\* returns, every default role it has passed is there, whatever other processes created
\* meanwhile, unless a role was deleted.
DefaultsPresent ==
  \A c \in Creators :
    Busy(c) /\ creator[c].by # "create" /\ creator[c].intact =>
      \A n \in Treated(c) :
        IF creator[c].by = "name" THEN n \in DOMAIN roles ELSE <<Base[n], 0>> \in Taken

\* The search of get_available_slug finds a free slug: a creation is refused only for its
\* name, or because another process inserted a role since it began.
SlugRefusedOnlyByRace ==
  [][\A c \in Creators :
       Refuse(c) => Current(c) \in DOMAIN roles \/ creator[c].raced]_roleVars

============================================================================
