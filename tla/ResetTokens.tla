--------------------------- MODULE ResetTokens ---------------------------
(* The password reset tokens of PasswordService. Every statement commits    *)
(* alone, so a request that creates or uses a token is a sequence of steps, *)
(* and requests interleave at each of them.                                 *)
(*                                                                          *)
(* A token's age counts clock ticks since its INSERT and stops one past the *)
(* hour, where the token is expired and outside the window of the rate      *)
(* limit. Tokens are numbered in the order they are issued.                 *)
(*                                                                          *)
(* INSERT names neither id, created_at nor updated_at, which migration 0001 *)
(* declares NOT NULL without a default: in the tables as migrated it always *)
(* fails. tokenDefaults says whether the database supplies these columns.   *)
EXTENDS Naturals, FiniteSets

CONSTANTS
  Owners,         \* user accounts
  Requests,       \* requests that the web processes may handle at a time
  Hour,           \* clock ticks in the hour of a token and of the rate limit
  MaxPerHour,     \* MAX_RESET_REQUESTS_PER_HOUR
  MaxTokens       \* bound on the tokens issued

ASSUME TokensAssumption ==
  /\ IsFiniteSet(Requests)
  /\ Hour \in Nat \ {0}
  /\ MaxPerHour \in Nat \ {0}
  /\ MaxTokens \in Nat

VARIABLES
  owners,         \* the rows of user_account
  tokens,         \* the rows of password_reset_token, by number; issued ones may be gone
  issued,         \* how many tokens were ever inserted
  reset,          \* reset[r]: the operation that request r is in, and where
  redeemed,       \* redeemed[t]: how many calls of use_reset_token returned token t
  tokenDefaults   \* whether the table supplies the columns that INSERT leaves out

tokenVars == <<owners, tokens, issued, reset, redeemed, tokenDefaults>>

TokenIds == 1..MaxTokens
Token == [user : Owners, age : 0..(Hour + 1), used : BOOLEAN]

Idle == [at |-> "idle"]
Creating == [at : {"counted", "invalidated"}, user : Owners]
Using == [at : {"validated", "marked"}, token : TokenIds]

TokensTypeOK ==
  /\ owners \subseteq Owners
  /\ issued \in 0..MaxTokens
  /\ DOMAIN tokens \subseteq 1..issued
  /\ \A t \in DOMAIN tokens : tokens[t] \in Token
  /\ reset \in [Requests -> {Idle} \union Creating \union Using]
  /\ redeemed \in [TokenIds -> Nat]
  /\ tokenDefaults \in BOOLEAN

TokensInit ==
  /\ owners = Owners
  /\ tokens = [t \in {} |-> Idle]
  /\ issued = 0
  /\ reset = [r \in Requests |-> Idle]
  /\ redeemed = [t \in TokenIds |-> 0]
  /\ tokenDefaults \in BOOLEAN

----------------------------------------------------------------------------
Of(u) == {t \in DOMAIN tokens : tokens[t].user = u}
Recent(u) == {t \in Of(u) : tokens[t].age <= Hour}         \* created_at >= an hour ago
Live(u) == {t \in Recent(u) : ~tokens[t].used}             \* get_pending_tokens_for_user

GoesTo(r, state) == reset' = [reset EXCEPT ![r] = state]
Keep(rows) == tokens' = [t \in rows |-> tokens[t]]
Spend(rows) == tokens' = [t \in DOMAIN tokens |->
                            [tokens[t] EXCEPT !.used = @ \/ t \in rows]]

\* Mutant of CountRecent: the limit is compared with <=.
CountRecentInclusive(r, u) ==
  /\ reset[r] = Idle /\ u \in owners
  /\ Cardinality(Recent(u)) <= MaxPerHour
  /\ GoesTo(r, [at |-> "counted", user |-> u])
  /\ UNCHANGED <<owners, tokens, issued, redeemed, tokenDefaults>>

\* _check_rate_limit, the first statement of create_reset_token. At the limit it
\* raises and nothing has changed.
CountRecent(r, u) ==
  /\ reset[r] = Idle /\ u \in owners
  /\ Cardinality(Recent(u)) < MaxPerHour
  /\ GoesTo(r, [at |-> "counted", user |-> u])
  /\ UNCHANGED <<owners, tokens, issued, redeemed, tokenDefaults>>

\* Mutant of Invalidate: only tokens older than an hour are marked.
InvalidateExpired(r) ==
  /\ reset[r].at = "counted"
  /\ Spend(Of(reset[r].user) \ Recent(reset[r].user))
  /\ GoesTo(r, [reset[r] EXCEPT !.at = "invalidated"])
  /\ UNCHANGED <<owners, issued, redeemed, tokenDefaults>>

\* invalidate_user_tokens
Invalidate(r) ==
  /\ reset[r].at = "counted"
  /\ Spend(Of(reset[r].user))
  /\ GoesTo(r, [reset[r] EXCEPT !.at = "invalidated"])
  /\ UNCHANGED <<owners, issued, redeemed, tokenDefaults>>

\* The INSERT of create_reset_token
Issue(r) ==
  /\ reset[r].at = "invalidated" /\ tokenDefaults /\ reset[r].user \in owners
  /\ issued < MaxTokens
  /\ issued' = issued + 1
  /\ tokens' = [t \in DOMAIN tokens \union {issued + 1} |->
                  IF t = issued + 1
                  THEN [user |-> reset[r].user, age |-> 0, used |-> FALSE]
                  ELSE tokens[t]]
  /\ GoesTo(r, Idle)
  /\ UNCHANGED <<owners, redeemed, tokenDefaults>>

\* The INSERT fails, for the missing columns or for the account deleted meanwhile.
\* What was invalidated stays so.
IssueFails(r) ==
  /\ reset[r].at = "invalidated"
  /\ ~tokenDefaults \/ reset[r].user \notin owners
  /\ GoesTo(r, Idle)
  /\ UNCHANGED <<owners, tokens, issued, redeemed, tokenDefaults>>

\* validate_reset_token, the first statement of use_reset_token: used and expired
\* tokens raise.
Validate(r, t) ==
  /\ reset[r] = Idle /\ t \in DOMAIN tokens
  /\ ~tokens[t].used /\ tokens[t].age <= Hour
  /\ GoesTo(r, [at |-> "validated", token |-> t])
  /\ UNCHANGED <<owners, tokens, issued, redeemed, tokenDefaults>>

\* Mutant of MarkUsed: the token is returned without being marked.
MarkNothing(r) ==
  /\ reset[r].at = "validated"
  /\ GoesTo(r, [reset[r] EXCEPT !.at = "marked"])
  /\ UNCHANGED <<owners, tokens, issued, redeemed, tokenDefaults>>

\* The UPDATE of use_reset_token, by id alone: of a row that is gone it changes nothing
MarkUsed(r) ==
  /\ reset[r].at = "validated"
  /\ Spend({reset[r].token})
  /\ GoesTo(r, [reset[r] EXCEPT !.at = "marked"])
  /\ UNCHANGED <<owners, issued, redeemed, tokenDefaults>>

\* The last SELECT: use_reset_token returns, or raises if the row is gone
Return(r) ==
  /\ reset[r].at = "marked"
  /\ redeemed' = IF reset[r].token \in DOMAIN tokens
                 THEN [redeemed EXCEPT ![reset[r].token] = @ + 1] ELSE redeemed
  /\ GoesTo(r, Idle)
  /\ UNCHANGED <<owners, tokens, issued, tokenDefaults>>

\* cleanup_expired_tokens
CleanupExpired ==
  /\ \E t \in DOMAIN tokens : tokens[t].age > Hour
  /\ Keep({t \in DOMAIN tokens : tokens[t].age <= Hour})
  /\ UNCHANGED <<owners, issued, reset, redeemed, tokenDefaults>>

\* UserService.delete_user; the tokens go with the account (on delete cascade)
DeleteOwner(u) ==
  /\ u \in owners
  /\ owners' = owners \ {u}
  /\ Keep(DOMAIN tokens \ Of(u))
  /\ UNCHANGED <<issued, reset, redeemed, tokenDefaults>>

\* Mutant of TokensTick: ages are not capped.
TickOn ==
  /\ \E t \in DOMAIN tokens : tokens[t].age <= Hour
  /\ tokens' = [t \in DOMAIN tokens |-> [tokens[t] EXCEPT !.age = @ + 1]]
  /\ UNCHANGED <<owners, issued, reset, redeemed, tokenDefaults>>

\* The clock, of the database and of the processes alike
TokensTick ==
  /\ \E t \in DOMAIN tokens : tokens[t].age <= Hour
  /\ tokens' = [t \in DOMAIN tokens |->
                  [tokens[t] EXCEPT !.age = IF @ <= Hour THEN @ + 1 ELSE @]]
  /\ UNCHANGED <<owners, issued, reset, redeemed, tokenDefaults>>

TokensNext ==
  \/ \E r \in Requests :
       \/ \E u \in Owners : CountRecent(r, u)
       \/ Invalidate(r) \/ Issue(r) \/ IssueFails(r)
       \/ \E t \in TokenIds : Validate(r, t)
       \/ MarkUsed(r) \/ Return(r)
  \/ \E u \in Owners : DeleteOwner(u)
  \/ CleanupExpired
  \/ TokensTick

TokensSpec == TokensInit /\ [][TokensNext]_tokenVars

----------------------------------------------------------------------------
CreatingFor(u, places) ==
  {r \in Requests : reset[r].at \in places /\ reset[r].user = u}
UsingToken(t) ==
  {r \in Requests : reset[r].at \in {"validated", "marked"} /\ reset[r].token = t}

\* The rate limit is exceeded by no more than the requests that overlap: a user has at
\* most MaxPerHour recent tokens, plus one for every further request that may have
\* counted before the others inserted. With one request at a time this is the limit of
\* _check_rate_limit's docstring.
RateBounded ==
  \A u \in Owners :
    Cardinality(Recent(u)) + Cardinality(CreatingFor(u, {"counted", "invalidated"}))
      <= MaxPerHour - 1 + Cardinality(Requests)

\* create_reset_token "invalidates any existing tokens for the user before creating a
\* new one": a user has no more live tokens than requests that may overlap, one if they
\* do not.
LiveBounded ==
  \A u \in Owners :
    Cardinality(Live(u)) + Cardinality(CreatingFor(u, {"invalidated"}))
      <= Cardinality(Requests)

\* A token redeems no more requests than those that validated it before the first of
\* them marked it, and none afterwards: no token that has been redeemed is valid again.
RedeemedBounded ==
  \A t \in TokenIds :
    /\ redeemed[t] + Cardinality(UsingToken(t)) <= Cardinality(Requests)
    /\ redeemed[t] > 0 /\ t \in DOMAIN tokens => tokens[t].used

============================================================================
