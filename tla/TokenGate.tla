------------------------------ MODULE TokenGate ------------------------------
(***************************************************************************)
(* One user's token pair before the protected API routes: AuthMiddleware,  *)
(* Logout and RefreshToken of middleware/auth.go over the Redis keys of    *)
(* middleware/jwt_cache.go.  Each call to Redis is a step of its own and   *)
(* may fail; requests and logouts overlap.                                 *)
(***************************************************************************)
EXTENDS Integers, FiniteSets

CONSTANTS
    Requests,      \* requests to protected routes
    Logouts,       \* calls of Logout
    Enabled,       \* a Redis client was configured
    MaxFaults      \* bound on the Redis calls that fail

ASSUME GateAssumption ==
    /\ Enabled \in BOOLEAN /\ MaxFaults \in Nat

VARIABLES
    black,      \* the key jwt:blacklist:<hash of the access token> exists
    valid,      \* the key jwt:valid:<hash of the access token> exists
    expired,    \* the access token has expired
    req,        \* where each request is
    token,      \* the token each request brings
    after,      \* the request began after a logout had completed
    blind,      \* the request's question to the blacklist failed
    logout,     \* where each logout is
    refresh,    \* where the refresh request is
    faults      \* Redis calls that have failed

keys == <<black, valid>>
gateVars == <<keys, expired, req, token, after, blind, logout, refresh, faults>>

\* generateToken: both tokens of a pair carry the type "Bearer" and differ in
\* the secret they are signed with.
Tokens == {"access", "refresh", "garbage"}
SecretOf == [access |-> "accessSecret", refresh |-> "refreshSecret", garbage |-> "none"]
TypeOf == [access |-> "Bearer", refresh |-> "Bearer", garbage |-> "none"]

\* ValidateToken.
Validates(tok, secret, type) ==
    /\ SecretOf[tok] = secret
    /\ tok = "access" => ~expired
    /\ TypeOf[tok] = type

GateInit ==
    /\ black = FALSE /\ valid = FALSE /\ expired = FALSE /\ faults = 0
    /\ req = [r \in Requests |-> "none"] /\ token = [r \in Requests |-> "access"]
    /\ after = [r \in Requests |-> FALSE] /\ blind = [r \in Requests |-> FALSE]
    /\ logout = [l \in Logouts |-> "none"] /\ refresh = "none"

Go(r, to) == req' = [req EXCEPT ![r] = to]
\* A call to Redis fails.
Fault == faults < MaxFaults /\ faults' = faults + 1

---------------------------------------------------------------------------
(* AuthMiddleware                                                          *)

\* The header is taken apart; only the access token has keys in Redis.
Arrive(r) ==
    /\ req[r] = "none"
    /\ \E tok \in Tokens : token' = [token EXCEPT ![r] = tok]
    /\ after' = [after EXCEPT ![r] = \E l \in Logouts : logout[l] = "loggedOut"]
    /\ Go(r, IF Enabled THEN "blacklist" ELSE "validate")
    /\ UNCHANGED <<keys, expired, blind, logout, refresh, faults>>

\* A header without a token, or with something else than "Bearer <token>".
Malformed(r) ==
    /\ req[r] = "none"
    /\ Go(r, "refused")
    /\ UNCHANGED <<keys, expired, token, after, blind, logout, refresh, faults>>

\* A plausible bug: the cache is asked first, the blacklist only on a miss.
IsBlacklistedLate(r) ==
    /\ req[r] = "blacklist"
    /\ \/ /\ Go(r, IF token[r] = "access" /\ valid THEN "served"
                   ELSE IF token[r] = "access" /\ black THEN "refused" ELSE "cache")
          /\ UNCHANGED <<blind, faults>>
       \/ Fault /\ Go(r, "cache") /\ blind' = [blind EXCEPT ![r] = TRUE]
    /\ UNCHANGED <<keys, expired, token, after, logout, refresh>>

\* IsBlacklisted; without an answer from Redis the request goes on.
IsBlacklisted(r) ==
    /\ req[r] = "blacklist"
    /\ \/ /\ Go(r, IF token[r] = "access" /\ black THEN "refused" ELSE "cache")
          /\ UNCHANGED <<blind, faults>>
       \/ Fault /\ Go(r, "cache") /\ blind' = [blind EXCEPT ![r] = TRUE]
    /\ UNCHANGED <<keys, expired, token, after, logout, refresh>>

\* GetCachedToken: a hit is served without looking at the token again.
GetCachedToken(r) ==
    /\ req[r] = "cache"
    /\ \/ /\ Go(r, IF token[r] = "access" /\ valid THEN "served" ELSE "validate")
          /\ UNCHANGED faults
       \/ Fault /\ Go(r, "validate")
    /\ UNCHANGED <<keys, expired, token, after, blind, logout, refresh>>

ValidateToken(r) ==
    /\ req[r] = "validate"
    /\ Go(r, IF ~Validates(token[r], "accessSecret", "Bearer") THEN "refused"
             ELSE IF Enabled THEN "store" ELSE "served")
    /\ UNCHANGED <<keys, expired, token, after, blind, logout, refresh, faults>>

\* CacheToken computes the time to live and sends SET, which may arrive after
\* the token has expired.
CacheToken(r) ==
    /\ req[r] = "store"
    /\ IF expired THEN Go(r, "served") ELSE Go(r, "set")
    /\ UNCHANGED <<keys, expired, token, after, blind, logout, refresh, faults>>

\* The request is served whether or not the key could be written.
SetValid(r) ==
    /\ req[r] = "set"
    /\ \/ valid' = TRUE /\ UNCHANGED faults
       \/ Fault /\ UNCHANGED valid
    /\ Go(r, "served")
    /\ UNCHANGED <<black, expired, token, after, blind, logout, refresh>>

---------------------------------------------------------------------------
(* Logout                                                                  *)

Out(l, to) == logout' = [logout EXCEPT ![l] = to]

\* The access token is validated; without Redis nothing can be revoked.
Logout(l) ==
    /\ logout[l] = "none"
    /\ Out(l, IF ~Validates("access", "accessSecret", "Bearer") THEN "refused"
              ELSE IF Enabled THEN "blacklist" ELSE "acknowledged")
    /\ UNCHANGED <<keys, expired, req, token, after, blind, refresh, faults>>

\* BlacklistToken; an error ends the logout with a failure.
BlacklistToken(l) ==
    /\ logout[l] = "blacklist"
    /\ \/ /\ black' = (black \/ ~expired) /\ Out(l, "invalidate") /\ UNCHANGED faults
       \/ Fault /\ Out(l, "failed") /\ UNCHANGED black
    /\ UNCHANGED <<valid, expired, req, token, after, blind, refresh>>

\* InvalidateToken; an error is ignored.
InvalidateToken(l) ==
    /\ logout[l] = "invalidate"
    /\ \/ valid' = FALSE /\ UNCHANGED faults
       \/ Fault /\ UNCHANGED valid
    /\ Out(l, "loggedOut")
    /\ UNCHANGED <<black, expired, req, token, after, blind, refresh>>

---------------------------------------------------------------------------
(* RefreshToken                                                            *)

\* The type that is asked for is "refreshToken", which no token has.
RefreshToken ==
    /\ refresh = "none"
    /\ \E tok \in Tokens :
         refresh' = IF Validates(tok, "refreshSecret", "refreshToken") THEN "renewed" ELSE "refused"
    /\ UNCHANGED <<keys, expired, req, token, after, blind, logout, faults>>

---------------------------------------------------------------------------
(* Time                                                                    *)

TokenExpires ==
    /\ ~expired /\ expired' = TRUE
    /\ UNCHANGED <<keys, req, token, after, blind, logout, refresh, faults>>

\* Redis drops a key when its own time to live is over: not before the token
\* has expired, and each key by itself.
KeyExpires ==
    /\ expired
    /\ \/ black /\ black' = FALSE /\ UNCHANGED valid
       \/ valid /\ valid' = FALSE /\ UNCHANGED black
    /\ UNCHANGED <<expired, req, token, after, blind, logout, refresh, faults>>

---------------------------------------------------------------------------
RequestStep(r) ==
    \/ Arrive(r) \/ Malformed(r)
    \/ IsBlacklisted(r) \/ GetCachedToken(r) \/ ValidateToken(r) \/ CacheToken(r) \/ SetValid(r)
LogoutStep(l) == Logout(l) \/ BlacklistToken(l) \/ InvalidateToken(l)

GateNext ==
    \/ \E r \in Requests : RequestStep(r)
    \/ \E l \in Logouts : LogoutStep(l)
    \/ RefreshToken \/ TokenExpires \/ KeyExpires

GateSpec == GateInit /\ [][GateNext]_gateVars

---------------------------------------------------------------------------
(* Properties                                                              *)

\* Every variable has a value of its kind.
GateTypeOK ==
    /\ black \in BOOLEAN /\ valid \in BOOLEAN /\ expired \in BOOLEAN
    /\ req \in [Requests -> {"none", "blacklist", "cache", "validate", "store", "set",
                             "served", "refused"}]
    /\ token \in [Requests -> Tokens]
    /\ after \in [Requests -> BOOLEAN] /\ blind \in [Requests -> BOOLEAN]
    /\ logout \in [Logouts -> {"none", "blacklist", "invalidate", "loggedOut", "failed",
                               "refused", "acknowledged"}]
    /\ refresh \in {"none", "refused", "renewed"} /\ faults \in 0 .. MaxFaults

\* A request that begins after a completed logout is refused until the token
\* has expired anyway, although a request that was under way during the logout
\* may write the valid key again; it passes only if its own question to the
\* blacklist fails (AuthMiddleware, Logout, expireTokenCache).
RevokedRefused ==
    \A r \in Requests : after[r] /\ req[r] = "served" => expired \/ blind[r]
=============================================================================
