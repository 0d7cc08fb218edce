-------------------------------- MODULE Tokens --------------------------------
(***************************************************************************)
(* Tokens and the API keys they are exchanged for (rest/auth_handler.go    *)
(* and middleware/auth.go), above the principals and stores of             *)
(* PrincipalService.  A token is signed, not stored: it is accepted until  *)
(* it expires, whatever becomes of the key, across restarts as well.       *)
(* Operators also sign tokens themselves, for any principal; these are the *)
(* calls of GetOrCreate that PrincipalService has.                         *)
(***************************************************************************)
EXTENDS PrincipalService

CONSTANT TTL   \* life of a token in ticks of the clock

ASSUME TTLAssumption == TTL \in Nat \ {0}

VARIABLES
  due,    \* requests that exchange a key and have not been given a token
  token,  \* ticks left to the token that each request was given, 0 without one
  dead    \* history: ticks, up to TTL, since each key was last in force, not counting
          \* those in which it was being exchanged

tvars == <<due, token, dead>>

TInit ==
  /\ Init
  /\ due = {}
  /\ token = [r \in Requests |-> 0]
  /\ dead = [k \in Keys |-> TTL]

InForce(k)    == \E i \in Ids : last[i] = k
InExchange(k) == \E r \in due : key[r] = k /\ pc[r] # "failed"

\* POST /auth/token, up to the answer.
Exchange(r, k) ==
  /\ AuthenticateByAPIKey(r, k)
  /\ due' = due \cup {r}
  /\ dead' = [dead EXCEPT ![k] = IF InForce(k) THEN 0 ELSE @]
  /\ UNCHANGED token

Issue(r) ==
  /\ r \in due /\ pc[r] = "done"
  /\ due' = due \ {r}
  /\ token' = [token EXCEPT ![r] = TTL]
  /\ UNCHANGED <<vars, dead>>

\* Mutant of Call: when the token expired is not looked at.
CallAnyTime(r, t) ==
  /\ op[t] = "signIn" /\ pc[t] = "done" /\ key[t] \in Keys /\ t \notin due
  /\ GetOrCreate(r, who[t])
  /\ UNCHANGED tvars

\* JWTMiddleware: r comes with the token that t was given.
Call(r, t) == token[t] > 0 /\ GetOrCreate(r, who[t]) /\ UNCHANGED tvars

Tick ==
  /\ token' = [r \in Requests |-> IF token[r] = 0 THEN 0 ELSE token[r] - 1]
  /\ dead' = [k \in Keys |-> IF InForce(k) THEN 0
                             ELSE IF InExchange(k) THEN dead[k]
                             ELSE IF dead[k] < TTL THEN dead[k] + 1 ELSE TTL]
  /\ UNCHANGED <<vars, due>>

Restart == Crash /\ due' = {} /\ UNCHANGED <<token, dead>>

TNext ==
  \/ \E r \in Requests :
       \/ Operation(r) /\ UNCHANGED tvars
       \/ \E k \in Keys : Exchange(r, k)
       \/ \E t \in Requests : Call(r, t)
       \/ Issue(r)
  \/ Tick
  \/ Restart

TSpec == TInit /\ [][TNext]_<<vars, tvars>>

-----------------------------------------------------------------------------
TTypeOK ==
  /\ TypeOK
  /\ due \subseteq Requests
  /\ token \in [Requests -> 0 .. TTL]
  /\ dead \in [Keys -> 0 .. TTL]

\* A token opens no request later than TTL after its key was replaced or revoked, not
\* counting the time for which an exchange of that key was then still under way,
\* unless a stale copy of principals.json may have brought the key back.
TokensFollowTheirKeys ==
  [][\A r, t \in Requests : Call(r, t) /\ ~clobbered => dead[key[t]] < TTL]_<<vars, tvars>>

\* "Returns UNAUTHORIZED if the key is invalid or has been revoked"
\* (usecase/principal/service.go:237): only a key that is in force is exchanged.
RevokedKeysAreRefused ==
  [][\A r \in Requests, k \in Keys : Exchange(r, k) => InForce(k)]_<<vars, tvars>>

-----------------------------------------------------------------------------
(* The inductive invariant.                                                 *)

\* Who has a token is done, and who will be given one has begun.
Held ==
  \A r \in Requests :
    /\ token[r] > 0 => pc[r] = "done" /\ key[r] \in Keys
    /\ r \in due => pc[r] # "idle" /\ key[r] \in Keys

\* What is left to a token is no more than what is left of the time since its key died.
InTime ==
  ~clobbered =>
    \A r \in Requests :
      /\ r \in due /\ pc[r] # "failed" => dead[key[r]] = 0
      /\ token[r] > 0 => dead[key[r]] + token[r] <= TTL

TInv == IInv /\ TTypeOK /\ Held /\ InTime
=============================================================================
