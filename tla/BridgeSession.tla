--------------------------- MODULE BridgeSession ---------------------------
(***************************************************************************)
(* assistant_bridge_client.get: every report that comes from the assistant *)
(* backend is a GET with a session token that the process logs in for,     *)
(* caches for fifteen minutes and, on a 401, throws away and logs in for   *)
(* again, once.  The backend's view of a session is its own: it may end    *)
(* one before the cache does (a restart, a revocation).  The backend is    *)
(* external: up or not, any status it likes, and it answers 401 to a       *)
(* token whose session is over.                                            *)
(***************************************************************************)
EXTENDS Integers

VARIABLES up,       \* the backend can be reached and logs the account in
          token,    \* _token: none, or one whose session lives or is over
          cached,   \* time.time() < _token_expires_at
          step,     \* where get() is
          held,     \* the token this call sends
          logins, gets, \* requests this call has made
          outcome,  \* how the last call ended
          upset     \* history: during the call the backend was down, ended a
                    \* session or answered with an error of its own

vars == <<up, token, cached, step, held, logins, gets, outcome, upset>>

Tokens == {"none", "live", "over"}
Steps == {"idle", "token", "get", "token_again", "get_again"}
\* "garbled": a 2xx answer that is no JSON, on which resp.json() raises.
Outcomes == {"none", "data", "error", "unauthorized", "raised", "garbled"}

TypeOK ==
    /\ up \in BOOLEAN /\ token \in Tokens /\ cached \in BOOLEAN
    /\ step \in Steps /\ held \in Tokens
    /\ logins \in 0 .. 2 /\ gets \in 0 .. 2
    /\ outcome \in Outcomes /\ upset \in BOOLEAN

Init ==
    /\ up = TRUE /\ token = "none" /\ cached = FALSE
    /\ step = "idle" /\ held = "none"
    /\ logins = 0 /\ gets = 0
    /\ outcome = "none" /\ upset = FALSE

Active == step # "idle"
client == <<step, logins, gets, outcome>>

-----------------------------------------------------------------------------
(* The backend and the clock. *)

GoDownOrUp ==
    /\ up' = ~up
    /\ upset' = (upset \/ Active)
    /\ UNCHANGED <<token, cached, held, client>>

\* The backend restarts or revokes the session; the process cannot know.
EndSession ==
    /\ token = "live" \/ held = "live"
    /\ token' = IF token = "live" THEN "over" ELSE token
    /\ held' = IF held = "live" THEN "over" ELSE held
    /\ upset' = (upset \/ Active)
    /\ UNCHANGED <<up, cached, client>>

\* Fifteen minutes after the login.
CacheLapses ==
    /\ cached
    /\ cached' = FALSE
    /\ UNCHANGED <<up, token, held, client, upset>>

-----------------------------------------------------------------------------
(* get(). *)

Call ==
    /\ ~Active
    /\ step' = "token" /\ logins' = 0 /\ gets' = 0
    /\ upset' = ~up
    /\ UNCHANGED <<up, token, cached, held, outcome>>

End(how) ==
    /\ step' = "idle"
    /\ outcome' = how
    /\ held' = "none"

\* `if _token and time.time() < _token_expires_at`
Usable == token # "none" /\ cached

\* The step after a token.
Sending == IF step = "token" THEN "get" ELSE "get_again"

\* _get_token: the cached one, or a login.  A login that does not come through
\* raises out of _get_token and out of get().
GetToken ==
    /\ step \in {"token", "token_again"}
    /\ \/ /\ Usable
          /\ held' = token
          /\ step' = Sending
          /\ UNCHANGED <<token, cached, logins, outcome>>
       \/ /\ ~Usable /\ up
          /\ token' = "live" /\ cached' = TRUE /\ held' = "live"
          /\ logins' = logins + 1
          /\ step' = Sending
          /\ UNCHANGED outcome
       \/ /\ ~Usable /\ ~up
          /\ End("raised")
          /\ logins' = logins + 1
          /\ UNCHANGED <<token, cached>>
    /\ UNCHANGED <<up, gets, upset>>

\* The first GET comes to an end without a second: the backend cannot be reached,
\* or answers with data, an error of its own, or no JSON.
FirstGet ==
    /\ step = "get"
    /\ \/ ~up /\ End("error") /\ UNCHANGED upset
       \/ up /\ held = "live" /\ End("data") /\ UNCHANGED upset
       \/ /\ up /\ held = "live"
          /\ \E how \in {"error", "garbled"} : End(how)
          /\ upset' = TRUE
    /\ gets' = gets + 1
    /\ UNCHANGED <<up, token, cached, logins>>

\* Logs in again but keeps the token that was refused.
UnauthorizedKept ==
    /\ step = "get" /\ up /\ held = "over"
    /\ gets' = gets + 1
    /\ step' = "token_again"
    /\ UNCHANGED <<up, token, cached, held, logins, outcome, upset>>

\* 401: the token is dropped and the call starts over, once.
Unauthorized ==
    /\ step = "get" /\ up /\ held = "over"
    /\ gets' = gets + 1
    /\ token' = "none"
    /\ step' = "token_again"
    /\ UNCHANGED <<up, cached, held, logins, outcome, upset>>

\* Starts over as often as it is refused.
SecondGetLooping ==
    /\ step = "get_again"
    /\ \/ up /\ held = "over" /\ token' = "none" /\ step' = "token_again"
          /\ UNCHANGED <<held, outcome>>
       \/ up /\ held = "live" /\ End("data") /\ UNCHANGED token
    /\ gets' = gets + 1
    /\ UNCHANGED <<up, cached, logins, upset>>

\* The second GET is outside the try: unreachable, it raises.
SecondGet ==
    /\ step = "get_again"
    /\ \/ ~up /\ End("raised") /\ UNCHANGED upset
       \/ up /\ held = "live" /\ End("data") /\ UNCHANGED upset
       \/ /\ up /\ held = "live"
          /\ \E how \in {"error", "garbled"} : End(how)
          /\ upset' = TRUE
       \/ up /\ held = "over" /\ End("unauthorized") /\ UNCHANGED upset
    /\ gets' = gets + 1
    /\ UNCHANGED <<up, token, cached, logins>>

Advance == GetToken \/ FirstGet \/ Unauthorized \/ SecondGet

Next == GoDownOrUp \/ EndSession \/ CacheLapses \/ Call \/ Advance

\* Every request has a timeout.
Spec == Init /\ [][Next]_vars /\ WF_vars(Advance)

-----------------------------------------------------------------------------
(* Properties. *)

\* A dead session heals inside the call that meets it: if all through the call the
\* backend was up, ended no session and had no error of its own, the call brings
\* the data, whatever token the process had cached.
StaleTokenHeals ==
    [][Active /\ step' = "idle" /\ ~upset' => outcome' = "data"]_vars

\* It never turns into a login storm: two logins and two GETs at most, a second
\* login only after a 401, a second GET only with a new login.
RetriesOnce ==
    /\ logins <= 2 /\ gets <= 2
    /\ logins = 2 => gets >= 1
    /\ gets = 2 => logins >= 1

\* "Always returns a dict/list from JSON, or a structured {"error": ...} dict --
\* never raises for a reachability/auth failure".  Refuted: the logins and the
\* second GET stand outside the try.
NeverRaises == outcome # "raised"

=============================================================================
