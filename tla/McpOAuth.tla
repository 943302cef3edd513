------------------------------ MODULE McpOAuth ------------------------------
(***************************************************************************)
(* Authorization of calls to an MCP server over HTTP (internal/mcp/oauth.go *)
(* and httpClient.postAttempt in client.go).  Calls of several sessions    *)
(* share one grant.  A call rejected with 401 refreshes the grant or asks   *)
(* the person in the browser, under a lock, unless another call already     *)
(* replaced the token it was rejected with; it is retried at most twice.    *)
(* The lock covers a refresh from the request to the save, so a refresh is  *)
(* one step with an outcome; the wait for the browser is a state of its own.*)
(***************************************************************************)
EXTENDS Naturals

CONSTANTS Requests,     \* calls, each made once
          MaxLosses,    \* losses of the grant that the environment may cause
          MaxIssued,    \* access tokens expire while fewer were issued
          MaxRestarts

ASSUME OAuthAssumption == MaxLosses \in Nat /\ MaxRestarts \in Nat

VARIABLES server,       \* how the authorization server grants: "rotating" and
                        \* "keeping" refresh tokens, or "none" at all
          stubborn,     \* the resource server rejects every token
          grant,        \* oauthClient.state: the tokens (0: none) and the expiry
          stored,       \* the file of the grant
          accepted,     \* access tokens the server accepts
          refreshable,  \* refresh tokens it accepts
          issued,
          authLock,     \* the request waiting for the browser, as a set
          stage,        \* per request
          used,         \* per request: the token it sent
          attempt,      \* per request: postAttempt's attempt
          prompts,      \* per request: times it asked the person
          browsers,     \* times anyone asked the person
          losses,
          restarts

oauthVars == <<server, stubborn, grant, stored, accepted, refreshable, issued,
               authLock, stage, used, attempt, prompts, browsers, losses, restarts>>

Stages == {"idle", "token", "sending", "rejected", "browser", "ok", "error"}
NoGrant == [access |-> 0, refresh |-> 0, expiring |-> FALSE]
Grants == [access : 0 .. issued, refresh : 0 .. issued, expiring : BOOLEAN]

OAuthTypeOK ==
    /\ server \in {"rotating", "keeping", "none"} /\ stubborn \in BOOLEAN
    /\ issued \in Nat /\ grant \in Grants /\ stored \in Grants
    /\ accepted \subseteq 1 .. issued /\ refreshable \subseteq 1 .. issued
    /\ authLock \subseteq Requests /\ stage \in [Requests -> Stages]
    /\ used \in [Requests -> 0 .. issued] /\ attempt \in [Requests -> 0 .. 2]
    /\ prompts \in [Requests -> Nat] /\ browsers \in Nat
    /\ losses \in 0 .. MaxLosses /\ restarts \in 0 .. MaxRestarts

OAuthInit ==
    /\ server \in {"rotating", "keeping", "none"}
    /\ stubborn \in BOOLEAN
    /\ stubborn => server = "none"
    /\ grant = NoGrant /\ stored = NoGrant
    /\ accepted = {} /\ refreshable = {} /\ issued = 0 /\ authLock = {}
    /\ stage = [r \in Requests |-> "idle"]
    /\ used = [r \in Requests |-> 0] /\ attempt = [r \in Requests |-> 0]
    /\ prompts = [r \in Requests |-> 0] /\ browsers = 0
    /\ losses = 0 /\ restarts = 0

Lose == losses < MaxLosses /\ losses' = losses + 1
Goes(r, s) == stage' = [stage EXCEPT ![r] = s]
Unsent(r) == used' = [used EXCEPT ![r] = 0]
tokens == <<grant, stored, accepted, refreshable, issued>>
prompted == <<prompts, browsers>>

(* What the server does for a token request that it grants.  A keeping     *)
(* server answers a refresh without a refresh token.                       *)
ServerGrants(spent) ==
    /\ issued' = issued + 1
    /\ accepted' = accepted \cup {issued'}
    /\ refreshable' = CASE server = "none" -> {}
                        [] server = "keeping" /\ spent # 0 -> refreshable
                        [] OTHER -> (refreshable \ {spent}) \cup {issued'}

Granted(spent) ==
    [access   |-> issued + 1,
     refresh  |-> CASE server = "none" -> grant.refresh
                    [] server = "keeping" /\ spent # 0 -> grant.refresh
                    [] OTHER -> issued + 1,
     expiring |-> FALSE]

(* Mutant: the new tokens are kept in memory only. *)
TokensInMemory(spent) ==
    ServerGrants(spent) /\ grant' = Granted(spent) /\ UNCHANGED <<stored, losses>>

(* tokenRequest: the tokens are in memory before they are saved. *)
TokensSaved(spent) ==
    /\ ServerGrants(spent) /\ grant' = Granted(spent) /\ stored' = grant'
    /\ UNCHANGED losses

(* refreshLocked that succeeds. *)
RefreshSucceeds ==
    grant.refresh \in refreshable /\ TokensSaved(grant.refresh)

(* refreshLocked that fails forgets the grant and saves that, when it can: *)
(* the server refuses, the request or its answer is lost, or the granted   *)
(* tokens cannot be saved.                                                  *)
RefreshFails ==
    /\ grant' = NoGrant
    /\ \/ /\ grant.refresh \notin refreshable
          /\ stored' = NoGrant
          /\ UNCHANGED <<accepted, refreshable, issued, losses>>
       \/ /\ Lose /\ stored' \in {NoGrant, stored}
          /\ \/ UNCHANGED <<accepted, refreshable, issued>>
             \/ grant.refresh \in refreshable /\ ServerGrants(grant.refresh)

-----------------------------------------------------------------------------
PostStarts(r) ==
    /\ stage[r] = "idle" /\ Goes(r, "token")
    /\ UNCHANGED <<server, stubborn, tokens, authLock, used, attempt, prompted, losses,
                   restarts>>

(* token: refresh a grant about to expire, then use what there is. *)
TakesToken(r) ==
    /\ stage[r] = "token" /\ authLock = {}
    /\ IF grant.access # 0 /\ grant.expiring /\ grant.refresh # 0
       THEN RefreshSucceeds \/ RefreshFails
       ELSE UNCHANGED <<tokens, losses>>
    /\ used' = [used EXCEPT ![r] = grant'.access]
    /\ Goes(r, "sending")
    /\ UNCHANGED <<server, stubborn, authLock, attempt, prompted, restarts>>

Retry(r) == attempt[r] < 2

(* The answer: accepted, or 401 and retried twice. *)
ServerReplies(r) ==
    /\ stage[r] = "sending"
    /\ Goes(r, IF used[r] \in accepted /\ ~stubborn THEN "ok"
               ELSE IF Retry(r) THEN "rejected" ELSE "error")
    /\ IF stage'[r] = "rejected" THEN UNCHANGED used ELSE Unsent(r)
    /\ UNCHANGED <<server, stubborn, tokens, authLock, attempt, prompted, losses,
                   restarts>>

TransportFails(r) ==
    /\ stage[r] = "sending" /\ Goes(r, "error") /\ Unsent(r)
    /\ UNCHANGED <<server, stubborn, tokens, authLock, attempt, prompted, losses,
                   restarts>>

(* Another call replaced the token this one was rejected with. *)
Replaced(r) == grant.access # 0 /\ grant.access # used[r]

RetriesPost(r) ==
    /\ Goes(r, "token")
    /\ attempt' = [attempt EXCEPT ![r] = IF @ < 2 THEN @ + 1 ELSE @]

(* authorizeLocked up to the browser. *)
Prompt(r) ==
    /\ authLock' = {r} /\ Goes(r, "browser")
    /\ prompts' = [prompts EXCEPT ![r] = @ + 1] /\ browsers' = browsers + 1
    /\ UNCHANGED attempt

(* unauthorized: nothing, a refresh, or the browser when there is no refresh *)
(* token or it did not work.  Discovery or registration may fail.            *)
Unauthorized(r) ==
    /\ stage[r] = "rejected" /\ authLock = {}
    /\ \/ Replaced(r) /\ RetriesPost(r) /\ UNCHANGED <<tokens, losses, authLock, prompted>>
       \/ /\ ~Replaced(r) /\ grant.refresh # 0
          /\ RefreshSucceeds /\ RetriesPost(r) /\ UNCHANGED <<authLock, prompted>>
       \/ /\ ~Replaced(r) /\ grant.refresh # 0 /\ RefreshFails /\ Prompt(r)
       \/ /\ ~Replaced(r) /\ grant.refresh = 0
          /\ Prompt(r) /\ UNCHANGED <<tokens, losses>>
       \/ /\ ~Replaced(r) /\ grant.refresh = 0
          /\ Lose /\ Goes(r, "error") /\ UNCHANGED <<tokens, authLock, prompted, attempt>>
    /\ Unsent(r)
    /\ UNCHANGED <<server, stubborn, restarts>>

(* The person authorizes; the callback's code is exchanged for tokens. *)
Authorized(r) ==
    /\ stage[r] = "browser" /\ authLock' = {}
    /\ \/ TokensSaved(0) /\ RetriesPost(r)
       \/ /\ Lose /\ ServerGrants(0) /\ grant' = Granted(0) /\ UNCHANGED stored
          /\ Goes(r, "error") /\ UNCHANGED attempt
    /\ UNCHANGED <<server, stubborn, used, prompted, restarts>>

(* Denied, timed out, cancelled, or a callback with the wrong state. *)
NotAuthorized(r) ==
    /\ stage[r] = "browser" /\ authLock' = {}
    /\ Lose /\ Goes(r, "error")
    /\ UNCHANGED <<server, stubborn, tokens, used, attempt, prompted, restarts>>

-----------------------------------------------------------------------------
(* Time passes: access tokens end, with an expiry announced or without. *)
Expires ==
    /\ accepted # {} /\ accepted' = {} /\ issued < MaxIssued
    /\ IF server = "none" THEN Lose ELSE UNCHANGED losses
    /\ \E told \in BOOLEAN :
           grant' = [grant EXCEPT !.expiring = told /\ grant.access # 0]
    /\ stored' = [stored EXCEPT !.expiring = grant'.expiring /\ stored.access # 0]
    /\ UNCHANGED <<server, stubborn, refreshable, issued, authLock, stage, used,
                   attempt, prompted, restarts>>

Revoked ==
    /\ accepted # {} \/ refreshable # {}
    /\ Lose /\ accepted' = {} /\ refreshable' = {}
    /\ UNCHANGED <<server, stubborn, grant, stored, issued, authLock, stage, used,
                   attempt, prompted, restarts>>

(* The process ends between token requests and newOAuthClient reads the file. *)
Restarted ==
    /\ restarts < MaxRestarts /\ authLock = {}
    /\ restarts' = restarts + 1
    /\ grant' = stored
    /\ used' = [r \in Requests |-> 0]
    /\ stage' = [r \in Requests |-> IF stage[r] = "idle" THEN "idle"
                                   ELSE IF stage[r] = "ok" THEN "ok" ELSE "error"]
    /\ UNCHANGED <<server, stubborn, stored, accepted, refreshable, issued, authLock,
                   attempt, prompted, losses>>

OAuthNext ==
    \/ \E r \in Requests :
           \/ PostStarts(r) \/ TakesToken(r) \/ ServerReplies(r) \/ TransportFails(r)
           \/ Unauthorized(r) \/ Authorized(r) \/ NotAuthorized(r)
    \/ Expires \/ Revoked \/ Restarted

OAuthSpec == OAuthInit /\ [][OAuthNext]_oauthVars

-----------------------------------------------------------------------------
(* The person is asked once for the first grant and once more for each time *)
(* a grant was lost: calls rejected together share one authorization, an    *)
(* expired token is refreshed in silence, and a restart keeps the grant.    *)
PromptsAreNeeded == ~stubborn => browsers <= 1 + losses

(* A call asks at most twice, even of a server that rejects every token.    *)
AsksAtMostTwice == \A r \in Requests : prompts[r] <= 2

(* The person is asked as often as grants were lost, and never more than    *)
(* twice by one call.                                                       *)
OAuthInv == OAuthTypeOK /\ PromptsAreNeeded /\ AsksAtMostTwice
=============================================================================
