--------------------------- MODULE ProtocolProofs ---------------------------
(***************************************************************************)
(* Proofs about the protocols the program speaks: the answers of an MCP    *)
(* server over stdio (McpStdio), the authorization of its HTTP transport   *)
(* (McpOAuth), the JSON-RPC server's own lines (Rpc), and the replies that  *)
(* model providers stream in three wire formats (Assembly), for any number *)
(* of calls, tokens, requests and pieces of a reply.                       *)
(***************************************************************************)
EXTENDS McpStdio, McpOAuth, Rpc, Assembly, TLAPS

(* What is in a queue. *)
LEMMA QueueElement ==
    ASSUME NEW S, NEW q \in Seq(S), NEW i \in 1 .. Len(q)
    PROVE  q[i] \in S
  OBVIOUS

(* What is left of a queue when its head is taken. *)
LEMMA QueueHead ==
    ASSUME NEW S, NEW q \in Seq(S), q # <<>>
    PROVE  /\ Head(q) \in S /\ Head(q) = q[1] /\ 1 \in 1 .. Len(q)
           /\ Tail(q) \in Seq(S) /\ Len(Tail(q)) = Len(q) - 1
           /\ \A i \in 1 .. Len(Tail(q)) : i + 1 \in 1 .. Len(q) /\ Tail(q)[i] = q[i + 1]
  OBVIOUS

(* A queue that something is put behind. *)
LEMMA QueueAppend ==
    ASSUME NEW S, NEW q \in Seq(S), NEW e \in S
    PROVE  /\ Append(q, e) \in Seq(S) /\ Len(q) \in Nat /\ Len(Append(q, e)) = Len(q) + 1
           /\ Append(q, e)[Len(q) + 1] = e
           /\ \A i \in 1 .. Len(q) : Append(q, e)[i] = q[i]
           /\ \A i \in 1 .. Len(Append(q, e)) : i \in 1 .. Len(q) \/ i = Len(q) + 1
  OBVIOUS

-----------------------------------------------------------------------------
(* That no call to an MCP server returns the answer to another, for every   *)
(* set of calls and any number of notifications and cancellations, however  *)
(* the goroutines that cancelled calls leave behind race for lines.         *)
(*                                                                          *)
(* A goroutine hands a line over only to the call that has its id, so a     *)
(* slot is empty or holds its call's own id (SlotIsOwn).                    *)
Unstarted == \A c \in Calls : phase[c] = "idle" => callId[c] = 0

SlotIsOwn == \A c \in Calls : slot[c] \in {0, callId[c]}

ReturnedHasLine == \A c \in Calls : phase[c] = "returned" => slot[c] # 0

StdioIInv == StdioTypeOK /\ Unstarted /\ SlotIsOwn /\ ReturnedHasLine

-----------------------------------------------------------------------------
(* The invariant holds before the first call. *)
LEMMA StdioInitially == StdioInit => StdioIInv
  <1> SUFFICES ASSUME StdioInit PROVE StdioIInv
    BY Zenon
  <1>. USE StdioAssumption DEF StdioInit
  <1>1. StdioTypeOK
    BY DEF StdioTypeOK
  <1>. QED
    BY <1>1, Zenon DEF StdioIInv, Unstarted, SlotIsOwn, ReturnedHasLine

(* Every step of a call keeps it. *)
LEMMA StdioStep ==
    ASSUME StdioIInv, [StdioNext]_stdioVars
    PROVE  StdioIInv'
  <1>. USE StdioAssumption DEF StdioIInv, Unstarted, SlotIsOwn, ReturnedHasLine
  <1>1. nextId \in Nat
    BY Zenon DEF StdioTypeOK
  <1>2. CASE UNCHANGED stdioVars
    BY <1>2, Zenon DEF stdioVars, StdioTypeOK
  <1>3. ASSUME NEW c \in Calls, StdioCall(c) PROVE StdioIInv'
    <2>1. nextId' \in Nat
      BY <1>1, <1>3 DEF StdioCall
    <2>2. 1 .. nextId \subseteq 1 .. nextId' /\ 0 .. nextId \subseteq 0 .. nextId'
          /\ nextId' \in 1 .. nextId'
      BY <1>1, <1>3 DEF StdioCall, StdioTypeOK
    <2>3. lines' \in Seq(0 .. nextId')
      BY <1>3, <2>2 DEF StdioCall, StdioTypeOK
    <2>4. StdioTypeOK'
      BY <1>3, <2>1, <2>2, <2>3, Zenon DEF StdioCall, StdioTypeOK
    <2>. QED
      BY <1>3, <2>1, <2>4, Zenon DEF StdioCall, StdioTypeOK
  <1>4. ASSUME NEW c \in Calls, StdioReturns(c) PROVE StdioIInv'
    BY <1>4, Zenon DEF StdioReturns, StdioTypeOK
  <1>5. ASSUME NEW c \in Calls, StdioCancelled(c) PROVE StdioIInv'
    BY <1>5 DEF StdioCancelled, StdioTypeOK
  <1>6. ASSUME NEW i \in asked, ServerAnswers(i) PROVE StdioIInv'
    <2>1. lines' \in Seq(0 .. nextId)
      BY <1>1, <1>6 DEF ServerAnswers, StdioTypeOK
    <2>. QED
      BY <1>6, <2>1, Zenon DEF ServerAnswers, StdioTypeOK
  <1>7. ASSUME NEW c \in Calls, StdioWriteFails(c) PROVE StdioIInv'
    BY <1>7, Zenon DEF StdioWriteFails, StdioTypeOK
  <1>8. CASE ServerNotifies
    <2>1. lines' \in Seq(0 .. nextId)
      BY <1>1, <1>8 DEF ServerNotifies, StdioTypeOK
    <2>. QED
      BY <1>8, <2>1 DEF ServerNotifies, StdioTypeOK
  <1>9. CASE ServerDies
    BY <1>9, Zenon DEF ServerDies, StdioTypeOK
  <1>10. ASSUME NEW i \in readers, ReadEnd(i) PROVE StdioIInv'
    BY <1>10, Zenon DEF ReadEnd, StdioTypeOK
  <1>11. ASSUME NEW got \in SUBSET readers, ReadLine(got) PROVE StdioIInv'
    <2>1. lines \in Seq(0 .. nextId) /\ lines # <<>>
      BY <1>11, Zenon DEF ReadLine, StdioTypeOK
    <2>2. lines' \in Seq(0 .. nextId) /\ Head(lines) \in 0 .. nextId
      BY <1>11, <2>1, QueueHead, Zenon DEF ReadLine
    <2>3. readers' \subseteq readers
      BY <1>11, Zenon DEF ReadLine, StillReading
    <2>4. ASSUME NEW c \in Calls
          PROVE  /\ slot'[c] \in Nat
                 /\ slot'[c] \in {slot[c], callId[c]}
                 /\ callId[c] = 0 => slot'[c] = slot[c]
      BY <1>1, <1>11, <2>2, <2>4, Zenon DEF ReadLine, OwnLine, StdioTypeOK
    <2>5. StdioTypeOK'
      BY <1>11, <2>2, <2>3, <2>4, Zenon DEF ReadLine, StdioTypeOK
    <2>. QED
      BY <1>11, <2>4, <2>5, Zenon DEF ReadLine
  <1>. QED
    BY <1>2, <1>3, <1>4, <1>5, <1>6, <1>7, <1>8, <1>9, <1>10, <1>11, Zenon DEF StdioNext

(* A call that returns has the answer to its own request, and the variables *)
(* keep their types (stdioClient.Call).                                     *)
THEOREM AnswersAreOwn == StdioSpec => []StdioInv
  <1>1. StdioIInv /\ [StdioNext]_stdioVars => StdioIInv'
    BY StdioStep, Zenon
  <1>2. StdioIInv => StdioInv
    BY Zenon DEF StdioIInv, StdioInv, OwnAnswer, SlotIsOwn, ReturnedHasLine
  <1>. QED
    BY <1>1, <1>2, StdioInitially, PTL DEF StdioSpec

-----------------------------------------------------------------------------
(* A grant that gets a call through without the person: its access token    *)
(* where there are no refresh tokens, and its refresh token where there are. *)
Works(g) == IF server = "none" THEN g.access \in accepted ELSE g.refresh \in refreshable

(* The person need not be asked again: they are being asked, or the grant   *)
(* works, in memory and after a restart.                                    *)
Settled == authLock # {} \/ (Works(grant) /\ Works(stored))

(* The count of the askings, which may use up the one for the first grant   *)
(* only while the person need not be asked again.                           *)
AskedSparingly == ~stubborn => browsers <= losses \/ (Settled /\ browsers <= losses + 1)

(* A server that is not stubborn rejected a token that it does not accept,  *)
(* and does not accept later.                                               *)
RejectedIsDead ==
    ~stubborn => \A r \in Requests : stage[r] = "rejected" => used[r] \notin accepted

(* A server without refresh tokens gave none. *)
NoRefreshTokens == server = "none" => grant.refresh = 0 /\ stored.refresh = 0

(* Each asking uses up an attempt of its call. *)
AskedPerAttempt ==
    \A r \in Requests :
        /\ stage[r] \in {"idle", "token", "sending", "rejected", "ok"} => prompts[r] <= attempt[r]
        /\ stage[r] \in {"rejected", "browser"} => attempt[r] <= 1
        /\ stage[r] = "browser" => prompts[r] <= attempt[r] + 1
        /\ stage[r] = "error" => prompts[r] <= 2

OAuthIInv == OAuthTypeOK /\ AskedSparingly /\ RejectedIsDead /\ NoRefreshTokens /\ AskedPerAttempt

(* The types, in three groups: the tokens, the calls and the counts. *)
TokensTyped ==
    /\ server \in {"rotating", "keeping", "none"} /\ stubborn \in BOOLEAN
    /\ issued \in Nat /\ grant \in Grants /\ stored \in Grants
    /\ accepted \subseteq 1 .. issued /\ refreshable \subseteq 1 .. issued
CallsTyped ==
    /\ authLock \subseteq Requests /\ stage \in [Requests -> Stages]
    /\ attempt \in [Requests -> 0 .. 2] /\ prompts \in [Requests -> Nat]
CountsTyped == browsers \in Nat /\ losses \in 0 .. MaxLosses /\ restarts \in 0 .. MaxRestarts
UsedTyped == used \in [Requests -> 0 .. issued]

(* The types, in the groups the steps touch together. *)
LEMMA TypesGrouped == OAuthTypeOK <=> TokensTyped /\ CallsTyped /\ CountsTyped /\ UsedTyped
  BY Zenon DEF OAuthTypeOK, TokensTyped, CallsTyped, CountsTyped, UsedTyped

-----------------------------------------------------------------------------
(* The invariant holds before the first call. *)
LEMMA OAuthInitially == OAuthInit => OAuthIInv
  <1>. SUFFICES ASSUME OAuthInit PROVE OAuthIInv
    BY Zenon
  <1>1. TokensTyped
    BY DEF OAuthInit, NoGrant, Grants, TokensTyped
  <1>2. CallsTyped /\ CountsTyped /\ UsedTyped
    BY OAuthAssumption DEF OAuthInit, CallsTyped, CountsTyped, UsedTyped, Stages
  <1>3. AskedSparingly /\ RejectedIsDead /\ NoRefreshTokens /\ AskedPerAttempt
    BY DEF OAuthInit, AskedSparingly, RejectedIsDead, NoRefreshTokens, AskedPerAttempt, NoGrant
  <1>. QED
    BY <1>1, <1>2, <1>3, TypesGrouped, Zenon DEF OAuthIInv

(* What a granted token request does to the tokens. *)
LEMMA GrantStep ==
    ASSUME TokensTyped, NEW spent \in 0 .. issued, ServerGrants(spent),
           UNCHANGED <<server, stubborn>>
    PROVE  /\ issued' \in Nat /\ issued' = issued + 1 /\ issued' \in 1 .. issued'
           /\ accepted' = accepted \cup {issued'}
           /\ accepted' \subseteq 1 .. issued' /\ refreshable' \subseteq 1 .. issued'
           /\ grant \in Grants' /\ stored \in Grants' /\ NoGrant \in Grants'
           /\ Granted(spent) \in Grants'
  <1>1. issued' \in Nat /\ issued' = issued + 1 /\ issued' \in 1 .. issued'
    BY DEF ServerGrants, TokensTyped
  <1>2. 1 .. issued \subseteq 1 .. issued' /\ 0 .. issued \subseteq 0 .. issued'
        /\ issued + 1 \in 0 .. issued' /\ 0 \in 0 .. issued'
    BY <1>1 DEF TokensTyped
  <1>3. accepted' = accepted \cup {issued'} /\ accepted' \subseteq 1 .. issued'
    BY <1>1, <1>2, Zenon DEF ServerGrants, TokensTyped
  <1>4. refreshable' \subseteq 1 .. issued'
    BY <1>1, <1>2, Zenon DEF ServerGrants, TokensTyped
  <1>5. grant \in Grants' /\ stored \in Grants' /\ NoGrant \in Grants'
    BY <1>2, Zenon DEF TokensTyped, Grants, NoGrant
  <1>6. Granted(spent) \in Grants'
    BY <1>2, <1>5, Zenon DEF Grants, Granted
  <1>. QED
    BY <1>1, <1>3, <1>4, <1>5, <1>6, Zenon

(* The grants that a refresh can leave, and that it makes the grant work or *)
(* counts as a loss unless the grant did not work before.                   *)
LEMMA RefreshStep ==
    ASSUME TokensTyped, NoRefreshTokens, CountsTyped, UNCHANGED <<server, stubborn>>,
           grant.refresh # 0, RefreshSucceeds \/ RefreshFails
    PROVE  /\ TokensTyped' /\ NoRefreshTokens'
           /\ losses' \in 0 .. MaxLosses
           /\ \/ issued' = issued /\ accepted' = accepted
              \/ issued' = issued + 1 /\ accepted' = accepted \cup {issued'}
           /\ \/ RefreshSucceeds /\ losses' = losses /\ Works(grant)' /\ Works(stored)'
              \/ losses' = losses + 1
              \/ losses' = losses /\ ~Works(grant)
  <1>0. server # "none" /\ server' # "none"
    BY Zenon DEF NoRefreshTokens
  <1>1. grant.refresh \in 0 .. issued /\ NoGrant \in Grants
    BY DEF TokensTyped, Grants, NoGrant
  <1>2. CASE RefreshSucceeds
    <2>1. /\ grant.refresh \in refreshable /\ ServerGrants(grant.refresh)
          /\ grant' = Granted(grant.refresh) /\ stored' = grant' /\ losses' = losses
      BY <1>2, Zenon DEF RefreshSucceeds, TokensSaved
    <2>2. TokensTyped' /\ issued' = issued + 1 /\ accepted' = accepted \cup {issued'}
      BY <1>1, <2>1, GrantStep, Zenon DEF TokensTyped
    <2>3. grant'.refresh = IF server = "keeping" THEN grant.refresh ELSE issued + 1
      BY <1>0, <2>1, Zenon DEF Granted
    <2>4. grant'.refresh \in refreshable'
      BY <1>0, <2>1, <2>3, Zenon DEF ServerGrants
    <2>. QED
      BY <1>0, <1>2, <2>1, <2>2, <2>4, Zenon DEF Works, NoRefreshTokens, CountsTyped
  <1>3. CASE RefreshFails /\ losses' = losses + 1
    <2>1. /\ grant' = NoGrant /\ stored' \in {NoGrant, stored} /\ losses < MaxLosses
          /\ \/ UNCHANGED <<accepted, refreshable, issued>>
             \/ ServerGrants(grant.refresh)
      BY <1>3 DEF RefreshFails, Lose, CountsTyped
    <2>2. losses' \in 0 .. MaxLosses
      BY <1>3, <2>1, OAuthAssumption DEF CountsTyped
    <2>3. CASE UNCHANGED <<accepted, refreshable, issued>>
      BY <1>0, <1>1, <1>3, <2>1, <2>2, <2>3, Zenon DEF TokensTyped, NoRefreshTokens, Grants
    <2>4. CASE ServerGrants(grant.refresh)
      <3>1. /\ issued' \in Nat /\ issued' = issued + 1
            /\ accepted' = accepted \cup {issued'}
            /\ accepted' \subseteq 1 .. issued' /\ refreshable' \subseteq 1 .. issued'
            /\ stored \in Grants' /\ NoGrant \in Grants'
        BY <1>1, <2>4, GrantStep, Zenon
      <3>. QED
        BY <1>0, <1>3, <2>1, <2>2, <3>1, Zenon DEF TokensTyped, NoRefreshTokens
    <2>. QED
      BY <2>1, <2>3, <2>4, Zenon
  <1>4. CASE RefreshFails /\ losses' # losses + 1
    <2>1. /\ grant' = NoGrant /\ stored' = NoGrant /\ grant.refresh \notin refreshable
          /\ UNCHANGED <<accepted, refreshable, issued, losses>>
      BY <1>4, Zenon DEF RefreshFails, Lose
    <2>. QED
      BY <1>0, <1>1, <2>1, Zenon DEF TokensTyped, NoRefreshTokens, Works, CountsTyped, Grants
  <1>. QED
    BY <1>2, <1>3, <1>4, Zenon

(* A token that is dead stays so when another is issued. *)
LEMMA DeadStaysDead ==
    ASSUME TokensTyped, UsedTyped, RejectedIsDead, stubborn' = stubborn,
           \/ issued' = issued /\ accepted' \subseteq accepted
           \/ issued' = issued + 1 /\ accepted' = accepted \cup {issued'},
           \A r \in Requests : stage'[r] = "rejected" =>
               /\ used'[r] = used[r]
               /\ stage[r] = "rejected" \/ stubborn \/ used[r] \notin accepted
    PROVE  RejectedIsDead'
  <1>1. \A r \in Requests : used[r] # issued + 1
    BY DEF UsedTyped, TokensTyped
  <1>. QED
    BY <1>1, Zenon DEF RejectedIsDead

(* A used token is one that was issued. *)
LEMMA UsedKept ==
    ASSUME TokensTyped, UsedTyped, TokensTyped', issued' = issued \/ issued' = issued + 1,
           \/ used' = used
           \/ \E r \in Requests : used' = [used EXCEPT ![r] = 0]
           \/ \E r \in Requests : used' = [used EXCEPT ![r] = grant'.access]
           \/ used' = [r \in Requests |-> 0]
    PROVE  UsedTyped'
  <1>1. 0 .. issued \subseteq 0 .. issued' /\ 0 \in 0 .. issued' /\ grant'.access \in 0 .. issued'
    BY DEF TokensTyped, Grants
  <1>2. used \in [Requests -> 0 .. issued']
    BY <1>1, Zenon DEF UsedTyped
  <1>. QED
    BY <1>1, <1>2, Zenon DEF UsedTyped

-----------------------------------------------------------------------------
(* The askings of each call stay within its attempts. *)
LEMMA PromptsKept ==
    ASSUME CallsTyped, AskedPerAttempt, [OAuthNext]_oauthVars
    PROVE  CallsTyped' /\ AskedPerAttempt'
  <1>. USE DEF CallsTyped, AskedPerAttempt, Goes, Stages, prompted
  <1>1. ASSUME NEW r \in Requests, PostStarts(r) PROVE CallsTyped' /\ AskedPerAttempt'
    BY <1>1, Zenon DEF PostStarts
  <1>2. ASSUME NEW r \in Requests, TakesToken(r) PROVE CallsTyped' /\ AskedPerAttempt'
    BY <1>2, Zenon DEF TakesToken
  <1>3. ASSUME NEW r \in Requests, ServerReplies(r) PROVE CallsTyped' /\ AskedPerAttempt'
    BY <1>3 DEF ServerReplies, Retry
  <1>4. ASSUME NEW r \in Requests, TransportFails(r) PROVE CallsTyped' /\ AskedPerAttempt'
    BY <1>4 DEF TransportFails
  <1>5. ASSUME NEW r \in Requests, Unauthorized(r) PROVE CallsTyped' /\ AskedPerAttempt'
    <2>1. stage[r] = "rejected"
          /\ \/ RetriesPost(r) /\ UNCHANGED <<authLock, prompts>>
             \/ Prompt(r)
             \/ Goes(r, "error") /\ UNCHANGED <<authLock, prompts, attempt>>
      BY <1>5, Zenon DEF Unauthorized
    <2>2. CASE RetriesPost(r) /\ UNCHANGED <<authLock, prompts>>
      BY <2>1, <2>2 DEF RetriesPost
    <2>3. CASE Prompt(r)
      BY <2>1, <2>3 DEF Prompt
    <2>4. CASE Goes(r, "error") /\ UNCHANGED <<authLock, prompts, attempt>>
      BY <2>1, <2>4
    <2>. QED
      BY <2>1, <2>2, <2>3, <2>4, Zenon
  <1>6. ASSUME NEW r \in Requests, Authorized(r) PROVE CallsTyped' /\ AskedPerAttempt'
    <2>1. /\ stage[r] = "browser" /\ authLock' = {} /\ UNCHANGED prompts
          /\ RetriesPost(r) \/ (Goes(r, "error") /\ UNCHANGED attempt)
      BY <1>6, Zenon DEF Authorized
    <2>2. CASE RetriesPost(r)
      BY <2>1, <2>2 DEF RetriesPost
    <2>3. CASE Goes(r, "error") /\ UNCHANGED attempt
      BY <2>1, <2>3
    <2>. QED
      BY <2>1, <2>2, <2>3, Zenon
  <1>7. ASSUME NEW r \in Requests, NotAuthorized(r) PROVE CallsTyped' /\ AskedPerAttempt'
    BY <1>7 DEF NotAuthorized
  <1>8. CASE Restarted
    BY <1>8 DEF Restarted
  <1>9. CASE UNCHANGED <<authLock, stage, attempt, prompts>>
    BY <1>9, Zenon
  <1>. QED
    BY <1>1, <1>2, <1>3, <1>4, <1>5, <1>6, <1>7, <1>8, <1>9, Zenon
       DEF OAuthNext, oauthVars, Expires, Revoked

-----------------------------------------------------------------------------
(* Tokens, counts and what is known of them, over a step. *)
Rest == TokensTyped /\ CountsTyped /\ UsedTyped /\ AskedSparingly /\ RejectedIsDead
        /\ NoRefreshTokens

(* Every step keeps what is said of the tokens. *)
LEMMA TokensKept ==
    ASSUME Rest, CallsTyped, [OAuthNext]_oauthVars
    PROVE  Rest'
  <1>. USE DEF prompted
  <1>a. TokensTyped /\ CountsTyped /\ UsedTyped /\ AskedSparingly /\ RejectedIsDead
        /\ NoRefreshTokens
    BY Zenon DEF Rest
  <1>b. browsers \in Nat /\ losses \in Nat /\ (~stubborn => browsers <= losses + 1)
    BY <1>a DEF CountsTyped, AskedSparingly
  <1>d. ~stubborn /\ ~Settled => browsers <= losses
    BY <1>a, <1>b, Zenon DEF AskedSparingly
  <1>c. stage \in [Requests -> Stages] /\ used \in [Requests -> 0 .. issued]
    BY <1>a, Zenon DEF CallsTyped, UsedTyped
  <1>1. ASSUME NEW r \in Requests, PostStarts(r) PROVE Rest'
    <2>1. UNCHANGED <<server, stubborn, grant, stored, accepted, refreshable, issued, authLock,
                      used, browsers, losses, restarts>>
          /\ stage' = [stage EXCEPT ![r] = "token"]
      BY <1>1, Zenon DEF PostStarts, tokens, Goes
    <2>2. RejectedIsDead'
      BY <1>a, <1>c, <2>1, Zenon DEF RejectedIsDead
    <2>. QED
      BY <1>a, <2>1, <2>2, Zenon DEF Rest, TokensTyped, CountsTyped, UsedTyped, AskedSparingly,
                             NoRefreshTokens, Grants, Settled, Works
  <1>2. ASSUME NEW r \in Requests, TakesToken(r) PROVE Rest'
    <2>0. /\ UNCHANGED <<server, stubborn, authLock, browsers, restarts>> /\ authLock = {}
          /\ used' = [used EXCEPT ![r] = grant'.access]
          /\ stage' = [stage EXCEPT ![r] = "sending"]
      BY <1>2, Zenon DEF TakesToken, Goes
    <2>1. CASE UNCHANGED <<tokens, losses>>
      <3>1. TokensTyped' /\ CountsTyped' /\ AskedSparingly' /\ NoRefreshTokens'
        BY <1>a, <2>0, <2>1, Zenon DEF tokens, TokensTyped, CountsTyped, AskedSparingly,
                                NoRefreshTokens, Grants, Settled, Works
      <3>2. UsedTyped'
        BY <1>a, <2>0, <2>1, <3>1, UsedKept, Zenon DEF tokens
      <3>3. RejectedIsDead'
        BY <1>a, <1>c, <2>0, <2>1, DeadStaysDead, Zenon DEF tokens
      <3>. QED
        BY <3>1, <3>2, <3>3, Zenon DEF Rest
    <2>2. CASE grant.refresh # 0 /\ (RefreshSucceeds \/ RefreshFails)
      <3>1. /\ TokensTyped' /\ NoRefreshTokens'
            /\ losses' \in 0 .. MaxLosses
            /\ \/ issued' = issued /\ accepted' = accepted
               \/ issued' = issued + 1 /\ accepted' = accepted \cup {issued'}
            /\ \/ losses' = losses /\ Works(grant)' /\ Works(stored)'
               \/ losses' = losses + 1
               \/ losses' = losses /\ ~Works(grant)
        BY <1>a, <2>0, <2>2, RefreshStep, Zenon
      <3>2. AskedSparingly'
        <4>1. ~Works(grant) => ~Settled
          BY <2>0, Zenon DEF Settled
        <4>2. Works(grant)' /\ Works(stored)' => Settled'
          BY Zenon DEF Settled
        <4>. QED
          BY <1>b, <1>d, <2>0, <3>1, <4>1, <4>2, Zenon DEF AskedSparingly
      <3>3. UsedTyped'
        BY <1>a, <2>0, <3>1, UsedKept, Zenon
      <3>4. RejectedIsDead'
        BY <1>a, <1>c, <2>0, <3>1, DeadStaysDead, Zenon
      <3>5. CountsTyped'
        BY <1>a, <2>0, <3>1, Zenon DEF CountsTyped
      <3>. QED
        BY <3>1, <3>2, <3>3, <3>4, <3>5, Zenon DEF Rest
    <2>. QED
      BY <1>2, <2>1, <2>2, Zenon DEF TakesToken
  <1>3. ASSUME NEW r \in Requests, ServerReplies(r) \/ TransportFails(r) PROVE Rest'
    <2>1. /\ UNCHANGED <<server, stubborn, grant, stored, accepted, refreshable, issued, authLock,
                         browsers, losses, restarts>>
          /\ used' = used \/ used' = [used EXCEPT ![r] = 0]
      BY <1>3, Zenon DEF ServerReplies, TransportFails, tokens, Unsent
    <2>2. \A q \in Requests : stage'[q] = "rejected" =>
               /\ used'[q] = used[q]
               /\ stage[q] = "rejected" \/ stubborn \/ used[q] \notin accepted
      BY <1>3, <1>c, Zenon DEF ServerReplies, TransportFails, Goes, Unsent
    <2>3. RejectedIsDead'
      BY <1>a, <2>1, <2>2, DeadStaysDead, Zenon
    <2>4. TokensTyped' /\ CountsTyped' /\ AskedSparingly' /\ NoRefreshTokens'
      BY <1>a, <2>1, Zenon DEF TokensTyped, CountsTyped, AskedSparingly, NoRefreshTokens, Grants,
                        Settled, Works
    <2>5. UsedTyped'
      BY <1>a, <2>1, <2>4, UsedKept, Zenon
    <2>. QED
      BY <2>3, <2>4, <2>5, Zenon DEF Rest
  <1>5. ASSUME NEW r \in Requests, Unauthorized(r) PROVE Rest'
    <2>0. /\ UNCHANGED <<server, stubborn, restarts>> /\ authLock = {} /\ stage[r] = "rejected"
          /\ used' = [used EXCEPT ![r] = 0]
          /\ \E s \in {"token", "browser", "error"} : stage' = [stage EXCEPT ![r] = s]
      BY <1>5, Zenon DEF Unauthorized, Unsent, Goes, RetriesPost, Prompt
    <2>1. \A q \in Requests : stage'[q] = "rejected" => used'[q] = used[q] /\ stage[q] = "rejected"
      BY <1>c, <2>0, Zenon
    <2>2. ~Replaced(r) /\ server = "none" /\ ~stubborn => ~Works(grant)
      BY <1>a, <2>0 DEF Replaced, Works, RejectedIsDead, TokensTyped
    <2>3. grant.refresh = 0 /\ server # "none" => ~Works(grant)
      BY <1>a DEF Works, TokensTyped
    <2>4. CASE UNCHANGED tokens
      <3>1. TokensTyped' /\ NoRefreshTokens'
        BY <1>a, <2>0, <2>4, Zenon DEF tokens, TokensTyped, NoRefreshTokens, Grants
      <3>2. UsedTyped'
        BY <1>a, <2>0, <2>4, <3>1, UsedKept, Zenon DEF tokens
      <3>3. RejectedIsDead'
        BY <1>a, <2>0, <2>1, <2>4, DeadStaysDead, Zenon DEF tokens
      <3>4. \/ UNCHANGED <<losses, authLock, browsers>>
            \/ losses' = losses /\ browsers' = browsers + 1 /\ authLock' = {r}
               /\ ~Replaced(r) /\ grant.refresh = 0
            \/ losses' = losses + 1 /\ losses < MaxLosses /\ browsers' = browsers
            \/ losses' = losses + 1 /\ losses < MaxLosses
               /\ browsers' = browsers + 1 /\ authLock' = {r}
            \/ losses' = losses /\ browsers' = browsers + 1 /\ authLock' = {r}
               /\ grant.refresh \notin refreshable /\ grant.refresh # 0
        BY <1>5, <2>4, Zenon DEF Unauthorized, Prompt, RetriesPost, Lose, tokens, RefreshFails,
                          RefreshSucceeds, TokensSaved, ServerGrants, TokensTyped, CountsTyped
      <3>5. AskedSparingly'
        <4>1. CASE UNCHANGED <<losses, authLock, browsers>>
          BY <1>a, <2>0, <2>4, <4>1, Zenon DEF AskedSparingly, Settled, Works, tokens
        <4>2. CASE losses' = losses /\ browsers' = browsers + 1 /\ authLock' = {r}
                   /\ ~Replaced(r) /\ grant.refresh = 0
          BY <1>a, <1>b, <2>0, <2>2, <2>3, <4>2 DEF AskedSparingly, Settled
        <4>3. CASE losses' = losses + 1 /\ losses < MaxLosses /\ browsers' = browsers
          BY <1>a, <1>b, <2>0, <4>3, Zenon DEF AskedSparingly, Settled
        <4>4. CASE losses' = losses + 1 /\ losses < MaxLosses
                   /\ browsers' = browsers + 1 /\ authLock' = {r}
          BY <1>a, <1>b, <2>0, <4>4 DEF AskedSparingly, Settled
        <4>5. CASE losses' = losses /\ browsers' = browsers + 1 /\ authLock' = {r}
                   /\ grant.refresh \notin refreshable /\ grant.refresh # 0
          BY <1>a, <1>b, <2>0, <4>5 DEF AskedSparingly, Settled, Works, NoRefreshTokens
        <4>. QED
          BY <3>4, <4>1, <4>2, <4>3, <4>4, <4>5, Zenon
      <3>6. CountsTyped'
        BY <1>a, <2>0, <3>4, OAuthAssumption DEF CountsTyped
      <3>. QED
        BY <3>1, <3>2, <3>3, <3>5, <3>6, Zenon DEF Rest
    <2>5. CASE /\ grant.refresh # 0
               /\ \/ RefreshSucceeds /\ UNCHANGED <<authLock, browsers>>
                  \/ browsers' = browsers + 1 /\ authLock' = {r} /\ RefreshFails
      <3>1. /\ TokensTyped' /\ NoRefreshTokens'
            /\ losses' \in 0 .. MaxLosses
            /\ \/ issued' = issued /\ accepted' = accepted
               \/ issued' = issued + 1 /\ accepted' = accepted \cup {issued'}
            /\ \/ losses' = losses /\ RefreshSucceeds /\ Works(grant)' /\ Works(stored)'
               \/ losses' = losses + 1
               \/ losses' = losses /\ ~Works(grant)
        BY <1>a, <2>0, <2>5, RefreshStep, Zenon
      <3>2. AskedSparingly'
        <4>1. CASE RefreshSucceeds /\ UNCHANGED <<authLock, browsers>>
          <5>1. Works(grant)
            BY <1>a, <2>5, <4>1, Zenon DEF RefreshSucceeds, Works, NoRefreshTokens
          <5>2. losses' = losses
            BY <4>1, Zenon DEF RefreshSucceeds, TokensSaved
          <5>3. Settled'
            BY <1>b, <3>1, <5>1, <5>2 DEF Settled
          <5>. QED
            BY <1>b, <2>0, <4>1, <5>2, <5>3, Zenon DEF AskedSparingly
        <4>2. CASE browsers' = browsers + 1 /\ authLock' = {r} /\ RefreshFails
          <5>1. Settled'
            BY <4>2, Zenon DEF Settled
          <5>2. ~Works(grant) => ~Settled
            BY <2>0, Zenon DEF Settled
          <5>3. ~(RefreshSucceeds /\ Works(grant)')
            <6>1. 0 \notin accepted' /\ 0 \notin refreshable'
              BY <3>1 DEF TokensTyped
            <6>2. ~Works(grant)'
              BY <4>2, <6>1, Zenon DEF Works, NoGrant, RefreshFails
            <6>. QED
              BY <6>2, Zenon
          <5>. QED
            BY <1>b, <1>d, <2>0, <3>1, <4>2, <5>1, <5>2, <5>3 DEF AskedSparingly
        <4>. QED
          BY <2>5, <4>1, <4>2, Zenon
      <3>3. UsedTyped'
        BY <1>a, <2>0, <3>1, UsedKept, Zenon
      <3>4. RejectedIsDead'
        BY <1>a, <2>0, <2>1, <3>1, DeadStaysDead, Zenon
      <3>5. CountsTyped'
        BY <1>a, <2>0, <2>5, <3>1 DEF CountsTyped
      <3>. QED
        BY <3>1, <3>2, <3>3, <3>4, <3>5, Zenon DEF Rest
    <2>. QED
      BY <1>5, <2>4, <2>5, Zenon DEF Unauthorized, Prompt
  <1>6. ASSUME NEW r \in Requests, Authorized(r) PROVE Rest'
    <2>0. /\ UNCHANGED <<server, stubborn, restarts, used, browsers>> /\ authLock' = {}
          /\ stage[r] = "browser"
          /\ \E s \in {"token", "error"} : stage' = [stage EXCEPT ![r] = s]
          /\ ServerGrants(0) /\ grant' = Granted(0)
          /\ \/ stored' = grant' /\ losses' = losses
             \/ stored' = stored /\ losses' = losses + 1 /\ losses < MaxLosses
      BY <1>6, Zenon DEF Authorized, TokensSaved, RetriesPost, Goes, Lose
    <2>1. /\ issued' \in Nat /\ issued' = issued + 1 /\ issued' \in 1 .. issued'
          /\ accepted' = accepted \cup {issued'}
          /\ accepted' \subseteq 1 .. issued' /\ refreshable' \subseteq 1 .. issued'
          /\ stored \in Grants' /\ Granted(0) \in Grants'
      <3>1. 0 \in 0 .. issued
        BY <1>a DEF TokensTyped
      <3>. QED
        BY <1>a, <2>0, <3>1, GrantStep, Zenon
    <2>2. TokensTyped'
      BY <1>a, <2>0, <2>1, Zenon DEF TokensTyped
    <2>3. /\ grant'.access = issued'
          /\ server = "none" => grant'.refresh = grant.refresh
          /\ server # "none" => grant'.refresh = issued' /\ issued' \in refreshable'
      BY <2>0, <2>1, Zenon DEF Granted, ServerGrants
    <2>4. NoRefreshTokens'
      BY <1>a, <2>0, <2>3, Zenon DEF NoRefreshTokens
    <2>5. Works(grant)'
      BY <2>0, <2>1, <2>3, Zenon DEF Works
    <2>6. AskedSparingly'
      <3>1. stored' = grant' => Works(stored)'
        BY <2>5, Zenon DEF Works
      <3>. QED
        BY <1>b, <2>0, <2>5, <3>1, Zenon DEF AskedSparingly, Settled
    <2>7. UsedTyped'
      BY <1>a, <2>0, <2>1, <2>2, UsedKept, Zenon
    <2>8. RejectedIsDead'
      BY <1>a, <1>c, <2>0, <2>1, DeadStaysDead, Zenon
    <2>9. CountsTyped'
      BY <1>a, <2>0, OAuthAssumption DEF CountsTyped
    <2>. QED
      BY <2>2, <2>4, <2>6, <2>7, <2>8, <2>9, Zenon DEF Rest
  <1>7. ASSUME NEW r \in Requests, NotAuthorized(r) PROVE Rest'
    <2>0. /\ UNCHANGED <<server, stubborn, grant, stored, accepted, refreshable, issued, used,
                         browsers, restarts>>
          /\ authLock' = {} /\ losses' = losses + 1 /\ losses < MaxLosses
          /\ stage' = [stage EXCEPT ![r] = "error"]
      BY <1>7, Zenon DEF NotAuthorized, tokens, Lose, Goes
    <2>1. TokensTyped' /\ UsedTyped' /\ NoRefreshTokens'
      BY <1>a, <2>0, Zenon DEF TokensTyped, UsedTyped, NoRefreshTokens, Grants
    <2>2. AskedSparingly'
      BY <1>b, <2>0, Zenon DEF AskedSparingly
    <2>3. RejectedIsDead'
      BY <1>a, <1>c, <2>0, DeadStaysDead, Zenon
    <2>4. CountsTyped'
      BY <1>a, <2>0, OAuthAssumption DEF CountsTyped
    <2>. QED
      BY <2>1, <2>2, <2>3, <2>4, Zenon DEF Rest
  <1>8. CASE Expires
    <2>0. /\ UNCHANGED <<server, stubborn, refreshable, issued, authLock, stage, used, browsers,
                         restarts>>
          /\ accepted' = {}
          /\ IF server = "none" THEN losses < MaxLosses /\ losses' = losses + 1
                                ELSE losses' = losses
          /\ \E told \in BOOLEAN : grant' = [grant EXCEPT !.expiring = told /\ grant.access # 0]
          /\ stored' = [stored EXCEPT !.expiring = grant'.expiring /\ stored.access # 0]
      BY <1>8, Zenon DEF Expires, Lose
    <2>1. /\ grant' \in Grants /\ stored' \in Grants
          /\ grant'.refresh = grant.refresh /\ stored'.refresh = stored.refresh
      BY <1>a, <2>0, Zenon DEF TokensTyped, Grants
    <2>2. TokensTyped' /\ UsedTyped' /\ NoRefreshTokens'
      BY <1>a, <2>0, <2>1, Zenon DEF TokensTyped, UsedTyped, NoRefreshTokens, Grants
    <2>3. AskedSparingly'
      BY <1>a, <1>b, <2>0, <2>1 DEF AskedSparingly, Settled, Works
    <2>4. RejectedIsDead'
      BY <2>0, Zenon DEF RejectedIsDead
    <2>5. CountsTyped'
      BY <1>a, <2>0, OAuthAssumption DEF CountsTyped
    <2>. QED
      BY <2>2, <2>3, <2>4, <2>5, Zenon DEF Rest
  <1>9. CASE Revoked
    <2>0. /\ UNCHANGED <<server, stubborn, grant, stored, issued, used, stage,
                         browsers, restarts>>
          /\ accepted' = {} /\ refreshable' = {}
          /\ losses' = losses + 1 /\ losses < MaxLosses
      BY <1>9, Zenon DEF Revoked, Lose
    <2>1. TokensTyped' /\ UsedTyped' /\ NoRefreshTokens'
      BY <1>a, <2>0, Zenon DEF TokensTyped, UsedTyped, NoRefreshTokens, Grants
    <2>2. AskedSparingly'
      BY <1>b, <2>0, Zenon DEF AskedSparingly
    <2>3. RejectedIsDead'
      BY <2>0, Zenon DEF RejectedIsDead
    <2>4. CountsTyped'
      BY <1>a, <2>0, OAuthAssumption DEF CountsTyped
    <2>. QED
      BY <2>1, <2>2, <2>3, <2>4, Zenon DEF Rest
  <1>10. CASE Restarted
    <2>0. /\ UNCHANGED <<server, stubborn, stored, accepted, refreshable, issued, authLock,
                         browsers, losses>>
          /\ authLock = {} /\ grant' = stored /\ used' = [r \in Requests |-> 0]
          /\ restarts < MaxRestarts /\ restarts' = restarts + 1
          /\ \A r \in Requests : stage'[r] # "rejected"
      BY <1>10, Zenon DEF Restarted
    <2>1. TokensTyped' /\ NoRefreshTokens'
      BY <1>a, <2>0, Zenon DEF TokensTyped, NoRefreshTokens, Grants
    <2>2. UsedTyped'
      BY <1>a, <2>0, <2>1, UsedKept, Zenon
    <2>3. AskedSparingly'
      BY <1>a, <1>b, <2>0, Zenon DEF AskedSparingly, Settled, Works
    <2>4. RejectedIsDead'
      BY <2>0, Zenon DEF RejectedIsDead
    <2>5. CountsTyped'
      BY <1>a, <2>0, OAuthAssumption DEF CountsTyped
    <2>. QED
      BY <2>1, <2>2, <2>3, <2>4, <2>5, Zenon DEF Rest
  <1>11. CASE UNCHANGED oauthVars
    BY <1>a, <1>11, Zenon DEF oauthVars, Rest, TokensTyped, CountsTyped, UsedTyped, AskedSparingly,
                      RejectedIsDead, NoRefreshTokens, Grants, Settled, Works
  <1>. QED
    BY <1>1, <1>2, <1>3, <1>5, <1>6, <1>7, <1>8, <1>9, <1>10, <1>11, Zenon DEF OAuthNext

(* The person is asked once for the first grant and once for each loss of   *)
(* it, and at most twice by a call, for any number of calls, tokens,        *)
(* losses and restarts (unauthorized, refreshLocked, authorizeLocked).      *)
THEOREM AsksAreNeeded == OAuthSpec => []OAuthInv
  <1>1. OAuthIInv /\ [OAuthNext]_oauthVars => OAuthIInv'
    <2>. SUFFICES ASSUME OAuthIInv, [OAuthNext]_oauthVars PROVE OAuthIInv'
      BY Zenon
    <2>1. Rest /\ CallsTyped /\ AskedPerAttempt
      BY TypesGrouped, Zenon DEF OAuthIInv, Rest
    <2>2. Rest' /\ CallsTyped' /\ AskedPerAttempt'
      BY <2>1, PromptsKept, TokensKept, Zenon
    <2>3. OAuthTypeOK'
      BY <2>2, Zenon DEF Rest, OAuthTypeOK, TokensTyped, CallsTyped, CountsTyped, UsedTyped
    <2>. QED
      BY <2>2, <2>3, Zenon DEF OAuthIInv, Rest
  <1>2. OAuthIInv => OAuthInv
    <2>. SUFFICES ASSUME OAuthIInv PROVE OAuthInv
      BY Zenon
    <2>1. PromptsAreNeeded
      <3>1. browsers \in Nat /\ losses \in Nat
        BY DEF OAuthIInv, OAuthTypeOK
      <3>. QED
        BY <3>1 DEF OAuthIInv, AskedSparingly, PromptsAreNeeded
    <2>2. AsksAtMostTwice
      <3>. SUFFICES ASSUME NEW r \in Requests PROVE prompts[r] <= 2
        BY Zenon DEF AsksAtMostTwice
      <3>1. stage[r] \in Stages /\ prompts[r] \in Nat /\ attempt[r] \in 0 .. 2
        BY Zenon DEF OAuthIInv, OAuthTypeOK
      <3>2. /\ stage[r] \in {"idle", "token", "sending", "rejected", "ok"} => prompts[r] <= attempt[r]
            /\ stage[r] = "browser" => attempt[r] <= 1 /\ prompts[r] <= attempt[r] + 1
            /\ stage[r] = "error" => prompts[r] <= 2
        BY Zenon DEF OAuthIInv, AskedPerAttempt
      <3>. QED
        BY <3>1, <3>2 DEF Stages
    <2>. QED
      BY <2>1, <2>2, Zenon DEF OAuthIInv, OAuthInv
  <1>. QED
    BY <1>1, <1>2, OAuthInitially, PTL DEF OAuthSpec

-----------------------------------------------------------------------------
Lines == [kind : {"update", "last", "reply"}, request : RpcRequests]

(* A request that was not read has no goroutine yet.                        *)
UnreadWaits == \A r \in input : goroutine[r] = "unread"

(* A prompt in the queue has answered that it is queued and waits for no    *)
(* result ...                                                               *)
QueuedRest == \A i \in 1 .. Len(queuedPrompts) : goroutine[queuedPrompts[i]] = "queued"

(* ... and while a turn goes on, nobody has its result.                     *)
TurnUnanswered ==
    turnResult = "none" => \A r \in activeTurn : goroutine[r] \in {"waiting", "queued"}

(* A request that was answered is over.                                     *)
AnsweredDone == \A i \in 1 .. Len(output) : output[i].kind = "reply" => goroutine[output[i].request] = "done"

RpcIInv == /\ RpcTypeOK /\ UnreadWaits /\ QueuedRest /\ TurnUnanswered /\ AnsweredDone
           /\ UpdatesBeforeReply

-----------------------------------------------------------------------------
(* The invariant holds before the first request. *)
LEMMA RpcInitially == RpcInit => RpcIInv
  BY RpcAssumption
     DEF RpcInit, RpcIInv, RpcTypeOK, UnreadWaits, QueuedRest, TurnUnanswered, AnsweredDone,
         UpdatesBeforeReply

(* A step that writes nothing and finishes no goroutine's request keeps     *)
(* what was written in order.                                               *)
LEMMA SilentStep ==
    ASSUME RpcIInv, UNCHANGED output,
           \A r \in RpcRequests : goroutine[r] = "done" => goroutine'[r] = "done"
    PROVE  AnsweredDone' /\ UpdatesBeforeReply'
  <1>1. output \in Seq(Lines)
    BY Zenon DEF RpcIInv, RpcTypeOK, Lines
  <1>2. \A i \in 1 .. Len(output) : output[i].request \in RpcRequests
    <2>1. \A i \in 1 .. Len(output) : output[i] \in Lines
      BY <1>1, QueueElement, Zenon
    <2>. QED
      BY <2>1, Zenon DEF Lines
  <1>. QED
    BY <1>2, Zenon DEF RpcIInv, AnsweredDone, UpdatesBeforeReply

(* A line of a turn may be written while the turn's request is not done,    *)
(* the answer once.                                                         *)
LEMMA WriteStep ==
    ASSUME RpcIInv, NEW r \in RpcRequests, NEW kind \in {"update", "last", "reply"},
           Write(kind, r), goroutine[r] # "done",
           \A q \in RpcRequests : goroutine[q] = "done" => goroutine'[q] = "done",
           kind = "reply" => goroutine'[r] = "done"
    PROVE  output' \in Seq(Lines) /\ AnsweredDone' /\ UpdatesBeforeReply'
  <1>. DEFINE e == [kind |-> kind, request |-> r]
  <1>1. output \in Seq(Lines) /\ e \in Lines /\ output' = Append(output, e)
    BY Zenon DEF RpcIInv, RpcTypeOK, Lines, Write
  <1>2. /\ output' \in Seq(Lines) /\ Len(output) \in Nat /\ Len(output') = Len(output) + 1
        /\ output'[Len(output) + 1] = e
        /\ \A i \in 1 .. Len(output) : output'[i] = output[i]
        /\ \A i \in 1 .. Len(output') : i \in 1 .. Len(output) \/ i = Len(output) + 1
    BY <1>1, QueueAppend
  <1>3. \A i \in 1 .. Len(output) : output[i].request \in RpcRequests
    <2>1. \A i \in 1 .. Len(output) : output[i] \in Lines
      BY <1>1, QueueElement, Zenon
    <2>. QED
      BY <2>1, Zenon DEF Lines
  <1>4. \A i \in 1 .. Len(output) : output[i].kind = "reply" => output[i].request # r
    BY Zenon DEF RpcIInv, AnsweredDone
  <1>5. e.kind = kind /\ e.request = r
    BY Zenon
  <1>. HIDE DEF e
  <1>6. AnsweredDone'
    <2> SUFFICES ASSUME NEW i \in 1 .. Len(output'), output'[i].kind = "reply"
                 PROVE  goroutine'[output'[i].request] = "done"
      BY Zenon DEF AnsweredDone
    <2>1. CASE i \in 1 .. Len(output)
      BY <1>2, <1>3, <2>1, Zenon DEF RpcIInv, AnsweredDone
    <2>2. CASE i = Len(output) + 1
      BY <1>2, <1>5, <2>2, Zenon
    <2>. QED
      BY <1>2, <2>1, <2>2, Zenon
  <1>7. UpdatesBeforeReply'
    <2> SUFFICES ASSUME NEW i \in 1 .. Len(output'), NEW j \in 1 .. Len(output'),
                        output'[i].kind = "reply", output'[j].kind # "reply",
                        output'[i].request = output'[j].request
                 PROVE  j < i
      BY Zenon DEF UpdatesBeforeReply
    <2>1. CASE i \in 1 .. Len(output) /\ j \in 1 .. Len(output)
      BY <1>2, <2>1, Zenon DEF RpcIInv, UpdatesBeforeReply
    <2>2. CASE i \in 1 .. Len(output) /\ j = Len(output) + 1
      BY <1>2, <1>4, <1>5, <2>2, Zenon
    <2>3. CASE i = Len(output) + 1 /\ j \in 1 .. Len(output)
      BY <1>2, <2>3
    <2>4. CASE i = Len(output) + 1 /\ j = Len(output) + 1
      BY <2>4, Zenon
    <2>. QED
      BY <1>2, <2>1, <2>2, <2>3, <2>4, Zenon
  <1>. QED
    BY <1>2, <1>6, <1>7, Zenon

(* Every step of the server keeps it. *)
LEMMA RpcStep ==
    ASSUME RpcIInv, [RpcNext]_rpcVars
    PROVE  RpcIInv'
  <1>. USE DEF given, Becomes, Lines
  <1>t. RpcTypeOK /\ UnreadWaits /\ QueuedRest /\ TurnUnanswered
    BY Zenon DEF RpcIInv
  <1>q. queuedPrompts \in Seq(RpcRequests)
        /\ \A i \in 1 .. Len(queuedPrompts) : queuedPrompts[i] \in RpcRequests
    BY <1>t, QueueElement, Zenon DEF RpcTypeOK
  <1>0. CASE UNCHANGED rpcVars
    BY <1>0, Zenon DEF rpcVars, RpcIInv, RpcTypeOK, UnreadWaits, QueuedRest, TurnUnanswered,
                AnsweredDone, UpdatesBeforeReply
  <1>1. ASSUME NEW r \in RpcRequests, ServeLine(r) PROVE RpcIInv'
    <2>1. AnsweredDone' /\ UpdatesBeforeReply'
      BY <1>t, <1>1, SilentStep, Zenon DEF ServeLine, RpcTypeOK, UnreadWaits
    <2>2. RpcTypeOK'
      BY <1>t, <1>1, Zenon DEF ServeLine, RpcTypeOK
    <2>3. UnreadWaits' /\ TurnUnanswered' /\ QueuedRest'
      BY <1>t, <1>q, <1>1, Zenon DEF ServeLine, RpcTypeOK, UnreadWaits, TurnUnanswered, QueuedRest
    <2>. QED
      BY <2>1, <2>2, <2>3, Zenon DEF RpcIInv
  <1>2. ASSUME NEW r \in RpcRequests, DispatchCall(r) PROVE RpcIInv'
    <2>1. AnsweredDone' /\ UpdatesBeforeReply'
      BY <1>t, <1>2, SilentStep, Zenon DEF DispatchCall, RpcTypeOK
    <2>2. RpcTypeOK'
      BY <1>t, <1>2, Zenon DEF DispatchCall, RpcTypeOK
    <2>3. UnreadWaits' /\ TurnUnanswered' /\ QueuedRest'
      BY <1>t, <1>q, <1>2, Zenon DEF DispatchCall, RpcTypeOK, UnreadWaits, TurnUnanswered, QueuedRest
    <2>. QED
      BY <2>1, <2>2, <2>3, Zenon DEF RpcIInv
  <1>3. ASSUME NEW r \in RpcRequests, RpcPrompt(r) PROVE RpcIInv'
    <2>1. AnsweredDone' /\ UpdatesBeforeReply'
      BY <1>t, <1>3, SilentStep, Zenon DEF RpcPrompt, Duplicate, RpcTypeOK
    <2>2. \/ queuedPrompts' = queuedPrompts
          \/ queuedPrompts' = Append(queuedPrompts, r) /\ goroutine'[r] = "queued"
      BY <1>t, <1>3, Zenon DEF RpcPrompt, RpcTypeOK
    <2>3. queuedPrompts' \in Seq(RpcRequests)
      BY <1>q, <2>2
    <2>4. \A q \in RpcRequests : q # r => goroutine'[q] = goroutine[q]
      BY <1>t, <1>3, Zenon DEF RpcPrompt, Duplicate, RpcTypeOK
    <2>5. goroutine[r] = "dispatch"
      BY <1>3, Zenon DEF RpcPrompt
    <2>6. QueuedRest'
      <3>1. \A i \in 1 .. Len(queuedPrompts) : goroutine'[queuedPrompts[i]] = "queued"
        BY <1>t, <1>q, <2>4, <2>5, Zenon DEF QueuedRest
      <3>2. CASE queuedPrompts' = queuedPrompts
        BY <3>1, <3>2, Zenon DEF QueuedRest
      <3>3. CASE queuedPrompts' = Append(queuedPrompts, r) /\ goroutine'[r] = "queued"
        <4>1. /\ Append(queuedPrompts, r)[Len(queuedPrompts) + 1] = r
              /\ \A i \in 1 .. Len(queuedPrompts) : Append(queuedPrompts, r)[i] = queuedPrompts[i]
              /\ \A i \in 1 .. Len(Append(queuedPrompts, r)) :
                    i \in 1 .. Len(queuedPrompts) \/ i = Len(queuedPrompts) + 1
          BY <1>q, QueueAppend
        <4>. QED
          BY <3>1, <3>3, <4>1, Zenon DEF QueuedRest
      <3>. QED
        BY <2>2, <3>2, <3>3, Zenon
    <2>7. RpcTypeOK'
      BY <1>t, <1>3, <2>3 DEF RpcPrompt, Duplicate, RpcTypeOK
    <2>8. UnreadWaits' /\ TurnUnanswered'
      BY <1>t, <1>3 DEF RpcPrompt, Duplicate, RpcTypeOK, UnreadWaits, TurnUnanswered
    <2>. QED
      BY <2>1, <2>6, <2>7, <2>8, Zenon DEF RpcIInv
  <1>4. ASSUME NEW r \in RpcRequests, TurnUpdate(r) PROVE RpcIInv'
    <2>1. goroutine[r] # "done"
      BY <1>t, <1>4, Zenon DEF TurnUpdate, TurnUnanswered
    <2>2. output' \in Seq(Lines) /\ AnsweredDone' /\ UpdatesBeforeReply'
      BY <1>4, <2>1, WriteStep, Zenon DEF TurnUpdate
    <2>3. updates' \in 0 .. MaxUpdates
      BY <1>t, <1>4, RpcAssumption DEF TurnUpdate, RpcTypeOK
    <2>4. RpcTypeOK'
      BY <1>t, <1>4, <2>2, <2>3, Zenon DEF TurnUpdate, RpcTypeOK
    <2>5. UnreadWaits' /\ TurnUnanswered' /\ QueuedRest'
      BY <1>t, <1>4, Zenon DEF TurnUpdate, UnreadWaits, TurnUnanswered, QueuedRest
    <2>. QED
      BY <2>2, <2>4, <2>5, Zenon DEF RpcIInv
  <1>5. ASSUME NEW r \in RpcRequests, TurnCleared(r) PROVE RpcIInv'
    <2>1. AnsweredDone' /\ UpdatesBeforeReply'
      BY <1>5, SilentStep, Zenon DEF TurnCleared
    <2>2. CASE turnResult = "pass" /\ queuedPrompts # <<>>
      <3>1. /\ Head(queuedPrompts) \in RpcRequests /\ Head(queuedPrompts) = queuedPrompts[1]
            /\ 1 \in 1 .. Len(queuedPrompts) /\ Tail(queuedPrompts) \in Seq(RpcRequests)
            /\ \A i \in 1 .. Len(Tail(queuedPrompts)) :
                  i + 1 \in 1 .. Len(queuedPrompts) /\ Tail(queuedPrompts)[i] = queuedPrompts[i + 1]
        BY <1>q, <2>2, QueueHead, Zenon
      <3>2. activeTurn' = {Head(queuedPrompts)} /\ queuedPrompts' = Tail(queuedPrompts)
            /\ goroutine' = goroutine
        BY <1>5, <2>2, Zenon DEF TurnCleared
      <3>3. QueuedRest' /\ TurnUnanswered'
        BY <1>t, <3>1, <3>2 DEF QueuedRest, TurnUnanswered
      <3>4. RpcTypeOK'
        BY <1>t, <1>5, <3>1, <3>2, RpcAssumption DEF TurnCleared, RpcTypeOK
      <3>5. UnreadWaits'
        BY <1>t, <1>5, Zenon DEF TurnCleared, UnreadWaits
      <3>. QED
        BY <2>1, <3>3, <3>4, <3>5, Zenon DEF RpcIInv
    <2>3. CASE ~(turnResult = "pass" /\ queuedPrompts # <<>>)
      <3>1. activeTurn' = {} /\ UNCHANGED <<queuedPrompts, goroutine>>
        BY <1>5, <2>3, Zenon DEF TurnCleared
      <3>2. RpcTypeOK'
        BY <1>t, <1>5, <3>1, RpcAssumption DEF TurnCleared, RpcTypeOK
      <3>3. UnreadWaits' /\ TurnUnanswered' /\ QueuedRest'
        BY <1>t, <1>5, <3>1, Zenon DEF TurnCleared, UnreadWaits, TurnUnanswered, QueuedRest
      <3>. QED
        BY <2>1, <3>2, <3>3, Zenon DEF RpcIInv
    <2>. QED
      BY <2>2, <2>3, Zenon
  <1>6. ASSUME NEW r \in RpcRequests, Responds(r) PROVE RpcIInv'
    <2>1. goroutine[r] = "finished" /\ goroutine' = [goroutine EXCEPT ![r] = "done"]
      BY <1>6, Zenon DEF Responds
    <2>2. output' \in Seq(Lines) /\ AnsweredDone' /\ UpdatesBeforeReply'
      <3>1. \A q \in RpcRequests : goroutine[q] = "done" => goroutine'[q] = "done"
        BY <1>t, <2>1, Zenon DEF RpcTypeOK
      <3>2. goroutine'[r] = "done"
        BY <1>t, <2>1, Zenon DEF RpcTypeOK
      <3>3. CASE method[r] = "note"
        BY <1>t, <1>6, <3>1, <3>3, SilentStep, Zenon DEF Responds, RpcTypeOK
      <3>4. CASE method[r] # "note"
        BY <1>6, <2>1, <3>1, <3>2, <3>4, WriteStep, Zenon DEF Responds
      <3>. QED
        BY <3>3, <3>4, Zenon
    <2>3. RpcTypeOK'
      BY <1>t, <1>6, <2>2, Zenon DEF Responds, RpcTypeOK
    <2>4. UnreadWaits' /\ TurnUnanswered' /\ QueuedRest'
      BY <1>t, <1>q, <1>6, Zenon DEF Responds, RpcTypeOK, UnreadWaits, TurnUnanswered, QueuedRest
    <2>. QED
      BY <2>2, <2>3, <2>4, Zenon DEF RpcIInv
  <1>7. ASSUME NEW r \in RpcRequests, NEW status \in {"pass", "cancelled"}, TurnEnds(r, status)
        PROVE  RpcIInv'
    <2>1. goroutine[r] \in {"waiting", "queued"}
      BY <1>t, <1>7, Zenon DEF TurnEnds, Ends, TurnUnanswered
    <2>2. \A q \in RpcRequests : goroutine'[q] = goroutine[q] \/ goroutine[q] = "waiting"
      BY <1>t, <1>7, Zenon DEF TurnEnds, Ends, RpcTypeOK
    <2>3. output' \in Seq(Lines) /\ AnsweredDone' /\ UpdatesBeforeReply'
      BY <1>7, <2>1, <2>2, WriteStep, Zenon DEF TurnEnds, Ends
    <2>4. goroutine' \in [RpcRequests ->
             {"unread", "dispatch", "waiting", "queued", "finished", "done"}]
      BY <1>t, <1>7, Zenon DEF TurnEnds, Ends, RpcTypeOK
    <2>5. RpcTypeOK'
      BY <1>t, <1>7, <2>3, <2>4, Zenon DEF TurnEnds, Ends, RpcTypeOK
    <2>6. UnreadWaits' /\ QueuedRest'
      BY <1>t, <1>q, <1>7, <2>2, Zenon DEF TurnEnds, RpcTypeOK, UnreadWaits, QueuedRest
    <2>7. TurnUnanswered'
      BY <1>7, Zenon DEF TurnEnds, Ends, TurnUnanswered
    <2>. QED
      BY <2>3, <2>5, <2>6, <2>7, Zenon DEF RpcIInv
  <1>8. CASE ServeReturns
    <2>1. AnsweredDone' /\ UpdatesBeforeReply'
      BY <1>8, SilentStep, Zenon DEF ServeReturns
    <2>2. RpcTypeOK' /\ UnreadWaits' /\ TurnUnanswered' /\ QueuedRest'
      BY <1>t, <1>8, Zenon DEF ServeReturns, RpcTypeOK, UnreadWaits, TurnUnanswered, QueuedRest
    <2>. QED
      BY <2>1, <2>2, Zenon DEF RpcIInv
  <1>. QED
    BY <1>0, <1>1, <1>2, <1>3, <1>4, <1>5, <1>6, <1>7, <1>8, Zenon DEF RpcNext

(* When a prompt's answer is written every event of its turn has been, for  *)
(* any number of requests, duplicates and queued prompts (Server.prompt,    *)
(* Server.handle and Server.event).                                         *)
THEOREM EventsPrecedeAnswers == RpcSpec => []RpcInv
  <1>1. RpcIInv /\ [RpcNext]_rpcVars => RpcIInv'
    BY RpcStep, Zenon
  <1>2. RpcIInv => RpcInv
    BY Zenon DEF RpcIInv, RpcInv
  <1>. QED
    BY <1>1, <1>2, RpcInitially, PTL DEF RpcSpec

-----------------------------------------------------------------------------
(* A queue is empty when nothing is in it. *)
LEMMA QueueEmpty == ASSUME NEW S, NEW q \in Seq(S) PROVE q # <<>> <=> Len(q) # 0
  OBVIOUS

(* A queue that another is put behind. *)
LEMMA QueueConcat ==
    ASSUME NEW S, NEW q \in Seq(S), NEW p \in Seq(S)
    PROVE  /\ q \o p \in Seq(S) /\ Len(q) \in Nat /\ Len(p) \in Nat
           /\ Len(q \o p) = Len(q) + Len(p)
           /\ \A i \in 1 .. Len(q) + Len(p) :
                 (q \o p)[i] = IF i <= Len(q) THEN q[i] ELSE p[i - Len(q)]
  <1>1. Len(q) \in Nat /\ Len(p) \in Nat /\ q \o p \in Seq(S) /\ Len(q \o p) = Len(q) + Len(p)
    OBVIOUS
  <1>2. ASSUME NEW i \in 1 .. Len(q) + Len(p)
        PROVE  (q \o p)[i] = IF i <= Len(q) THEN q[i] ELSE p[i - Len(q)]
    <2>1. CASE i <= Len(q)
      <3>1. i \in 1 .. Len(q)
        BY <1>1, <2>1
      <3>2. (q \o p)[i] = q[i]
        BY <3>1
      <3>. QED
        BY <2>1, <3>2, Zenon
    <2>2. CASE ~(i <= Len(q))
      <3>1. i - Len(q) \in 1 .. Len(p) /\ i \in Len(q) + 1 .. Len(q) + Len(p)
        BY <1>1, <2>2
      <3>2. (q \o p)[i] = p[i - Len(q)]
        BY <1>1, <3>1
      <3>. QED
        BY <2>2, <3>2, Zenon
    <2>. QED
      BY <2>1, <2>2, Zenon
  <1>. QED
    BY <1>1, <1>2, Zenon

-----------------------------------------------------------------------------
(* The events: a piece of a part, the announcement of a part, and the rest. *)
Piece(i, p) == [type |-> "delta", index |-> i, piece |-> p]
Announcement(i) == [type |-> "block", index |-> i, piece |-> 0]
Mark(t) == [type |-> t, index |-> 0, piece |-> 0]
MarkType == {"start", "usage", "stop", "failed", "torn"}
Pieces == {Piece(i, p) : i \in Indexes, p \in Nat}
Announcements == {Announcement(i) : i \in Indexes}
Marks == {Mark(t) : t \in MarkType}
StreamEvents == Pieces \cup Announcements \cup Marks

(* Events that differ are different records. *)
LEMMA EventsDiffer ==
    /\ \A i, j \in Indexes : \A p, q \in Nat : Piece(i, p) = Piece(j, q) => i = j /\ p = q
    /\ \A i, j \in Indexes : Announcement(i) = Announcement(j) => i = j
    /\ \A t, u \in MarkType : Mark(t) = Mark(u) => t = u
    /\ \A i, j \in Indexes : \A p \in Nat : Piece(i, p) # Announcement(j)
    /\ \A i \in Indexes : \A p \in Nat : \A t \in MarkType : Piece(i, p) # Mark(t)
    /\ \A i \in Indexes : \A t \in MarkType : Announcement(i) # Mark(t)
  BY Zenon DEF Piece, Announcement, Mark, MarkType

(* Every event is of one of the kinds. *)
LEMMA EventKinds ==
    ASSUME NEW e \in StreamEvents
    PROVE  /\ e.type \in EventType
           /\ \/ \E i \in Indexes, p \in Nat : e = Piece(i, p)
              \/ \E i \in Indexes : e = Announcement(i)
              \/ \E t \in MarkType : e = Mark(t)
  <1>1. CASE e \in Pieces
    <2>1. PICK i \in Indexes, p \in Nat : e = Piece(i, p)
      BY <1>1 DEF Pieces
    <2>2. e.type = "delta"
      BY <2>1 DEF Piece
    <2>. QED
      BY <2>1, <2>2, Zenon DEF EventType
  <1>2. CASE e \in Announcements
    <2>1. PICK i \in Indexes : e = Announcement(i)
      BY <1>2, Zenon DEF Announcements
    <2>2. e.type = "block"
      BY <2>1 DEF Announcement
    <2>. QED
      BY <2>1, <2>2, Zenon DEF EventType
  <1>3. CASE e \in Marks
    <2>1. PICK t \in MarkType : e = Mark(t)
      BY <1>3, Zenon DEF Marks
    <2>2. e.type = t
      BY <2>1 DEF Mark
    <2>. QED
      BY <2>1, <2>2, Zenon DEF EventType, MarkType
  <1>. QED
    BY <1>1, <1>2, <1>3, Zenon DEF StreamEvents

-----------------------------------------------------------------------------
Pos == Nat \ {0}

LEMMA SamePos == \A j, k \in Pos : j + 1 = k + 1 => j = k
  BY DEF Pos

(* The event e is the k-th on the way. *)
On(k, e) == k \in 1 .. Len(stream) /\ stream[k] = e

(* How many pieces of part i the assembler holds. *)
Held(i) == IF i \in DOMAIN blocks THEN Len(blocks[i]) ELSE 0

(* Nothing that was sent was lost. *)
Intact == ~ended \/ \E k \in Pos : On(k, Mark("stop"))

(* The pieces of a part on the way are the next ones ... *)
PiecesNext ==
    \A k \in Pos, i \in Indexes, p \in Nat : On(k, Piece(i, p)) =>
        /\ Held(i) < p /\ p <= sentParts[i]
        /\ p = Held(i) + 1 \/ \E j \in Pos : j < k /\ On(j, Piece(i, p - 1))

(* ... in order ... *)
PiecesInOrder ==
    \A j, k \in Pos, i \in Indexes, p, q \in Nat :
        On(j, Piece(i, p)) /\ On(k, Piece(i, q)) /\ j < k => p < q

(* ... and, while nothing was lost, all that were sent. *)
PiecesThere ==
    Intact => \A i \in Indexes, p \in Nat :
                  Held(i) < p /\ p <= sentParts[i] => \E k \in Pos : On(k, Piece(i, p))

(* The final event is the last, after the usage, and sent when all was. *)
StopIsLast ==
    \A k \in Pos : On(k, Mark("stop")) =>
        /\ k = Len(stream) /\ ended /\ sentParts = plan
        /\ dialect = "anthropic" => begun = Indexes
        /\ "out" \in usage \/ \E j \in Pos : j < k /\ On(j, Mark("usage"))

UsageComes ==
    /\ dialect = "anthropic" /\ Intact => "in" \in usage \/ On(1, Mark("start"))
    /\ dialect = "chat" /\ "out" \in usage => "in" \in usage

(* The Messages dialect announces every part before its pieces ... *)
PartsAnnounced ==
    dialect = "anthropic" =>
        /\ \A k \in Pos, i \in Indexes, p \in Nat : On(k, Piece(i, p)) =>
               i \in DOMAIN blocks \/ \E j \in Pos : j < k /\ On(j, Announcement(i))
        /\ Intact => \A i \in begun : i \in DOMAIN blocks \/ \E k \in Pos : On(k, Announcement(i))
        /\ DOMAIN blocks \subseteq begun

(* ... and once. *)
AnnouncedOnce ==
    \A k \in Pos, i \in Indexes : On(k, Announcement(i)) =>
        /\ dialect = "anthropic" /\ i \in begun /\ i \notin DOMAIN blocks
        /\ \A j \in Pos : On(j, Announcement(i)) => j = k

(* A block holds the first pieces of its part; chat holds no empty one. *)
BlocksFilled ==
    /\ blocks = [i \in DOMAIN blocks |-> blocks[i]] /\ DOMAIN blocks \subseteq Indexes
    /\ \A i \in DOMAIN blocks : /\ blocks[i] \in Seq(Nat)
                                /\ \A n \in 1 .. Len(blocks[i]) : blocks[i][n] = n
    /\ \A i \in Indexes : Held(i) <= sentParts[i]
    /\ dialect = "chat" => \A i \in DOMAIN blocks : Held(i) # 0

(* What is known of a stream of pieces. *)
Streamed == /\ PiecesNext /\ PiecesInOrder /\ PiecesThere /\ StopIsLast /\ UsageComes
            /\ PartsAnnounced /\ AnnouncedOnce /\ BlocksFilled

Typed ==
    /\ dialect \in {"anthropic", "chat", "responses"}
    /\ plan \in [Indexes -> 0 .. MaxPieces] /\ sentParts \in [Indexes -> 0 .. MaxPieces]
    /\ begun \subseteq Indexes /\ ended \in BOOLEAN /\ stream \in Seq(StreamEvents)
    /\ DOMAIN blocks \subseteq Indexes /\ usage \subseteq {"in", "out"}
    /\ outcome \in {"none", "ok", "error"}

AssemblyIInv == Typed /\ WholeOrError /\ (dialect # "responses" => Streamed)

-----------------------------------------------------------------------------
(* Where the events are after one is sent. *)
LEMMA AfterSend ==
    ASSUME Typed, NEW e \in StreamEvents, stream' = Append(stream, e)
    PROVE  /\ stream' \in Seq(StreamEvents) /\ Len(stream) \in Nat /\ Len(stream) + 1 \in Pos
           /\ Len(stream') = Len(stream) + 1
           /\ \A k \in Pos : \A x : On(k, x)' <=> On(k, x) \/ (k = Len(stream) + 1 /\ x = e)
           /\ \A k \in Pos : \A x : On(k, x) => k < Len(stream) + 1
  <1>1. /\ stream \in Seq(StreamEvents) /\ Len(stream) \in Nat
        /\ stream' \in Seq(StreamEvents) /\ Len(stream') = Len(stream) + 1
        /\ stream'[Len(stream) + 1] = e
        /\ \A k \in 1 .. Len(stream) : stream'[k] = stream[k]
    BY QueueAppend DEF Typed
  <1>2. ASSUME NEW k \in Pos, NEW x PROVE On(k, x)' <=> On(k, x) \/ (k = Len(stream) + 1 /\ x = e)
    <2>1. k \in 1 .. Len(stream') <=> k \in 1 .. Len(stream) \/ k = Len(stream) + 1
      BY <1>1 DEF Pos
    <2>2. k \in 1 .. Len(stream) => k # Len(stream) + 1
      BY <1>1 DEF Pos
    <2>. QED
      BY <1>1, <2>1, <2>2, Zenon DEF On
  <1>3. ASSUME NEW k \in Pos, NEW x, On(k, x) PROVE k < Len(stream) + 1
    BY <1>1, <1>3 DEF On, Pos
  <1>4. Len(stream) + 1 \in Pos
    BY <1>1 DEF Pos
  <1>. QED
    BY <1>1, <1>2, <1>3, <1>4, Zenon

(* Where they are after the first one is read. *)
LEMMA AfterRead ==
    ASSUME Typed, stream # <<>>, stream' = Tail(stream)
    PROVE  /\ stream' \in Seq(StreamEvents) /\ Len(stream) \in Nat
           /\ Len(stream') = Len(stream) - 1
           /\ stream[1] \in StreamEvents /\ Head(stream) = stream[1] /\ On(1, stream[1])
           /\ \A x : On(1, x) => x = stream[1]
           /\ \A k \in Pos : k + 1 \in Pos /\ \A x : On(k, x)' <=> On(k + 1, x)
  <1>1. /\ stream \in Seq(StreamEvents) /\ Len(stream) \in Nat /\ Len(stream) # 0
    BY DEF Typed
  <1>2. /\ stream' \in Seq(StreamEvents) /\ Len(stream') = Len(stream) - 1
        /\ \A k \in 1 .. Len(stream') : stream'[k] = stream[k + 1]
    BY <1>1, QueueHead, Zenon
  <1>3. Head(stream) = stream[1] /\ stream[1] \in StreamEvents
    BY <1>1, QueueElement
  <1>4. On(1, stream[1]) /\ \A x : On(1, x) => x = stream[1]
    BY <1>1 DEF On
  <1>5. ASSUME NEW k \in Pos, NEW x PROVE k + 1 \in Pos /\ (On(k, x)' <=> On(k + 1, x))
    <2>1. k + 1 \in Pos /\ (k \in 1 .. Len(stream') <=> k + 1 \in 1 .. Len(stream))
      BY <1>1, <1>2 DEF Pos
    <2>. QED
      BY <1>2, <2>1, Zenon DEF On
  <1>. QED
    BY <1>1, <1>2, <1>3, <1>4, <1>5, Zenon

(* Where they are after the stream is cut after the n-th. *)
LEMMA AfterCut ==
    ASSUME Typed, NEW n \in 0 .. Len(stream), NEW torn \in BOOLEAN,
           stream' = SubSeq(stream, 1, n) \o IF torn THEN <<Mark("torn")>> ELSE <<>>
    PROVE  /\ stream' \in Seq(StreamEvents)
           /\ \A k \in Pos : \A x : On(k, x)' => (k <= n /\ On(k, x)) \/ x = Mark("torn")
           /\ \A k \in Pos : \A x : k <= n /\ On(k, x) => On(k, x)'
  <1>. DEFINE rest == IF torn THEN <<Mark("torn")>> ELSE <<>>
              front == SubSeq(stream, 1, n)
  <1>1. stream \in Seq(StreamEvents) /\ Len(stream) \in Nat /\ n \in Nat /\ n <= Len(stream)
    BY DEF Typed
  <1>2. /\ front \in Seq(StreamEvents) /\ Len(front) = n
        /\ \A k \in 1 .. n : front[k] = stream[k]
    <2>1. \A k \in 1 .. n : stream[k] \in StreamEvents
      BY <1>1, QueueElement
    <2>2. front = [k \in 1 .. n |-> stream[k]]
      BY <1>1
    <2>. QED
      BY <1>1, <2>1, <2>2
  <1>3. Mark("torn") \in StreamEvents
    BY Zenon DEF StreamEvents, Marks, MarkType
  <1>4. rest \in Seq(StreamEvents) /\ Len(rest) \in Nat
        /\ \A k \in 1 .. Len(rest) : rest[k] = Mark("torn")
    BY <1>3
  <1>. HIDE DEF rest, front
  <1>5. /\ stream' = front \o rest
    BY Zenon DEF rest, front
  <1>6. /\ stream' \in Seq(StreamEvents) /\ Len(stream') = n + Len(rest)
        /\ \A k \in 1 .. (n + Len(rest)) :
              stream'[k] = IF k <= n THEN front[k] ELSE rest[k - n]
    <2>1. /\ front \o rest \in Seq(StreamEvents) /\ Len(front \o rest) = Len(front) + Len(rest)
          /\ \A k \in 1 .. Len(front) + Len(rest) :
                (front \o rest)[k] = IF k <= Len(front) THEN front[k] ELSE rest[k - Len(front)]
      BY <1>2, <1>4, QueueConcat, Zenon
    <2>. QED
      BY <1>2, <1>5, <2>1, Zenon
  <1>7. ASSUME NEW k \in Pos, NEW x, On(k, x)' PROVE (k <= n /\ On(k, x)) \/ x = Mark("torn")
    <2>1. k \in 1 .. (n + Len(rest)) /\ stream'[k] = x
      BY <1>6, <1>7, Zenon DEF On
    <2>2. CASE k <= n
      <3>1. k \in 1 .. n /\ k \in 1 .. Len(stream)
        BY <1>1, <2>2 DEF Pos
      <3>. QED
        BY <1>2, <1>6, <2>1, <2>2, <3>1, Zenon DEF On
    <2>3. CASE ~(k <= n)
      <3>1. k - n \in 1 .. Len(rest)
        BY <1>1, <1>4, <2>1, <2>3
      <3>. QED
        BY <1>4, <1>6, <2>1, <2>3, <3>1, Zenon
    <2>. QED
      BY <2>2, <2>3, Zenon
  <1>8. ASSUME NEW k \in Pos, NEW x, k <= n, On(k, x) PROVE On(k, x)'
    <2>1. k \in 1 .. n /\ k \in 1 .. (n + Len(rest)) /\ stream[k] = x
      BY <1>1, <1>4, <1>8 DEF On, Pos
    <2>. QED
      BY <1>2, <1>6, <1>8, <2>1, Zenon DEF On
  <1>. QED
    BY <1>6, <1>7, <1>8, Zenon

-----------------------------------------------------------------------------
(* A step that leaves the assembler alone. *)
LEMMA HeldSame == ASSUME blocks' = blocks PROVE \A i : Held(i)' = Held(i)
  BY Zenon DEF Held

(* The pieces that are held and sent are counted. *)
LEMMA Counts ==
    ASSUME Typed, BlocksFilled
    PROVE  \A i \in Indexes : /\ Held(i) \in Nat /\ sentParts[i] \in Nat /\ plan[i] \in Nat
                              /\ Held(i) <= sentParts[i]
  <1>1. \A i \in Indexes : sentParts[i] \in Nat /\ plan[i] \in Nat
    BY AssemblyAssumption DEF Typed
  <1>2. ASSUME NEW i \in Indexes PROVE Held(i) \in Nat
    BY DEF Held, BlocksFilled
  <1>. QED
    BY <1>1, <1>2, Zenon DEF BlocksFilled

(* While the provider is sending, no final event is on the way. *)
LEMMA NoStopYet ==
    ASSUME StopIsLast, ~ended
    PROVE  Intact /\ \A k \in Pos : ~On(k, Mark("stop"))
  BY Zenon DEF StopIsLast, Intact

(* A provider that announces a part keeps what is said of the stream. *)
LEMMA AnnounceKept ==
    ASSUME Typed, Streamed, NEW i \in Indexes, AnnouncesPart(i)
    PROVE  Streamed'
  <1>1. /\ dialect = "anthropic" /\ i \notin begun /\ ~ended
        /\ stream' = Append(stream, Announcement(i)) /\ begun' = begun \cup {i}
        /\ UNCHANGED <<dialect, plan, sentParts, ended, blocks, usage>>
    BY Zenon DEF AnnouncesPart, Sends, Announcement
  <1>2. Announcement(i) \in StreamEvents
    BY Zenon DEF StreamEvents, Announcements
  <1>. DEFINE L == Len(stream) + 1
  <1>3. /\ L \in Pos
        /\ \A k \in Pos : \A x : On(k, x)' <=> On(k, x) \/ (k = L /\ x = Announcement(i))
        /\ \A k \in Pos : \A x : On(k, x) => k < L
    BY <1>1, <1>2, AfterSend, Zenon
  <1>. HIDE DEF L
  <1>4. \A q \in Indexes : Held(q)' = Held(q)
    BY <1>1, HeldSame, Zenon
  <1>5. Intact /\ \A k \in Pos : ~On(k, Mark("stop"))
    BY <1>1, NoStopYet, Zenon DEF Streamed
  <1>6. \A k \in Pos, q \in Indexes, p \in Nat : On(k, Piece(q, p))' <=> On(k, Piece(q, p))
    BY <1>3, EventsDiffer, Zenon
  <1>7. \A k \in Pos, t \in MarkType : On(k, Mark(t))' <=> On(k, Mark(t))
    BY <1>3, EventsDiffer, Zenon
  <1>8. PiecesNext'
    <2>. SUFFICES ASSUME NEW k \in Pos, NEW q \in Indexes, NEW p \in Nat, On(k, Piece(q, p))'
                  PROVE  /\ Held(q)' < p /\ p <= sentParts'[q]
                         /\ p = Held(q)' + 1 \/ \E j \in Pos : j < k /\ On(j, Piece(q, p - 1))'
      BY Zenon DEF PiecesNext
    <2>1. /\ Held(q) < p /\ p <= sentParts[q]
          /\ p = Held(q) + 1 \/ \E j \in Pos : j < k /\ On(j, Piece(q, p - 1))
      BY <1>6, Zenon DEF Streamed, PiecesNext
    <2>2. \A j \in Pos : On(j, Piece(q, p - 1)) => On(j, Piece(q, p - 1))'
      BY <1>3, Zenon
    <2>. QED
      BY <1>1, <1>4, <2>1, <2>2, Zenon
  <1>9. PiecesInOrder'
    BY <1>6, Zenon DEF Streamed, PiecesInOrder
  <1>10. PiecesThere'
    BY <1>1, <1>4, <1>5, <1>6, Zenon DEF Streamed, PiecesThere
  <1>11. StopIsLast'
    BY <1>5, <1>7, Zenon DEF StopIsLast, MarkType
  <1>12. UsageComes'
    BY <1>1, <1>3, <1>5 DEF Streamed, UsageComes, Pos
  <1>13. PartsAnnounced'
    <2>1. ASSUME NEW k \in Pos, NEW q \in Indexes, NEW p \in Nat, On(k, Piece(q, p))'
          PROVE  q \in DOMAIN blocks \/ \E j \in Pos : j < k /\ On(j, Announcement(q))'
      <3>1. q \in DOMAIN blocks \/ \E j \in Pos : j < k /\ On(j, Announcement(q))
        BY <1>1, <1>6, <2>1, Zenon DEF Streamed, PartsAnnounced
      <3>. QED
        BY <1>3, <3>1, Zenon
    <2>2. ASSUME NEW q \in begun'
          PROVE  q \in DOMAIN blocks \/ \E k \in Pos : On(k, Announcement(q))'
      <3>1. CASE q = i
        BY <1>3, <3>1, Zenon
      <3>2. CASE q \in begun
        <4>1. q \in DOMAIN blocks \/ \E k \in Pos : On(k, Announcement(q))
          BY <1>1, <1>5, <3>2, Zenon DEF Streamed, PartsAnnounced
        <4>. QED
          BY <1>3, <4>1, Zenon
      <3>. QED
        BY <1>1, <3>1, <3>2, Zenon
    <2>3. DOMAIN blocks \subseteq begun'
      BY <1>1, Zenon DEF Streamed, PartsAnnounced
    <2>. QED
      BY <1>1, <2>1, <2>2, <2>3, Zenon DEF PartsAnnounced
  <1>14. AnnouncedOnce'
    <2>. SUFFICES ASSUME NEW k \in Pos, NEW q \in Indexes, On(k, Announcement(q))'
                  PROVE  /\ q \in begun' /\ q \notin DOMAIN blocks
                         /\ \A j \in Pos : On(j, Announcement(q))' => j = k
      BY <1>1, Zenon DEF AnnouncedOnce
    <2>1. CASE q = i
      <3>1. \A j \in Pos : ~On(j, Announcement(i))
        BY <1>1, Zenon DEF Streamed, AnnouncedOnce
      <3>2. i \notin DOMAIN blocks
        BY <1>1, Zenon DEF Streamed, PartsAnnounced
      <3>. QED
        BY <1>1, <1>3, <2>1, <3>1, <3>2, Zenon
    <2>2. CASE q # i
      <3>1. \A j \in Pos : On(j, Announcement(q))' => On(j, Announcement(q))
        BY <1>3, <2>2, EventsDiffer, Zenon
      <3>. QED
        BY <1>1, <3>1, Zenon DEF Streamed, AnnouncedOnce
    <2>. QED
      BY <2>1, <2>2, Zenon
  <1>15. BlocksFilled'
    BY <1>1, <1>4, Zenon DEF Streamed, BlocksFilled
  <1>. QED
    BY <1>8, <1>9, <1>10, <1>11, <1>12, <1>13, <1>14, <1>15, Zenon DEF Streamed

(* So does one that sends a piece of a part. *)
LEMMA PieceKept ==
    ASSUME Typed, Streamed, NEW i \in Indexes, SendsPiece(i)
    PROVE  Streamed'
  <1>. DEFINE n == sentParts[i] + 1
              L == Len(stream) + 1
  <1>1. /\ sentParts[i] < plan[i] /\ (dialect = "anthropic" => i \in begun) /\ ~ended
        /\ stream' = Append(stream, Piece(i, n)) /\ sentParts' = [sentParts EXCEPT ![i] = n]
        /\ UNCHANGED <<dialect, plan, begun, ended, blocks, usage>>
    BY Zenon DEF SendsPiece, Sends, Piece
  <1>c. /\ \A q \in Indexes : /\ Held(q) \in Nat /\ sentParts[q] \in Nat /\ plan[q] \in Nat
                              /\ Held(q) <= sentParts[q]
        /\ n \in Nat
    BY Counts DEF Streamed
  <1>s. /\ sentParts'[i] = n /\ \A q \in Indexes : q # i => sentParts'[q] = sentParts[q]
    BY <1>1, Zenon DEF Typed
  <1>n. n = sentParts[i] + 1
    BY Zenon
  <1>2. Piece(i, n) \in StreamEvents
    BY <1>c DEF StreamEvents, Pieces
  <1>3. /\ L \in Pos
        /\ \A k \in Pos : \A x : On(k, x)' <=> On(k, x) \/ (k = L /\ x = Piece(i, n))
        /\ \A k \in Pos : \A x : On(k, x) => k < L
    BY <1>1, <1>2, AfterSend, Zenon
  <1>. HIDE DEF n, L
  <1>4. \A q \in Indexes : Held(q)' = Held(q)
    BY <1>1, HeldSame, Zenon
  <1>5. Intact /\ \A k \in Pos : ~On(k, Mark("stop"))
    BY <1>1, NoStopYet, ZenonT(20) DEF Streamed
  <1>6. \A k \in Pos, q \in Indexes : On(k, Announcement(q))' <=> On(k, Announcement(q))
    BY <1>3, <1>c, EventsDiffer
  <1>7. \A k \in Pos, t \in MarkType : On(k, Mark(t))' <=> On(k, Mark(t))
    BY <1>3, <1>c, EventsDiffer
  <1>8. \A k \in Pos, q \in Indexes, p \in Nat :
            On(k, Piece(q, p))' <=> On(k, Piece(q, p)) \/ (k = L /\ q = i /\ p = n)
    BY <1>3, <1>c, EventsDiffer
  <1>9. PiecesNext'
    <2>. SUFFICES ASSUME NEW k \in Pos, NEW q \in Indexes, NEW p \in Nat, On(k, Piece(q, p))'
                  PROVE  /\ Held(q)' < p /\ p <= sentParts'[q]
                         /\ p = Held(q)' + 1 \/ \E j \in Pos : j < k /\ On(j, Piece(q, p - 1))'
      BY Zenon DEF PiecesNext
    <2>0. \A j \in Pos : On(j, Piece(q, p - 1)) => On(j, Piece(q, p - 1))'
      BY <1>3, Zenon
    <2>1. CASE On(k, Piece(q, p))
      <3>1. /\ Held(q) < p /\ p <= sentParts[q]
            /\ p = Held(q) + 1 \/ \E j \in Pos : j < k /\ On(j, Piece(q, p - 1))
        BY <2>1, Zenon DEF Streamed, PiecesNext
      <3>2. p <= sentParts'[q]
        BY <1>c, <1>s, <1>n, <3>1
      <3>. QED
        BY <1>4, <2>0, <3>1, <3>2, Zenon
    <2>2. CASE k = L /\ q = i /\ p = n
      <3>1. Held(q)' < p /\ p <= sentParts'[q]
        BY <1>4, <1>c, <1>s, <1>n, <2>2
      <3>2. CASE Held(i) = sentParts[i]
        BY <1>4, <1>n, <2>2, <3>1, <3>2, Zenon
      <3>3. CASE Held(i) # sentParts[i]
        <4>1. Held(i) < sentParts[i] /\ sentParts[i] <= sentParts[i] /\ p - 1 = sentParts[i]
          BY <1>c, <1>n, <2>2, <3>3
        <4>2. PICK j \in Pos : On(j, Piece(i, sentParts[i]))
          BY <1>c, <1>5, <4>1, Zenon DEF Streamed, PiecesThere
        <4>3. j < k /\ On(j, Piece(q, p - 1))
          BY <1>3, <2>2, <4>1, <4>2, Zenon
        <4>. QED
          BY <2>0, <3>1, <4>3, Zenon
      <3>. QED
        BY <3>2, <3>3, Zenon
    <2>. QED
      BY <1>8, <2>1, <2>2, Zenon
  <1>10. PiecesInOrder'
    <2>. SUFFICES ASSUME NEW j \in Pos, NEW k \in Pos, NEW q \in Indexes, NEW p \in Nat,
                         NEW r \in Nat, On(j, Piece(q, p))', On(k, Piece(q, r))', j < k
                  PROVE  p < r
      BY Zenon DEF PiecesInOrder
    <2>1. ~(j = L)
      BY <1>3, <1>8 DEF Pos
    <2>2. On(j, Piece(q, p)) /\ p <= sentParts[q]
      BY <1>8, <2>1, Zenon DEF Streamed, PiecesNext
    <2>3. CASE On(k, Piece(q, r))
      BY <2>2, <2>3, Zenon DEF Streamed, PiecesInOrder
    <2>4. CASE q = i /\ r = n
      BY <1>c, <1>n, <2>2, <2>4
    <2>. QED
      BY <1>8, <2>3, <2>4, Zenon
  <1>11. PiecesThere'
    <2>. SUFFICES ASSUME NEW q \in Indexes, NEW p \in Nat, Held(q)' < p, p <= sentParts'[q]
                  PROVE  \E k \in Pos : On(k, Piece(q, p))'
      BY Zenon DEF PiecesThere
    <2>1. CASE p <= sentParts[q]
      BY <1>4, <1>5, <1>8, <2>1, Zenon DEF Streamed, PiecesThere
    <2>2. CASE ~(p <= sentParts[q])
      <3>1. q = i /\ p = n
        BY <1>c, <1>s, <1>n, <2>2
      <3>. QED
        BY <1>3, <1>8, <3>1, Zenon
    <2>. QED
      BY <2>1, <2>2, Zenon
  <1>12. StopIsLast'
    BY <1>5, <1>7, Zenon DEF StopIsLast, MarkType
  <1>13. UsageComes'
    BY <1>1, <1>3, <1>5 DEF Streamed, UsageComes, Pos
  <1>14. PartsAnnounced'
    <2>. SUFFICES ASSUME dialect = "anthropic" PROVE PartsAnnounced'
      BY <1>1, Zenon DEF PartsAnnounced
    <2>1. ASSUME NEW k \in Pos, NEW q \in Indexes, NEW p \in Nat, On(k, Piece(q, p))'
          PROVE  q \in DOMAIN blocks \/ \E j \in Pos : j < k /\ On(j, Announcement(q))'
      <3>1. CASE On(k, Piece(q, p))
        BY <1>6, <3>1, Zenon DEF Streamed, PartsAnnounced
      <3>2. CASE k = L /\ q = i
        <4>1. i \in DOMAIN blocks \/ \E j \in Pos : On(j, Announcement(i))
          BY <1>1, <1>5, Zenon DEF Streamed, PartsAnnounced
        <4>. QED
          BY <1>3, <3>2, <4>1, Zenon
      <3>. QED
        BY <1>8, <2>1, <3>1, <3>2, Zenon
    <2>2. ASSUME NEW q \in begun
          PROVE  q \in DOMAIN blocks \/ \E k \in Pos : On(k, Announcement(q))'
      BY <1>3, <1>5, Zenon DEF Streamed, PartsAnnounced
    <2>3. DOMAIN blocks \subseteq begun
      BY Zenon DEF Streamed, PartsAnnounced
    <2>. QED
      BY <1>1, <2>1, <2>2, <2>3, Zenon DEF PartsAnnounced
  <1>15. AnnouncedOnce'
    BY <1>1, <1>6, Zenon DEF Streamed, AnnouncedOnce
  <1>16. BlocksFilled'
    <2>1. \A q \in Indexes : Held(q) <= sentParts'[q]
      BY <1>c, <1>s, <1>n
    <2>. QED
      BY <1>1, <1>4, <2>1, Zenon DEF Streamed, BlocksFilled
  <1>. QED
    BY <1>9, <1>10, <1>11, <1>12, <1>13, <1>14, <1>15, <1>16, Zenon DEF Streamed

(* Where the events are after the last two are sent. *)
LEMMA AfterFinish ==
    ASSUME Typed, stream' = stream \o <<Mark("usage"), Mark("stop")>>
    PROVE  /\ stream' \in Seq(StreamEvents) /\ Len(stream) \in Nat
           /\ Len(stream') = Len(stream) + 2
           /\ \A k \in Pos : \A x : On(k, x)' <=> \/ On(k, x)
                                                  \/ k = Len(stream) + 1 /\ x = Mark("usage")
                                                  \/ k = Len(stream) + 2 /\ x = Mark("stop")
           /\ \A k \in Pos : \A x : On(k, x) => k < Len(stream) + 1
  <1>1. Mark("usage") \in StreamEvents /\ Mark("stop") \in StreamEvents
    BY Zenon DEF StreamEvents, Marks, MarkType
  <1>. DEFINE two == <<Mark("usage"), Mark("stop")>>
  <1>2. two \in Seq(StreamEvents) /\ Len(two) = 2 /\ two[1] = Mark("usage") /\ two[2] = Mark("stop")
    BY <1>1
  <1>. HIDE DEF two
  <1>3. stream \in Seq(StreamEvents) /\ Len(stream) \in Nat /\ stream' = stream \o two
    BY DEF Typed, two
  <1>4. /\ stream' \in Seq(StreamEvents) /\ Len(stream') = Len(stream) + 2
        /\ \A k \in 1 .. (Len(stream) + 2) :
              stream'[k] = IF k <= Len(stream) THEN stream[k] ELSE two[k - Len(stream)]
    <2>1. /\ stream \o two \in Seq(StreamEvents) /\ Len(stream \o two) = Len(stream) + Len(two)
          /\ \A k \in 1 .. Len(stream) + Len(two) :
                (stream \o two)[k] = IF k <= Len(stream) THEN stream[k] ELSE two[k - Len(stream)]
      BY <1>2, <1>3, QueueConcat, Zenon
    <2>. QED
      BY <1>2, <1>3, <2>1, Zenon
  <1>5. ASSUME NEW k \in Pos, NEW x
        PROVE  /\ On(k, x)' <=> \/ On(k, x)
                                \/ k = Len(stream) + 1 /\ x = Mark("usage")
                                \/ k = Len(stream) + 2 /\ x = Mark("stop")
               /\ On(k, x) => k < Len(stream) + 1
    <2>1. CASE k <= Len(stream)
      <3>1. k \in 1 .. (Len(stream) + 2) /\ k \in 1 .. Len(stream)
            /\ k # Len(stream) + 1 /\ k # Len(stream) + 2 /\ k < Len(stream) + 1
        BY <1>3, <2>1 DEF Pos
      <3>. QED
        BY <1>4, <2>1, <3>1, Zenon DEF On
    <2>2. CASE k = Len(stream) + 1
      <3>1. /\ k \in 1 .. (Len(stream) + 2) /\ k \notin 1 .. Len(stream) /\ ~(k <= Len(stream))
            /\ k - Len(stream) = 1 /\ k # Len(stream) + 2
        BY <1>3, <2>2
      <3>. QED
        BY <1>2, <1>4, <2>2, <3>1, Zenon DEF On
    <2>3. CASE k = Len(stream) + 2
      <3>1. /\ k \in 1 .. (Len(stream) + 2) /\ k \notin 1 .. Len(stream) /\ ~(k <= Len(stream))
            /\ k - Len(stream) = 2 /\ k # Len(stream) + 1
        BY <1>3, <2>3
      <3>. QED
        BY <1>2, <1>4, <2>3, <3>1, Zenon DEF On
    <2>4. CASE k > Len(stream) + 2
      <3>1. /\ k \notin 1 .. (Len(stream) + 2) /\ k \notin 1 .. Len(stream)
            /\ k # Len(stream) + 1 /\ k # Len(stream) + 2
        BY <1>3, <2>4 DEF Pos
      <3>. QED
        BY <1>4, <3>1, Zenon DEF On
    <2>. QED
      BY <1>3, <2>1, <2>2, <2>3, <2>4 DEF Pos
  <1>. QED
    BY <1>3, <1>4, <1>5, Zenon

(* So does one that ends the response. *)
LEMMA FinishKept ==
    ASSUME Typed, Streamed, Finishes
    PROVE  Streamed'
  <1>1. /\ sentParts = plan /\ ~ended /\ (dialect = "anthropic" => begun = Indexes) /\ ended'
        /\ stream' = stream \o <<Mark("usage"), Mark("stop")>>
        /\ UNCHANGED <<dialect, plan, sentParts, begun, blocks, usage>>
    BY Zenon DEF Finishes, Mark
  <1>. DEFINE L == Len(stream) + 1
              Z == Len(stream) + 2
  <1>2. /\ L \in Pos /\ Z \in Pos /\ L < Z /\ Len(stream') = Z
        /\ \A k \in Pos : \A x : On(k, x)' <=> \/ On(k, x)
                                               \/ k = L /\ x = Mark("usage")
                                               \/ k = Z /\ x = Mark("stop")
    <2>1. Len(stream) \in Nat
      BY DEF Typed
    <2>2. L \in Pos /\ Z \in Pos /\ L < Z
      BY <2>1 DEF Pos
    <2>. QED
      BY <1>1, <2>2, AfterFinish, Zenon
  <1>. HIDE DEF L, Z
  <1>4. \A q \in Indexes : Held(q)' = Held(q)
    BY <1>1, HeldSame, Zenon
  <1>5. Intact /\ \A k \in Pos : ~On(k, Mark("stop"))
    BY <1>1, NoStopYet, Zenon DEF Streamed
  <1>6. \A k \in Pos, q \in Indexes, p \in Nat : On(k, Piece(q, p))' <=> On(k, Piece(q, p))
    BY <1>2, EventsDiffer, Zenon DEF MarkType
  <1>7. \A k \in Pos, q \in Indexes : On(k, Announcement(q))' <=> On(k, Announcement(q))
    BY <1>2, EventsDiffer, Zenon DEF MarkType
  <1>8. PiecesNext'
    <2>. SUFFICES ASSUME NEW k \in Pos, NEW q \in Indexes, NEW p \in Nat, On(k, Piece(q, p))'
                  PROVE  /\ Held(q)' < p /\ p <= sentParts'[q]
                         /\ p = Held(q)' + 1 \/ \E j \in Pos : j < k /\ On(j, Piece(q, p - 1))'
      BY Zenon DEF PiecesNext
    <2>1. /\ Held(q) < p /\ p <= sentParts[q]
          /\ p = Held(q) + 1 \/ \E j \in Pos : j < k /\ On(j, Piece(q, p - 1))
      BY <1>6, Zenon DEF Streamed, PiecesNext
    <2>2. \A j \in Pos : On(j, Piece(q, p - 1)) => On(j, Piece(q, p - 1))'
      BY <1>2, Zenon
    <2>. QED
      BY <1>1, <1>4, <2>1, <2>2, Zenon
  <1>9. PiecesInOrder'
    BY <1>6, Zenon DEF Streamed, PiecesInOrder
  <1>10. PiecesThere'
    BY <1>1, <1>4, <1>5, <1>6, Zenon DEF Streamed, PiecesThere
  <1>11. StopIsLast'
    <2>. SUFFICES ASSUME NEW k \in Pos, On(k, Mark("stop"))'
                  PROVE  k = Z /\ \E j \in Pos : j < k /\ On(j, Mark("usage"))'
      BY <1>1, <1>2, Zenon DEF StopIsLast
    <2>1. Mark("stop") # Mark("usage")
      BY EventsDiffer, Zenon DEF MarkType
    <2>2. k = Z
      BY <1>2, <1>5, <2>1, Zenon
    <2>3. PICK l \in Pos : l = L
      BY <1>2, Zenon
    <2>4. l < k /\ On(l, Mark("usage"))'
      BY <1>2, <2>2, <2>3, Zenon
    <2>. QED
      BY <2>2, <2>4, Zenon
  <1>12. UsageComes'
    BY <1>1, <1>2, <1>5 DEF Streamed, UsageComes, Pos
  <1>13. PartsAnnounced'
    BY <1>1, <1>5, <1>6, <1>7, Zenon DEF Streamed, PartsAnnounced, Typed
  <1>14. AnnouncedOnce'
    BY <1>1, <1>7, Zenon DEF Streamed, AnnouncedOnce
  <1>15. BlocksFilled'
    BY <1>1, <1>4, Zenon DEF Streamed, BlocksFilled
  <1>. QED
    BY <1>8, <1>9, <1>10, <1>11, <1>12, <1>13, <1>14, <1>15, Zenon DEF Streamed

(* When the stream ends without the final event, what is still on the way   *)
(* is as it was.                                                            *)
LEMMA LossKept ==
    ASSUME Typed, Streamed, ended', NEW n \in Nat,
           UNCHANGED <<dialect, plan, sentParts, begun, blocks, usage>>,
           \A k \in Pos : \A x : On(k, x)' => (k <= n /\ On(k, x)) \/ x = Mark("torn")
                                              \/ x = Mark("failed"),
           \A k \in Pos : \A x : k <= n /\ On(k, x) => On(k, x)',
           \A k \in Pos : k <= n => ~On(k, Mark("stop"))
    PROVE  Streamed'
  <1>4. \A q \in Indexes : Held(q)' = Held(q)
    BY HeldSame, Zenon
  <1>5. ~Intact' /\ \A k \in Pos : ~On(k, Mark("stop"))'
    BY EventsDiffer, Zenon DEF Intact, MarkType
  <1>6. \A k \in Pos, q \in Indexes, p \in Nat :
            On(k, Piece(q, p))' => k <= n /\ On(k, Piece(q, p))
    BY EventsDiffer, Zenon DEF MarkType
  <1>7. \A k \in Pos, q \in Indexes :
            On(k, Announcement(q))' => k <= n /\ On(k, Announcement(q))
    BY EventsDiffer, Zenon DEF MarkType
  <1>a. \A j, k \in Pos : \A x : k <= n /\ j < k /\ On(j, x) => On(j, x)'
    BY DEF Pos
  <1>8. PiecesNext'
    <2>. SUFFICES ASSUME NEW k \in Pos, NEW q \in Indexes, NEW p \in Nat, On(k, Piece(q, p))'
                  PROVE  /\ Held(q)' < p /\ p <= sentParts'[q]
                         /\ p = Held(q)' + 1 \/ \E j \in Pos : j < k /\ On(j, Piece(q, p - 1))'
      BY Zenon DEF PiecesNext
    <2>1. /\ Held(q) < p /\ p <= sentParts[q] /\ k <= n
          /\ p = Held(q) + 1 \/ \E j \in Pos : j < k /\ On(j, Piece(q, p - 1))
      BY <1>6, Zenon DEF Streamed, PiecesNext
    <2>. QED
      BY <1>4, <1>a, <2>1, Zenon
  <1>9. PiecesInOrder'
    BY <1>6, Zenon DEF Streamed, PiecesInOrder
  <1>10. PiecesThere' /\ StopIsLast'
    BY <1>5, Zenon DEF PiecesThere, StopIsLast
  <1>11. UsageComes'
    BY <1>5, Zenon DEF Streamed, UsageComes
  <1>12. PartsAnnounced'
    <2>1. ASSUME dialect = "anthropic", NEW k \in Pos, NEW q \in Indexes, NEW p \in Nat,
                 On(k, Piece(q, p))'
          PROVE  q \in DOMAIN blocks \/ \E j \in Pos : j < k /\ On(j, Announcement(q))'
      <3>1. k <= n /\ (q \in DOMAIN blocks \/ \E j \in Pos : j < k /\ On(j, Announcement(q)))
        BY <1>6, <2>1, Zenon DEF Streamed, PartsAnnounced
      <3>. QED
        BY <1>a, <3>1, Zenon
    <2>2. dialect = "anthropic" => DOMAIN blocks \subseteq begun
      BY Zenon DEF Streamed, PartsAnnounced
    <2>. QED
      BY <1>5, <2>1, <2>2, Zenon DEF PartsAnnounced
  <1>13. AnnouncedOnce'
    BY <1>7, Zenon DEF Streamed, AnnouncedOnce
  <1>14. BlocksFilled'
    BY <1>4, Zenon DEF Streamed, BlocksFilled
  <1>. QED
    BY <1>8, <1>9, <1>10, <1>11, <1>12, <1>13, <1>14, Zenon DEF Streamed

(* So does one that reports an error. *)
LEMMA ErrorKept == ASSUME Typed, Streamed, ReportsError PROVE Streamed'
  <1>1. /\ ~ended /\ stream' = Append(stream, Mark("failed")) /\ ended'
        /\ UNCHANGED <<dialect, plan, sentParts, begun, blocks, usage>>
    BY Zenon DEF ReportsError, Sends, Mark
  <1>2. Mark("failed") \in StreamEvents
    BY Zenon DEF StreamEvents, Marks, MarkType
  <1>3. /\ Len(stream) \in Nat
        /\ \A k \in Pos : \A x : On(k, x)' <=> On(k, x) \/ (k = Len(stream) + 1 /\ x = Mark("failed"))
        /\ \A k \in Pos : \A x : On(k, x) => k < Len(stream) + 1
    BY <1>1, <1>2, AfterSend, Zenon
  <1>4. \A k \in Pos : ~On(k, Mark("stop"))
    BY <1>1, NoStopYet, Zenon DEF Streamed
  <1>5. \A k \in Pos : \A x : On(k, x) => k <= Len(stream)
    BY <1>3 DEF Pos
  <1>6. \A k \in Pos : \A x : On(k, x)' => (k <= Len(stream) /\ On(k, x)) \/ x = Mark("torn")
                                            \/ x = Mark("failed")
    BY <1>3, <1>5, Zenon
  <1>7. \A k \in Pos : \A x : k <= Len(stream) /\ On(k, x) => On(k, x)'
    BY <1>3, Zenon
  <1>. QED
    BY <1>1, <1>3, <1>4, <1>6, <1>7, LossKept, Zenon

(* So does a cut of the stream. *)
LEMMA CutKept == ASSUME Typed, Streamed, Cut PROVE Streamed'
  <1>1. ended' /\ UNCHANGED <<dialect, plan, sentParts, begun, blocks, usage>>
    BY Zenon DEF Cut
  <1>2. PICK n \in 0 .. Len(stream), torn \in BOOLEAN :
           /\ n < Len(stream) \/ ~ended
           /\ stream' = SubSeq(stream, 1, n) \o IF torn THEN <<Mark("torn")>> ELSE <<>>
    BY Zenon DEF Cut, Mark
  <1>3. /\ \A k \in Pos : \A x : On(k, x)' => (k <= n /\ On(k, x)) \/ x = Mark("torn")
        /\ \A k \in Pos : \A x : k <= n /\ On(k, x) => On(k, x)'
    BY <1>2, AfterCut, Zenon
  <1>4. n \in Nat /\ Len(stream) \in Nat
    BY <1>2 DEF Typed
  <1>5. \A k \in Pos : k <= n => ~On(k, Mark("stop"))
    BY <1>2, <1>4 DEF Streamed, StopIsLast, Pos
  <1>. QED
    BY <1>1, <1>3, <1>4, <1>5, LossKept, Zenon

-----------------------------------------------------------------------------
(* The first event is read: the others move up. *)
Reads == /\ stream # <<>> /\ stream' = Tail(stream)
         /\ UNCHANGED <<dialect, plan, sentParts, begun, ended>>

(* Reading the head moves the rest of the stream up. *)
LEMMA MovesUp ==
    ASSUME Typed, Reads
    PROVE  /\ \A k \in Pos : k + 1 \in Pos /\ k + 1 # 1 /\ \A x : On(k, x)' => On(k + 1, x)
           /\ \A j \in Pos : j # 1 => j - 1 \in Pos /\ \A x : On(j, x) => On(j - 1, x)'
           /\ \A j, k \in Pos : j # 1 /\ j < k + 1 => j - 1 < k
           /\ \A x : On(1, x) => x = stream[1]
           /\ Intact' => Intact
  <1>1. /\ \A x : On(1, x) => x = stream[1]
        /\ \A k \in Pos : k + 1 \in Pos /\ \A x : On(k, x)' <=> On(k + 1, x)
    BY AfterRead, Zenon DEF Reads
  <1>2. \A k \in Pos : k + 1 # 1
    BY DEF Pos
  <1>3. ASSUME NEW j \in Pos, j # 1 PROVE j - 1 \in Pos /\ \A x : On(j, x) => On(j - 1, x)'
    <2>1. j - 1 \in Pos /\ (j - 1) + 1 = j
      BY <1>3 DEF Pos
    <2>. QED
      BY <1>1, <2>1, Zenon
  <1>4. \A j, k \in Pos : j # 1 /\ j < k + 1 => j - 1 < k
    BY DEF Pos
  <1>5. Intact' => Intact
    BY <1>1, Zenon DEF Intact, Reads
  <1>. QED
    BY <1>1, <1>2, <1>3, <1>4, <1>5, Zenon

(* Reading the head keeps what is said of the rest. *)
LEMMA ReadKeepsOrder ==
    ASSUME Typed, Streamed, Reads, usage \subseteq usage',
           stream[1] = Mark("usage") => "out" \in usage',
           dialect = "anthropic" /\ stream[1] = Mark("start") => "in" \in usage',
           dialect = "chat" /\ "out" \in usage' => "in" \in usage'
    PROVE  PiecesInOrder' /\ StopIsLast' /\ UsageComes'
  <1>0. UNCHANGED <<dialect, plan, sentParts, begun, ended>>
    BY Zenon DEF Reads
  <1>1. /\ \A k \in Pos : k + 1 \in Pos /\ k + 1 # 1 /\ \A x : On(k, x)' => On(k + 1, x)
        /\ \A j \in Pos : j # 1 => j - 1 \in Pos /\ \A x : On(j, x) => On(j - 1, x)'
        /\ \A j, k \in Pos : j # 1 /\ j < k + 1 => j - 1 < k
        /\ \A x : On(1, x) => x = stream[1]
        /\ Intact' => Intact
    BY MovesUp, Zenon
  <1>2. PiecesInOrder'
    <2>. SUFFICES ASSUME NEW j \in Pos, NEW k \in Pos, NEW q \in Indexes, NEW p \in Nat,
                         NEW r \in Nat, On(j, Piece(q, p))', On(k, Piece(q, r))', j < k
                  PROVE  p < r
      BY Zenon DEF PiecesInOrder
    <2>1. j + 1 < k + 1 /\ On(j + 1, Piece(q, p)) /\ On(k + 1, Piece(q, r))
      BY <1>1 DEF Pos
    <2>2. j + 1 \in Pos /\ k + 1 \in Pos
      BY <1>1, Zenon
    <2>. QED
      BY <2>1, <2>2, Zenon DEF Streamed, PiecesInOrder
  <1>3. StopIsLast'
    <2>. SUFFICES ASSUME NEW k \in Pos, On(k, Mark("stop"))'
                  PROVE  /\ k = Len(stream') /\ ended /\ sentParts = plan
                         /\ dialect = "anthropic" => begun = Indexes
                         /\ "out" \in usage' \/ \E j \in Pos : j < k /\ On(j, Mark("usage"))'
      BY <1>0, Zenon DEF StopIsLast
    <2>1. /\ k + 1 = Len(stream) /\ ended /\ sentParts = plan
          /\ dialect = "anthropic" => begun = Indexes
          /\ "out" \in usage \/ \E j \in Pos : j < k + 1 /\ On(j, Mark("usage"))
      BY <1>1, Zenon DEF Streamed, StopIsLast
    <2>2. Len(stream) \in Nat /\ Len(stream') = Len(stream) - 1
      BY AfterRead, Zenon DEF Reads
    <2>3. k = Len(stream')
      BY <2>1, <2>2 DEF Pos
    <2>4. ASSUME NEW j \in Pos, j < k + 1, On(j, Mark("usage"))
          PROVE  "out" \in usage' \/ \E m \in Pos : m < k /\ On(m, Mark("usage"))'
      <3>1. CASE j = 1
        BY <1>1, <2>4, <3>1, Zenon
      <3>2. CASE j # 1
        BY <1>1, <2>4, <3>2, Zenon
      <3>. QED
        BY <3>1, <3>2, Zenon
    <2>. QED
      BY <2>1, <2>3, <2>4, Zenon
  <1>4. UsageComes'
    BY <1>0, <1>1, Zenon DEF Streamed, UsageComes
  <1>. QED
    BY <1>2, <1>3, <1>4, Zenon

(* An event that brings no piece is read. *)
LEMMA ReadOther ==
    ASSUME Typed, Streamed, Reads, \A i \in Indexes : Held(i)' = Held(i),
           \A i \in Indexes, p \in Nat : stream[1] # Piece(i, p),
           DOMAIN blocks' = DOMAIN blocks \cup {i \in Indexes : stream[1] = Announcement(i)}
    PROVE  PiecesNext' /\ PiecesThere' /\ PartsAnnounced' /\ AnnouncedOnce'
  <1>0. UNCHANGED <<dialect, plan, sentParts, begun, ended>>
    BY Zenon DEF Reads
  <1>1. /\ \A k \in Pos : k + 1 \in Pos /\ k + 1 # 1 /\ \A x : On(k, x)' => On(k + 1, x)
        /\ \A j \in Pos : j # 1 => j - 1 \in Pos /\ \A x : On(j, x) => On(j - 1, x)'
        /\ \A j, k \in Pos : j # 1 /\ j < k + 1 => j - 1 < k
        /\ \A x : On(1, x) => x = stream[1]
        /\ Intact' => Intact
    BY MovesUp, Zenon
  <1>c. \A i \in Indexes : Held(i) \in Nat
    BY Counts, Zenon DEF Streamed
  <1>2. PiecesNext'
    <2>. SUFFICES ASSUME NEW k \in Pos, NEW q \in Indexes, NEW p \in Nat, On(k, Piece(q, p))'
                  PROVE  /\ Held(q)' < p /\ p <= sentParts'[q]
                         /\ p = Held(q)' + 1 \/ \E j \in Pos : j < k /\ On(j, Piece(q, p - 1))'
      BY Zenon DEF PiecesNext
    <2>1. /\ Held(q) < p /\ p <= sentParts[q]
          /\ p = Held(q) + 1 \/ \E j \in Pos : j < k + 1 /\ On(j, Piece(q, p - 1))
      BY <1>1, Zenon DEF Streamed, PiecesNext
    <2>2. p - 1 \in Nat
      BY <1>c, <2>1
    <2>3. ASSUME NEW j \in Pos, j < k + 1, On(j, Piece(q, p - 1))
          PROVE  \E m \in Pos : m < k /\ On(m, Piece(q, p - 1))'
      <3>1. j # 1
        BY <1>1, <2>2, <2>3, Zenon
      <3>. QED
        BY <1>1, <2>3, <3>1, Zenon
    <2>. QED
      BY <1>0, <2>1, <2>3, Zenon
  <1>3. PiecesThere'
    <2>. SUFFICES ASSUME Intact, NEW q \in Indexes, NEW p \in Nat, Held(q) < p, p <= sentParts[q]
                  PROVE  \E k \in Pos : On(k, Piece(q, p))'
      BY <1>0, <1>1, Zenon DEF PiecesThere
    <2>1. PICK k \in Pos : On(k, Piece(q, p))
      BY Zenon DEF Streamed, PiecesThere
    <2>2. k # 1
      BY <1>1, <2>1, Zenon
    <2>. QED
      BY <1>1, <2>1, <2>2, Zenon
  <1>4. PartsAnnounced'
    <2>. SUFFICES ASSUME dialect = "anthropic" PROVE PartsAnnounced'
      BY <1>0, Zenon DEF PartsAnnounced
    <2>0. ASSUME NEW j \in Pos, NEW q \in Indexes, On(j, Announcement(q))
          PROVE  q \in DOMAIN blocks' \/ (j # 1 /\ On(j - 1, Announcement(q))')
      <3>1. CASE j = 1
        BY <1>1, <2>0, <3>1, Zenon
      <3>2. CASE j # 1
        BY <1>1, <2>0, <3>2, Zenon
      <3>. QED
        BY <3>1, <3>2, Zenon
    <2>1. ASSUME NEW k \in Pos, NEW q \in Indexes, NEW p \in Nat, On(k, Piece(q, p))'
          PROVE  q \in DOMAIN blocks' \/ \E j \in Pos : j < k /\ On(j, Announcement(q))'
      <3>1. q \in DOMAIN blocks \/ \E j \in Pos : j < k + 1 /\ On(j, Announcement(q))
        BY <1>1, <2>1, Zenon DEF Streamed, PartsAnnounced
      <3>. QED
        BY <1>1, <2>0, <3>1, Zenon
    <2>2. ASSUME Intact', NEW q \in begun
          PROVE  q \in DOMAIN blocks' \/ \E k \in Pos : On(k, Announcement(q))'
      <3>1. q \in Indexes /\ (q \in DOMAIN blocks \/ \E k \in Pos : On(k, Announcement(q)))
        BY <1>1, <2>2, Zenon DEF Streamed, PartsAnnounced, Typed
      <3>. QED
        BY <1>1, <2>0, <3>1, Zenon
    <2>3. DOMAIN blocks' \subseteq begun
      <3>1. On(1, stream[1]) /\ 1 \in Pos
        BY AfterRead DEF Reads, Pos
      <3>. QED
        BY <3>1 DEF Streamed, PartsAnnounced, AnnouncedOnce
    <2>. QED
      BY <1>0, <2>1, <2>2, <2>3, Zenon DEF PartsAnnounced
  <1>5. AnnouncedOnce'
    <2>. SUFFICES ASSUME NEW k \in Pos, NEW q \in Indexes, On(k, Announcement(q))'
                  PROVE  /\ dialect = "anthropic" /\ q \in begun /\ q \notin DOMAIN blocks'
                         /\ \A j \in Pos : On(j, Announcement(q))' => j = k
      BY <1>0, ZenonT(20) DEF AnnouncedOnce
    <2>1. /\ dialect = "anthropic" /\ q \in begun /\ q \notin DOMAIN blocks
          /\ \A j \in Pos : On(j, Announcement(q)) => j = k + 1
      BY <1>1, ZenonT(20) DEF Streamed, AnnouncedOnce
    <2>2. stream[1] # Announcement(q)
      <3>1. On(1, stream[1]) /\ 1 \in Pos
        BY AfterRead DEF Reads, Pos
      <3>2. k + 1 # 1
        BY <1>1, Zenon
      <3>. QED
        BY <2>1, <3>1, <3>2, Zenon
    <2>3. ASSUME NEW j \in Pos, On(j, Announcement(q))' PROVE j = k
      <3>1. j + 1 = k + 1
        BY <1>1, <2>1, <2>3, Zenon
      <3>. QED
        BY <3>1, SamePos, Zenon
    <2>. QED
      BY <2>1, <2>2, <2>3, Zenon
  <1>. QED
    BY <1>2, <1>3, <1>4, <1>5, Zenon

(* A piece is read. *)
LEMMA ReadPiece ==
    ASSUME Typed, Streamed, Reads, NEW i \in Indexes, NEW p \in Nat, stream[1] = Piece(i, p),
           Held(i)' = Held(i) + 1, \A q \in Indexes : q # i => Held(q)' = Held(q),
           DOMAIN blocks' = DOMAIN blocks \cup {i}, dialect = "anthropic" => i \in DOMAIN blocks
    PROVE  PiecesNext' /\ PiecesThere' /\ PartsAnnounced' /\ AnnouncedOnce'
  <1>0. UNCHANGED <<dialect, plan, sentParts, begun, ended>>
    BY Zenon DEF Reads
  <1>1. /\ \A k \in Pos : k + 1 \in Pos /\ k + 1 # 1 /\ \A x : On(k, x)' => On(k + 1, x)
        /\ \A j \in Pos : j # 1 => j - 1 \in Pos /\ \A x : On(j, x) => On(j - 1, x)'
        /\ \A j, k \in Pos : j # 1 /\ j < k + 1 => j - 1 < k
        /\ \A x : On(1, x) => x = stream[1]
        /\ Intact' => Intact
    BY MovesUp, Zenon
  <1>c. \A q \in Indexes : Held(q) \in Nat /\ sentParts[q] \in Nat
    BY Counts, Zenon DEF Streamed
  <1>h. On(1, Piece(i, p)) /\ 1 \in Pos
    BY AfterRead DEF Reads, Pos
  <1>p. p = Held(i) + 1
    <2>1. ~\E j \in Pos : j < 1
      BY DEF Pos
    <2>. QED
      BY <1>h, <2>1, Zenon DEF Streamed, PiecesNext
  <1>o. \A k \in Pos, r \in Nat : On(k + 1, Piece(i, r)) => p < r
    <2>1. \A k \in Pos : 1 < k + 1
      BY DEF Pos
    <2>. QED
      BY <1>1, <1>h, <2>1, Zenon DEF Streamed, PiecesInOrder
  <1>2. PiecesNext'
    <2>. SUFFICES ASSUME NEW k \in Pos, NEW q \in Indexes, NEW r \in Nat, On(k, Piece(q, r))'
                  PROVE  /\ Held(q)' < r /\ r <= sentParts'[q]
                         /\ r = Held(q)' + 1 \/ \E j \in Pos : j < k /\ On(j, Piece(q, r - 1))'
      BY Zenon DEF PiecesNext
    <2>1. /\ Held(q) < r /\ r <= sentParts[q]
          /\ r = Held(q) + 1 \/ \E j \in Pos : j < k + 1 /\ On(j, Piece(q, r - 1))
      BY <1>1, Zenon DEF Streamed, PiecesNext
    <2>2. r - 1 \in Nat
      BY <1>c, <2>1
    <2>3. CASE q = i
      <3>1. p < r
        BY <1>1, <1>o, <2>3, Zenon
      <3>2. Held(i)' = p /\ Held(i)' < r
        BY <1>p, <3>1, ZenonT(20)
      <3>3. PICK j \in Pos : j < k + 1 /\ On(j, Piece(i, r - 1))
        BY <1>p, <2>1, <2>3, <3>1
      <3>4. CASE j = 1
        <4>1. Piece(i, r - 1) = Piece(i, p)
          BY <1>1, <3>3, <3>4, Zenon
        <4>2. r - 1 = p
          <5>1. \A m \in Nat : Piece(i, m) = Piece(i, p) => m = p
            BY EventsDiffer, Zenon
          <5>. QED
            BY <2>2, <4>1, <5>1, Zenon
        <4>. QED
          BY <1>0, <2>1, <2>3, <3>2, <4>2, SMTT(20)
      <3>5. CASE j # 1
        BY <1>0, <1>1, <2>1, <2>3, <3>2, <3>3, <3>5, Zenon
      <3>. QED
        BY <3>4, <3>5, Zenon
    <2>4. CASE q # i
      <3>1. ASSUME NEW j \in Pos, j < k + 1, On(j, Piece(q, r - 1))
            PROVE  \E m \in Pos : m < k /\ On(m, Piece(q, r - 1))'
        <4>1. j # 1
          <5>1. Piece(i, p) # Piece(q, r - 1)
            BY <2>2, <2>4, EventsDiffer, Zenon
          <5>. QED
            BY <1>1, <3>1, <5>1, Zenon
        <4>. QED
          BY <1>1, <3>1, <4>1, Zenon
      <3>. QED
        BY <1>0, <2>1, <2>4, <3>1, Zenon
    <2>. QED
      BY <2>3, <2>4, Zenon
  <1>3. PiecesThere'
    <2>. SUFFICES ASSUME Intact, NEW q \in Indexes, NEW r \in Nat, Held(q)' < r, r <= sentParts[q]
                  PROVE  \E k \in Pos : On(k, Piece(q, r))'
      BY <1>0, <1>1, Zenon DEF PiecesThere
    <2>1. Held(q) < r /\ ~(q = i /\ r = p)
      <3>1. CASE q = i
        <4>1. Held(i) \in Nat /\ Held(i) + 1 < r
          BY <1>c, <3>1, Zenon
        <4>2. Held(i) < r /\ r # Held(i) + 1
          BY <4>1
        <4>. QED
          BY <1>p, <3>1, <4>2, Zenon
      <3>2. CASE q # i
        BY <3>2, Zenon
      <3>. QED
        BY <3>1, <3>2, Zenon
    <2>2. PICK k \in Pos : On(k, Piece(q, r))
      BY <2>1, Zenon DEF Streamed, PiecesThere
    <2>3. k # 1
      <3>1. Piece(i, p) # Piece(q, r)
        BY <2>1, EventsDiffer, Zenon
      <3>. QED
        BY <1>1, <2>2, <3>1, Zenon
    <2>. QED
      BY <1>1, <2>2, <2>3, ZenonT(20)
  <1>4. PartsAnnounced'
    <2>. SUFFICES ASSUME dialect = "anthropic" PROVE PartsAnnounced'
      BY <1>0, Zenon DEF PartsAnnounced
    <2>0. ASSUME NEW j \in Pos, NEW q \in Indexes, On(j, Announcement(q))
          PROVE  j # 1 /\ On(j - 1, Announcement(q))'
      <3>1. Piece(i, p) # Announcement(q)
        BY EventsDiffer, Zenon
      <3>2. j # 1
        BY <1>1, <2>0, <3>1, Zenon
      <3>. QED
        BY <1>1, <2>0, <3>2, Zenon
    <2>1. ASSUME NEW k \in Pos, NEW q \in Indexes, NEW r \in Nat, On(k, Piece(q, r))'
          PROVE  q \in DOMAIN blocks' \/ \E j \in Pos : j < k /\ On(j, Announcement(q))'
      <3>1. q \in DOMAIN blocks \/ \E j \in Pos : j < k + 1 /\ On(j, Announcement(q))
        BY <1>1, <2>1, Zenon DEF Streamed, PartsAnnounced
      <3>. QED
        BY <1>1, <2>0, <3>1, Zenon
    <2>2. ASSUME Intact', NEW q \in begun
          PROVE  q \in DOMAIN blocks' \/ \E k \in Pos : On(k, Announcement(q))'
      <3>1. q \in Indexes /\ (q \in DOMAIN blocks \/ \E k \in Pos : On(k, Announcement(q)))
        BY <1>1, <2>2, Zenon DEF Streamed, PartsAnnounced, Typed
      <3>. QED
        BY <1>1, <2>0, <3>1, Zenon
    <2>3. DOMAIN blocks' \subseteq begun
      BY Zenon DEF Streamed, PartsAnnounced
    <2>. QED
      BY <1>0, <2>1, <2>2, <2>3, Zenon DEF PartsAnnounced
  <1>5. AnnouncedOnce'
    <2>. SUFFICES ASSUME NEW k \in Pos, NEW q \in Indexes, On(k, Announcement(q))'
                  PROVE  /\ dialect = "anthropic" /\ q \in begun /\ q \notin DOMAIN blocks'
                         /\ \A j \in Pos : On(j, Announcement(q))' => j = k
      BY <1>0, Zenon DEF AnnouncedOnce
    <2>1. /\ dialect = "anthropic" /\ q \in begun /\ q \notin DOMAIN blocks
          /\ \A j \in Pos : On(j, Announcement(q)) => j = k + 1
      BY <1>1, Zenon DEF Streamed, AnnouncedOnce
    <2>3. ASSUME NEW j \in Pos, On(j, Announcement(q))' PROVE j = k
      <3>1. j + 1 = k + 1
        BY <1>1, <2>1, <2>3, Zenon
      <3>. QED
        BY <3>1, SamePos, Zenon
    <2>. QED
      BY <2>1, <2>3, Zenon
  <1>. QED
    BY <1>2, <1>3, <1>4, <1>5, Zenon

-----------------------------------------------------------------------------
(* The blocks after an event is read. *)
LEMMA MarkRead ==
    ASSUME Typed, Streamed, ReadEvent, dialect # "responses",
           NEW t \in MarkType, stream[1] = Mark(t)
    PROVE  Streamed'
  <1>1. Reads /\ Head(stream) = stream[1]
    BY AfterRead, Zenon DEF ReadEvent, Reads, provider
  <1>2. Mark(t).type = t
    BY Zenon DEF Mark
  <1>3. blocks' = blocks
    BY <1>1, <1>2, Zenon DEF ReadEvent, assembleAnthropic, assembleChat, MarkType, Typed
  <1>4. /\ usage \subseteq usage' /\ (t = "usage" => "out" \in usage')
        /\ dialect = "anthropic" /\ t = "start" => "in" \in usage'
        /\ dialect = "chat" /\ "out" \in usage' => "in" \in usage'
    BY <1>1, <1>2, Zenon DEF ReadEvent, assembleAnthropic, assembleChat, MarkType, Typed, Streamed, UsageComes
  <1>5. /\ stream[1] = Mark("usage") => t = "usage"
        /\ stream[1] = Mark("start") => t = "start"
        /\ \A i \in Indexes, p \in Nat : stream[1] # Piece(i, p)
        /\ \A i \in Indexes : stream[1] # Announcement(i)
    BY EventsDiffer, Zenon DEF MarkType
  <1>6. PiecesInOrder' /\ StopIsLast' /\ UsageComes'
    BY <1>1, <1>4, <1>5, ReadKeepsOrder, Zenon
  <1>7. \A i \in Indexes : Held(i)' = Held(i)
    BY <1>3, HeldSame, Zenon
  <1>8. PiecesNext' /\ PiecesThere' /\ PartsAnnounced' /\ AnnouncedOnce'
    <2>1. DOMAIN blocks' = DOMAIN blocks \cup {i \in Indexes : stream[1] = Announcement(i)}
      BY <1>3, <1>5, Zenon
    <2>. QED
      BY <1>1, <1>5, <1>7, <2>1, ReadOther, Zenon
  <1>9. BlocksFilled'
    BY <1>1, <1>3, <1>7, Zenon DEF Reads, Streamed, BlocksFilled
  <1>. QED
    BY <1>6, <1>8, <1>9, Zenon DEF Streamed

(* An announcement is read as it was sent. *)
LEMMA AnnouncementRead ==
    ASSUME Typed, Streamed, ReadEvent, dialect # "responses",
           NEW i \in Indexes, stream[1] = Announcement(i)
    PROVE  Streamed'
  <1>1. Reads /\ Head(stream) = stream[1] /\ On(1, Announcement(i)) /\ 1 \in Pos
    BY AfterRead DEF ReadEvent, Reads, provider, Pos
  <1>2. dialect = "anthropic" /\ i \notin DOMAIN blocks
    BY <1>1, Zenon DEF Streamed, AnnouncedOnce
  <1>3. Announcement(i).type = "block" /\ Announcement(i).index = i
    BY Zenon DEF Announcement
  <1>4. /\ blocks' = [m \in DOMAIN blocks \cup {i} |-> IF m = i THEN <<>> ELSE blocks[m]]
        /\ usage' = usage
    BY <1>1, <1>2, <1>3, ZenonT(20) DEF ReadEvent, assembleAnthropic
  <1>5. /\ DOMAIN blocks' = DOMAIN blocks \cup {i} /\ blocks'[i] = <<>>
        /\ \A m \in DOMAIN blocks : blocks'[m] = blocks[m]
    BY <1>2, <1>4, Zenon
  <1>6. \A m \in Indexes : Held(m)' = Held(m)
    BY <1>2, <1>5 DEF Held
  <1>7. /\ stream[1] # Mark("usage") /\ stream[1] # Mark("start")
        /\ \A m \in Indexes, p \in Nat : stream[1] # Piece(m, p)
        /\ \A m \in Indexes : stream[1] = Announcement(m) <=> m = i
    BY EventsDiffer, Zenon DEF MarkType
  <1>8. PiecesInOrder' /\ StopIsLast' /\ UsageComes'
    BY <1>1, <1>2, <1>4, <1>7, ReadKeepsOrder, Zenon
  <1>9. PiecesNext' /\ PiecesThere' /\ PartsAnnounced' /\ AnnouncedOnce'
    <2>1. DOMAIN blocks' = DOMAIN blocks \cup {m \in Indexes : stream[1] = Announcement(m)}
      BY <1>5, <1>7, Zenon
    <2>. QED
      BY <1>1, <1>6, <1>7, <2>1, ReadOther, Zenon
  <1>10. BlocksFilled'
    <2>1. blocks' = [m \in DOMAIN blocks' |-> blocks'[m]] /\ DOMAIN blocks' \subseteq Indexes
      BY <1>4, <1>5, Zenon DEF Streamed, BlocksFilled
    <2>2. ASSUME NEW m \in DOMAIN blocks'
          PROVE  /\ blocks'[m] \in Seq(Nat)
                 /\ \A n \in 1 .. Len(blocks'[m]) : blocks'[m][n] = n
      <3>1. CASE m = i
        BY <1>5, <3>1
      <3>2. CASE m # i
        BY <1>5, <3>2, Zenon DEF Streamed, BlocksFilled
      <3>. QED
        BY <3>1, <3>2, Zenon
    <2>3. \A m \in Indexes : Held(m)' <= sentParts'[m]
      BY <1>1, <1>6, Zenon DEF Reads, Streamed, BlocksFilled
    <2>. QED
      BY <1>1, <1>2, <2>1, <2>2, <2>3, Zenon DEF Reads, BlocksFilled
  <1>. QED
    BY <1>8, <1>9, <1>10, Zenon DEF Streamed

(* A piece is read as it was sent. *)
LEMMA PieceRead ==
    ASSUME Typed, Streamed, ReadEvent, dialect # "responses",
           NEW i \in Indexes, NEW p \in Nat, stream[1] = Piece(i, p)
    PROVE  Streamed'
  <1>. DEFINE old == IF i \in DOMAIN blocks THEN blocks[i] ELSE <<>>
  <1>1. Reads /\ Head(stream) = stream[1] /\ On(1, Piece(i, p)) /\ 1 \in Pos
    BY AfterRead DEF ReadEvent, Reads, provider, Pos
  <1>2. /\ p = Held(i) + 1 /\ p <= sentParts[i] /\ Held(i) \in Nat
        /\ dialect = "anthropic" => i \in DOMAIN blocks
    <2>1. ~\E j \in Pos : j < 1
      BY DEF Pos
    <2>. QED
      BY <1>1, <2>1, Counts, Zenon DEF Streamed, PiecesNext, PartsAnnounced
  <1>3. Piece(i, p).type = "delta" /\ Piece(i, p).index = i /\ Piece(i, p).piece = p
    BY Zenon DEF Piece
  <1>4. /\ old \in Seq(Nat) /\ Len(old) = Held(i) /\ \A n \in 1 .. Len(old) : old[n] = n
    BY DEF Streamed, BlocksFilled, Held
  <1>5. /\ blocks' = [m \in DOMAIN blocks \cup {i} |-> IF m = i THEN Append(old, p) ELSE blocks[m]]
        /\ usage' = usage
    <2>1. CASE dialect = "anthropic"
      <3>1. blocks' = [blocks EXCEPT ![i] = Append(blocks[i], p)] /\ usage' = usage
        BY <1>1, <1>2, <1>3, <2>1 DEF ReadEvent, assembleAnthropic, ExtendBlock
      <3>2. DOMAIN blocks \cup {i} = DOMAIN blocks
        BY <1>2, <2>1, Zenon
      <3>. QED
        BY <1>2, <2>1, <3>1, <3>2, Zenon DEF Streamed, BlocksFilled
    <2>2. CASE dialect = "chat"
      <3>1. /\ usage' = usage
            /\ blocks' = [m \in DOMAIN blocks \cup {i} |->
                            IF m # i THEN blocks[m]
                            ELSE IF m \in DOMAIN blocks THEN Append(blocks[m], p) ELSE <<p>>]
        BY <1>1, <1>3, <2>2, ZenonT(20) DEF ReadEvent, assembleChat, ExtendBlock
      <3>2. Append(<<>>, p) = <<p>>
        OBVIOUS
      <3>. QED
        BY <3>1, <3>2, Zenon
    <2>. QED
      BY <2>1, <2>2, Zenon DEF Typed
  <1>6. /\ Append(old, p) \in Seq(Nat) /\ Len(Append(old, p)) = Held(i) + 1
        /\ \A n \in 1 .. Len(Append(old, p)) : Append(old, p)[n] = n
    BY <1>2, <1>4, QueueAppend
  <1>. HIDE DEF old
  <1>7. /\ DOMAIN blocks' = DOMAIN blocks \cup {i} /\ blocks'[i] = Append(old, p)
        /\ \A m \in DOMAIN blocks : m # i => blocks'[m] = blocks[m]
    BY <1>5, Zenon
  <1>8. Held(i)' = Held(i) + 1 /\ \A m \in Indexes : m # i => Held(m)' = Held(m)
    <2>1. Held(i)' = Len(Append(old, p))
      BY <1>7, Zenon DEF Held
    <2>2. \A m \in Indexes : m # i => Held(m)' = Held(m)
      BY <1>7, Zenon DEF Held
    <2>. QED
      BY <1>6, <2>1, <2>2, Zenon
  <1>9. stream[1] # Mark("usage") /\ stream[1] # Mark("start")
    BY EventsDiffer, Zenon DEF MarkType
  <1>10. PiecesInOrder' /\ StopIsLast' /\ UsageComes'
    BY <1>1, <1>5, <1>9, ReadKeepsOrder, Zenon DEF Streamed, UsageComes
  <1>11. PiecesNext' /\ PiecesThere' /\ PartsAnnounced' /\ AnnouncedOnce'
    BY <1>1, <1>2, <1>7, <1>8, ReadPiece, Zenon
  <1>12. BlocksFilled'
    <2>1. blocks' = [m \in DOMAIN blocks' |-> blocks'[m]] /\ DOMAIN blocks' \subseteq Indexes
      BY <1>5, <1>7, Zenon DEF Streamed, BlocksFilled
    <2>2. ASSUME NEW m \in DOMAIN blocks'
          PROVE  /\ blocks'[m] \in Seq(Nat)
                 /\ \A n \in 1 .. Len(blocks'[m]) : blocks'[m][n] = n
      <3>1. CASE m = i
        BY <1>6, <1>7, <3>1, Zenon
      <3>2. CASE m # i
        BY <1>7, <3>2, Zenon DEF Streamed, BlocksFilled
      <3>. QED
        BY <3>1, <3>2, Zenon
    <2>3. \A m \in Indexes : Held(m)' <= sentParts'[m]
      BY <1>1, <1>2, <1>8, Zenon DEF Reads, Streamed, BlocksFilled
    <2>4. dialect' = "chat" => \A m \in DOMAIN blocks' : Held(m)' # 0
      BY <1>1, <1>2, <1>7, <1>8 DEF Reads, Streamed, BlocksFilled
    <2>. QED
      BY <2>1, <2>2, <2>3, <2>4, Zenon DEF BlocksFilled
  <1>. QED
    BY <1>10, <1>11, <1>12, Zenon DEF Streamed

(* The final event finds every part whole. *)
LEMMA WholeAtStop ==
    ASSUME Typed, Streamed, stream # <<>>, stream[1] = Mark("stop"), dialect # "responses"
    PROVE  /\ usage = {"in", "out"}
           /\ blocks = [i \in (IF dialect = "anthropic" THEN Indexes
                               ELSE {m \in Indexes : plan[m] > 0}) |->
                          [n \in 1 .. plan[i] |-> n]]
  <1>1. /\ On(1, Mark("stop")) /\ 1 \in Pos /\ \A k \in Pos : \A x : On(k, x) => k <= Len(stream)
    BY DEF On, Pos, Typed
  <1>2. /\ 1 = Len(stream) /\ sentParts = plan /\ (dialect = "anthropic" => begun = Indexes)
        /\ "out" \in usage
    <2>1. ~\E j \in Pos : j < 1
      BY DEF Pos
    <2>. QED
      BY <1>1, <2>1, Zenon DEF Streamed, StopIsLast
  <1>3. \A k \in Pos : \A x : On(k, x) => x = Mark("stop")
    <2>1. ASSUME NEW k \in Pos, NEW x, On(k, x) PROVE k = 1
      <3>1. k <= Len(stream)
        BY <1>1, <2>1, Zenon
      <3>2. k <= 1
        BY <1>2, <3>1, Zenon
      <3>. QED
        BY <3>2 DEF Pos
    <2>. QED
      BY <2>1, Zenon DEF On
  <1>4. Intact
    BY <1>1, Zenon DEF Intact
  <1>5. usage = {"in", "out"}
    <2>1. "in" \in usage
      BY <1>1, <1>2, <1>3, <1>4, EventsDiffer, Zenon DEF Streamed, UsageComes, Typed, MarkType
    <2>. QED
      BY <1>2, <2>1, Zenon DEF Typed
  <1>c. \A i \in Indexes : /\ Held(i) \in Nat /\ plan[i] \in Nat /\ Held(i) <= plan[i]
    BY <1>2, Counts, Zenon DEF Streamed
  <1>6. ASSUME NEW i \in Indexes PROVE Held(i) = plan[i]
    <2>1. ~\E k \in Pos : On(k, Piece(i, Held(i) + 1))
      BY <1>3, <1>c, EventsDiffer DEF MarkType
    <2>2. ~(Held(i) < Held(i) + 1 /\ Held(i) + 1 <= sentParts[i])
      BY <1>4, <1>c, <2>1 DEF Streamed, PiecesThere
    <2>. QED
      BY <1>2, <1>c, <2>2
  <1>7. ASSUME NEW i \in DOMAIN blocks PROVE blocks[i] = [n \in 1 .. plan[i] |-> n]
    <2>1. /\ i \in Indexes /\ blocks[i] \in Seq(Nat) /\ Len(blocks[i]) = Held(i)
          /\ \A n \in 1 .. Len(blocks[i]) : blocks[i][n] = n
      BY Zenon DEF Streamed, BlocksFilled, Held
    <2>2. Len(blocks[i]) = plan[i]
      BY <1>6, <2>1, Zenon
    <2>. QED
      BY <2>1, <2>2
  <1>8. CASE dialect = "anthropic"
    <2>1. DOMAIN blocks = Indexes
      BY <1>2, <1>3, <1>4, <1>8, EventsDiffer, Zenon DEF Streamed, PartsAnnounced, BlocksFilled, MarkType
    <2>. QED
      BY <1>5, <1>7, <1>8, <2>1, Zenon DEF Streamed, BlocksFilled
  <1>9. CASE dialect = "chat"
    <2>1. ASSUME NEW i \in Indexes PROVE i \in DOMAIN blocks <=> plan[i] > 0
      BY <1>6, <1>9, <1>c, SMTT(20) DEF Streamed, BlocksFilled, Held
    <2>2. DOMAIN blocks = {m \in Indexes : plan[m] > 0}
      BY <2>1, Zenon DEF Streamed, BlocksFilled
    <2>. QED
      BY <1>5, <1>7, <1>9, <2>2, Zenon DEF Streamed, BlocksFilled
  <1>. QED
    BY <1>8, <1>9, Zenon DEF Typed

(* What is known of the stream is known of the stream and the blocks only. *)
LEMMA StreamedSame ==
    ASSUME Streamed, UNCHANGED <<dialect, plan, sentParts, begun, ended, stream, blocks, usage>>
    PROVE  Streamed'
  <1>1. PiecesNext' /\ PiecesInOrder'
    BY DEF Streamed, PiecesNext, PiecesInOrder, Held, On
  <1>2. PiecesThere'
    BY Zenon DEF Streamed, PiecesThere, Held, Intact, On
  <1>3. StopIsLast' /\ UsageComes'
    BY Zenon DEF Streamed, StopIsLast, UsageComes, Intact, On
  <1>4. PartsAnnounced'
    BY Zenon DEF Streamed, PartsAnnounced, Intact, On
  <1>5. AnnouncedOnce'
    BY Zenon DEF Streamed, AnnouncedOnce, On
  <1>6. BlocksFilled'
    BY Zenon DEF Streamed, BlocksFilled, Held
  <1>. QED
    BY <1>1, <1>2, <1>3, <1>4, <1>5, <1>6, Zenon DEF Streamed

-----------------------------------------------------------------------------
(* The invariant holds before the first event. *)
LEMMA AssemblyInitially == AssemblyInit => AssemblyIInv
  <1>. SUFFICES ASSUME AssemblyInit PROVE AssemblyIInv
    BY Zenon
  <1>1. /\ stream = <<Mark("start")>> /\ Mark("start") \in StreamEvents
    BY Zenon DEF AssemblyInit, Mark, StreamEvents, Marks, MarkType
  <1>2. Typed
    <2>1. stream \in Seq(StreamEvents)
      BY <1>1
    <2>2. sentParts \in [Indexes -> 0 .. MaxPieces] /\ DOMAIN blocks \subseteq Indexes
      BY AssemblyAssumption DEF AssemblyInit
    <2>. QED
      BY <2>1, <2>2, Zenon DEF AssemblyInit, Typed
  <1>3. WholeOrError
    BY Zenon DEF AssemblyInit, WholeOrError
  <1>4. /\ On(1, Mark("start")) /\ \A k \in Pos : \A x : On(k, x) => x = Mark("start")
    BY <1>1 DEF On, Pos
  <1>5. /\ \A k \in Pos, i \in Indexes, p \in Nat : ~On(k, Piece(i, p))
        /\ \A k \in Pos, i \in Indexes : ~On(k, Announcement(i))
        /\ \A k \in Pos : ~On(k, Mark("stop"))
    BY <1>4, EventsDiffer, Zenon DEF MarkType
  <1>6. DOMAIN blocks = {} /\ \A i \in Indexes : Held(i) = 0 /\ sentParts[i] = 0
    BY DEF AssemblyInit, Held
  <1>7. PiecesNext /\ PiecesInOrder /\ StopIsLast /\ AnnouncedOnce
    BY <1>5, Zenon DEF PiecesNext, PiecesInOrder, StopIsLast, AnnouncedOnce
  <1>8. PiecesThere
    BY <1>6 DEF PiecesThere
  <1>9. UsageComes /\ PartsAnnounced
    BY <1>4, <1>5, <1>6, Zenon DEF AssemblyInit, UsageComes, PartsAnnounced
  <1>10. BlocksFilled
    <2>1. blocks = [i \in DOMAIN blocks |-> blocks[i]]
      BY DEF AssemblyInit
    <2>. QED
      BY <1>6, <2>1 DEF BlocksFilled
  <1>. QED
    BY <1>2, <1>3, <1>7, <1>8, <1>9, <1>10, Zenon DEF AssemblyIInv, Streamed

(* Every step keeps it. *)
LEMMA AssemblyStep ==
    ASSUME AssemblyIInv, [AssemblyNext]_assemblyVars
    PROVE  AssemblyIInv'
  <1>. USE DEF provider
  <1>a. Typed /\ WholeOrError /\ (dialect # "responses" => Streamed)
    BY Zenon DEF AssemblyIInv
  <1>1. ASSUME NEW i \in Indexes, AnnouncesPart(i) PROVE AssemblyIInv'
    <2>1. Announcement(i) \in StreamEvents /\ stream' = Append(stream, Announcement(i))
      BY <1>1, Zenon DEF AnnouncesPart, Sends, Announcement, StreamEvents, Announcements
    <2>2. stream' \in Seq(StreamEvents)
      BY <1>a, <2>1, AfterSend, Zenon
    <2>3. Typed' /\ WholeOrError'
      BY <1>a, <1>1, <2>2, Zenon DEF AnnouncesPart, Typed, WholeOrError, Generated
    <2>. QED
      BY <1>a, <1>1, <2>3, AnnounceKept, Zenon DEF AssemblyIInv, AnnouncesPart
  <1>2. ASSUME NEW i \in Indexes, SendsPiece(i) PROVE AssemblyIInv'
    <2>0. sentParts[i] \in Nat /\ plan[i] \in 0 .. MaxPieces
      BY <1>a, SMTT(20) DEF Typed
    <2>1. /\ Piece(i, sentParts[i] + 1) \in StreamEvents
          /\ stream' = Append(stream, Piece(i, sentParts[i] + 1))
      BY <1>2, <2>0 DEF SendsPiece, Sends, Piece, StreamEvents, Pieces
    <2>2. stream' \in Seq(StreamEvents)
      BY <1>a, <2>1, AfterSend, Zenon
    <2>3. sentParts' \in [Indexes -> 0 .. MaxPieces]
      BY <1>a, <1>2, <2>0, AssemblyAssumption DEF SendsPiece, Typed
    <2>4. Typed' /\ WholeOrError'
      BY <1>a, <1>2, <2>2, <2>3 DEF SendsPiece, Typed, WholeOrError, Generated
    <2>. QED
      BY <1>a, <1>2, <2>4, PieceKept, Zenon DEF AssemblyIInv, SendsPiece
  <1>3. CASE Finishes
    <2>1. stream' \in Seq(StreamEvents)
      BY <1>a, <1>3, AfterFinish, Zenon DEF Finishes, Mark
    <2>2. Typed' /\ WholeOrError'
      BY <1>a, <1>3, <2>1, Zenon DEF Finishes, Typed, WholeOrError, Generated
    <2>. QED
      BY <1>a, <1>3, <2>2, FinishKept, Zenon DEF AssemblyIInv, Finishes
  <1>4. CASE ReportsError
    <2>1. Mark("failed") \in StreamEvents /\ stream' = Append(stream, Mark("failed"))
      BY <1>4, Zenon DEF ReportsError, Sends, Mark, StreamEvents, Marks, MarkType
    <2>2. stream' \in Seq(StreamEvents)
      BY <1>a, <2>1, AfterSend, Zenon
    <2>3. Typed' /\ WholeOrError'
      BY <1>a, <1>4, <2>2, Zenon DEF ReportsError, Typed, WholeOrError, Generated
    <2>. QED
      BY <1>a, <1>4, <2>3, ErrorKept, Zenon DEF AssemblyIInv, ReportsError
  <1>5. CASE Cut
    <2>1. PICK n \in 0 .. Len(stream), torn \in BOOLEAN :
             stream' = SubSeq(stream, 1, n) \o IF torn THEN <<Mark("torn")>> ELSE <<>>
      BY <1>5, Zenon DEF Cut, Mark
    <2>2. stream' \in Seq(StreamEvents)
      BY <1>a, <2>1, AfterCut, Zenon
    <2>3. Typed' /\ WholeOrError'
      BY <1>a, <1>5, <2>2, Zenon DEF Cut, Typed, WholeOrError, Generated
    <2>. QED
      BY <1>a, <1>5, <2>3, CutKept, Zenon DEF AssemblyIInv, Cut
  <1>6. CASE ReadEvent
    <2>1. /\ stream # <<>> /\ stream' = Tail(stream) /\ outcome = "none"
          /\ UNCHANGED <<dialect, plan, sentParts, begun, ended>>
      BY <1>6, Zenon DEF ReadEvent
    <2>2. /\ stream' \in Seq(StreamEvents) /\ stream[1] \in StreamEvents /\ Head(stream) = stream[1]
      BY <1>a, <2>1, AfterRead, Zenon
    <2>3. dialect # "responses" => Streamed'
      <3>. SUFFICES ASSUME dialect # "responses" PROVE Streamed'
        BY Zenon
      <3>1. \/ \E i \in Indexes, p \in Nat : stream[1] = Piece(i, p)
            \/ \E i \in Indexes : stream[1] = Announcement(i)
            \/ \E t \in MarkType : stream[1] = Mark(t)
        BY <2>2, EventKinds, Zenon
      <3>. QED
        BY <1>a, <1>6, <3>1, PieceRead, AnnouncementRead, MarkRead, Zenon
    <2>4. /\ outcome' \in {"none", "ok", "error"}
          /\ outcome' = "ok" => stream[1].type = "stop" /\ result' = Assembled(blocks')
      BY <1>6, <2>2, Zenon DEF ReadEvent
    <2>5. CASE dialect = "responses"
      <3>1. \/ UNCHANGED <<blocks, usage>> /\ stream[1].type # "stop"
            \/ UNCHANGED <<blocks, usage>> /\ outcome' = "error"
            \/ /\ blocks' = [i \in {j \in Indexes : plan[j] > 0} |-> [n \in 1 .. plan[i] |-> n]]
               /\ usage' = {"in", "out"}
        BY <1>6, <2>2, <2>5, Zenon DEF ReadEvent, assembleResponses
      <3>2. DOMAIN blocks' \subseteq Indexes /\ usage' \subseteq {"in", "out"}
        BY <1>a, <3>1, Zenon DEF Typed
      <3>3. Typed'
        BY <1>a, <2>1, <2>2, <2>4, <3>2, Zenon DEF Typed
      <3>4. WholeOrError'
        <4>. SUFFICES ASSUME outcome' = "ok"
                      PROVE  result' = Generated' /\ usage' = {"in", "out"}
          BY Zenon DEF WholeOrError
        <4>1. /\ blocks' = [i \in {j \in Indexes : plan[j] > 0} |-> [n \in 1 .. plan[i] |-> n]]
              /\ usage' = {"in", "out"} /\ result' = Assembled(blocks')
          BY <2>4, <3>1, Zenon
        <4>. QED
          BY <2>1, <2>5, <4>1, Zenon DEF Generated
      <3>. QED
        BY <2>1, <2>5, <3>3, <3>4, Zenon DEF AssemblyIInv
    <2>6. CASE dialect # "responses"
      <3>0. Streamed
        BY <1>a, <2>6, Zenon
      <3>1. DOMAIN blocks' \subseteq Indexes
        BY <2>3, <2>6, Zenon DEF Streamed, BlocksFilled
      <3>2. usage' \subseteq {"in", "out"}
        BY <1>a, <1>6, <2>2, <2>6, Zenon DEF ReadEvent, assembleAnthropic, assembleChat, Typed
      <3>3. Typed'
        BY <1>a, <2>1, <2>2, <2>4, <3>1, <3>2, Zenon DEF Typed
      <3>4. WholeOrError'
        <4>. SUFFICES ASSUME outcome' = "ok"
                      PROVE  result' = Generated' /\ usage' = {"in", "out"}
          BY Zenon DEF WholeOrError
        <4>1. stream[1].type = "stop" /\ result' = Assembled(blocks')
          BY <2>4, Zenon
        <4>2. stream[1] = Mark("stop")
          BY <2>2, <4>1, EventKinds DEF Piece, Announcement, Mark
        <4>3. UNCHANGED <<blocks, usage>>
          BY <1>a, <1>6, <2>2, <2>6, <4>1, Zenon DEF ReadEvent, assembleAnthropic, assembleChat, Typed
        <4>4. /\ usage = {"in", "out"}
              /\ blocks = [i \in (IF dialect = "anthropic" THEN Indexes
                                  ELSE {m \in Indexes : plan[m] > 0}) |->
                             [n \in 1 .. plan[i] |-> n]]
          BY <1>a, <2>1, <2>6, <3>0, <4>2, WholeAtStop, Zenon
        <4>. QED
          BY <2>1, <4>1, <4>3, <4>4, Zenon DEF Generated
      <3>. QED
        BY <2>1, <2>3, <2>6, <3>3, <3>4, Zenon DEF AssemblyIInv
    <2>. QED
      BY <2>5, <2>6, Zenon
  <1>7. CASE StreamEnds
    <2>1. outcome' = "error" /\ UNCHANGED <<dialect, plan, sentParts, begun, ended, stream, blocks, usage>>
      BY <1>7, Zenon DEF StreamEnds, EndIsEarly
    <2>2. Typed' /\ WholeOrError'
      BY <1>a, <2>1, Zenon DEF Typed, WholeOrError
    <2>3. Streamed => Streamed'
      BY <2>1, StreamedSame, Zenon
    <2>. QED
      BY <1>a, <2>1, <2>2, <2>3, Zenon DEF AssemblyIInv
  <1>8. CASE UNCHANGED assemblyVars
    <2>1. Typed' /\ WholeOrError' /\ dialect' = dialect
      BY <1>a, <1>8, Zenon DEF assemblyVars, Typed, WholeOrError, Generated
    <2>2. Streamed => Streamed'
      BY <1>8, StreamedSame, Zenon DEF assemblyVars
    <2>. QED
      BY <1>a, <2>1, <2>2, Zenon DEF AssemblyIInv
  <1>. QED
    BY <1>1, <1>2, <1>3, <1>4, <1>5, <1>6, <1>7, <1>8, Zenon DEF AssemblyNext

(* A call returns the whole generated response with its usage, or an error, *)
(* for any parts, pieces, interleaving and cut of the stream (readSSE and   *)
(* the three assemblers).                                                   *)
THEOREM ResponsesAreWhole == AssemblySpec => []AssemblyInv
  <1>1. AssemblyIInv /\ [AssemblyNext]_assemblyVars => AssemblyIInv'
    BY AssemblyStep, Zenon
  <1>2. AssemblyIInv => AssemblyInv
    <2>. SUFFICES ASSUME AssemblyIInv PROVE AssemblyInv
      BY Zenon
    <2>1. \A k \in DOMAIN stream : stream[k] \in StreamEvents
      BY QueueElement DEF AssemblyIInv, Typed
    <2>2. \A k \in DOMAIN stream : stream[k].type \in EventType
      BY <2>1, EventKinds, Zenon
    <2>. QED
      BY <2>2, Zenon DEF AssemblyIInv, AssemblyInv, AssemblyTypeOK, Typed
  <1>. QED
    BY <1>1, <1>2, AssemblyInitially, PTL DEF AssemblySpec
=============================================================================
