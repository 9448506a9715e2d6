------------------------------ MODULE Session -------------------------------
\* Authenticated requests of one provider account: the credential in the
\* keychain, the session every open account of the process shares, the refresh
\* of an access token by rotation, one retry after 401 (auru-pm http.rs,
\* token_store.rs), and the server's check of a token, against the cached
\* signing keys of the identity provider or by asking it (auru-pm-server
\* auth.rs).
\*
\* The identity provider is external: a refresh token belongs to a grant (one
\* sign-in) and is <<grant, n>>; only the newest of a grant is accepted, and an
\* accepted one may be replaced.
EXTENDS Naturals, Sequences

CONSTANTS Call,        \* requests that may be under way at once
          MaxTokens,   \* bound on access tokens the identity provider issues
          MaxGrants,   \* bound on sign-ins
          MaxKeys      \* bound on signing keys

ASSUME BoundsAssumption == MaxTokens \in Nat /\ MaxGrants \in Nat /\ MaxKeys \in Nat \ {0}

VARIABLES mode,        \* how the server checks tokens: "jwt" or "introspection"
          stored,      \* the account's credential in the keychain
          session,     \* the credential shared by all open accounts
          call,        \* call[c]: where it is, its credential, the token it sent
          lock,        \* calls inside the session's mutex: at most one
          newest,      \* newest[g]: number of the refresh token grant g accepts
          token,       \* token[n]: signing key and age of access token n
          keys,        \* the newest key the identity provider publishes and signs with
          cached,      \* the newest key the server has cached
          refreshed,   \* did the server ask for keys in the last 30 s?
          refused,     \* has the identity provider refused a refresh token?
          mishap       \* did a rotation miss the keychain or a session miss it?

sessionVars == <<mode, stored, session, call, lock, newest, token, keys, cached,
                 refreshed, refused, mishap>>

NoRefresh == <<0, 0>>
NoCredential == [kind |-> "none", access |-> 0, refresh |-> NoRefresh]
Shared == [NoCredential EXCEPT !.kind = "shared"]
NoCall == [at |-> "idle", held |-> NoCredential, sent |-> 0]

\* Accounts with an authenticator that keep the session alive.
Holders == {c \in Call : call[c].held = Shared}

SessionInit ==
    /\ mode \in {"jwt", "introspection"}
    /\ stored = NoCredential
    /\ session = NoCredential
    /\ call = [c \in Call |-> NoCall]
    /\ lock = {}
    /\ newest = <<>>
    /\ token = <<>>
    /\ keys = 1
    /\ cached = 1
    /\ refreshed = FALSE
    /\ refused = FALSE
    /\ mishap = FALSE

-----------------------------------------------------------------------------
\* The identity provider and the clock.

CanIssue == Len(token) < MaxTokens
Issue == token' = Append(token, [key |-> keys, age |-> "fresh"])
NextToken == Len(token) + 1

\* A sign-in stores a credential: an OAuth one, with or without a refresh
\* token, or a plain access token.  Open sessions are not told.
NewGrant ==
    /\ Len(newest) < MaxGrants /\ CanIssue
    /\ Issue
    /\ newest' = Append(newest, 1)
    /\ \E c \in {[kind |-> "oauth", access |-> NextToken, refresh |-> <<Len(newest) + 1, 1>>],
                 [kind |-> "oauth", access |-> NextToken, refresh |-> NoRefresh],
                 [kind |-> "pat", access |-> NextToken, refresh |-> NoRefresh]} :
          stored' = c
    /\ UNCHANGED <<mode, session, call, lock, keys, cached, refreshed, refused, mishap>>

InUse == {stored.access, session.access}
           \cup UNION {{call[c].held.access, call[c].sent} : c \in Call}

\* A token comes within a minute of the end the client was told; one without
\* an announced lifetime, or a revoked one, ends without notice.  (Tokens
\* nobody holds any more are left alone.)
Ages(n) ==
    /\ n \in DOMAIN token \cap InUse
    /\ token[n].age = "fresh"
    /\ \E age \in {"due", "dead"} : token' = [token EXCEPT ![n].age = age]
    /\ UNCHANGED <<mode, stored, session, call, lock, newest, keys, cached,
                   refreshed, refused, mishap>>

\* The identity provider publishes a further key and signs with it.
RotateKeys ==
    /\ mode = "jwt" /\ keys < MaxKeys
    /\ keys' = keys + 1
    /\ UNCHANGED <<mode, stored, session, call, lock, newest, token, cached,
                   refreshed, refused, mishap>>

HalfMinutePasses ==
    /\ refreshed
    /\ refreshed' = FALSE
    /\ UNCHANGED <<mode, stored, session, call, lock, newest, token, keys, cached,
                   refused, mishap>>

-----------------------------------------------------------------------------
\* Opening an account.

Requests == <<mode, newest, token, keys, cached, refreshed, refused>>

\* connect_stored reads the keychain; without a credential the request goes
\* out bare.
Load(c) ==
    /\ call[c].at = "idle"
    /\ call' = [call EXCEPT ![c] = [NoCall EXCEPT
                   !.held = stored,
                   !.at = IF stored = NoCredential THEN "asked" ELSE "loaded"]]
    /\ UNCHANGED <<stored, session, lock, mishap, Requests>>

\* Without the map of live sessions: what was loaded is always used.
AttachOwn(c) ==
    /\ call[c].at = "loaded"
    /\ session' = call[c].held
    /\ mishap' = (mishap \/ (Holders = {} /\ call[c].held # stored))
    /\ call' = [call EXCEPT ![c].at = "ready", ![c].held = Shared]
    /\ UNCHANGED <<stored, lock, Requests>>

\* shared_stored_credential: a live session is shared, else what was loaded
\* becomes the session, however long ago it was loaded.
Attach(c) ==
    /\ call[c].at = "loaded"
    /\ session' = IF Holders = {} THEN call[c].held ELSE session
    /\ mishap' = (mishap \/ (Holders = {} /\ call[c].held # stored))
    /\ call' = [call EXCEPT ![c].at = "ready", ![c].held = Shared]
    /\ UNCHANGED <<stored, lock, Requests>>

\* The last account to go takes the session with it.
Close(c) ==
    /\ call[c].at = "done"
    /\ call' = [call EXCEPT ![c] = NoCall]
    /\ session' = IF Holders \subseteq {c} THEN NoCredential ELSE session
    /\ UNCHANGED <<stored, lock, mishap, Requests>>

Crash ==
    /\ \E c \in Call : call[c] # NoCall
    /\ call' = [c \in Call |-> NoCall]
    /\ session' = NoCredential
    /\ lock' = {}
    /\ UNCHANGED <<stored, mishap, Requests>>

-----------------------------------------------------------------------------
\* Access tokens.

Due == session.kind = "oauth" /\ token[session.access].age = "due"

\* access_token: refreshed first when it is about to end.
AccessToken(c) ==
    /\ call[c].at = "ready" /\ lock = {}
    /\ IF Due THEN /\ call' = [call EXCEPT ![c].at = "renew"]
                   /\ lock' = {c}
              ELSE /\ call' = [call EXCEPT ![c].at = "asked", ![c].sent = session.access]
                   /\ UNCHANGED lock
    /\ UNCHANGED <<stored, session, mishap, Requests>>

\* refresh_after_unauthorized: a personal token is not refreshed; a token
\* another request has replaced meanwhile is not replaced again.
AfterUnauthorized(c) ==
    /\ call[c].at = "unauthorized" /\ lock = {}
    /\ CASE session.kind # "oauth" ->
              call' = [call EXCEPT ![c].at = "done", ![c].sent = 0] /\ UNCHANGED lock
         [] session.kind = "oauth" /\ session.access # call[c].sent ->
              /\ call' = [call EXCEPT ![c].at = "askedAgain", ![c].sent = session.access]
              /\ UNCHANGED lock
         [] session.kind = "oauth" /\ session.access = call[c].sent ->
              call' = [call EXCEPT ![c].at = "renewAgain"] /\ lock' = {c}
    /\ UNCHANGED <<stored, session, mishap, Requests>>

Grant == session.refresh[1]
Accepts == session.refresh # NoRefresh /\ session.refresh[2] = newest[Grant]

\* The identity provider issues a token, with a new refresh token or without.
Grants ==
    /\ Accepts /\ CanIssue
    /\ Issue
    /\ \E next \in {newest[Grant], newest[Grant] + 1} : newest' = [newest EXCEPT ![Grant] = next]

\* refresh_credential, then the keychain; a keychain that refuses fails the
\* call, though the session already holds the new credential.
Renew(c) ==
    /\ call[c].at \in {"renew", "renewAgain"}
    /\ Grants
    /\ session' = [session EXCEPT !.access = NextToken, !.refresh = <<Grant, newest'[Grant]>>]
    /\ \/ /\ stored' = session'
          /\ call' = [call EXCEPT ![c].at = IF @ = "renew" THEN "asked" ELSE "askedAgain",
                                  ![c].sent = NextToken]
          /\ UNCHANGED mishap
       \/ /\ UNCHANGED stored
          /\ call' = [call EXCEPT ![c].at = "done", ![c].sent = 0]
          /\ mishap' = TRUE
    /\ lock' = {}
    /\ UNCHANGED <<mode, keys, cached, refreshed, refused>>

\* The answer is lost, or cannot be used, after the rotation took place.
RenewLost(c) ==
    /\ call[c].at \in {"renew", "renewAgain"}
    /\ Grants
    /\ call' = [call EXCEPT ![c].at = "done", ![c].sent = 0]
    /\ lock' = {}
    /\ mishap' = TRUE
    /\ UNCHANGED <<mode, stored, session, keys, cached, refreshed, refused>>

\* No refresh token, an unreachable endpoint, or a refresh token that is no
\* longer accepted.
RenewFails(c) ==
    /\ call[c].at \in {"renew", "renewAgain"}
    /\ call' = [call EXCEPT ![c].at = "done", ![c].sent = 0]
    /\ lock' = {}
    /\ refused' \in {refused, refused \/ (session.refresh # NoRefresh /\ ~Accepts)}
    /\ UNCHANGED <<mode, stored, session, newest, token, keys, cached, refreshed, mishap>>

-----------------------------------------------------------------------------
\* The server's answer.

\* The check of a genuine token's lifetime: a token that is due may have ended.
Judged(n) == CASE token[n].age = "fresh" -> {200}
               [] token[n].age = "due" -> {200, 401}
               [] token[n].age = "dead" -> {401}

\* 401 is retried once, by an account that has an authenticator; every other
\* answer is the caller's.
Answer(c, status) ==
    LET again == status = 401 /\ call[c].at = "asked" /\ call[c].held = Shared
    IN  call' = [call EXCEPT ![c].at = IF again THEN "unauthorized" ELSE "done",
                             ![c].sent = IF again THEN @ ELSE 0]

\* select_key: the server has a cached key the token can be checked with.
KnownKey(n) == token[n].key <= cached

\* A token shown to the identity provider, which may be out of reach.
Introspect(c) ==
    /\ mode = "introspection"
    /\ \E status \in Judged(call[c].sent) \cup {503} : Answer(c, status)

\* A token signed with a key the server has cached.
VerifyJwt(c) ==
    /\ mode = "jwt" /\ KnownKey(call[c].sent)
    /\ \E status \in Judged(call[c].sent) : Answer(c, status)

\* require_auth: without a token the answer is 401 at once.
Verify(c) ==
    /\ call[c].at \in {"asked", "askedAgain"}
    /\ \/ call[c].sent = 0 /\ Answer(c, 401)
       \/ call[c].sent # 0 /\ (Introspect(c) \/ VerifyJwt(c))
    /\ UNCHANGED <<stored, session, lock, mishap, Requests>>

\* key_for: an unknown key is looked up at the identity provider, at most once
\* in 30 s, whether or not the last look-up succeeded.
FetchKeys(c) ==
    /\ call[c].at \in {"asked", "askedAgain"} /\ mode = "jwt"
    /\ call[c].sent # 0 /\ ~KnownKey(call[c].sent)
    /\ \/ refreshed /\ Answer(c, 401) /\ UNCHANGED <<cached, refreshed>>
       \/ /\ ~refreshed /\ refreshed' = TRUE
          /\ \/ /\ cached' = keys
                /\ \E status \in Judged(call[c].sent) : Answer(c, status)
             \/ UNCHANGED cached /\ Answer(c, 503)
    /\ UNCHANGED <<mode, stored, session, lock, newest, token, keys, refused, mishap>>

\* The request or its answer is lost.
Unreachable(c) ==
    /\ call[c].at \in {"asked", "askedAgain"}
    /\ call' = [call EXCEPT ![c].at = "done", ![c].sent = 0]
    /\ UNCHANGED <<stored, session, lock, mishap, Requests>>

-----------------------------------------------------------------------------
\* One request of an account, whichever of the provider's operations it is.
CallNext(c) ==
    Load(c) \/ Attach(c) \/ Close(c) \/ AccessToken(c) \/ AfterUnauthorized(c)
      \/ Renew(c) \/ RenewLost(c) \/ RenewFails(c) \/ Verify(c) \/ FetchKeys(c)
      \/ Unreachable(c)

SessionNext ==
    \/ NewGrant \/ RotateKeys \/ HalfMinutePasses \/ Crash
    \/ \E n \in 1 .. MaxTokens : Ages(n)
    \/ \E c \in Call : CallNext(c)

SessionSpec == SessionInit /\ [][SessionNext]_sessionVars

-----------------------------------------------------------------------------
\* Whatever requests run at once, the identity provider is never shown a
\* refresh token it has already replaced, and so never ends the sign-in, unless
\* an answer of its was lost, the keychain refused the new credential, or a
\* credential loaded before a rotation became the session after it.
RefusedForCause == refused => mishap

AccessTokens == [key : Nat, age : {"fresh", "due", "dead"}]
Credentials == [kind : {"none", "oauth", "pat", "shared"}, access : Nat, refresh : Nat \X Nat]

\* Credential c has no refresh token, or the one its grant accepts.
Current(c) ==
    \/ c.refresh = NoRefresh
    \/ c.refresh[1] \in DOMAIN newest /\ c.refresh[2] = newest[c.refresh[1]]

\* Why a refusal has a cause: without a mishap, session and keychain are both
\* current, so that whichever becomes the session next shows an accepted token.
SessionInv ==
    /\ mishap \in BOOLEAN /\ refused \in BOOLEAN
    /\ ~mishap => /\ ~refused
                  /\ newest \in Seq(Nat)
                  /\ token \in Seq(AccessTokens) /\ keys \in Nat
                  /\ stored \in Credentials /\ Current(stored)
                  /\ session \in Credentials /\ Current(session)
=============================================================================
