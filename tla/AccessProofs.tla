---------------------------- MODULE AccessProofs ----------------------------
(***************************************************************************)
(* Proofs about access to providers: destinations stay set up, the identity *)
(* provider refuses a refresh token for a cause only, and an installed     *)
(* client can talk to every server; for any providers, folders, flows,     *)
(* requests, tokens, servers and authorities.                              *)
(***************************************************************************)
EXTENDS SignIn, Session, Authority, TLAPS


-----------------------------------------------------------------------------
\* Setting up destinations.

PrefsType == [connected : SUBSET Provider, primary : Provider \cup {None},
              folders : SUBSET Folder, complete : BOOLEAN]

\* What connect_provider does to well-formed preferences.
LEMMA ConnectType ==
    ASSUME NEW p \in PrefsType, NEW h \in Provider
    PROVE  /\ Connect(p, h) \in PrefsType
           /\ Connect(p, h).connected = p.connected \cup {h}
           /\ Connect(p, h).folders = p.folders
           /\ Connect(p, h).primary = IF p.primary = None THEN h ELSE p.primary
BY DEF Connect, PrefsType

\* Marking a listed provider as connected, in the list and in the preferences.
LEMMA MarkKeeps ==
    ASSUME SignInInv, NEW h \in listed, MarkConnected(h), listed' = listed
    PROVE  prefs' \in PrefsType /\ SetUpStays'
<1>1. prefs \in PrefsType /\ h \in Provider
  BY DEF SignInInv, PrefsType
<1>2. /\ prefs' \in PrefsType
      /\ prefs'.connected = prefs.connected \cup {h}
      /\ prefs'.folders = prefs.folders
      /\ prefs'.primary = IF prefs.primary = None THEN h ELSE prefs.primary
  BY <1>1, ConnectType DEF MarkConnected
<1>3. shown' = shown \cup {h}
  BY DEF MarkConnected
<1>4. shown' = listed' \cap prefs'.connected
  BY <1>2, <1>3 DEF SignInInv, SetUpStays
<1>5. h # None
  BY <1>1, NameAssumption DEF Provider
<1> QED BY <1>2, <1>4, <1>5 DEF SignInInv, SetUpStays

\* A fresh installation.
LEMMA SignInStart == SignInInit => SignInInv
<1> SUFFICES ASSUME SignInInit PROVE SignInInv
  OBVIOUS
<1>1. prefs = DefaultPrefs /\ listed \in SUBSET Hosted /\ shown = {}
      /\ catalog = FirstCatalog(listed) /\ overlay = "none"
  BY DEF SignInInit
<1>2. catalog \in {"loading", "unreachable"} => listed = {}
  BY <1>1 DEF FirstCatalog
<1> QED BY <1>1, <1>2, NameAssumption
        DEF SignInInv, SetUpStays, DefaultPrefs, Dialog, Provider

\* One step of the application, of a flow or of the person.
LEMMA SignInStep == SignInInv /\ [SignInNext]_signInVars => SignInInv'
<1> SUFFICES ASSUME SignInInv, [SignInNext]_signInVars PROVE SignInInv'
  OBVIOUS
<1> USE DEF PrefsType
<1>1. CASE Relaunch
  <2>0. DefaultPrefs \in PrefsType
    BY DEF DefaultPrefs
  <2>1. PICK file \in SUBSET Hosted :
          /\ listed' = FirstList(prefs', file)
          /\ shown' = FirstList(prefs', file) \cap prefs'.connected
          /\ catalog' = FirstCatalog(file)
    BY <1>1 DEF Relaunch
  <2>2. prefs' \in {prefs, DefaultPrefs} /\ overlay' = "none"
    BY <1>1 DEF Relaunch
  <2>3. prefs' \in PrefsType
    BY <2>0, <2>2 DEF SignInInv
  <2>4. /\ prefs'.primary # None => prefs'.primary \in prefs'.connected
        /\ prefs'.connected # {} => prefs'.primary # None
    BY <2>2 DEF SignInInv, SetUpStays, DefaultPrefs
  <2>5. catalog' \in {"loading", "unreachable"} => listed' = prefs'.folders
    BY <2>1 DEF FirstCatalog, FirstList
  <2>6. listed' \subseteq Provider /\ prefs'.folders \subseteq listed'
    BY <2>1, <2>3 DEF FirstList, Provider
  <2> QED BY <2>1, <2>2, <2>3, <2>4, <2>5, <2>6, NameAssumption
          DEF SignInInv, SetUpStays, Dialog
<1>2. CASE CatalogArrives
  <2>1. PICK published \in SUBSET Hosted : ReplaceList(published)
    BY <1>2 DEF CatalogArrives
  <2>2. listed \subseteq Folder /\ UNCHANGED <<prefs, overlay>>
    BY <1>2 DEF CatalogArrives, SignInInv
  <2>3. /\ listed' = published \cup listed
        /\ shown' = (published \cap (prefs.connected \cup shown)) \cup shown
        /\ catalog' = "live"
    BY <2>1, <2>2 DEF ReplaceList, SignInInv, SetUpStays
  <2>4. shown' = listed' \cap prefs.connected
    BY <2>3 DEF SignInInv, SetUpStays
  <2> QED BY <2>2, <2>3, <2>4 DEF SignInInv, SetUpStays, Dialog, Provider
<1>3. CASE CatalogFails
  BY <1>3 DEF CatalogFails, SignInInv, SetUpStays, Dialog
<1>4. ASSUME NEW d \in Folder, AddFolder(d) PROVE SignInInv'
  <2> DEFINE p == [prefs EXCEPT !.folders = @ \cup {d}]
  <2>1. /\ p \in PrefsType /\ p.connected = prefs.connected /\ p.primary = prefs.primary
        /\ p.folders = prefs.folders \cup {d} /\ d \in Provider
    BY DEF SignInInv, Provider
  <2>2. prefs' = Connect(p, d) /\ listed' = listed \cup {d} /\ shown' = shown \cup {d}
        /\ UNCHANGED <<catalog, overlay>>
    BY <1>4 DEF AddFolder
  <2> HIDE DEF p
  <2>3. /\ prefs' \in PrefsType
        /\ prefs'.connected = prefs.connected \cup {d}
        /\ prefs'.folders = prefs.folders \cup {d}
        /\ prefs'.primary = IF prefs.primary = None THEN d ELSE prefs.primary
    BY <2>1, <2>2, ConnectType
  <2>4. shown' = listed' \cap prefs'.connected
    BY <2>2, <2>3 DEF SignInInv, SetUpStays
  <2>5. d # None
    BY NameAssumption
  <2>6. SetUpStays'
    BY <2>2, <2>3, <2>4, <2>5 DEF SignInInv, SetUpStays
  <2> QED BY <2>1, <2>2, <2>3, <2>6 DEF SignInInv, Dialog
<1>5. CASE CloseOverlay
  BY <1>5, NameAssumption DEF CloseOverlay, SignInInv, SetUpStays, Dialog
<1>6. CASE Finish
  <2>1. overlay \in listed /\ MarkConnected(overlay) /\ overlay' = "none"
        /\ UNCHANGED <<listed, catalog>>
    BY <1>6 DEF Finish, SignInInv
  <2>2. prefs' \in PrefsType /\ SetUpStays'
    BY <2>1, MarkKeeps
  <2> QED BY <2>1, <2>2, NameAssumption DEF SignInInv, Dialog
<1>7. ASSUME NEW h \in Hosted, SelectProvider(h) PROVE SignInInv'
  <2>1. h \in listed /\ UNCHANGED <<listed, catalog>>
    BY <1>7 DEF SelectProvider
  <2>2. CASE Method[h] # "none"
    <3>1. overlay' = h /\ UNCHANGED <<prefs, shown>>
      BY <1>7, <2>2 DEF SelectProvider
    <3> QED BY <2>1, <3>1 DEF SignInInv, SetUpStays, Dialog
  <2>3. CASE ~(Method[h] # "none")
    <3>1. overlay' = "none" /\ MarkConnected(h)
      BY <1>7, <2>3 DEF SelectProvider
    <3>2. prefs' \in PrefsType /\ SetUpStays'
      BY <2>1, <3>1, MarkKeeps
    <3> QED BY <2>1, <3>1, <3>2, NameAssumption DEF SignInInv, Dialog
  <2> QED BY <2>2, <2>3
<1>8. CASE Onboard
  <2>1. UNCHANGED <<listed, shown, catalog, overlay>>
    BY <1>8 DEF Onboard
  <2>2. prefs' = prefs \/ prefs' = [prefs EXCEPT !.complete = TRUE]
    BY <1>8 DEF Onboard, AdvanceOnboarding, PreviousOnboarding
  <2>3. /\ prefs' \in PrefsType /\ prefs'.connected = prefs.connected
        /\ prefs'.primary = prefs.primary /\ prefs'.folders = prefs.folders
    BY <2>2 DEF SignInInv
  <2> QED BY <2>1, <2>3 DEF SignInInv, SetUpStays, Dialog
<1>9. CASE CancelSignIn
  BY <1>9, NameAssumption DEF CancelSignIn, SignInInv, SetUpStays, Dialog
<1>10. CASE UNCHANGED <<prefs, listed, shown, catalog, overlay>>
  BY <1>10 DEF SignInInv, SetUpStays, Dialog
<1>11. ASSUME NEW f \in Flow, FlowNext(f) \/ BeginFlow(f)
       PROVE  UNCHANGED <<prefs, listed, shown, catalog, overlay>>
  BY <1>11 DEF FlowNext, BeginFlow, Probe, Discover, RequestCode, Callback, Exchange, Poll,
               Expire, Receive, FlowRest
<1>12. ASSUME BeginWithToken \/ TryAgain \/ UNCHANGED signInVars
       PROVE  UNCHANGED <<prefs, listed, shown, catalog, overlay>>
  BY <1>12 DEF BeginWithToken, TryAgain, signInVars
<1> QED
  BY <1>1, <1>2, <1>3, <1>4, <1>5, <1>6, <1>7, <1>8, <1>9, <1>10, <1>11, <1>12
  DEF SignInNext, DialogNext

-----------------------------------------------------------------------------
\* The inductive invariant of the destinations.
THEOREM SignInInvariant == SignInSpec => []SignInInv
BY SignInStart, SignInStep, PTL DEF SignInSpec

\* Folders stay listed and connected destinations are shown as connected,
\* whenever the catalogue, the folder chooser and a sign-in arrive.
THEOREM DestinationsStay == SignInSpec => []SetUpStays
<1>1. SignInInv => SetUpStays
  BY DEF SignInInv
<1> QED BY <1>1, SignInInvariant, PTL

-----------------------------------------------------------------------------
\* The requests of an account.

\* What a step may do that touches neither credentials nor grants.
LEMMA Untouched ==
    ASSUME SessionInv, UNCHANGED <<stored, session, newest, refused>>,
           mishap' \in BOOLEAN, mishap => mishap',
           ~mishap => token' \in Seq(AccessTokens) /\ keys' \in Nat
    PROVE  SessionInv'
BY DEF SessionInv, Current

\* A sign-in: a new grant, whose first refresh token it accepts.
LEMMA NewGrantKeeps ==
    ASSUME SessionInv, NewGrant
    PROVE  SessionInv'
<1> SUFFICES ASSUME ~mishap PROVE SessionInv'
  BY DEF SessionInv, NewGrant
<1>1. newest' = Append(newest, 1) /\ newest \in Seq(Nat)
      /\ UNCHANGED <<session, refused, mishap, keys>>
      /\ token' = Append(token, [key |-> keys, age |-> "fresh"])
  BY DEF SessionInv, NewGrant, Issue
<1>2. /\ newest' \in Seq(Nat) /\ DOMAIN newest' = 1 .. Len(newest) + 1
      /\ \A g \in DOMAIN newest : g \in DOMAIN newest' /\ newest'[g] = newest[g]
      /\ newest'[Len(newest) + 1] = 1
  BY <1>1
<1>3. Current(session)'
  BY <1>1, <1>2 DEF SessionInv, Current
<1>4. stored' \in Credentials /\ Current(stored)'
  <2>1. NextToken \in Nat /\ Len(newest) \in Nat
    BY <1>1 DEF NextToken, SessionInv
  <2>2. PICK c \in {[kind |-> "oauth", access |-> NextToken, refresh |-> <<Len(newest) + 1, 1>>],
                    [kind |-> "oauth", access |-> NextToken, refresh |-> NoRefresh],
                    [kind |-> "pat", access |-> NextToken, refresh |-> NoRefresh]} : stored' = c
    BY DEF NewGrant
  <2>3. c \in Credentials
    BY <2>1, <2>2 DEF Credentials, NoRefresh
  <2>4. c.refresh = NoRefresh \/ c.refresh = <<Len(newest) + 1, 1>>
    BY <2>2
  <2> QED BY <1>2, <2>1, <2>2, <2>3, <2>4 DEF Current
<1>5. token' \in Seq(AccessTokens)
  <2>1. [key |-> keys, age |-> "fresh"] \in AccessTokens
    BY DEF SessionInv, AccessTokens
  <2> QED BY <1>1, <2>1 DEF SessionInv
<1> QED BY <1>1, <1>2, <1>3, <1>4, <1>5 DEF SessionInv

\* A live session is shared, and a credential read earlier becomes the session
\* without a mishap only if the keychain still has it.
LEMMA AttachKeeps ==
    ASSUME SessionInv, NEW c \in Call, Attach(c)
    PROVE  SessionInv'
<1>1. session' = session \/ session' = stored \/ mishap'
  BY DEF Attach, SessionInv
<1>2. UNCHANGED <<stored, newest, refused, token, keys>> /\ mishap' \in BOOLEAN /\ (mishap => mishap')
  BY DEF Attach, Requests, SessionInv
<1> QED BY <1>1, <1>2 DEF SessionInv, Current

\* An account that goes, or all of them in a crash, may take the session along.
LEMMA CloseKeeps ==
    ASSUME SessionInv, (\E c \in Call : Close(c)) \/ Crash
    PROVE  SessionInv'
<1>1. session' \in {session, NoCredential}
      /\ UNCHANGED <<stored, newest, refused, token, keys, mishap>>
  BY DEF Close, Crash, Requests
<1>2. NoCredential \in Credentials /\ NoCredential.refresh = NoRefresh
  BY DEF NoCredential, NoRefresh, Credentials
<1> QED BY <1>1, <1>2 DEF SessionInv, Current

\* A rotation replaces the token of the session's grant; session and keychain
\* both have the new one, or a mishap is noted.
LEMMA RenewKeeps ==
    ASSUME SessionInv, NEW c \in Call, Renew(c)
    PROVE  SessionInv'
<1>a. mishap' = mishap \/ mishap' = TRUE
  BY Zenon DEF Renew
<1>b. mishap' \in BOOLEAN /\ refused' \in BOOLEAN /\ (mishap => mishap')
  <2>1. refused' \in BOOLEAN
    BY DEF SessionInv, Renew
  <2>2. mishap \in BOOLEAN
    BY DEF SessionInv
  <2>3. CASE mishap' = mishap
    BY <2>1, <2>2, <2>3
  <2>4. CASE mishap' = TRUE
    BY <2>1, <2>4
  <2> QED BY <1>a, <2>3, <2>4
<1>c. mishap' => SessionInv'
  BY <1>b DEF SessionInv
<1> SUFFICES ASSUME ~mishap' PROVE SessionInv'
  BY <1>c
<1>d. ~mishap
  BY <1>b
<1>1. /\ stored' = session' /\ UNCHANGED <<refused, keys, mishap>>
      /\ session' = [session EXCEPT !.access = NextToken, !.refresh = <<Grant, newest'[Grant]>>]
      /\ token' = Append(token, [key |-> keys, age |-> "fresh"])
      /\ session.refresh # NoRefresh
  BY <1>a DEF Renew, Grants, Accepts, Issue
<1>2. /\ session \in Credentials /\ newest \in Seq(Nat) /\ Grant \in DOMAIN newest
      /\ Grant \in Nat
  BY <1>1, <1>d DEF SessionInv, Current, Grant
<1>3. PICK next \in {newest[Grant], newest[Grant] + 1} : newest' = [newest EXCEPT ![Grant] = next]
  BY DEF Renew, Grants
<1>4. newest' \in Seq(Nat) /\ Grant \in DOMAIN newest' /\ newest'[Grant] \in Nat
  BY <1>2, <1>3
<1>5. NextToken \in Nat /\ token' \in Seq(AccessTokens)
  <2>1. [key |-> keys, age |-> "fresh"] \in AccessTokens
    BY <1>d DEF SessionInv, AccessTokens
  <2> QED BY <1>1, <1>d, <2>1 DEF SessionInv, NextToken
<1>6. session' \in Credentials /\ session'.refresh = <<Grant, newest'[Grant]>>
  BY <1>1, <1>2, <1>4, <1>5 DEF Credentials
<1>7. Current(session)'
  BY <1>4, <1>6 DEF Current
<1> QED BY <1>1, <1>4, <1>5, <1>6, <1>7, <1>b, <1>d DEF SessionInv, Current

\* A refresh that fails: a refusal would need a token that is not current.
LEMMA RenewFailsKeeps ==
    ASSUME SessionInv, NEW c \in Call, RenewFails(c)
    PROVE  SessionInv'
<1> SUFFICES ASSUME ~mishap PROVE SessionInv'
  BY DEF SessionInv, RenewFails
<1>1. session.refresh # NoRefresh => Accepts
  BY DEF SessionInv, Current, Accepts, Grant
<1>2. (session.refresh # NoRefresh /\ ~Accepts) = FALSE
  BY <1>1
<1>3. refused' = refused
  BY <1>2 DEF RenewFails, SessionInv
<1>4. UNCHANGED <<stored, session, newest, token, keys, mishap>>
  BY DEF RenewFails
<1> QED BY <1>3, <1>4, Untouched DEF SessionInv

\* A token grows old.
LEMMA AgesKeeps ==
    ASSUME SessionInv, NEW n \in 1 .. MaxTokens, Ages(n)
    PROVE  SessionInv'
<1>1. UNCHANGED <<stored, session, newest, refused, keys, mishap>>
  BY DEF Ages
<1>2. ASSUME ~mishap
      PROVE  token' \in Seq(AccessTokens) /\ keys' \in Nat
  <2>1. token \in Seq(AccessTokens) /\ keys \in Nat
    BY <1>2 DEF SessionInv
  <2>2. PICK age \in {"due", "dead"} : token' = [token EXCEPT ![n].age = age]
    BY DEF Ages
  <2>3. n \in DOMAIN token
    BY DEF Ages
  <2> DEFINE t == token[n]
  <2>4. t \in AccessTokens
    BY <2>1, <2>3
  <2>5. [t EXCEPT !.age = age] \in AccessTokens
    <3> HIDE DEF t
    <3> QED BY <2>2, <2>4 DEF AccessTokens
  <2> QED BY <1>1, <2>1, <2>2, <2>3, <2>5
<1> QED BY <1>1, <1>2, Untouched DEF SessionInv

\* SessionInv holds in every state, whatever requests run at once.
THEOREM SessionInvariant == SessionSpec => []SessionInv
<1>1. SessionInit => SessionInv
  <2> SUFFICES ASSUME SessionInit PROVE SessionInv
    OBVIOUS
  <2>1. NoCredential \in Credentials /\ Current(NoCredential)
    BY DEF NoCredential, NoRefresh, Credentials, Current
  <2>2. <<>> \in Seq(Nat) /\ <<>> \in Seq(AccessTokens)
    OBVIOUS
  <2> QED BY <2>1, <2>2 DEF SessionInit, SessionInv
<1>2. SessionInv /\ [SessionNext]_sessionVars => SessionInv'
  <2> SUFFICES ASSUME SessionInv, [SessionNext]_sessionVars PROVE SessionInv'
    OBVIOUS
  <2>1. CASE NewGrant
    BY <2>1, NewGrantKeeps
  <2>2. CASE RotateKeys \/ HalfMinutePasses
    BY <2>2, Untouched DEF RotateKeys, HalfMinutePasses, SessionInv
  <2>3. CASE Crash
    BY <2>3, CloseKeeps
  <2>4. ASSUME NEW n \in 1 .. MaxTokens, Ages(n) PROVE SessionInv'
    BY <2>4, AgesKeeps
  <2>5. ASSUME NEW c \in Call, CallNext(c) PROVE SessionInv'
    <3>1. CASE Attach(c)
      BY <3>1, AttachKeeps
    <3>2. CASE Close(c)
      BY <3>2, CloseKeeps
    <3>3. CASE Renew(c)
      BY <3>3, RenewKeeps
    <3>4. CASE RenewLost(c)
      BY <3>4 DEF RenewLost, SessionInv
    <3>5. CASE RenewFails(c)
      BY <3>5, RenewFailsKeeps
    <3>6. CASE Load(c) \/ AccessToken(c) \/ AfterUnauthorized(c) \/ Verify(c) \/ FetchKeys(c)
               \/ Unreachable(c)
      BY <3>6, Untouched DEF Load, AccessToken, AfterUnauthorized, Verify, FetchKeys,
         Unreachable, Requests, SessionInv
    <3> QED BY <2>5, <3>1, <3>2, <3>3, <3>4, <3>5, <3>6 DEF CallNext
  <2>6. CASE UNCHANGED sessionVars
    BY <2>6, Untouched DEF sessionVars, SessionInv
  <2> QED BY <2>1, <2>2, <2>3, <2>4, <2>5, <2>6 DEF SessionNext
<1> QED BY <1>1, <1>2, PTL DEF SessionSpec

\* Whatever requests run at once, a refresh token is refused only after a
\* rotation missed the keychain or its answer, or a session began from a
\* credential that had been replaced.
THEOREM RefusalsHaveCause == SessionSpec => []RefusedForCause
<1>1. SessionInv => RefusedForCause
  BY DEF SessionInv, RefusedForCause
<1> QED BY <1>1, SessionInvariant, PTL

-----------------------------------------------------------------------------
\* The development authority of servers.

Steps == {"down", "read", "mint", "cert", "certified", "key", "found", "up"}
Record == [at : Steps, cert : 0 .. Torn, key : 0 .. Torn]

\* The three kinds of number differ.
LEMMA Numbers ==
    /\ Absent = 0 /\ Torn \in Nat /\ Torn # Absent
    /\ \A n \in 0 .. MaxMint : n # Torn /\ n \in 0 .. Torn
    /\ Absent \in 0 .. Torn /\ Torn \in 0 .. Torn
    /\ Down \in Record
BY MintAssumption DEF Absent, Torn, Down, Record, Steps

\* A step of one server leaves the others alone.
LEMMA Moved ==
    ASSUME AuthorityTypeOK, NEW s \in Server, NEW r \in Record, Moves(s, r)
    PROVE  /\ server' \in [Server -> Record]
           /\ server'[s] = r
           /\ \A t \in Server : t # s => server'[t] = server[t]
BY DEF AuthorityTypeOK, Moves, Record, Steps

\* Before the first start there is no authority.
LEMMA AuthorityStart == AuthorityInit => AuthorityInv
<1> SUFFICES ASSUME AuthorityInit PROVE AuthorityInv
  OBVIOUS
<1>1. \A s \in Server : server[s] = Down
  BY DEF AuthorityInit
<1>2. server \in [Server -> Record]
  BY Numbers DEF AuthorityInit
<1>3. AuthorityTypeOK
  <2>1. {certFile, keyFile, anchor} \subseteq 0 .. Torn /\ anchor # Torn
    BY Numbers DEF AuthorityInit
  <2>2. minted \in 0 .. MaxMint
    BY MintAssumption DEF AuthorityInit
  <2>3. removed \in BOOLEAN /\ overlapped \in BOOLEAN
    BY DEF AuthorityInit
  <2> QED BY <1>2, <2>1, <2>2, <2>3 DEF AuthorityTypeOK, Record, Steps
<1>4. OneAuthority
  BY <1>1 DEF AuthorityInit, OneAuthority, Consistent, Minting, Down
<1> QED BY <1>3, <1>4 DEF AuthorityInv

\* A step of one server that changes no file and mints nothing, to a place
\* where it is consistent and is not minting.
LEMMA Reads ==
    ASSUME AuthorityInv, NEW s \in Server, NEW r \in Record, Moves(s, r),
           r.at \in {"down", "read", "found", "up"},
           UNCHANGED <<certFile, keyFile, minted, anchor, removed, overlapped>>,
           ~removed /\ ~overlapped => Consistent(r),
           certFile = Absent /\ keyFile = Absent /\ ~removed /\ ~overlapped =>
               r.at \in {"down", "read"} /\ r.cert = Absent
    PROVE  AuthorityInv'
<1>1. /\ server' \in [Server -> Record] /\ server'[s] = r
      /\ \A t \in Server : t # s => server'[t] = server[t]
  BY Moved DEF AuthorityInv
<1>2. AuthorityTypeOK'
  BY <1>1 DEF AuthorityInv, AuthorityTypeOK, Record, Steps
<1>3. ASSUME ~removed', ~overlapped' PROVE OneAuthority'
  <2>1. OneAuthority /\ Consistent(r)
    BY <1>3 DEF AuthorityInv
  <2>2. \A t \in Server : Consistent(server[t])'
    BY <1>1, <2>1 DEF OneAuthority, Consistent
  <2>3. Minting' \subseteq Minting
    BY <1>1 DEF Minting
  <2>4. \A t \in Server : server'[t].at = "mint" => server[t].at = "mint"
    BY <1>1
  <2>5. certFile' = Absent /\ keyFile' = Absent =>
          \A t \in Server : /\ server'[t].at \in {"down", "read", "mint"}
                            /\ server'[t].at = "read" => server'[t].cert = Absent
    BY <1>1, <1>3, <2>1 DEF OneAuthority
  <2> QED BY <1>3, <2>1, <2>2, <2>3, <2>4, <2>5 DEF OneAuthority
<1> QED BY <1>2, <1>3 DEF AuthorityInv

\* Reading the certificate.
LEMMA ReadCertificateKeeps ==
    ASSUME AuthorityInv, NEW s \in Server, ReadCertificate(s)
    PROVE  AuthorityInv'
<1> DEFINE r == [at |-> "read", cert |-> certFile, key |-> Absent]
<1>2. r \in Record /\ Moves(s, r)
  BY Numbers DEF ReadCertificate, AuthorityInv, AuthorityTypeOK, Record, Steps
<1>3. ~removed /\ ~overlapped => Consistent(r)
  BY DEF AuthorityInv, OneAuthority, Consistent
<1>4. r.at = "read" /\ (certFile = Absent => r.cert = Absent)
  OBVIOUS
<1> HIDE DEF r
<1> QED BY <1>2, <1>3, <1>4, Reads DEF ReadCertificate

\* Reading the key: the start goes on, mints, or refuses half a pair.
LEMMA ReadKeyKeeps ==
    ASSUME AuthorityInv, NEW s \in Server, ReadKey(s)
    PROVE  AuthorityInv'
<1> DEFINE at == Found(server[s].cert, keyFile)
<1>0. server[s] \in Record /\ server[s].at = "read"
  BY DEF ReadKey, AuthorityInv, AuthorityTypeOK, Record, Steps
<1>1. at \in {"found", "mint", "down"}
  BY DEF Found
<1>2. CASE at = "found"
  <2> DEFINE r == [at |-> "found", cert |-> server[s].cert, key |-> keyFile]
  <2>2. server[s].cert # Absent /\ keyFile # Absent
    BY <1>2 DEF Found
  <2>3. Moves(s, r) /\ UNCHANGED <<certFile, keyFile, minted, anchor, removed>>
        /\ overlapped' = (overlapped \/ FALSE)
    BY <1>2 DEF ReadKey
  <2>4. r \in Record
    BY <1>0 DEF AuthorityInv, AuthorityTypeOK, Record, Steps
  <2>5. ~removed /\ ~overlapped => Consistent(r)
    BY <2>2 DEF AuthorityInv, OneAuthority, Consistent
  <2>6. r.at = "found"
    OBVIOUS
  <2> HIDE DEF r
  <2>7. UNCHANGED overlapped
    BY <2>3 DEF AuthorityInv, AuthorityTypeOK
  <2> QED BY <2>2, <2>3, <2>4, <2>5, <2>6, <2>7, Reads
<1>3. CASE at = "down"
  <2>1. Moves(s, Down) /\ UNCHANGED <<certFile, keyFile, minted, anchor, removed>>
        /\ overlapped' = (overlapped \/ FALSE)
    BY <1>3 DEF ReadKey
  <2>2. Consistent(Down) /\ Down.at = "down" /\ Down.cert = Absent
    BY DEF Consistent, Down
  <2>3. UNCHANGED overlapped
    BY <2>1 DEF AuthorityInv, AuthorityTypeOK
  <2> QED BY <2>1, <2>2, <2>3, Numbers, Reads
<1>4. CASE at = "mint"
  <2> DEFINE n == minted + 1
             r == [at |-> "mint", cert |-> n, key |-> n]
  <2>1. /\ minted < MaxMint /\ Moves(s, r) /\ minted' = n
        /\ UNCHANGED <<certFile, keyFile, anchor, removed>>
        /\ overlapped' = (overlapped \/ Minting # {} \/ certFile # server[s].cert)
    BY <1>4 DEF ReadKey
  <2>2. n \in 1 .. MaxMint /\ r \in Record /\ n # Absent
    BY <2>1, Numbers, MintAssumption DEF AuthorityInv, AuthorityTypeOK, Record, Steps, Absent, Torn
  <2>3. /\ server' \in [Server -> Record] /\ server'[s] = r
        /\ \A t \in Server : t # s => server'[t] = server[t]
    BY <2>1, <2>2, Moved DEF AuthorityInv
  <2>4. AuthorityTypeOK'
    BY <2>1, <2>2, <2>3 DEF AuthorityInv, AuthorityTypeOK, Record, Steps
  <2>5. ASSUME ~removed', ~overlapped' PROVE OneAuthority'
    <3>1. OneAuthority /\ Minting = {} /\ certFile = Absent /\ keyFile = Absent
      BY <1>4, <2>1, <2>5 DEF AuthorityInv, Found
    <3>2. /\ anchor = Absent
          /\ \A t \in Server : /\ server[t].at \in {"down", "read"}
                               /\ server[t].at = "read" => server[t].cert = Absent
                               /\ server[t].key = Absent
                               /\ server[t].at = "down" => server[t] = Down
      BY <3>1 DEF OneAuthority, Minting, Consistent, Down
    <3>3. \A t \in Server : t # s => Consistent(server[t])'
      BY <2>3, <3>2 DEF Consistent, Down
    <3>4. Consistent(server[s])'
      BY <2>1, <2>2, <2>3 DEF Consistent
    <3>5. Minting' \subseteq {s}
      BY <2>3, <3>2 DEF Minting
    <3>6. \A t \in Server : /\ server'[t].at \in {"down", "read", "mint"}
                            /\ server'[t].at = "read" => server'[t].cert = Absent
      BY <2>3, <3>2
    <3> QED BY <2>1, <3>1, <3>2, <3>3, <3>4, <3>5, <3>6 DEF OneAuthority
  <2> QED BY <2>4, <2>5 DEF AuthorityInv
<1> QED BY <1>1, <1>2, <1>3, <1>4

\* Writing the two files, each in place.
LEMMA WriteKeeps ==
    ASSUME AuthorityInv, NEW s \in Server, WriteAuthority(s)
    PROVE  AuthorityInv'
<1>0. /\ server[s] \in Record /\ s \in Minting
      /\ UNCHANGED <<minted, anchor, removed, overlapped>>
  BY DEF WriteAuthority, AuthorityInv, AuthorityTypeOK, Record, Steps, Minting
<1>1. PICK next \in {"cert", "certified", "key", "found"} :
        /\ Moves(s, [server[s] EXCEPT !.at = next])
        /\ \/ next = "cert" /\ certFile' = Torn /\ UNCHANGED keyFile
           \/ next = "certified" /\ certFile' = server[s].cert /\ UNCHANGED keyFile
           \/ next = "key" /\ keyFile' = Torn /\ UNCHANGED certFile
           \/ next = "found" /\ keyFile' = server[s].key /\ UNCHANGED certFile
  BY DEF WriteAuthority
<1> DEFINE r == [server[s] EXCEPT !.at = next]
<1>2. r = [at |-> next, cert |-> server[s].cert, key |-> server[s].key] /\ r \in Record
  BY <1>0 DEF Record, Steps
<1> HIDE DEF r
<1>3. /\ server' \in [Server -> Record] /\ server'[s] = r
      /\ \A t \in Server : t # s => server'[t] = server[t]
  BY <1>1, <1>2, Moved DEF AuthorityInv, r
<1>4. certFile' \in 0 .. Torn /\ keyFile' \in 0 .. Torn
  BY <1>0, <1>1, Numbers DEF AuthorityInv, AuthorityTypeOK, Record
<1>5. AuthorityTypeOK'
  BY <1>0, <1>3, <1>4 DEF AuthorityInv, AuthorityTypeOK, Record, Steps
<1>6. ASSUME ~removed', ~overlapped' PROVE OneAuthority'
  <2>1. OneAuthority
    BY <1>0, <1>6 DEF AuthorityInv
  <2>2. server[s].cert = minted /\ server[s].key = minted /\ minted # Absent
    BY <1>0, <2>1 DEF OneAuthority, Consistent, Minting
  <2>3. certFile' \in {Absent, Torn, minted} /\ keyFile' \in {Absent, Torn, minted}
    BY <1>1, <2>1, <2>2 DEF OneAuthority
  <2>4. Consistent(server[s])'
    BY <1>0, <1>2, <1>3, <2>2 DEF Consistent
  <2>5. \A t \in Server : t # s => Consistent(server[t])'
    BY <1>0, <1>3, <2>1 DEF OneAuthority, Consistent
  <2>6. Minting' \subseteq Minting
    BY <1>0, <1>3 DEF Minting
  <2>7. \A t \in Server : server'[t].at # "mint"
    BY <1>0, <1>2, <1>3, <2>1 DEF OneAuthority, Minting
  <2>8. ~(certFile' = Absent /\ keyFile' = Absent)
    <3>1. CASE next \in {"cert", "certified", "key"}
      BY <1>1, <2>2, <3>1, Numbers
    <3>2. CASE next = "found"
      BY <1>1, <2>2, <3>2
    <3> QED BY <3>1, <3>2
  <2> QED BY <1>0, <2>1, <2>3, <2>4, <2>5, <2>6, <2>7, <2>8 DEF OneAuthority
<1> QED BY <1>5, <1>6 DEF AuthorityInv

\* Serving, or giving up.
LEMMA ServeKeeps ==
    ASSUME AuthorityInv, NEW s \in Server, Serve(s) \/ Stop(s)
    PROVE  AuthorityInv'
<1>0. server[s] \in Record /\ UNCHANGED <<certFile, keyFile, minted, anchor, removed, overlapped>>
  BY DEF Serve, Stop, AuthorityInv, AuthorityTypeOK, Record, Steps
<1> DEFINE r == [server[s] EXCEPT !.at = "up"]
<1>1. r = [at |-> "up", cert |-> server[s].cert, key |-> server[s].key] /\ r \in Record
  BY <1>0 DEF Record, Steps
<1>2. \/ Moves(s, Down)
      \/ Moves(s, r) /\ server[s].at = "found" /\ server[s].key # Torn
  BY DEF Serve, Stop, Started
<1> HIDE DEF r
<1>3. CASE Moves(s, Down)
  <2>1. Consistent(Down) /\ Down.at = "down" /\ Down.cert = Absent
    BY DEF Consistent, Down
  <2> QED BY <1>0, <1>3, <2>1, Numbers, Reads
<1>4. CASE Moves(s, r) /\ server[s].at = "found" /\ server[s].key # Torn
  <2>1. ~removed /\ ~overlapped => Consistent(r) /\ ~(certFile = Absent /\ keyFile = Absent)
    BY <1>1, <1>4 DEF AuthorityInv, OneAuthority, Consistent
  <2> QED BY <1>0, <1>1, <1>4, <2>1, Reads
<1> QED BY <1>2, <1>3, <1>4

\* The client, and the loss of files.
LEMMA FilesKeep ==
    ASSUME AuthorityInv, BuildClient \/ LoseFile \/ DeleteRest
    PROVE  AuthorityInv'
<1>1. CASE BuildClient
  <2>1. certFile # Absent /\ anchor' = certFile /\ certFile # Torn
        /\ UNCHANGED <<certFile, keyFile, server, minted, removed, overlapped>>
    BY <1>1, MintAssumption DEF BuildClient, Absent, Torn
  <2>2. AuthorityTypeOK'
    BY <2>1 DEF AuthorityInv, AuthorityTypeOK
  <2>3. OneAuthority => OneAuthority'
    BY <2>1 DEF OneAuthority, Consistent, Minting
  <2> QED BY <2>1, <2>2, <2>3 DEF AuthorityInv
<1>2. CASE LoseFile
  <2>1. /\ certFile # Absent /\ keyFile # Absent
        /\ certFile' \in {certFile, Absent} /\ keyFile' \in {keyFile, Absent}
        /\ ~(certFile' = Absent /\ keyFile' = Absent)
        /\ UNCHANGED <<server, minted, anchor, removed, overlapped>>
    BY <1>2 DEF LoseFile
  <2>2. AuthorityTypeOK'
    BY <2>1, Numbers DEF AuthorityInv, AuthorityTypeOK
  <2>3. OneAuthority => OneAuthority'
    BY <2>1 DEF OneAuthority, Consistent, Minting
  <2> QED BY <2>1, <2>2, <2>3 DEF AuthorityInv
<1>3. CASE DeleteRest
  <2>1. /\ certFile' = Absent /\ keyFile' = Absent /\ UNCHANGED <<server, minted, anchor, overlapped>>
        /\ ~removed' => ~removed /\ anchor = Absent /\ \A s \in Server : server[s] = Down
    BY <1>3 DEF DeleteRest
  <2>4. removed' \in BOOLEAN
    BY <1>3 DEF DeleteRest
  <2>2. AuthorityTypeOK'
    BY <2>1, <2>4, Numbers DEF AuthorityInv, AuthorityTypeOK
  <2>3. ASSUME ~removed', ~overlapped' PROVE OneAuthority'
    <3>1. OneAuthority
      BY <2>1, <2>3 DEF AuthorityInv
    <3>2. \A s \in Server : server'[s] = Down /\ Down.at = "down"
      BY <2>1, <2>3 DEF Down
    <3>3. Minting' = {} /\ \A s \in Server : server'[s].at = "down"
      BY <3>2 DEF Minting
    <3> QED BY <2>1, <2>3, <3>1, <3>3 DEF OneAuthority, Consistent
  <2> QED BY <2>2, <2>3 DEF AuthorityInv
<1> QED BY <1>1, <1>2, <1>3

\* One step of a server, of the person or of the file system.
LEMMA AuthorityStep == AuthorityInv /\ [AuthorityNext]_authorityVars => AuthorityInv'
<1> SUFFICES ASSUME AuthorityInv, [AuthorityNext]_authorityVars PROVE AuthorityInv'
  OBVIOUS
<1>1. CASE UNCHANGED authorityVars
  BY <1>1 DEF authorityVars, AuthorityInv, AuthorityTypeOK, OneAuthority, Consistent, Minting
<1> QED BY <1>1, ReadCertificateKeeps, ReadKeyKeeps, WriteKeeps, ServeKeeps, FilesKeep
        DEF AuthorityNext

-----------------------------------------------------------------------------
\* The inductive invariant of the authority's files.
THEOREM AuthorityInvariant == AuthoritySpec => []AuthorityInv
BY AuthorityStart, AuthorityStep, PTL DEF AuthoritySpec

\* An installed client can talk to every server that is up.
THEOREM ClientsStayConnected == AuthoritySpec => []ClientTrustsServers
<1>1. AuthorityInv => ClientTrustsServers
  BY DEF AuthorityInv, AuthorityTypeOK, OneAuthority, Consistent, ClientTrustsServers
<1> QED BY <1>1, AuthorityInvariant, PTL
=============================================================================
