------------------------------ MODULE MCAccess ------------------------------
\* Model-checking instance of access to providers.  Setting up destinations,
\* the requests of an account and the server's development authority share no
\* state but the keychain entry a sign-in writes, which Session has as an
\* action: each behaviour is about one of them, and the others rest.
EXTENDS SignIn, Session, Authority

VARIABLE topic

accessVars == <<topic, signInVars, sessionVars, authorityVars>>

SignInRests ==
    /\ prefs = DefaultPrefs /\ listed = {} /\ shown = {}
    /\ catalog = "file" /\ overlay = "none" /\ phase = "Ready"
    /\ flow = <<>> /\ step = "library" /\ launches = 0

SessionRests ==
    /\ mode = "rests" /\ stored = NoCredential /\ session = NoCredential /\ call = <<>>
    /\ lock = {} /\ newest = <<>> /\ token = <<>> /\ keys = 0 /\ cached = 0
    /\ refreshed = FALSE /\ refused = FALSE /\ mishap = FALSE

AuthorityRests ==
    /\ certFile = Absent /\ keyFile = Absent /\ server = <<>> /\ minted = 0
    /\ anchor = Absent /\ removed = FALSE /\ overlapped = FALSE

AccessInit ==
    \/ topic = "sign-in" /\ SignInInit /\ SessionRests /\ AuthorityRests
    \/ topic = "session" /\ SignInRests /\ SessionInit /\ AuthorityRests
    \/ topic = "authority" /\ SignInRests /\ SessionRests /\ AuthorityInit

\* A refused refresh token ends what a session behaviour can still show.
AccessNext ==
    \/ topic = "sign-in" /\ SignInNext /\ UNCHANGED <<topic, sessionVars, authorityVars>>
    \/ topic = "session" /\ ~refused /\ SessionNext /\ UNCHANGED <<topic, signInVars, authorityVars>>
    \/ topic = "authority" /\ AuthorityNext /\ UNCHANGED <<topic, signInVars, sessionVars>>

\* The fairness of SignIn, where the flows exist.
AccessFairness ==
    \A f \in Flow :
        /\ WF_accessVars(topic = "sign-in" /\ Probe(f) /\ UNCHANGED <<topic, sessionVars, authorityVars>>)
        /\ WF_accessVars(topic = "sign-in" /\ (Discover(f) \/ RequestCode(f))
                           /\ UNCHANGED <<topic, sessionVars, authorityVars>>)
        /\ WF_accessVars(topic = "sign-in" /\ Exchange(f) /\ UNCHANGED <<topic, sessionVars, authorityVars>>)
        /\ WF_accessVars(topic = "sign-in" /\ Expire(f) /\ UNCHANGED <<topic, sessionVars, authorityVars>>)
        /\ WF_accessVars(topic = "sign-in" /\ Receive(f) /\ UNCHANGED <<topic, sessionVars, authorityVars>>)

AccessSpec == AccessInit /\ [][AccessNext]_accessVars /\ AccessFairness

MCMethod == [h \in Hosted |-> CASE h = "code" -> "device" [] h = "browser" -> "pkce"
                                [] h = "paste" -> "pat" [] h = "open" -> "none"]
=============================================================================
