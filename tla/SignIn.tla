------------------------------- MODULE SignIn -------------------------------
\* Setting up backup destinations in the desktop application: the list of
\* providers and its late catalogue, the preferences file, first-run steps,
\* the sign-in dialog with its single phase, and the sign-in flows that run
\* behind it (apps/auru-pm-ui main.rs, catalog.rs, state.rs; auru-pm oauth.rs,
\* registry.rs, token_store.rs).
\*
\* A provider is named by its identity.  The code names the one in the dialog
\* by its position in the list; the list changes once per launch, when the
\* catalogue arrives, and before that it holds folders only, which never open
\* the dialog, so the position and the identity always agree.
EXTENDS Naturals, Sequences

CONSTANTS Hosted,       \* providers a catalogue may publish
          Folder,       \* folders a person may add as destinations
          Method,       \* Method[h]: how hosted provider h wants a sign-in
          Flow,         \* sign-in flows that may run at once
          MaxLaunches,  \* bound on starts of the application
          None

ASSUME MethodAssumption == Method \in [Hosted -> {"pat", "pkce", "device", "none"}]

ASSUME NameAssumption ==
    /\ Hosted \cap Folder = {}
    /\ None \notin Hosted \cup Folder
    /\ "none" \notin Hosted

VARIABLES prefs,     \* the preferences
          listed,    \* providers in the list
          shown,     \* those listed as Connected
          catalog,   \* "loading", "live", "unreachable" or "file"
          overlay,   \* the provider in the sign-in dialog, or "none"
          phase,     \* AuthPhase of the dialog
          flow,      \* flow[f]: [at, of, out]; out: messages not yet read
          step,      \* OnboardingStep, "library" once that route is shown
          launches

signInVars == <<prefs, listed, shown, catalog, overlay, phase,
                flow, step, launches>>

Provider == Hosted \cup Folder
NoFlow == [at |-> "idle", of |-> None, out |-> <<>>]
Dialog == overlay \in Hosted

DefaultPrefs == [connected |-> {}, primary |-> None, folders |-> {}, complete |-> FALSE]

-----------------------------------------------------------------------------
\* Preferences.

\* AppState::connect_provider: the first provider connected is the primary.
Connect(p, h) ==
    [p EXCEPT !.connected = @ \cup {h},
              !.primary = IF @ = None THEN h ELSE @]

\* What a launch shows of preferences p: folders, and the providers of a
\* --providers-file when one is given (otherwise a catalogue is fetched).
FirstList(p, file) == p.folders \cup file
FirstCatalog(file) == IF file = {} THEN "loading" ELSE "file"
FirstRoute(p) == IF p.complete THEN "library" ELSE "profile"

SignInInit ==
    /\ prefs = DefaultPrefs
    /\ listed \in SUBSET Hosted
    /\ shown = {}
    /\ catalog = FirstCatalog(listed)
    /\ step = FirstRoute(prefs)
    /\ overlay = "none"
    /\ phase = "Ready"
    /\ flow = [f \in Flow |-> NoFlow]
    /\ launches = 1

\* The application ends at any point, its flows with it, and starts again
\* from the preferences file: what it saved last, or the defaults when the file
\* cannot be read.
Relaunch ==
    /\ launches < MaxLaunches
    /\ launches' = launches + 1
    /\ prefs' \in {prefs, DefaultPrefs}
    /\ \E file \in SUBSET Hosted :
          /\ listed' = FirstList(prefs', file)
          /\ shown' = FirstList(prefs', file) \cap prefs'.connected
          /\ catalog' = FirstCatalog(file)
    /\ step' = FirstRoute(prefs')
    /\ overlay' = "none"
    /\ phase' = "Ready"
    /\ flow' = [f \in Flow |-> NoFlow]

-----------------------------------------------------------------------------
\* The provider list.

\* The published list alone, without the person's own folders.
ReplaceListBare(published) ==
    /\ listed' = published
    /\ shown' = published \cap (prefs.connected \cup shown)
    /\ catalog' = "live"

\* The published list replaces the shown one, carrying the folders across.
ReplaceList(published) ==
    LET own == listed \cap Folder
    IN  /\ listed' = published \cup own
        /\ shown' = (published \cap (prefs.connected \cup shown)) \cup (shown \cap own)
        /\ catalog' = "live"

\* get_or_fetch answers with the list of the day, from its cache or from the
\* network; an empty list is an error to the caller.
CatalogArrives ==
    /\ catalog = "loading"
    /\ \E published \in SUBSET Hosted \ {{}} : ReplaceList(published)
    /\ UNCHANGED <<prefs, overlay, phase, flow, step, launches>>

CatalogFails ==
    /\ catalog = "loading"
    /\ catalog' = "unreachable"
    /\ UNCHANGED <<prefs, listed, shown, overlay, phase, flow,
                   step, launches>>

\* The folder chooser is asynchronous and may return at any time.
AddFolder(d) ==
    /\ listed' = listed \cup {d}
    /\ shown' = shown \cup {d}
    /\ prefs' = Connect([prefs EXCEPT !.folders = @ \cup {d}], d)
    /\ UNCHANGED <<catalog, overlay, phase, flow, step, launches>>

\* mark_provider_connected
MarkConnected(h) ==
    /\ shown' = shown \cup {h}
    /\ prefs' = Connect(prefs, h)

-----------------------------------------------------------------------------
\* The dialogs.

\* A reload of the library, or a conflict that is dealt with, closes any dialog
\* and leaves its phase.
CloseOverlay ==
    /\ overlay # "none"
    /\ overlay' = "none"
    /\ UNCHANGED <<prefs, listed, shown, catalog, phase, flow, step, launches>>

\* From the picker or the settings; only a provider that is not shown as
\* connected can be selected.
SelectProvider(h) ==
    /\ h \in (listed \cap Hosted) \ shown
    /\ IF Method[h] # "none"
          THEN overlay' = h /\ phase' = "Ready" /\ UNCHANGED <<prefs, shown>>
          ELSE overlay' = "none" /\ MarkConnected(h) /\ UNCHANGED phase
    /\ UNCHANGED <<listed, catalog, flow, step, launches>>

\* A credential goes to the keychain (see Session), under the provider's
\* identity; when the keychain refuses it the dialog says so.
StoreCredential == phase' \in {"Complete", "Failed"}

\* begin_provider_auth: a token is stored at once, a browser sign-in starts a
\* flow with the provider's identity in it.
BeginWithToken ==
    /\ Dialog /\ phase = "Ready" /\ Method[overlay] = "pat"
    /\ StoreCredential
    /\ UNCHANGED <<prefs, listed, shown, catalog, overlay, flow,
                   step, launches>>

BeginFlow(f) ==
    /\ Dialog /\ phase = "Ready" /\ Method[overlay] \in {"pkce", "device"}
    /\ flow[f] = NoFlow
    /\ flow' = [flow EXCEPT ![f] = [NoFlow EXCEPT !.at = "probe", !.of = overlay]]
    /\ phase' = "Waiting"
    /\ UNCHANGED <<prefs, listed, shown, catalog, overlay, step, launches>>

\* finish_provider_auth, offered in phase Complete.
Finish ==
    /\ Dialog /\ phase = "Complete"
    /\ MarkConnected(overlay)
    /\ overlay' = "none"
    /\ phase' = "Ready"
    /\ UNCHANGED <<listed, catalog, flow, step, launches>>

\* cancel_provider_auth goes back to the picker; the flow is not told and keeps
\* running.
CancelSignIn ==
    /\ Dialog
    /\ overlay' = "none"
    /\ phase' = "Ready"
    /\ UNCHANGED <<prefs, listed, shown, catalog, flow,
                   step, launches>>

TryAgain ==
    /\ Dialog /\ phase = "Failed"
    /\ phase' = "Ready"
    /\ UNCHANGED <<prefs, listed, shown, catalog, overlay, flow, step, launches>>

-----------------------------------------------------------------------------
\* The flow behind the dialog: a probe of the provider by the application,
\* then a thread of its own whose messages the application reads in order.

FlowRest == <<prefs, listed, shown, catalog, overlay,
              step, launches>>

Sends(f, at, out) == flow' = [flow EXCEPT ![f].at = at, ![f].out = @ \o out]

\* The provider's health names an authorization server, or, for a device
\* sign-in, may name none: the older endpoints of the provider are used.
Probe(f) ==
    /\ flow[f].at = "probe"
    /\ \/ /\ \E next \in {"discover"} \cup
                         (IF Method[flow[f].of] = "device" THEN {"legacy"} ELSE {}) :
                Sends(f, next, <<>>)
          /\ UNCHANGED phase
       \/ flow' = [flow EXCEPT ![f] = NoFlow] /\ phase' = "Failed"
    /\ UNCHANGED FlowRest

\* The loopback port of the callback is fixed: one flow listens at a time.
PortTaken == \E f \in Flow : flow[f].at = "listening"

\* Discovery of the authorization server, then the flow its provider
\* advertises: browser with callback, or device code.
Discover(f) ==
    /\ flow[f].at = "discover"
    /\ \/ ~PortTaken /\ Sends(f, "listening", <<"url">>)
       \/ Sends(f, "polling", <<"code">>)
       \/ Sends(f, "over", <<"failed">>)
    /\ UNCHANGED <<phase, FlowRest>>

RequestCode(f) ==
    /\ flow[f].at = "legacy"
    /\ Sends(f, "polling", <<"code">>) \/ Sends(f, "over", <<"failed">>)
    /\ UNCHANGED <<phase, FlowRest>>

\* The person answers in the browser: with a code to exchange, or with a
\* refusal, or the callback is not the expected one.
Callback(f) ==
    /\ flow[f].at = "listening"
    /\ Sends(f, "exchange", <<>>) \/ Sends(f, "over", <<"failed">>)
    /\ UNCHANGED <<phase, FlowRest>>

Exchange(f) ==
    /\ flow[f].at = "exchange"
    /\ Sends(f, "over", <<"credential">>) \/ Sends(f, "over", <<"failed">>)
    /\ UNCHANGED <<phase, FlowRest>>

\* One poll of the token endpoint that ends the flow; a pending answer only
\* lengthens the interval.
Poll(f) ==
    /\ flow[f].at = "polling"
    /\ Sends(f, "over", <<"credential">>) \/ Sends(f, "over", <<"failed">>)
    /\ UNCHANGED <<phase, FlowRest>>

\* Without the time limit around the wait for the callback.
ExpireCodesOnly(f) ==
    /\ flow[f].at = "polling"
    /\ Sends(f, "over", <<"failed">>)
    /\ UNCHANGED <<phase, FlowRest>>

\* 300 s without a callback; the deadline of the device code, looked at before
\* every poll.
Expire(f) ==
    /\ flow[f].at \in {"listening", "polling"}
    /\ Sends(f, "over", <<"failed">>)
    /\ UNCHANGED <<phase, FlowRest>>

\* The application reads the next message and applies it to the dialog,
\* whichever provider the dialog shows by then.
Receive(f) ==
    /\ flow[f].out # <<>>
    /\ LET message == Head(flow[f].out) IN
          /\ flow' = [flow EXCEPT ![f] = IF message \in {"credential", "failed"}
                                           THEN NoFlow ELSE [@ EXCEPT !.out = Tail(flow[f].out)]]
          /\ CASE message = "credential" -> StoreCredential
               [] message = "failed" -> phase' = "Failed"
               [] message = "code" -> phase' = "DeviceCode"
               [] message = "url" -> UNCHANGED phase
    /\ UNCHANGED <<prefs, listed, shown, catalog, overlay, step, launches>>

-----------------------------------------------------------------------------
\* First run.

\* The profile step saves a name and refuses an empty one, so first run is
\* never complete without a name; provider and folders may be skipped.
AdvanceOnboarding ==
    \/ step = "profile" /\ step' = "provider" /\ UNCHANGED prefs
    \/ step = "provider" /\ step' = "music" /\ UNCHANGED prefs
    \/ step = "music" /\ step' = "library" /\ prefs' = [prefs EXCEPT !.complete = TRUE]

PreviousOnboarding ==
    /\ step' = CASE step = "music" -> "provider"
                 [] step = "provider" -> "profile"
                 [] step = "profile" -> "library"
    /\ UNCHANGED prefs

Onboard ==
    /\ step # "library"
    /\ AdvanceOnboarding \/ PreviousOnboarding
    /\ UNCHANGED <<listed, shown, catalog, overlay, phase, flow, launches>>

-----------------------------------------------------------------------------
\* The buttons of the dialog.
DialogNext ==
    \/ BeginWithToken \/ Finish \/ CancelSignIn \/ TryAgain
    \/ \E f \in Flow : BeginFlow(f)

\* The flow itself.
FlowNext(f) ==
    Probe(f) \/ Discover(f) \/ RequestCode(f) \/ Callback(f)
      \/ Exchange(f) \/ Poll(f) \/ Expire(f) \/ Receive(f)

SignInNext ==
    \/ Relaunch \/ CatalogArrives \/ CatalogFails
    \/ \E d \in Folder : AddFolder(d)
    \/ CloseOverlay \/ DialogNext
    \/ \E h \in Hosted : SelectProvider(h)
    \/ \E f \in Flow : FlowNext(f)
    \/ Onboard

\* Every request of a flow is answered or fails, its time limits pass, and the
\* application reads its messages.  Nothing is assumed of the person.
SignInFairness ==
    \A f \in Flow : /\ WF_signInVars(Probe(f))
                    /\ WF_signInVars(Discover(f) \/ RequestCode(f))
                    /\ WF_signInVars(Exchange(f))
                    /\ WF_signInVars(Expire(f))
                    /\ WF_signInVars(Receive(f))

SignInSpec == SignInInit /\ [][SignInNext]_signInVars /\ SignInFairness

-----------------------------------------------------------------------------
\* The dialog never waits for ever: once it shows Waiting or a device code, a
\* result, a failure or a way back follows, though several flows write the one
\* phase, a cancelled flow keeps running, and the person may never answer the
\* browser.
SignInEnds == (phase \in {"Waiting", "DeviceCode"}) ~> (phase \notin {"Waiting", "DeviceCode"})

\* A destination that was set up stays set up: whenever the late catalogue,
\* the folder chooser and a sign-in arrive, every folder that was added is
\* still in the list, every destination the preferences hold is shown as
\* connected wherever it is listed, nothing else is, and the primary
\* destination is one of them.
SetUpStays ==
    /\ prefs.folders \subseteq listed
    /\ shown = listed \cap prefs.connected
    /\ prefs.primary # None => prefs.primary \in prefs.connected
    /\ prefs.connected # {} => prefs.primary # None

\* The inductive strengthening of SetUpStays: until a catalogue has arrived the
\* list holds folders only, so the provider in the dialog is always listed.
SignInInv ==
    /\ prefs \in [connected : SUBSET Provider, primary : Provider \cup {None},
                  folders : SUBSET Folder, complete : BOOLEAN]
    /\ listed \subseteq Provider
    /\ catalog \in {"loading", "unreachable"} => listed \subseteq Folder
    /\ Dialog => overlay \in listed
    /\ SetUpStays
=============================================================================
