-------------------------- MODULE PushRegistration --------------------------
(***************************************************************************)
(* The push registration of the mobile app: the notifications screen with  *)
(* its master switch and its sub-toggles, the listener that registers a    *)
(* rotated token anew, the cached query both read, and the backend's row   *)
(* (external), whose calls may be lost before or after they take effect.   *)
(*                                                                         *)
(* While the device is known to be offline, the query library holds back   *)
(* what the screen asks: the request, and the ten seconds it has, begin    *)
(* with the connection. The listener asks without the library.             *)
(*                                                                         *)
(* The app locks whenever it leaves the foreground, which unmounts the     *)
(* screen (MobileSession): what it started goes on without it.             *)
(***************************************************************************)
EXTENDS Naturals, FiniteSets

CONSTANTS
  Keys,       \* the sub-toggles
  MaxToken,   \* bound on the device tokens the system issues
  MaxCalls    \* bound on the backend calls in flight, no two alike

ASSUME PushAssumption == MaxToken \in Nat \ {0} /\ MaxCalls \in Nat

VARIABLES
  online,     \* what onlineManager was told last
  token,      \* the device's push token, counted
  row,        \* the backend's registration of this instance
  shown,      \* the screen is mounted
  master,     \* its masterState
  asking,     \* handleMasterToggle and the permission it asked for: "no", "yes" while
              \* it waits, "left" behind by the screen, "rejected"
  calls,      \* backend calls in flight: what each asks, how far, who acts on its answer
  cache,      \* the data of ["push-prefs"]
  fetch,      \* its fetch in flight
  stale,      \* it was invalidated
  off,        \* history: the user is known to be opted out
  clean,      \* history: this mount fetched, and no operation of it was disturbed
  lagging     \* history: a registration failed, met another, or had no address

system == <<online, token>>
query == <<cache, fetch, stale>>
screen == <<shown, master, asking>>
vars == <<system, row, screen, calls, query, off, clean, lagging>>

-----------------------------------------------------------------------------
Response(known, registered, prefs) ==
  [known |-> known, registered |-> registered, prefs |-> prefs]
NoData == Response(FALSE, FALSE, {})

NoRow == [registered |-> FALSE, prefs |-> {}, token |-> 0]
Row(prefs, t) == [registered |-> TRUE, prefs |-> prefs, token |-> t]
Answered(r) == Response(TRUE, r.registered, r.prefs)

NoFetch == [stage |-> "none", data |-> NoData]
Asked == [stage |-> "asked", data |-> NoData]

\* The network mode of the query library: a mutation waits for the connection. (A
\* fetch waits, too, or is tried again: it is one that was not served yet.)
CallTo(op, prefs, t, from) ==
  [op |-> op, stage |-> IF online \/ from = "listener" THEN "sent" ELSE "paused",
   prefs |-> prefs, token |-> t, from |-> from]
NoCall == calls = {}

TransitionStates == {"enabling", "disabling"}
PermissionStates == {"permission-denied", "permission-revoked-in-os-settings"}

deriveInitialMasterState(data) ==
  IF data.registered THEN "enabled" ELSE "disabled-no-permission-asked"

\* Seeded fault: the effect overrides a transition that is under way.
SyncedAlways(data) ==
  IF ~shown \/ data = cache \/ master \in PermissionStates
  THEN master ELSE deriveInitialMasterState(data)

\* The effect on prefsQuery.data: data equal to the old is the old.
Synced(data) ==
  IF ~shown \/ data = cache \/ master \in TransitionStates \cup PermissionStates
  THEN master ELSE deriveInitialMasterState(data)

\* invalidateQueries: a mounted query fetches anew, dropping what is in flight; but
\* as long as it has no data it keeps the fetch in flight.
FirstFetch == ~cache.known /\ fetch # NoFetch

invalidateQueries ==
  /\ fetch' = IF shown /\ ~FirstFetch THEN Asked ELSE fetch
  /\ stale' = TRUE

Init ==
  /\ online \in BOOLEAN
  /\ token = 1
  /\ row \in {NoRow, Row(Keys, 1)}
  /\ shown = FALSE /\ master = "disabled-no-permission-asked" /\ asking = "no"
  /\ calls = {}
  /\ cache = NoData /\ fetch = NoFetch /\ stale = FALSE
  /\ off = (row = NoRow)
  /\ clean = FALSE
  /\ lagging = FALSE

-----------------------------------------------------------------------------
(* The screen *)

\* A call goes out: it disturbs, and is disturbed by, what is in flight.
Send(call) ==
  /\ call \notin calls /\ Cardinality(calls) < MaxCalls
  /\ calls' = calls \cup {call}
  /\ clean' = (clean /\ NoCall /\ (call.from = "listener" =>
                                   asking = "no" /\ fetch = NoFetch))
  /\ lagging' = (lagging \/ ~NoCall)

\* A mount reads the cache and fetches what is not there, is stale, or is older
\* than the ten seconds it counts as fresh.
Open ==
  /\ ~shown
  /\ shown' = TRUE
  /\ master' = deriveInitialMasterState(cache)
  /\ \E fresh \in BOOLEAN :
       /\ fresh => cache.known /\ ~stale
       /\ fetch' = IF fresh \/ fetch # NoFetch THEN fetch ELSE Asked
       /\ clean' = (~fresh /\ fetch = NoFetch /\ NoCall /\ asking = "no")
  /\ UNCHANGED <<system, row, asking, calls, cache, stale, off, lagging>>

\* goBack, or the lock of an app that is no longer active. What the screen asked for
\* goes on; a handler that ended is forgotten.
Unmount ==
  /\ shown /\ shown' = FALSE
  /\ master' = "disabled-no-permission-asked"
  /\ asking' = CASE asking = "yes" -> "left"
                 [] asking = "rejected" -> "no"
                 [] OTHER -> asking
  /\ calls' = { IF c.from = "master" THEN [c EXCEPT !.from = "nobody"] ELSE c :
                  c \in calls }
  /\ clean' = FALSE
  /\ UNCHANGED <<system, row, query, off, lagging>>

\* handleMasterToggle(true), up to the system's answer. (One asks at a time.)
TurnOn ==
  /\ shown /\ master \notin TransitionStates \cup {"enabled"}
  /\ asking = "no"
  /\ master' = "enabling" /\ asking' = "yes"
  /\ off' = FALSE
  /\ clean' = (clean /\ NoCall)
  /\ UNCHANGED <<system, row, shown, calls, query, lagging>>

\* The system answers; the token is read, the subscriptions are built, the row is
\* asked for with all preferences on. Without the permission, without an address, or
\* when the token cannot be read, the switch goes back.
PermissionAnswered ==
  /\ asking \in {"yes", "left"}
  /\ asking' = "no"
  /\ \/ /\ Send(CallTo("register", Keys, token,
                       IF asking = "yes" THEN "master" ELSE "nobody"))
        /\ UNCHANGED master
     \/ /\ \/ asking = "left" /\ UNCHANGED master
           \/ asking = "yes"
              /\ master' \in {"permission-denied", "disabled-no-permission-asked"}
        /\ clean' = FALSE
        /\ UNCHANGED <<calls, lagging>>
  /\ UNCHANGED <<system, row, shown, query, off>>

\* requestPermissionsAsync is outside the try: rejected, it ends the handler.
PermissionRejected ==
  /\ asking \in {"yes", "left"}
  /\ asking' = IF asking = "yes" THEN "rejected" ELSE "no"
  /\ clean' = FALSE
  /\ UNCHANGED <<system, row, shown, master, calls, query, off, lagging>>

TurnOff ==
  /\ shown /\ master = "enabled"
  /\ master' = "disabling"
  /\ Send(CallTo("unregister", {}, 0, "master"))
  /\ UNCHANGED <<system, row, shown, asking, query, off>>

\* handleSubToggle: the row is written whole, from the cached preferences. (Without
\* an address to subscribe nothing happens.)
Toggle(key) ==
  LET prefs == IF cache.registered THEN cache.prefs ELSE Keys
      new == IF key \in prefs THEN prefs \ {key} ELSE prefs \cup {key} IN
  /\ shown /\ master = "enabled"
  /\ Send(CallTo("register", new, token, "nobody"))
  /\ off' = FALSE
  /\ UNCHANGED <<system, row, screen, query>>

-----------------------------------------------------------------------------
(* The listener of token rotations *)

\* Seeded fault: the listener does not ask the backend when nothing is cached.
RotateCached ==
  /\ token < MaxToken /\ token' = token + 1
  /\ \/ /\ cache.registered
        /\ Send(CallTo("register", cache.prefs, token', "listener"))
     \/ /\ ~cache.registered
        /\ UNCHANGED <<calls, clean, lagging>>
  /\ UNCHANGED <<online, row, screen, query, off>>

\* Cached preferences of a registered user are used, else the backend is asked. When
\* no wallet has an address to subscribe, the row is not told.
Rotate ==
  /\ token < MaxToken /\ token' = token + 1
  /\ \/ /\ ~cache.registered
        /\ Send(CallTo("prefs", {}, token', "listener"))
     \/ /\ cache.registered
        /\ Send(CallTo("register", cache.prefs, token', "listener"))
     \/ /\ cache.registered
        /\ lagging' = TRUE
        /\ UNCHANGED <<calls, clean>>
  /\ UNCHANGED <<online, row, screen, query, off>>

\* Seeded fault: the user whom the backend does not know is registered, too.
RotationAskedAnyone(c) ==
  /\ c.op \in {"opted-in", "opted-out"}
  /\ calls' = (calls \ {c}) \cup {CallTo("register", c.prefs, c.token, "listener")}
  /\ UNCHANGED <<system, row, screen, query, off, clean, lagging>>

\* The backend answered the listener: an opted-out user is left alone.
RotationAsked(c) ==
  /\ c.op \in {"opted-in", "opted-out"}
  /\ \/ /\ c.op = "opted-in"
        /\ calls' = (calls \ {c}) \cup
                       {CallTo("register", c.prefs, c.token, "listener")}
        /\ UNCHANGED lagging
     \/ /\ calls' = calls \ {c}
        /\ lagging' = (lagging \/ c.op = "opted-in")
  /\ UNCHANGED <<system, row, screen, query, off, clean>>

-----------------------------------------------------------------------------
(* The backend, its answers, and the fetch of the query *)

\* What was held back goes out.
Resume(c) ==
  /\ online /\ c.stage = "paused"
  /\ calls' = (calls \ {c}) \cup {[c EXCEPT !.stage = "sent"]}
  /\ UNCHANGED <<system, row, screen, query, off, clean, lagging>>

Serve(c) ==
  /\ c.stage = "sent"
  /\ row' = CASE c.op = "register"   -> Row(c.prefs, c.token)
              [] c.op = "unregister" -> NoRow
              [] c.op = "prefs"      -> row
  /\ calls' = (calls \ {c}) \cup
       { IF c.op # "prefs" THEN [c EXCEPT !.stage = "served", !.prefs = {}, !.token = 0]
         ELSE [c EXCEPT !.stage = "served", !.prefs = row.prefs,
                        !.op = IF row.registered THEN "opted-in" ELSE "opted-out"] }
  /\ UNCHANGED <<system, screen, query, off, clean, lagging>>

Answer(c) ==
  /\ c.op \in {"register", "unregister"} /\ c.stage = "served"
  /\ calls' = calls \ {c}
  /\ invalidateQueries
  /\ master' = IF c.from # "master" THEN master
               ELSE IF c.op = "register" THEN "enabled"
               ELSE "disabled-no-permission-asked"
  /\ clean' = (clean /\ ~FirstFetch)
  /\ lagging' = (lagging /\ (row.token # token \/ calls # {c}))
  /\ UNCHANGED <<system, row, shown, asking, cache, off>>

\* Seeded fault: the switch is left as it was when the call fails.
FailUnreverted(c) ==
  /\ c.stage # "paused"
  /\ calls' = calls \ {c}
  /\ clean' = FALSE /\ lagging' = TRUE
  /\ UNCHANGED <<system, row, screen, query, off>>

\* Refused, or its answer is lost: the switch goes back, nothing is fetched.
Fail(c) ==
  /\ c.stage # "paused"
  /\ calls' = calls \ {c}
  /\ master' = IF c.from # "master" THEN master
               ELSE IF c.op = "register" THEN "disabled-no-permission-asked"
               ELSE "enabled"
  /\ clean' = FALSE /\ lagging' = TRUE
  /\ UNCHANGED <<system, row, shown, asking, query, off>>

FetchServed ==
  /\ fetch = Asked
  /\ fetch' = [stage |-> "served", data |-> Answered(row)]
  /\ UNCHANGED <<system, row, screen, calls, cache, stale, off, clean, lagging>>

FetchFailed ==
  /\ fetch # NoFetch /\ fetch' = NoFetch
  /\ clean' = FALSE
  /\ UNCHANGED <<system, row, screen, calls, cache, stale, off, lagging>>

\* Seeded fault: the effect looks at registered data only.
FetchAnsweredOn ==
  /\ fetch.stage = "served"
  /\ cache' = fetch.data /\ fetch' = NoFetch /\ stale' = FALSE
  /\ master' = IF fetch.data.registered THEN Synced(fetch.data) ELSE master
  /\ off' = (off \/ (~row.registered /\ ~fetch.data.registered /\ NoCall /\ asking = "no"))
  /\ UNCHANGED <<system, row, shown, asking, calls, clean, lagging>>

FetchAnswered ==
  /\ fetch.stage = "served"
  /\ cache' = fetch.data /\ fetch' = NoFetch /\ stale' = FALSE
  /\ master' = Synced(fetch.data)
  /\ off' = (off \/ (~row.registered /\ ~fetch.data.registered /\ NoCall /\ asking = "no"))
  /\ UNCHANGED <<system, row, shown, asking, calls, clean, lagging>>

\* Five minutes without a mounted query drop its data.
Collected ==
  /\ ~shown /\ fetch = NoFetch /\ cache # NoData
  /\ cache' = NoData /\ stale' = FALSE
  /\ UNCHANGED <<system, row, screen, calls, fetch, off, clean, lagging>>

-----------------------------------------------------------------------------
(* The network *)

\* addNetworkStateListener tells onlineManager.
Connection ==
  /\ online' = ~online
  /\ UNCHANGED <<token, row, screen, calls, query, off, clean, lagging>>

\* With the connection back, and what was held back done, a mounted query that is
\* not fresh fetches.
Reconnected ==
  /\ shown /\ online /\ fetch = NoFetch
  /\ fetch' = Asked
  /\ clean' = (clean /\ NoCall)
  /\ UNCHANGED <<system, row, screen, calls, cache, stale, off, lagging>>

-----------------------------------------------------------------------------
CallSteps ==
  \E c \in calls : Resume(c) \/ Serve(c) \/ Answer(c) \/ Fail(c) \/ RotationAsked(c)
PermissionSettles == PermissionAnswered \/ PermissionRejected
Replies ==
  \/ CallSteps \/ PermissionSettles
  \/ FetchServed \/ FetchFailed \/ FetchAnswered

Next ==
  \/ Open \/ Unmount \/ TurnOn \/ TurnOff \/ Rotate
  \/ \E k \in Keys : Toggle(k)
  \/ Replies \/ Collected
  \/ Connection \/ Reconnected

\* A call that was sent is answered or given up after ten seconds, one that was held
\* back is sent when online, and the prompt of the permission ends in some way.
Spec == Init /\ [][Next]_vars /\ WF_vars(CallSteps) /\ WF_vars(PermissionSettles)

-----------------------------------------------------------------------------
TypeOK ==
  /\ online \in BOOLEAN /\ token \in 1..MaxToken
  /\ shown \in BOOLEAN
  /\ row \in [registered : BOOLEAN, prefs : SUBSET Keys, token : 0..MaxToken]
  /\ master \in TransitionStates \cup PermissionStates
                \cup {"enabled", "disabled-no-permission-asked"}
  /\ asking \in {"no", "yes", "left", "rejected"}
  /\ (asking \in {"yes", "rejected"} => shown /\ master = "enabling")
  /\ calls \subseteq
       [op : {"register", "unregister", "prefs", "opted-in", "opted-out"},
        stage : {"paused", "sent", "served"}, prefs : SUBSET Keys, token : 0..MaxToken,
        from : {"master", "listener", "nobody"}]
  /\ {cache, fetch.data} \subseteq
       [known : BOOLEAN, registered : BOOLEAN, prefs : SUBSET Keys]
  /\ fetch.stage \in {"none", "asked", "served"}
  /\ {stale, off, clean, lagging} \subseteq BOOLEAN

\* "Never auto-register a never-opted-in user" (pushListenersSetup.tsx:16), nor one
\* who opted out and whom the app knows to be: whatever tokens rotate, whatever was
\* cached and whatever call was lost, no row appears until a switch is operated.
OffStaysOff == off => row = NoRow

\* Once a mount has fetched and nothing is in flight, the switch is on exactly when
\* the backend holds a row, or says what the permission lacks, through any
\* operations, rotations and late answers of the query, as long as none failed, no
\* two overlapped and none was answered before the first fetch was.
SwitchTellsTruth ==
  shown /\ clean /\ NoCall /\ asking = "no" /\ fetch = NoFetch =>
    master \in PermissionStates \/ (master = "enabled" <=> row.registered)

\* At rest the row holds the token the device has, once a registration was answered
\* undisturbed and until one fails, meets another, or finds no address.
TokenIsCurrent == NoCall /\ ~lagging /\ row.registered => row.token = token

\* Once the device stays online, a switch that was greyed out for an operation comes
\* back, whatever is refused, lost or held back on the way, unless the request for
\* the permission was rejected (NotificationsScreen.tsx:173).
SwitchComesBack ==
  <>[]online =>
    (master \in TransitionStates ~> master \notin TransitionStates \/ asking = "rejected")
=============================================================================
