----------------------- MODULE PushRegistration_proofs -----------------------
(***************************************************************************)
(* Proofs about PushRegistration, for any toggles, tokens and              *)
(* number of calls in flight: its types, that a user who is off stays off, *)
(* that the row's token is current at rest, and that the switch tells the  *)
(* truth.                                                                  *)
(***************************************************************************)
EXTENDS PushRegistration, TLAPS

CallRecords ==
  [op : {"register", "unregister", "prefs", "opted-in", "opted-out"},
   stage : {"paused", "sent", "served"}, prefs : SUBSET Keys, token : 0..MaxToken,
   from : {"master", "listener", "nobody"}]

\* The listener's question has its answer once it is served.
Calls == { c \in CallRecords : /\ c.op = "prefs" => c.stage # "served"
                               /\ c.op \in {"opted-in", "opted-out"} => c.stage = "served" }

Data == [known : BOOLEAN, registered : BOOLEAN, prefs : SUBSET Keys]
Rows == [registered : BOOLEAN, prefs : SUBSET Keys, token : 0..MaxToken]
MasterStates == TransitionStates \cup PermissionStates
                \cup {"enabled", "disabled-no-permission-asked"}

\* What each variable may hold, the screen's two aside.
Fields ==
  /\ online \in BOOLEAN /\ token \in 1..MaxToken
  /\ row \in Rows
  /\ calls \subseteq Calls
  /\ cache \in Data /\ fetch.data \in Data
  /\ fetch.stage \in {"none", "asked", "served"}
  /\ stale \in BOOLEAN /\ off \in BOOLEAN /\ clean \in BOOLEAN /\ lagging \in BOOLEAN

\* The switch is greyed out for the operation that is under way.
Turning(c) ==
  \/ c.op = "register" /\ master = "enabling"
  \/ c.op = "unregister" /\ master = "disabling"

\* The mounted screen runs one operation of its switch at a time.
OperationInv ==
  /\ asking \in {"yes", "rejected"} => shown /\ master = "enabling"
  /\ \A c \in calls : c.from = "master" =>
       shown /\ asking \notin {"yes", "rejected"} /\ Turning(c)
  /\ \A c, d \in calls : c.from = "master" /\ d.from = "master" => c = d

ScreenTypes ==
  /\ shown \in BOOLEAN
  /\ master \in MasterStates
  /\ asking \in {"no", "yes", "left", "rejected"}

\* Without a registration the row is the empty one.
RowInv == ~row.registered => row = NoRow

PushInv == Fields /\ ScreenTypes /\ OperationInv /\ RowInv

(***************************************************************************)
(* Types                                                                   *)
(***************************************************************************)

LEMMA FieldsAreTypes == PushInv => TypeOK
<1> SUFFICES ASSUME PushInv PROVE TypeOK
  OBVIOUS
<1>1. {cache, fetch.data} \subseteq Data /\ {stale, off, clean, lagging} \subseteq BOOLEAN
  BY DEF PushInv, Fields
<1> QED BY <1>1 DEF PushInv, Fields, ScreenTypes, OperationInv, TypeOK, Calls,
                    CallRecords, Data, Rows, MasterStates

\* The answers and the rows the system makes have their types.
LEMMA Made ==
  /\ NoData \in Data /\ NoRow \in Rows
  /\ \A r \in Rows : Answered(r) \in Data /\ Answered(r).registered = r.registered
  /\ \A t \in 0..MaxToken : \A p \in SUBSET Keys :
       Row(p, t) \in Rows /\ Row(p, t).registered /\ Row(p, t).token = t
  /\ NoFetch.data = NoData /\ NoFetch.stage = "none"
  /\ Asked.data = NoData /\ Asked.stage = "asked" /\ Asked # NoFetch
  /\ ~NoData.registered /\ ~NoRow.registered
BY PushAssumption DEF NoData, NoRow, Answered, Row, Response, NoFetch, Asked, Data, Rows

\* A call that is sent is one more call, of its type.
LEMMA Sent ==
  ASSUME calls \subseteq Calls, NEW op \in {"register", "unregister", "prefs"},
         NEW p \in SUBSET Keys, NEW t \in 0..MaxToken,
         NEW from \in {"master", "listener", "nobody"},
         Send(CallTo(op, p, t, from))
  PROVE  /\ calls' \subseteq Calls
         /\ calls' = calls \cup {CallTo(op, p, t, from)}
         /\ CallTo(op, p, t, from).from = from /\ CallTo(op, p, t, from).op = op
         /\ CallTo(op, p, t, from).stage # "served" /\ CallTo(op, p, t, from).token = t
BY DEF Send, CallTo, Calls, CallRecords

LEMMA InitFields == Init => Fields
<1> SUFFICES ASSUME Init PROVE Fields
  OBVIOUS
<1>1. row \in Rows
  BY Made, PushAssumption DEF Init
<1>2. off \in BOOLEAN
  BY DEF Init
<1>3. token \in 1..MaxToken
  BY PushAssumption DEF Init
<1>4. cache \in Data /\ fetch.data \in Data /\ fetch.stage = "none"
  BY Made DEF Init
<1> QED BY <1>1, <1>2, <1>3, <1>4 DEF Init, Fields

LEMMA SendHistory ==
  ASSUME Fields, NEW c, Send(c)
  PROVE  clean' \in BOOLEAN /\ lagging' \in BOOLEAN
BY DEF Send, Fields

LEMMA UnmountFields ==
  ASSUME Fields, Unmount
  PROVE  calls' \subseteq Calls /\ clean' \in BOOLEAN /\ UNCHANGED <<row, query, off, lagging>>
<1>1. \A c \in Calls : [c EXCEPT !.from = "nobody"] \in Calls
  BY DEF Calls, CallRecords
<1> QED BY <1>1 DEF Fields, Unmount

\* What a call becomes, when it is served or asks again, is a call.
LEMMA ServedTypes ==
  ASSUME Fields, NEW c \in calls, Serve(c)
  PROVE  calls' \subseteq Calls /\ row' \in Rows
<1>1. c \in Calls
  BY DEF Fields
<1>2. row' \in Rows
  <2>1. c.op \in {"register", "unregister", "prefs"}
    BY <1>1 DEF Serve, Calls, CallRecords
  <2>2. c.prefs \in SUBSET Keys /\ c.token \in 0..MaxToken
    BY <1>1 DEF Calls, CallRecords
  <2>3. row' \in {Row(c.prefs, c.token), NoRow, row}
    BY <2>1 DEF Serve
  <2> QED BY <2>2, <2>3, Made DEF Fields
<1>3. c.op # "prefs" => [c EXCEPT !.stage = "served", !.prefs = {}, !.token = 0] \in Calls
  <2> DEFINE d == [c EXCEPT !.stage = "served", !.prefs = {}, !.token = 0]
  <2>0. c \in CallRecords /\ {} \in SUBSET Keys /\ 0 \in 0..MaxToken
    BY <1>1, PushAssumption DEF Calls
  <2>1. d \in CallRecords
    BY <2>0 DEF CallRecords
  <2>2. d.op = c.op /\ d.stage = "served"
    BY <1>1 DEF Calls, CallRecords
  <2> HIDE DEF d
  <2>3. c.op # "prefs" => d \in Calls
    BY <2>1, <2>2 DEF Calls
  <2> QED BY <2>3 DEF d
<1>4. row.prefs \in SUBSET Keys
  BY DEF Fields, Rows
<1>5. [c EXCEPT !.stage = "served", !.prefs = row.prefs,
                !.op = IF row.registered THEN "opted-in" ELSE "opted-out"] \in Calls
  BY <1>1, <1>4 DEF Calls, CallRecords
<1> QED BY <1>2, <1>3, <1>5 DEF Serve, Fields

LEMMA RepliesFields ==
  ASSUME Fields, ScreenTypes, Replies
  PROVE  Fields'
<1> USE DEF Fields, system, query, screen
<1>1. ASSUME NEW c \in calls, Serve(c) PROVE Fields'
  BY <1>1, ServedTypes DEF Serve
<1>2. ASSUME NEW c \in calls, Answer(c) PROVE Fields'
  <2>1. fetch'.data \in Data /\ fetch'.stage \in {"none", "asked", "served"}
        /\ stale' \in BOOLEAN
    BY <1>2, Made DEF Answer, invalidateQueries, ScreenTypes
  <2>2. lagging' \in BOOLEAN
    BY <1>2 DEF Answer
  <2> QED BY <1>2, <2>1, <2>2 DEF Answer
<1>3. ASSUME NEW c \in calls, Fail(c) PROVE Fields'
  BY <1>3 DEF Fail
<1>4. ASSUME NEW c \in calls, RotationAsked(c) PROVE Fields'
  <2>1. c \in Calls
    OBVIOUS
  <2>2. CallTo("register", c.prefs, c.token, "listener") \in Calls
    BY <2>1 DEF CallTo, Calls, CallRecords
  <2>3. calls' \subseteq Calls
    BY <1>4, <2>2 DEF RotationAsked
  <2>4. lagging' \in BOOLEAN
    BY <1>4 DEF RotationAsked
  <2> QED BY <1>4, <2>3, <2>4 DEF RotationAsked
<1>5. CASE FetchServed
  BY <1>5, Made DEF FetchServed
<1>6. CASE FetchFailed
  BY <1>6, Made DEF FetchFailed
<1>7. CASE FetchAnswered
  <2>1. off' \in BOOLEAN
    BY <1>7 DEF FetchAnswered
  <2> QED BY <1>7, <2>1, Made DEF FetchAnswered
<1>8. CASE PermissionAnswered
  <2>1. calls' \subseteq Calls /\ clean' \in BOOLEAN /\ lagging' \in BOOLEAN
    <3> DEFINE from == IF asking = "yes" THEN "master" ELSE "nobody"
    <3>2. CASE Send(CallTo("register", Keys, token, from))
      <4>1. from \in {"master", "listener", "nobody"} /\ token \in 0..MaxToken
        OBVIOUS
      <4>2. calls' \subseteq Calls
        BY <3>2, <4>1, Sent
      <4> QED BY <3>2, <4>2, SendHistory
    <3>3. CASE clean' = FALSE /\ UNCHANGED <<calls, lagging>>
      BY <3>3
    <3> QED BY <1>8, <3>2, <3>3 DEF PermissionAnswered
  <2> QED BY <1>8, <2>1 DEF PermissionAnswered
<1>9. ASSUME NEW c \in calls, Resume(c) PROVE Fields'
  <2>1. c \in Calls
    OBVIOUS
  <2>2. [c EXCEPT !.stage = "sent"] \in Calls
    BY <1>9, <2>1 DEF Resume, Calls, CallRecords
  <2> QED BY <1>9, <2>2 DEF Resume
<1>10. CASE PermissionRejected
  BY <1>10 DEF PermissionRejected
<1> QED
  BY <1>1, <1>2, <1>3, <1>4, <1>5, <1>6, <1>7, <1>8, <1>9, <1>10
  DEF Replies, CallSteps, PermissionSettles

LEMMA UserFields ==
  ASSUME Fields, ScreenTypes,
         Open \/ TurnOn \/ TurnOff \/ Rotate \/ \E k \in Keys : Toggle(k)
  PROVE  Fields'
<1> USE DEF Fields, system, query, screen
<1>0. token \in 0..MaxToken /\ 0 \in 0..MaxToken
  BY PushAssumption
<1>1. CASE Open
  <2>1. fetch'.data \in Data /\ fetch'.stage \in {"none", "asked", "served"}
    BY <1>1, Made DEF Open
  <2>2. clean' \in BOOLEAN
    BY <1>1 DEF Open
  <2> QED BY <1>1, <2>1, <2>2 DEF Open
<1>2. CASE TurnOn
  <2>1. clean' \in BOOLEAN
    BY <1>2 DEF TurnOn
  <2> QED BY <1>2, <2>1 DEF TurnOn
<1>3. CASE TurnOff
  BY <1>0, <1>3, Sent, SendHistory DEF TurnOff
<1>4. CASE Rotate
  <2>1. token' \in 1..MaxToken /\ token' \in 0..MaxToken
    BY <1>4, PushAssumption DEF Rotate
  <2>2. cache.prefs \in SUBSET Keys
    BY DEF Data
  <2>3. calls' \subseteq Calls /\ clean' \in BOOLEAN /\ lagging' \in BOOLEAN
    <3>1. CASE Send(CallTo("prefs", {}, token', "listener"))
      <4>1. calls' \subseteq Calls
        BY <2>1, <3>1, Sent
      <4> QED BY <3>1, <4>1, SendHistory
    <3>2. CASE Send(CallTo("register", cache.prefs, token', "listener"))
      <4>1. calls' \subseteq Calls
        BY <2>1, <2>2, <3>2, Sent
      <4> QED BY <3>2, <4>1, SendHistory
    <3>3. CASE lagging' = TRUE /\ UNCHANGED <<calls, clean>>
      BY <3>3
    <3> QED BY <1>4, <3>1, <3>2, <3>3 DEF Rotate
  <2> QED BY <1>4, <2>1, <2>3 DEF Rotate
<1>5. ASSUME NEW k \in Keys, Toggle(k) PROVE Fields'
  <2>1. PICK p \in SUBSET Keys : Send(CallTo("register", p, token, "nobody"))
    <3> DEFINE old == IF cache.registered THEN cache.prefs ELSE Keys
               new == IF k \in old THEN old \ {k} ELSE old \cup {k}
    <3>1. old \in SUBSET Keys
      BY DEF Data
    <3>2. new \in SUBSET Keys
      BY <3>1
    <3>3. Send(CallTo("register", new, token, "nobody"))
      BY <1>5 DEF Toggle
    <3> QED BY <3>2, <3>3
  <2> QED BY <1>0, <1>5, <2>1, Sent, SendHistory DEF Toggle
<1> QED BY <1>1, <1>2, <1>3, <1>4, <1>5

LEMMA FieldsStep ==
  ASSUME Fields, ScreenTypes, [Next]_vars
  PROVE  Fields'
<1> USE DEF Fields, system, query, screen
<1>1. CASE Unmount
  BY <1>1, UnmountFields DEF Unmount
<1>2. CASE Collected
  BY <1>2, Made DEF Collected
<1>3. CASE Connection \/ Reconnected
  <2>1. clean' \in BOOLEAN /\ online' \in BOOLEAN
    BY <1>3 DEF Connection, Reconnected
  <2> QED BY <1>3, <2>1, Made DEF Connection, Reconnected
<1>4. CASE UNCHANGED vars
  BY <1>4 DEF vars
<1> QED BY <1>1, <1>2, <1>3, <1>4, RepliesFields, UserFields DEF Next

\* What the screen's steps do to its operation.
ScreenInv == ScreenTypes /\ OperationInv

\* A call that is answered or dropped leaves fewer; one that is the switch's own
\* leaves none of its kind.
LEMMA LessCalls ==
  ASSUME Fields, ScreenInv, NEW c \in calls, calls' = calls \ {c},
         UNCHANGED <<shown, asking>>,
         IF c.from = "master" THEN master' \in {"enabled", "disabled-no-permission-asked"}
                              ELSE master' = master
  PROVE  ScreenInv'
<1> USE DEF ScreenInv, OperationInv, ScreenTypes
<1>1. master' \in MasterStates
  BY DEF MasterStates
<1>2. CASE c.from = "master"
  <2>1. \A d \in calls' : d.from # "master"
    BY <1>2
  <2>2. asking # "yes"
    BY <1>2
  <2> QED BY <1>1, <2>1, <2>2
<1>3. CASE c.from # "master"
  BY <1>1, <1>3 DEF Turning
<1> QED BY <1>2, <1>3

LEMMA ReplaceCall ==
  ASSUME Fields, ScreenInv, NEW c \in calls, NEW d, calls' = (calls \ {c}) \cup {d},
         UNCHANGED <<shown, asking, master>>,
         d.from = "master" => c.from = "master" /\ d.op = c.op
  PROVE  ScreenInv'
BY DEF ScreenInv, OperationInv, ScreenTypes, Turning

\* Without an operation of its own the switch may show anything but one.
LEMMA Synchronised ==
  ASSUME Fields, ScreenInv, NEW data \in Data, master' = Synced(data),
         UNCHANGED <<shown, asking, calls>>
  PROVE  ScreenInv'
<1> USE DEF ScreenInv, OperationInv, ScreenTypes
<1>1. CASE ~shown \/ data = cache \/ master \in TransitionStates \cup PermissionStates
  BY <1>1 DEF Synced, Turning
<1>2. CASE ~(~shown \/ data = cache \/ master \in TransitionStates \cup PermissionStates)
  <2>1. master' \in {"enabled", "disabled-no-permission-asked"}
    BY <1>2 DEF Synced, deriveInitialMasterState
  <2>2. asking \notin {"yes", "rejected"} /\ \A d \in calls : d.from # "master"
    BY <1>2 DEF Turning, TransitionStates
  <2> QED BY <2>1, <2>2 DEF MasterStates
<1> QED BY <1>1, <1>2

LEMMA RepliesScreen ==
  ASSUME Fields, ScreenInv, Replies
  PROVE  ScreenInv'
<1> USE DEF screen
<1>1. ASSUME NEW c \in calls, Serve(c) PROVE ScreenInv'
  <2>1. c \in CallRecords
    BY DEF Fields, Calls
  <2> DEFINE d == IF c.op # "prefs" THEN [c EXCEPT !.stage = "served", !.prefs = {}, !.token = 0]
                  ELSE [c EXCEPT !.stage = "served", !.prefs = row.prefs,
                                 !.op = IF row.registered THEN "opted-in" ELSE "opted-out"]
  <2>2. d.from = c.from
    BY <2>1 DEF CallRecords
  <2>3. c.op # "prefs" => d.op = c.op
    BY <2>1 DEF CallRecords
  <2>4. c.op = "prefs" => c.from # "master"
    BY DEF ScreenInv, OperationInv, Turning
  <2>5. calls' = (calls \ {c}) \cup {d} /\ UNCHANGED <<shown, asking, master>>
    BY <1>1 DEF Serve
  <2> HIDE DEF d
  <2> QED BY <2>2, <2>3, <2>4, <2>5, ReplaceCall
<1>2. ASSUME NEW c \in calls, Answer(c) \/ Fail(c) PROVE ScreenInv'
  <2>1. IF c.from = "master" THEN master' \in {"enabled", "disabled-no-permission-asked"}
                             ELSE master' = master
    BY <1>2 DEF Answer, Fail
  <2> QED BY <1>2, <2>1, LessCalls DEF Answer, Fail
<1>3. ASSUME NEW c \in calls, RotationAsked(c) PROVE ScreenInv'
  <2>1. c.from # "master" /\ UNCHANGED <<shown, asking, master>>
    BY <1>3 DEF ScreenInv, OperationInv, Turning, RotationAsked
  <2>2. CASE calls' = calls \ {c}
    BY <2>1, <2>2, LessCalls
  <2>3. CASE calls' = (calls \ {c}) \cup {CallTo("register", c.prefs, c.token, "listener")}
    <3>1. CallTo("register", c.prefs, c.token, "listener").from # "master"
      BY DEF CallTo
    <3> QED BY <2>1, <2>3, <3>1, ReplaceCall
  <2> QED BY <1>3, <2>2, <2>3 DEF RotationAsked
<1>4. CASE FetchServed \/ FetchFailed
  BY <1>4 DEF FetchServed, FetchFailed, ScreenInv, ScreenTypes, OperationInv, Turning
<1>5. CASE FetchAnswered
  BY <1>5, Synchronised DEF FetchAnswered, Fields
<1>6. CASE PermissionAnswered
  <2> DEFINE from == IF asking = "yes" THEN "master" ELSE "nobody"
             call == CallTo("register", Keys, token, from)
  <2>1. asking' = "no" /\ shown' = shown
    BY <1>6 DEF PermissionAnswered
  <2>2. asking \in {"yes", "left"}
    BY <1>6 DEF PermissionAnswered, ScreenInv, ScreenTypes
  <2>3. asking = "yes" => /\ shown /\ master = "enabling"
                          /\ \A d \in calls : d.from # "master"
    BY DEF ScreenInv, OperationInv
  <2>4. CASE calls' = calls \cup {call} /\ UNCHANGED master
    <3>1. call.from = from /\ call.op = "register"
      BY DEF CallTo
    <3> HIDE DEF call
    <3> QED BY <2>1, <2>2, <2>3, <2>4, <3>1
            DEF ScreenInv, ScreenTypes, OperationInv, Turning
  <2>5. CASE /\ calls' = calls
             /\ asking = "left" => master' = master
             /\ master' \in {master, "permission-denied", "disabled-no-permission-asked"}
    <3>1. master' \in MasterStates
      BY <2>5 DEF ScreenInv, ScreenTypes, MasterStates, PermissionStates
    <3> QED BY <2>1, <2>2, <2>3, <2>5, <3>1
            DEF ScreenInv, ScreenTypes, OperationInv, Turning
  <2>6. \/ Send(call) /\ UNCHANGED master
        \/ /\ calls' = calls
           /\ \/ asking = "left" /\ UNCHANGED master
              \/ asking = "yes"
                 /\ master' \in {"permission-denied", "disabled-no-permission-asked"}
    BY <1>6 DEF PermissionAnswered
  <2>7. CASE Send(call) /\ UNCHANGED master
    BY <2>4, <2>7 DEF Send
  <2>8. CASE /\ calls' = calls
             /\ \/ asking = "left" /\ UNCHANGED master
                \/ asking = "yes"
                   /\ master' \in {"permission-denied", "disabled-no-permission-asked"}
    BY <2>5, <2>8
  <2> QED BY <2>6, <2>7, <2>8
<1>7. ASSUME NEW c \in calls, Resume(c) PROVE ScreenInv'
  <2>1. c \in CallRecords
    BY DEF Fields, Calls
  <2> DEFINE d == [c EXCEPT !.stage = "sent"]
  <2>2. d.from = c.from /\ d.op = c.op
    BY <2>1 DEF CallRecords
  <2>3. calls' = (calls \ {c}) \cup {d} /\ UNCHANGED <<shown, asking, master>>
    BY <1>7 DEF Resume
  <2> HIDE DEF d
  <2> QED BY <2>2, <2>3, ReplaceCall
<1>8. CASE PermissionRejected
  BY <1>8 DEF PermissionRejected, ScreenInv, ScreenTypes, OperationInv, Turning
<1> QED
  BY <1>1, <1>2, <1>3, <1>4, <1>5, <1>6, <1>7, <1>8
  DEF Replies, CallSteps, PermissionSettles

LEMMA ScreenStep ==
  ASSUME Fields, ScreenInv, [Next]_vars
  PROVE  ScreenInv'
<1> USE DEF ScreenInv, ScreenTypes, OperationInv, screen
<1>1. CASE Open
  <2>1. master' \in MasterStates
    BY <1>1 DEF Open, deriveInitialMasterState, MasterStates
  <2> QED BY <1>1, <2>1 DEF Open
<1>2. CASE Unmount
  <2>1. \A c \in calls' : c.from # "master"
    <3>1. \A c \in calls : [c EXCEPT !.from = "nobody"].from = "nobody"
      BY DEF Fields, Calls, CallRecords
    <3> QED BY <1>2, <3>1 DEF Unmount
  <2>2. master' \in MasterStates /\ asking' \in {"no", "left"} /\ shown' = FALSE
    BY <1>2 DEF Unmount, MasterStates
  <2> QED BY <2>1, <2>2
<1>3. CASE TurnOn
  <2>1. \A c \in calls : c.from # "master"
    BY <1>3 DEF TurnOn, Turning, TransitionStates
  <2> QED BY <1>3, <2>1 DEF TurnOn, MasterStates, TransitionStates
<1>4. CASE TurnOff
  <2> DEFINE call == CallTo("unregister", {}, 0, "master")
  <2>1. asking \notin {"yes", "rejected"} /\ \A c \in calls : c.from # "master"
    BY <1>4 DEF TurnOff, Turning
  <2>2. call.from = "master" /\ call.op = "unregister"
    BY DEF CallTo
  <2>3. calls' = calls \cup {call} /\ master' = "disabling" /\ shown /\ UNCHANGED <<shown, asking>>
    BY <1>4 DEF TurnOff, Send
  <2> HIDE DEF call
  <2> QED BY <2>1, <2>2, <2>3 DEF Turning, MasterStates, TransitionStates
<1>5. CASE Rotate \/ \E k \in Keys : Toggle(k)
  <2>1. PICK new : /\ \A c \in new : c.from # "master"
                   /\ calls' = calls \cup new /\ UNCHANGED screen
    <3>1. \A op, p, t : /\ CallTo(op, p, t, "listener").from # "master"
                        /\ CallTo(op, p, t, "nobody").from # "master"
      BY DEF CallTo
    <3>2. CASE Rotate
      <4>1. CASE calls' = calls
        BY <3>2, <4>1 DEF Rotate
      <4>2. CASE \E op, p, t : Send(CallTo(op, p, t, "listener"))
        <5>1. PICK op, p, t : calls' = calls \cup {CallTo(op, p, t, "listener")}
          BY <4>2 DEF Send
        <5> DEFINE call == CallTo(op, p, t, "listener")
        <5>2. call.from # "master" /\ calls' = calls \cup {call}
          BY <3>1, <5>1
        <5>3. UNCHANGED screen
          BY <3>2 DEF Rotate
        <5> HIDE DEF call
        <5>4. \A c \in {call} : c.from # "master"
          BY <5>2
        <5> QED BY <5>2, <5>3, <5>4
      <4> QED BY <3>2, <4>1, <4>2 DEF Rotate
    <3>3. ASSUME NEW k \in Keys, Toggle(k)
          PROVE  \E new : /\ \A c \in new : c.from # "master"
                          /\ calls' = calls \cup new /\ UNCHANGED screen
      <4>1. PICK p : calls' = calls \cup {CallTo("register", p, token, "nobody")}
        BY <3>3 DEF Toggle, Send
      <4>2. \A c \in {CallTo("register", p, token, "nobody")} : c.from # "master"
        BY <3>1
      <4>3. UNCHANGED screen
        BY <3>3 DEF Toggle
      <4> QED BY <4>1, <4>2, <4>3
    <3> QED BY <1>5, <3>2, <3>3
  <2> QED BY <2>1 DEF Turning
<1>6. CASE Collected \/ Connection \/ Reconnected
  BY <1>6 DEF Collected, Connection, Reconnected, Turning
<1>7. CASE UNCHANGED vars
  BY <1>7 DEF vars, Turning
<1> QED
  BY <1>1, <1>2, <1>3, <1>4, <1>5, <1>6, <1>7, RepliesScreen
  DEF Next

LEMMA RowStep ==
  ASSUME Fields, RowInv, [Next]_vars
  PROVE  RowInv'
<1>1. ASSUME NEW c \in calls, Serve(c) PROVE RowInv'
  <2>1. c \in Calls /\ c.op \in {"register", "unregister", "prefs"}
    BY <1>1 DEF Serve, Fields, Calls, CallRecords
  <2>2. row' \in {Row(c.prefs, c.token), NoRow, row}
    BY <1>1, <2>1 DEF Serve
  <2> QED BY <2>1, <2>2 DEF RowInv, Row
<1>2. CASE UNCHANGED row
  BY <1>2 DEF RowInv
<1>3. Next => UNCHANGED row \/ \E c \in calls : Serve(c)
  BY DEF Next, Replies, CallSteps, PermissionSettles, Open, Unmount, TurnOn, TurnOff,
         Rotate, Toggle, Resume, Answer, Fail, RotationAsked, FetchServed, FetchFailed,
         FetchAnswered, PermissionAnswered, PermissionRejected, Collected, Connection,
         Reconnected
<1> QED BY <1>1, <1>2, <1>3 DEF vars

LEMMA PushInvariant == Spec => []PushInv
<1>1. Init => PushInv
  <2> SUFFICES ASSUME Init PROVE ScreenInv /\ RowInv
    BY InitFields DEF PushInv, ScreenInv
  <2>1. RowInv
    BY Made DEF Init, RowInv, Row
  <2>2. ScreenInv
    BY DEF Init, ScreenInv, ScreenTypes, OperationInv, MasterStates
  <2> QED BY <2>1, <2>2
<1>2. PushInv /\ [Next]_vars => PushInv'
  BY FieldsStep, ScreenStep, RowStep DEF PushInv, ScreenInv
<1> QED BY <1>1, <1>2, PTL DEF Spec

\* The screen, the listener, the calls and the query keep their types, and the
\* switch that waits for a permission is mounted and greyed out.
THEOREM PushTypeCorrect == Spec => []TypeOK
BY PushInvariant, FieldsAreTypes, PTL

(***************************************************************************)
(* What becomes of the calls                                               *)
(***************************************************************************)

\* A served call changes the row it asked to change, and else learns of it.
LEMMA Served ==
  ASSUME PushInv, NEW c \in calls, Serve(c)
  PROVE  \E d : /\ calls' = (calls \ {c}) \cup {d}
                /\ d.stage = "served" /\ d.from = c.from
                /\ \/ /\ c.op = "register" /\ d.op = "register"
                      /\ row'.registered /\ row'.token = c.token
                   \/ c.op = "unregister" /\ d.op = "unregister" /\ row' = NoRow
                   \/ /\ c.op = "prefs" /\ row' = row /\ d.token = c.token
                      /\ d.op = IF row.registered THEN "opted-in" ELSE "opted-out"
<1>1. c \in CallRecords /\ c.op \in {"register", "unregister", "prefs"}
  BY DEF PushInv, Fields, Calls, CallRecords, Serve
<1> DEFINE d == IF c.op # "prefs" THEN [c EXCEPT !.stage = "served", !.prefs = {}, !.token = 0]
                ELSE [c EXCEPT !.stage = "served", !.prefs = row.prefs,
                               !.op = IF row.registered THEN "opted-in" ELSE "opted-out"]
<1>2. calls' = (calls \ {c}) \cup {d}
  BY DEF Serve
<1>3. d.stage = "served" /\ d.from = c.from /\ (c.op = "prefs" => d.token = c.token)
  BY <1>1 DEF CallRecords
<1>4. /\ c.op # "prefs" => d.op = c.op
      /\ c.op = "prefs" => d.op = IF row.registered THEN "opted-in" ELSE "opted-out"
  BY <1>1 DEF CallRecords
<1>5. \/ c.op = "register" /\ row'.registered /\ row'.token = c.token
      \/ c.op = "unregister" /\ row' = NoRow
      \/ c.op = "prefs" /\ row' = row
  <2>1. c.prefs \in SUBSET Keys /\ c.token \in 0..MaxToken
    BY <1>1 DEF CallRecords
  <2> QED BY <1>1, <2>1, Made DEF Serve
<1> HIDE DEF d
<1> QED BY <1>2, <1>3, <1>4, <1>5

\* A call that is resumed is the same call, under way.
LEMMA Resumed ==
  ASSUME PushInv, NEW c \in calls, Resume(c)
  PROVE  \E d : /\ calls' = (calls \ {c}) \cup {d}
                /\ c.stage = "paused" /\ d.stage = "sent"
                /\ d.op = c.op /\ d.from = c.from /\ d.token = c.token
<1>1. c \in CallRecords
  BY DEF PushInv, Fields, Calls
<1> DEFINE d == [c EXCEPT !.stage = "sent"]
<1>2. d.stage = "sent" /\ d.op = c.op /\ d.from = c.from /\ d.token = c.token
  BY <1>1 DEF CallRecords
<1>3. calls' = (calls \ {c}) \cup {d} /\ c.stage = "paused"
  BY DEF Resume
<1> HIDE DEF d
<1> QED BY <1>2, <1>3

\* Unmounting the screen changes of a call only who waits for it.
LEMMA Unmounted ==
  ASSUME PushInv, Unmount
  PROVE  /\ \A d \in calls' : \E c \in calls :
              d.op = c.op /\ d.stage = c.stage /\ d.token = c.token /\ d.from # "master"
         /\ NoCall' <=> NoCall
         /\ (\A c, d \in calls : c = d) => \A c, d \in calls' : c = d
<1> DEFINE left(c) == IF c.from = "master" THEN [c EXCEPT !.from = "nobody"] ELSE c
<1>1. calls' = { left(c) : c \in calls }
  BY DEF Unmount
<1>2. \A c \in calls : /\ left(c).op = c.op /\ left(c).stage = c.stage
                       /\ left(c).token = c.token /\ left(c).from # "master"
  BY DEF PushInv, Fields, Calls, CallRecords
<1> HIDE DEF left
<1> QED BY <1>1, <1>2 DEF NoCall

(***************************************************************************)
(* Who is off stays off                                                    *)
(***************************************************************************)

\* Nothing that is cached, fetched, asked or in flight makes a row of a user whom
\* the app knows to be opted out.
OffInv ==
  off => /\ row = NoRow /\ ~cache.registered /\ ~fetch.data.registered
         /\ asking = "no"
         /\ \A c \in calls : c.op \notin {"register", "opted-in"}

LEMMA OffStep == PushInv /\ OffInv /\ [Next]_vars => OffInv'
<1> SUFFICES ASSUME PushInv, OffInv, [Next]_vars, off'
             PROVE  /\ row' = NoRow /\ ~cache'.registered /\ ~fetch'.data.registered
                    /\ asking' = "no"
                    /\ \A c \in calls' : c.op \notin {"register", "opted-in"}
  BY DEF OffInv
<1> USE Made DEF OffInv, system, query, screen
<1>1. CASE Open
  BY <1>1 DEF Open
<1>2. CASE Unmount
  <2>1. off /\ UNCHANGED <<row, cache, fetch>> /\ asking' = "no"
    BY <1>2 DEF Unmount
  <2> QED BY <1>2, <2>1, Unmounted
<1>3. CASE TurnOn \/ \E k \in Keys : Toggle(k)
  BY <1>3 DEF TurnOn, Toggle
<1>4. CASE TurnOff
  <2>1. calls' = calls \cup {CallTo("unregister", {}, 0, "master")}
    BY <1>4 DEF TurnOff, Send
  <2>2. CallTo("unregister", {}, 0, "master").op = "unregister"
    BY DEF CallTo
  <2> QED BY <1>4, <2>1, <2>2 DEF TurnOff
<1>5. CASE Rotate
  <2>1. off /\ ~cache.registered
    BY <1>5 DEF Rotate
  <2>2. calls' = calls \cup {CallTo("prefs", {}, token', "listener")}
    BY <1>5, <2>1 DEF Rotate, Send
  <2>3. CallTo("prefs", {}, token', "listener").op = "prefs"
    BY DEF CallTo
  <2> QED BY <1>5, <2>2, <2>3 DEF Rotate
<1>6. ASSUME NEW c \in calls, Serve(c)
      PROVE  /\ row' = NoRow /\ ~cache'.registered /\ ~fetch'.data.registered
             /\ asking' = "no"
             /\ \A d \in calls' : d.op \notin {"register", "opted-in"}
  <2>1. off /\ UNCHANGED <<cache, fetch, asking>>
    BY <1>6 DEF Serve
  <2> QED BY <1>6, <2>1, Served
<1>7. CASE \E c \in calls : Answer(c)
  BY <1>7 DEF Answer, invalidateQueries
<1>8. CASE \E c \in calls : Fail(c)
  BY <1>8 DEF Fail
<1>9. CASE \E c \in calls : RotationAsked(c)
  BY <1>9 DEF RotationAsked
<1>10. CASE FetchServed
  BY <1>10 DEF FetchServed, PushInv, Fields
<1>11. CASE FetchFailed
  BY <1>11 DEF FetchFailed
<1>12. CASE FetchAnswered
  <2>1. CASE off
    BY <1>12, <2>1 DEF FetchAnswered
  <2>2. CASE ~row.registered /\ ~fetch.data.registered /\ NoCall /\ asking = "no"
    BY <1>12, <2>2 DEF FetchAnswered, PushInv, RowInv, NoCall
  <2> QED BY <1>12, <2>1, <2>2 DEF FetchAnswered
<1>13. CASE PermissionAnswered
  BY <1>13 DEF PermissionAnswered
<1>14. CASE Collected \/ Connection \/ Reconnected
  BY <1>14 DEF Collected, Connection, Reconnected
<1>15. CASE UNCHANGED vars
  BY <1>15 DEF vars
<1>16. ASSUME NEW c \in calls, Resume(c)
       PROVE  /\ row' = NoRow /\ ~cache'.registered /\ ~fetch'.data.registered
              /\ asking' = "no"
              /\ \A d \in calls' : d.op \notin {"register", "opted-in"}
  <2>1. off /\ UNCHANGED <<row, cache, fetch, asking>>
    BY <1>16 DEF Resume
  <2> QED BY <1>16, <2>1, Resumed
<1>17. CASE PermissionRejected
  BY <1>17 DEF PermissionRejected
<1> QED
  BY <1>1, <1>2, <1>3, <1>4, <1>5, <1>6, <1>7, <1>8, <1>9, <1>10, <1>11, <1>12,
     <1>13, <1>14, <1>15, <1>16, <1>17 DEF Next, Replies, CallSteps, PermissionSettles

\* Whatever tokens rotate, whatever was cached and whatever call was lost, no row
\* appears for an opted-out user until a switch is operated.
THEOREM OffIsKept == Spec => []OffStaysOff
<1>1. Init => OffInv
  BY Made DEF Init, OffInv
<1>2. OffInv => OffStaysOff
  BY DEF OffInv, OffStaysOff
<1> QED BY <1>1, <1>2, OffStep, PushInvariant, PTL DEF Spec

(***************************************************************************)
(* The row's token                                                         *)
(***************************************************************************)

OneCall == \A c, d \in calls : c = d
Current == row.registered => row.token = token

\* What a call that met no other still owes, or has done, to the row.
OnItsWay(c) ==
  /\ c.op = "register" => IF c.stage = "served" THEN row.token = token
                                                ELSE c.token = token
  /\ c.op = "unregister" => IF c.stage = "served" THEN ~row.registered ELSE Current
  /\ c.op \in {"prefs", "opted-in"} => c.token = token
  /\ c.op = "opted-out" => ~row.registered

TokenInv ==
  ~lagging => /\ OneCall
              /\ NoCall => Current
              /\ \A c \in calls : OnItsWay(c)

\* A call that goes out alone, about the device's token, lets the row lag no more
\* than until it is answered.
LEMMA SentAlone ==
  ASSUME PushInv, TokenInv, ~lagging', NEW op, NEW p, NEW from, UNCHANGED row,
         Send(CallTo(op, p, token', from)), op \in {"register", "prefs"}
  PROVE  TokenInv'
<1> DEFINE call == CallTo(op, p, token', from)
<1>1. calls' = {call}
  BY DEF Send, NoCall
<1>2. call.op = op /\ call.stage # "served" /\ call.token = token'
  BY DEF CallTo
<1> HIDE DEF call
<1> QED BY <1>1, <1>2 DEF TokenInv, OneCall, NoCall, OnItsWay

LEMMA TokenStep == PushInv /\ TokenInv /\ [Next]_vars => TokenInv'
<1> SUFFICES ASSUME PushInv, TokenInv, [Next]_vars, ~lagging'
             PROVE  TokenInv'
  BY DEF TokenInv
<1> USE Made DEF system, query, screen
<1>1. CASE UNCHANGED <<row, token, calls, lagging>>
  BY <1>1 DEF TokenInv, OneCall, NoCall, Current, OnItsWay
<1>2. CASE Unmount
  <2>1. ~lagging /\ UNCHANGED <<row, token>>
    BY <1>2 DEF Unmount
  <2> QED BY <1>2, <2>1, Unmounted DEF TokenInv, OneCall, NoCall, Current, OnItsWay
<1>3. CASE TurnOff
  <2> DEFINE call == CallTo("unregister", {}, 0, "master")
  <2>1. calls' = {call} /\ NoCall /\ ~lagging /\ UNCHANGED <<row, token>>
    BY <1>3 DEF TurnOff, Send, NoCall
  <2>2. call.op = "unregister" /\ call.stage # "served"
    BY DEF CallTo
  <2> HIDE DEF call
  <2> QED BY <2>1, <2>2 DEF TokenInv, OneCall, NoCall, Current, OnItsWay
<1>4. CASE Rotate
  BY <1>4, SentAlone DEF Rotate
<1>5. ASSUME NEW k \in Keys, Toggle(k) PROVE TokenInv'
  <2>1. PICK p : Send(CallTo("register", p, token, "nobody")) /\ UNCHANGED <<row, token>>
    BY <1>5 DEF Toggle
  <2> QED BY <2>1, SentAlone
<1>6. ASSUME NEW c \in calls, Serve(c) PROVE TokenInv'
  <2>1. PICK d : /\ calls' = (calls \ {c}) \cup {d}
                 /\ d.stage = "served" /\ d.from = c.from
                 /\ \/ /\ c.op = "register" /\ d.op = "register"
                       /\ row'.registered /\ row'.token = c.token
                    \/ c.op = "unregister" /\ d.op = "unregister" /\ row' = NoRow
                    \/ /\ c.op = "prefs" /\ row' = row /\ d.token = c.token
                       /\ d.op = IF row.registered THEN "opted-in" ELSE "opted-out"
    BY <1>6, Served
  <2>2. ~lagging /\ token' = token /\ c.stage # "served"
    BY <1>6 DEF Serve
  <2>3. calls' = {d}
    BY <2>1, <2>2 DEF TokenInv, OneCall
  <2>4. OnItsWay(c)
    BY <2>2 DEF TokenInv
  <2>5. OnItsWay(d)'
    BY <2>1, <2>2, <2>4 DEF OnItsWay
  <2> QED BY <2>3, <2>5 DEF TokenInv, OneCall, NoCall
<1>7. ASSUME NEW c \in calls, Answer(c) PROVE TokenInv'
  <2>1. UNCHANGED <<row, token>> /\ calls' = calls \ {c} /\ c.stage = "served"
        /\ c.op \in {"register", "unregister"}
        /\ (lagging => row.token = token /\ calls = {c})
    BY <1>7 DEF Answer
  <2>2. calls' = {}
    BY <2>1 DEF TokenInv, OneCall
  <2>3. Current
    BY <2>1 DEF TokenInv, OnItsWay, Current
  <2> QED BY <2>1, <2>2, <2>3 DEF TokenInv, OneCall, NoCall, Current
<1>8. CASE \E c \in calls : Fail(c)
  BY <1>8 DEF Fail
<1>9. ASSUME NEW c \in calls, RotationAsked(c) PROVE TokenInv'
  <2>1. UNCHANGED <<row, token>> /\ ~lagging /\ OnItsWay(c) /\ calls = {c}
    <3>1. UNCHANGED <<row, token>>
      BY <1>9 DEF RotationAsked
    <3>2. lagging' = lagging \/ lagging' = (lagging \/ c.op = "opted-in")
      BY <1>9 DEF RotationAsked
    <3>3. ~lagging
      BY <3>2
    <3> QED BY <3>1, <3>3 DEF TokenInv, OneCall
  <2>2. CASE calls' = {CallTo("register", c.prefs, c.token, "listener")} /\ c.op = "opted-in"
    <3> DEFINE call == CallTo("register", c.prefs, c.token, "listener")
    <3>1. calls' = {call}
      BY <2>2
    <3>2. call.op = "register" /\ call.stage # "served" /\ call.token = c.token
      BY DEF CallTo
    <3> HIDE DEF call
    <3> QED BY <2>1, <2>2, <3>1, <3>2 DEF TokenInv, OneCall, NoCall, OnItsWay
  <2>3. CASE calls' = calls \ {c} /\ c.op = "opted-out"
    BY <2>1, <2>3 DEF RotationAsked, TokenInv, OneCall, NoCall, OnItsWay, Current
  <2> QED BY <1>9, <2>1, <2>2, <2>3 DEF RotationAsked
<1>10. CASE PermissionAnswered
  <2>1. CASE UNCHANGED calls
    BY <1>1, <1>10, <2>1 DEF PermissionAnswered, Send
  <2>2. CASE ~UNCHANGED calls
    <3>1. PICK from : Send(CallTo("register", Keys, token, from))
      BY <1>10, <2>2 DEF PermissionAnswered
    <3> QED BY <1>10, <3>1, SentAlone DEF PermissionAnswered
  <2> QED BY <2>1, <2>2
<1>11. ASSUME NEW c \in calls, Resume(c) PROVE TokenInv'
  <2>1. PICK d : /\ calls' = (calls \ {c}) \cup {d}
                 /\ c.stage = "paused" /\ d.stage = "sent"
                 /\ d.op = c.op /\ d.from = c.from /\ d.token = c.token
    BY <1>11, Resumed
  <2>2. ~lagging /\ UNCHANGED <<row, token>>
    BY <1>11 DEF Resume
  <2>3. calls' = {d} /\ OnItsWay(c)
    BY <2>1, <2>2 DEF TokenInv, OneCall
  <2> QED BY <2>1, <2>2, <2>3 DEF TokenInv, OneCall, NoCall, OnItsWay, Current
<1> QED
  BY <1>1, <1>2, <1>3, <1>4, <1>5, <1>6, <1>7, <1>8, <1>9, <1>10, <1>11
  DEF Next, Replies, CallSteps, PermissionSettles, Open, TurnOn, PermissionRejected,
      FetchServed, FetchFailed, FetchAnswered, Collected, Connection, Reconnected, vars

\* At rest the row holds the token the device has, once a registration was answered
\* undisturbed and until one fails, meets another, or finds no address: for any
\* number of tokens and of calls.
THEOREM TokenStaysCurrent == Spec => []TokenIsCurrent
<1>1. Init => TokenInv
  BY DEF Init, TokenInv, OneCall, NoCall, Current, NoRow, Row
<1>2. TokenInv => TokenIsCurrent
  BY DEF TokenInv, TokenIsCurrent, Current
<1> QED BY <1>1, <1>2, TokenStep, PushInvariant, PTL DEF Spec

(***************************************************************************)
(* The switch                                                              *)
(***************************************************************************)

\* A write that took effect and was not answered yet: what was fetched is old.
ServedWrite(c) == c.op \in {"register", "unregister"} /\ c.stage = "served"
Unanswered == \E c \in calls : ServedWrite(c)

DataInv ==
  /\ fetch = NoFetch /\ ~Unanswered => cache = Answered(row)
  /\ fetch.stage = "served" /\ ~Unanswered => fetch.data = Answered(row)

WrittenInv ==
  \A c \in calls : ServedWrite(c) => (row.registered <=> c.op = "register")

\* The switch is ahead of the cache, and right: the fetch it started will agree.
RightAlready ==
  /\ fetch # NoFetch
  /\ master = IF row.registered THEN "enabled" ELSE "disabled-no-permission-asked"
  /\ fetch.stage = "served" => fetch.data.registered = row.registered
  /\ \A c \in calls : c.op = "register" /\ row.registered

Settled ==
  \/ master \in PermissionStates
  \/ master = deriveInitialMasterState(cache)
  \/ RightAlready

\* Only the listener asks the backend for preferences, and never under a fetch.
ListenerInv ==
  \A c \in calls : /\ c.from = "listener" => fetch = NoFetch
                   /\ c.op \notin {"register", "unregister"} => c.from = "listener"

SwitchInv == asking = "no" /\ (\A c \in calls : c.from # "master") => Settled

CleanInv ==
  clean => /\ shown /\ asking \in {"no", "yes"} /\ (asking = "yes" => NoCall)
           /\ OneCall /\ ListenerInv /\ DataInv /\ WrittenInv /\ SwitchInv

\* A call goes out under a clean mount alone, and disturbs nothing.
LEMMA SentClean ==
  ASSUME PushInv, CleanInv, clean', NEW op \in {"register", "unregister", "prefs"},
         NEW p, NEW t, NEW from, Send(CallTo(op, p, t, from)),
         from = "listener" \/ op # "prefs",
         UNCHANGED <<row, shown, cache, fetch>>, asking' = "no"
  PROVE  /\ clean /\ calls = {} /\ SwitchInv' => CleanInv'
         /\ clean /\ calls = {} /\ calls' = {CallTo(op, p, t, from)}
         /\ CallTo(op, p, t, from).from = from /\ CallTo(op, p, t, from).op = op
         /\ from = "listener" => asking = "no" /\ fetch = NoFetch
<1> DEFINE call == CallTo(op, p, t, from)
<1>1. /\ clean /\ calls = {} /\ calls' = {call}
      /\ call.from = "listener" => asking = "no" /\ fetch = NoFetch
  BY DEF Send, NoCall
<1>2. call.stage # "served" /\ call.from = from /\ call.op = op
  BY DEF CallTo
<1> HIDE DEF call
<1>3. ~Unanswered /\ ~Unanswered'
  BY <1>1, <1>2 DEF Unanswered, ServedWrite
<1>4. DataInv'
  BY <1>1, <1>3 DEF CleanInv, DataInv
<1>5. OneCall' /\ ListenerInv' /\ WrittenInv'
  BY <1>1, <1>2 DEF OneCall, ListenerInv, WrittenInv, ServedWrite
<1>6. SwitchInv' => CleanInv'
  BY <1>1, <1>4, <1>5 DEF CleanInv
<1> QED BY <1>1, <1>2, <1>6 DEF call

LEMMA CleanUserStep ==
  ASSUME PushInv, CleanInv, clean',
         Open \/ TurnOn \/ TurnOff \/ Rotate \/ \E k \in Keys : Toggle(k)
  PROVE  CleanInv'
<1> USE Made DEF system, query, screen
<1>1. CASE Open
  <2>1. /\ fetch' = Asked /\ calls = {} /\ calls' = {} /\ asking' = "no" /\ shown'
        /\ master' = deriveInitialMasterState(cache')
    BY <1>1 DEF Open, NoCall
  <2> QED BY <2>1 DEF CleanInv, OneCall, ListenerInv, DataInv, WrittenInv, SwitchInv,
                      Settled
<1>2. CASE TurnOn
  <2>1. /\ clean /\ calls = {} /\ calls' = {} /\ asking' = "yes" /\ shown'
        /\ UNCHANGED <<row, cache, fetch>>
    BY <1>2 DEF TurnOn, NoCall
  <2> QED BY <2>1 DEF CleanInv, OneCall, ListenerInv, DataInv, WrittenInv, SwitchInv,
                      Unanswered, NoCall
<1>3. CASE TurnOff
  <2>1. asking = "no"
    BY <1>3 DEF TurnOff, PushInv, OperationInv, ScreenTypes, CleanInv, Send
  <2>2. /\ Send(CallTo("unregister", {}, 0, "master"))
        /\ UNCHANGED <<row, shown, cache, fetch, asking>>
    BY <1>3 DEF TurnOff
  <2>3. SwitchInv'
    BY <2>1, <2>2, SentClean DEF SwitchInv
  <2> QED BY <2>1, <2>2, <2>3, SentClean
<1>4. ASSUME NEW k \in Keys, Toggle(k) PROVE CleanInv'
  <2>1. PICK p : Send(CallTo("register", p, token, "nobody"))
    BY <1>4 DEF Toggle
  <2>2. asking = "no" /\ master = "enabled"
    BY <1>4 DEF Toggle, PushInv, OperationInv, ScreenTypes, CleanInv, Send
  <2>3. UNCHANGED <<row, shown, cache, fetch, asking, master>>
    BY <1>4 DEF Toggle
  <2>4. /\ clean /\ calls = {} /\ calls' = {CallTo("register", p, token, "nobody")}
        /\ CallTo("register", p, token, "nobody").op = "register"
    BY <2>1, <2>2, <2>3, SentClean
  <2>5. Settled
    BY <2>2, <2>4 DEF CleanInv, SwitchInv
  <2>6. Settled'
    BY <2>2, <2>3, <2>4, <2>5 DEF Settled, RightAlready, deriveInitialMasterState
  <2> QED BY <2>1, <2>2, <2>3, <2>4, <2>6, SentClean DEF SwitchInv
<1>5. CASE Rotate
  <2>1. UNCHANGED <<row, shown, cache, fetch, asking, master>>
    BY <1>5 DEF Rotate
  <2>2. CASE UNCHANGED <<calls, clean>>
    BY <2>1, <2>2 DEF CleanInv, NoCall, OneCall, ListenerInv, DataInv, WrittenInv,
                      SwitchInv, Settled, RightAlready, Unanswered
  <2>3. ASSUME NEW op \in {"register", "prefs"}, NEW p,
               Send(CallTo(op, p, token', "listener"))
        PROVE  CleanInv'
    <3>1. clean /\ calls = {} /\ asking = "no" /\ fetch = NoFetch
      BY <2>3 DEF Send, CallTo, NoCall
    <3>2. Settled'
      BY <2>1, <3>1 DEF CleanInv, SwitchInv, Settled, RightAlready
    <3> QED BY <2>1, <2>3, <3>1, <3>2, SentClean DEF SwitchInv
  <2> QED BY <1>5, <2>2, <2>3 DEF Rotate
<1> QED BY <1>1, <1>2, <1>3, <1>4, <1>5

LEMMA CleanServeStep ==
  ASSUME PushInv, CleanInv, clean', NEW c \in calls, Serve(c)
  PROVE  CleanInv'
<1>1. PICK d : /\ calls' = (calls \ {c}) \cup {d}
               /\ d.stage = "served" /\ d.from = c.from
               /\ \/ /\ c.op = "register" /\ d.op = "register"
                     /\ row'.registered /\ row'.token = c.token
                  \/ c.op = "unregister" /\ d.op = "unregister" /\ row' = NoRow
                  \/ /\ c.op = "prefs" /\ row' = row /\ d.token = c.token
                     /\ d.op = IF row.registered THEN "opted-in" ELSE "opted-out"
  BY Served
<1>2. clean /\ UNCHANGED <<shown, master, asking, cache, fetch>> /\ c.stage # "served"
  BY DEF Serve, screen, query
<1>3. calls = {c} /\ calls' = {d} /\ asking = "no"
  BY <1>1, <1>2 DEF CleanInv, OneCall, NoCall, PushInv, ScreenTypes
<1>4. WrittenInv' /\ OneCall' /\ ListenerInv'
  BY <1>1, <1>2, <1>3, Made
  DEF CleanInv, WrittenInv, ServedWrite, OneCall, ListenerInv
<1>5. DataInv'
  BY <1>1, <1>2, <1>3 DEF CleanInv, DataInv, Unanswered, ServedWrite
<1>6. ASSUME c.from # "master" PROVE Settled'
  <2>1. Settled
    BY <1>2, <1>3, <1>6 DEF CleanInv, SwitchInv
  <2>2. RightAlready => RightAlready'
    BY <1>1, <1>2, <1>3, Made DEF RightAlready
  <2> QED BY <1>2, <2>1, <2>2 DEF Settled
<1> QED BY <1>1, <1>2, <1>3, <1>4, <1>5, <1>6 DEF CleanInv, SwitchInv

LEMMA CleanResumeStep ==
  ASSUME PushInv, CleanInv, clean', NEW c \in calls, Resume(c)
  PROVE  CleanInv'
<1>1. PICK d : /\ calls' = (calls \ {c}) \cup {d}
               /\ c.stage = "paused" /\ d.stage = "sent"
               /\ d.op = c.op /\ d.from = c.from /\ d.token = c.token
  BY Resumed
<1>2. clean /\ UNCHANGED <<row, shown, master, asking, cache, fetch>>
  BY DEF Resume, screen, query
<1>3. calls = {c} /\ calls' = {d} /\ asking = "no"
  BY <1>1, <1>2 DEF CleanInv, OneCall, NoCall
<1>4. WrittenInv' /\ OneCall' /\ ListenerInv' /\ DataInv'
  BY <1>1, <1>2, <1>3
  DEF CleanInv, WrittenInv, Unanswered, ServedWrite, OneCall, ListenerInv, DataInv
<1>5. Settled => Settled'
  BY <1>1, <1>2, <1>3 DEF Settled, RightAlready
<1> QED BY <1>1, <1>2, <1>3, <1>4, <1>5 DEF CleanInv, SwitchInv

LEMMA CleanAnswerStep ==
  ASSUME PushInv, CleanInv, clean', NEW c \in calls, Answer(c)
  PROVE  CleanInv'
<1>1. /\ clean /\ UNCHANGED <<row, shown, asking, cache>> /\ ServedWrite(c)
      /\ calls' = calls \ {c}
  BY DEF Answer, ServedWrite
<1>2. calls = {c} /\ calls' = {} /\ fetch' = Asked
  BY <1>1 DEF CleanInv, OneCall, Answer, invalidateQueries, FirstFetch
<1>3. Settled'
  <2>1. CASE c.from = "master"
    <3>1. master' = IF row.registered THEN "enabled" ELSE "disabled-no-permission-asked"
      BY <1>1, <2>1 DEF Answer, CleanInv, WrittenInv, ServedWrite
    <3> QED BY <1>1, <1>2, <3>1, Made DEF Settled, RightAlready
  <2>2. CASE c.from # "master"
    <3>1. asking = "no"
      BY <1>1 DEF CleanInv, NoCall, PushInv, ScreenTypes
    <3>2. Settled /\ master' = master
      BY <1>1, <1>2, <2>2, <3>1 DEF CleanInv, SwitchInv, Answer
    <3> QED BY <1>1, <1>2, <3>2, Made DEF Settled, RightAlready
  <2> QED BY <2>1, <2>2
<1> QED BY <1>1, <1>2, <1>3, Made DEF CleanInv, SwitchInv, OneCall, ListenerInv, DataInv,
                                     WrittenInv, NoCall

LEMMA CleanRotationStep ==
  ASSUME PushInv, CleanInv, clean', NEW c \in calls, RotationAsked(c)
  PROVE  CleanInv'
<1>1. clean /\ UNCHANGED <<row, shown, asking, master, cache, fetch>>
  BY DEF RotationAsked, screen, query
<1>2. calls = {c} /\ c.from = "listener" /\ fetch = NoFetch /\ asking = "no"
  BY <1>1 DEF CleanInv, OneCall, ListenerInv, RotationAsked, NoCall, PushInv, ScreenTypes
<1>3. PICK new : /\ calls' = new
                 /\ \A d \in new : /\ new = {d} /\ d.from = "listener"
                                   /\ d.op = "register" /\ d.stage # "served"
  <2> DEFINE call == CallTo("register", c.prefs, c.token, "listener")
  <2>1. call.from = "listener" /\ call.op = "register" /\ call.stage # "served"
    BY DEF CallTo
  <2>2. calls' = {call} \/ calls' = {}
    BY <1>2 DEF RotationAsked
  <2> HIDE DEF call
  <2> QED BY <2>1, <2>2
<1>4. ~Unanswered /\ ~Unanswered'
  BY <1>2, <1>3 DEF Unanswered, ServedWrite, RotationAsked
<1>5. Settled'
  BY <1>1, <1>2 DEF CleanInv, SwitchInv, Settled, RightAlready
<1>6. OneCall' /\ ListenerInv' /\ WrittenInv'
  BY <1>1, <1>2, <1>3 DEF OneCall, ListenerInv, WrittenInv, ServedWrite
<1> QED BY <1>1, <1>2, <1>4, <1>5, <1>6 DEF CleanInv, SwitchInv, DataInv

LEMMA CleanFetchStep ==
  ASSUME PushInv, CleanInv, clean', FetchServed \/ FetchAnswered
  PROVE  CleanInv'
<1>1. clean /\ UNCHANGED <<row, shown, asking, calls>>
  BY DEF FetchServed, FetchAnswered, screen
<1>2. OneCall' /\ WrittenInv'
  BY <1>1 DEF CleanInv, OneCall, WrittenInv
<1>3. fetch # NoFetch
  BY Made DEF FetchServed, FetchAnswered
<1>4. ListenerInv'
  BY <1>1, <1>3 DEF CleanInv, ListenerInv
<1>5. CASE FetchServed
  <2>1. UNCHANGED <<cache, master>> /\ fetch' = [stage |-> "served", data |-> Answered(row)]
    BY <1>5 DEF FetchServed, screen
  <2>2. fetch' # NoFetch /\ fetch'.data = Answered(row)
    BY <2>1 DEF NoFetch
  <2>3. DataInv'
    BY <1>1, <2>2 DEF DataInv
  <2>4. row \in Rows
    BY DEF PushInv, Fields
  <2>5. Settled => Settled'
    BY <1>1, <2>1, <2>2, <2>4, Made DEF Settled, RightAlready
  <2> QED BY <1>1, <1>2, <1>4, <2>1, <2>3, <2>5 DEF CleanInv, SwitchInv, NoCall
<1>6. CASE FetchAnswered
  <2>1. fetch.stage = "served" /\ cache' = fetch.data /\ fetch' = NoFetch
        /\ master' = Synced(fetch.data)
    BY <1>6 DEF FetchAnswered
  <2>2. DataInv'
    BY <1>1, <2>1, Made DEF CleanInv, DataInv, Unanswered
  <2>3. ASSUME Settled, shown PROVE Settled'
    <3>1. CASE fetch.data = cache
      <4>1. UNCHANGED <<master, cache>>
        BY <2>1, <3>1 DEF Synced
      <4>2. CASE RightAlready
        BY <1>1, <2>1, <4>1, <4>2 DEF RightAlready, Settled, deriveInitialMasterState
      <4> QED BY <2>3, <4>1, <4>2 DEF Settled
    <3>2. CASE master \in PermissionStates
      BY <2>1, <3>2 DEF Synced, Settled
    <3>3. CASE master \notin PermissionStates /\ fetch.data # cache
      <4>1. master \notin TransitionStates
        BY <2>3, <3>3 DEF Settled, RightAlready, deriveInitialMasterState, TransitionStates
      <4> QED BY <2>1, <2>3, <3>3, <4>1 DEF Synced, Settled
    <3> QED BY <3>1, <3>2, <3>3
  <2> QED BY <1>1, <1>2, <1>4, <2>2, <2>3 DEF CleanInv, SwitchInv, NoCall
<1> QED BY <1>5, <1>6

LEMMA CleanStep == PushInv /\ CleanInv /\ [Next]_vars => CleanInv'
<1> SUFFICES ASSUME PushInv, CleanInv, [Next]_vars, clean'
             PROVE  CleanInv'
  BY DEF CleanInv
<1>1. CASE UNCHANGED <<row, shown, master, asking, calls, cache, fetch, clean>>
  BY <1>1 DEF CleanInv, NoCall, OneCall, ListenerInv, DataInv, WrittenInv, SwitchInv,
              Settled, RightAlready, Unanswered
<1>2. CASE Unmount
  BY <1>2 DEF Unmount
<1>3. CASE FetchFailed \/ PermissionRejected \/ \E c \in calls : Fail(c)
  BY <1>3 DEF FetchFailed, PermissionRejected, Fail
<1>4. CASE PermissionAnswered
  <2>1. PICK from : Send(CallTo("register", Keys, token, from)) /\ UNCHANGED master
        /\ from = (IF asking = "yes" THEN "master" ELSE "nobody")
    BY <1>4 DEF PermissionAnswered
  <2>2. asking' = "no" /\ UNCHANGED <<row, shown, cache, fetch>>
    BY <1>4 DEF PermissionAnswered, query
  <2>3. /\ clean /\ calls' = {CallTo("register", Keys, token, from)}
        /\ CallTo("register", Keys, token, from).from = from
    BY <2>1, <2>2, SentClean
  <2>4. from = "master"
    BY <1>4, <2>1, <2>3 DEF CleanInv, PermissionAnswered, PushInv, ScreenTypes
  <2>5. SwitchInv'
    BY <2>3, <2>4 DEF SwitchInv
  <2> QED BY <2>1, <2>2, <2>4, <2>5, SentClean
<1>5. CASE Collected
  BY <1>5 DEF Collected, CleanInv
<1>6. CASE Reconnected
  <2>1. /\ clean /\ calls = {} /\ calls' = {} /\ fetch' = Asked
        /\ UNCHANGED <<row, shown, master, asking, cache>>
    BY <1>6 DEF Reconnected, NoCall, screen
  <2>2. Settled => Settled'
    BY <1>6, <2>1 DEF Reconnected, Settled, RightAlready
  <2> QED BY <2>1, <2>2, Made DEF CleanInv, NoCall, OneCall, ListenerInv, DataInv, WrittenInv,
                                  SwitchInv
<1> QED
  BY <1>1, <1>2, <1>3, <1>4, <1>5, <1>6, CleanUserStep, CleanServeStep, CleanResumeStep,
     CleanAnswerStep, CleanRotationStep, CleanFetchStep
  DEF Next, Replies, CallSteps, PermissionSettles, Connection, vars, screen, query

\* Once a mount has fetched and nothing is in flight, the switch is on exactly when
\* the backend holds a row, or says what the permission lacks, as long as no call
\* failed and no two overlapped.
THEOREM SwitchStaysTruthful == Spec => []SwitchTellsTruth
<1>1. Init => CleanInv
  BY DEF Init, CleanInv
<1>2. PushInv /\ CleanInv => SwitchTellsTruth
  <2> SUFFICES ASSUME PushInv, CleanInv, clean, calls = {}, asking = "no", fetch = NoFetch,
                      master \notin PermissionStates
               PROVE  master = "enabled" <=> row.registered
    BY DEF SwitchTellsTruth, NoCall
  <2>1. ~Unanswered /\ Settled
    BY DEF CleanInv, SwitchInv, Unanswered
  <2>2. cache = Answered(row)
    BY <2>1 DEF CleanInv, DataInv
  <2>3. cache.registered = row.registered
    BY <2>2, Made DEF PushInv, Fields
  <2> QED BY <2>1, <2>3 DEF Settled, RightAlready, deriveInitialMasterState
<1> QED BY <1>1, <1>2, CleanStep, PushInvariant, PTL DEF Spec
=============================================================================
