---------------------------- MODULE MetricsObserver ----------------------------
(***************************************************************************)
(* MetricsObserver of the functional tests (functional-tests/lib/          *)
(* metrics.ts): a 'request' listener on the subscribe page that copies the *)
(* payments metrics events of each POST to /metrics into rawEvents, after  *)
(* expect()-checking their required fields.                                *)
(*                                                                         *)
(* The listener never reads rawEvents, so the model keeps only what one    *)
(* dispatch of a request appends to it.  A field value is abstracted to    *)
(* "absent" (undefined), "null", or a defined value; checkoutType keeps    *)
(* whether it is 'with-account'.                                           *)
(***************************************************************************)
EXTENDS Naturals, Sequences, SequencesExt, FiniteSets

CONSTANTS
    MaxListeners,   \* bound on the calls of startTracking
    EventTypes,     \* the event types the page may send
    DataFields      \* the fields of requestBody.data that may deviate

Global == {"flow_id", "planId", "productId", "type"}
SubscriptionCreate == {"checkoutType"}
SubscriptionPlanChange ==
    {"paymentProvider", "previousPlanId", "previousProductId",
     "subscriptionId", "uid"}

\* REQUIRED_FIELDS_BY_EVENT_TYPE_MAP.
RequiredFields ==
    "amplitude.subPaySetup.view" :> Global \cup SubscriptionCreate @@
    "amplitude.subPaySetup.engage" :> Global \cup SubscriptionCreate @@
    "amplitude.subPaySetup.submit" :>
        Global \cup SubscriptionCreate \cup {"paymentProvider"} @@
    "amplitude.subPaySetup.success" :>
        Global \cup SubscriptionCreate \cup
        {"paymentProvider", "country_code_source"} @@
    "amplitude.subPaySetup.fail" :>
        Global \cup SubscriptionCreate \cup {"paymentProvider", "error_id"} @@
    "amplitude.subPaySubChange.view" :> Global \cup SubscriptionPlanChange @@
    "amplitude.subPaySubChange.engage" :> Global \cup SubscriptionPlanChange @@
    "amplitude.subPaySubChange.submit" :> Global \cup SubscriptionPlanChange @@
    "amplitude.subPaySubChange.success" :>
        Global \cup SubscriptionPlanChange @@
    "amplitude.subPaySubChange.fail" :>
        Global \cup SubscriptionPlanChange \cup {"error_id"}

\* The tracked types that start with 'amplitude.subPaySubChange'.
SubChangeTypes ==
    {"amplitude.subPaySubChange.view", "amplitude.subPaySubChange.engage",
     "amplitude.subPaySubChange.submit", "amplitude.subPaySubChange.success",
     "amplitude.subPaySubChange.fail"}

AllDataFields ==
    UNION {RequiredFields[t] : t \in DOMAIN RequiredFields} \ {"type"}

ASSUME DataFields \subseteq AllDataFields /\ "checkoutType" \in DataFields

Defined == {"set", "with-account"}
Values == {"absent", "null"} \cup Defined

\* requestBody.data: every field defined, except at most one field of
\* DataFields that is missing or null; checkoutType may be 'with-account'.
AllSet(ct) == [f \in AllDataFields |-> IF f = "checkoutType" THEN ct ELSE "set"]
Datas ==
    {AllSet(ct) : ct \in Defined}
    \cup {[AllSet(ct) EXCEPT ![f] = v] :
            ct \in Defined, f \in DataFields, v \in {"absent", "null"}}

\* The requests the page sends: payments metrics POSTs with up to two
\* events, and one request of another kind.
Requests ==
    [isMetricsPost : {TRUE}, events : SeqOf(EventTypes, 2), data : Datas]
    \cup {[isMetricsPost |-> FALSE, events |-> <<>>,
           data |-> AllSet("set")]}

-----------------------------------------------------------------------------
(* The listener of startTracking, lines 94-125.                            *)

\* { ...eventBase, ...eventProperties }: the event's own fields are its
\* type; data adds every other field.
MergeEvent(type, data) == [f \in AllDataFields \cup {"type"} |->
                              IF f = "type" THEN type ELSE data[f]]

\* The expect() calls of lines 103-119: each required field is neither
\* null nor undefined, and uid is defined for 'with-account' checkouts and
\* plan changes (toBeDefined only).
PassesExpects(ev) ==
    /\ \A f \in RequiredFields[ev.type] : ev[f] \notin {"absent", "null"}
    /\ (ev.checkoutType = "with-account" \/ ev.type \in SubChangeTypes)
          => ev.uid # "absent"

\* Mutant: the event base is pushed instead of the merged rawEvent.
RECURSIVE ForEventsPushBase(_, _, _)
ForEventsPushBase(types, data, acc) ==
    IF types = <<>> THEN [pushed |-> acc, threw |-> FALSE]
    ELSE LET ev == MergeEvent(Head(types), data) IN
         IF ev.type \notin DOMAIN RequiredFields
         THEN ForEventsPushBase(Tail(types), data, acc)
         ELSE IF ~PassesExpects(ev)
         THEN [pushed |-> acc, threw |-> TRUE]
         ELSE ForEventsPushBase(Tail(types), data,
                                  Append(acc, [type |-> Head(types)]))

\* Mutant: the event is pushed before its expects run.
RECURSIVE ForEventsPushFirst(_, _, _)
ForEventsPushFirst(types, data, acc) ==
    IF types = <<>> THEN [pushed |-> acc, threw |-> FALSE]
    ELSE LET ev == MergeEvent(Head(types), data) IN
         IF ev.type \notin DOMAIN RequiredFields
         THEN ForEventsPushFirst(Tail(types), data, acc)
         ELSE IF ~PassesExpects(ev)
         THEN [pushed |-> Append(acc, ev), threw |-> TRUE]
         ELSE ForEventsPushFirst(Tail(types), data, Append(acc, ev))

\* The for loop over requestBody.events: untracked types are skipped; a
\* failing expect throws out of the listener, leaving the events pushed so
\* far.
RECURSIVE ForEvents(_, _, _)
ForEvents(types, data, acc) ==
    IF types = <<>> THEN [pushed |-> acc, threw |-> FALSE]
    ELSE LET ev == MergeEvent(Head(types), data) IN
         IF ev.type \notin DOMAIN RequiredFields
         THEN ForEvents(Tail(types), data, acc)
         ELSE IF ~PassesExpects(ev)
         THEN [pushed |-> acc, threw |-> TRUE]
         ELSE ForEvents(Tail(types), data, Append(acc, ev))

\* One call of the listener: only a POST to /metrics is read.
HandleRequest(r) ==
    IF r.isMetricsPost THEN ForEvents(r.events, r.data, <<>>)
    ELSE [pushed |-> <<>>, threw |-> FALSE]

\* page.emit('request'): the n registered listeners run in turn; a throw
\* ends the emit.
RECURSIVE Emit(_, _)
Emit(r, n) ==
    IF n = 0 THEN [pushed |-> <<>>, threw |-> FALSE]
    ELSE LET h == HandleRequest(r) IN
         IF h.threw THEN h
         ELSE LET rest == Emit(r, n - 1) IN
              [pushed |-> h.pushed \o rest.pushed, threw |-> rest.threw]

-----------------------------------------------------------------------------
VARIABLES
    listeners,  \* listeners registered by startTracking
    request,    \* the request last sent by the page
    heardBy,    \* the listeners registered when it was sent
    appended,   \* what its dispatch pushed onto rawEvents
    threw       \* an expect of its dispatch threw

vars == <<listeners, request, heardBy, appended, threw>>

NoRequest == [isMetricsPost |-> FALSE, events |-> <<>>, data |-> AllSet("set")]

TypeOK ==
    /\ listeners \in 0..MaxListeners
    /\ request \in Requests
    /\ heardBy \in 0..MaxListeners
    /\ appended \in Seq([AllDataFields \cup {"type"} ->
                          Values \cup DOMAIN RequiredFields])
    /\ threw \in BOOLEAN

Init ==
    /\ listeners = 0
    /\ request = NoRequest
    /\ heardBy = 0
    /\ appended = <<>>
    /\ threw = FALSE

\* startTracking: page.on('request', ...) adds one more listener.
startTracking ==
    /\ listeners < MaxListeners
    /\ listeners' = listeners + 1
    /\ UNCHANGED <<request, heardBy, appended, threw>>

\* The page sends a request; the 'request' event reaches the listeners.
PageSendsRequest ==
    \E r \in Requests :
        /\ request' = r
        /\ heardBy' = listeners
        /\ appended' = Emit(r, listeners).pushed
        /\ threw' = Emit(r, listeners).threw
        /\ UNCHANGED listeners

Next == startTracking \/ PageSendsRequest

Spec == Init /\ [][Next]_vars

-----------------------------------------------------------------------------
(***************************************************************************)
(* Reference and properties                                                *)
(***************************************************************************)

\* The tracked events of a request, merged with its data, in order.
TrackedEvents(r) ==
    IF ~r.isMetricsPost THEN <<>>
    ELSE SelectSeq([i \in 1..Len(r.events) |-> MergeEvent(r.events[i], r.data)],
                   LAMBDA ev : ev.type \in DOMAIN RequiredFields)

\* What the listeners should push, written without the loops: with no
\* failing event, each listener pushes every tracked event; otherwise the
\* first listener pushes the events before the first failing one and the
\* throw ends the emit.
ExpectedAppended(r, n) ==
    LET s == TrackedEvents(r)
        bad == {i \in 1..Len(s) : ~PassesExpects(s[i])}
    IN IF n = 0 THEN <<>>
       ELSE IF bad = {} THEN FoldLeft(LAMBDA acc, k : acc \o s, <<>>, [k \in 1..n |-> k])
       ELSE SubSeq(s, 1, Min(bad) - 1)

\* The request listener pushes onto rawEvents exactly the tracked events
\* that pass their expects, in the order of requestBody.events, stops at
\* the first that fails, and never pushes an untracked or failing event.
RecordsExpectedEvents ==
    appended = ExpectedAppended(request, heardBy)

\* The comment of lines 110-119: uid is required for existing accounts, so
\* every recorded 'with-account' event carries a uid.
WithAccountEventsHaveUid ==
    \A i \in 1..Len(appended) :
        appended[i].checkoutType = "with-account" =>
            appended[i].uid \notin {"absent", "null"}
=============================================================================
