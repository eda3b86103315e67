--------------------------- MODULE NetSessionProofs ---------------------------
(***************************************************************************)
(* Proofs about NetSession, for any number of calls.  Every property is    *)
(* preserved by each call on its own, given the types; HeadersAreSentOnce  *)
(* needs HeaderInv, and TraceIsOfLatestCall to know that a connection      *)
(* that does not exist is not kept open (KeptExists).                      *)
(***************************************************************************)
EXTENDS NetSession, TLAPS

USE MaxCallsAssumption

\* The number of a call that begins is a call's, and later than all before.
LEMMA CallBegins ==
    ASSUME TypeOK, BeginCall
    PROVE  /\ now' \in Call
           /\ now' = now + 1
           /\ now \in Nat
           /\ now' # None
BY DEF TypeOK, BeginCall, Call, Origin, None

\* Next, one disjunct for every call.
LEMMA NextIsACall ==
    ASSUME [Next]_vars
    PROVE  \/ RequestRefused \/ RequestDone \/ RequestNotPrepared \/ RequestFailed
           \/ TaskAdded \/ TaskNotStarted
           \/ ServerNotStored \/ \E keep_open \in BOOLEAN : ServerStored(keep_open)
           \/ MailNotPrepared \/ MailOnNewConnection \/ MailOnKeptConnection
           \/ SetHttpHeader \/ SetMailHeader \/ SetOption \/ OptionUnknown \/ Enquire
           \/ UNCHANGED vars
BY DEF Next, Request, Task, Server, Mail, Settings, Finished

-----------------------------------------------------------------------------
(* Types. *)

\* What a mail's headers and a request's add to the count keeps its type.
LEMMA CarryType ==
    ASSUME TypeOK, NEW hs, Carry(hs)
    PROVE  carried' \in [Call -> Nat]
BY DEF TypeOK, Carry

\* MapError leaves an error that is a call's or none.
LEMMA MapErrorType ==
    ASSUME NEW error \in Origin, NEW last \in Origin, MapError(error, last)
    PROVE  g_last_error' \in Origin /\ returned' \in {"ok", "error"}
BY DEF MapError

\* A connection that is there or takes the place of a missing one.
LEMMA StoredConnectionType ==
    ASSUME TypeOK
    PROVE  StoredConnection \in Connection
BY DEF TypeOK, StoredConnection, Connection, Origin

\* Every call keeps the types.
LEMMA TypeStep ==
    ASSUME TypeOK, [Next]_vars
    PROVE  TypeOK'
<1>1. CASE RequestRefused
  <2>1. now' \in Call BY <1>1, CallBegins DEF RequestRefused
  <2>2. g_last_error' \in Origin /\ returned' \in {"ok", "error"}
    BY <1>1, <2>1, MapErrorType DEF RequestRefused, Origin
  <2>. QED BY <1>1, <2>1, <2>2 DEF RequestRefused, TypeOK, Leaves, network, Origin, response, headers, history
<1>2. CASE RequestDone
  <2>1. now' \in Call BY <1>2, CallBegins DEF RequestDone
  <2>2. g_last_error' \in Origin /\ returned' \in {"ok", "error"}
    BY <1>2, <2>1, MapErrorType DEF RequestDone, Origin
  <2>3. carried' \in [Call -> Nat] BY <1>2, CarryType DEF RequestDone
  <2>. QED BY <1>2, <2>1, <2>2, <2>3
         DEF RequestDone, TypeOK, Leaves, network, Origin, Destroy, PublishResponse, ClearHttpHeaders
<1>3. CASE RequestNotPrepared
  <2>1. now' \in Call BY <1>3, CallBegins DEF RequestNotPrepared
  <2>2. g_last_error' \in Origin /\ returned' \in {"ok", "error"}
    BY <1>3, <2>1, MapErrorType DEF RequestNotPrepared, Origin
  <2>. QED BY <1>3, <2>1, <2>2
         DEF RequestNotPrepared, TypeOK, Leaves, network, Origin, Destroy, PublishResponse, ClearHttpHeaders, InitialCode
<1>4. CASE RequestFailed
  <2>1. now' \in Call BY <1>4, CallBegins DEF RequestFailed
  <2>2. g_last_error' \in Origin /\ returned' \in {"ok", "error"}
    BY <1>4, <2>1, MapErrorType DEF RequestFailed, Origin
  <2>3. carried' \in [Call -> Nat] BY <1>4, CarryType DEF RequestFailed
  <2>. QED BY <1>4, <2>1, <2>2, <2>3
         DEF RequestFailed, TypeOK, Leaves, network, Origin, Destroy, PublishResponse, ClearHttpHeaders, InitialCode
<1>5. CASE TaskAdded
  <2>1. now' \in Call BY <1>5, CallBegins DEF TaskAdded
  <2>2. g_last_error' \in Origin /\ returned' \in {"ok", "error"}
    BY <1>5, <2>1, MapErrorType DEF TaskAdded, Origin
  <2>3. carried' \in [Call -> Nat] BY <1>5, CarryType DEF TaskAdded
  <2>. QED BY <1>5, <2>1, <2>2, <2>3
         DEF TaskAdded, TypeOK, Leaves, network, Origin, Destroy, PublishResponse, ClearHttpHeaders, InitialCode, response
<1>6. CASE TaskNotStarted
  <2>1. now' \in Call BY <1>6, CallBegins DEF TaskNotStarted
  <2>2. g_last_error' \in Origin /\ returned' \in {"ok", "error"}
    BY <1>6, <2>1, MapErrorType DEF TaskNotStarted, Origin
  <2>. QED BY <1>6, <2>1, <2>2
         DEF TaskNotStarted, TypeOK, Leaves, network, Origin, Destroy, PublishResponse, ClearHttpHeaders, InitialCode, history
<1>7. CASE ServerNotStored
  <2>1. now' \in Call BY <1>7, CallBegins DEF ServerNotStored
  <2>2. g_last_error' \in Origin /\ returned' \in {"ok", "error"}
    BY <1>7, <2>1, MapErrorType DEF ServerNotStored, ConnectionRefused, Origin
  <2>. QED BY <1>7, <2>1, <2>2
         DEF ServerNotStored, ConnectionRefused, NotDestroyed, TraceStartsAfresh, TypeOK, Leaves, network, Origin,
             Destroy, PublishResponse, ClearHttpHeaders, InitialCode, history, response
<1>8. ASSUME NEW keep_open \in BOOLEAN, ServerStored(keep_open)
      PROVE  TypeOK'
  <2>1. now' \in Call BY <1>8, CallBegins DEF ServerStored
  <2>2. g_smtp_connection.error \in Origin BY DEF TypeOK, Connection
  <2>3. g_last_error' \in Origin /\ returned' \in {"ok", "error"}
    BY <1>8, <2>1, <2>2, MapErrorType DEF ServerStored, Origin
  <2>. QED BY <1>8, <2>1, <2>3
         DEF ServerStored, NotDestroyed, TraceStartsAfresh, TypeOK, Leaves, network, Origin, Connection,
             Destroy, PublishResponse, ClearHttpHeaders, InitialCode, history, response
<1>9. CASE MailNotPrepared
  <2>1. now' \in Call BY <1>9, CallBegins DEF MailNotPrepared
  <2>2. g_last_error' \in Origin /\ returned' \in {"ok", "error"}
    BY <1>9, <2>1, MapErrorType DEF MailNotPrepared, ConnectionRefused, AfterCleanUp, Origin
  <2>3. g_smtp_connection' \in Connection
    BY <1>9, StoredConnectionType DEF MailNotPrepared, TypeOK
  <2>. QED BY <1>9, <2>1, <2>2, <2>3
         DEF MailNotPrepared, ConnectionRefused, NotDestroyed, TraceStartsAfresh, TypeOK, Leaves, network, Origin,
             Destroy, PublishResponse, ClearHttpHeaders, ClearMailHeaders, InitialCode, history, response
<1>10. CASE MailOnNewConnection
  <2>1. now' \in Call BY <1>10, CallBegins DEF MailOnNewConnection
  <2>2. PICK r \in SendResults :
           /\ RecordSend(r)
           /\ g_curl_trace' = Transcript(r)
           /\ Destroy(InitialCode, None)
           /\ \E last \in AfterCleanUp(r.error) : MapError(r.error, last) /\ failed' = (last # None)
    BY <1>10 DEF MailOnNewConnection
  <2>3. r.error \in Origin BY <2>1 DEF SendResults, Origin
  <2>4. g_last_error' \in Origin /\ returned' \in {"ok", "error"}
    BY <2>1, <2>2, <2>3, MapErrorType DEF AfterCleanUp, Origin
  <2>5. carried' \in [Call -> Nat]
    BY <2>2, CarryType DEF RecordSend, TypeOK
  <2>6. latest_transfer' \in Origin /\ g_curl_trace' \in SUBSET Call
    BY <2>1, <2>2 DEF RecordSend, Transcript, TypeOK, Origin
  <2>7. g_smtp_connection' \in Connection BY <1>10, StoredConnectionType DEF MailOnNewConnection
  <2>8. failed' \in BOOLEAN BY <2>2
  <2>. QED BY <1>10, <2>1, <2>2, <2>4, <2>5, <2>6, <2>7, <2>8
         DEF MailOnNewConnection, TypeOK, Leaves, network, Origin, Destroy, PublishResponse, ClearHttpHeaders,
             ClearMailHeaders, InitialCode
<1>11. CASE MailOnKeptConnection
  <2>1. now' \in Call BY <1>11, CallBegins DEF MailOnKeptConnection
  <2>2. PICK r \in SendResults :
           /\ RecordSend(r)
           /\ g_curl_trace' = g_curl_trace \cup Transcript(r)
           /\ g_smtp_connection' \in
                {[g_smtp_connection EXCEPT !.error = e] :
                     e \in IF r.sent THEN {r.error} ELSE {r.error, None}}
           /\ \E last \in AfterCleanUp(None) :
                MapError(r.error, last) /\ failed' = (r.error # None \/ last # None)
    BY <1>11 DEF MailOnKeptConnection
  <2>3. r.error \in Origin BY <2>1 DEF SendResults, Origin
  <2>4. g_last_error' \in Origin /\ returned' \in {"ok", "error"}
    BY <2>1, <2>2, <2>3, MapErrorType DEF AfterCleanUp, Origin
  <2>5. carried' \in [Call -> Nat]
    BY <2>2, CarryType DEF RecordSend, TypeOK
  <2>6. latest_transfer' \in Origin /\ g_curl_trace' \in SUBSET Call
    BY <2>1, <2>2 DEF RecordSend, Transcript, TypeOK, Origin
  <2>7. g_smtp_connection' \in Connection
    BY <2>2, <2>3 DEF TypeOK, Connection, Origin
  <2>8. failed' \in BOOLEAN BY <2>2
  <2>. QED BY <1>11, <2>1, <2>4, <2>5, <2>6, <2>7, <2>8
         DEF MailOnKeptConnection, TypeOK, Leaves, network, Origin, NotDestroyed, ClearMailHeaders, response
<1>12. ASSUME NEW error \in {None, now'}, Plain(error)
       PROVE  /\ now' \in Call
              /\ g_last_error' \in Origin /\ returned' \in {"ok", "error"}
              /\ failed' \in BOOLEAN
              /\ UNCHANGED <<response, g_curl_info, g_curl_trace, g_smtp_connection, history, network>>
  <2>1. now' \in Call BY <1>12, CallBegins DEF Plain
  <2>. QED BY <1>12, <2>1, MapErrorType DEF Plain, Origin
<1>13. CASE SetHttpHeader
  <2>1. g_http_custom_headers' \in SUBSET Call
    BY <1>12, <1>13 DEF SetHttpHeader, HeaderMaps, TypeOK
  <2>. QED BY <1>12, <1>13, <2>1 DEF SetHttpHeader, TypeOK, Leaves, network, Origin, response, history
<1>14. CASE SetMailHeader
  <2>1. g_smtp_custom_headers' \in SUBSET Call
    BY <1>12, <1>14 DEF SetMailHeader, HeaderMaps, TypeOK
  <2>. QED BY <1>12, <1>14, <2>1 DEF SetMailHeader, TypeOK, Leaves, network, Origin, response, history
<1>15. CASE SetOption
  BY <1>12, <1>15 DEF SetOption, TypeOK, Leaves, network, Origin, response, history, headers
<1>16. CASE OptionUnknown
  BY <1>12, <1>16 DEF OptionUnknown, TypeOK, Leaves, network, Origin, response, history, headers
<1>17. CASE Enquire
  BY <1>12, <1>17 DEF Enquire, TypeOK, Leaves, network, Origin, response, history, headers
<1>18. CASE UNCHANGED vars
  BY <1>18 DEF vars, TypeOK, network, response, history, headers
<1>. QED BY NextIsACall, <1>1, <1>2, <1>3, <1>4, <1>5, <1>6, <1>7, <1>8, <1>9, <1>10, <1>11,
            <1>13, <1>14, <1>15, <1>16, <1>17, <1>18

\* Every variable of the session keeps its type, for any number of calls.
THEOREM SessionTypes == Spec => []TypeOK
<1>1. Init => TypeOK
  <2>1. None \in Origin /\ 0 \in Origin /\ {} \in SUBSET Call
    BY DEF None, Origin
  <2>2. [h \in Call |-> 0] \in [Call -> Nat]
    OBVIOUS
  <2>3. ASSUME Init
        PROVE  g_smtp_connection \in Connection
    BY <2>1, <2>3 DEF Init, Connection
  <2>. QED BY <2>1, <2>2, <2>3, Zenon DEF Init, TypeOK
<1>. QED BY <1>1, TypeStep, PTL DEF Spec

-----------------------------------------------------------------------------
(* Custom headers. *)

\* Nothing goes out without a transfer.
LEMMA CarryNothing ==
    ASSUME TypeOK, UNCHANGED carried
    PROVE  Carry({})
BY DEF TypeOK, Carry

\* A call that sends some of the waiting headers, and leaves waiting only
\* others and those it sets itself in one of the maps, preserves HeaderInv.
LEMMA HeadersStep ==
    ASSUME TypeOK, HeaderInv, BeginCall,
           NEW sent \in SUBSET (g_http_custom_headers \cup g_smtp_custom_headers), Carry(sent),
           g_http_custom_headers' \subseteq (g_http_custom_headers \cup {now'}) \ sent,
           g_smtp_custom_headers' \subseteq (g_smtp_custom_headers \cup {now'}) \ sent,
           ~ (now' \in g_http_custom_headers' /\ now' \in g_smtp_custom_headers')
    PROVE  HeaderInv'
<1> DEFINE waiting == g_http_custom_headers \cup g_smtp_custom_headers
<1>1. now' \in Call /\ now' = now + 1 /\ now \in Nat
  BY CallBegins
<1>2. \A h \in Call : h \in Int /\ carried[h] \in Nat
  BY DEF TypeOK, Call
<1>3. \A h \in Call : carried'[h] = IF h \in sent THEN carried[h] + 1 ELSE carried[h]
  BY DEF Carry
<1>4. \A h \in waiting : h \in Call /\ h <= now /\ carried[h] = 0
  BY DEF HeaderInv, TypeOK
<1>5. \A h \in Call : carried'[h] <= 1 /\ (h > now' => carried'[h] = 0)
  <2> TAKE h \in Call
  <2>1. CASE h \in sent
    BY <1>1, <1>2, <1>3, <1>4, <2>1
  <2>2. CASE h \notin sent
    BY <1>1, <1>2, <1>3, <2>2 DEF HeaderInv
  <2>. QED BY <2>1, <2>2
<1>6. \A h \in (g_http_custom_headers \cup g_smtp_custom_headers)' :
         h <= now' /\ carried'[h] = 0
  <2> TAKE h \in (g_http_custom_headers \cup g_smtp_custom_headers)'
  <2>1. CASE h = now'
    <3>1. h > now /\ carried[h] = 0 BY <1>1, <2>1 DEF HeaderInv
    <3>2. h \notin sent BY <1>1, <1>4, <3>1, <2>1
    <3>. QED BY <1>1, <1>3, <2>1, <3>1, <3>2
  <2>2. CASE h # now'
    <3>1. h \in waiting /\ h \notin sent BY <2>2
    <3>2. h \in Call /\ h <= now /\ carried[h] = 0 BY <1>4, <3>1
    <3>3. carried'[h] = carried[h] BY <1>3, <3>1, <3>2
    <3>. QED BY <1>1, <1>2, <3>2, <3>3
  <2>. QED BY <2>1, <2>2
<1>7. g_http_custom_headers' \cap g_smtp_custom_headers' = {}
  BY DEF HeaderInv
<1>. QED BY <1>5, <1>6, <1>7 DEF HeaderInv

\* Every call keeps what is known of the waiting headers.
LEMMA HeaderInvStep ==
    ASSUME TypeOK, HeaderInv, [Next]_vars
    PROVE  HeaderInv'
<1> DEFINE http == g_http_custom_headers
           smtp == g_smtp_custom_headers
<1>0. ASSUME BeginCall
      PROVE  now' \notin http /\ now' \notin smtp
  <2>1. \A h \in http \cup smtp : h <= now BY DEF HeaderInv
  <2>. QED BY <1>0, <2>1, CallBegins
<1>1. CASE RequestRefused
  BY <1>0, <1>1, CarryNothing, HeadersStep DEF RequestRefused, headers, history
<1>2. CASE RequestDone
  BY <1>0, <1>2, HeadersStep DEF RequestDone, Destroy, ClearHttpHeaders, HeaderInv
<1>3. CASE RequestNotPrepared
  BY <1>0, <1>3, CarryNothing, HeadersStep DEF RequestNotPrepared, Destroy, ClearHttpHeaders
<1>4. CASE RequestFailed
  BY <1>0, <1>4, HeadersStep DEF RequestFailed, Destroy, ClearHttpHeaders, HeaderInv
<1>5. CASE TaskAdded
  BY <1>0, <1>5, HeadersStep DEF TaskAdded, Destroy, ClearHttpHeaders, HeaderInv
<1>6. CASE TaskNotStarted
  BY <1>0, <1>6, CarryNothing, HeadersStep DEF TaskNotStarted, Destroy, ClearHttpHeaders, history
<1>7. CASE ServerNotStored
  BY <1>0, <1>7, CarryNothing, HeadersStep
     DEF ServerNotStored, ConnectionRefused, NotDestroyed, Destroy, ClearHttpHeaders, history
<1>8. ASSUME NEW keep_open \in BOOLEAN, ServerStored(keep_open)
      PROVE  HeaderInv'
  BY <1>0, <1>8, CarryNothing, HeadersStep
     DEF ServerStored, NotDestroyed, Destroy, ClearHttpHeaders, history
<1>9. CASE MailNotPrepared
  BY <1>0, <1>9, CarryNothing, HeadersStep
     DEF MailNotPrepared, ConnectionRefused, NotDestroyed, Destroy, ClearHttpHeaders,
         ClearMailHeaders, history
<1>10. CASE MailOnNewConnection
  <2>1. BeginCall /\ smtp' = {} /\ http' = {}
    BY <1>10 DEF MailOnNewConnection, ClearMailHeaders, Destroy, ClearHttpHeaders
  <2>2. Carry(smtp) \/ Carry({})
    BY <1>10, CarryNothing DEF MailOnNewConnection, RecordSend
  <2>. QED BY <2>1, <2>2, HeadersStep
<1>11. CASE MailOnKeptConnection
  <2>1. BeginCall /\ smtp' = {} /\ http' = http
    BY <1>11 DEF MailOnKeptConnection, ClearMailHeaders, NotDestroyed
  <2>2. Carry(smtp) \/ Carry({})
    BY <1>11, CarryNothing DEF MailOnKeptConnection, RecordSend
  <2>3. http \cap smtp = {} BY DEF HeaderInv
  <2>. QED BY <2>1, <2>2, <2>3, HeadersStep
<1>12. CASE SetHttpHeader
  <2>1. BeginCall /\ Carry({}) BY <1>12, CarryNothing DEF SetHttpHeader, Plain, history
  <2>2. http' \subseteq http \cup {now'} BY <1>12 DEF SetHttpHeader, HeaderMaps
  <2>3. smtp' = smtp BY <1>12 DEF SetHttpHeader
  <2>. QED BY <1>0, <2>1, <2>2, <2>3, HeadersStep
<1>13. CASE SetMailHeader
  <2>1. BeginCall /\ Carry({}) BY <1>13, CarryNothing DEF SetMailHeader, Plain, history
  <2>2. smtp' \subseteq smtp \cup {now'} BY <1>13 DEF SetMailHeader, HeaderMaps
  <2>3. http' = http BY <1>13 DEF SetMailHeader
  <2>. QED BY <1>0, <2>1, <2>2, <2>3, HeadersStep
<1>14. CASE SetOption \/ OptionUnknown \/ Enquire
  <2>1. BeginCall /\ Carry({}) /\ http' = http /\ smtp' = smtp
    BY <1>14, CarryNothing DEF SetOption, OptionUnknown, Enquire, Plain, history, headers
  <2>. QED BY <1>0, <2>1, HeadersStep
<1>15. CASE UNCHANGED vars
  BY <1>15 DEF vars, headers, history, HeaderInv
<1>. QED BY NextIsACall, <1>1, <1>2, <1>3, <1>4, <1>5, <1>6, <1>7, <1>8, <1>9, <1>10, <1>11,
            <1>12, <1>13, <1>14, <1>15

\* A header that waits has gone out with nothing, and waits in one map only.
THEOREM HeadersWaitOnce == Spec => []HeaderInv
<1>1. Init => HeaderInv
  BY DEF Init, HeaderInv
<1>. QED BY <1>1, HeaderInvStep, SessionTypes, PTL DEF Spec

\* A custom header goes out with at most one request or mail, whatever calls
\* succeed or fail in between.
THEOREM HeadersGoOutOnce == Spec => []HeadersAreSentOnce
<1>1. HeaderInv => HeadersAreSentOnce
  BY DEF HeaderInv, HeadersAreSentOnce
<1>. QED BY <1>1, HeadersWaitOnce, PTL
-----------------------------------------------------------------------------
(* Responses. *)

\* A call publishes its own response or none, or leaves what it found.
LEMMA ResponseStep ==
    ASSUME ResponseIsOfLatestCall, [Next]_vars
    PROVE  ResponseIsOfLatestCall'
<1> USE DEF ResponseIsOfLatestCall, Leaves, network
<1>1. CASE RequestRefused
  BY <1>1 DEF RequestRefused, response, history
<1>2. CASE RequestDone \/ RequestNotPrepared \/ RequestFailed
  BY <1>2 DEF RequestDone, RequestNotPrepared, RequestFailed, Destroy, PublishResponse, InitialCode
<1>3. CASE TaskAdded
  BY <1>3 DEF TaskAdded, Destroy, PublishResponse, InitialCode, response
<1>4. CASE TaskNotStarted
  BY <1>4 DEF TaskNotStarted, Destroy, PublishResponse, InitialCode, history
<1>5. CASE ServerNotStored
  BY <1>5 DEF ServerNotStored, ConnectionRefused, NotDestroyed, Destroy, PublishResponse,
              InitialCode, response, history
<1>6. ASSUME NEW keep_open \in BOOLEAN, ServerStored(keep_open)
      PROVE  ResponseIsOfLatestCall'
  BY <1>6 DEF ServerStored, NotDestroyed, Destroy, PublishResponse, InitialCode, response, history
<1>7. CASE MailNotPrepared
  BY <1>7 DEF MailNotPrepared, ConnectionRefused, NotDestroyed, Destroy, PublishResponse,
              InitialCode, response, history
<1>8. CASE MailOnNewConnection
  BY <1>8 DEF MailOnNewConnection, Destroy, PublishResponse, InitialCode
<1>9. CASE MailOnKeptConnection
  BY <1>9 DEF MailOnKeptConnection, NotDestroyed, response
<1>10. CASE SetHttpHeader \/ SetMailHeader \/ SetOption \/ OptionUnknown \/ Enquire
  BY <1>10 DEF SetHttpHeader, SetMailHeader, SetOption, OptionUnknown, Enquire, Plain,
               response, history
<1>11. CASE UNCHANGED vars
  BY <1>11 DEF vars, response, history
<1>. QED BY NextIsACall, <1>1, <1>2, <1>3, <1>4, <1>5, <1>6, <1>7, <1>8, <1>9, <1>10, <1>11

\* The response functions tell of the latest network call or of none, and where
\* that call leaves the response alone of the latest request that did not.
THEOREM ResponsesAreLatest == Spec => []ResponseIsOfLatestCall
<1>1. Init => ResponseIsOfLatestCall
  BY DEF Init, ResponseIsOfLatestCall
<1>. QED BY <1>1, ResponseStep, PTL DEF Spec

-----------------------------------------------------------------------------
(* Failures. *)

\* An error of this call, whichever way MapError gets it, fails the call.
LEMMA OwnErrorIsReported ==
    ASSUME TypeOK, BeginCall,
           NEW error \in {None, now'}, NEW last \in {None, now'},
           error # None \/ last # None, MapError(error, last)
    PROVE  FailureIsReported'
BY CallBegins DEF MapError, FailureIsReported

\* Every call reports its failure.
LEMMA FailureStep ==
    ASSUME TypeOK, FailureIsReported, [Next]_vars
    PROVE  FailureIsReported'
<1>1. ASSUME ~failed' PROVE FailureIsReported'
  BY <1>1 DEF FailureIsReported
<1>2. CASE RequestRefused
  BY <1>2, CallBegins, OwnErrorIsReported DEF RequestRefused
<1>3. CASE RequestDone
  <2>1. PICK error \in {None, now'} : MapError(error, None) /\ failed' = (error # None)
    BY <1>3 DEF RequestDone
  <2>. QED BY <1>1, <1>3, <2>1, OwnErrorIsReported DEF RequestDone
<1>4. CASE RequestNotPrepared
  BY <1>4, CallBegins, OwnErrorIsReported DEF RequestNotPrepared
<1>5. CASE RequestFailed
  BY <1>5, CallBegins, OwnErrorIsReported DEF RequestFailed
<1>6. CASE TaskAdded
  BY <1>1, <1>6 DEF TaskAdded
<1>7. CASE TaskNotStarted
  BY <1>7, CallBegins, OwnErrorIsReported DEF TaskNotStarted
<1>8. CASE ServerNotStored
  BY <1>8, CallBegins, OwnErrorIsReported DEF ServerNotStored, ConnectionRefused
<1>9. ASSUME NEW keep_open \in BOOLEAN, ServerStored(keep_open)
      PROVE  FailureIsReported'
  BY <1>1, <1>9 DEF ServerStored
<1>10. CASE MailNotPrepared
  BY <1>10, CallBegins, OwnErrorIsReported DEF MailNotPrepared, ConnectionRefused, AfterCleanUp
<1>11. CASE MailOnNewConnection
  <2>1. PICK r \in SendResults, last \in {None, now'} :
          MapError(r.error, last) /\ failed' = (last # None)
    BY <1>11 DEF MailOnNewConnection, SendResults, AfterCleanUp
  <2>2. r.error \in {None, now'} BY DEF SendResults
  <2>. QED BY <1>1, <1>11, <2>1, <2>2, OwnErrorIsReported DEF MailOnNewConnection
<1>12. CASE MailOnKeptConnection
  <2>1. PICK r \in SendResults, last \in {None, now'} :
          MapError(r.error, last) /\ failed' = (r.error # None \/ last # None)
    BY <1>12 DEF MailOnKeptConnection, AfterCleanUp
  <2>2. r.error \in {None, now'} BY DEF SendResults
  <2>. QED BY <1>1, <1>12, <2>1, <2>2, OwnErrorIsReported DEF MailOnKeptConnection
<1>13. CASE SetHttpHeader \/ SetMailHeader \/ SetOption \/ Enquire
  BY <1>1, <1>13 DEF SetHttpHeader, SetMailHeader, SetOption, Enquire, Plain
<1>14. CASE OptionUnknown
  BY <1>14, CallBegins, OwnErrorIsReported DEF OptionUnknown, Plain
<1>15. CASE UNCHANGED vars
  BY <1>15 DEF vars, FailureIsReported
<1>. QED BY NextIsACall, <1>2, <1>3, <1>4, <1>5, <1>6, <1>7, <1>8, <1>9, <1>10, <1>11, <1>12,
            <1>13, <1>14, <1>15

\* A call that fails says so, and the last error it leaves is its own.
THEOREM FailuresAreReported == Spec => []FailureIsReported
<1>1. Init => FailureIsReported
  BY DEF Init, FailureIsReported
<1>. QED BY <1>1, FailureStep, SessionTypes, PTL DEF Spec

-----------------------------------------------------------------------------
(* The trace. *)

\* A connection is kept open only if there is one.
KeptExists == g_smtp_connection.keep_open => g_smtp_connection.exists

TraceInv == KeptExists /\ TraceIsOfLatestCall

\* Every call leaves a trace of its own, or what it found.
LEMMA TraceStep ==
    ASSUME TypeOK, TraceInv, [Next]_vars
    PROVE  TraceInv'
<1> USE DEF TraceInv, KeptExists, TraceIsOfLatestCall, Leaves, network
<1>1. CASE RequestRefused
  BY <1>1 DEF RequestRefused, history
<1>2. CASE RequestDone \/ RequestNotPrepared \/ RequestFailed
  BY <1>2 DEF RequestDone, RequestNotPrepared, RequestFailed
<1>3. CASE TaskAdded \/ TaskNotStarted
  BY <1>3 DEF TaskAdded, TaskNotStarted, history
<1>4. CASE ServerNotStored
  BY <1>4 DEF ServerNotStored, ConnectionRefused, TraceStartsAfresh, history
<1>5. ASSUME NEW keep_open \in BOOLEAN, ServerStored(keep_open)
      PROVE  TraceInv'
  BY <1>5 DEF ServerStored, TraceStartsAfresh
<1>6. CASE MailNotPrepared
  BY <1>6 DEF MailNotPrepared, ConnectionRefused, StoredConnection, TraceStartsAfresh, history
<1>7. CASE MailOnNewConnection
  <2>1. PICK r \in SendResults : RecordSend(r) /\ g_curl_trace' = Transcript(r)
    BY <1>7 DEF MailOnNewConnection
  <2>2. g_curl_trace' \subseteq {latest_transfer'}
    BY <2>1 DEF RecordSend, Transcript
  <2>3. g_smtp_connection' = StoredConnection /\ ~StoredConnection.keep_open
    BY <1>7 DEF MailOnNewConnection
  <2>4. g_curl_trace' \subseteq {latest_call'}
    BY <1>7, <2>1 DEF MailOnNewConnection, Transcript
  <2>. QED BY <2>2, <2>3, <2>4
<1>8. CASE MailOnKeptConnection
  <2>1. g_smtp_connection.keep_open
    BY <1>8 DEF MailOnKeptConnection, StoredConnection
  <2>2. PICK e : g_smtp_connection' = [g_smtp_connection EXCEPT !.error = e]
    BY <1>8 DEF MailOnKeptConnection
  <2>3. g_smtp_connection'.keep_open /\ g_smtp_connection'.exists
    BY <2>1, <2>2 DEF TypeOK, Connection
  <2>4. "trace" \in leftover'
    BY <1>8 DEF MailOnKeptConnection
  <2>. QED BY <2>3, <2>4
<1>9. CASE SetHttpHeader \/ SetMailHeader \/ SetOption \/ OptionUnknown \/ Enquire
  BY <1>9 DEF SetHttpHeader, SetMailHeader, SetOption, OptionUnknown, Enquire, Plain, history
<1>10. CASE UNCHANGED vars
  BY <1>10 DEF vars, history
<1>. QED BY NextIsACall, <1>1, <1>2, <1>3, <1>4, <1>5, <1>6, <1>7, <1>8, <1>9, <1>10

\* The trace is that of the latest network call; where that call does not start it
\* afresh, and no connection is kept open, that of the latest transfer.
THEOREM TraceOfLatestCall == Spec => []TraceIsOfLatestCall
<1>1. Init => TraceInv
  BY DEF Init, TraceInv, KeptExists, TraceIsOfLatestCall
<1>2. TraceInv => TraceIsOfLatestCall
  BY DEF TraceInv
<1>. QED BY <1>1, <1>2, TraceStep, SessionTypes, PTL DEF Spec

-----------------------------------------------------------------------------
(* Errors of earlier calls. *)

\* Only a connection that is kept open remembers an error.
KeptRemembers == KeptExists /\ (g_smtp_connection.error # None => g_smtp_connection.keep_open)

\* What the property asks of one call.
OldErrorStep ==
    g_last_error' \notin {None, now'} =>
        /\ g_smtp_connection.keep_open
        /\ g_smtp_connection.error = g_last_error'
        /\ g_smtp_connection'.error = None
        /\ returned' = "error" /\ ~failed'

\* MapError without an error of an earlier call leaves none of an earlier call.
LEMMA OwnErrorOnly ==
    ASSUME NEW error \in {None, now'}, NEW last \in {None, now'}, MapError(error, last)
    PROVE  OldErrorStep
BY DEF MapError, OldErrorStep

\* A connection that takes the place of a missing one remembers nothing.
LEMMA StoredRemembers ==
    ASSUME TypeOK, KeptRemembers, g_smtp_connection' \in {g_smtp_connection, StoredConnection}
    PROVE  KeptRemembers'
BY DEF KeptRemembers, KeptExists, StoredConnection

\* Every call leaves an error of its own, or that of the kept connection.
LEMMA OldErrorsStep ==
    ASSUME TypeOK, KeptRemembers, Next
    PROVE  (OldErrorStep \/ UNCHANGED vars) /\ KeptRemembers'
<1>0. ASSUME UNCHANGED g_smtp_connection PROVE KeptRemembers'
  BY <1>0 DEF KeptRemembers, KeptExists
<1>1. CASE RequestRefused
  BY <1>0, <1>1, OwnErrorOnly DEF RequestRefused
<1>2. CASE RequestDone
  BY <1>0, <1>2, OwnErrorOnly DEF RequestDone
<1>3. CASE RequestNotPrepared
  BY <1>0, <1>3, OwnErrorOnly DEF RequestNotPrepared
<1>4. CASE RequestFailed
  BY <1>0, <1>4, OwnErrorOnly DEF RequestFailed
<1>5. CASE TaskAdded
  BY <1>0, <1>5, OwnErrorOnly DEF TaskAdded
<1>6. CASE TaskNotStarted
  BY <1>0, <1>6, OwnErrorOnly DEF TaskNotStarted
<1>7. CASE ServerNotStored
  BY <1>0, <1>7, OwnErrorOnly DEF ServerNotStored, ConnectionRefused
\* The connection that is replaced hands over what it remembers.
<1>8. ASSUME NEW keep_open \in BOOLEAN, ServerStored(keep_open)
      PROVE  OldErrorStep /\ KeptRemembers'
  <2>1. /\ g_smtp_connection' = [exists |-> TRUE, keep_open |-> keep_open, error |-> None]
        /\ \/ MapError(None, g_smtp_connection.error) \/ MapError(None, None)
        /\ ~failed'
    BY <1>8 DEF ServerStored
  <2>2. KeptRemembers'
    BY <2>1 DEF KeptRemembers, KeptExists
  <2>3. CASE MapError(None, None)
    BY <2>2, <2>3 DEF MapError, OldErrorStep
  <2>4. CASE MapError(None, g_smtp_connection.error)
    <3>1. /\ g_last_error' = g_smtp_connection.error
          /\ g_last_error' # None => returned' = "error"
      BY <2>4 DEF MapError
    <3>2. g_smtp_connection'.error = None
      BY <2>1
    <3>. QED BY <2>1, <2>2, <3>1, <3>2 DEF OldErrorStep, KeptRemembers
  <2>. QED BY <2>1, <2>2, <2>3, <2>4
<1>9. CASE MailNotPrepared
  <2>1. PICK error \in {None, now'}, last \in {None, now'} : MapError(error, last)
    BY <1>9 DEF MailNotPrepared, ConnectionRefused, AfterCleanUp
  <2>2. g_smtp_connection' \in {g_smtp_connection, StoredConnection}
    BY <1>9 DEF MailNotPrepared
  <2>. QED BY <2>1, <2>2, OwnErrorOnly, StoredRemembers
<1>10. CASE MailOnNewConnection
  <2>1. PICK r \in SendResults, last \in {None, now'} : MapError(r.error, last)
    BY <1>10 DEF MailOnNewConnection, SendResults, AfterCleanUp
  <2>2. r.error \in {None, now'} BY DEF SendResults
  <2>3. g_smtp_connection' \in {g_smtp_connection, StoredConnection}
    BY <1>10 DEF MailOnNewConnection
  <2>. QED BY <2>1, <2>2, <2>3, OwnErrorOnly, StoredRemembers
<1>11. CASE MailOnKeptConnection
  <2>1. PICK r \in SendResults, last \in {None, now'} : MapError(r.error, last)
    BY <1>11 DEF MailOnKeptConnection, AfterCleanUp
  <2>2. r.error \in {None, now'} BY DEF SendResults
  <2>3. PICK e : g_smtp_connection' = [g_smtp_connection EXCEPT !.error = e]
    BY <1>11 DEF MailOnKeptConnection
  <2>4. g_smtp_connection.keep_open
    BY <1>11 DEF MailOnKeptConnection, StoredConnection
  <2>5. g_smtp_connection'.keep_open /\ g_smtp_connection'.exists
    BY <2>3, <2>4 DEF TypeOK, Connection, KeptRemembers, KeptExists
  <2>6. KeptRemembers'
    BY <2>5 DEF KeptRemembers, KeptExists
  <2>. QED BY <2>1, <2>2, <2>6, OwnErrorOnly
<1>12. CASE SetHttpHeader \/ SetMailHeader \/ SetOption \/ OptionUnknown \/ Enquire
  <2>1. PICK error \in {None, now'} : Plain(error)
    BY <1>12 DEF SetHttpHeader, SetMailHeader, SetOption, OptionUnknown, Enquire
  <2>. QED BY <1>0, <2>1, OwnErrorOnly DEF Plain
<1>13. CASE UNCHANGED vars
  BY <1>0, <1>13 DEF vars
<1>. QED BY NextIsACall, <1>1, <1>2, <1>3, <1>4, <1>5, <1>6, <1>7, <1>8, <1>9, <1>10, <1>11,
            <1>12, <1>13

\* An error of an earlier call comes back only when a connection that was kept
\* open is replaced, fails that call, and does not come back again.
THEOREM OldErrorsComeBack == Spec => OldErrorsComeBackOnce
<1>1. Init => KeptRemembers
  BY DEF Init, KeptRemembers, KeptExists
<1>2. TypeOK /\ KeptRemembers /\ [Next]_vars => KeptRemembers'
  <2>1. ASSUME KeptRemembers, UNCHANGED vars PROVE KeptRemembers'
    BY <2>1 DEF vars, KeptRemembers, KeptExists
  <2>. QED BY <2>1, OldErrorsStep
<1>3. TypeOK /\ KeptRemembers /\ [Next]_vars
          => [g_last_error' \notin {None, now'} =>
                  /\ g_smtp_connection.keep_open
                  /\ g_smtp_connection.error = g_last_error'
                  /\ g_smtp_connection'.error = None
                  /\ returned' = "error" /\ ~failed']_vars
  BY OldErrorsStep DEF OldErrorStep
<1>. QED BY <1>1, <1>2, <1>3, SessionTypes, PTL DEF Spec, OldErrorsComeBackOnce

\* What BE_GetLastError.md says of every call does hold of a script that keeps no
\* connection open: the last error is that of the latest call.
THEOREM LastErrorsWithoutKeepOpen ==
    Spec /\ [](~ g_smtp_connection.keep_open) => []LastErrorIsOfThisCall
<1>1. Init => LastErrorIsOfThisCall
  BY DEF Init, LastErrorIsOfThisCall, None
<1>2. ASSUME ~ g_smtp_connection.keep_open, LastErrorIsOfThisCall,
             [g_last_error' \notin {None, now'} =>
                 /\ g_smtp_connection.keep_open
                 /\ g_smtp_connection.error = g_last_error'
                 /\ g_smtp_connection'.error = None
                 /\ returned' = "error" /\ ~failed']_vars
      PROVE  LastErrorIsOfThisCall'
  BY <1>2 DEF LastErrorIsOfThisCall, vars
<1>. QED BY <1>1, <1>2, OldErrorsComeBack, PTL DEF Spec, OldErrorsComeBackOnce
=============================================================================
