------------------------------ MODULE NetSession ------------------------------
(***************************************************************************)
(* What the network functions of one thread leave behind for each other:   *)
(* the last error, the response of the last request, libcurl's information *)
(* and trace, the custom headers and options of the next request, and the  *)
(* SMTP connection that BE_SMTPServer stores.  All of it is thread_local;  *)
(* one action is one call of a plug-in function.  Much of it is written by *)
(* the destructor of BECurl, which runs when a request is over, when       *)
(* another connection replaces the stored one, or when a constructor of    *)
(* the derived class throws.                                               *)
(*                                                                         *)
(* Abstracted: calls are numbered, and an error, a response or a header is *)
(* the number of the call it comes from (0: none), so that a property can  *)
(* tell whose it is.  An option is one that libcurl accepts or refuses.    *)
(***************************************************************************)
EXTENDS Integers

CONSTANT MaxCalls   \* bound on the calls made

ASSUME MaxCallsAssumption == MaxCalls \in Nat

None == 0
Call == 1..MaxCalls
Origin == Call \cup {None}

VARIABLES
    now,                      \* the number of the latest call
    returned,                 \* whether that call returned an error to FileMaker
    g_last_error,
    g_http_custom_headers,    \* the calls that set the headers in the map
    g_smtp_custom_headers,
    g_curl_options,
    g_http_response_code,
    g_http_response_headers,
    g_curl_info,
    g_curl_trace,             \* the calls whose transcript it holds
    g_smtp_connection,
    (* History variables, read by properties only. *)
    carried,                  \* how often a header went out with a request
    latest_request,           \* the latest request made of an HTTP or FTP server
    latest_transfer,          \* the latest call libcurl performed a transfer for
    latest_call,              \* the latest call that is not one of the Settings
    leftover,                 \* what of the session that call left as it was
    failed                    \* the latest call did not do what it is for

response == <<g_http_response_code, g_http_response_headers>>
headers == <<g_http_custom_headers, g_smtp_custom_headers>>
history == <<carried, latest_request, latest_transfer>>
network == <<latest_call, leftover>>
vars == <<now, returned, g_last_error, headers, g_curl_options, response, g_curl_info,
          g_curl_trace, g_smtp_connection, history, network, failed>>

Connection == [exists : BOOLEAN, keep_open : BOOLEAN, error : Origin]

TypeOK ==
    /\ now \in Origin
    /\ returned \in {"ok", "error"}
    /\ g_last_error \in Origin
    /\ g_http_custom_headers \in SUBSET Call
    /\ g_smtp_custom_headers \in SUBSET Call
    /\ g_curl_options \in SUBSET {"accepted", "refused"}
    /\ g_http_response_code \in Origin
    /\ g_http_response_headers \in Origin
    /\ g_curl_info \in Origin
    /\ g_curl_trace \in SUBSET Call
    /\ g_smtp_connection \in Connection
    /\ carried \in [Call -> Nat]
    /\ latest_request \in Origin
    /\ latest_transfer \in Origin
    /\ latest_call \in Origin
    /\ leftover \in SUBSET {"response", "trace"}
    /\ failed \in BOOLEAN

Init ==
    /\ now = 0
    /\ returned = "ok"
    /\ g_last_error = None
    /\ g_http_custom_headers = {}
    /\ g_smtp_custom_headers = {}
    /\ g_curl_options = {}
    /\ g_http_response_code = None
    /\ g_http_response_headers = None
    /\ g_curl_info = None
    /\ g_curl_trace = {}
    /\ g_smtp_connection = [exists |-> FALSE, keep_open |-> FALSE, error |-> None]
    /\ carried = [h \in Call |-> 0]
    /\ latest_request = None
    /\ latest_transfer = None
    /\ latest_call = None
    /\ leftover = {}
    /\ failed = FALSE

-----------------------------------------------------------------------------
(* Building blocks. *)

\* A call begins; NoError has cleared the last error.
BeginCall == now < MaxCalls /\ now' = now + 1

\* Mutant: only the function's own error decides what is returned.
MapOwnError(error, last) ==
    /\ g_last_error' = IF last # None THEN last ELSE error
    /\ returned' = IF error # None THEN "error" ELSE "ok"

\* Mutant: the function does not begin with NoError.
MapErrorOverLast(error, last) ==
    /\ g_last_error' = IF last # None THEN last ELSE IF error # None THEN error ELSE g_last_error
    /\ returned' = IF g_last_error' # None THEN "error" ELSE "ok"

\* MapError at the end of a call: the function's own error, unless something
\* (last) has set the last error since NoError; either makes the call fail.
MapError(error, last) ==
    /\ g_last_error' = IF last # None THEN last ELSE error
    /\ returned' = IF error # None \/ last # None THEN "error" ELSE "ok"

\* BECurl::Init: no response yet.
InitialCode == None

\* Mutant: the destructor publishes a response only if there is one.
PublishResponseIfAny(code, hdrs) ==
    /\ g_http_response_code' = IF code = None THEN g_http_response_code ELSE code
    /\ g_http_response_headers' = IF hdrs = None THEN g_http_response_headers ELSE hdrs

PublishResponse(code, hdrs) ==
    /\ g_http_response_code' = code
    /\ g_http_response_headers' = hdrs

\* Mutant: the headers are left for the script to clear.
KeepHttpHeaders == UNCHANGED g_http_custom_headers

ClearHttpHeaders == g_http_custom_headers' = {}

\* ~BECurl on this thread, but for the last error, which MapError takes up.
Destroy(code, hdrs) == PublishResponse(code, hdrs) /\ ClearHttpHeaders

NotDestroyed == UNCHANGED <<response, g_http_custom_headers>>

\* libcurl sends the headers hs with a request.
Carry(hs) == carried' = [h \in Call |-> IF h \in hs THEN carried[h] + 1 ELSE carried[h]]

OptionsAccepted == "refused" \notin g_curl_options

\* This is a call of a network function, which leaves as it was what is in left:
\* the response when no BECurl is destroyed on this thread, the trace when none
\* comes to the end of its Init.
Leaves(left) == latest_call' = now' /\ leftover' = left

-----------------------------------------------------------------------------
(* HTTP and FTP: BE_HTTP_GET, GETFile, POST, PUT, PATCH, DELETE, BE_FTP_*.  *)

\* The constructor of BECurl throws: its destructor does not run, and the
\* exception is not one the functions know, so the error is "unknown".
RequestRefused ==
    /\ BeginCall
    /\ \/ UNCHANGED g_curl_trace /\ Leaves({"response", "trace"})
       \/ g_curl_trace' = {} /\ Leaves({"response"})
    /\ MapError(now', None)
    /\ failed' = TRUE
    /\ UNCHANGED <<headers, g_curl_options, response, g_curl_info, g_smtp_connection, history>>

\* The transfer succeeds.  Setting the function's result may still fail.
RequestDone ==
    /\ BeginCall
    /\ OptionsAccepted
    /\ Leaves({})
    /\ g_curl_info' = now'
    /\ g_curl_trace' = {now'}
    /\ Destroy(now', now')
    /\ \E error \in {None, now'} : MapError(error, None) /\ failed' = (error # None)
    /\ Carry(g_http_custom_headers)
    /\ latest_request' = now'
    /\ latest_transfer' = now'
    /\ UNCHANGED <<g_smtp_custom_headers, g_curl_options, g_smtp_connection>>

\* The request cannot be prepared: nothing is sent.  GET and the deletions read
\* g_last_error before the destructor has set it, the others after that.
RequestNotPrepared ==
    /\ BeginCall
    /\ OptionsAccepted
    /\ Leaves({})
    /\ g_curl_trace' = {}
    /\ Destroy(InitialCode, None)
    /\ \E error \in {None, now'} : MapError(error, now')
    /\ failed' = TRUE
    /\ latest_request' = now'
    /\ UNCHANGED <<g_smtp_custom_headers, g_curl_options, g_curl_info, g_smtp_connection,
                   carried, latest_transfer>>

\* curl_easy_perform fails, or it succeeds and information about it cannot be
\* had: the response code may be there then, the headers are not.
RequestFailed ==
    /\ BeginCall
    /\ OptionsAccepted
    /\ Leaves({})
    /\ g_curl_trace' = {now'}
    /\ \/ Destroy(InitialCode, None) /\ g_curl_info' \in {g_curl_info, now'}
       \/ Destroy(now', None) /\ g_curl_info' = now'
    /\ \E error \in {None, now'} : MapError(error, now')
    /\ failed' = TRUE
    /\ Carry(g_http_custom_headers)
    /\ latest_request' = now'
    /\ latest_transfer' = now'
    /\ UNCHANGED <<g_smtp_custom_headers, g_curl_options, g_smtp_connection>>

\* BE_BackgroundTaskAdd: the worker transfers with its own thread's state, but
\* when this thread is the last to hold the BECurl its destructor runs here.
TaskAdded ==
    /\ BeginCall
    /\ OptionsAccepted
    /\ g_curl_trace' = {}
    /\ \/ /\ MapError(None, None) /\ ClearHttpHeaders /\ Leaves({"response"})
          /\ UNCHANGED <<response, latest_request>>
       \/ /\ MapError(None, None) /\ Destroy(now', now') /\ Leaves({})
          /\ latest_request' = now'
       \/ /\ MapError(None, now') /\ \E code \in {InitialCode, now'} : Destroy(code, None)
          /\ Leaves({})
          /\ latest_request' = now'
    /\ failed' = FALSE
    /\ g_curl_options' = {}
    /\ Carry(g_http_custom_headers)
    /\ UNCHANGED <<g_smtp_custom_headers, g_curl_info, g_smtp_connection, latest_transfer>>

\* The thread cannot be started, and the BECurl that did nothing is destroyed.
TaskNotStarted ==
    /\ BeginCall
    /\ OptionsAccepted
    /\ Leaves({})
    /\ g_curl_trace' = {}
    /\ Destroy(InitialCode, None)
    /\ MapError(now', None)
    /\ failed' = TRUE
    /\ UNCHANGED <<g_smtp_custom_headers, g_curl_options, g_curl_info, g_smtp_connection, history>>

-----------------------------------------------------------------------------
(* SMTP. *)

\* Mutant: the constructor leaves the trace alone.
TraceIsKept == UNCHANGED g_curl_trace

\* BECurl::Init starts the trace afresh.
TraceStartsAfresh == g_curl_trace' = {}

\* BE_SMTPServer stores a new connection and destroys the one stored before,
\* whose error becomes the last error of this call.
ServerStored(keep_open) ==
    /\ BeginCall
    /\ OptionsAccepted
    /\ TraceStartsAfresh
    /\ g_smtp_connection' = [exists |-> TRUE, keep_open |-> keep_open, error |-> None]
    /\ IF g_smtp_connection.exists
       THEN Destroy(InitialCode, None) /\ MapError(None, g_smtp_connection.error) /\ Leaves({})
       ELSE NotDestroyed /\ MapError(None, None) /\ Leaves({"response"})
    /\ failed' = FALSE
    /\ UNCHANGED <<g_smtp_custom_headers, g_curl_options, g_curl_info, history>>

\* A connection cannot be made.  When the constructor of BESMTP throws, that of
\* BECurl is over and its destructor runs; when that of BECurl throws, not.
ConnectionRefused ==
    \/ /\ NotDestroyed /\ MapError(now', None) /\ UNCHANGED g_curl_trace
       /\ Leaves({"response", "trace"})
    \/ Destroy(InitialCode, None) /\ MapError(now', now') /\ TraceStartsAfresh /\ Leaves({})

ServerNotStored ==
    /\ BeginCall
    /\ ConnectionRefused
    /\ failed' = TRUE
    /\ UNCHANGED <<g_smtp_custom_headers, g_curl_options, g_curl_info, g_smtp_connection, history>>

\* A connection without a host takes the place of a missing one.
StoredConnection ==
    IF g_smtp_connection.exists THEN g_smtp_connection
    ELSE [exists |-> TRUE, keep_open |-> FALSE, error |-> None]

\* ~BESMTPEmailMessage.
ClearMailHeaders == g_smtp_custom_headers' = {}

\* Removing the temporary attachments at the end of BE_SMTPSend overwrites the
\* last error when it fails.
AfterCleanUp(last) == {last, now'}

\* BE_SMTPSend fails before the message or the connection is complete.
MailNotPrepared ==
    /\ BeginCall
    /\ \/ /\ NotDestroyed /\ UNCHANGED <<g_curl_trace, g_smtp_connection>>
          /\ Leaves({"response", "trace"})
          /\ g_smtp_custom_headers' \in {g_smtp_custom_headers, {}}
          /\ \E last \in AfterCleanUp(None) : MapError(now', last)
       \/ /\ ConnectionRefused
          /\ ClearMailHeaders
          /\ ~StoredConnection.keep_open
          /\ g_smtp_connection' \in {g_smtp_connection, StoredConnection}
    /\ failed' = TRUE
    /\ UNCHANGED <<g_curl_options, g_curl_info, history>>

\* What BESMTP::send does: without recipients nothing, and that is a success;
\* otherwise it may fail before the transfer (the message) or in it.
SendResults ==
    [sent : {FALSE}, error : {None, now'}] \cup [sent : {TRUE}, error : {None, now'}]

RecordSend(r) ==
    /\ IF r.sent THEN Carry(g_smtp_custom_headers) ELSE UNCHANGED carried
    /\ latest_transfer' = IF r.sent THEN now' ELSE latest_transfer

Transcript(r) == IF r.sent THEN {now'} ELSE {}

\* Each mail has a connection of its own, which is destroyed at its end.  The
\* HTTP headers a connection is given are not sent: libcurl sends them with mails
\* it composes itself only.
MailOnNewConnection ==
    /\ BeginCall
    /\ OptionsAccepted
    /\ ~StoredConnection.keep_open
    /\ Leaves({})
    /\ g_smtp_connection' = StoredConnection
    /\ ClearMailHeaders
    /\ \E r \in SendResults :
         /\ RecordSend(r)
         /\ g_curl_trace' = Transcript(r)
         /\ Destroy(InitialCode, None)
         /\ \E last \in AfterCleanUp(r.error) :
              MapError(r.error, last) /\ failed' = (last # None)
    /\ UNCHANGED <<g_curl_options, g_curl_info, latest_request>>

\* The stored connection is used again: nothing is destroyed, the trace goes on,
\* and the connection remembers the error of the transfer, or that of setting an
\* option when it comes to no transfer.
MailOnKeptConnection ==
    /\ BeginCall
    /\ StoredConnection.keep_open
    /\ Leaves({"response", "trace"})
    /\ ClearMailHeaders
    /\ \E r \in SendResults :
         /\ RecordSend(r)
         /\ g_curl_trace' = g_curl_trace \cup Transcript(r)
         /\ g_smtp_connection' \in
              {[g_smtp_connection EXCEPT !.error = e] :
                   e \in IF r.sent THEN {r.error} ELSE {r.error, None}}
         /\ \E last \in AfterCleanUp(None) :
              MapError(r.error, last) /\ failed' = (r.error # None \/ last # None)
    /\ NotDestroyed
    /\ UNCHANGED <<g_curl_options, g_curl_info, latest_request>>

-----------------------------------------------------------------------------
(* Settings and enquiries. *)

\* A call that only changes a setting, or only reads something.
Plain(error) ==
    /\ BeginCall
    /\ MapError(error, None)
    /\ failed' = (error # None)
    /\ UNCHANGED <<response, g_curl_info, g_curl_trace, g_smtp_connection, history, network>>

\* set_name_value_pair: all are removed, one is removed, or one is set, which
\* replaces an earlier one of the same name.
HeaderMaps(old) ==
    {{}} \cup {old \ {h} : h \in old} \cup {old}
        \cup {(old \ {h}) \cup {now'} : h \in old} \cup {old \cup {now'}}

SetHttpHeader ==
    /\ Plain(None)
    /\ g_http_custom_headers' \in HeaderMaps(g_http_custom_headers)
    /\ UNCHANGED <<g_smtp_custom_headers, g_curl_options>>

SetMailHeader ==
    /\ Plain(None)
    /\ g_smtp_custom_headers' \in HeaderMaps(g_smtp_custom_headers)
    /\ UNCHANGED <<g_http_custom_headers, g_curl_options>>

\* BE_CurlSetOption: clear all, remove one that is there, set one.
SetOption ==
    /\ Plain(None)
    /\ \/ g_curl_options' = {}
       \/ \E o \in g_curl_options : g_curl_options' \in {g_curl_options, g_curl_options \ {o}}
       \/ \E o \in {"accepted", "refused"} : g_curl_options' = g_curl_options \cup {o}
    /\ UNCHANGED headers

\* The option to be removed is not there, or the one to be set is unknown.
OptionUnknown == Plain(now') /\ UNCHANGED <<headers, g_curl_options>>

\* BE_HTTP_ResponseCode, BE_HTTP_ResponseHeaders, BE_CurlGetInfo.
Enquire == Plain(None) /\ UNCHANGED <<headers, g_curl_options>>

-----------------------------------------------------------------------------

Request == RequestRefused \/ RequestDone \/ RequestNotPrepared \/ RequestFailed
Task == TaskAdded \/ TaskNotStarted
Server == ServerNotStored \/ \E keep_open \in BOOLEAN : ServerStored(keep_open)
Mail == MailNotPrepared \/ MailOnNewConnection \/ MailOnKeptConnection
Settings == SetHttpHeader \/ SetMailHeader \/ SetOption \/ OptionUnknown \/ Enquire

\* The script makes no more calls.
Finished == now = MaxCalls /\ UNCHANGED vars

Next == Request \/ Task \/ Server \/ Mail \/ Settings \/ Finished

Spec == Init /\ [][Next]_vars

-----------------------------------------------------------------------------
(* Properties. *)

\* A header that still waits in a map was set by an earlier call and has gone
\* out with nothing yet; no header waits in both maps.  (The inductive form of
\* HeadersAreSentOnce.)
HeaderInv ==
    /\ \A h \in Call : carried[h] <= 1 /\ (h > now => carried[h] = 0)
    /\ \A h \in g_http_custom_headers \cup g_smtp_custom_headers : h <= now /\ carried[h] = 0
    /\ g_http_custom_headers \cap g_smtp_custom_headers = {}

\* A custom header goes out with at most one request or mail, however the calls
\* before it ended: once sent, it never reaches a later one.  (One set for a
\* request that is refused before it is sent still waits, for the next.)
HeadersAreSentOnce == \A h \in Call : carried[h] <= 1

\* BE_HTTP_ResponseCode and BE_HTTP_ResponseHeaders tell of the latest network
\* call, or of none: after a failure they do not show the response of the call
\* before it, and never two calls' at once.  Excepted are the calls that destroy no
\* BECurl on this thread: a request or connection whose constructor throws, a mail
\* that is not prepared or goes out on a kept-open connection, a connection that
\* replaces none, a task that outlives its call.  After these the scripts still
\* see the latest request before them that did, contrary to BE_HTTP_ResponseCode.md.
ResponseIsOfLatestCall ==
    /\ "response" \notin leftover =>
           g_http_response_code \in {None, latest_call} /\ g_http_response_headers \in {None, latest_call}
    /\ g_http_response_code \in {None, latest_request}
    /\ g_http_response_headers \in {None, latest_request}

\* A call that fails returns an error and leaves an error of its own, also
\* where the function reads g_last_error before the destructor has written it.
FailureIsReported ==
    failed => returned = "error" /\ g_last_error = now

\* BE_CurlTrace shows nothing older than the latest network call.  Excepted are
\* the calls that make no BECurl: one whose constructor throws and a mail that is
\* not prepared leave the transcript of the latest transfer, and a mail on a
\* kept-open connection adds its own to what is there, contrary to BE_CurlTrace.md.
TraceIsOfLatestCall ==
    /\ "trace" \notin leftover => g_curl_trace \subseteq {latest_call}
    /\ ~g_smtp_connection.keep_open => g_curl_trace \subseteq {latest_transfer}

\* The error of an earlier call comes back in one case only: the call replaces a
\* connection that was kept open and remembers it.  That call fails with it, and
\* it does not come back again.
OldErrorsComeBackOnce ==
    [][g_last_error' \notin {None, now'} =>
           /\ g_smtp_connection.keep_open
           /\ g_smtp_connection.error = g_last_error'
           /\ g_smtp_connection'.error = None
           /\ returned' = "error" /\ ~failed']_vars

-----------------------------------------------------------------------------
(* What the code does not do. *)

\* BE_GetLastError.md: "the last error generated by the most recent plugin
\* function call", overridden on every call.
LastErrorIsOfThisCall == g_last_error \in {None, now}

=============================================================================
