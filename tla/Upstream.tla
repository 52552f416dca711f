------------------------------ MODULE Upstream ------------------------------
(***************************************************************************)
(* The upstream module (module_upstream): the requests a worker handles in *)
(* one location.  Each asks its plugin for a message, sends it to a server *)
(* and hands the framed response to the plugin, whose answer goes to the   *)
(* client.  nginx calls the module's callbacks; the requests take turns in *)
(* the worker's event loop and share the location's configuration, where   *)
(* the handler keeps the plugin.                                           *)
(*                                                                         *)
(* Abstractions.  A request is a record; bytes are counted, of a frame     *)
(* only the flag (right or wrong) and the length matter.  Allocations do   *)
(* not fail.  abort_request is set but nginx never calls it.  Bytes that   *)
(* follow the response while the answer is being sent are not read.        *)
(*                                                                         *)
(* A request in InMemory is a subrequest that module_subrequest started:   *)
(* nginx keeps its answer in u->buffer, and once it is done its parent     *)
(* copies it from there (Collect); until then parent is set.               *)
(***************************************************************************)
EXTENDS Integers, Sequences

CONSTANTS
  Request,       \* the requests of the location
  InMemory,      \* those that are subrequests in memory
  Plugin,        \* the plugins loaded
  Named,         \* what each request's plugin_name says, or Nil (not set)
  Servers,       \* servers of upstream_pass, each tried once
  NextUpstream,  \* next_upstream: the failures after which another is tried
  Header,        \* NGX_ADPROTOCOL_HEADER_LENGTH (8 in the code)
  BufferSize,    \* upstream_buffer_size
  MaxLength,     \* bound on the length a frame announces
  MaxBody,       \* bound on the length of a plugin's answer
  Nil            \* no plugin, no frame

VARIABLES
  plugin,        \* mlcf->plugin
  req            \* req[r]: the request, its context and its ngx_http_upstream_t

vars == <<plugin, req>>

Failures == {"error", "timeout", "invalid_response"}

ASSUME SizeAssumption  ==
  /\ Servers \in Nat \ {0}
  /\ Header \in Nat
  /\ BufferSize \in Nat
  /\ MaxLength \in Nat
  /\ MaxBody \in Nat
ASSUME NilPluginAssumption == Nil \notin Plugin

(* The frame a server sends, as its first bytes announce it.               *)
Frame == [flag : BOOLEAN, length : 0 .. MaxLength]

Phases == {"new", "refused", "header", "body", "over"}

Status == {0, 408, 499, 500, 502, 504}

-----------------------------------------------------------------------------
(* ngx_http_protocol_decode.  Mutant: the header counts as body.           *)
DecodeHeaderAsBody(q) ==
  IF q.got < Header THEN "more"
  ELSE IF ~ q.frame.flag THEN "error"
  ELSE IF q.frame.length > q.got THEN "more" ELSE "ok"

Decode(q) ==
  IF q.got < Header THEN "more"
  ELSE IF ~ q.frame.flag THEN "error"
  ELSE IF q.frame.length > q.got - Header THEN "more" ELSE "ok"

(* ngx_upstream_process_body: nothing happens without a plugin.            *)
ProcessBody(q, p) == IF p = Nil THEN q ELSE [q EXCEPT !.handed = Append(@, p)]

(* ngx_upstream_destroy_crequest: the CRequest is deleted in any case.     *)
Destroy(q, p) == [q EXCEPT !.freed = Append(@, p)]

(* Mutant: the plugin is handed the response once more.                    *)
FinalizeAgain(q, p, rc) ==
  [Destroy(ProcessBody(q, p), p)
     EXCEPT !.has_processed = TRUE, !.phase = "over", !.out = 0]

(* finalize_request, called once when nginx is through with the upstream:  *)
(* a plugin that has not seen a response is told the status instead.       *)
Finalize(q, p, rc) ==
  LET told == [q EXCEPT !.status_code = IF rc # 0 THEN rc ELSE @,
                        !.has_processed = TRUE]
      seen == IF q.has_processed THEN q ELSE ProcessBody(told, p)
  IN [Destroy(seen, p) EXCEPT !.phase = "over", !.out = 0]

(* The next server is connected to.  reinit_request resets nothing; nginx  *)
(* itself empties the buffer.                                              *)
Connect(q, f) ==
  [q EXCEPT !.phase = "header", !.tries = @ - 1, !.frame = f, !.got = 0]

(* create_request: the message is framed, once for all servers, and the    *)
(* first of them is connected to.                                          *)
CreateRequest(q) == {Connect(q, f) : f \in Frame}

(* External.  ngx_http_upstream_next: the outcomes of a server's failure.  *)
NextServer(q, p, failure) ==
  IF q.tries > 0 /\ failure \in NextUpstream
  THEN {Connect(q, f) : f \in Frame}
  ELSE {Finalize(q, p, IF failure = "timeout" THEN 504 ELSE 502)}

(* What the plugin makes of a response: its verdict and the length of the  *)
(* answer in u->buffer (without a plugin, of the raw body).                *)
Answers(q, p) ==
  IF p = Nil THEN {[ok |-> FALSE, bytes |-> q.got - Header]}
  ELSE [ok : BOOLEAN, bytes : 0 .. MaxBody]

(* Mutant: the length is not set.                                          *)
FilterUninitialized(q, a) == [q EXCEPT !.length = -1]

(* filter_init.  content_length_n stays -1 if the plugin failed.           *)
FilterInit(q, a) == [q EXCEPT !.length = IF a.ok THEN a.bytes ELSE -1]

(* Mutant: a response that is too long is not discarded.                   *)
FilterUnchecked(q, bytes) ==
  [q EXCEPT !.out = @ + bytes, !.length = @ - bytes]

(* filter: bytes of u->buffer go to the client, unless too many.           *)
Filter(q, bytes) ==
  IF bytes > q.length
  THEN [q EXCEPT !.length = 0]
  ELSE [q EXCEPT !.out = @ + bytes, !.length = @ - bytes]

(* External.  nginx sends the answer; with nothing left to come and to     *)
(* send, it is through with the upstream.  In memory it sends nothing, and *)
(* reads on after an empty answer.                                         *)
SendResponse(q, p, bytes) ==
  LET f == IF bytes > 0 THEN Filter(q, bytes) ELSE q
      done == f.length = 0 /\ IF q.parent THEN bytes > 0 ELSE f.out = 0
  IN IF done THEN Finalize(f, p, 0) ELSE f

(* Mutants: the CRequest is deleted as soon as its plugin is done; the     *)
(* next server is tried when the plugin fails.                             *)
RespondAndDestroy(q, p, a) ==
  LET seen == [Destroy(ProcessBody(q, p), p) EXCEPT
                 !.has_processed = TRUE, !.accepted = a.ok, !.phase = "body"]
  IN {SendResponse(FilterInit(seen, a), p, a.bytes)}

RespondOrRetry(q, p, a) ==
  LET seen == [ProcessBody(q, p) EXCEPT
                 !.has_processed = TRUE, !.accepted = a.ok, !.phase = "body"]
  IN IF a.ok \/ q.tries = 0 THEN {SendResponse(FilterInit(seen, a), p, a.bytes)}
     ELSE {Connect(seen, f) : f \in Frame}

(* process_header, once the frame is whole; the plugin's failure is logged *)
(* and the request goes on.                                                *)
Respond(q, p, a) ==
  LET seen == [ProcessBody(q, p) EXCEPT
                 !.has_processed = TRUE, !.accepted = a.ok, !.phase = "body"]
  IN {SendResponse(FilterInit(seen, a), p, a.bytes)}

(* process_header and what nginx does with its result.                     *)
ProcessHeader(q, p) ==
  CASE Decode(q) = "error" -> {Finalize(q, p, 500)}
    [] Decode(q) = "more" /\ q.got < BufferSize -> {q}
    [] Decode(q) = "more" /\ q.got >= BufferSize ->
         NextServer(q, p, "invalid_response")
    [] Decode(q) = "ok" -> UNION {Respond(q, p, a) : a \in Answers(q, p)}

-----------------------------------------------------------------------------
Init ==
  /\ plugin = Nil
  /\ req = [r \in Request |->
              [phase |-> "new", parent |-> r \in InMemory,
               made |-> Nil, tries |-> Servers, frame |-> Nil,
               got |-> 0, has_processed |-> FALSE, status_code |-> 0,
               accepted |-> FALSE, length |-> -1, out |-> 0,
               handed |-> <<>>, freed |-> <<>>]]

Become(r, q) == req' = [req EXCEPT ![r] = q]

Refused(q) == [q EXCEPT !.phase = "refused"]

(* ngx_upstream_create_request calls the plugin's Handle.  If that fails   *)
(* or answers by itself (NGX_UPSTREAM_NOSEND), the request ends here.      *)
CallHandle(q, p) == {Refused(Destroy(q, p))} \cup CreateRequest(q)

(* Methods other than GET and HEAD, a body that cannot be discarded.       *)
Refuse(r) ==
  /\ req[r].phase = "new"
  /\ Become(r, Refused(req[r]))
  /\ UNCHANGED plugin

(* init_plugin: the location's plugin is set for this request; a name that *)
(* no plugin has clears it, a variable that is not set leaves it.          *)
InitPlugin(r) ==
  plugin' = IF Named[r] = Nil THEN plugin
            ELSE IF Named[r] \in Plugin THEN Named[r] ELSE Nil

(* The content handler.  Without a plugin the request ends; so it does     *)
(* when it cannot be converted, after its CRequest is destroyed.           *)
Handler(r) ==
  /\ req[r].phase = "new"
  /\ InitPlugin(r)
  /\ \/ Named[r] \notin Plugin /\ Become(r, Refused(req[r]))
     \/ /\ Named[r] \in Plugin
        /\ \E q \in CallHandle([req[r] EXCEPT !.made = Named[r]], plugin') :
             Become(r, q)

(* External.  The server's bytes arrive by pieces; nginx calls             *)
(* process_header.                                                         *)
Receive(r) ==
  /\ req[r].phase = "header"
  /\ \E got \in (req[r].got + 1) .. BufferSize :
       \E q \in ProcessHeader([req[r] EXCEPT !.got = got], plugin) :
         Become(r, q)
  /\ UNCHANGED plugin

(* External.  The server refuses, closes or stays silent for too long.     *)
ServerFails(r) ==
  /\ req[r].phase = "header"
  /\ \E failure \in {"error", "timeout"} :
       \E q \in NextServer(req[r], plugin, failure) : Become(r, q)
  /\ UNCHANGED plugin

(* External.  The answer's length is not known, or the answer was empty    *)
(* and is kept in memory: nginx reads on, until the server sends something *)
(* or closes, or fails.                                                    *)
Drain(r) ==
  /\ req[r].phase = "body"
  /\ req[r].length = -1 \/ (req[r].parent /\ req[r].length = 0)
  /\ \/ \E bytes \in 1 .. MaxBody :
          Become(r, SendResponse(req[r], plugin, bytes))
     \/ \E rc \in {0, 502, 504} : Become(r, Finalize(req[r], plugin, rc))
  /\ UNCHANGED plugin

(* External.  The client has taken the answer.                             *)
Flush(r) ==
  /\ req[r].phase = "body"
  /\ req[r].out > 0
  /\ Become(r, Finalize(req[r], plugin, 0))
  /\ UNCHANGED plugin

(* External.  The client leaves, or takes nothing for too long; a parent   *)
(* ends with its subrequest.                                               *)
ClientGone(r) ==
  /\ req[r].phase \in {"header", "body"}
  /\ \E rc \in {408, 499} :
       Become(r, [Finalize(req[r], plugin, rc) EXCEPT !.parent = FALSE])
  /\ UNCHANGED plugin

(* plugin_check_subrequest, in the handler of the parent, which nginx      *)
(* wakes when the subrequest is done: the answer is copied from u->buffer. *)
Collect(r) ==
  /\ req[r].phase = "over"
  /\ req[r].parent
  /\ Become(r, [req[r] EXCEPT !.parent = FALSE])
  /\ UNCHANGED plugin

Next ==
  \E r \in Request :
    \/ Refuse(r)
    \/ Handler(r)
    \/ Receive(r)
    \/ ServerFails(r)
    \/ Drain(r)
    \/ Flush(r)
    \/ ClientGone(r)
    \/ Collect(r)

Spec == Init /\ [][Next]_vars

(* Clients take their answers; of servers nothing is assumed.              *)
FairSpec == Spec /\ \A r \in Request : WF_vars(Flush(r))

-----------------------------------------------------------------------------
Requests ==
  [phase : Phases, parent : BOOLEAN, made : Plugin \cup {Nil},
   tries : 0 .. Servers, frame : Frame \cup {Nil}, got : 0 .. BufferSize, has_processed : BOOLEAN,
   status_code : Status, accepted : BOOLEAN, length : -1 .. MaxBody,
   out : 0 .. MaxBody, handed : Seq(Plugin), freed : Seq(Plugin \cup {Nil})]

(* Every field has the shape the C declarations give it; u->length never   *)
(* goes below the -1 that stands for "unknown".                            *)
TypeOK ==
  /\ plugin \in Plugin \cup {Nil}
  /\ req \in [Request -> Requests]

(* However a request that was sent to a server ends, by an answer, a bad   *)
(* frame, servers that fail one after the other or a client that leaves:   *)
(* ProcessBody was called exactly once, and the CRequest was destroyed     *)
(* exactly once (has_processed guards three callers), be it by the plugin  *)
(* of another request.  Not so where a name that no plugin has clears the  *)
(* location's plugin meanwhile.                                            *)
HandedOnce ==
  \A r \in Request : req[r].phase = "over" =>
    Len(req[r].handed) = 1 /\ Len(req[r].freed) = 1

(* A request is processed and destroyed by the plugin that made it: "the   *)
(* proper plugin to handle each http request" (README.md:14), though other *)
(* requests of the location name other plugins.                            *)
OwnPlugin ==
  \A r \in Request :
    /\ \A i \in DOMAIN req[r].handed : req[r].handed[i] = req[r].made
    /\ \A i \in DOMAIN req[r].freed : req[r].freed[i] = req[r].made

(* A plugin that is handed a response without a failure status is handed   *)
(* a whole frame of the right kind, however the bytes arrived and however  *)
(* many servers sent part of one before.                                   *)
WholeFrame ==
  \A r \in Request :
    LET q == req[r]
    IN (q.handed # <<>> /\ q.status_code = 0) =>
         q.frame.flag /\ q.got - Header >= q.frame.length

(* The client's buffers point into the CRequest's response_body: while any *)
(* of it is unsent, the CRequest exists.                                   *)
BodyAlive == \A r \in Request : req[r].out > 0 => req[r].freed = <<>>

(* Once the plugin has seen a response no other server is asked, and no    *)
(* byte is added to what it saw.                                           *)
OneServer ==
  [][\A r \in Request : req[r].has_processed =>
       /\ req'[r].tries = req[r].tries
       /\ req'[r].got = req[r].got]_vars

(* Once the plugin accepted a response, the request ends without any       *)
(* further event of the server.  Not so in memory: after an empty answer   *)
(* nginx waits for the server to close.                                    *)
PromptEnd ==
  \A r \in Request \ InMemory : req[r].accepted ~> req[r].phase = "over"

(* A CRequest is there for the whole life of its request (plugin.h:67):    *)
(* when the parent reads a subrequest's answer, which ProcessBody left in  *)
(* a string of the CRequest, the CRequest has not been destroyed.          *)
ReadAlive ==
  [][\A r \in Request : Collect(r) =>
       req[r].handed = <<>> \/ req[r].freed = <<>>]_vars
=============================================================================
