-------------------------------- MODULE Handle --------------------------------
(***************************************************************************)
(* A request at a location with nginx_handle (module_handle): the plugin   *)
(* answers it in one call, at once or, for a POST, when the body is there. *)
(*                                                                         *)
(* Abstractions.  nginx's part is what ngx_http_request.c does for a       *)
(* request without a keepalive or a filter of its own: a reference count,  *)
(* finalization, and a writer for what the client does not take at once.   *)
(* Whether a plugin is found, what it returns and how fast the client      *)
(* reads is left open.  headers are not modelled.                          *)
(***************************************************************************)
EXTENDS Conversion

CONSTANTS
  Args,       \* query strings of requests
  Bodies,     \* bodies as nginx keeps them: sequences of buffers
  Status,     \* what a plugin leaves in headers_out.status
  None        \* no status, no CRequest

VARIABLES
  method,     \* of the request
  args,       \* r->args
  body,       \* r->request_body->bufs, once all of it is there
  arrived,    \* the body came in with the header
  pc,         \* the handler on the stack: content or post handler, its return
  count,      \* r->count
  rest,       \* of the response: nothing yet, waiting for the client, or sent
  status,     \* the status line sent, or None
  conn,       \* the connection: open, ended in good order, terminated
  crequest    \* the CRequest handed to Handle (history), or None

vars == <<method, args, body, arrived, pc, count, rest, status, conn, crequest>>

ASSUME ArgsAssumption == Args \subseteq Seq(Byte)

(* nginx keeps what does not fit into memory in one file.                  *)
ASSUME BodiesAssumption ==
  /\ Bodies \subseteq Seq(Buffer)
  /\ \A b \in Bodies : \A i, j \in DOMAIN b :
       b[i].kind = "file" /\ b[j].kind = "file" => i = j

ASSUME StatusAssumption ==
  Status \subseteq (100 .. 599) \cup {0} /\ None \notin Nat

Methods == {"GET", "HEAD", "POST", "other"}

(* The request is routed to the content handler.  A body is whole, or the  *)
(* client is still sending.                                                *)
Init ==
  /\ method \in Methods
  /\ args \in Args
  /\ body \in IF method = "POST" THEN Bodies ELSE {<<>>}
  /\ arrived \in IF body = <<>> THEN {TRUE} ELSE BOOLEAN
  /\ pc = "content"
  /\ count = 1
  /\ rest = "none"
  /\ status = None
  /\ conn = "open"
  /\ crequest = None

-----------------------------------------------------------------------------
(* External.  ngx_http_finalize_request once the response is in the state  *)
(* `o': what waits gets a writer; otherwise a reference is given back, and *)
(* the last one ends the request.                                          *)
Finalize(n, o) ==
  IF o = "waiting" THEN count' = n /\ UNCHANGED conn
  ELSE /\ count' = n - 1
       /\ conn' = IF n = 1 THEN "ended" ELSE conn

(* External.  ngx_http_terminate_request: whoever holds references.        *)
Terminate == conn' = "terminated" /\ count' = 0

(* A response goes out: with an error, as far as the client reads it, or   *)
(* all of it; then the request is finalized.                               *)
Respond(n, s) ==
  \/ Terminate /\ UNCHANGED <<rest, status>>
  \/ \E o \in {"waiting", "sent"} :
       /\ rest' = o
       /\ status' = s
       /\ Finalize(n, o)

(* What ngxr_to_crequest puts together.                                    *)
Converted ==
  [param |-> Param(args),
   body |-> IF method = "POST" THEN GetPostBody(body) ELSE 0]

InFile == \E i \in DOMAIN body : body[i].kind = "file"

(* ngx_http_handler_process and the finalization of its result, with n     *)
(* references: no plugin of the name, a body that cannot be read, or an    *)
(* answer.  The status is the one left in the CRequest, also when Handle   *)
(* failed: the 500 set for that is overwritten on the way out.             *)
Process(n) ==
  \/ Respond(n, 500) /\ UNCHANGED crequest
  \/ /\ crequest' = Converted
     /\ \E s \in Status, empty \in BOOLEAN : Respond(n, StatusOf(s, empty))

request == <<method, args, body, arrived>>

(* ngx_http_handle_handler, for a method it does not take ...              *)
Reject ==
  /\ pc = "content"
  /\ method = "other"
  /\ pc' = "idle"
  /\ Respond(count, 405)
  /\ UNCHANGED <<request, crequest>>

(* ... for GET and HEAD, answered before it returns ...                    *)
Answer ==
  /\ pc = "content"
  /\ method \in {"GET", "HEAD"}
  /\ pc' = "idle"
  /\ Process(count)
  /\ UNCHANGED request

(* Mutant: reading a body takes no reference.                              *)
ReadBodyUncounted ==
  /\ pc = "content"
  /\ method = "POST"
  /\ arrived
  /\ pc' = "post"
  /\ UNCHANGED <<request, count, rest, status, conn, crequest>>

(* ... and for POST, which reads the body.  External:                      *)
(* ngx_http_read_client_request_body takes a reference and calls the post  *)
(* handler at once if the body is there;                                   *)
ReadBody ==
  /\ pc = "content"
  /\ method = "POST"
  /\ arrived
  /\ count' = count + 1
  /\ pc' = "post"
  /\ UNCHANGED <<request, rest, status, conn, crequest>>

(* if it is not, NGX_AGAIN comes back for the reader to go on later.  The  *)
(* handler returns it, and nginx finalizes the request with it: the body's *)
(* reader is replaced by one that ignores the client, and the reference    *)
(* left is the body's.  A body that fails at once is an error.             *)
ReadBodyLater ==
  /\ pc = "content"
  /\ method = "POST"
  /\ ~ arrived
  /\ pc' = "idle"
  /\ \/ Finalize(count + 1, "none") /\ UNCHANGED <<rest, status>>
     \/ Respond(count, 400)
  /\ UNCHANGED <<request, crequest>>

(* Mutant: the post handler does not finalize.                             *)
PostHandlerLeaves ==
  /\ pc = "post"
  /\ pc' = "return"
  /\ crequest' = Converted
  /\ rest' = "sent"
  /\ status' = 200
  /\ UNCHANGED <<request, count, conn>>

(* ngx_http_handle_post_handler.                                           *)
PostHandler ==
  /\ pc = "post"
  /\ pc' = "return"
  /\ Process(count)
  /\ UNCHANGED request

(* The handler returns what reading the body returned, NGX_OK, and nginx   *)
(* finalizes the request once more.                                        *)
Return ==
  /\ pc = "return"
  /\ pc' = "idle"
  /\ IF conn = "terminated" THEN UNCHANGED <<count, conn>>
     ELSE Finalize(count, rest)
  /\ UNCHANGED <<request, rest, status, crequest>>

(* External.  ngx_http_writer: the client takes the rest; or it takes too  *)
(* long or goes away.                                                      *)
Flush ==
  /\ pc = "idle"
  /\ rest = "waiting"
  /\ conn = "open"
  /\ rest' = "sent"
  /\ Finalize(count, "sent")
  /\ UNCHANGED <<request, pc, status, crequest>>

WriteFails ==
  /\ pc = "idle"
  /\ rest = "waiting"
  /\ conn = "open"
  /\ Terminate
  /\ UNCHANGED <<request, pc, rest, status, crequest>>

Next ==
  \/ Reject
  \/ Answer
  \/ ReadBody
  \/ ReadBodyLater
  \/ PostHandler
  \/ Return
  \/ Flush
  \/ WriteFails

Spec == Init /\ [][Next]_vars

(* A handler on the stack runs to its end; the client reads or its time    *)
(* is up.                                                                  *)
FairSpec == Spec /\ WF_vars(Next)

-----------------------------------------------------------------------------
(* Every variable has its shape.                                           *)
TypeOK ==
  /\ method \in Methods
  /\ args \in Args
  /\ body \in Bodies \cup {<<>>}
  /\ arrived \in BOOLEAN
  /\ pc \in {"content", "post", "return", "idle"}
  /\ count \in 0 .. 2
  /\ rest \in {"none", "waiting", "sent"}
  /\ status \in (100 .. 599) \cup {None}
  /\ conn \in {"open", "ended", "terminated"}
  /\ crequest \in {None, Converted}

(* What a client sent for a body.                                          *)
Sent == FoldLeft(LAMBDA n, b : n + b.size, 0, body)

(* The plugin sees the body in full: from memory, from a file, or from     *)
(* both, never one that is still arriving.                                 *)
HandsWholeBody ==
  crequest # None => arrived = TRUE /\ crequest.body = Sent

(* A request ends in good order only when the handler is off the stack,    *)
(* nobody has a reference left, and the client was sent one full response. *)
EndsAnswered ==
  conn = "ended" =>
    pc = "idle" /\ count = 0 /\ rest = "sent" /\ status # None

(* The pieces of a string between delimiters, as places <<first, last>>.   *)
Pieces(s, delimiter) ==
  {p \in (1 .. Len(s)) \X (1 .. Len(s)) :
     /\ \A k \in p[1] .. p[2] : s[k] # delimiter
     /\ p[1] <= p[2]
     /\ p[1] = 1 \/ s[p[1] - 1] = delimiter
     /\ p[2] = Len(s) \/ s[p[2] + 1] = delimiter}

(* Two ways to write what a query means agree with what is handed over:    *)
(* a parameter is there for each piece with a key, and its value is the    *)
(* first such piece's.                                                     *)
KeyOf(s, p) ==
  LET b == Scan(s, p[1], Byte \ {Space})
      word == SubSeq(s, b, p[2])
  IN IF b > p[2] THEN <<>> ELSE SubSeq(word, 1, Scan(word, 1, {Equal}) - 1)

ParamsRight ==
  crequest # None =>
    LET s == ReplaceAll(args, Tab, Space)
        Keyed == {p \in Pieces(s, Amp) : KeyOf(s, p) # <<>>}
    IN /\ DOMAIN crequest.param = {KeyOf(s, p) : p \in Keyed}
       /\ \A k \in DOMAIN crequest.param :
            LET p == CHOOSE q \in Keyed :
                       /\ KeyOf(s, q) = k
                       /\ \A o \in Keyed : KeyOf(s, o) = k => q[1] <= o[1]
                at == Scan(s, p[1], {Equal})
            IN crequest.param[k] = UriDecode(SubSeq(s, at + 1, p[2]))

(* What is encoded is decoded to what it was.                              *)
RoundTrip == UriDecode(UriEncode(args)) = args

(* A decoded form is what it should be, escapes in the right places and a  *)
(* space for each '+', if no '+' is among the last two characters: each    *)
(* character that is not the digit of an escape becomes one, in order.     *)
DecodesForms ==
  LET n == Len(args)
      Escapes == {i \in 1 .. n : Escape(args, i)}
      Kept == (1 .. n) \ UNION {{i + 1, i + 2} : i \in Escapes}
      Meant(i) == IF i \in Escapes THEN Escaped(args, i)
                  ELSE IF args[i] = Plus THEN Space ELSE args[i]
      Place(i) == Cardinality(Kept \cap 1 .. i)
  IN (\A i \in {n - 1, n} \cap 1 .. n : args[i] # Plus) =>
       /\ Len(UriDecode(args)) = Cardinality(Kept)
       /\ \A i \in Kept : UriDecode(args)[Place(i)] = Meant(i)

(* A request ends.  A POST is an exception when its body comes in parts or *)
(* its response has to wait for the client: then a reference is left that  *)
(* nobody gives back.                                                      *)
Ends ==
  \/ <>(conn # "open")
  \/ method = "POST" /\ (~ arrived \/ <>(rest = "waiting"))
=============================================================================
