--------------------------- MODULE Upstream_proofs ---------------------------
(***************************************************************************)
(* The safety of the upstream module, for any number of requests and       *)
(* servers and all sizes.  A request's record is described phase by phase  *)
(* (Shape); each operation on a record takes shapes to shapes.             *)
(***************************************************************************)
EXTENDS Upstream, TLAPS

Whole(q) == q.frame \in Frame /\ q.frame.flag = TRUE
              /\ q.got - Header >= q.frame.length

(* What a record looks like in each phase.                                 *)
Shape(q) ==
  /\ q \in Requests
  /\ q.phase = "new" =>
       /\ q.has_processed = FALSE /\ q.handed = <<>> /\ q.freed = <<>>
       /\ q.out = 0 /\ q.status_code = 0 /\ q.length = -1
       /\ q.tries = Servers
  /\ q.phase = "refused" =>
       q.has_processed = FALSE /\ q.handed = <<>> /\ q.out = 0
  /\ q.phase = "header" =>
       /\ q.has_processed = FALSE /\ q.handed = <<>> /\ q.freed = <<>>
       /\ q.out = 0 /\ q.status_code = 0 /\ q.length = -1
       /\ q.frame \in Frame
  /\ q.phase = "body" =>
       /\ q.has_processed = TRUE /\ q.freed = <<>> /\ q.status_code = 0
       /\ Whole(q)
  /\ q.phase = "over" =>
       /\ q.has_processed = TRUE /\ q.out = 0
       /\ q.status_code = 0 => Whole(q)

ShapeInv ==
  /\ plugin \in Plugin \cup {Nil}
  /\ DOMAIN req = Request
  /\ req = [r \in Request |-> req[r]]
  /\ \A r \in Request : Shape(req[r])

-----------------------------------------------------------------------------
(* The constants that the callbacks write into fields.                     *)
LEMMA Members ==
  /\ \A x \in {"new", "refused", "header", "body", "over"} : x \in Phases
  /\ \A x \in {0, 408, 499, 500, 502, 504} : x \in Status
  /\ 0 \in 0 .. MaxBody
  /\ 0 \in 0 .. BufferSize
  /\ 0 \in -1 .. MaxBody
  /\ -1 \in -1 .. MaxBody
  /\ \A x \in 0 .. Servers : x > 0 => x - 1 \in 0 .. Servers
BY SizeAssumption DEF Phases, Status

(* A field may be set to any value of its type.                            *)
LEMMA Update ==
  ASSUME NEW q \in Requests
  PROVE  /\ \A x \in Phases : [q EXCEPT !.phase = x] \in Requests
         /\ \A x \in BOOLEAN : [q EXCEPT !.parent = x] \in Requests
         /\ \A x \in Plugin \cup {Nil} : [q EXCEPT !.made = x] \in Requests
         /\ \A x \in 0 .. Servers : [q EXCEPT !.tries = x] \in Requests
         /\ \A x \in Frame : [q EXCEPT !.frame = x] \in Requests
         /\ \A x \in 0 .. BufferSize : [q EXCEPT !.got = x] \in Requests
         /\ \A x \in BOOLEAN : [q EXCEPT !.has_processed = x] \in Requests
         /\ \A x \in Status : [q EXCEPT !.status_code = x] \in Requests
         /\ \A x \in BOOLEAN : [q EXCEPT !.accepted = x] \in Requests
         /\ \A x \in -1 .. MaxBody : [q EXCEPT !.length = x] \in Requests
         /\ \A x \in 0 .. MaxBody : [q EXCEPT !.out = x] \in Requests
         /\ \A x \in Seq(Plugin) : [q EXCEPT !.handed = x] \in Requests
         /\ \A x \in Seq(Plugin \cup {Nil}) :
              [q EXCEPT !.freed = x] \in Requests
BY DEF Requests

(* Appending to a sequence of known elements gives such a sequence.        *)
LEMMA AppendTyped ==
  ASSUME NEW S, NEW s \in Seq(S), NEW e \in S
  PROVE  Append(s, e) \in Seq(S)
OBVIOUS

(* finalize_request brings a request that is under way to its end, and     *)
(* leaves what was received as it is.                                      *)
LEMMA FinalizeShape ==
  ASSUME NEW q, Shape(q), NEW p \in Plugin \cup {Nil}, NEW rc \in Status,
         q.phase \in {"header", "body"}, q.phase = "header" => rc # 0
  PROVE  /\ Shape(Finalize(q, p, rc))
         /\ Finalize(q, p, rc).tries = q.tries
         /\ Finalize(q, p, rc).got = q.got
<1>1. q \in Requests
  BY DEF Shape
<1>2. Append(q.freed, p) \in Seq(Plugin \cup {Nil})
  BY <1>1, AppendTyped DEF Requests
<1>3. CASE q.phase = "header"
  <2>1. q.has_processed = FALSE /\ q.handed = <<>>
    BY <1>3 DEF Shape
  <2>2. p \in Plugin => Append(q.handed, p) \in Seq(Plugin)
    BY <1>1, AppendTyped DEF Requests
  <2>3. rc # 0
    BY <1>3
  <2> QED
    BY <1>1, <1>2, <1>3, <2>1, <2>2, <2>3
    DEF Finalize, ProcessBody, Destroy, Shape, Whole, Requests, Phases
<1>4. CASE q.phase = "body"
  <2> DEFINE d == [q EXCEPT !.freed = Append(q.freed, p)]
             o == [d EXCEPT !.phase = "over"]
             n == [o EXCEPT !.out = 0]
  <2>1. q.has_processed = TRUE /\ q.status_code = 0 /\ Whole(q)
    BY <1>4 DEF Shape
  <2>2. Finalize(q, p, rc) = n
    BY <1>1, <2>1 DEF Finalize, Destroy, Requests
  <2>3. n \in Requests
    <3>1. d \in Requests
      BY <1>1, <1>2, Update
    <3>2. o \in Requests
      BY <3>1, Members, Update
    <3> QED
      BY <3>2, Members, Update
  <2>4. /\ n.phase = "over" /\ n.out = 0 /\ n.has_processed = TRUE
        /\ n.frame = q.frame /\ n.got = q.got /\ n.tries = q.tries
    BY <1>1, <2>1 DEF Requests
  <2>5. Shape(n)
    BY <2>1, <2>3, <2>4 DEF Shape, Whole
  <2> QED
    BY <2>2, <2>4, <2>5
<1> QED
  BY <1>3, <1>4

(* It matters to no shape whether a parent waits.                          *)
LEMMA ParentShape ==
  ASSUME NEW q, Shape(q), NEW n, n = [q EXCEPT !.parent = FALSE]
  PROVE  /\ Shape(n)
         /\ n.tries = q.tries /\ n.got = q.got
         /\ n.phase = q.phase /\ n.made = q.made
         /\ n.handed = q.handed /\ n.freed = q.freed
<1>1. q \in Requests /\ n \in Requests
  BY Update DEF Shape
<1>2. /\ n.tries = q.tries /\ n.got = q.got /\ n.phase = q.phase
      /\ n.made = q.made /\ n.handed = q.handed /\ n.freed = q.freed
      /\ n.out = q.out /\ n.length = q.length /\ n.frame = q.frame
      /\ n.status_code = q.status_code /\ n.has_processed = q.has_processed
  BY <1>1 DEF Requests
<1> QED
  BY <1>1, <1>2 DEF Shape, Whole

(* A connection is a fresh wait for a frame.                               *)
LEMMA ConnectShape ==
  ASSUME NEW q, Shape(q), q.phase \in {"new", "header"}, q.tries > 0,
         NEW f \in Frame
  PROVE  Shape(Connect(q, f))
<1> DEFINE h == [q EXCEPT !.phase = "header"]
           t == [h EXCEPT !.tries = h.tries - 1]
           c == [t EXCEPT !.frame = f]
           n == Connect(q, f)
<1>1. q \in Requests /\ q.tries - 1 \in 0 .. Servers
  BY Members DEF Shape, Requests
<1>2. n \in Requests
  <2>1. h \in Requests
    BY <1>1, Members, Update
  <2>2. h.tries = q.tries
    BY <1>1 DEF Requests
  <2>3. t \in Requests
    BY <1>1, <2>1, <2>2, Update
  <2>4. c \in Requests
    BY <2>3, Update
  <2>5. [c EXCEPT !.got = 0] \in Requests
    BY <2>4, Members, Update
  <2> QED
    BY <2>5 DEF Connect
<1>3. /\ n.phase = "header" /\ n.frame = f /\ n.handed = q.handed
      /\ n.freed = q.freed /\ n.out = q.out /\ n.length = q.length
      /\ n.status_code = q.status_code /\ n.has_processed = q.has_processed
  BY <1>1 DEF Connect, Requests
<1> QED
  BY <1>2, <1>3 DEF Shape

(* The next server, or the end.                                            *)
LEMMA NextServerShape ==
  ASSUME NEW q, Shape(q), q.phase = "header", NEW p \in Plugin \cup {Nil},
         NEW failure, NEW n \in NextServer(q, p, failure)
  PROVE  Shape(n)
<1>1. \A rc \in {502, 504} : Shape(Finalize(q, p, rc))
  BY FinalizeShape DEF Status
<1>2. q.tries > 0 => \A f \in Frame : Shape(Connect(q, f))
  BY ConnectShape
<1> QED
  BY <1>1, <1>2 DEF NextServer

(* filter keeps the fields typed, as long as the answer is not too long.   *)
LEMMA FilterTyped ==
  ASSUME NEW q \in Requests, NEW bytes \in Nat,
         bytes <= q.length => q.out + bytes <= MaxBody
  PROVE  Filter(q, bytes) \in Requests
<1>1. q.out \in 0 .. MaxBody /\ q.length \in -1 .. MaxBody
  BY DEF Requests
<1>2. CASE bytes > q.length
  BY <1>2, Members, Update DEF Filter
<1>3. CASE bytes <= q.length
  <2> DEFINE o == [q EXCEPT !.out = q.out + bytes]
  <2>1. q.out + bytes \in 0 .. MaxBody /\ q.length - bytes \in -1 .. MaxBody
    BY <1>1, <1>3, SizeAssumption
  <2>2. o \in Requests /\ o.length = q.length
    BY <2>1, Update DEF Requests
  <2>3. [o EXCEPT !.length = o.length - bytes] \in Requests
    BY <2>1, <2>2, Update
  <2> QED
    BY <1>1, <1>3, <2>3 DEF Filter
<1> QED
  BY <1>1, <1>2, <1>3

(* Sending keeps the shape: more to send, or the end.                      *)
LEMMA SendShape ==
  ASSUME NEW q, Shape(q), q.phase = "body", NEW p \in Plugin \cup {Nil},
         NEW bytes \in Nat,
         bytes <= q.length => q.out + bytes <= MaxBody
  PROVE  /\ Shape(SendResponse(q, p, bytes))
         /\ SendResponse(q, p, bytes).tries = q.tries
         /\ SendResponse(q, p, bytes).got = q.got
<1> DEFINE f == IF bytes > 0 THEN Filter(q, bytes) ELSE q
<1>1. q \in Requests
  BY DEF Shape
<1>2. f \in Requests
  BY <1>1, FilterTyped
<1>3. /\ f.phase = "body" /\ f.tries = q.tries /\ f.got = q.got
      /\ f.has_processed = q.has_processed /\ f.freed = q.freed
      /\ f.status_code = q.status_code /\ f.frame = q.frame
  BY <1>1 DEF Filter, Requests
<1>4. Shape(f)
  BY <1>2, <1>3 DEF Shape, Whole
<1>5. /\ Shape(Finalize(f, p, 0))
      /\ Finalize(f, p, 0).tries = f.tries
      /\ Finalize(f, p, 0).got = f.got
  BY <1>3, <1>4, FinalizeShape DEF Status
<1> QED
  BY <1>3, <1>4, <1>5 DEF SendResponse

(* The record as process_header leaves it: a whole frame, handed on, and   *)
(* filter_init run.                                                        *)
Seen(q, p, a) ==
  FilterInit([ProcessBody(q, p) EXCEPT !.has_processed = TRUE,
                                       !.accepted = a.ok, !.phase = "body"], a)

(* It has the shape of a response whose bytes fit.                         *)
LEMMA SeenShape ==
  ASSUME NEW q, Shape(q), q.phase = "header", Decode(q) = "ok",
         NEW p \in Plugin \cup {Nil}, NEW a \in Answers(q, p)
  PROVE  /\ Shape(Seen(q, p, a)) /\ Seen(q, p, a).phase = "body"
         /\ a.bytes \in Nat
         /\ a.bytes <= Seen(q, p, a).length =>
              Seen(q, p, a).out + a.bytes <= MaxBody
<1> DEFINE seen == [ProcessBody(q, p) EXCEPT !.has_processed = TRUE,
                                             !.accepted = a.ok, !.phase = "body"]
           s == FilterInit(seen, a)
<1>1. q \in Requests /\ q.handed = <<>> /\ q.frame \in Frame /\ q.out = 0
  BY DEF Shape
<1>2. /\ q.frame.flag \in BOOLEAN /\ q.frame.length \in Nat
      /\ q.got \in Nat /\ Header \in Nat
  BY <1>1, SizeAssumption DEF Frame, Requests
<1>3. q.frame.flag = TRUE /\ q.got - Header >= q.frame.length
  BY <1>2 DEF Decode
<1>4. a.ok \in BOOLEAN /\ a.bytes \in Nat /\ (a.ok = TRUE => a.bytes <= MaxBody)
  <2>1. CASE p = Nil
    <3>1. a = [ok |-> FALSE, bytes |-> q.got - Header]
      BY <2>1 DEF Answers
    <3>2. q.got - Header \in Nat
      BY <1>2, <1>3
    <3> QED
      BY <3>1, <3>2
  <2>2. CASE p # Nil
    <3>1. a \in [ok : BOOLEAN, bytes : 0 .. MaxBody]
      BY <2>2 DEF Answers
    <3>2. a.ok \in BOOLEAN /\ a.bytes \in 0 .. MaxBody
      BY <3>1
    <3> QED
      BY <3>2, SizeAssumption
  <2> QED
    BY <2>1, <2>2
<1>5. seen \in Requests
  <2> DEFINE b == ProcessBody(q, p)
             h == [b EXCEPT !.has_processed = TRUE]
             k == [h EXCEPT !.accepted = a.ok]
  <2>1. p \in Plugin => Append(q.handed, p) \in Seq(Plugin)
    BY <1>1, AppendTyped DEF Requests
  <2>2. b \in Requests
    BY <1>1, <2>1, Update DEF ProcessBody
  <2>3. h \in Requests
    BY <2>2, Update
  <2>4. k \in Requests
    BY <1>4, <2>3, Update
  <2> QED
    BY <2>4, Members, Update
<1>6. s \in Requests
  <2>1. CASE a.ok = TRUE
    <3>1. a.bytes \in -1 .. MaxBody
      BY <1>4, <2>1, SizeAssumption
    <3> QED
      BY <1>5, <2>1, <3>1, Update DEF FilterInit
  <2>2. CASE a.ok = FALSE
    BY <1>5, <2>2, Members, Update DEF FilterInit
  <2> QED
    BY <1>4, <2>1, <2>2
<1>7. /\ s.phase = "body" /\ s.has_processed = TRUE /\ s.freed = <<>>
      /\ s.status_code = 0 /\ s.frame = q.frame /\ s.got = q.got
      /\ s.out = 0 /\ s.length \in {a.bytes, -1}
  BY <1>1 DEF FilterInit, ProcessBody, Shape, Requests
<1>8. Shape(s)
  BY <1>1, <1>3, <1>6, <1>7 DEF Shape, Whole
<1>9. a.bytes <= s.length => s.out + a.bytes <= MaxBody
  BY <1>4, <1>6, <1>7, SizeAssumption DEF Requests
<1> QED
  BY <1>4, <1>7, <1>8, <1>9 DEF Seen

(* A whole frame is handed on, whatever the plugin makes of it.            *)
LEMMA RespondShape ==
  ASSUME NEW q, Shape(q), q.phase = "header", Decode(q) = "ok",
         NEW p \in Plugin \cup {Nil}, NEW a \in Answers(q, p),
         NEW n \in Respond(q, p, a)
  PROVE  Shape(n)
<1>1. Shape(SendResponse(Seen(q, p, a), p, a.bytes))
  BY SeenShape, SendShape
<1> QED
  BY <1>1 DEF Respond, Seen

(* process_header, on whatever has arrived.                                *)
LEMMA ProcessHeaderShape ==
  ASSUME NEW q, Shape(q), q.phase = "header", NEW p \in Plugin \cup {Nil},
         NEW n \in ProcessHeader(q, p)
  PROVE  Shape(n)
<1>1. q.got \in Nat /\ BufferSize \in Nat
  BY SizeAssumption DEF Shape, Requests
<1>2. Decode(q) \in {"error", "more", "ok"}
  BY DEF Decode
<1>3. CASE Decode(q) = "error"
  BY <1>3, FinalizeShape DEF ProcessHeader, Status
<1>4. CASE Decode(q) = "more"
  <2>1. n = q \/ n \in NextServer(q, p, "invalid_response")
    BY <1>1, <1>4 DEF ProcessHeader
  <2> QED
    BY <2>1, NextServerShape
<1>5. CASE Decode(q) = "ok"
  <2>1. PICK a \in Answers(q, p) : n \in Respond(q, p, a)
    BY <1>5 DEF ProcessHeader
  <2> QED
    BY <1>5, <2>1, RespondShape
<1> QED
  BY <1>2, <1>3, <1>4, <1>5

(* What the handler makes of a new request.                                *)
LEMMA CallHandleShape ==
  ASSUME NEW q, Shape(q), q.phase = "new", NEW m \in Plugin,
         NEW p \in Plugin \cup {Nil},
         NEW n \in CallHandle([q EXCEPT !.made = m], p)
  PROVE  Shape(n)
<1> DEFINE h == [q EXCEPT !.made = m]
<1>1. h \in Requests
  BY Update DEF Shape
<1>2. /\ h.phase = "new" /\ h.has_processed = q.has_processed
      /\ h.handed = q.handed /\ h.freed = q.freed /\ h.out = q.out
      /\ h.status_code = q.status_code /\ h.length = q.length
      /\ h.tries = q.tries
  BY DEF Shape, Requests
<1>3. Shape(h) /\ h.tries > 0
  BY <1>1, <1>2, SizeAssumption DEF Shape
<1>4. Shape(Refused(Destroy(h, p)))
  <2> DEFINE d == [h EXCEPT !.freed = Append(h.freed, p)]
             e == [d EXCEPT !.phase = "refused"]
  <2>1. Append(h.freed, p) \in Seq(Plugin \cup {Nil})
    BY <1>1, AppendTyped DEF Requests
  <2>2. d \in Requests
    BY <1>1, <2>1, Update
  <2>3. e \in Requests
    BY <2>2, Members, Update
  <2>4. /\ e.phase = "refused" /\ e.has_processed = h.has_processed
        /\ e.handed = h.handed /\ e.out = h.out
    BY <1>1 DEF Requests
  <2>5. Shape(e)
    BY <1>2, <1>3, <2>3, <2>4 DEF Shape
  <2> QED
    BY <2>5 DEF Refused, Destroy
<1>5. \A f \in Frame : Shape(Connect(h, f))
  BY <1>2, <1>3, ConnectShape
<1> QED
  BY <1>4, <1>5 DEF CallHandle, CreateRequest

(* A step of request r.                                                    *)
Step(r) ==
  \/ Refuse(r) \/ Handler(r) \/ Receive(r) \/ ServerFails(r)
  \/ Drain(r) \/ Flush(r) \/ ClientGone(r) \/ Collect(r)

(* Between its handler and its end a request only ever goes where Shape    *)
(* leads, and once it has processed a response, nothing more is received.  *)
LEMMA StepShape ==
  ASSUME ShapeInv, NEW r \in Request, Step(r)
  PROVE  \E q :
           /\ Become(r, q)
           /\ Shape(q)
           /\ req[r].has_processed = TRUE =>
                q.tries = req[r].tries /\ q.got = req[r].got
<1>1. Shape(req[r]) /\ plugin \in Plugin \cup {Nil}
  BY DEF ShapeInv
<1>2. req[r].phase \in {"new", "refused", "header"} =>
        req[r].has_processed = FALSE
  BY <1>1 DEF Shape
<1>3. CASE Refuse(r)
  <2>1. req[r].phase = "new" /\ req[r] \in Requests
    BY <1>1, <1>3 DEF Refuse, Shape
  <2>2. Shape(Refused(req[r]))
    <3>1. Refused(req[r]) \in Requests
      BY <2>1, Members, Update DEF Refused
    <3> QED
      BY <1>1, <2>1, <3>1 DEF Refused, Shape, Requests
  <2> QED
    BY <1>2, <1>3, <2>1, <2>2 DEF Refuse
<1>4. CASE Handler(r)
  <2>1. req[r].phase = "new" /\ req[r] \in Requests
    BY <1>1, <1>4 DEF Handler, Shape
  <2>2. CASE Named[r] \notin Plugin
    <3>1. Refused(req[r]) \in Requests
      BY <2>1, Members, Update DEF Refused
    <3>2. Shape(Refused(req[r]))
      BY <1>1, <2>1, <3>1 DEF Refused, Shape, Requests
    <3> QED
      BY <1>2, <1>4, <2>1, <2>2, <3>2 DEF Handler
  <2>3. CASE Named[r] \in Plugin
    <3>1. plugin' \in Plugin \cup {Nil}
      BY <1>1, <1>4 DEF Handler, InitPlugin
    <3>2. PICK q \in CallHandle([req[r] EXCEPT !.made = Named[r]], plugin') :
            Become(r, q)
      BY <1>4, <2>3 DEF Handler
    <3>3. Shape(q)
      BY <1>1, <2>1, <2>3, <3>1, CallHandleShape
    <3> QED
      BY <1>2, <2>1, <3>2, <3>3
  <2> QED
    BY <2>2, <2>3
<1>5. CASE Receive(r)
  <2>1. PICK got \in (req[r].got + 1) .. BufferSize :
          \E q \in ProcessHeader([req[r] EXCEPT !.got = got], plugin) :
            Become(r, q)
    BY <1>5 DEF Receive
  <2> DEFINE h == [req[r] EXCEPT !.got = got]
  <2>2. PICK q \in ProcessHeader(h, plugin) : Become(r, q)
    BY <2>1
  <2>3. req[r].phase = "header" /\ req[r] \in Requests
    BY <1>1, <1>5 DEF Receive, Shape
  <2>4. h \in Requests
    <3>1. got \in 0 .. BufferSize
      BY <2>3, SizeAssumption DEF Requests
    <3> QED
      BY <2>3, <3>1, Update
  <2>5. Shape(h) /\ h.phase = "header"
    BY <1>1, <2>3, <2>4 DEF Shape, Requests
  <2>6. Shape(q)
    BY <1>1, <2>5, ProcessHeaderShape
  <2> QED
    BY <1>2, <2>2, <2>3, <2>6
<1>6. CASE ServerFails(r)
  <2>1. req[r].phase = "header"
    BY <1>6 DEF ServerFails
  <2>2. PICK failure \in {"error", "timeout"} :
          \E q \in NextServer(req[r], plugin, failure) : Become(r, q)
    BY <1>6 DEF ServerFails
  <2>3. PICK q \in NextServer(req[r], plugin, failure) : Become(r, q)
    BY <2>2
  <2>4. Shape(q)
    BY <1>1, <2>1, <2>3, NextServerShape
  <2> QED
    BY <1>2, <2>1, <2>3, <2>4
<1>7. CASE Drain(r)
  <2>1. req[r].phase = "body" /\ req[r].length \in {-1, 0}
    BY <1>7 DEF Drain
  <2>2. CASE \E rc \in {0, 502, 504} : Become(r, Finalize(req[r], plugin, rc))
    <3>1. PICK rc \in {0, 502, 504} : Become(r, Finalize(req[r], plugin, rc))
      BY <2>2
    <3>2. rc \in Status
      BY Members
    <3>3. /\ Shape(Finalize(req[r], plugin, rc))
          /\ Finalize(req[r], plugin, rc).tries = req[r].tries
          /\ Finalize(req[r], plugin, rc).got = req[r].got
      BY <1>1, <2>1, <3>2, FinalizeShape
    <3> QED
      BY <3>1, <3>3
  <2>3. CASE \E bytes \in 1 .. MaxBody :
               Become(r, SendResponse(req[r], plugin, bytes))
    <3>1. PICK bytes \in 1 .. MaxBody :
            Become(r, SendResponse(req[r], plugin, bytes))
      BY <2>3
    <3>2. bytes \in Nat /\ ~ (bytes <= req[r].length)
      BY <2>1, <3>1, SizeAssumption
    <3> QED
      BY <1>1, <2>1, <3>1, <3>2, SendShape
  <2> QED
    BY <1>7, <2>2, <2>3 DEF Drain
<1>8. CASE Flush(r)
  <2>1. req[r].phase = "body" /\ Become(r, Finalize(req[r], plugin, 0))
    BY <1>8 DEF Flush
  <2> QED
    BY <1>1, <2>1, Members, FinalizeShape
<1>9. CASE ClientGone(r)
  <2>1. req[r].phase \in {"header", "body"}
    BY <1>9 DEF ClientGone
  <2>2. PICK rc \in {408, 499} :
          Become(r, [Finalize(req[r], plugin, rc) EXCEPT !.parent = FALSE])
    BY <1>9 DEF ClientGone
  <2> DEFINE f == Finalize(req[r], plugin, rc)
             n == [f EXCEPT !.parent = FALSE]
  <2>3. rc \in Status /\ rc # 0
    BY Members
  <2>4. Shape(f) /\ f.tries = req[r].tries /\ f.got = req[r].got
    BY <1>1, <2>1, <2>3, FinalizeShape
  <2>5. Shape(n) /\ n.tries = f.tries /\ n.got = f.got
    <3> HIDE DEF f
    <3> QED
      BY <2>4, ParentShape
  <2>6. Become(r, n) /\ n.tries = req[r].tries /\ n.got = req[r].got
    BY <2>2, <2>4, <2>5
  <2> HIDE DEF n
  <2> QED
    BY <2>5, <2>6
<1>10. CASE Collect(r)
  <2> DEFINE n == [req[r] EXCEPT !.parent = FALSE]
  <2>1. Become(r, n)
    BY <1>10 DEF Collect
  <2>2. Shape(n) /\ n.tries = req[r].tries /\ n.got = req[r].got
    BY <1>1, ParentShape
  <2> QED
    BY <2>1, <2>2
<1> QED
  BY <1>3, <1>4, <1>5, <1>6, <1>7, <1>8, <1>9, <1>10 DEF Step

(* Shapes hold at the start ...                                            *)
LEMMA InitShape == Init => ShapeInv
<1> SUFFICES ASSUME Init PROVE ShapeInv
  OBVIOUS
<1>1. <<>> \in Seq(Plugin) /\ <<>> \in Seq(Plugin \cup {Nil})
  OBVIOUS
<1>2. Servers \in 0 .. Servers /\ 0 \in 0 .. BufferSize /\ 0 \in 0 .. MaxBody
      /\ -1 \in -1 .. MaxBody /\ "new" \in Phases /\ 0 \in Status
  BY Members, SizeAssumption
<1>3. \A r \in Request : req[r] \in Requests
  <2> SUFFICES ASSUME NEW r \in Request PROVE req[r] \in Requests
    OBVIOUS
  <2> DEFINE b == r \in InMemory
  <2>1. b \in BOOLEAN
    OBVIOUS
  <2>2. req[r] =
          [phase |-> "new", parent |-> b, made |-> Nil, tries |-> Servers,
           frame |-> Nil, got |-> 0, has_processed |-> FALSE,
           status_code |-> 0, accepted |-> FALSE, length |-> -1, out |-> 0,
           handed |-> <<>>, freed |-> <<>>]
    BY DEF Init
  <2> HIDE DEF b
  <2> QED
    BY <1>1, <1>2, <2>1, <2>2 DEF Requests
<1> QED
  BY <1>3 DEF Init, ShapeInv, Shape

(* ... and every step keeps them.                                          *)
LEMMA NextShape == ShapeInv /\ [Next]_vars => ShapeInv'
<1> SUFFICES ASSUME ShapeInv, [Next]_vars PROVE ShapeInv'
  OBVIOUS
<1>1. CASE UNCHANGED vars
  BY <1>1 DEF ShapeInv, vars, Shape, Whole
<1>2. CASE Next
  <2>1. PICK r \in Request : Step(r)
    BY <1>2 DEF Next, Step
  <2>2. PICK q : Become(r, q) /\ Shape(q)
    BY <2>1, StepShape
  <2>3. req' = [req EXCEPT ![r] = q]
    BY <2>2 DEF Become
  <2>4. plugin' \in Plugin \cup {Nil}
    BY <2>1 DEF Step, ShapeInv, Refuse, Handler, Receive, ServerFails, Drain, Flush,
                ClientGone, Collect, InitPlugin
  <2>5. /\ DOMAIN req' = Request
        /\ req' = [s \in Request |-> req'[s]]
        /\ \A s \in Request : req'[s] = IF s = r THEN q ELSE req[s]
    BY <2>3 DEF ShapeInv
  <2>6. \A s \in Request : Shape(req'[s])
    BY <2>2, <2>5 DEF ShapeInv
  <2>7. \A s \in Request : Shape(req[s])'
    BY <2>6 DEF Shape, Whole
  <2> QED
    BY <2>4, <2>5, <2>7 DEF ShapeInv
<1> QED
  BY <1>1, <1>2

(* Together: every request has its shape in every state.                   *)
LEMMA AlwaysShape == Spec => []ShapeInv
<1> QED
  BY InitShape, NextShape, PTL DEF Spec

-----------------------------------------------------------------------------
(* The fields keep their types, whatever is received, handed on and sent:  *)
(* u->length in particular never goes below -1.                            *)
THEOREM UpstreamTypes == Spec => []TypeOK
<1>1. ShapeInv => TypeOK
  BY DEF ShapeInv, Shape, TypeOK
<1> QED
  BY <1>1, AlwaysShape, PTL

(* A response handed to a plugin without a failure status is a whole frame *)
(* with the right flag, however it arrived.                                *)
THEOREM OnlyWholeFrames == Spec => []WholeFrame
<1>1. ShapeInv => WholeFrame
  <2> SUFFICES ASSUME ShapeInv, NEW r \in Request,
                      req[r].handed # <<>>, req[r].status_code = 0
               PROVE  /\ req[r].frame.flag
                      /\ req[r].got - Header >= req[r].frame.length
    BY DEF WholeFrame
  <2>1. Shape(req[r])
    BY DEF ShapeInv
  <2>2. req[r].phase \in Phases
    BY <2>1 DEF Shape, Requests
  <2>3. Whole(req[r])
    BY <2>1, <2>2 DEF Shape, Phases
  <2> QED
    BY <2>3 DEF Whole
<1> QED
  BY <1>1, AlwaysShape, PTL

(* The memory behind the client's buffers outlives them.                   *)
THEOREM BodyOutlivesBuffers == Spec => []BodyAlive
<1>1. ShapeInv => BodyAlive
  <2> SUFFICES ASSUME ShapeInv, NEW r \in Request, req[r].out > 0
               PROVE  req[r].freed = <<>>
    BY DEF BodyAlive
  <2>1. Shape(req[r])
    BY DEF ShapeInv
  <2>2. req[r].phase \in Phases
    BY <2>1 DEF Shape, Requests
  <2> QED
    BY <2>1, <2>2 DEF Shape, Phases
<1> QED
  BY <1>1, AlwaysShape, PTL

(* No second server is asked, and nothing more is received, once a plugin  *)
(* has seen a response.                                                    *)
THEOREM NoRetryAfterResponse == Spec => OneServer
<1>1. ShapeInv /\ [Next]_vars =>
        [\A r \in Request : req[r].has_processed =>
           /\ req'[r].tries = req[r].tries
           /\ req'[r].got = req[r].got]_vars
  <2> SUFFICES ASSUME ShapeInv, Next, NEW s \in Request,
                      req[s].has_processed
               PROVE  /\ req'[s].tries = req[s].tries
                      /\ req'[s].got = req[s].got
    OBVIOUS
  <2>1. PICK r \in Request : Step(r)
    BY DEF Next, Step
  <2>2. PICK q : /\ Become(r, q)
                 /\ req[r].has_processed = TRUE =>
                      q.tries = req[r].tries /\ q.got = req[r].got
    BY <2>1, StepShape
  <2>3. req'[s] = IF s = r THEN q ELSE req[s]
    BY <2>2 DEF Become, ShapeInv
  <2>4. req[s].has_processed = TRUE
    BY DEF ShapeInv, Shape, Requests
  <2> QED
    BY <2>2, <2>3, <2>4
<1> QED
  BY <1>1, AlwaysShape, PTL DEF Spec, OneServer

-----------------------------------------------------------------------------
(* Every plugin_name is that of a loaded plugin, or not set.               *)
Loaded == \A r \in Request : Named[r] \in Plugin \cup {Nil}

(* How often a request's CRequest was processed and destroyed, by phase.   *)
Told(q) ==
  /\ q.phase = "new" => q.handed = <<>> /\ q.freed = <<>>
  /\ q.phase = "header" => q.handed = <<>> /\ q.freed = <<>>
  /\ q.phase = "body" => Len(q.handed) = 1 /\ q.freed = <<>>
  /\ q.phase = "over" => Len(q.handed) = 1 /\ Len(q.freed) = 1

(* While a request is under way the location has a plugin, if only that of *)
(* another request.                                                        *)
ToldInv ==
  /\ plugin \in Plugin \cup {Nil}
  /\ \A r \in Request :
       /\ Told(req[r])
       /\ req[r].phase \in {"header", "body"} => plugin # Nil

(* Appending to the empty sequence gives a sequence of one element.        *)
LEMMA AppendEmpty == ASSUME NEW e PROVE Len(Append(<<>>, e)) = 1
OBVIOUS

(* finalize_request completes what its plugin has not yet been told.       *)
LEMMA FinalizeTold ==
  ASSUME NEW P \in Plugin, NEW q, Shape(q), Told(q),
         q.phase \in {"header", "body"}, NEW rc
  PROVE  Told(Finalize(q, P, rc))
<1> DEFINE n == Finalize(q, P, rc)
<1>1. q \in Requests /\ P # Nil
  BY NilPluginAssumption DEF Shape
<1>2. q.freed = <<>>
  BY DEF Told
<1>3. n.phase = "over" /\ n.freed = Append(q.freed, P)
  BY <1>1 DEF Finalize, Destroy, ProcessBody, Requests
<1>4. Len(n.handed) = 1
  <2>1. CASE q.phase = "header"
    <3>1. q.has_processed = FALSE /\ q.handed = <<>>
      BY <2>1 DEF Shape
    <3>2. n.handed = Append(q.handed, P)
      BY <1>1, <3>1 DEF Finalize, Destroy, ProcessBody, Requests
    <3> QED
      BY <3>1, <3>2, AppendEmpty
  <2>2. CASE q.phase = "body"
    <3>1. q.has_processed = TRUE /\ Len(q.handed) = 1
      BY <2>2 DEF Shape, Told
    <3>2. n.handed = q.handed
      BY <1>1, <3>1 DEF Finalize, Destroy, Requests
    <3> QED
      BY <3>1, <3>2
  <2> QED
    BY <2>1, <2>2
<1>5. Len(n.freed) = 1
  BY <1>2, <1>3, AppendEmpty
<1> QED
  BY <1>2, <1>3, <1>4, <1>5 DEF Told

(* A connection changes nothing about the CRequest.                        *)
LEMMA ConnectTold ==
  ASSUME NEW P \in Plugin, NEW q, q \in Requests,
         q.handed = <<>>, q.freed = <<>>, NEW f
  PROVE  Told(Connect(q, f))
BY DEF Connect, Told, Requests

(* The next server, or the end.                                            *)
LEMMA NextServerTold ==
  ASSUME NEW P \in Plugin, NEW q, Shape(q), Told(q), q.phase = "header",
         NEW failure, NEW n \in NextServer(q, P, failure)
  PROVE  Told(n)
<1>1. \A rc : Told(Finalize(q, P, rc))
  BY FinalizeTold
<1>2. \A f \in Frame : Told(Connect(q, f))
  BY ConnectTold DEF Told, Shape
<1> QED
  BY <1>1, <1>2 DEF NextServer

(* Sending, or the end.                                                    *)
LEMMA SendTold ==
  ASSUME NEW P \in Plugin, NEW q, Shape(q), Told(q), q.phase = "body",
         NEW bytes \in Nat,
         bytes <= q.length => q.out + bytes <= MaxBody
  PROVE  Told(SendResponse(q, P, bytes))
<1> DEFINE f == IF bytes > 0 THEN Filter(q, bytes) ELSE q
<1>1. q \in Requests
  BY DEF Shape
<1>2. /\ f.phase = "body" /\ f.handed = q.handed
      /\ f.freed = q.freed /\ f.has_processed = q.has_processed
      /\ f.status_code = q.status_code /\ f.frame = q.frame /\ f.got = q.got
  BY <1>1 DEF Filter, Requests
<1>3. Told(f)
  BY <1>2 DEF Told
<1>4. f \in Requests
  BY <1>1, FilterTyped
<1>5. Shape(f)
  BY <1>2, <1>4 DEF Shape, Whole
<1>6. Told(Finalize(f, P, 0))
  BY <1>2, <1>3, <1>5, FinalizeTold
<1> QED
  BY <1>3, <1>6 DEF SendResponse

(* A plugin is handed the frame: the first it hears of a server's answer.  *)
LEMMA RespondTold ==
  ASSUME NEW P \in Plugin, NEW q, Shape(q), Told(q), q.phase = "header",
         Decode(q) = "ok", NEW a \in Answers(q, P), NEW n \in Respond(q, P, a)
  PROVE  Told(n)
<1> DEFINE seen == [ProcessBody(q, P) EXCEPT !.has_processed = TRUE,
                                             !.accepted = a.ok, !.phase = "body"]
           s == FilterInit(seen, a)
<1>1. q \in Requests /\ P # Nil /\ q.handed = <<>>
        /\ q.freed = <<>>
  BY NilPluginAssumption DEF Shape, Told
<1>2. s.phase = "body" /\ s.freed = q.freed
        /\ s.handed = Append(q.handed, P)
  BY <1>1 DEF FilterInit, ProcessBody, Requests
<1>3. Len(s.handed) = 1
  BY <1>1, <1>2, AppendEmpty
<1>4. Told(s)
  BY <1>1, <1>2, <1>3 DEF Told
<1>5. /\ Shape(s) /\ a.bytes \in Nat
      /\ a.bytes <= s.length => s.out + a.bytes <= MaxBody
  BY SeenShape DEF Seen
<1>6. Told(SendResponse(s, P, a.bytes))
  BY <1>2, <1>4, <1>5, SendTold
<1> QED
  BY <1>6 DEF Respond

(* What process_header leads to.                                           *)
LEMMA ProcessHeaderTold ==
  ASSUME NEW P \in Plugin, NEW q, Shape(q), Told(q), q.phase = "header",
         NEW n \in ProcessHeader(q, P)
  PROVE  Told(n)
<1>1. q.got \in Nat /\ BufferSize \in Nat
  BY SizeAssumption DEF Shape, Requests
<1>2. Decode(q) \in {"error", "more", "ok"}
  BY DEF Decode
<1>3. CASE Decode(q) = "error"
  BY <1>3, FinalizeTold DEF ProcessHeader
<1>4. CASE Decode(q) = "more"
  <2>1. n = q \/ n \in NextServer(q, P, "invalid_response")
    BY <1>1, <1>4 DEF ProcessHeader
  <2> QED
    BY <2>1, NextServerTold
<1>5. CASE Decode(q) = "ok"
  <2>1. PICK a \in Answers(q, P) : n \in Respond(q, P, a)
    BY <1>5 DEF ProcessHeader
  <2> QED
    BY <1>5, <2>1, RespondTold
<1> QED
  BY <1>2, <1>3, <1>4, <1>5

(* What the handler makes of a new request that names P.                   *)
LEMMA CallHandleTold ==
  ASSUME NEW P \in Plugin, NEW q, Shape(q), Told(q), q.phase = "new",
         NEW m \in Plugin, NEW n \in CallHandle([q EXCEPT !.made = m], P)
  PROVE  Told(n)
<1> DEFINE h == [q EXCEPT !.made = m]
<1>1. h \in Requests
  BY Update DEF Shape
<1>2. h.handed = <<>> /\ h.freed = <<>>
  BY DEF Shape, Requests, Told
<1>3. Told(Refused(Destroy(h, P)))
  <2> DEFINE d == Refused(Destroy(h, P))
  <2>1. /\ d.phase = "refused" /\ d.handed = <<>>
        /\ d.freed = Append(h.freed, P)
    BY <1>1, <1>2 DEF Refused, Destroy, Requests
  <2>2. Len(d.freed) = 1
    BY <1>2, <2>1, AppendEmpty
  <2> QED
    BY <2>1, <2>2 DEF Told
<1>4. \A f \in Frame : Told(Connect(h, f))
  BY <1>1, <1>2, ConnectTold
<1> QED
  BY <1>3, <1>4 DEF CallHandle, CreateRequest

(* A step of one request keeps what is known of it, and never leaves the   *)
(* requests under way without any plugin.                                  *)
LEMMA StepTold ==
  ASSUME Loaded, ShapeInv, ToldInv,
         NEW r \in Request, Step(r)
  PROVE  /\ plugin' \in Plugin \cup {Nil}
         /\ plugin # Nil => plugin' # Nil
         /\ \E q : /\ Become(r, q)
                   /\ Told(q)
                   /\ q.phase \in {"header", "body"} => plugin' # Nil
<1>1. /\ Shape(req[r]) /\ req[r] \in Requests
      /\ Told(req[r]) /\ plugin \in Plugin \cup {Nil}
  BY DEF ShapeInv, Shape, ToldInv
<1>2. req[r].phase \in {"header", "body"} => plugin \in Plugin
  BY <1>1 DEF ToldInv
<1>3. CASE Refuse(r)
  <2> DEFINE q == Refused(req[r])
  <2>1. q.phase = "refused"
    BY <1>1, <1>3 DEF Refuse, Refused, Requests
  <2>2. Told(q)
    BY <2>1 DEF Told
  <2>3. Become(r, q) /\ plugin' = plugin
    BY <1>3 DEF Refuse
  <2> QED
    BY <1>1, <2>1, <2>2, <2>3
<1>4. CASE Handler(r)
  <2>1. req[r].phase = "new" /\ Named[r] \in Plugin \cup {Nil}
    BY <1>4 DEF Handler, Loaded
  <2>2. CASE Named[r] = Nil
    <3> DEFINE q == Refused(req[r])
    <3>1. Become(r, q) /\ plugin' = plugin
      BY <1>4, <2>2, NilPluginAssumption DEF Handler, InitPlugin
    <3>2. q.phase = "refused"
      BY <1>1, <2>1 DEF Refused, Requests
    <3>3. Told(q)
      BY <3>2 DEF Told
    <3> QED
      BY <1>1, <3>1, <3>2, <3>3
  <2>3. CASE Named[r] \in Plugin
    <3>1. plugin' = Named[r] /\ plugin' # Nil
      BY <1>4, <2>3, NilPluginAssumption DEF Handler, InitPlugin
    <3>2. PICK q \in CallHandle([req[r] EXCEPT !.made = Named[r]], Named[r]) :
            Become(r, q)
      BY <1>4, <2>3, <3>1 DEF Handler
    <3>3. Told(q)
      BY <1>1, <2>1, <2>3, CallHandleTold
    <3> QED
      BY <2>3, <3>1, <3>2, <3>3
  <2> QED
    BY <2>1, <2>2, <2>3
<1>5. CASE Receive(r)
  <2>1. PICK got \in (req[r].got + 1) .. BufferSize :
          \E q \in ProcessHeader([req[r] EXCEPT !.got = got], plugin) :
            Become(r, q)
    BY <1>5 DEF Receive
  <2> DEFINE h == [req[r] EXCEPT !.got = got]
  <2>2. PICK q \in ProcessHeader(h, plugin) : Become(r, q)
    BY <2>1
  <2>3. req[r].phase = "header" /\ plugin \in Plugin /\ plugin' = plugin
    BY <1>2, <1>5 DEF Receive
  <2>4. h \in Requests
    <3>1. got \in 0 .. BufferSize
      BY <1>1, SizeAssumption DEF Requests
    <3> QED
      BY <1>1, <3>1, Update
  <2>5. Shape(h) /\ h.phase = "header"
    BY <1>1, <2>3, <2>4 DEF Shape, Requests
  <2>6. Told(h)
    BY <1>1, <2>3 DEF Told, Requests
  <2>7. Told(q)
    BY <1>1, <2>2, <2>3, <2>5, <2>6, ProcessHeaderTold
  <2> QED
    BY <2>2, <2>3, <2>7, NilPluginAssumption
<1>6. CASE ServerFails(r)
  <2>1. req[r].phase = "header" /\ plugin \in Plugin /\ plugin' = plugin
    BY <1>2, <1>6 DEF ServerFails
  <2>2. PICK failure \in {"error", "timeout"} :
          \E q \in NextServer(req[r], plugin, failure) : Become(r, q)
    BY <1>6 DEF ServerFails
  <2>3. PICK q \in NextServer(req[r], plugin, failure) : Become(r, q)
    BY <2>1, <2>2
  <2>4. Told(q)
    BY <1>1, <2>1, <2>3, NextServerTold
  <2> QED
    BY <2>1, <2>3, <2>4, NilPluginAssumption
<1>7. CASE Drain(r)
  <2>1. /\ req[r].phase = "body" /\ req[r].length \in {-1, 0}
        /\ plugin \in Plugin /\ plugin' = plugin
    BY <1>2, <1>7 DEF Drain
  <2>2. CASE \E rc \in {0, 502, 504} : Become(r, Finalize(req[r], plugin, rc))
    BY <1>1, <2>1, <2>2, FinalizeTold, NilPluginAssumption
  <2>3. CASE \E bytes \in 1 .. MaxBody :
               Become(r, SendResponse(req[r], plugin, bytes))
    <3>1. PICK bytes \in 1 .. MaxBody :
            Become(r, SendResponse(req[r], plugin, bytes))
      BY <2>1, <2>3
    <3>2. bytes \in Nat /\ ~ (bytes <= req[r].length)
      BY <2>1, <3>1, SizeAssumption
    <3>3. Told(SendResponse(req[r], plugin, bytes))
      BY <1>1, <2>1, <3>2, SendTold
    <3> QED
      BY <2>1, <3>1, <3>3, NilPluginAssumption
  <2> QED
    BY <1>7, <2>2, <2>3 DEF Drain
<1>8. CASE Flush(r)
  <2>1. /\ req[r].phase = "body" /\ Become(r, Finalize(req[r], plugin, 0))
        /\ plugin \in Plugin /\ plugin' = plugin
    BY <1>2, <1>8 DEF Flush
  <2> QED
    BY <1>1, <2>1, FinalizeTold, NilPluginAssumption
<1>9. CASE ClientGone(r)
  <2>1. req[r].phase \in {"header", "body"} /\ plugin \in Plugin /\ plugin' = plugin
    BY <1>2, <1>9 DEF ClientGone
  <2>2. PICK rc \in {408, 499} :
          Become(r, [Finalize(req[r], plugin, rc) EXCEPT !.parent = FALSE])
    BY <1>9 DEF ClientGone
  <2> DEFINE f == Finalize(req[r], plugin, rc)
             n == [f EXCEPT !.parent = FALSE]
  <2>3. rc \in Status /\ rc # 0
    BY Members
  <2>4. Shape(f) /\ Told(f)
    BY <1>1, <2>1, <2>3, FinalizeShape, FinalizeTold
  <2>5. Told(n)
    <3> HIDE DEF f
    <3>1. /\ n.phase = f.phase /\ n.made = f.made
          /\ n.handed = f.handed /\ n.freed = f.freed
      BY <2>4, ParentShape
    <3> QED
      BY <2>4, <3>1 DEF Told
  <2> QED
    BY <2>1, <2>2, <2>5, NilPluginAssumption
<1>10. CASE Collect(r)
  <2> DEFINE n == [req[r] EXCEPT !.parent = FALSE]
  <2>1. Become(r, n) /\ plugin' = plugin /\ req[r].phase = "over"
    BY <1>10 DEF Collect
  <2>2. /\ n.phase = req[r].phase /\ n.made = req[r].made
        /\ n.handed = req[r].handed /\ n.freed = req[r].freed
    BY <1>1, ParentShape
  <2>3. Told(n)
    BY <1>1, <2>2 DEF Told
  <2>4. n.phase = "over"
    BY <2>1, <2>2
  <2> QED
    BY <1>1, <2>1, <2>3, <2>4
<1> QED
  BY <1>3, <1>4, <1>5, <1>6, <1>7, <1>8, <1>9, <1>10 DEF Step

(* Both hold at the start and are kept by every step.                      *)
LEMMA AlwaysTold ==
  ASSUME Loaded
  PROVE  Spec => [](ShapeInv /\ ToldInv)
<1>1. Init => ToldInv
  BY DEF Init, ToldInv, Told
<1>2. ShapeInv /\ ToldInv /\ [Next]_vars => ToldInv'
  <2> SUFFICES ASSUME ShapeInv, ToldInv, [Next]_vars PROVE ToldInv'
    OBVIOUS
  <2>1. CASE UNCHANGED vars
    BY <2>1 DEF ToldInv, Told, vars
  <2>2. CASE Next
    <3>1. PICK r \in Request : Step(r)
      BY <2>2 DEF Next, Step
    <3>2. plugin' \in Plugin \cup {Nil} /\ (plugin # Nil => plugin' # Nil)
      BY <3>1, StepTold
    <3>3. PICK q : /\ Become(r, q) /\ Told(q)
                   /\ q.phase \in {"header", "body"} => plugin' # Nil
      BY <3>1, StepTold
    <3>4. \A s \in Request : req'[s] = IF s = r THEN q ELSE req[s]
      BY <3>3 DEF Become, ShapeInv
    <3>5. \A s \in Request :
            /\ Told(req'[s])
            /\ req'[s].phase \in {"header", "body"} => plugin' # Nil
      BY <3>2, <3>3, <3>4 DEF ToldInv
    <3>6. \A s \in Request : Told(req[s])'
      BY <3>5 DEF Told
    <3> QED
      BY <3>2, <3>5, <3>6 DEF ToldInv
  <2> QED
    BY <2>1, <2>2
<1> QED
  BY <1>1, <1>2, AlwaysShape, PTL DEF Spec

(* In a location whose requests name loaded plugins, whichever, a request  *)
(* that was sent to a server ends with ProcessBody called once and its     *)
(* CRequest destroyed once.                                                *)
THEOREM ToldAndFreedOnce ==
  ASSUME Loaded
  PROVE  Spec => []HandedOnce
<1>1. ToldInv => HandedOnce
  BY DEF ToldInv, Told, HandedOnce
<1> QED
  BY <1>1, AlwaysTold, PTL
=============================================================================
