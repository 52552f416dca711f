---------------------------- MODULE Handle_proofs ----------------------------
(***************************************************************************)
(* A request ends in good order only once, with a full response, whatever  *)
(* plugins answer and however slowly the client reads: the reference that  *)
(* reading a body takes keeps the request until the handler has returned.  *)
(***************************************************************************)
EXTENDS Handle, Conversion_proofs

(* How many references a request has, by what is on the stack.             *)
Counted ==
  /\ pc = "content" => count = 1 /\ rest = "none" /\ conn = "open"
  /\ pc = "post" => count = 2 /\ rest = "none" /\ conn = "open"
  /\ pc = "return" =>
       \/ conn = "terminated" /\ count = 0
       \/ conn = "open" /\ rest = "waiting" /\ count = 2
       \/ conn = "open" /\ rest = "sent" /\ count = 1
  /\ pc = "idle" =>
       \/ conn = "terminated" /\ count = 0
       \/ conn = "open" /\ count \in 1 .. 2
       \/ conn = "ended" /\ count = 0 /\ rest = "sent"

IInv ==
  /\ pc \in {"content", "post", "return", "idle"}
  /\ rest # "none" => status \in Nat
  /\ Counted

(* A response leaves one of four things.                                   *)
LEMMA Responded ==
  ASSUME NEW n \in Nat, NEW s \in Nat, Respond(n, s)
  PROVE  \/ conn' = "terminated" /\ count' = 0 /\ UNCHANGED <<rest, status>>
         \/ rest' = "waiting" /\ count' = n /\ UNCHANGED conn /\ status' \in Nat
         \/ rest' = "sent" /\ n = 1 /\ count' = 0 /\ conn' = "ended"
              /\ status' \in Nat
         \/ rest' = "sent" /\ n # 1 /\ count' = n - 1 /\ UNCHANGED conn
              /\ status' \in Nat
BY DEF Respond, Terminate, Finalize

(* So does an answer by a plugin.                                          *)
LEMMA Processed ==
  ASSUME NEW n \in Nat, Process(n)
  PROVE  \E s \in Nat : Respond(n, s)
<1>1. \A s \in Status, empty \in BOOLEAN : StatusOf(s, empty) \in Nat
  BY StatusAssumption DEF StatusOf
<1> QED
  BY <1>1 DEF Process

(* Every step keeps the references in order.                               *)
LEMMA Inductive ==
  ASSUME IInv, [Next]_vars
  PROVE  IInv'
<1> USE DEF IInv, Counted
<1>1. CASE Reject
  <2>1. Respond(1, 405)
    BY <1>1 DEF Reject
  <2> QED
    BY <1>1, <2>1, Responded DEF Reject
<1>2. CASE Answer
  <2>1. PICK s \in Nat : Respond(1, s)
    BY <1>2, Processed DEF Answer
  <2> QED
    BY <1>2, <2>1, Responded DEF Answer
<1>3. CASE ReadBody
  BY <1>3 DEF ReadBody
<1>4. CASE ReadBodyLater
  <2>1. CASE Finalize(count + 1, "none") /\ UNCHANGED <<rest, status>>
    BY <1>4, <2>1 DEF ReadBodyLater, Finalize
  <2>2. CASE Respond(count, 400)
    <3>1. Respond(1, 400)
      BY <1>4, <2>2 DEF ReadBodyLater
    <3> QED
      BY <1>4, <3>1, Responded DEF ReadBodyLater
  <2> QED
    BY <1>4, <2>1, <2>2 DEF ReadBodyLater
<1>5. CASE PostHandler
  <2>1. PICK s \in Nat : Respond(2, s)
    BY <1>5, Processed DEF PostHandler
  <2> QED
    BY <1>5, <2>1, Responded DEF PostHandler
<1>6. CASE Return
  BY <1>6 DEF Return, Finalize
<1>7. CASE Flush
  BY <1>7 DEF Flush, Finalize
<1>8. CASE WriteFails
  BY <1>8 DEF WriteFails, Terminate
<1>9. CASE UNCHANGED vars
  BY <1>9 DEF vars
<1> QED
  BY <1>1, <1>2, <1>3, <1>4, <1>5, <1>6, <1>7, <1>8, <1>9 DEF Next

(* A request that ended has been sent one full response, with nothing of   *)
(* the handler left on the stack.                                          *)
THEOREM Answered == Spec => []EndsAnswered
<1>1. Init => IInv
  BY DEF Init, IInv, Counted
<1>2. IInv => EndsAnswered
  BY StatusAssumption DEF IInv, Counted, EndsAnswered
<1> QED
  BY <1>1, <1>2, Inductive, PTL DEF Spec

-----------------------------------------------------------------------------
(* A body that is handed over has arrived: no other request gets as far as *)
(* the post handler.                                                       *)
WholeInv ==
  /\ TypeOK
  /\ method # "POST" => body = <<>> /\ arrived = TRUE
  /\ pc \in {"post", "return"} => method = "POST" /\ arrived = TRUE
  /\ crequest # None => arrived = TRUE

(* What a response leaves has its type.                                    *)
LEMMA RespondType ==
  ASSUME NEW n \in {1, 2}, NEW s \in 100 .. 599, TypeOK, Respond(n, s)
  PROVE  /\ count' \in 0 .. 2
         /\ rest' \in {"none", "waiting", "sent"}
         /\ status' \in (100 .. 599) \cup {None}
         /\ conn' \in {"open", "ended", "terminated"}
<1>1. CASE Terminate /\ UNCHANGED <<rest, status>>
  BY <1>1 DEF Terminate, TypeOK
<1>2. ASSUME NEW o \in {"waiting", "sent"}, rest' = o, status' = s, Finalize(n, o)
      PROVE  /\ count' \in 0 .. 2
             /\ rest' \in {"none", "waiting", "sent"}
             /\ status' \in (100 .. 599) \cup {None}
             /\ conn' \in {"open", "ended", "terminated"}
  <2>1. count' \in 0 .. 2
    BY <1>2 DEF Finalize
  <2>2. conn' \in {"open", "ended", "terminated"}
    BY <1>2 DEF Finalize, TypeOK
  <2> QED
    BY <1>2, <2>1, <2>2
<1> QED
  BY <1>1, <1>2 DEF Respond

(* What a plugin leaves does, too; it has been handed what was converted.  *)
LEMMA ProcessType ==
  ASSUME NEW n \in {1, 2}, TypeOK, Process(n)
  PROVE  /\ count' \in 0 .. 2
         /\ rest' \in {"none", "waiting", "sent"}
         /\ status' \in (100 .. 599) \cup {None}
         /\ conn' \in {"open", "ended", "terminated"}
         /\ crequest' \in {None, Converted}
<1>1. ASSUME NEW s \in Status, NEW empty \in BOOLEAN
      PROVE  StatusOf(s, empty) \in 100 .. 599
  BY StatusAssumption DEF StatusOf
<1>2. PICK s \in 100 .. 599 : Respond(n, s)
  BY <1>1 DEF Process
<1>3. crequest' \in {None, Converted}
  BY DEF Process, TypeOK
<1>4. /\ count' \in 0 .. 2
      /\ rest' \in {"none", "waiting", "sent"}
      /\ status' \in (100 .. 599) \cup {None}
      /\ conn' \in {"open", "ended", "terminated"}
  BY <1>2, RespondType
<1> QED
  BY <1>3, <1>4

(* Every step keeps this.                                                  *)
LEMMA WholeStep ==
  ASSUME IInv, WholeInv, [Next]_vars
  PROVE  WholeInv'
<1>1. UNCHANGED request => UNCHANGED Converted
  BY DEF request, Converted
<1> USE DEF WholeInv
<1>2. CASE Reject
  <2>1. Respond(1, 405) /\ UNCHANGED request
    BY <1>2 DEF Reject, IInv, Counted
  <2>2. 405 \in 100 .. 599 /\ 1 \in {1, 2}
    OBVIOUS
  <2>3. /\ count' \in 0 .. 2
        /\ rest' \in {"none", "waiting", "sent"}
        /\ status' \in (100 .. 599) \cup {None}
        /\ conn' \in {"open", "ended", "terminated"}
    BY <2>1, <2>2, RespondType
  <2> QED
    BY <1>1, <1>2, <2>1, <2>3 DEF Reject, TypeOK, request
<1>3. CASE Answer
  <2>1. Process(1) /\ UNCHANGED request
    BY <1>3 DEF Answer, IInv, Counted
  <2> QED
    BY <1>1, <1>3, <2>1, ProcessType DEF Answer, TypeOK, request
<1>4. CASE ReadBody
  BY <1>1, <1>4 DEF ReadBody, TypeOK, IInv, Counted, request
<1>5. CASE ReadBodyLater
  <2>1. CASE Finalize(count + 1, "none") /\ UNCHANGED <<rest, status>>
    BY <1>1, <1>5, <2>1 DEF ReadBodyLater, Finalize, TypeOK, IInv, Counted, request
  <2>2. CASE Respond(count, 400)
    <3>1. Respond(1, 400) /\ UNCHANGED request
      BY <1>5, <2>2 DEF ReadBodyLater, IInv, Counted
    <3>2. 400 \in 100 .. 599 /\ 1 \in {1, 2}
      OBVIOUS
    <3>3. /\ count' \in 0 .. 2
          /\ rest' \in {"none", "waiting", "sent"}
          /\ status' \in (100 .. 599) \cup {None}
          /\ conn' \in {"open", "ended", "terminated"}
      BY <3>1, <3>2, RespondType
    <3> QED
      BY <1>1, <1>5, <3>1, <3>3 DEF ReadBodyLater, TypeOK, request
  <2> QED
    BY <1>5, <2>1, <2>2 DEF ReadBodyLater
<1>6. CASE PostHandler
  <2>1. Process(2) /\ UNCHANGED request
    BY <1>6 DEF PostHandler, IInv, Counted
  <2> QED
    BY <1>1, <1>6, <2>1, ProcessType DEF PostHandler, TypeOK, request
<1>7. CASE Return
  BY <1>1, <1>7 DEF Return, Finalize, TypeOK, IInv, Counted, request
<1>8. CASE Flush
  BY <1>1, <1>8 DEF Flush, Finalize, TypeOK, IInv, Counted, request
<1>9. CASE WriteFails
  BY <1>1, <1>9 DEF WriteFails, Terminate, TypeOK, request
<1>10. CASE UNCHANGED vars
  BY <1>1, <1>10 DEF vars, TypeOK, request
<1> QED
  BY <1>2, <1>3, <1>4, <1>5, <1>6, <1>7, <1>8, <1>9, <1>10 DEF Next

(* Every variable keeps its type, and a plugin is handed a body, the one   *)
(* converted from the request, only after all of it has arrived.           *)
THEOREM Whole == Spec => []WholeInv
<1>1. ASSUME Init
      PROVE  IInv /\ WholeInv
  <2>1. IInv
    BY <1>1 DEF Init, IInv, Counted
  <2>2. body \in Bodies \cup {<<>>} /\ (method # "POST" => body = <<>>)
    BY <1>1 DEF Init
  <2>3. arrived \in BOOLEAN /\ (body = <<>> => arrived = TRUE)
    BY <1>1 DEF Init
  <2>4. TypeOK
    BY <1>1, <2>2, <2>3 DEF Init, TypeOK
  <2> QED
    BY <1>1, <2>1, <2>2, <2>3, <2>4 DEF Init, WholeInv
<1>2. IInv /\ WholeInv /\ [Next]_vars => IInv' /\ WholeInv'
  BY Inductive, WholeStep
<1> QED
  BY <1>1, <1>2, PTL DEF Spec

(* The type invariant alone.                                               *)
THEOREM Typed == Spec => []TypeOK
<1>1. WholeInv => TypeOK
  BY DEF WholeInv
<1> QED
  BY <1>1, Whole, PTL

(* Whatever the body, and wherever nginx keeps it, a plugin is handed all  *)
(* of it.                                                                  *)
THEOREM HandedWhole == Spec => []HandsWholeBody
<1>1. ASSUME WholeInv
      PROVE  HandsWholeBody
  <2> SUFFICES ASSUME crequest # None
               PROVE  arrived = TRUE /\ crequest.body = Sent
    BY DEF HandsWholeBody
  <2>1. arrived = TRUE /\ crequest = Converted
    BY <1>1 DEF WholeInv, TypeOK
  <2>2. body \in Seq(Buffer)
    <3>1. body \in Bodies \/ body = <<>>
      BY <1>1 DEF WholeInv, TypeOK
    <3>2. <<>> \in Seq(Buffer)
      OBVIOUS
    <3> QED
      BY <3>1, <3>2, BodiesAssumption
  <2>3. \A i, j \in DOMAIN body :
          body[i].kind = "file" /\ body[j].kind = "file" => i = j
    BY <1>1, BodiesAssumption DEF WholeInv, TypeOK
  <2>4. GetPostBody(body) = Sent
    BY <2>2, <2>3, WholeBody DEF Sent
  <2>5. CASE method = "POST"
    BY <2>1, <2>4, <2>5 DEF Converted
  <2>6. CASE method # "POST"
    <3>1. body = <<>>
      BY <1>1, <2>6 DEF WholeInv
    <3>2. Sent = 0
      <4>1. PICK g : /\ g[{}] = 0
                     /\ FoldLeft(LAMBDA m, b : m + b.size, 0, body) = g[1 .. Len(body)]
        BY <2>2, SumIs
      <4>2. 1 .. Len(body) = {}
        BY <3>1
      <4> QED
        BY <4>1, <4>2 DEF Sent
    <3> QED
      BY <2>1, <2>6, <3>2 DEF Converted
  <2> QED
    BY <2>1, <2>5, <2>6
<1> QED
  BY <1>1, Whole, PTL

(* Every query string a request can have comes back from its encoding.     *)
THEOREM ComesBack == Spec => []RoundTrip
<1>1. TypeOK => RoundTrip
  BY ArgsAssumption, DecodesEncoding DEF TypeOK, RoundTrip
<1> QED
  BY <1>1, Typed, PTL

-----------------------------------------------------------------------------
(* The pieces from i on that have a key, ...                               *)
KeyedFrom(s, i) == {p \in Pieces(s, Amp) : KeyOf(s, p) # <<>> /\ p[1] >= i}

(* ... and the value of one.                                               *)
ValueOf(s, p) == UriDecode(SubSeq(s, Scan(s, p[1], {Equal}) + 1, p[2]))

(* A piece may begin at i.                                                 *)
Start(s, i) == i = 1 \/ i > Len(s) \/ s[i - 1] = Amp

(* The keys of the pieces from i on, each with its first piece's value.    *)
Mapped(s, i, m) ==
  /\ DOMAIN m = {KeyOf(s, p) : p \in KeyedFrom(s, i)}
  /\ \A p \in KeyedFrom(s, i) :
       (\A o \in KeyedFrom(s, i) : KeyOf(s, o) = KeyOf(s, p) => p[1] <= o[1])
         => m[KeyOf(s, p)] = ValueOf(s, p)

(* What stands from i to the delimiter.                                    *)
LEMMA UpToDelimiter ==
  ASSUME NEW s \in Seq(Byte), NEW i \in 1 .. Len(s), BegOf(s, i) <= Len(s)
  PROVE  /\ BegOf(s, i) \in i .. Len(s)
         /\ DelOf(s, Amp, i) \in BegOf(s, i) .. Len(s) + 1
         /\ EqualOf(s, Amp, i) \in BegOf(s, i) .. DelOf(s, Amp, i)
         /\ \A k \in i .. BegOf(s, i) - 1 : s[k] = Space
         /\ \A k \in i .. DelOf(s, Amp, i) - 1 : s[k] # Amp
         /\ DelOf(s, Amp, i) <= Len(s) => s[DelOf(s, Amp, i)] = Amp
         /\ \A k \in BegOf(s, i) .. EqualOf(s, Amp, i) - 1 : s[k] # Equal
         /\ EqualOf(s, Amp, i) < DelOf(s, Amp, i) => s[EqualOf(s, Amp, i)] = Equal
<1> DEFINE n == Len(s)
           b == BegOf(s, i)
           p == DelOf(s, Amp, i)
           e == EqualOf(s, Amp, i)
           t == SubSeq(s, 1, p - 1)
<1>1. n \in Nat /\ \A k \in 1 .. n : s[k] \in Byte
  OBVIOUS
<1>2. b \in i .. n /\ p \in b .. n + 1 /\ e \in b .. p
  BY SplitPlaces
<1>3. \A k \in i .. b - 1 : s[k] = Space
  <2>1. \A k \in i .. b - 1 : s[k] \notin Byte \ {Space}
    BY <1>1, ScanIs DEF BegOf
  <2>2. \A k \in i .. b - 1 : k \in 1 .. n
    BY <1>1, <1>2
  <2> QED
    BY <1>1, <2>1, <2>2
<1>4. /\ \A k \in b .. p - 1 : s[k] # Amp
      /\ p <= n => s[p] = Amp
  <2>1. b \in 1 .. n + 1
    BY <1>1, <1>2
  <2>2. /\ \A k \in b .. p - 1 : s[k] \notin {Amp}
        /\ p <= n => s[p] \in {Amp}
    BY <1>1, <2>1, ScanIs DEF DelOf
  <2> QED
    BY <2>2
<1>5. /\ \A k \in b .. e - 1 : s[k] # Equal
      /\ e < p => s[e] = Equal
  <2>1. Len(t) = p - 1 /\ \A k \in 1 .. p - 1 : t[k] = s[k]
    <3>1. \A k \in 1 .. p - 1 : k \in 1 .. n
      BY <1>1, <1>2
    <3>2. \A k \in 1 .. p - 1 : s[k] \in Byte
      BY <1>1, <3>1
    <3>3. 1 \in Int /\ p - 1 \in Int /\ p - 1 >= 0
      BY <1>1, <1>2
    <3>4. /\ Len(t) = IF 1 <= p - 1 THEN p - 1 - 1 + 1 ELSE 0
          /\ \A k \in 1 .. p - 1 - 1 + 1 : t[k] = s[1 + k - 1]
      <4> HIDE DEF p
      <4> QED
        BY <3>2, <3>3, SubSeqProperties
    <3>5. \A k \in 1 .. p - 1 : k \in 1 .. p - 1 - 1 + 1 /\ 1 + k - 1 = k
      BY <3>3
    <3> HIDE DEF p, t
    <3> QED
      BY <3>3, <3>4, <3>5
  <2>2. Len(t) \in Nat /\ b \in 1 .. Len(t) + 1
    BY <1>1, <1>2, <2>1
  <2>3. /\ \A k \in b .. e - 1 : t[k] \notin {Equal}
        /\ e <= Len(t) => t[e] \in {Equal}
    <3>1. e = Scan(t, b, {Equal})
      BY DEF EqualOf
    <3> HIDE DEF t, b, e
    <3> QED
      BY <2>2, <3>1, ScanIs
  <2>4. \A k \in b .. e - 1 : k \in 1 .. p - 1
    BY <1>1, <1>2
  <2>5. e < p => e \in 1 .. p - 1 /\ e <= Len(t)
    BY <1>1, <1>2, <2>1
  <2> HIDE DEF t, b, e, p
  <2> QED
    BY <2>1, <2>3, <2>4, <2>5
<1> HIDE DEF b, e, p
<1>6. ASSUME NEW k \in i .. p - 1
      PROVE  s[k] # Amp
  <2>1. CASE k < b
    BY <1>1, <1>2, <1>3, <2>1 DEF Space, Amp
  <2>2. CASE ~ (k < b)
    BY <1>1, <1>2, <1>4, <2>2
  <2> QED
    BY <2>1, <2>2
<1> QED
  BY <1>2, <1>3, <1>4, <1>5, <1>6 DEF b, e, p

(* No other piece begins there.                                            *)
LEMMA PieceThere ==
  ASSUME NEW s \in Seq(Byte), NEW i \in 1 .. Len(s), BegOf(s, i) <= Len(s),
         Start(s, i)
  PROVE  /\ \A q \in Pieces(s, Amp) : q[1] >= i =>
              q = <<i, DelOf(s, Amp, i) - 1>> \/ q[1] >= DelOf(s, Amp, i) + 1
         /\ DelOf(s, Amp, i) > i => <<i, DelOf(s, Amp, i) - 1>> \in Pieces(s, Amp)
         /\ Start(s, DelOf(s, Amp, i) + 1)
<1> DEFINE n == Len(s)
           p == DelOf(s, Amp, i)
<1>1. /\ n \in Nat /\ p \in i .. n + 1
      /\ \A k \in i .. p - 1 : s[k] # Amp
      /\ p <= n => s[p] = Amp
  BY UpToDelimiter
<1> HIDE DEF p
<1>2. ASSUME NEW q \in Pieces(s, Amp), q[1] >= i, ~ (q[1] >= p + 1)
      PROVE  q = <<i, p - 1>>
  <2>1. /\ q \in (1 .. n) \X (1 .. n) /\ q[1] <= q[2]
        /\ \A k \in q[1] .. q[2] : s[k] # Amp
        /\ q[1] = 1 \/ s[q[1] - 1] = Amp
        /\ q[2] = n \/ s[q[2] + 1] = Amp
    BY DEF Pieces
  <2>2. q[1] \in 1 .. n /\ q[2] \in 1 .. n /\ q = <<q[1], q[2]>>
    BY <2>1
  <2>3. q[1] # p
    <3> SUFFICES ASSUME q[1] = p PROVE FALSE
      OBVIOUS
    <3>1. p <= n /\ p \in q[1] .. q[2]
      BY <1>1, <2>1, <2>2
    <3> QED
      BY <1>1, <2>1, <3>1
  <2>4. q[1] = i
    <3> SUFFICES ASSUME q[1] # i PROVE FALSE
      OBVIOUS
    <3>1. q[1] - 1 \in i .. p - 1 /\ q[1] # 1
      BY <1>1, <1>2, <2>2, <2>3
    <3> QED
      BY <1>1, <2>1, <3>1
  <2>5. ~ (q[2] >= p)
    <3> SUFFICES ASSUME q[2] >= p PROVE FALSE
      OBVIOUS
    <3>1. p <= n /\ p \in q[1] .. q[2]
      BY <1>1, <2>2, <2>4
    <3> QED
      BY <1>1, <2>1, <3>1
  <2>6. ~ (q[2] < p - 1)
    <3> SUFFICES ASSUME q[2] < p - 1 PROVE FALSE
      OBVIOUS
    <3>1. q[2] + 1 \in i .. p - 1 /\ q[2] # n
      BY <1>1, <2>1, <2>2, <2>4
    <3> QED
      BY <1>1, <2>1, <3>1
  <2>7. q[2] = p - 1
    BY <1>1, <2>2, <2>5, <2>6
  <2> QED
    BY <2>2, <2>4, <2>7
<1>3. ASSUME p > i
      PROVE  <<i, p - 1>> \in Pieces(s, Amp)
  <2>1. i \in 1 .. n /\ p - 1 \in 1 .. n /\ i <= p - 1
    BY <1>1, <1>3
  <2>2. i = 1 \/ s[i - 1] = Amp
    BY <1>1 DEF Start
  <2>3. p - 1 = n \/ s[(p - 1) + 1] = Amp
    <3>1. (p - 1) + 1 = p /\ (p - 1 = n \/ p <= n)
      BY <1>1
    <3> QED
      BY <1>1, <3>1
  <2> QED
    BY <1>1, <2>1, <2>2, <2>3 DEF Pieces
<1>4. Start(s, p + 1)
  <2>1. (p + 1) - 1 = p /\ (p <= n \/ p + 1 > n)
    BY <1>1
  <2> QED
    BY <1>1, <2>1 DEF Start
<1> QED
  BY <1>2, <1>3, <1>4 DEF p

(* Its key and its value are the ones split_string finds.                  *)
LEMMA PieceMeans ==
  ASSUME NEW s \in Seq(Byte), NEW i \in 1 .. Len(s), BegOf(s, i) <= Len(s)
  PROVE  LET q == <<i, DelOf(s, Amp, i) - 1>>
         IN IF EqualOf(s, Amp, i) = BegOf(s, i) THEN KeyOf(s, q) = <<>>
            ELSE /\ KeyOf(s, q) = KeyAt(s, Amp, i) /\ KeyOf(s, q) # <<>>
                 /\ ValueOf(s, q) = ValueAt(s, Amp, i)
<1> DEFINE n == Len(s)
           b == BegOf(s, i)
           p == DelOf(s, Amp, i)
           e == EqualOf(s, Amp, i)
           q == <<i, p - 1>>
           w == SubSeq(s, b, p - 1)
<1>1. n \in Nat /\ \A k \in 1 .. n : s[k] \in Byte
  OBVIOUS
<1>2. /\ b \in i .. n /\ p \in b .. n + 1 /\ e \in b .. p
      /\ \A k \in i .. b - 1 : s[k] = Space
      /\ \A k \in b .. e - 1 : s[k] # Equal
      /\ e < p => s[e] = Equal
  BY UpToDelimiter
<1>3. q[1] = i /\ q[2] = p - 1
  OBVIOUS
<1>4. KeyOf(s, q) = IF b > p - 1 THEN <<>>
                    ELSE SubSeq(w, 1, Scan(w, 1, {Equal}) - 1)
  BY <1>3 DEF KeyOf, BegOf
<1>5. ValueAt(s, Amp, i) = UriDecode(SubSeq(s, e + 1, p - 1))
        /\ KeyAt(s, Amp, i) = SubSeq(s, b, e - 1)
  BY DEF ValueAt, KeyAt
<1>6. ValueOf(s, q) = UriDecode(SubSeq(s, Scan(s, i, {Equal}) + 1, p - 1))
  BY <1>3 DEF ValueOf
<1> HIDE DEF b, p, e, q, w
<1>7. CASE b > p - 1
  <2>1. e = b
    BY <1>1, <1>2, <1>7
  <2> QED
    BY <1>4, <1>7, <2>1 DEF b, p, e, q
<1>8. CASE ~ (b > p - 1)
  <2>1. b \in 1 .. n /\ p - 1 \in b .. n /\ e \in Int
    BY <1>1, <1>2, <1>8
  <2>2. /\ w \in Seq(Byte) /\ Len(w) = p - b
        /\ \A k \in 1 .. p - b : w[k] = s[b + k - 1]
    <3>1. \A k \in b .. p - 1 : k \in 1 .. n
      BY <1>1, <1>2
    <3>2. \A k \in b .. p - 1 : s[k] \in Byte
      BY <1>1, <3>1
    <3>3. b \in Int /\ p - 1 \in Int
      BY <2>1
    <3>4. /\ w \in Seq(Byte) /\ Len(w) = IF b <= p - 1 THEN (p - 1) - b + 1 ELSE 0
          /\ \A k \in 1 .. (p - 1) - b + 1 : w[k] = s[b + k - 1]
      BY <3>2, <3>3, SubSeqProperties DEF w
    <3>5. (p - 1) - b + 1 = p - b /\ b <= p - 1
      BY <1>2, <1>8
    <3> QED
      BY <3>4, <3>5
  <2>3. Scan(w, 1, {Equal}) = e - b + 1
    <3>1. Len(w) \in Nat /\ 1 \in 1 .. Len(w) + 1 /\ e - b + 1 \in 1 .. Len(w) + 1
      BY <1>2, <2>1, <2>2
    <3>2. ASSUME e - b + 1 <= Len(w)
          PROVE  w[e - b + 1] \in {Equal}
      <4>1. e < p /\ e - b + 1 \in 1 .. p - b /\ b + (e - b + 1) - 1 = e
        BY <1>2, <2>1, <2>2, <3>2
      <4> QED
        BY <1>2, <2>2, <4>1
    <3>3. ASSUME NEW k \in 1 .. (e - b + 1) - 1
          PROVE  w[k] \notin {Equal}
      <4>1. b + k - 1 \in b .. e - 1 /\ k \in 1 .. p - b
        BY <1>2, <2>1
      <4> QED
        BY <1>2, <2>2, <4>1
    <3> QED
      BY <3>1, <3>2, <3>3, ScanUnique
  <2>4. KeyOf(s, q) = SubSeq(w, 1, e - b)
    <3>1. (e - b + 1) - 1 = e - b
      BY <1>2, <2>1
    <3> QED
      BY <1>4, <1>8, <2>3, <3>1
  <2>5. CASE e = b
    <3>1. SubSeq(w, 1, e - b) = <<>>
      <4>1. e - b \in Int /\ 1 \in Int /\ e - b < 1
        BY <2>1, <2>5
      <4> QED
        BY <4>1, SubSeqEmpty
    <3> QED
      BY <2>4, <2>5, <3>1 DEF b, p, e, q
  <2>6. CASE e # b
    <3>1. /\ b \in 1 .. n /\ p - 1 \in 1 .. n
          /\ 1 \in 1 .. (p - 1) - b + 1 /\ e - b \in 1 .. (p - 1) - b + 1
          /\ b + 1 - 1 = b /\ b + (e - b) - 1 = e - 1
      BY <1>1, <1>2, <2>1, <2>6
    <3>2. SubSeq(w, 1, e - b) = SubSeq(s, b, e - 1)
      <4>1. SubSeq(SubSeq(s, b, p - 1), 1, e - b) = SubSeq(s, b + 1 - 1, b + (e - b) - 1)
        BY <3>1, SubSeqOfSubSeq
      <4> QED
        BY <3>1, <4>1 DEF w
    <3>3. KeyOf(s, q) # <<>>
      <4>1. \A k \in 1 .. e - b : k \in 1 .. p - b
        BY <1>2, <2>1
      <4>2. 1 \in Int /\ e - b \in Int /\ 1 <= e - b
        BY <1>2, <2>1, <2>6
      <4>3. \A k \in 1 .. e - b : w[k] \in Byte
        BY <2>2, <4>1
      <4>4. Len(SubSeq(w, 1, e - b)) = (e - b) - 1 + 1
        BY <4>2, <4>3, SubSeqProperties
      <4>5. Len(SubSeq(w, 1, e - b)) >= 1
        BY <4>2, <4>4
      <4>6. KeyOf(s, q) = <<>> => Len(KeyOf(s, q)) = 0
        OBVIOUS
      <4>7. Len(KeyOf(s, q)) >= 1
        BY <2>4, <4>5
      <4> QED
        BY <4>6, <4>7
    <3>4. ValueOf(s, q) = ValueAt(s, Amp, i)
      <4>1. CASE e < p
        <5>1. i \in 1 .. n + 1 /\ e \in i .. n + 1
          BY <1>1, <1>2
        <5>2. ASSUME NEW k \in i .. e - 1
              PROVE  s[k] \notin {Equal}
          <6>1. CASE k < b
            <7>1. s[k] = Space
              BY <1>2, <6>1
            <7> QED
              BY <7>1 DEF Space, Equal
          <6>2. CASE ~ (k < b)
            BY <1>2, <6>2
          <6> QED
            BY <6>1, <6>2
        <5>3. e <= n => s[e] \in {Equal}
          BY <1>2, <4>1
        <5>4. Scan(s, i, {Equal}) = e
          BY <1>1, <5>1, <5>2, <5>3, ScanUnique
        <5> QED
          BY <1>5, <1>6, <5>4
      <4>2. CASE ~ (e < p)
        <5> DEFINE l == Scan(s, i, {Equal})
        <5>1. e = p
          BY <1>2, <4>2
        <5>2. l \in i .. n + 1 /\ (l <= n => s[l] = Equal)
          BY <1>1, ScanIs
        <5>3. ~ (l < p)
          <6> SUFFICES ASSUME l < p PROVE FALSE
            OBVIOUS
          <6>1. s[l] = Equal
            BY <1>1, <1>2, <5>2
          <6>2. CASE l < b
            <7>1. s[l] = Space
              BY <1>2, <5>2, <6>2
            <7> QED
              BY <6>1, <7>1 DEF Space, Equal
          <6>3. CASE ~ (l < b)
            BY <1>2, <5>1, <5>2, <6>1, <6>3
          <6> QED
            BY <6>2, <6>3
        <5>4. l + 1 \in Int /\ p - 1 \in Int /\ p - 1 < l + 1 /\ e + 1 \in Int /\ p - 1 < e + 1
          BY <1>2, <2>1, <5>1, <5>2, <5>3
        <5>5. SubSeq(s, l + 1, p - 1) = <<>> /\ SubSeq(s, e + 1, p - 1) = <<>>
          BY <5>4, SubSeqEmpty
        <5> QED
          BY <1>5, <1>6, <5>5
      <4> QED
        BY <4>1, <4>2
    <3> QED
      BY <1>5, <2>4, <2>6, <3>2, <3>3, <3>4 DEF b, p, e, q
  <2> QED
    BY <2>5, <2>6
<1> QED
  BY <1>7, <1>8

(* A word of spaces has no key, and ends the string; any other piece has   *)
(* one or not, and the next begins behind its delimiter.                   *)
LEMMA KeyedStep ==
  ASSUME NEW s \in Seq(Byte), NEW i \in 1 .. Len(s), Start(s, i)
  PROVE  KeyedFrom(s, i) =
           IF BegOf(s, i) > Len(s) THEN {}
           ELSE IF EqualOf(s, Amp, i) = BegOf(s, i)
                THEN KeyedFrom(s, DelOf(s, Amp, i) + 1)
           ELSE KeyedFrom(s, DelOf(s, Amp, i) + 1) \cup {<<i, DelOf(s, Amp, i) - 1>>}
<1> DEFINE n == Len(s)
           b == BegOf(s, i)
           p == DelOf(s, Amp, i)
           e == EqualOf(s, Amp, i)
           q == <<i, p - 1>>
<1>1. n \in Nat /\ \A k \in 1 .. n : s[k] \in Byte
  OBVIOUS
<1>2. \A r \in Pieces(s, Amp) : r[1] \in 1 .. n /\ r[2] \in 1 .. n
  BY DEF Pieces
<1>3. CASE b > n
  <2> SUFFICES ASSUME NEW r \in Pieces(s, Amp), r[1] >= i
               PROVE  KeyOf(s, r) = <<>>
    BY <1>3 DEF KeyedFrom
  <2>1. b \in i .. n + 1 /\ \A k \in i .. b - 1 : s[k] \notin Byte \ {Space}
    BY <1>1, ScanIs DEF BegOf
  <2>2. b = n + 1
    <3> HIDE DEF b
    <3> QED
      BY <1>1, <1>3, <2>1
  <2>3. r[1] \in 1 .. n + 1 /\ n + 1 \in r[1] .. n + 1
    BY <1>1, <1>2
  <2>4. \A k \in r[1] .. (n + 1) - 1 : s[k] \notin Byte \ {Space}
    BY <1>1, <1>2, <2>1, <2>2
  <2>5. n + 1 <= n => s[n + 1] \in Byte \ {Space}
    BY <1>1
  <2>6. Scan(s, r[1], Byte \ {Space}) = n + 1
    BY <1>1, <2>3, <2>4, <2>5, ScanUnique
  <2>7. Scan(s, r[1], Byte \ {Space}) > r[2]
    BY <1>1, <1>2, <2>6
  <2> QED
    BY <2>7 DEF KeyOf
<1>4. CASE ~ (b > n)
  <2>1. BegOf(s, i) <= Len(s)
    BY <1>1, <1>4, ScanIs DEF BegOf
  <2>2. b \in i .. n /\ p \in b .. n + 1 /\ e \in b .. p /\ p + 1 > i
    BY <2>1, SplitPlaces
  <2>3. \A r \in Pieces(s, Amp) : r[1] >= i => r = q \/ r[1] >= p + 1
    BY <2>1, PieceThere
  <2>4. p > i => q \in Pieces(s, Amp)
    BY <2>1, PieceThere
  <2>5. IF e = b THEN KeyOf(s, q) = <<>> ELSE KeyOf(s, q) # <<>>
    BY <2>1, PieceMeans
  <2>6. q[1] = i
    OBVIOUS
  <2> HIDE DEF b, p, e, q
  <2>7. ASSUME NEW r \in KeyedFrom(s, p + 1)
        PROVE  r \in KeyedFrom(s, i)
    <3>1. r \in Pieces(s, Amp) /\ KeyOf(s, r) # <<>> /\ r[1] >= p + 1
      BY DEF KeyedFrom
    <3>2. r[1] >= i
      BY <1>2, <2>2, <3>1
    <3> QED
      BY <3>1, <3>2 DEF KeyedFrom
  <2>8. ASSUME NEW r \in KeyedFrom(s, i)
        PROVE  r = q \/ r \in KeyedFrom(s, p + 1)
    BY <2>3 DEF KeyedFrom
  <2>9. CASE e = b
    <3>1. q \notin KeyedFrom(s, i)
      BY <2>5, <2>9 DEF KeyedFrom
    <3>2. KeyedFrom(s, i) = KeyedFrom(s, p + 1)
      BY <2>7, <2>8, <3>1
    <3> QED
      BY <1>4, <2>9, <3>2 DEF b, p, e
  <2>10. CASE e # b
    <3>1. p > i
      BY <2>2, <2>10
    <3>2. q \in KeyedFrom(s, i)
      BY <2>2, <2>4, <2>5, <2>6, <2>10, <3>1 DEF KeyedFrom
    <3>3. KeyedFrom(s, i) = KeyedFrom(s, p + 1) \cup {q}
      BY <2>7, <2>8, <3>2
    <3> QED
      BY <1>4, <2>10, <3>3 DEF b, p, e, q
  <2> QED
    BY <2>9, <2>10
<1> QED
  BY <1>3, <1>4

(* So the map built from behind has each key, with its first value.        *)
LEMMA MappedStep ==
  ASSUME NEW s \in Seq(Byte), NEW i \in 1 .. Len(s), BegOf(s, i) <= Len(s),
         Start(s, i), EqualOf(s, Amp, i) # BegOf(s, i),
         NEW m, Mapped(s, DelOf(s, Amp, i) + 1, m)
  PROVE  Mapped(s, i, With(m, KeyAt(s, Amp, i), ValueAt(s, Amp, i)))
<1> DEFINE n == Len(s)
           p == DelOf(s, Amp, i)
           q == <<i, p - 1>>
           K == KeyedFrom(s, i)
           L == KeyedFrom(s, p + 1)
           key == KeyAt(s, Amp, i)
           value == ValueAt(s, Amp, i)
           w == With(m, key, value)
<1>1. BegOf(s, i) \in i .. n /\ p \in BegOf(s, i) .. n + 1
  BY SplitPlaces
<1>2. K = L \cup {q}
  <2>1. ~ (BegOf(s, i) > n)
    BY <1>1
  <2> QED
    BY <2>1, KeyedStep
<1>3. KeyOf(s, q) = key /\ ValueOf(s, q) = value
  BY PieceMeans
<1>4. q[1] = i
  OBVIOUS
<1>5. \A r \in L : r[1] \in 1 .. n /\ r[1] >= p + 1
  BY DEF KeyedFrom, Pieces
<1>6. /\ DOMAIN m = {KeyOf(s, r) : r \in L}
      /\ \A r \in L :
           (\A o \in L : KeyOf(s, o) = KeyOf(s, r) => r[1] <= o[1])
             => m[KeyOf(s, r)] = ValueOf(s, r)
  BY DEF Mapped
<1> HIDE DEF p, q, L, key, value
<1>7. /\ DOMAIN w = DOMAIN m \cup {key}
      /\ w[key] = value
      /\ \A k \in DOMAIN m : k # key => w[k] = m[k]
  BY DEF With
<1> HIDE DEF w, K
<1>8. DOMAIN w = {KeyOf(s, r) : r \in K}
  BY <1>2, <1>3, <1>6, <1>7
<1>9. ASSUME NEW r \in K,
             \A o \in K : KeyOf(s, o) = KeyOf(s, r) => r[1] <= o[1]
      PROVE  w[KeyOf(s, r)] = ValueOf(s, r)
  <2>1. CASE r = q
    BY <1>3, <1>7, <2>1
  <2>2. CASE r # q
    <3>1. r \in L
      BY <1>2, <2>2
    <3>2. KeyOf(s, r) # key
      <4> SUFFICES ASSUME KeyOf(s, r) = key PROVE FALSE
        OBVIOUS
      <4>1. r[1] <= i
        BY <1>2, <1>3, <1>4, <1>9
      <4> QED
        BY <1>1, <1>5, <3>1, <4>1
    <3>3. m[KeyOf(s, r)] = ValueOf(s, r)
      BY <1>2, <1>6, <1>9, <3>1
    <3>4. KeyOf(s, r) \in DOMAIN m
      BY <1>6, <3>1
    <3> QED
      BY <1>7, <3>2, <3>3, <3>4
  <2> QED
    BY <2>1, <2>2
<1>10. Mapped(s, i, w)
  BY <1>8, <1>9 DEF Mapped, K
<1> QED
  BY <1>10 DEF w, key, value

(* A parameter for each piece with a key, with the first one's value.      *)
LEMMA SplitMaps ==
  ASSUME NEW s \in Seq(Byte)
  PROVE  Mapped(s, 1, SplitString(s, Amp))
<1> DEFINE n == Len(s)
<1>1. n \in Nat
  OBVIOUS
<1>2. PICK kv :
        /\ \A i \in 1 .. n + 2 :
             kv[i] = IF i > n \/ BegOf(s, i) > n THEN <<>>
                     ELSE IF EqualOf(s, Amp, i) = BegOf(s, i)
                          THEN kv[DelOf(s, Amp, i) + 1]
                     ELSE With(kv[DelOf(s, Amp, i) + 1],
                               KeyAt(s, Amp, i), ValueAt(s, Amp, i))
        /\ SplitString(s, Amp) = kv[1]
  BY SplitIs
<1> DEFINE Good(i) == Start(s, i) => Mapped(s, i, kv[i])
           S == {d \in Nat : \A i \in 1 .. n + 2 : i >= n + 2 - d => Good(i)}
<1>3. ASSUME NEW i, KeyedFrom(s, i) = {}
      PROVE  Mapped(s, i, <<>>)
  <2>1. DOMAIN <<>> = {}
    <3>1. <<>> \in Seq({}) /\ Len(<<>>) = 0
      BY EmptySeq
    <3>2. DOMAIN <<>> = 1 .. 0
      BY <3>1, LenProperties
    <3>3. 1 .. 0 = {}
      OBVIOUS
    <3> QED
      BY <3>2, <3>3
  <2>2. {KeyOf(s, r) : r \in KeyedFrom(s, i)} = {}
    BY <1>3
  <2> QED
    BY <1>3, <2>1, <2>2 DEF Mapped
<1>4. ASSUME NEW i \in 1 .. n + 2, i > n
      PROVE  Good(i)
  <2>1. kv[i] = <<>>
    BY <1>2, <1>4
  <2>2. KeyedFrom(s, i) = {}
    <3>1. \A r \in Pieces(s, Amp) : r[1] \in 1 .. n
      BY DEF Pieces
    <3> QED
      BY <1>1, <1>4, <3>1 DEF KeyedFrom
  <2> QED
    BY <1>3, <2>1, <2>2
<1>5. ASSUME NEW i \in 1 .. n, BegOf(s, i) <= n => Good(DelOf(s, Amp, i) + 1)
      PROVE  Good(i)
  <2> SUFFICES ASSUME Start(s, i)
               PROVE  Mapped(s, i, kv[i])
    OBVIOUS
  <2>1. i \in 1 .. n + 2 /\ ~ (i > n)
    BY <1>1
  <2>2. CASE BegOf(s, i) > n
    <3>1. kv[i] = <<>>
      BY <1>2, <2>1, <2>2
    <3>2. KeyedFrom(s, i) = {}
      BY <2>2, KeyedStep
    <3> QED
      BY <1>3, <3>1, <3>2
  <2>3. CASE ~ (BegOf(s, i) > n)
    <3> DEFINE p == DelOf(s, Amp, i)
    <3>1. BegOf(s, i) <= Len(s)
      BY <1>1, <2>1, <2>3, ScanIs DEF BegOf
    <3>2. Mapped(s, p + 1, kv[p + 1])
      BY <1>5, <3>1, PieceThere
    <3>3. CASE EqualOf(s, Amp, i) = BegOf(s, i)
      <4>1. kv[i] = kv[p + 1]
        BY <1>2, <2>1, <2>3, <3>3
      <4>2. KeyedFrom(s, i) = KeyedFrom(s, p + 1)
        BY <2>3, <3>3, KeyedStep
      <4> QED
        BY <3>2, <4>1, <4>2 DEF Mapped
    <3>4. CASE EqualOf(s, Amp, i) # BegOf(s, i)
      <4>1. kv[i] = With(kv[p + 1], KeyAt(s, Amp, i), ValueAt(s, Amp, i))
        BY <1>2, <2>1, <2>3, <3>4
      <4>2. Mapped(s, i, With(kv[p + 1], KeyAt(s, Amp, i), ValueAt(s, Amp, i)))
        BY <3>1, <3>2, <3>4, MappedStep
      <4> QED
        BY <4>1, <4>2
    <3> QED
      BY <3>3, <3>4
  <2> QED
    BY <2>2, <2>3
<1> HIDE DEF Good
<1>6. 0 \in S
  <2>1. ASSUME NEW i \in 1 .. n + 2, i >= n + 2 - 0
        PROVE  i > n
    BY <1>1, <2>1
  <2> QED
    BY <1>4, <2>1
<1>7. ASSUME NEW d \in Nat, d \in S
      PROVE  d + 1 \in S
  <2> SUFFICES ASSUME NEW i \in 1 .. n + 2, i >= n + 2 - (d + 1)
               PROVE  Good(i)
    OBVIOUS
  <2>1. CASE i > n
    BY <1>4, <2>1
  <2>2. CASE ~ (i > n)
    <3>1. i \in 1 .. n
      BY <1>1, <2>2
    <3>2. ASSUME BegOf(s, i) <= n
          PROVE  Good(DelOf(s, Amp, i) + 1)
      <4>1. BegOf(s, i) \in i .. n /\ DelOf(s, Amp, i) \in BegOf(s, i) .. n + 1
        BY <3>1, <3>2, SplitPlaces
      <4>2. /\ DelOf(s, Amp, i) + 1 \in 1 .. n + 2
            /\ DelOf(s, Amp, i) + 1 >= n + 2 - d
        BY <1>1, <3>1, <4>1
      <4> QED
        BY <1>7, <4>2
    <3> QED
      BY <1>5, <3>1, <3>2
  <2> QED
    BY <2>1, <2>2
<1>8. Good(1)
  <2>1. Nat \subseteq S
    <3> HIDE DEF S
    <3> QED
      BY <1>6, <1>7, SetInduction
  <2>2. n + 2 \in S /\ 1 \in 1 .. n + 2 /\ 1 >= n + 2 - (n + 2)
    BY <1>1, <2>1
  <2> QED
    BY <2>2
<1> QED
  BY <1>2, <1>8 DEF Good, Start

(* Replacing bytes by bytes leaves a string.                               *)
LEMMA Replaced ==
  ASSUME NEW s \in Seq(Byte)
  PROVE  ReplaceAll(s, Tab, Space) \in Seq(Byte)
<1>1. Len(s) \in Nat /\ \A i \in 1 .. Len(s) : s[i] \in Byte
  OBVIOUS
<1>2. Space \in Byte
  BY DEF Space, Byte
<1>3. ReplaceAll(s, Tab, Space) \in [1 .. Len(s) -> Byte]
  BY <1>1, <1>2 DEF ReplaceAll
<1> QED
  BY <1>1, <1>3, SeqDef

(* Of the pieces with a key there is a first one.                          *)
LEMMA FirstPiece ==
  ASSUME NEW s \in Seq(Byte), NEW m, Mapped(s, 1, m), NEW k \in DOMAIN m
  PROVE  \E q \in KeyedFrom(s, 1) :
           /\ KeyOf(s, q) = k
           /\ \A o \in KeyedFrom(s, 1) : KeyOf(s, o) = k => q[1] <= o[1]
<1> DEFINE K == KeyedFrom(s, 1)
           T == {q[1] : q \in {o \in K : KeyOf(s, o) = k}}
<1>1. \A q \in K : q[1] \in Nat
  BY DEF KeyedFrom, Pieces
<1>2. \E q \in K : KeyOf(s, q) = k
  BY DEF Mapped
<1> HIDE DEF K
<1>3. T \subseteq Nat /\ T # {}
  BY <1>1, <1>2
<1>4. PICK l \in T : \A j \in T : l <= j
  <2> HIDE DEF T
  <2> QED
    BY <1>3, LeastNatural
<1>5. PICK q \in K : KeyOf(s, q) = k /\ q[1] = l
  OBVIOUS
<1>6. \A o \in K : KeyOf(s, o) = k => q[1] <= o[1]
  BY <1>4, <1>5
<1> QED
  BY <1>5, <1>6 DEF K

(* So a plugin is handed the parameters the query means: one for each      *)
(* piece between '&' that has a key, with the first such piece's value.    *)
THEOREM ParamsMeant == Spec => []ParamsRight
<1>1. TypeOK => ParamsRight
  <2> SUFFICES ASSUME TypeOK, crequest # None
               PROVE  LET s == ReplaceAll(args, Tab, Space)
                          Keyed == {p \in Pieces(s, Amp) : KeyOf(s, p) # <<>>}
                      IN /\ DOMAIN crequest.param = {KeyOf(s, p) : p \in Keyed}
                         /\ \A k \in DOMAIN crequest.param :
                              LET p == CHOOSE q \in Keyed :
                                         /\ KeyOf(s, q) = k
                                         /\ \A o \in Keyed :
                                              KeyOf(s, o) = k => q[1] <= o[1]
                                  at == Scan(s, p[1], {Equal})
                              IN crequest.param[k] = UriDecode(SubSeq(s, at + 1, p[2]))
    BY DEF ParamsRight
  <2> DEFINE s == ReplaceAll(args, Tab, Space)
             Keyed == {p \in Pieces(s, Amp) : KeyOf(s, p) # <<>>}
             m == crequest.param
             First(k, q) == /\ KeyOf(s, q) = k
                            /\ \A o \in Keyed : KeyOf(s, o) = k => q[1] <= o[1]
  <2>1. s \in Seq(Byte)
    <3>1. args \in Seq(Byte)
      BY ArgsAssumption DEF TypeOK
    <3> QED
      BY <3>1, Replaced
  <2>2. m = SplitString(s, Amp)
    BY DEF TypeOK, Converted, Param
  <2>3. Keyed = KeyedFrom(s, 1)
    <3>1. \A q \in Pieces(s, Amp) : q[1] >= 1
      BY DEF Pieces
    <3> QED
      BY <3>1 DEF KeyedFrom
  <2> HIDE DEF s, m
  <2>4. Mapped(s, 1, m)
    BY <2>1, <2>2, SplitMaps
  <2>5. DOMAIN m = {KeyOf(s, p) : p \in Keyed}
    BY <2>3, <2>4 DEF Mapped
  <2>6. ASSUME NEW k \in DOMAIN m
        PROVE  LET p == CHOOSE q \in Keyed : First(k, q)
               IN m[k] = UriDecode(SubSeq(s, Scan(s, p[1], {Equal}) + 1, p[2]))
    <3> DEFINE p == CHOOSE q \in Keyed : First(k, q)
    <3>1. \E q \in Keyed : First(k, q)
      BY <2>1, <2>3, <2>4, FirstPiece
    <3> HIDE DEF Keyed, First
    <3>2. p \in Keyed /\ First(k, p)
      BY <3>1
    <3> HIDE DEF p
    <3>3. /\ KeyOf(s, p) = k
          /\ \A o \in KeyedFrom(s, 1) : KeyOf(s, o) = KeyOf(s, p) => p[1] <= o[1]
      BY <2>3, <3>2 DEF First
    <3>4. m[k] = ValueOf(s, p)
      BY <2>3, <2>4, <3>2, <3>3 DEF Mapped
    <3> QED
      BY <3>4 DEF ValueOf, p
  <2> QED
    BY <2>5, <2>6 DEF s, m
<1> QED
  BY <1>1, Typed, PTL

(* And a decoded form is, character by character, what it should be.       *)
THEOREM Decoded == Spec => []DecodesForms
<1>1. TypeOK => DecodesForms
  <2> SUFFICES ASSUME TypeOK PROVE DecodesForms
    OBVIOUS
  <2> DEFINE n == Len(args)
             Late == \A i \in {n - 1, n} \cap 1 .. n : args[i] # Plus
             Meant(i) == IF i \in EscapesOf(args) THEN Escaped(args, i)
                         ELSE IF args[i] = Plus THEN Space ELSE args[i]
  <2>1. args \in Seq(Byte)
    BY ArgsAssumption DEF TypeOK
  <2>2. ASSUME NEW i \in KeptOf(args)
        PROVE  Meant(i) = Piece(args, i)
    <3>1. i \in 1 .. n
      BY DEF KeptOf
    <3> QED
      BY <3>1 DEF EscapesOf, Piece
  <2>3. Late =>
          /\ Len(UriDecode(args)) = Cardinality(KeptOf(args))
          /\ \A i \in KeptOf(args) :
               UriDecode(args)[Cardinality(KeptOf(args) \cap 1 .. i)] = Meant(i)
    BY <2>1, <2>2, FormsDecoded
  <2> QED
    BY <2>3 DEF DecodesForms, KeptOf, EscapesOf
<1> QED
  BY <1>1, Typed, PTL
=============================================================================
