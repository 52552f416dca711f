-------------------------- MODULE Subrequest_proofs --------------------------
(***************************************************************************)
(* What holds of the request for any number of subrequests and rounds: the *)
(* CRequest is never used before it is made or after it is destroyed, no   *)
(* plugin step comes before the answers it needs, a body is only read in   *)
(* the first state, and an open request's references are exact.            *)
(***************************************************************************)
EXTENDS Subrequest, FiniteSetTheorems, TLAPS

(* How far the CRequest's life has come in each state of the cascade.      *)
Life ==
  /\ made \in 0 .. 1
  /\ state \in {"INIT", "PROCESS"} => made = 0 /\ destroyed = 0
  /\ state \in {"WAIT", "POST", "FINAL"} => made = 1 /\ destroyed = 0
  /\ state = "DONE" => made = 1 /\ destroyed = 1
  /\ state = "ERROR" /\ running = TRUE => destroyed = 0
  /\ state = "ERROR" /\ running = FALSE => destroyed = made

(* The two ends the handler knows: an error that is over terminated the    *)
(* request, and only a response that was begun can be answered.            *)
Ended ==
  /\ state = "ERROR" /\ running = FALSE => conn = "terminated"
  /\ conn = "terminated" => state = "ERROR" /\ running = FALSE
  /\ conn = "answered" => state = "DONE" /\ running = FALSE

(* No subrequest, and none to hear of, before the plugin was called; the   *)
(* handler is not on the stack while a body is being read.                 *)
Fresh ==
  /\ state \in {"INIT", "PROCESS"} => subs = <<>> /\ late = 0 /\ wake = FALSE
  /\ reading = TRUE => running = FALSE /\ state = "INIT"

IInv ==
  /\ state \in States
  /\ running \in BOOLEAN /\ wake \in BOOLEAN /\ reading \in BOOLEAN
  /\ subs \in Seq(Sub)
  /\ Life
  /\ Ended
  /\ Fresh
  /\ PluginSeesAll

(* The request starts with nothing made, launched or read.                 *)
LEMMA InitInv == Init => IInv
<1> SUFFICES ASSUME Init PROVE IInv
  OBVIOUS
<1>1. subs \in Seq(Sub)
  BY DEF Init
<1>2. Life /\ Ended /\ Fresh /\ PluginSeesAll
  BY DEF Init, Life, Ended, Fresh, PluginSeesAll
<1> QED
  BY <1>1, <1>2 DEF Init, IInv, States

(* Changing the status or the outcome of a subrequest leaves a sequence of *)
(* subrequests, of the same length.                                        *)
LEMMA SubsTyped ==
  ASSUME NEW s \in Seq(Sub), NEW t, DOMAIN t = DOMAIN s,
         t = [i \in DOMAIN t |-> t[i]], \A i \in DOMAIN s : t[i] \in Sub
  PROVE  t \in Seq(Sub)
<1>1. Len(s) \in Nat /\ DOMAIN s = 1 .. Len(s)
  OBVIOUS
<1>2. t \in [1 .. Len(s) -> Sub]
  BY <1>1
<1> QED
  BY <1>1, <1>2

(* start_subrequest leaves a sequence of subrequests.                      *)
LEMMA LaunchTyped ==
  ASSUME NEW n \in Nat, Launch(n)
  PROVE  subs' \in Seq(Sub)
<1>1. NewSub \subseteq Sub
  BY DEF NewSub, Sub
<1>2. subs' \in [1 .. n -> Sub]
  BY <1>1 DEF Launch
<1> QED
  BY <1>2

(* Asking for subrequests moves on to MODULE_STATE_WAIT_SUBREQUEST, or to  *)
(* the error state.                                                        *)
LEMMA StartMovesOn ==
  ASSUME StartSubrequests
  PROVE  /\ subs' \in Seq(Sub)
         /\ \/ state' = "WAIT" /\ running' = FALSE /\ conn' \in {"open", "empty"}
            \/ state' = "ERROR" /\ UNCHANGED <<running, conn>>
<1>1. PICK n \in 1 .. MaxSubs :
        \/ /\ Launch(n) /\ state' = "WAIT" /\ running' = FALSE
           /\ conn' \in {"open", "empty"}
        \/ Launch(n - 1) /\ state' = "ERROR" /\ UNCHANGED <<running, conn>>
  BY DEF StartSubrequests, Release
<1>2. n \in Nat /\ n - 1 \in Nat
  BY BoundsAssumption
<1>3. subs' \in Seq(Sub)
  BY <1>1, <1>2, LaunchTyped
<1> QED
  BY <1>1, <1>3

(* Each test of the cascade keeps the invariant.                           *)
LEMMA HandlerKeepsInv == IInv /\ Handler => IInv'
<1> SUFFICES ASSUME IInv, Handler PROVE IInv'
  OBVIOUS
<1>0. running = TRUE
  BY DEF IInv, Handler, InitRequest, ProcessRequest, CheckSubrequests,
         PostSubrequest, FinalRequest, DoneRequest, ErrorRequest
<1> USE <1>0 DEF IInv, Life, Ended, Fresh, PluginSeesAll, States
<1>1. CASE InitRequest
  BY <1>1 DEF InitRequest
<1>2. CASE ProcessRequest
  <2>1. CASE state' = "ERROR" /\ UNCHANGED <<subs, made>>
    BY <1>2, <2>1 DEF ProcessRequest, StartSubrequests, Release, PluginEnds
  <2>2. CASE made' = made + 1 /\ StartSubrequests
    <3>1. /\ made' = 1 /\ destroyed' = 0
          /\ state = "PROCESS"
          /\ UNCHANGED <<wake, reading>>
      BY <1>2, <2>2 DEF ProcessRequest
    <3>2. /\ subs' \in Seq(Sub)
          /\ \/ state' = "WAIT" /\ running' = FALSE /\ conn' \in {"open", "empty"}
             \/ state' = "ERROR" /\ running' = TRUE /\ conn' = conn
      BY <2>2, StartMovesOn
    <3>3. reading' = FALSE
      BY <3>1
    <3>4. Life' /\ Ended'
      BY <3>1, <3>2
    <3>5. Fresh' /\ PluginSeesAll'
      BY <3>1, <3>2, <3>3
    <3> QED
      BY <3>1, <3>2, <3>3, <3>4, <3>5
  <2>3. CASE made' = made + 1 /\ PluginEnds
    BY <1>2, <2>3 DEF ProcessRequest, PluginEnds
  <2> QED
    BY <1>2, <2>1, <2>2, <2>3 DEF ProcessRequest
<1>3. CASE CheckSubrequests
  BY <1>3 DEF CheckSubrequests, Release, AllDone
<1>4. CASE PostSubrequest
  <2>1. CASE StartSubrequests
    <3>1. /\ state = "POST" /\ made = 1 /\ destroyed = 0
          /\ UNCHANGED <<wake, reading, made, destroyed>>
      BY <1>4 DEF PostSubrequest
    <3>2. /\ subs' \in Seq(Sub)
          /\ \/ state' = "WAIT" /\ running' = FALSE /\ conn' \in {"open", "empty"}
             \/ state' = "ERROR" /\ running' = TRUE /\ conn' = conn
      BY <2>1, StartMovesOn
    <3>3. Life' /\ Ended'
      BY <3>1, <3>2
    <3>4. Fresh' /\ PluginSeesAll'
      BY <3>1, <3>2
    <3> QED
      BY <3>1, <3>2, <3>3, <3>4
  <2>2. CASE PluginEnds
    BY <1>4, <2>2 DEF PostSubrequest, PluginEnds
  <2> QED
    BY <1>4, <2>1, <2>2 DEF PostSubrequest
<1>5. CASE FinalRequest
  <2>1. /\ state = "FINAL" /\ state' = "DONE" /\ running' = FALSE
        /\ conn' \in {"answered", "open"}
        /\ UNCHANGED <<wake, reading, subs, made>>
    BY <1>5 DEF FinalRequest, Finalize
  <2>2. made = 1 /\ destroyed' = 1
    BY <1>5, <2>1 DEF FinalRequest, Destroy
  <2> QED
    BY <2>1, <2>2
<1>6. CASE DoneRequest
  BY <1>6 DEF DoneRequest, Finalize
<1>7. CASE ErrorRequest
  <2>1. /\ state = "ERROR" /\ state' = "ERROR" /\ running' = FALSE
        /\ wake' = FALSE /\ conn' = "terminated"
        /\ UNCHANGED <<reading, made>>
    BY <1>7 DEF ErrorRequest
  <2>2. destroyed' = made
    BY <1>7, <2>1 DEF ErrorRequest, Destroy
  <2>3. subs' \in Seq(Sub)
    <3>1. subs' = [i \in DOMAIN subs |-> [subs[i] EXCEPT !.st = "over"]]
      BY <1>7 DEF ErrorRequest
    <3>2. \A i \in DOMAIN subs : subs[i] \in Sub
      OBVIOUS
    <3>3. \A i \in DOMAIN subs : subs'[i] \in Sub
      BY <3>1, <3>2 DEF Sub
    <3>4. subs \in Seq(Sub)
      OBVIOUS
    <3>5. DOMAIN subs' = DOMAIN subs /\ subs' = [i \in DOMAIN subs' |-> subs'[i]]
      BY <3>1
    <3> QED
      BY <3>3, <3>4, <3>5, SubsTyped
  <2> QED
    BY <2>1, <2>2, <2>3
<1> QED
  BY <1>1, <1>2, <1>3, <1>4, <1>5, <1>6, <1>7 DEF Handler

(* A finished or settled subrequest never runs again.                      *)
LEMMA SubsKeepInv ==
  ASSUME IInv, Settle \/ \E i \in DOMAIN subs : Finish(i)
  PROVE  IInv'
<1>1. UNCHANGED <<state, running, reading, made, destroyed, conn>>
  BY DEF Settle, Finish
<1>2. wake' = TRUE /\ wake \in BOOLEAN
  BY DEF Settle, Finish, PostHandler, IInv
<1>3. state \notin {"INIT", "PROCESS"}
  <2> SUFFICES ASSUME state \in {"INIT", "PROCESS"} PROVE FALSE
    OBVIOUS
  <2>1. subs = <<>> /\ late = 0
    BY DEF IInv, Fresh
  <2>2. DOMAIN subs = {}
    BY <2>1
  <2> QED
    BY <2>1, <2>2 DEF Settle
<1>4. /\ subs' \in Seq(Sub)
      /\ DOMAIN subs' = DOMAIN subs
      /\ \A j \in DOMAIN subs :
           subs'[j].st = "running" => subs[j].st = "running"
  <2>1. CASE UNCHANGED subs
    BY <2>1 DEF IInv
  <2>2. ASSUME NEW i \in DOMAIN subs, NEW t \in {"done", "over"},
               subs' = [subs EXCEPT ![i].st = t]
        PROVE  /\ subs' \in Seq(Sub)
               /\ DOMAIN subs' = DOMAIN subs
               /\ \A j \in DOMAIN subs :
                    subs'[j].st = "running" => subs[j].st = "running"
    <3>1. \A j \in DOMAIN subs : subs[j] \in Sub
      BY DEF IInv
    <3>2. DOMAIN subs' = DOMAIN subs
      BY <2>2
    <3>3. \A j \in DOMAIN subs :
            /\ subs'[j] \in Sub
            /\ subs'[j].st = "running" => subs[j].st = "running"
      BY <2>2, <3>1 DEF Sub
    <3>4. subs \in Seq(Sub)
      BY DEF IInv
    <3>5. subs' = [j \in DOMAIN subs' |-> subs'[j]]
      BY <2>2
    <3> QED
      BY <3>2, <3>3, <3>4, <3>5, SubsTyped
  <2>3. CASE Settle
    BY <2>1, <2>2, <2>3 DEF Settle
  <2>4. CASE \E i \in DOMAIN subs : Finish(i)
    BY <2>2, <2>4 DEF Finish
  <2> QED
    BY <2>3, <2>4
<1> QED
  BY <1>1, <1>2, <1>3, <1>4 DEF IInv, Life, Ended, Fresh, PluginSeesAll

(* No step of the handler or of an event breaks the invariant.             *)
LEMMA StepInv == IInv /\ [Next]_vars => IInv'
<1> SUFFICES ASSUME IInv, [Next]_vars PROVE IInv'
  OBVIOUS
<1> USE DEF IInv, Life, Ended, Fresh, PluginSeesAll
<1>1. CASE Handler
  BY <1>1, HandlerKeepsInv
<1>2. CASE PostBody
  BY <1>2 DEF PostBody, Release, States
<1>3. CASE Resume
  BY <1>3 DEF Resume, Event
<1>4. CASE Settle \/ \E i \in DOMAIN subs : Finish(i)
  BY <1>4, SubsKeepInv
<1>5. CASE Flush \/ Abort
  BY <1>5 DEF Flush, Abort, Event
<1>6. CASE UNCHANGED vars
  BY <1>6 DEF vars
<1> QED
  BY <1>1, <1>2, <1>3, <1>4, <1>5, <1>6 DEF Next

(* The invariant holds in every state of every behaviour.                  *)
THEOREM Invariance == Spec => []IInv
  BY InitInv, StepInv, PTL DEF Spec

(* The plugin and the module only use a CRequest that exists, and destroy  *)
(* it at most once, although ctx->request is never cleared.                *)
THEOREM ContextUsedAlive == Spec => []UsedAlive
<1>1. IInv => UsedAlive
  BY DEF IInv, Life, UsedAlive, States
<1> QED
  BY <1>1, Invariance, PTL

(* Every path of the handler to an end of its own destroys the context.    *)
THEOREM ContextGone == Spec => []EndsClean
<1>1. IInv => EndsClean
  BY DEF IInv, Life, Ended, EndsClean
<1> QED
  BY <1>1, Invariance, PTL

(* ProcessBody and the response come after every subrequest of the round.  *)
THEOREM NoLateAnswer == Spec => []PluginSeesAll
<1>1. IInv => PluginSeesAll
  BY DEF IInv
<1> QED
  BY <1>1, Invariance, PTL

(* post_body never finds a state other than MODULE_STATE_INIT.             *)
THEOREM BodyReadFirst == Spec => []ReadsInInit
<1>1. IInv => ReadsInInit
  BY DEF IInv, Fresh, ReadsInInit
<1> QED
  BY <1>1, Invariance, PTL
-----------------------------------------------------------------------------
(* The references.  Each subrequest that is not over is counted once, in   *)
(* its state; each step moves one of them or none.                         *)
With(s, st) == {i \in DOMAIN s : s[i].st = st}

Open ==
  /\ late \in Nat /\ count \in Nat /\ destroyed \in Nat
  /\ rounds \in 0 .. MaxRounds
  /\ conn \in {"open", "answered", "empty", "terminated", "aborted"}
  /\ running = TRUE => conn = "open"
  /\ CountExact

(* The subrequests in a state are finitely many.                           *)
LEMMA WithFinite ==
  ASSUME NEW s \in Seq(Sub), NEW st
  PROVE  IsFiniteSet(With(s, st)) /\ Cardinality(With(s, st)) \in Nat
<1>1. Len(s) \in Nat /\ DOMAIN s = 1 .. Len(s)
  OBVIOUS
<1>2. IsFiniteSet(1 .. Len(s))
  BY <1>1, FS_Interval
<1>3. IsFiniteSet(With(s, st))
  BY <1>1, <1>2, FS_Subset DEF With
<1> QED
  BY <1>3, FS_CardinalityType

(* A subrequest that changes state leaves one count and enters another.    *)
LEMMA WithMoves ==
  ASSUME NEW s \in Seq(Sub), NEW i \in DOMAIN s, NEW t,
         NEW a \in {"running", "done"}, NEW b \in {"done", "over"},
         s[i].st = a, a # b, t = [s EXCEPT ![i].st = b]
  PROVE  /\ Cardinality(With(t, a)) = Cardinality(With(s, a)) - 1
         /\ b = "done" => Cardinality(With(t, b)) = Cardinality(With(s, b)) + 1
         /\ \A c \in {"running", "done"} :
              c \notin {a, b} => With(t, c) = With(s, c)
<1>1. \A j \in DOMAIN s : s[j] \in Sub
  OBVIOUS
<1>2. /\ DOMAIN t = DOMAIN s
      /\ t[i].st = b
      /\ \A j \in DOMAIN s : j # i => t[j] = s[j]
  BY <1>1 DEF Sub
<1>3. With(t, a) = With(s, a) \ {i} /\ i \in With(s, a)
  BY <1>2 DEF With
<1>4. With(t, b) = With(s, b) \cup {i} /\ i \notin With(s, b)
  BY <1>2 DEF With
<1>5. \A c : c \notin {a, b} => With(t, c) = With(s, c)
  BY <1>2 DEF With
<1>6. IsFiniteSet(With(s, a)) /\ IsFiniteSet(With(s, b))
  BY WithFinite
<1>7. Cardinality(With(t, a)) = Cardinality(With(s, a)) - 1
  BY <1>3, <1>6, FS_RemoveElement
<1>8. Cardinality(With(t, b)) = Cardinality(With(s, b)) + 1
  BY <1>4, <1>6, FS_AddElement
<1> QED
  BY <1>5, <1>7, <1>8

(* Unsettled in terms of the counts, before and after a step.              *)
LEMMA UnsettledIs ==
  /\ Unsettled = Cardinality(With(subs, "running"))
                   + Cardinality(With(subs, "done")) + late
  /\ Unsettled' = Cardinality(With(subs', "running"))
                    + Cardinality(With(subs', "done")) + late'
BY DEF Unsettled, Count, With

(* start_subrequest adds n to what is unsettled: the round before it has   *)
(* none running, and its late ones stay counted.                           *)
LEMMA LaunchCounts ==
  ASSUME IInv, late \in Nat, NEW n \in Nat, Launch(n),
         \A i \in DOMAIN subs : subs[i].st # "running"
  PROVE  Unsettled' = Unsettled + n /\ late' \in Nat
<1>1. subs \in Seq(Sub)
  BY DEF IInv
<1>2. With(subs, "running") = {} /\ Cardinality(With(subs, "running")) = 0
  BY FS_EmptySet DEF With
<1>3. Cardinality(With(subs, "done")) \in Nat
  BY <1>1, WithFinite
<1>4. DOMAIN subs' = 1 .. n /\ \A i \in 1 .. n : subs'[i].st = "running"
  BY DEF Launch, NewSub
<1>5. With(subs', "running") = 1 .. n /\ With(subs', "done") = {}
  BY <1>4 DEF With
<1>6. Cardinality(1 .. n) = n
  <2>1. Cardinality(1 .. n) = IF 1 > n THEN 0 ELSE n - 1 + 1
    BY FS_Interval
  <2> QED
    BY <2>1
<1>7. Cardinality(With(subs', "running")) = n
      /\ Cardinality(With(subs', "done")) = 0
  BY <1>5, <1>6, FS_EmptySet
<1>8. late' = late + Cardinality(With(subs, "done"))
  BY DEF Launch, Count, With
<1>9. Unsettled = Cardinality(With(subs, "done")) + late
  BY <1>2, <1>3, UnsettledIs
<1>10. Unsettled' = n + late'
  BY <1>3, <1>7, <1>8, UnsettledIs
<1> QED
  BY <1>3, <1>8, <1>9, <1>10

(* What is unsettled is a natural number, the same if subs and late are.   *)
LEMMA UnsettledType ==
  ASSUME IInv, late \in Nat
  PROVE  /\ Unsettled \in Nat
         /\ UNCHANGED <<subs, late>> => Unsettled' = Unsettled
<1>1. subs \in Seq(Sub)
  BY DEF IInv
<1>2. /\ Cardinality(With(subs, "running")) \in Nat
      /\ Cardinality(With(subs, "done")) \in Nat
  BY <1>1, WithFinite
<1>3. Unsettled \in Nat
  BY <1>2, UnsettledIs
<1>4. ASSUME UNCHANGED <<subs, late>> PROVE Unsettled' = Unsettled
  BY <1>4, UnsettledIs
<1> QED
  BY <1>3, <1>4

(* The request starts with its own reference.                              *)
LEMMA InitOpen == Init => Open
<1> SUFFICES ASSUME Init PROVE Open
  OBVIOUS
<1>1. With(subs, "running") = {} /\ With(subs, "done") = {}
  BY DEF Init, With
<1>2. /\ Cardinality(With(subs, "running")) = 0
      /\ Cardinality(With(subs, "done")) = 0
  BY <1>1, FS_EmptySet
<1>3. Unsettled = 0
  BY <1>2, UnsettledIs DEF Init
<1> QED
  BY <1>3, BoundsAssumption DEF Init, Open, CountExact

(* Asking for subrequests takes a reference for each that is started.      *)
LEMMA StartCounts ==
  ASSUME IInv, Open, running = TRUE, state \in {"PROCESS", "POST"},
         StartSubrequests
  PROVE  /\ late' \in Nat /\ count' \in Nat
         /\ conn' = "open"
         /\ rounds' \in 0 .. MaxRounds
         /\ count' = 1 + Unsettled'
<1>1. conn = "open" /\ count = 1 + Unsettled /\ Unsettled \in Nat
  BY UnsettledType DEF Open, CountExact
<1>2. \A i \in DOMAIN subs : subs[i].st # "running"
  <2>1. CASE state = "POST"
    BY <2>1 DEF IInv, PluginSeesAll
  <2>2. CASE state = "PROCESS"
    BY <2>2 DEF IInv, Fresh
  <2> QED
    BY <2>1, <2>2
<1>3. PICK n \in 1 .. MaxSubs :
        \/ Launch(n) /\ Release(AfterDone(count + n))
        \/ Launch(n - 1) /\ count' = count + (n - 1) /\ UNCHANGED conn
  BY DEF StartSubrequests
<1>4. n \in Nat /\ n - 1 \in Nat
  BY BoundsAssumption
<1>5. CASE Launch(n) /\ Release(AfterDone(count + n))
  <2>1. Unsettled' = Unsettled + n /\ late' \in Nat
    BY <1>2, <1>4, <1>5, LaunchCounts DEF Open
  <2>2. count' = count + n
    BY <1>1, <1>4, <1>5 DEF Release, AfterDone, Open
  <2>3. conn' = "open"
    BY <1>1, <1>4, <1>5, <2>2 DEF Release, AfterDone
  <2> QED
    BY <1>1, <1>4, <2>1, <2>2, <2>3, BoundsAssumption DEF StartSubrequests, Open
<1>6. CASE Launch(n - 1) /\ count' = count + (n - 1) /\ UNCHANGED conn
  <2>1. Unsettled' = Unsettled + (n - 1) /\ late' \in Nat
    BY <1>2, <1>4, <1>6, LaunchCounts DEF Open
  <2> QED
    BY <1>1, <1>4, <1>6, <2>1, BoundsAssumption DEF StartSubrequests, Open
<1> QED
  BY <1>3, <1>5, <1>6

(* Each test of the cascade keeps the count.                               *)
LEMMA HandlerKeepsOpen == IInv /\ Open /\ Handler => Open'
<1> SUFFICES ASSUME IInv, Open, Handler PROVE Open'
  OBVIOUS
<1>0. running = TRUE
  BY DEF IInv, Handler, InitRequest, ProcessRequest, CheckSubrequests,
         PostSubrequest, FinalRequest, DoneRequest, ErrorRequest
<1>a. conn = "open" /\ count = 1 + Unsettled /\ Unsettled \in Nat /\ late \in Nat
  BY <1>0, UnsettledType DEF Open, CountExact
<1>b. ASSUME UNCHANGED <<subs, late, count, conn, rounds>>,
             destroyed' \in Nat
      PROVE  Open'
  BY <1>a, <1>b, UnsettledType DEF Open, CountExact
<1>c. destroyed \in Nat /\ made \in 0 .. 1
  BY DEF Open, IInv, Life
<1>d. ASSUME UNCHANGED <<subs, late, made, rounds>>, destroyed' \in Nat,
             running' = FALSE, NEW drained \in BOOLEAN, Finalize(drained)
      PROVE  Open'
  <2>1. Unsettled' = Unsettled
    BY <1>a, <1>d, UnsettledType
  <2>2. CASE drained = TRUE /\ Unsettled = 0
    BY <1>a, <1>d, <2>1, <2>2 DEF Open, CountExact, Finalize
  <2>3. CASE ~ (drained = TRUE /\ Unsettled = 0)
    BY <1>a, <1>d, <2>1, <2>3 DEF Open, CountExact, Finalize
  <2> QED
    BY <2>2, <2>3
<1>1. CASE InitRequest
  BY <1>1, <1>b, <1>c DEF InitRequest
<1>2. ASSUME StartSubrequests, state \in {"PROCESS", "POST"}, UNCHANGED destroyed
      PROVE  Open'
  <2>1. /\ late' \in Nat /\ count' \in Nat /\ conn' = "open"
        /\ rounds' \in 0 .. MaxRounds /\ count' = 1 + Unsettled'
    BY <1>0, <1>2, StartCounts
  <2> QED
    BY <1>2, <1>c, <2>1 DEF Open, CountExact
<1>3. CASE ProcessRequest
  <2>1. state = "PROCESS" /\ UNCHANGED destroyed
    BY <1>3 DEF ProcessRequest
  <2>2. CASE StartSubrequests
    BY <1>2, <2>1, <2>2
  <2>3. CASE ~ StartSubrequests
    <3>1. UNCHANGED <<subs, late, count, conn, rounds>>
      BY <1>3, <2>3 DEF ProcessRequest, PluginEnds
    <3> QED
      BY <1>b, <1>c, <2>1, <3>1
  <2> QED
    BY <2>2, <2>3
<1>4. CASE CheckSubrequests
  <2>1. UNCHANGED <<subs, late, destroyed, rounds>>
    BY <1>4 DEF CheckSubrequests
  <2>2. CASE Release(AfterDone(count))
    <3>1. count' = count /\ conn' = "open" /\ Unsettled' = Unsettled
      BY <1>a, <2>1, <2>2, UnsettledType DEF Release, AfterDone
    <3> QED
      BY <1>a, <2>1, <3>1 DEF Open, CountExact
  <2>3. CASE UNCHANGED <<count, conn>>
    BY <1>b, <1>c, <2>1, <2>3
  <2> QED
    BY <1>4, <2>2, <2>3 DEF CheckSubrequests
<1>5. CASE PostSubrequest
  <2>1. state = "POST" /\ UNCHANGED destroyed
    BY <1>5 DEF PostSubrequest
  <2>2. CASE StartSubrequests
    BY <1>2, <2>1, <2>2
  <2>3. CASE PluginEnds
    BY <1>b, <1>c, <2>1, <2>3 DEF PluginEnds
  <2> QED
    BY <1>5, <2>2, <2>3 DEF PostSubrequest
<1>6. CASE FinalRequest
  <2>1. PICK drained \in BOOLEAN : Finalize(drained)
    BY <1>6 DEF FinalRequest
  <2>2. running' = FALSE
    BY <2>1 DEF Finalize
  <2>3. destroyed' \in Nat /\ UNCHANGED <<subs, late, made, rounds>>
    BY <1>6, <1>c DEF FinalRequest, Destroy
  <2> QED
    BY <1>d, <2>1, <2>2, <2>3
<1>7. CASE DoneRequest
  <2>1. PICK drained \in BOOLEAN : Finalize(drained)
    BY <1>7 DEF DoneRequest
  <2>2. running' = FALSE
    BY <2>1 DEF Finalize
  <2>3. destroyed' \in Nat /\ UNCHANGED <<subs, late, made, rounds>>
    BY <1>7, <1>c DEF DoneRequest
  <2> QED
    BY <1>d, <2>1, <2>2, <2>3
<1>8. CASE ErrorRequest
  <2>1. destroyed' \in Nat
    BY <1>8, <1>c DEF ErrorRequest, Destroy
  <2> QED
    BY <1>8, <2>1 DEF ErrorRequest, Open, CountExact
<1> QED
  BY <1>1, <1>3, <1>4, <1>5, <1>6, <1>7, <1>8 DEF Handler

(* A subrequest gives its reference back when it is over, not when it is   *)
(* done: out of turn it keeps it.                                          *)
LEMMA SubsKeepOpen ==
  ASSUME IInv, Open, Settle \/ \E i \in DOMAIN subs : Finish(i)
  PROVE  Open'
<1>1. /\ conn = "open" /\ count = 1 + Unsettled /\ Unsettled \in Nat
      /\ late \in Nat /\ subs \in Seq(Sub)
  BY UnsettledType DEF Open, CountExact, Settle, Finish, Event, IInv
<1>2. UNCHANGED <<conn, running, state, made, destroyed, rounds>>
  BY DEF Settle, Finish
<1>3. /\ Cardinality(With(subs, "running")) \in Nat
      /\ Cardinality(With(subs, "done")) \in Nat
  BY <1>1, WithFinite
<1>4. SUFFICES late' \in Nat /\ count' = 1 + Unsettled' /\ count' \in Nat
  BY <1>1, <1>2 DEF Open, CountExact
<1>5. ASSUME NEW i \in DOMAIN subs, Finish(i)
      PROVE  late' \in Nat /\ count' = 1 + Unsettled' /\ count' \in Nat
  <2>1. subs[i].st = "running" /\ UNCHANGED late
    BY <1>5 DEF Finish
  <2>2. CASE subs' = [subs EXCEPT ![i].st = "over"] /\ count' = count - 1
    <3>1. /\ Cardinality(With(subs', "running"))
               = Cardinality(With(subs, "running")) - 1
          /\ With(subs', "done") = With(subs, "done")
      BY <1>1, <2>1, <2>2, WithMoves
    <3>2. Unsettled' = Unsettled - 1
      BY <1>1, <1>3, <2>1, <3>1, UnsettledIs
    <3>3. Cardinality(With(subs, "running")) # 0
      <4>1. i \in With(subs, "running")
        BY <2>1 DEF With
      <4>2. IsFiniteSet(With(subs, "running"))
        BY <1>1, WithFinite
      <4> QED
        BY <4>1, <4>2, FS_EmptySet
    <3>4. Unsettled >= 1
      BY <1>1, <1>3, <3>3, UnsettledIs
    <3> QED
      BY <1>1, <2>1, <2>2, <3>2, <3>4
  <2>3. CASE subs' = [subs EXCEPT ![i].st = "done"] /\ count' = count
    <3>1. /\ Cardinality(With(subs', "running"))
               = Cardinality(With(subs, "running")) - 1
          /\ Cardinality(With(subs', "done"))
               = Cardinality(With(subs, "done")) + 1
      BY <1>1, <2>1, <2>3, WithMoves
    <3>2. Unsettled' = Unsettled
      BY <1>1, <1>3, <2>1, <3>1, UnsettledIs
    <3> QED
      BY <1>1, <2>1, <2>3, <3>2
  <2> QED
    BY <1>5, <2>2, <2>3 DEF Finish
<1>6. ASSUME Settle
      PROVE  late' \in Nat /\ count' = 1 + Unsettled' /\ count' \in Nat
  <2>0. count' = count - 1
    BY <1>6 DEF Settle
  <2>1. ASSUME NEW i \in DOMAIN subs, subs[i].st = "done",
               subs' = [subs EXCEPT ![i].st = "over"], UNCHANGED late
        PROVE  late' \in Nat /\ count' = 1 + Unsettled' /\ count' \in Nat
    <3>1. /\ Cardinality(With(subs', "done"))
               = Cardinality(With(subs, "done")) - 1
          /\ With(subs', "running") = With(subs, "running")
      BY <1>1, <2>1, WithMoves
    <3>2. Unsettled' = Unsettled - 1
      BY <1>1, <1>3, <2>1, <3>1, UnsettledIs
    <3>3. Cardinality(With(subs, "done")) # 0
      <4>1. i \in With(subs, "done")
        BY <2>1 DEF With
      <4>2. IsFiniteSet(With(subs, "done"))
        BY <1>1, WithFinite
      <4> QED
        BY <4>1, <4>2, FS_EmptySet
    <3>4. Unsettled >= 1
      BY <1>1, <1>3, <3>3, UnsettledIs
    <3> QED
      BY <1>1, <2>0, <2>1, <3>2, <3>4
  <2>2. CASE late > 0 /\ late' = late - 1 /\ UNCHANGED subs
    <3>1. Unsettled' = Unsettled - 1 /\ Unsettled >= 1
      BY <1>1, <1>3, <2>2, UnsettledIs
    <3> QED
      BY <1>1, <2>0, <2>2, <3>1
  <2> QED
    BY <1>6, <2>1, <2>2 DEF Settle
<1> QED
  BY <1>5, <1>6

(* No step of the handler or of an event loses or keeps a reference.       *)
LEMMA StepOpen == IInv /\ Open /\ [Next]_vars => Open'
<1> SUFFICES ASSUME IInv, Open, [Next]_vars PROVE Open'
  OBVIOUS
<1>a. late \in Nat /\ Unsettled \in Nat
  BY UnsettledType DEF Open
<1>1. CASE Handler
  BY <1>1, HandlerKeepsOpen
<1>2. CASE PostBody
  <2>1. conn = "open" /\ state = "INIT" /\ made = 0 /\ subs = <<>> /\ late = 0
    BY <1>2 DEF PostBody, IInv, Life, Fresh
  <2>2. With(subs, "running") = {} /\ With(subs, "done") = {}
    BY <2>1 DEF With
  <2>3. /\ Cardinality(With(subs, "running")) = 0
        /\ Cardinality(With(subs, "done")) = 0
    BY <2>2, FS_EmptySet
  <2>4. count = 1
    BY <2>1, <2>3, UnsettledIs DEF Open, CountExact
  <2> QED
    BY <1>2, <2>1, <2>4 DEF PostBody, Release, Open, CountExact
<1>3. CASE Resume
  <2>1. Unsettled' = Unsettled
    BY <1>3, <1>a, UnsettledType DEF Resume
  <2> QED
    BY <1>3, <2>1 DEF Resume, Event, Open, CountExact
<1>4. CASE Settle \/ \E i \in DOMAIN subs : Finish(i)
  BY <1>4, SubsKeepOpen
<1>5. CASE Flush
  BY <1>5, <1>a DEF Flush, Event, Open, CountExact
<1>6. CASE Abort
  BY <1>6 DEF Abort, Event, Open, CountExact
<1>7. CASE UNCHANGED vars
  <2>1. Unsettled' = Unsettled
    BY <1>7, <1>a, UnsettledType DEF vars
  <2> QED
    BY <1>7, <2>1 DEF vars, Open, CountExact
<1> QED
  BY <1>1, <1>2, <1>3, <1>4, <1>5, <1>6, <1>7 DEF Next

(* The references are counted right in every state of every behaviour.     *)
THEOREM References == Spec => []Open
<1>1. Init => Open
  BY InitOpen
<1>2. IInv /\ Open /\ [Next]_vars => Open'
  BY StepOpen
<1> QED
  BY <1>1, <1>2, Invariance, PTL DEF Spec

(* Every variable keeps its type, for any number of subrequests.           *)
THEOREM TypeCorrect == Spec => []TypeOK
<1>1. IInv /\ Open => TypeOK
  BY DEF IInv, Life, Open, TypeOK
<1> QED
  BY <1>1, Invariance, References, PTL

(* An open request holds its own reference and one for each subrequest     *)
(* that is not over, whatever the order in which they end.                 *)
THEOREM CountIsExact == Spec => []CountExact
<1>1. Open => CountExact
  BY DEF Open
<1> QED
  BY <1>1, References, PTL
=============================================================================
