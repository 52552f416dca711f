----------------------------- MODULE Subrequest -----------------------------
(***************************************************************************)
(* One request handled by the subrequest module (module_subrequest): the   *)
(* plugin is called, may ask for subrequests, is called again when all of  *)
(* them are done, and so on until the response is sent.                    *)
(*                                                                         *)
(* The content handler is a cascade of tests on ctx->state.  Each test is  *)
(* an action; running says that the handler is on the stack, and no event  *)
(* is processed meanwhile (a worker has one thread).  nginx's reference    *)
(* count, its posted requests and its finalization are external and        *)
(* modelled as the module relies on them: finalizing with NGX_DONE drops   *)
(* one reference, a subrequest holds one until its turn in the output      *)
(* order has come, NGX_ERROR terminates the request at once.               *)
(***************************************************************************)
EXTENDS Integers, Sequences, FiniteSets

CONSTANTS
  Methods,       \* request methods met: "GET", "POST", "OTHER"
  Bodies,        \* how a POST body arrives: "whole", "partial", "broken"
  MaxSubs,       \* subrequests a plugin asks for at once (bound)
  MaxRounds,     \* times a plugin answers PLUGIN_AGAIN (bound)
  Faults         \* failures that happen: "plugin", "start", "upstream", "abort"

VARIABLES
  state,         \* ctx->state
  running,       \* the content handler is on the stack
  wake,          \* the request is posted with ngx_http_core_run_phases
  reading,       \* ngx_http_read_client_request_body waits for more
  subs,          \* ctx->subrequests: [st, up] of each subrequest
  late,          \* unsettled subrequests of earlier rounds
  count,         \* r->main->count
  made,          \* CRequests created for this request
  destroyed,     \* CRequests destroyed
  rounds,        \* PLUGIN_AGAIN answers so far
  conn           \* "open", "answered", "empty", "terminated" or "aborted"

vars == <<state, running, wake, reading, subs, late, count, made, destroyed,
          rounds, conn>>

States == {"INIT", "PROCESS", "WAIT", "POST", "FINAL", "DONE", "ERROR"}

(* "running": not done; "done": done = 1, its turn to be finalized in the  *)
(* output order still to come; "over": finalized.  up: its location has an *)
(* upstream, so that subr->upstream is not NULL when it is done.           *)
Sub == [st : {"running", "done", "over"}, up : BOOLEAN]
NewSub == [st : {"running"},
           up : IF "upstream" \in Faults THEN BOOLEAN ELSE {TRUE}]

ASSUME BoundsAssumption == MaxSubs \in Nat \ {0} /\ MaxRounds \in Nat
ASSUME EventsAssumption ==
  /\ Methods \subseteq {"GET", "POST", "OTHER"}
  /\ Bodies \subseteq {"whole", "partial", "broken"}
  /\ Faults \subseteq {"plugin", "start", "upstream", "abort"}

Count(st) == Cardinality({i \in DOMAIN subs : subs[i].st = st})
Unsettled == Count("running") + Count("done") + late

(* The content phase has reached the handler for the first time.           *)
Init ==
  /\ state = "INIT"
  /\ running = TRUE
  /\ wake = FALSE
  /\ reading = FALSE
  /\ subs = <<>>
  /\ late = 0
  /\ count = 1
  /\ made = 0
  /\ destroyed = 0
  /\ rounds = 0
  /\ conn = "open"

-----------------------------------------------------------------------------
(* Mutants: r->main->count++ left out before NGX_DONE; done twice.         *)
DoneUncounted(c) == c - 1
DoneOvercounted(c) == c + 1

(* r->main->count++; return NGX_DONE, which finalization takes back: what  *)
(* is left of c references.                                                *)
AfterDone(c) == (c + 1) - 1

(* The handler gives up its reference of c; the last one closes the        *)
(* request.                                                                *)
Release(c) ==
  /\ running' = FALSE
  /\ count' = c
  /\ conn' = IF c = 0 THEN "empty" ELSE "open"

(* plugin_init_request.  A whole body calls post_body before it returns    *)
(* (count++ and, for NGX_DONE, count--); an incomplete one has NGX_DONE    *)
(* returned against the reference ngx_http_read_client_request_body took.  *)
InitRequest ==
  /\ running /\ state = "INIT"
  /\ \/ /\ "GET" \in Methods \/ ("POST" \in Methods /\ "whole" \in Bodies)
        /\ state' = "PROCESS"
        /\ UNCHANGED <<running, reading>>
     \/ /\ "POST" \in Methods /\ "partial" \in Bodies
        /\ reading' = TRUE
        /\ running' = FALSE
        /\ UNCHANGED state
     \/ /\ "OTHER" \in Methods \/ ("POST" \in Methods /\ "broken" \in Bodies)
        /\ state' = "ERROR"
        /\ UNCHANGED <<running, reading>>
  /\ UNCHANGED <<wake, subs, late, count, made, destroyed, rounds, conn>>

(* The rest of the body is there: post_body finds MODULE_STATE_INIT and    *)
(* finalizes with NGX_DONE, which drops the last reference.  Its branch    *)
(* for other states is never reached (ReadsInInit).                        *)
PostBody ==
  /\ reading /\ ~ running /\ state = "INIT" /\ conn = "open"
  /\ reading' = FALSE
  /\ Release(count - 1)
  /\ UNCHANGED <<state, wake, subs, late, made, destroyed, rounds>>

(* start_subrequest: n subrequests, each holding a reference.  The array   *)
(* of an earlier round is dropped, whatever its members still have to do.  *)
Launch(n) ==
  /\ subs' \in [1 .. n -> NewSub]
  /\ late' = late + Count("done")

(* Mutant: the state is left as it is while the subrequests run.           *)
StartInPlace ==
  /\ rounds < MaxRounds
  /\ rounds' = rounds + 1
  /\ \E n \in 1 .. MaxSubs : Launch(n) /\ Release(AfterDone(count + n))
  /\ UNCHANGED state

(* The plugin answered PLUGIN_AGAIN with n subrequests.  One of them may   *)
(* not start; those before it are on their way by then.                    *)
StartSubrequests ==
  /\ rounds < MaxRounds
  /\ rounds' = rounds + 1
  /\ \E n \in 1 .. MaxSubs :
       \/ /\ Launch(n)
          /\ state' = "WAIT"
          /\ Release(AfterDone(count + n))
       \/ /\ "start" \in Faults
          /\ Launch(n - 1)
          /\ state' = "ERROR"
          /\ count' = count + (n - 1)
          /\ UNCHANGED <<running, conn>>

(* The plugin answered PLUGIN_OK or PLUGIN_ERROR.                          *)
PluginEnds ==
  /\ state' = "FINAL"
  /\ UNCHANGED <<running, subs, late, count, rounds, conn>>

(* plugin_process_request: init_plugin, then the plugin's Handle.          *)
ProcessRequest ==
  /\ running /\ state = "PROCESS"
  /\ \/ /\ "plugin" \in Faults          \* no plugin_name, or no such plugin
        /\ state' = "ERROR"
        /\ UNCHANGED <<running, subs, late, count, made, rounds, conn>>
     \/ /\ made' = made + 1
        /\ StartSubrequests \/ PluginEnds
  /\ UNCHANGED <<wake, reading, destroyed>>

(* Mutant: one finished subrequest is enough.                              *)
SomeDone == \E i \in DOMAIN subs : subs[i].st # "running"

AllDone == \A i \in DOMAIN subs : subs[i].st # "running"

(* plugin_check_subrequest.                                                *)
CheckSubrequests ==
  /\ running /\ state = "WAIT"
  /\ \/ /\ ~ AllDone
        /\ Release(AfterDone(count))
        /\ UNCHANGED state
     \/ /\ AllDone
        /\ state' = IF \A i \in DOMAIN subs : subs[i].up THEN "POST" ELSE "ERROR"
        /\ UNCHANGED <<running, count, conn>>
  /\ UNCHANGED <<wake, reading, subs, late, made, destroyed, rounds>>

(* plugin_post_subrequest: the plugin's ProcessBody.                       *)
PostSubrequest ==
  /\ running /\ state = "POST"
  /\ StartSubrequests \/ PluginEnds
  /\ UNCHANGED <<wake, reading, made, destroyed>>

(* Nothing is left of the response: no subrequest before it in the output  *)
(* order, and no data the client has not taken.                            *)
Finalize(drained) ==
  /\ running' = FALSE
  /\ conn' = IF drained /\ Unsettled = 0 THEN "answered" ELSE "open"
  /\ count' = IF drained /\ Unsettled = 0 THEN count - 1 ELSE count

(* Mutant: the CRequest is left to the request's pool.                     *)
DestroyNothing == UNCHANGED destroyed

(* The plugin's Destroy and delete, if there is a request.  The pointer in *)
(* ctx keeps its value: only ctx->state prevents a second time.            *)
Destroy == destroyed' = IF made > 0 THEN destroyed + 1 ELSE destroyed

(* Mutant: the state does not become MODULE_STATE_DONE first.              *)
FinalInPlace ==
  /\ running /\ state = "FINAL"
  /\ Destroy
  /\ \E drained \in BOOLEAN : Finalize(drained)
  /\ UNCHANGED <<state, wake, reading, subs, late, made, rounds>>

(* plugin_final_request: crequest_to_ngxr sends the response.              *)
FinalRequest ==
  /\ running /\ state = "FINAL"
  /\ state' = "DONE"
  /\ Destroy
  /\ \E drained \in BOOLEAN : Finalize(drained)
  /\ UNCHANGED <<wake, reading, subs, late, made, rounds>>

(* plugin_done_request: woken again while the response drains.             *)
DoneRequest ==
  /\ running /\ state = "DONE"
  /\ \E drained \in BOOLEAN : Finalize(drained)
  /\ UNCHANGED <<state, wake, reading, subs, late, made, destroyed, rounds>>

(* plugin_destroy_request and NGX_ERROR: nginx terminates the request and  *)
(* with it every subrequest.                                               *)
ErrorRequest ==
  /\ running /\ state = "ERROR"
  /\ Destroy
  /\ running' = FALSE
  /\ wake' = FALSE
  /\ subs' = [i \in DOMAIN subs |-> [subs[i] EXCEPT !.st = "over"]]
  /\ late' = 0
  /\ count' = 0
  /\ conn' = "terminated"
  /\ UNCHANGED <<state, reading, made, rounds>>

-----------------------------------------------------------------------------
(* Events, one at a time, while the handler is not on the stack.           *)
Event == ~ running /\ conn = "open"

(* ngx_http_core_run_phases calls the content handler again.               *)
Resume ==
  /\ Event /\ wake
  /\ wake' = FALSE
  /\ running' = TRUE
  /\ UNCHANGED <<state, reading, subs, late, count, made, destroyed, rounds,
                 conn>>

(* Mutant: the parent's write_event_handler is left alone.                 *)
NoNotice == UNCHANGED wake

(* subrequest_post_handler, called whenever a subrequest is finalized.     *)
PostHandler == wake' = TRUE

(* External.  A subrequest is finalized.  If its turn in the output order  *)
(* has not come it is done but keeps its reference, and is finalized again *)
(* (post handler included) when it has.                                    *)
Finish(i) ==
  /\ Event /\ subs[i].st = "running"
  /\ \/ /\ subs' = [subs EXCEPT ![i].st = "over"]
        /\ count' = count - 1
     \/ /\ subs' = [subs EXCEPT ![i].st = "done"]
        /\ UNCHANGED count
  /\ PostHandler
  /\ UNCHANGED <<state, running, reading, late, made, destroyed, rounds, conn>>

Settle ==
  /\ Event
  /\ \/ \E i \in DOMAIN subs :
          /\ subs[i].st = "done"
          /\ subs' = [subs EXCEPT ![i].st = "over"]
          /\ UNCHANGED late
     \/ /\ late > 0
        /\ late' = late - 1
        /\ UNCHANGED subs
  /\ count' = count - 1
  /\ PostHandler
  /\ UNCHANGED <<state, running, reading, made, destroyed, rounds, conn>>

(* External.  ngx_http_writer has sent the last of the response.           *)
Flush ==
  /\ Event /\ state = "DONE" /\ Unsettled = 0 /\ ~ wake
  /\ conn' = "answered"
  /\ count' = count - 1
  /\ UNCHANGED <<state, running, wake, reading, subs, late, made, destroyed,
                 rounds>>

(* External.  The client goes away (or its body times out): nginx          *)
(* terminates the request, and nothing in the module hears of it.          *)
Abort ==
  /\ Event /\ "abort" \in Faults
  /\ conn' = "aborted"
  /\ count' = 0
  /\ UNCHANGED <<state, running, wake, reading, subs, late, made, destroyed,
                 rounds>>

Handler ==
  \/ InitRequest \/ ProcessRequest \/ CheckSubrequests \/ PostSubrequest
  \/ FinalRequest \/ DoneRequest \/ ErrorRequest

Next ==
  \/ Handler
  \/ PostBody
  \/ Resume
  \/ \E i \in DOMAIN subs : Finish(i)
  \/ Settle
  \/ Flush
  \/ Abort

Spec == Init /\ [][Next]_vars

(* The worker runs what is runnable: the handler, posted requests.  The    *)
(* rest of a body comes (or Abort is its timeout), upstreams answer or     *)
(* time out, and a client takes its response.                              *)
FairSpec ==
  /\ Spec
  /\ WF_vars(Handler) /\ WF_vars(Resume) /\ WF_vars(PostBody)
  /\ \A i \in 1 .. MaxSubs : WF_vars(i \in DOMAIN subs /\ Finish(i))
  /\ WF_vars(Settle) /\ WF_vars(Flush)

-----------------------------------------------------------------------------
(* Every variable keeps its type.                                          *)
TypeOK ==
  /\ state \in States
  /\ running \in BOOLEAN /\ wake \in BOOLEAN /\ reading \in BOOLEAN
  /\ subs \in Seq(Sub)
  /\ late \in Nat /\ count \in Nat /\ made \in 0 .. 1 /\ destroyed \in Nat
  /\ rounds \in 0 .. MaxRounds
  /\ conn \in {"open", "answered", "empty", "terminated", "aborted"}

(* An open request holds one reference of its own and one for each         *)
(* subrequest that is not over: it is neither freed under a subrequest nor *)
(* kept for ever, whatever the order in which subrequests end.             *)
CountExact == conn = "open" => count = 1 + Unsettled

(* The plugin and the module only use a CRequest that exists, and it is    *)
(* destroyed at most once although ctx->request keeps pointing at it.      *)
UsedAlive ==
  /\ running /\ state \in {"WAIT", "POST", "FINAL"} => made = 1 /\ destroyed = 0
  /\ destroyed <= made

(* ProcessBody and the response come after every subrequest of the round:  *)
(* no late answer can arrive at a plugin that has moved on.                *)
PluginSeesAll ==
  state \in {"POST", "FINAL", "DONE"} =>
    \A i \in DOMAIN subs : subs[i].st # "running"

(* While a body is being read the state is MODULE_STATE_INIT, so that      *)
(* post_body's branch for a body read in several parts is never taken.     *)
ReadsInInit == reading => state = "INIT"

(* Every path of the handler to an end destroys the context, "exactly once"*)
(* (ngx_subrequest_module.c:177), whatever failed on the way.  A request   *)
(* that nginx terminates while it waits takes none: with conn = "aborted"  *)
(* a CRequest may be left.                                                 *)
EndsClean == conn \in {"answered", "terminated"} => destroyed = made

(* A request nginx closes in good order has been answered by the plugin:   *)
(* post_body hands on a body "read in multiple times" as well.             *)
ClosedAnswered == conn # "empty"

(* Every request comes to an end: no subrequest's completion is missed.    *)
Ends == <>(conn # "open")
=============================================================================
