---------------------------- MODULE HttpPipeline ----------------------------
(***************************************************************************)
(* The way of an HTTP request through src/main.rs and what it leaves in    *)
(* the access log and in the request counters.                             *)
(*                                                                         *)
(* api_access_log is the outermost layer: CORS, the request-id layers and  *)
(* the routes run inside its next.run().await.  After that await it emits  *)
(* the access event, awaits the counter's upsert and emits the body event, *)
(* all before the response leaves.  A handler can be dropped (the client   *)
(* went away) where it awaits, and nowhere else.                           *)
(*                                                                         *)
(* An event is handed to tracing_appender::non_blocking: a bounded channel *)
(* that DROPS what does not fit, a worker thread that writes the file, and *)
(* a guard that main keeps until it returns and that drains the channel.   *)
(*                                                                         *)
(* "executed", "counted", "fate" and "failed" are history variables but    *)
(* for the database rows that "counted" stands for.                        *)
(***************************************************************************)
EXTENDS Naturals, Sequences, SequencesExt

CONSTANTS
    Req,        \* HTTP requests, each of which arrives at most once
    LogBody,    \* TITTY_LOG_GRAPHQL_BODY
    QueueCap    \* lines the channel to the log worker holds

ASSUME PipelineAssumption == LogBody \in BOOLEAN /\ QueueCap \in Nat \ {0}

VARIABLES
    request,    \* the requests and how far each has come
    queue,      \* the channel to the log worker
    file,       \* the access log
    server,     \* "up", "stopping" or "down"
    executed,   \* requests whose resolvers were started
    counted,    \* how often each request was added to api_request_metrics
    fate,       \* what became of each line: handed over, dropped or neither
    failed      \* whether the process ever ended otherwise than by main returning

vars == <<request, queue, file, server, executed, counted, fate, failed>>

Line == Req \X {"access", "body"}

\* What a client sends: POST /graphql, a CORS preflight of it, or any other
\* path (/healthz or none).
Route  == {"graphql", "preflight", "other"}
Body   == {"good", "malformed", "unreadable"}
Bearer == {"none", "bad", "live"}
Pc     == {"new", "outer", "routed", "limit", "bearer", "event", "metric", "body", "reply",
           "answered", "gone"}

Request == [pc : Pc, route : Route, body : Body, bearer : Bearer]

NotYet == [pc |-> "new", route |-> "other", body |-> "good", bearer |-> "none"]

\* What arrives, told apart as far as anything looks at it: other paths have
\* no body that is read, and the bearer header of a body that does not parse
\* is not looked at.
Arrival ==
    {a \in [pc : {"outer"}, route : Route, body : Body, bearer : Bearer] :
        /\ a.route = "other" => a.body = "good"
        /\ a.route # "graphql" \/ a.body # "good" => a.bearer = "none"}

-----------------------------------------------------------------------------
(* Helpers                                                                 *)

At(r, label) == request[r].pc = label
Goto(r, label) == request' = [request EXCEPT ![r].pc = label]
InFlight(r) == request[r].pc \notin {"new", "answered", "gone"}

\* state.config.log_graphql_body && endpoint == "/graphql"
BuffersBody(r) == LogBody /\ request[r].route \in {"graphql", "preflight"}

\* to_bytes fails: the layer answers 400 itself.
UnreadRefused(r) == BuffersBody(r) /\ request[r].body = "unreadable"

\* The extractor of graphql_handler accepts the body.
Parses(r) == request[r].route = "graphql" /\ request[r].body = "good"

\* authenticate_bearer answers Ok; without a header the request is anonymous.
BearerOk(r) == request[r].bearer # "bad"

Handed == IF Len(queue) < QueueCap THEN "taken" ELSE "dropped"

\* event!(target: "api_access", ..)
EmitUnbounded(l) == queue' = Append(queue, l) /\ fate' = [fate EXCEPT ![l] = "taken"]
Emit(l) ==
    /\ queue' = IF Len(queue) < QueueCap THEN Append(queue, l) ELSE queue
    /\ fate' = [fate EXCEPT ![l] = Handed]

\* The pc behind a completed next.run().await, and the one behind the upsert.
LogSkipped(r) == "metric"
BodyFirst(r) == IF BuffersBody(r) THEN "body" ELSE "event"
AfterRun(r) == "event"
BodyForgotten(r) == "reply"
AfterUpsert(r) == IF BuffersBody(r) THEN "body" ELSE "reply"

\* The guard of the log drains the channel when main returns.
GuardDroppedEarly == file
Drained == file \o queue

-----------------------------------------------------------------------------
Init ==
    /\ request = [r \in Req |-> NotYet]
    /\ queue = <<>>
    /\ file = <<>>
    /\ server = "up"
    /\ executed = {}
    /\ counted = [r \in Req |-> 0]
    /\ fate = [l \in Line |-> "none"]
    /\ failed = FALSE

Arrive(r, a) ==
    /\ server = "up"
    /\ At(r, "new")
    /\ request' = [request EXCEPT ![r] = a]
    /\ UNCHANGED <<queue, file, server, executed, counted, fate, failed>>

\* An unreadable body is answered before anything is logged or counted.
Buffer(r) ==
    /\ At(r, "outer")
    /\ \/ UnreadRefused(r) /\ Goto(r, "answered")
       \/ ~UnreadRefused(r) /\ Goto(r, "routed")
    /\ UNCHANGED <<queue, file, server, executed, counted, fate, failed>>

\* CORS answers the preflight, the router /healthz and unknown paths; the
\* extractor refuses a body it cannot read or parse before the rate limit.
Dispatch(r) ==
    /\ At(r, "routed")
    /\ \/ Parses(r) /\ Goto(r, "limit")
       \/ ~Parses(r) /\ Goto(r, AfterRun(r))
    /\ UNCHANGED <<queue, file, server, executed, counted, fate, failed>>

\* The limiter admits the client or not (see RateLimiter).
CheckRate(r) ==
    /\ At(r, "limit")
    /\ Goto(r, "bearer") \/ Goto(r, AfterRun(r))
    /\ UNCHANGED <<queue, file, server, executed, counted, fate, failed>>

\* authenticate_bearer, then schema.execute; "event" is the await of it.
Execute(r) ==
    /\ At(r, "bearer")
    /\ executed' = IF BearerOk(r) THEN executed \cup {r} ELSE executed
    /\ Goto(r, AfterRun(r))
    /\ UNCHANGED <<queue, file, server, counted, fate, failed>>

LogAccess(r) ==
    /\ At(r, "event")
    /\ Emit(<<r, "access">>)
    /\ Goto(r, "metric")
    /\ UNCHANGED <<file, server, executed, counted, failed>>

\* record_api_request; a failure is only warned about.
Record(r) ==
    /\ At(r, "metric")
    /\ counted' \in {counted, [counted EXCEPT ![r] = @ + 1]}
    /\ Goto(r, AfterUpsert(r))
    /\ UNCHANGED <<queue, file, server, executed, fate, failed>>

LogBodyEvent(r) ==
    /\ At(r, "body")
    /\ Emit(<<r, "body">>)
    /\ Goto(r, "reply")
    /\ UNCHANGED <<file, server, executed, counted, failed>>

Reply(r) ==
    /\ At(r, "reply")
    /\ Goto(r, "answered")
    /\ UNCHANGED <<queue, file, server, executed, counted, fate, failed>>

\* The handler awaits the body, the resolvers, the upsert or the connection.
Awaits(r) ==
    \/ At(r, "outer") /\ BuffersBody(r)
    \/ At(r, "routed") /\ request[r].route = "graphql" /\ ~BuffersBody(r)
    \/ At(r, "event") /\ r \in executed
    \/ At(r, "metric") \/ At(r, "reply")

\* The client goes away; the database thread may still run the upsert.
Disconnect(r) ==
    /\ Awaits(r)
    /\ Goto(r, "gone")
    /\ \/ UNCHANGED counted
       \/ At(r, "metric") /\ counted' = [counted EXCEPT ![r] = @ + 1]
    /\ UNCHANGED <<queue, file, server, executed, fate, failed>>

\* The worker thread of the appender writes a line.
Write ==
    /\ queue # <<>>
    /\ file' = Append(file, Head(queue))
    /\ queue' = Tail(queue)
    /\ UNCHANGED <<request, server, executed, counted, fate, failed>>

\* SIGTERM or Ctrl+C: no request is accepted any more.
Stop ==
    /\ server = "up"
    /\ server' = "stopping"
    /\ UNCHANGED <<request, queue, file, executed, counted, fate, failed>>

\* The last request has ended and main returns.
Return ==
    /\ server = "stopping"
    /\ \A r \in Req : ~InFlight(r)
    /\ server' = "down"
    /\ file' = Drained
    /\ queue' = <<>>
    /\ UNCHANGED <<request, executed, counted, fate, failed>>

\* A crash, or SIGKILL when a stop takes longer than TimeoutStopSec.
Fail ==
    /\ server # "down"
    /\ server' = "down"
    /\ failed' = TRUE
    /\ queue' = <<>>
    /\ request' = [r \in Req |-> IF InFlight(r) THEN [request[r] EXCEPT !.pc = "gone"]
                                 ELSE request[r]]
    /\ UNCHANGED <<file, executed, counted, fate>>

Start ==
    /\ server = "down"
    /\ server' = "up"
    /\ UNCHANGED <<request, queue, file, executed, counted, fate, failed>>

-----------------------------------------------------------------------------
Step(r) ==
    \/ \E a \in Arrival : Arrive(r, a)
    \/ Buffer(r) \/ Dispatch(r) \/ CheckRate(r) \/ Execute(r)
    \/ LogAccess(r) \/ Record(r) \/ LogBodyEvent(r) \/ Reply(r)
    \/ Disconnect(r)

Next == (\E r \in Req : Step(r)) \/ Write \/ Stop \/ Return \/ Fail \/ Start

Spec == Init /\ [][Next]_vars

\* The worker thread of the log keeps writing.
FairSpec == Spec /\ WF_vars(Write)

-----------------------------------------------------------------------------
(* Properties                                                              *)

TypeOK ==
    /\ request \in [Req -> Request]
    /\ queue \in Seq(Line) /\ Len(queue) <= QueueCap
    /\ file \in Seq(Line)
    /\ server \in {"up", "stopping", "down"}
    /\ executed \subseteq Req
    /\ counted \in [Req -> Nat]
    /\ fate \in [Line -> {"none", "taken", "dropped"}]
    /\ failed \in BOOLEAN

Lines == file \o queue
Emitted(l) == fate[l] # "none"

\* Line l is in the log (file or channel), or it was lost in one of the two
\* ways the code has: dropped by a full channel, which takes QueueCap other
\* lines that are in the log by now, or lost with a process that failed.
InLogOrLost(l) ==
    \/ Contains(Lines, l)
    \/ fate[l] = "dropped" /\ Len(Lines) >= QueueCap
    \/ failed /\ Emitted(l)

\* A client that got an answer finds its access line, and the body line if
\* bodies are logged, in the log, unless a full channel dropped the line or a
\* failed process took it along: refused, unauthorised, unparsable and
\* misrouted requests included.  The one answer with no line emitted for it
\* is the early return of the outer layer.
AnswersAreLogged ==
    \A r \in Req : At(r, "answered") =>
        \/ UnreadRefused(r)
        \/ /\ InLogOrLost(<<r, "access">>)
           /\ BuffersBody(r) => InLogOrLost(<<r, "body">>)

\* A request is counted at most once and only after its access event, even
\* when its handler is dropped while the upsert runs: a count without a line
\* in the log means that the full channel or a failed process lost the line.
CountedIsLogged ==
    \A r \in Req : counted[r] > 0 => counted[r] = 1 /\ InLogOrLost(<<r, "access">>)

\* No line is in the log twice, and the body of a request comes after its
\* access line, unless that one was dropped by a full channel or lost with
\* the process: what the API report joins by request id.
LinesInOrder ==
    /\ \A i, j \in 1 .. Len(Lines) : Lines[i] = Lines[j] => i = j
    /\ \A r \in Req, i \in 1 .. Len(Lines) :
          Lines[i] = <<r, "body">> =>
             \/ fate[<<r, "access">>] = "dropped"
             \/ \E j \in 1 .. i - 1 : Lines[j] = <<r, "access">>

\* Whatever the channel took reaches the log across clean stops and restarts:
\* only a crash or a kill loses lines.
CleanStopsKeepLines ==
    failed \/ \A l \in Line : fate[l] = "taken" => Contains(Lines, l)

\* A line the channel took is written in the end, or the process failed.
TakenLinesAreWritten ==
    \A l \in Line : fate[l] = "taken" ~> Contains(file, l) \/ failed

\* README: "writes one JSON access event per HTTP request", read for the
\* requests that reached the resolvers and ended while the process ran; an
\* event that a full channel dropped is let pass.
EveryExecutionIsLogged ==
    \A r \in executed : ~InFlight(r) /\ ~failed => Emitted(<<r, "access">>)

=============================================================================
