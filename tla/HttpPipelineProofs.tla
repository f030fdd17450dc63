------------------------- MODULE HttpPipelineProofs -------------------------
(***************************************************************************)
(* Proofs about HttpPipeline for any set of requests, any capacity of the  *)
(* log channel and either setting of TITTY_LOG_GRAPHQL_BODY.               *)
(*                                                                         *)
(* The argument is local to a request: where it is in the pipeline decides *)
(* what has been emitted, counted and executed for it, and no step of      *)
(* another request, of the log worker or of the server takes that back.    *)
(***************************************************************************)
EXTENDS HttpPipeline, SequenceTheorems, TLAPS

-----------------------------------------------------------------------------
(* The inductive invariant                                                 *)

AccessLogged(r) == Emitted(<<r, "access">>)
BodyLogged(r) == Emitted(<<r, "body">>)

\* All that is emitted for a request before it is answered.
EventsOut(r) == AccessLogged(r) /\ (BuffersBody(r) => BodyLogged(r))

\* Behind the access event it has been emitted, before the reply the body
\* event too where bodies are logged; before the end of the upsert nothing is
\* counted, and only a parsed request goes on to the resolvers.
RequestOk(r) ==
    /\ request[r].pc \in {"metric", "body"} => AccessLogged(r)
    /\ At(r, "reply") => EventsOut(r)
    /\ At(r, "answered") => EventsOut(r) \/ UnreadRefused(r)
    /\ request[r].pc \in {"new", "outer", "routed", "limit", "bearer", "event", "metric"} => counted[r] = 0
    /\ counted[r] > 0 => counted[r] = 1 /\ AccessLogged(r)
    /\ request[r].pc \in {"limit", "bearer"} => Parses(r)
    /\ r \in executed => /\ request[r].pc \notin {"new", "outer", "routed", "limit", "bearer"}
                         /\ Parses(r) /\ BearerOk(r)

Shape ==
    /\ request \in [Req -> Request]
    /\ counted \in [Req -> Nat]
    /\ fate \in [Line -> {"none", "taken", "dropped"}]
    /\ executed \subseteq Req

IInv == Shape /\ \A r \in Req : RequestOk(r)

-----------------------------------------------------------------------------
\* What a step of one request leaves to the others: their place, their count
\* and whether they ran, and every line that was emitted stays emitted.
Frame(r) ==
    /\ \A u \in Req : u # r => /\ request'[u] = request[u] /\ counted'[u] = counted[u]
                               /\ u \in executed' <=> u \in executed
    /\ \A l \in Line : Emitted(l) => Emitted(l)'

\* A framed step needs to be looked at for its own request only.
LEMMA FrameKeepsOthers ==
    ASSUME IInv, NEW r \in Req, Frame(r), Shape', RequestOk(r)'
    PROVE  IInv'
  <1>1. ASSUME NEW u \in Req, u # r
        PROVE  RequestOk(u)'
    <2>1. /\ request'[u] = request[u] /\ counted'[u] = counted[u] /\ (u \in executed' <=> u \in executed)
          /\ RequestOk(u)
      BY <1>1 DEF Frame, IInv
    <2>2. (AccessLogged(u) => AccessLogged(u)') /\ (BodyLogged(u) => BodyLogged(u)')
      BY DEF Frame, AccessLogged, BodyLogged, Line
    <2>3. (EventsOut(u) => EventsOut(u)') /\ (UnreadRefused(u) => UnreadRefused(u)')
      BY <2>1, <2>2 DEF EventsOut, UnreadRefused, BuffersBody
    <2> QED
      BY <2>1, <2>2, <2>3 DEF RequestOk, At, Parses, BearerOk
  <1> QED
    BY <1>1 DEF IInv

\* A move of one request along the pipeline that emits nothing.
LEMMA GotoFrame ==
    ASSUME Shape, NEW r \in Req, NEW label \in Pc, Goto(r, label), UNCHANGED <<counted, fate, executed>>
    PROVE  /\ Frame(r) /\ Shape'
           /\ request'[r].pc = label
           /\ UNCHANGED <<request[r].route, request[r].body, request[r].bearer, counted[r]>>
           /\ AccessLogged(r)' = AccessLogged(r)
           /\ EventsOut(r) => EventsOut(r)'
           /\ r \in executed' <=> r \in executed
  <1>1. /\ Frame(r) /\ Shape'
        /\ request'[r].pc = label
        /\ UNCHANGED <<request[r].route, request[r].body, request[r].bearer, counted[r]>>
        /\ r \in executed' <=> r \in executed
    BY DEF Shape, Goto, Frame, Emitted, Request
  <1> QED
    BY <1>1 DEF EventsOut, AccessLogged, BodyLogged, Emitted, BuffersBody

\* Emitting a line settles its fate and no other's.
LEMMA EmitShape ==
    ASSUME Shape, NEW l \in Line, Emit(l)
    PROVE  /\ fate' \in [Line -> {"none", "taken", "dropped"}]
           /\ Emitted(l)'
           /\ \A m \in Line : Emitted(m) => Emitted(m)'
  BY DEF Shape, Emit, Handed, Emitted

-----------------------------------------------------------------------------
\* Nothing has happened at first.
LEMMA InitIInv == Init => IInv
  BY DEF Init, IInv, Shape, RequestOk, NotYet, Request, Pc, Route, Body, Bearer, At, Line

\* A request arrives uncounted and unexecuted.
LEMMA ArriveIInv ==
    ASSUME IInv, NEW r \in Req, NEW a \in Arrival, Arrive(r, a)
    PROVE  IInv'
  <1>1. /\ request' = [request EXCEPT ![r] = a] /\ UNCHANGED <<executed, counted, fate>>
        /\ request[r].pc = "new" /\ RequestOk(r) /\ Shape
    BY DEF Arrive, At, IInv
  <1>2. a \in Request /\ a.pc = "outer"
    BY DEF Arrival, Request, Pc
  <1>3. Shape' /\ request'[r] = a
    BY <1>1, <1>2 DEF Shape
  <1>4. Frame(r)
    BY <1>1 DEF Frame, Emitted, Shape
  <1>5. RequestOk(r)'
    BY <1>1, <1>2, <1>3 DEF RequestOk, At, AccessLogged, Emitted, Shape
  <1> QED
    BY <1>3, <1>4, <1>5, FrameKeepsOthers

\* The moves between the layers emit, count and execute nothing.
LEMMA MoveIInv ==
    ASSUME IInv, NEW r \in Req, Buffer(r) \/ Dispatch(r) \/ CheckRate(r) \/ Reply(r)
    PROVE  IInv'
  <1>1. PICK label \in {"answered", "routed", "limit", "bearer", "event"} :
          /\ Goto(r, label) /\ UNCHANGED <<counted, fate, executed>>
          /\ label = "answered" => At(r, "reply") \/ (At(r, "outer") /\ UnreadRefused(r))
          /\ label \in {"limit", "bearer"} => Parses(r)
          /\ label \in {"routed", "limit", "bearer", "event"} =>
                request[r].pc \in {"outer", "routed", "limit"}
    <2>1. CASE Buffer(r)
      <3>1. CASE UnreadRefused(r) /\ Goto(r, "answered")
        BY <2>1, <3>1 DEF Buffer, At
      <3>2. CASE Goto(r, "routed")
        BY <2>1, <3>2 DEF Buffer, At
      <3> QED
        BY <2>1, <3>1, <3>2 DEF Buffer
    <2>2. CASE Dispatch(r)
      <3>1. CASE Parses(r) /\ Goto(r, "limit")
        BY <2>2, <3>1 DEF Dispatch, At
      <3>2. CASE Goto(r, "event")
        BY <2>2, <3>2 DEF Dispatch, At
      <3> QED
        BY <2>2, <3>1, <3>2 DEF Dispatch, AfterRun
    <2>3. CASE CheckRate(r)
      <3>1. Parses(r)
        BY <2>3 DEF CheckRate, IInv, RequestOk, At
      <3>2. CASE Goto(r, "bearer")
        BY <2>3, <3>1, <3>2 DEF CheckRate, At
      <3>3. CASE Goto(r, "event")
        BY <2>3, <3>3 DEF CheckRate, At
      <3> QED
        BY <2>3, <3>2, <3>3 DEF CheckRate, AfterRun
    <2>4. CASE Reply(r)
      BY <2>4 DEF Reply, At
    <2> QED
      BY <2>1, <2>2, <2>3, <2>4
  <1>2. label \in Pc /\ Shape /\ RequestOk(r)
    BY DEF Pc, IInv
  <1>3. /\ Frame(r) /\ Shape'
        /\ request'[r].pc = label
        /\ UNCHANGED <<request[r].route, request[r].body, request[r].bearer, counted[r]>>
        /\ AccessLogged(r)' = AccessLogged(r)
        /\ EventsOut(r) => EventsOut(r)'
        /\ r \in executed' <=> r \in executed
    BY <1>1, <1>2, GotoFrame
  <1>4. RequestOk(r)'
    BY <1>1, <1>2, <1>3 DEF RequestOk, At, UnreadRefused, BuffersBody, Parses, BearerOk
  <1> QED
    BY <1>3, <1>4, FrameKeepsOthers

\* The resolvers start for a parsed request with an acceptable header only.
LEMMA ExecuteIInv ==
    ASSUME IInv, NEW r \in Req, Execute(r)
    PROVE  IInv'
  <1>1. /\ request' = [request EXCEPT ![r].pc = "event"] /\ UNCHANGED <<counted, fate>>
        /\ executed' = IF BearerOk(r) THEN executed \cup {r} ELSE executed
        /\ request[r].pc = "bearer" /\ RequestOk(r) /\ Shape
    BY DEF Execute, Goto, AfterRun, At, IInv
  <1>2. /\ request'[r].pc = "event" /\ Shape' /\ Frame(r)
        /\ request'[r].route = request[r].route /\ request'[r].body = request[r].body
        /\ request'[r].bearer = request[r].bearer /\ counted'[r] = counted[r]
    <2>1. request' \in [Req -> Request] /\ request'[r] = [request[r] EXCEPT !.pc = "event"]
      BY <1>1 DEF Shape, Request, Pc
    <2>2. executed' \subseteq Req
      BY <1>1 DEF Shape
    <2>3. Frame(r)
      BY <1>1 DEF Frame, Emitted, Shape
    <2> QED
      BY <1>1, <2>1, <2>2, <2>3 DEF Shape, Request
  <1>3. AccessLogged(r)' = AccessLogged(r)
    BY <1>1 DEF AccessLogged, Emitted
  <1>4. r \in executed' => BearerOk(r)
    BY <1>1 DEF RequestOk
  <1>5. RequestOk(r)'
    BY <1>1, <1>2, <1>3, <1>4 DEF RequestOk, At, Parses, BearerOk
  <1> QED
    BY <1>2, <1>5, FrameKeepsOthers

\* Both events settle the fate of one line.
LEMMA LogIInv ==
    ASSUME IInv, NEW r \in Req, LogAccess(r) \/ LogBodyEvent(r)
    PROVE  IInv'
  <1>1. PICK label \in {"metric", "reply"}, kind \in {"access", "body"} :
          /\ request' = [request EXCEPT ![r].pc = label]
          /\ Emit(<<r, kind>>) /\ UNCHANGED <<executed, counted>>
          /\ \/ label = "metric" /\ kind = "access" /\ request[r].pc = "event"
             \/ label = "reply" /\ kind = "body" /\ request[r].pc = "body"
    BY DEF LogAccess, LogBodyEvent, Goto, At
  <1>2. <<r, kind>> \in Line /\ <<r, "access">> \in Line /\ Shape /\ RequestOk(r)
    BY DEF Line, IInv
  <1>3. /\ fate' \in [Line -> {"none", "taken", "dropped"}]
        /\ Emitted(<<r, kind>>)'
        /\ \A m \in Line : Emitted(m) => Emitted(m)'
    BY <1>1, <1>2, EmitShape
  <1>4. AccessLogged(r)' /\ (kind = "body" => BodyLogged(r)')
    BY <1>1, <1>2, <1>3 DEF RequestOk, AccessLogged, BodyLogged
  <1>5. request'[r] = [request[r] EXCEPT !.pc = label] /\ request' \in [Req -> Request]
    BY <1>1, <1>2 DEF Shape, Request, Pc
  <1>6. Shape' /\ Frame(r)
    BY <1>1, <1>2, <1>3, <1>5 DEF Shape, Frame
  <1>7. RequestOk(r)'
    <2>1. /\ request'[r].pc = label /\ request'[r].route = request[r].route
          /\ request'[r].body = request[r].body /\ request'[r].bearer = request[r].bearer
      BY <1>2, <1>5 DEF Shape, Request
    <2>2. label = "reply" => EventsOut(r)'
      BY <1>1, <1>4 DEF EventsOut
    <2>3. counted'[r] = counted[r] /\ (r \in executed' <=> r \in executed)
      BY <1>1
    <2> QED
      BY <1>1, <1>2, <1>4, <2>1, <2>2, <2>3 DEF RequestOk, At, Parses, BearerOk
  <1> QED
    BY <1>6, <1>7, FrameKeepsOthers

\* The upsert counts a request once, behind its access event.
LEMMA RecordIInv ==
    ASSUME IInv, NEW r \in Req, At(r, "metric"), NEW label \in {"body", "reply", "gone"},
           label = "reply" => ~BuffersBody(r),
           Goto(r, label), counted' \in {counted, [counted EXCEPT ![r] = @ + 1]},
           UNCHANGED <<executed, fate>>
    PROVE  IInv'
  <1>1. request[r].pc = "metric" /\ Shape /\ RequestOk(r)
    BY DEF At, IInv
  <1>2. counted[r] = 0 /\ AccessLogged(r)
    BY <1>1 DEF RequestOk
  <1>3. request'[r] = [request[r] EXCEPT !.pc = label] /\ request' \in [Req -> Request]
    BY <1>1 DEF Shape, Request, Pc, Goto
  <1>4. counted' \in [Req -> Nat] /\ counted'[r] \in {0, 1}
    BY <1>1, <1>2 DEF Shape
  <1>5. Shape' /\ Frame(r)
    BY <1>1, <1>3, <1>4 DEF Shape, Frame, Emitted, Goto
  <1>6. AccessLogged(r)'
    BY <1>2 DEF AccessLogged, Emitted
  <1>7. RequestOk(r)'
    <2>1. /\ request'[r].pc = label /\ request'[r].route = request[r].route
          /\ request'[r].body = request[r].body /\ request'[r].bearer = request[r].bearer
      BY <1>1, <1>3 DEF Shape, Request
    <2>2. label = "reply" => EventsOut(r)'
      BY <1>6, <2>1 DEF EventsOut, BuffersBody
    <2> QED
      BY <1>1, <1>4, <1>6, <2>1, <2>2 DEF RequestOk, At, Parses, BearerOk
  <1> QED
    BY <1>5, <1>7, FrameKeepsOthers

\* A handler that is dropped leaves what it has emitted, counted and run.
LEMMA GoneIInv ==
    ASSUME IInv, NEW r \in Req, Goto(r, "gone"), UNCHANGED <<counted, executed, fate>>,
           r \in executed => Parses(r) /\ BearerOk(r)
    PROVE  IInv'
  <1>1. Shape /\ RequestOk(r) /\ "gone" \in Pc
    BY DEF IInv, Pc
  <1>2. /\ Frame(r) /\ Shape'
        /\ request'[r].pc = "gone"
        /\ UNCHANGED <<request[r].route, request[r].body, request[r].bearer, counted[r]>>
        /\ AccessLogged(r)' = AccessLogged(r)
        /\ EventsOut(r) => EventsOut(r)'
        /\ r \in executed' <=> r \in executed
    BY <1>1, GotoFrame
  <1>3. RequestOk(r)'
    BY <1>1, <1>2 DEF RequestOk, At, Parses, BearerOk
  <1> QED
    BY <1>2, <1>3, FrameKeepsOthers

\* A crash ends every request in flight where it is.
LEMMA FailIInv ==
    ASSUME IInv, Fail
    PROVE  IInv'
  <1>1. /\ request' = [r \in Req |-> IF InFlight(r) THEN [request[r] EXCEPT !.pc = "gone"]
                                     ELSE request[r]]
        /\ UNCHANGED <<executed, counted, fate>> /\ Shape
    BY DEF Fail, IInv
  <1>2. request' \in [Req -> Request]
    BY <1>1 DEF Shape, Request, Pc
  <1>3. Shape'
    BY <1>1, <1>2 DEF Shape
  <1>4. ASSUME NEW r \in Req
        PROVE  RequestOk(r)'
    <2>1. /\ RequestOk(r)
          /\ AccessLogged(r)' = AccessLogged(r) /\ BodyLogged(r)' = BodyLogged(r)
      BY <1>1 DEF IInv, AccessLogged, BodyLogged, Emitted
    <2>2. CASE InFlight(r)
      <3>1. /\ request'[r].pc = "gone" /\ request'[r].route = request[r].route
            /\ request'[r].body = request[r].body /\ request'[r].bearer = request[r].bearer
        BY <1>1, <2>2 DEF Shape, Request
      <3> QED
        BY <1>1, <2>1, <3>1 DEF RequestOk, At, Parses, BearerOk
    <2>3. CASE ~InFlight(r)
      <3>1. request'[r] = request[r]
        BY <1>1, <2>3
      <3> QED
        BY <1>1, <2>1, <3>1
        DEF RequestOk, EventsOut, At, Parses, BearerOk, UnreadRefused, BuffersBody
    <2> QED
      BY <2>2, <2>3
  <1> QED
    BY <1>3, <1>4 DEF IInv

\* The worker of the log, a stop, a clean end and a start touch no request.
LEMMA QuietIInv ==
    ASSUME IInv, UNCHANGED <<request, executed, counted, fate>>
    PROVE  IInv'
  BY DEF IInv, Shape, RequestOk, At, EventsOut, AccessLogged, BodyLogged, Emitted,
         UnreadRefused, BuffersBody, Parses, BearerOk

\* No step of the pipeline breaks the invariant.
LEMMA NextIInv == IInv /\ [Next]_vars => IInv'
  <1> SUFFICES ASSUME IInv, [Next]_vars
               PROVE  IInv'
    OBVIOUS
  <1>1. ASSUME NEW r \in Req, Step(r)
        PROVE  IInv'
    <2>1. CASE \E a \in Arrival : Arrive(r, a)
      BY <2>1, ArriveIInv
    <2>2. CASE Buffer(r) \/ Dispatch(r) \/ CheckRate(r) \/ Reply(r)
      BY <2>2, MoveIInv
    <2>3. CASE Execute(r)
      BY <2>3, ExecuteIInv
    <2>4. CASE LogAccess(r) \/ LogBodyEvent(r)
      BY <2>4, LogIInv
    <2>5. CASE Record(r)
      <3>1. /\ AfterUpsert(r) \in {"body", "reply", "gone"}
            /\ AfterUpsert(r) = "reply" => ~BuffersBody(r)
        BY DEF AfterUpsert
      <3> QED
        BY <2>5, <3>1, RecordIInv DEF Record
    <2>6. CASE Disconnect(r)
      <3>1. CASE UNCHANGED counted
        BY <2>6, <3>1, GoneIInv DEF Disconnect, IInv, RequestOk
      <3>2. CASE At(r, "metric") /\ counted' = [counted EXCEPT ![r] = @ + 1]
        BY <2>6, <3>2, RecordIInv DEF Disconnect
      <3> QED
        BY <2>6, <3>1, <3>2 DEF Disconnect
    <2> QED
      BY <1>1, <2>1, <2>2, <2>3, <2>4, <2>5, <2>6 DEF Step
  <1>2. CASE Write \/ Stop \/ Return \/ Start \/ UNCHANGED vars
    BY <1>2, QuietIInv DEF Write, Stop, Return, Start, vars
  <1>3. CASE Fail
    BY <1>3, FailIInv
  <1> QED
    BY <1>1, <1>2, <1>3 DEF Next

-----------------------------------------------------------------------------
\* The local invariant of the pipeline.
THEOREM Invariant == Spec => []IInv
  <1> QED
    BY InitIInv, NextIInv, PTL DEF Spec

-----------------------------------------------------------------------------
(* The lines of the log.                                                   *)

Early == {"new", "outer", "routed", "limit", "bearer", "event"}
Middle == {"metric", "body"}

\* What is in the channel and the file, and that the channel keeps its bound.
QueueOk == queue \in Seq(Line) /\ Len(queue) <= QueueCap /\ file \in Seq(Line)

\* A line has no fate before its request gets to it; a request between its two
\* events still has its access line ahead, unless that was dropped.
FatesOk ==
    /\ \A r \in Req :
          /\ request[r].pc \in Early => fate[<<r, "access">>] = "none"
          /\ request[r].pc \in Early \cup Middle => fate[<<r, "body">>] = "none"
          /\ request[r].pc \in Middle =>
                \/ fate[<<r, "access">>] = "dropped"
                \/ Contains(Lines, <<r, "access">>)
    /\ \A i \in 1 .. Len(Lines) : fate[Lines[i]] = "taken"

\* A drop takes a full channel: until the process fails, the lines that filled
\* it are still in the channel or in the file.
DropsMeanFull == failed \/ \A l \in Line : fate[l] = "dropped" => Len(Lines) >= QueueCap

LinesInv == QueueOk /\ FatesOk /\ LinesInOrder /\ CleanStopsKeepLines /\ DropsMeanFull

\* The channel and the file together are a sequence of lines.
LEMMA LinesType ==
    ASSUME QueueOk
    PROVE  Lines \in Seq(Line) /\ Len(Lines) \in Nat
  BY ConcatProperties, LenProperties DEF QueueOk, Lines

\* Handing a line over puts it at the end or drops it, and no other line's
\* fate changes.
LEMMA EmitLines ==
    ASSUME QueueOk, Shape, NEW l \in Line, Emit(l), UNCHANGED file
    PROVE  /\ QueueOk'
           /\ \/ Lines' = Append(Lines, l) /\ fate' = [fate EXCEPT ![l] = "taken"]
              \/ /\ Lines' = Lines /\ fate' = [fate EXCEPT ![l] = "dropped"]
                 /\ Len(Lines) >= QueueCap
  <1>1. QueueCap \in Nat \ {0} /\ Len(queue) \in Nat
    BY PipelineAssumption, LenProperties DEF PipelineAssumption, QueueOk
  <1>2. CASE Len(queue) < QueueCap
    <2>1. queue' = Append(queue, l) /\ fate' = [fate EXCEPT ![l] = "taken"]
      BY <1>2 DEF Emit, Handed
    <2>2. queue' \in Seq(Line) /\ Len(queue') = Len(queue) + 1
      BY <2>1, AppendProperties DEF QueueOk
    <2>3. file \o Append(queue, l) = Append(file \o queue, l)
      <3>1. Append(queue, l) = queue \o <<l>> /\ <<l>> \in Seq(Line)
        BY AppendIsConcat DEF QueueOk
      <3>2. file \o queue \in Seq(Line)
        BY ConcatProperties DEF QueueOk
      <3>3. Append(file \o queue, l) = (file \o queue) \o <<l>>
        BY <3>2, AppendIsConcat
      <3> QED
        BY <3>1, <3>3, ConcatAssociative DEF QueueOk
    <2> QED
      BY <1>1, <1>2, <2>1, <2>2, <2>3 DEF QueueOk, Lines
  <1>3. CASE ~(Len(queue) < QueueCap)
    <2>1. Len(Lines) = Len(file) + Len(queue) /\ Len(file) \in Nat
      BY ConcatProperties, LenProperties DEF QueueOk, Lines
    <2>2. Len(Lines) >= QueueCap
      BY <1>1, <1>3, <2>1
    <2> QED
      BY <1>3, <2>2 DEF Emit, Handed, QueueOk, Lines
  <1> QED
    BY <1>2, <1>3

\* The worker moves a line from the channel to the file.
LEMMA WriteLines ==
    ASSUME QueueOk, Write
    PROVE  QueueOk' /\ Lines' = Lines
  <1>1. queue # <<>> /\ file' = Append(file, Head(queue)) /\ queue' = Tail(queue)
    BY DEF Write
  <1>2. /\ Head(queue) \in Line /\ Tail(queue) \in Seq(Line) /\ Len(Tail(queue)) = Len(queue) - 1
        /\ Len(queue) \in Nat
    BY <1>1, HeadTailProperties, LenProperties DEF QueueOk
  <1>3. file' \in Seq(Line)
    BY <1>1, <1>2, AppendProperties DEF QueueOk
  <1>4. QueueOk'
    BY <1>1, <1>2, <1>3, PipelineAssumption DEF QueueOk, PipelineAssumption
  <1>5. queue = <<Head(queue)>> \o Tail(queue)
    <2>1. queue = SubSeq(queue, 1, Len(queue)) /\ 1 \in 1 .. Len(queue) /\ Len(queue) \in 1 .. Len(queue)
      BY <1>1, <1>2, SubSeqFull, EmptySeq DEF QueueOk
    <2>2. queue = <<queue[1]>> \o SubSeq(queue, 2, Len(queue))
      BY <2>1, SubSeqRecursiveFirst DEF QueueOk
    <2> QED
      BY <1>1, <2>2, TailIsSubSeq DEF QueueOk
  <1>6. Append(file, Head(queue)) = file \o <<Head(queue)>> /\ <<Head(queue)>> \in Seq(Line)
    BY <1>2, AppendIsConcat DEF QueueOk
  <1>7. (file \o <<Head(queue)>>) \o Tail(queue) = file \o (<<Head(queue)>> \o Tail(queue))
    BY <1>2, <1>6, ConcatAssociative DEF QueueOk
  <1> QED
    BY <1>1, <1>4, <1>5, <1>6, <1>7 DEF Lines

\* A step that leaves the lines and moves requests forward.
LEMMA SameLines ==
    ASSUME LinesInv, QueueOk', Lines' = Lines, fate' = fate, failed => failed',
           \A r \in Req :
              /\ request'[r].pc \in Early => request[r].pc \in Early
              /\ request'[r].pc \in Middle => request[r].pc \in Middle
    PROVE  LinesInv'
  <1>1. FatesOk'
    BY DEF LinesInv, FatesOk
  <1>2. LinesInOrder'
    BY DEF LinesInv, LinesInOrder
  <1>3. CleanStopsKeepLines'
    BY DEF LinesInv, CleanStopsKeepLines
  <1>4. DropsMeanFull'
    BY DEF LinesInv, DropsMeanFull
  <1> QED
    BY <1>1, <1>2, <1>3, <1>4 DEF LinesInv

\* What Append does to the lines, said by index.
LEMMA AppendLines ==
    ASSUME QueueOk, NEW l \in Line, Lines' = Append(Lines, l)
    PROVE  /\ Len(Lines') = Len(Lines) + 1
           /\ \A i \in 1 .. Len(Lines) : Lines'[i] = Lines[i]
           /\ Lines'[Len(Lines) + 1] = l
           /\ Len(Lines) \in Nat
           /\ \A m : Contains(Lines, m) => Contains(Lines, m)'
           /\ Contains(Lines, l)'
  <1>1. /\ Len(Lines') = Len(Lines) + 1
        /\ \A i \in 1 .. Len(Lines) : Lines'[i] = Lines[i]
        /\ Lines'[Len(Lines) + 1] = l
        /\ Len(Lines) \in Nat
    BY LinesType, AppendProperties
  <1> QED
    BY <1>1 DEF Contains

\* The access event comes first and once; the body event finds it ahead.
LEMMA LogLinesInv ==
    ASSUME IInv, LinesInv, NEW r \in Req, LogAccess(r) \/ LogBodyEvent(r)
    PROVE  LinesInv'
  <1>1. PICK label \in {"metric", "reply"}, kind \in {"access", "body"} :
          /\ request' = [request EXCEPT ![r].pc = label]
          /\ Emit(<<r, kind>>) /\ UNCHANGED <<file, failed>>
          /\ \/ label = "metric" /\ kind = "access" /\ request[r].pc = "event"
             \/ label = "reply" /\ kind = "body" /\ request[r].pc = "body"
    BY DEF LogAccess, LogBodyEvent, Goto, At
  <1>2. <<r, kind>> \in Line /\ Shape /\ QueueOk
    BY DEF Line, IInv, LinesInv
  <1>3. /\ QueueOk'
        /\ \/ Lines' = Append(Lines, <<r, kind>>) /\ fate' = [fate EXCEPT ![<<r, kind>>] = "taken"]
           \/ /\ Lines' = Lines /\ fate' = [fate EXCEPT ![<<r, kind>>] = "dropped"]
              /\ Len(Lines) >= QueueCap
    BY <1>1, <1>2, EmitLines
  <1>4. fate[<<r, kind>>] = "none"
    BY <1>1 DEF LinesInv, FatesOk, Early, Middle
  <1>5. /\ request'[r].pc = label
        /\ \A u \in Req : u # r => request'[u] = request[u]
    BY <1>1, <1>2 DEF Shape, Request
  <1>6. \A u \in Req : <<u, "access">> \in Line /\ <<u, "body">> \in Line
    BY DEF Line
  <1>7. Lines \in Seq(Line) /\ Len(Lines) \in Nat /\ \A i \in 1 .. Len(Lines) : Lines[i] \in Line
    BY <1>2, LinesType, ElementOfSeq
  <1>8. \A i \in 1 .. Len(Lines) : Lines[i] # <<r, kind>>
    BY <1>4 DEF LinesInv, FatesOk
  <1>9. CASE /\ Lines' = Lines /\ fate' = [fate EXCEPT ![<<r, kind>>] = "dropped"]
             /\ Len(Lines) >= QueueCap
    <2>1. FatesOk'
      BY <1>1, <1>2, <1>4, <1>5, <1>6, <1>7, <1>8, <1>9
      DEF LinesInv, FatesOk, Early, Middle, Shape
    <2>2. LinesInOrder'
      BY <1>2, <1>4, <1>6, <1>7, <1>8, <1>9 DEF LinesInv, LinesInOrder, Shape
    <2>3. CleanStopsKeepLines'
      BY <1>1, <1>2, <1>9 DEF LinesInv, CleanStopsKeepLines, Shape
    <2>4. DropsMeanFull'
      BY <1>9 DEF DropsMeanFull
    <2> QED
      BY <1>3, <2>1, <2>2, <2>3, <2>4 DEF LinesInv
  <1>10. CASE Lines' = Append(Lines, <<r, kind>>) /\ fate' = [fate EXCEPT ![<<r, kind>>] = "taken"]
    <2>1. /\ Len(Lines') = Len(Lines) + 1
          /\ \A i \in 1 .. Len(Lines) : Lines'[i] = Lines[i]
          /\ Lines'[Len(Lines) + 1] = <<r, kind>>
          /\ \A m : Contains(Lines, m) => Contains(Lines, m)'
          /\ Contains(Lines, <<r, kind>>)'
      BY <1>2, <1>10, AppendLines
    <2>2. \A l \in Line : fate'[l] = IF l = <<r, kind>> THEN "taken" ELSE fate[l]
      BY <1>2, <1>10 DEF Shape
    <2>3. FatesOk'
      <3>1. ASSUME NEW u \in Req
            PROVE  /\ request'[u].pc \in Early => fate'[<<u, "access">>] = "none"
                   /\ request'[u].pc \in Early \cup Middle => fate'[<<u, "body">>] = "none"
                   /\ request'[u].pc \in Middle =>
                         \/ fate'[<<u, "access">>] = "dropped"
                         \/ Contains(Lines, <<u, "access">>)'
        <4>1. CASE u = r
          BY <1>1, <1>5, <1>6, <2>1, <2>2, <4>1 DEF LinesInv, FatesOk, Early, Middle
        <4>2. CASE u # r
          BY <1>5, <1>6, <2>1, <2>2, <4>2 DEF LinesInv, FatesOk
        <4> QED
          BY <4>1, <4>2
      <3>2. ASSUME NEW i \in 1 .. Len(Lines')
            PROVE  fate'[Lines'[i]] = "taken"
        <4>1. CASE i \in 1 .. Len(Lines)
          BY <1>7, <1>8, <2>1, <2>2, <4>1 DEF LinesInv, FatesOk
        <4>2. CASE i = Len(Lines) + 1
          BY <1>2, <2>1, <2>2, <4>2
        <4> QED
          BY <1>7, <2>1, <4>1, <4>2
      <3> QED
        BY <3>1, <3>2 DEF FatesOk
    <2>4. LinesInOrder'
      <3>1. ASSUME NEW i \in 1 .. Len(Lines'), NEW j \in 1 .. Len(Lines'), Lines'[i] = Lines'[j]
            PROVE  i = j
        BY <1>7, <1>8, <2>1, <3>1 DEF LinesInv, LinesInOrder
      <3>2. ASSUME NEW u \in Req, NEW i \in 1 .. Len(Lines'), Lines'[i] = <<u, "body">>
            PROVE  \/ fate'[<<u, "access">>] = "dropped"
                   \/ \E j \in 1 .. i - 1 : Lines'[j] = <<u, "access">>
        <4>1. CASE i \in 1 .. Len(Lines)
          <5>1. Lines[i] = <<u, "body">>
            BY <2>1, <3>2, <4>1
          <5>2. CASE fate[<<u, "access">>] = "dropped"
            BY <1>4, <1>6, <2>2, <5>2
          <5>3. CASE \E j \in 1 .. i - 1 : Lines[j] = <<u, "access">>
            BY <1>7, <2>1, <4>1, <5>3
          <5> QED
            BY <4>1, <5>1, <5>2, <5>3 DEF LinesInv, LinesInOrder
        <4>2. CASE i = Len(Lines) + 1
          <5>1. u = r /\ kind = "body" /\ request[r].pc = "body"
            BY <1>1, <2>1, <3>2, <4>2
          <5>2. CASE fate[<<r, "access">>] = "dropped"
            BY <1>4, <1>6, <2>2, <5>1, <5>2
          <5>3. CASE Contains(Lines, <<r, "access">>)
            BY <1>7, <2>1, <4>2, <5>1, <5>3 DEF Contains
          <5> QED
            BY <5>1, <5>2, <5>3 DEF LinesInv, FatesOk, Middle
        <4>3. i \in 1 .. Len(Lines) \/ i = Len(Lines) + 1
          BY <1>7, <2>1
        <4> QED
          BY <4>1, <4>2, <4>3
      <3> QED
        BY <3>1, <3>2 DEF LinesInOrder
    <2>5. CleanStopsKeepLines'
      BY <1>1, <2>1, <2>2 DEF LinesInv, CleanStopsKeepLines
    <2>6. DropsMeanFull'
      <3>1. Len(Lines') >= QueueCap \/ ~(Len(Lines) >= QueueCap)
        BY <1>7, <2>1, PipelineAssumption DEF PipelineAssumption
      <3> QED
        BY <1>1, <2>2, <3>1 DEF LinesInv, DropsMeanFull
    <2> QED
      BY <1>3, <2>3, <2>4, <2>5, <2>6 DEF LinesInv
  <1> QED
    BY <1>3, <1>9, <1>10

\* A failure keeps a beginning of the lines and ends the requests in flight.
LEMMA FailLinesInv ==
    ASSUME IInv, LinesInv, Fail
    PROVE  LinesInv'
  <1>1. /\ queue' = <<>> /\ file' = file /\ failed' = TRUE /\ fate' = fate
        /\ request' = [r \in Req |-> IF InFlight(r) THEN [request[r] EXCEPT !.pc = "gone"]
                                     ELSE request[r]]
        /\ Shape
    BY DEF Fail, IInv
  <1>2. QueueOk'
    BY <1>1, PipelineAssumption, EmptySeq DEF QueueOk, LinesInv, PipelineAssumption
  <1>3. Lines' = file
    BY <1>1, ConcatEmptySeq DEF Lines, LinesInv, QueueOk
  <1>4. /\ Len(file) \in Nat /\ Len(Lines) \in Nat /\ Len(file) <= Len(Lines)
        /\ \A i \in 1 .. Len(file) : Lines[i] = file[i]
    BY ConcatProperties, LenProperties DEF Lines, LinesInv, QueueOk
  <1>5. \A r \in Req : request'[r].pc \in Early \cup Middle => request'[r].pc = "new" /\ request[r].pc = "new"
    BY <1>1 DEF InFlight, Early, Middle, Shape, Request
  <1>6. FatesOk'
    BY <1>1, <1>3, <1>4, <1>5 DEF LinesInv, FatesOk, Early, Middle
  <1>7. LinesInOrder'
    <2>1. ASSUME NEW r \in Req, NEW i \in 1 .. Len(file), file[i] = <<r, "body">>
          PROVE  \/ fate[<<r, "access">>] = "dropped"
                 \/ \E j \in 1 .. i - 1 : file[j] = <<r, "access">>
      <3>1. i \in 1 .. Len(Lines) /\ Lines[i] = <<r, "body">>
        BY <1>4, <2>1
      <3>2. CASE fate[<<r, "access">>] = "dropped"
        BY <3>2
      <3>3. CASE \E j \in 1 .. i - 1 : Lines[j] = <<r, "access">>
        BY <1>4, <3>3
      <3> QED
        BY <3>1, <3>2, <3>3 DEF LinesInv, LinesInOrder
    <2>2. ASSUME NEW i \in 1 .. Len(file), NEW j \in 1 .. Len(file), file[i] = file[j]
          PROVE  i = j
      BY <1>4, <2>2 DEF LinesInv, LinesInOrder
    <2>3. UNCHANGED fate /\ Lines' = file
      BY <1>1, <1>3
    <2> QED
      BY <2>1, <2>2, <2>3 DEF LinesInOrder
  <1>8. CleanStopsKeepLines' /\ DropsMeanFull'
    BY <1>1 DEF CleanStopsKeepLines, DropsMeanFull
  <1> QED
    BY <1>2, <1>6, <1>7, <1>8 DEF LinesInv

\* A clean end drains the channel into the file.
LEMMA ReturnLinesInv ==
    ASSUME LinesInv, Return
    PROVE  LinesInv'
  <1>1. queue' = <<>> /\ file' = file \o queue /\ UNCHANGED <<request, fate, failed>>
    BY DEF Return, Drained
  <1>2. file' \in Seq(Line) /\ QueueOk'
    BY <1>1, ConcatProperties, PipelineAssumption, EmptySeq DEF QueueOk, LinesInv, PipelineAssumption
  <1>3. Lines' = Lines
    BY <1>1, <1>2, ConcatEmptySeq DEF Lines
  <1> QED
    BY <1>1, <1>2, <1>3, SameLines

\* A move of one request that emits nothing and does not go back.
LEMMA MoveLinesInv ==
    ASSUME IInv, LinesInv, NEW r \in Req, NEW label \in Pc, Goto(r, label),
           label \in Early => request[r].pc \in Early,
           label \in Middle => request[r].pc \in Middle,
           UNCHANGED <<queue, file, fate, failed>>
    PROVE  LinesInv'
  <1>1. request'[r].pc = label /\ \A u \in Req : u # r => request'[u] = request[u]
    BY DEF Goto, IInv, Shape, Request
  <1>2. QueueOk' /\ Lines' = Lines
    BY DEF LinesInv, QueueOk, Lines
  <1> QED
    BY <1>1, <1>2, SameLines

\* No step of the pipeline breaks the invariant of the lines.
LEMMA NextLinesInv == IInv /\ LinesInv /\ [Next]_vars => LinesInv'
  <1> SUFFICES ASSUME IInv, LinesInv, [Next]_vars
               PROVE  LinesInv'
    OBVIOUS
  <1>1. ASSUME NEW r \in Req, Step(r)
        PROVE  LinesInv'
    <2>1. ASSUME NEW a \in Arrival, Arrive(r, a)
          PROVE  LinesInv'
      <3>1. /\ request' = [request EXCEPT ![r] = a] /\ UNCHANGED <<queue, file, fate, failed>>
            /\ request[r].pc = "new" /\ Shape /\ a.pc = "outer"
        BY <2>1 DEF Arrive, At, IInv, Arrival
      <3>2. request'[r].pc = "outer" /\ \A u \in Req : u # r => request'[u] = request[u]
        BY <3>1 DEF Shape
      <3>3. QueueOk' /\ Lines' = Lines
        BY <3>1 DEF LinesInv, QueueOk, Lines
      <3> QED
        BY <3>1, <3>2, <3>3, SameLines DEF Early, Middle
    <2>2. CASE Buffer(r)
      BY <2>2, MoveLinesInv DEF Buffer, At, Pc, Early, Middle
    <2>3. CASE Dispatch(r)
      BY <2>3, MoveLinesInv DEF Dispatch, AfterRun, At, Pc, Early, Middle
    <2>4. CASE CheckRate(r)
      BY <2>4, MoveLinesInv DEF CheckRate, AfterRun, At, Pc, Early, Middle
    <2>5. CASE Execute(r)
      BY <2>5, MoveLinesInv DEF Execute, AfterRun, At, Pc, Early, Middle
    <2>6. CASE LogAccess(r) \/ LogBodyEvent(r)
      BY <2>6, LogLinesInv
    <2>7. CASE Record(r)
      BY <2>7, MoveLinesInv DEF Record, AfterUpsert, At, Pc, Early, Middle
    <2>8. CASE Reply(r)
      BY <2>8, MoveLinesInv DEF Reply, At, Pc, Early, Middle
    <2>9. CASE Disconnect(r)
      BY <2>9, MoveLinesInv DEF Disconnect, Pc, Early, Middle
    <2> QED
      BY <1>1, <2>1, <2>2, <2>3, <2>4, <2>5, <2>6, <2>7, <2>8, <2>9 DEF Step
  <1>2. CASE Write
    <2>1. QueueOk' /\ Lines' = Lines
      BY <1>2, WriteLines DEF LinesInv
    <2> QED
      BY <1>2, <2>1, SameLines DEF Write
  <1>3. CASE Stop \/ Start \/ UNCHANGED vars
    <2>1. UNCHANGED <<request, queue, file, fate, failed>>
      BY <1>3 DEF Stop, Start, vars
    <2>2. QueueOk' /\ Lines' = Lines
      BY <2>1 DEF LinesInv, QueueOk, Lines
    <2> QED
      BY <2>1, <2>2, SameLines
  <1>4. CASE Return
    BY <1>4, ReturnLinesInv
  <1>5. CASE Fail
    BY <1>5, FailLinesInv
  <1> QED
    BY <1>1, <1>2, <1>3, <1>4, <1>5 DEF Next

\* The invariant of the lines.
LEMMA AlwaysLinesInv == Spec => []LinesInv
  <1>1. Init => LinesInv
    <2> SUFFICES ASSUME Init
                 PROVE  LinesInv
      OBVIOUS
    <2>1. QueueOk
      BY PipelineAssumption, EmptySeq DEF Init, QueueOk, PipelineAssumption
    <2>2. Lines = <<>> /\ Len(Lines) = 0
      BY <2>1, ConcatEmptySeq, EmptySeq DEF Init, Lines, QueueOk
    <2>3. FatesOk
      BY <2>2 DEF Init, FatesOk, NotYet, Early, Middle, Line
    <2>4. LinesInOrder /\ CleanStopsKeepLines /\ DropsMeanFull
      BY <2>2 DEF Init, LinesInOrder, CleanStopsKeepLines, DropsMeanFull
    <2> QED
      BY <2>1, <2>3, <2>4 DEF LinesInv
  <1> QED
    BY <1>1, NextLinesInv, Invariant, PTL DEF Spec

\* The log holds no line twice, and a body only behind its access line, for
\* any capacity of the channel (main.rs:183-228, 61).
THEOREM LogIsOrdered == Spec => []LinesInOrder
  <1>1. LinesInv => LinesInOrder
    BY DEF LinesInv
  <1> QED
    BY <1>1, AlwaysLinesInv, PTL

\* Until the process fails, what the channel took is in it or in the file.
THEOREM NoTakenLineIsLost == Spec => []CleanStopsKeepLines
  <1>1. LinesInv => CleanStopsKeepLines
    BY DEF LinesInv
  <1> QED
    BY <1>1, AlwaysLinesInv, PTL

\* What was emitted is in the log, unless a full channel dropped it or the
\* process failed.
LEMMA EmittedIsInLogOrLost ==
    ASSUME IInv, LinesInv, NEW l \in Line, Emitted(l)
    PROVE  InLogOrLost(l)
  <1>1. fate[l] \in {"taken", "dropped"}
    BY DEF IInv, Shape, Emitted
  <1>2. CASE failed
    BY <1>2 DEF InLogOrLost
  <1>3. CASE ~failed /\ fate[l] = "taken"
    BY <1>3 DEF LinesInv, CleanStopsKeepLines, InLogOrLost
  <1>4. CASE ~failed /\ fate[l] = "dropped"
    BY <1>4 DEF LinesInv, DropsMeanFull, InLogOrLost
  <1> QED
    BY <1>1, <1>2, <1>3, <1>4

\* Every answer but that to an unreadable body has its lines in the log, or a
\* full channel or a failed process lost them (main.rs:155-229).
THEOREM AnswersLeaveEvents == Spec => []AnswersAreLogged
  <1>1. IInv /\ LinesInv => AnswersAreLogged
    <2> SUFFICES ASSUME IInv, LinesInv, NEW r \in Req, At(r, "answered"), ~UnreadRefused(r)
                 PROVE  /\ InLogOrLost(<<r, "access">>)
                        /\ BuffersBody(r) => InLogOrLost(<<r, "body">>)
      BY DEF AnswersAreLogged
    <2>1. EventsOut(r) /\ <<r, "access">> \in Line /\ <<r, "body">> \in Line
      BY DEF IInv, RequestOk, Line
    <2> QED
      BY <2>1, EmittedIsInLogOrLost DEF EventsOut, AccessLogged, BodyLogged
  <1> QED
    BY <1>1, Invariant, AlwaysLinesInv, PTL

\* A count has its access line in the log, unless a full channel or a failed
\* process lost it, and no request is counted twice (main.rs:185-210).
THEOREM CountersFollowTheLog == Spec => []CountedIsLogged
  <1>1. IInv /\ LinesInv => CountedIsLogged
    <2> SUFFICES ASSUME IInv, LinesInv, NEW r \in Req, counted[r] > 0
                 PROVE  counted[r] = 1 /\ InLogOrLost(<<r, "access">>)
      BY DEF CountedIsLogged
    <2>1. counted[r] = 1 /\ AccessLogged(r) /\ <<r, "access">> \in Line
      BY DEF IInv, RequestOk, Line
    <2> QED
      BY <2>1, EmittedIsInLogOrLost DEF AccessLogged
  <1> QED
    BY <1>1, Invariant, AlwaysLinesInv, PTL

\* Every variable keeps its type, and the channel its bound.
THEOREM TypeCorrect == Spec => []TypeOK
  <1> DEFINE Ends == server \in {"up", "stopping", "down"} /\ failed \in BOOLEAN
  <1>1. Init => Ends
    BY DEF Init
  <1>2. Ends /\ [Next]_vars => Ends'
    BY DEF Next, Step, Arrive, Buffer, Dispatch, CheckRate, Execute, LogAccess, Record, LogBodyEvent,
           Reply, Disconnect, Write, Stop, Return, Fail, Start, vars
  <1>3. IInv /\ LinesInv /\ Ends => TypeOK
    BY DEF IInv, Shape, LinesInv, QueueOk, TypeOK
  <1> QED
    BY <1>1, <1>2, <1>3, Invariant, AlwaysLinesInv, PTL DEF Spec

=============================================================================
