---------------------------- MODULE FiberClient ----------------------------
(***************************************************************************)
(* The connection pool and the calls of the HTTP client over fibers.       *)
(*                                                                         *)
(* Transport (exchange/net): a directory of connections with their         *)
(* lifecycle state and admission, the FIFO of ready connections, the queue *)
(* of calls waiting for one, and per connection a lane of replies in       *)
(* request order.  Call (exchange/call.rs, retry.rs, dispatch): a fiber    *)
(* that claims a connection or dials one, submits its request in the same  *)
(* poll, reads the response, and retries or reports.                       *)
(*                                                                         *)
(* The connector is fixed (connections are opened for it) or dynamic (a    *)
(* call dials its own, which stays reserved for it); one origin; the       *)
(* report policy that retains nothing (report::Never).  The runtime, its   *)
(* timers, the reply arena and the sockets are external: a timer may fire, *)
(* and a connection may fail or close, between any two steps.              *)
(***************************************************************************)
EXTENDS ClientRetry, ClientReuse, Queues, FiniteSets, FiniteSetsExt

CONSTANTS
    Calls,          \* the logical calls
    Idempotent,     \* the calls whose method is idempotent
    Conns,          \* the connection slots
    Maxima,         \* the idle maxima a client may be configured with
    Timeouts,       \* the keep-alive timeouts a peer announces, NoHint among them
    Window,         \* replies a connection's lane holds
    WaitCap,        \* calls the wait queue holds
    Following,      \* the calls that follow redirects
    MaxHops,        \* Request::redirects
    MaxFaults,      \* bound: failures, timeouts, drops and redirects
    NoCall, NoConn, \* none
    Gone            \* a place in a lane whose reader was dropped

ASSUME ClientAssumption ==
    /\ Idempotent \subseteq Calls /\ Following \subseteq Calls
    /\ Maxima \subseteq Nat
    /\ Window \in Nat \ {0}
    /\ WaitCap \in Nat
    /\ MaxHops \in Nat
    /\ MaxFaults \in Nat
    /\ Timeouts \ {NoHint} \subseteq Nat
    /\ NoCall \notin Calls /\ Gone \notin Calls /\ NoConn \notin Conns

VARIABLES
    dynamic,    \* the connector dials for each call (dynamic/) or is fixed (channel.rs)
    idle,       \* reuse::Policy::maximum
    net,        \* Transport: conn, ready, waiters, woken, work
    call,       \* the calls
    faults      \* failures, timeouts, drops and redirects so far

vars == <<dynamic, idle, net, call, faults>>

\* Of a connection: entries::Entry (state, admission, report), the class of the
\* close asked for, its reply lane, the parser's and Reuse's state, and the call that
\* dialled it.  said, used and quiet are history: the last final response's control, if a
\* client without reuse wrote a request, the ticks without a request outstanding.
Unsaid == Control(TRUE, NoHint)
NewConn ==
    [state |-> "vacant", adm |-> Sealed, failed |-> FALSE, closing |-> "none",
     lane |-> <<>>, headed |-> FALSE, budget |-> 0, dialer |-> NoCall,
     said |-> Unsaid, used |-> FALSE, quiet |-> 0]

\* Of a call (Call::prepare): its phase, retry state and mailbox, the connection its reply is registered
\* on and whether that generation lives, the events it has not read, its redirects, its
\* result.  sent and ever are history: how many requests of this hop entered egress (to
\* two), and whether one of the call did.
NewCall(k) ==
    [phase |-> "dispatch", retry |-> NewRetry(k \in Idempotent, FALSE), mail |-> "none",
     on |-> NoConn, live |-> FALSE, inbox |-> <<>>, hops |-> 0, result |-> "none",
     sent |-> 0, ever |-> FALSE]

-----------------------------------------------------------------------------
(* The transport: functions of its record n and of the calls cl. *)

\* Replies completed on lane c that their call has not consumed.
Held(n, cl, c) ==
    {k \in Calls : /\ cl[k].phase \in {"reply", "body"}
                   /\ cl[k].on = c
                   /\ k \notin Elements(n.conn[c].lane)}

\* Registration::Full of the lane.
Full(n, cl, c) == Len(n.conn[c].lane) + Cardinality(Held(n, cl, c)) >= Window

\* Waiters::wake: the first waiter is polled again.
WakeOne(n) ==
    IF n.waiters = <<>> THEN n
    ELSE [n EXCEPT !.waiters = Tail(@), !.woken = @ \cup {Head(n.waiters)}]

\* ReadyQueue::remove.
Unready(n, c) == [n EXCEPT !.ready = Drop(@, {c})]

\* Directory::schedule and the wake of the tag it returns.
Enqueue(n, c) ==
    IF n.conn[c].state # "ready" \/ ~CanQueue(n.conn[c].adm) THEN n
    ELSE WakeOne([n EXCEPT !.ready = IF c \in Elements(@) THEN @ ELSE Append(@, c)])

\* Pool::schedule.
Schedule(n, cl, c) == IF Full(n, cl, c) THEN n ELSE Enqueue(n, c)

\* Pool::seal.
Seal(n, c) == Unready([n EXCEPT !.conn[c].adm = Sealed], c)

\* Pool::close_claim.
CloseClaim(n, c) ==
    IF n.conn[c].state \notin {"ready", "receiving"} THEN n
    ELSE Unready([n EXCEPT !.conn[c].state = "closing", !.conn[c].adm = Sealed], c)

\* Port::close of the runtime: the first reason stands.
Request(n, c, cause) ==
    IF n.conn[c].state = "vacant" \/ n.conn[c].closing # "none" THEN n
    ELSE [n EXCEPT !.conn[c].closing = ClassOf(cause)]

\* Pool::expire.
Expire(n, c) == Request(CloseClaim(n, c), c, "Lifetime")

\* The first ready connection Pool::acquire stops at, and how many it pops on the way.
Claims(n, cl) ==
    {i \in DOMAIN n.ready : IsLive(n.conn[n.ready[i]].adm) /\ ~Full(n, cl, n.ready[i])}
Claimed(n, cl) == IF Claims(n, cl) = {} THEN NoConn ELSE n.ready[Min(Claims(n, cl))]
Popped(n, cl) == IF Claims(n, cl) = {} THEN Len(n.ready) ELSE Min(Claims(n, cl))

\* Pool::acquire: what it passes over leaves the queue, and is closed if its lease ended.
Acquired(n, cl) ==
    LET cut == Popped(n, cl)
        over == {n.ready[i] : i \in 1..cut}
        rest == [n EXCEPT !.ready = SubSeq(@, cut + 1, Len(@))]
    IN [rest EXCEPT !.conn = [c \in Conns |->
            IF c \in over /\ IsExpired(n.conn[c].adm) THEN Expire(rest, c).conn[c] ELSE n.conn[c]]]

\* A place in the lane ends: a reply nobody reads is released at once.
PopLane(n, c) ==
    [n EXCEPT !.conn[c].lane = Tail(@),
              !.work = IF Head(n.conn[c].lane) = Gone THEN @ \cup {c} ELSE @]

\* The reader of the lane's front is given an event.
Deliver(n, cl, c, event) ==
    IF n.conn[c].lane = <<>> \/ Head(n.conn[c].lane) = Gone THEN cl
    ELSE [cl EXCEPT ![Head(n.conn[c].lane)].inbox = Append(@, event)]

\* The fixed connector's and the dynamic connector's Route::can_wake.
Room(n, cl) ==
    Cardinality({k \in Calls : cl[k].phase = "dial"})
      + Cardinality({c \in Conns : n.conn[c].state = "admitted" /\ n.conn[c].dialer = NoCall})
      < Cardinality(Conns)
CanWake(n, cl) == n.waiters # <<>> /\ (IF dynamic THEN Room(n, cl) ELSE n.ready # <<>>)

-----------------------------------------------------------------------------
(* The calls: functions of the calls cl. *)

\* The fiber of k returns.
Return(cl, k, result) ==
    [cl EXCEPT ![k] = [NewCall(k) EXCEPT !.phase = "done", !.result = result,
                                         !.ever = cl[k].ever]]

\* Retry: the failure is observed, then the call backs off or reports.
Failed(cl, k, class, committed) ==
    LET r == Observe(cl[k].retry, committed)
    IN IF MayRetry(r, class)
       THEN [cl EXCEPT ![k].phase = "backoff", ![k].retry = r, ![k].mail = "none",
                       ![k].on = NoConn, ![k].live = FALSE, ![k].inbox = <<>>]
       ELSE Return(cl, k, Finish(cl[k].retry, committed))

\* Stream::try_submit's commit: the reply is registered as the request enters egress.
Registered(cl, k, c) ==
    [cl EXCEPT ![k].phase = "reply", ![k].mail = "none", ![k].on = c, ![k].live = TRUE,
               ![k].sent = IF @ < 2 THEN @ + 1 ELSE @, ![k].ever = TRUE]

\* Stream's drop: the connection is asked to close unless the response was read to its
\* end; the reply's place in the lane is abandoned, or released.
DropReply(n, cl, k) ==
    LET c == cl[k].on
        held == k \in Held(n, cl, c)
        freed == [n EXCEPT !.work = IF held THEN @ \cup {c} ELSE @,
                           !.conn[c].lane = [i \in DOMAIN @ |-> IF @[i] = k THEN Gone ELSE @[i]]]
    IN IF cl[k].live THEN Request(freed, c, "OperationCancelled") ELSE freed

\* Defect: a settled mailbox is dropped with its connection.
DropDial_Settled(n, k) ==
    [n EXCEPT !.conn = [c \in Conns |->
        IF n.conn[c].dialer = k THEN [n.conn[c] EXCEPT !.dialer = NoCall] ELSE n.conn[c]]]

\* Dial's drop: a connection already settled for the call is reclaimed.
DropDial(n, k) ==
    [n EXCEPT !.conn = [c \in Conns |->
        LET x == n.conn[c]
        IN IF x.dialer # k THEN x
           ELSE [x EXCEPT !.dialer = NoCall,
                          !.closing = IF x.state = "admitted" \/ @ # "none" THEN @ ELSE ClassOf("Superseded")]]]

\* Dispatch's drop.
DropDispatch(n, cl, k) ==
    LET quiet == [n EXCEPT !.waiters = Drop(@, {k}), !.woken = @ \ {k}]
    IN IF cl[k].phase = "dial" THEN DropDial(quiet, k) ELSE quiet

-----------------------------------------------------------------------------
Init ==
    /\ dynamic \in BOOLEAN
    /\ idle \in Maxima
    /\ net = [conn |-> [c \in Conns |-> NewConn], ready |-> <<>>, waiters |-> <<>>,
              woken |-> {}, work |-> {}]
    /\ call = [k \in Calls |-> NewCall(k)]
    /\ faults = 0

\* A step that counts against MaxFaults, and one that does not.
Faulty == faults < MaxFaults /\ faults' = faults + 1 /\ UNCHANGED <<dynamic, idle>>
Regular == UNCHANGED <<dynamic, idle, faults>>

(* Dispatching. *)

\* Dispatch is polled: at first, and when a waiter is woken.
Polled(k) == call[k].phase = "dispatch" \/ (call[k].phase = "wait" /\ k \in net.woken)

\* What the poll finds: the transport after Pool::acquire.
Found(k) == Acquired([net EXCEPT !.woken = @ \ {k}], call)

\* Claim::commit.
Commit(n, cl, k, c) ==
    LET sent == [n EXCEPT !.conn[c].lane = Append(@, k), !.conn[c].quiet = 0,
                          !.conn[c].used = (idle = 0), !.conn[c].dialer = NoCall,
                          !.conn[c].adm = Submitted(@, idle)]
    IN Schedule(sent, cl, c)

\* Backend::admit and Stream::submit: the request enters egress.
PollSubmits(k) ==
    LET c == Claimed(net, call)
    IN /\ Polled(k)
       /\ c # NoConn
       /\ ~net.conn[c].failed
       /\ net.conn[c].closing = "none"
       /\ net' = Commit(Found(k), call, k, c)
       /\ call' = Registered(call, k, c)
       /\ Regular

\* The connection claimed reports a failure, or is no longer open for requests
\* (Claim::retire).
PollFails(k) ==
    LET c == Claimed(net, call)
    IN /\ Polled(k)
       /\ c # NoConn
       /\ \/ /\ net.conn[c].failed
             /\ net' = Found(k)
             /\ call' = Failed(call, k, ClassOf("Receive"), FALSE)
          \/ /\ ~net.conn[c].failed
             /\ net.conn[c].closing # "none"
             /\ net' = CloseClaim(Found(k), c)
             /\ call' = Failed(call, k, ClassOf("NotConnected"), FALSE)
       /\ Regular

\* Egress has no room, or the check has elapsed: Claim::release.
PollRefused(k) ==
    LET c == Claimed(net, call)
    IN /\ Polled(k)
       /\ c # NoConn
       /\ ~net.conn[c].failed
       /\ net.conn[c].closing = "none"
       /\ net' = Schedule(Found(k), call, c)
       /\ \E cause \in {"Capacity", "Dispatch"} : call' = Failed(call, k, ClassOf(cause), FALSE)
       /\ Faulty

\* No connection: the dynamic connector dials while its mailbox has room.
PollDials(k) ==
    /\ Polled(k)
    /\ Claimed(net, call) = NoConn
    /\ dynamic
    /\ Room(net, call)
    /\ net' = Found(k)
    /\ call' = [call EXCEPT ![k].phase = "dial", ![k].mail = "pending"]
    /\ Regular

\* Otherwise the call waits, or fails when the queue is full.
PollWaits(k) ==
    /\ Polled(k)
    /\ Claimed(net, call) = NoConn
    /\ ~(dynamic /\ Room(net, call))
    /\ IF Len(net.waiters) < WaitCap
       THEN /\ net' = [Found(k) EXCEPT !.waiters = Append(@, k)]
            /\ call' = [call EXCEPT ![k].phase = "wait"]
       ELSE /\ net' = Found(k)
            /\ call' = Failed(call, k, ClassOf("Capacity"), FALSE)
    /\ Regular

\* The connection settled for the call, while its generation lives.
Dialled(k) == {c \in Conns : call[k].mail = "connected" /\ net.conn[c].dialer = k}

\* Backend::submit of the dynamic connector, refused: the connection is given up.
GiveUp(k, c) ==
    LET x == net.conn[c]
        retired == IF x.state = "ready" /\ ~x.failed THEN CloseClaim(net, c) ELSE net
    IN DropDial(Request(retired, c, "ResourceFailure"), k)

\* Dial is polled when its mailbox is settled: the attempt failed, or the connection is
\* gone, busy, failed or closing.
DialFails(k) ==
    /\ call[k].phase = "dial"
    /\ \/ /\ call[k].mail \in Classes
          /\ net' = net
          /\ call' = Failed(call, k, call[k].mail, FALSE)
       \/ /\ call[k].mail = "connected"
          /\ Dialled(k) = {}
          /\ net' = net
          /\ call' = Failed(call, k, ClassOf("NotConnected"), FALSE)
       \/ \E c \in Dialled(k) :
             LET x == net.conn[c]
             IN /\ x.state # "ready" \/ x.closing # "none"
                /\ net' = GiveUp(k, c)
                /\ call' = Failed(call, k, ClassOf("NotConnected"), FALSE)
    /\ Regular

\* The reply cannot be registered, egress has no room, or the check has elapsed.
DialRefused(k) ==
    /\ \E c \in Dialled(k) :
          /\ net.conn[c].state = "ready"
          /\ net.conn[c].closing = "none"
          /\ net' = GiveUp(k, c)
          /\ \E cause \in IF Full(net, call, c) THEN {"Reply"} ELSE {"Capacity", "Dispatch"} :
                call' = Failed(call, k, ClassOf(cause), FALSE)
    /\ Faulty

\* The request enters egress on the connection dialled for it.
DialSubmits(k) ==
    /\ \E c \in Dialled(k) :
          /\ net.conn[c].state = "ready"
          /\ net.conn[c].closing = "none"
          /\ ~Full(net, call, c)
          /\ net' = Commit(net, call, k, c)
          /\ call' = Registered(call, k, c)
    /\ Regular

\* The dispatch timeout: the wrapper drops Dispatch and the call reports at once.
DispatchTimeout(k) ==
    /\ call[k].phase \in {"dispatch", "wait", "dial"}
    /\ net' = DropDispatch(net, call, k)
    /\ call' = Return(call, k, Finish(call[k].retry, FALSE))
    /\ Faulty

\* The backoff ends, or the call's budget does.
BackoffEnds(k) ==
    /\ call[k].phase = "backoff"
    /\ \/ call' = [call EXCEPT ![k].phase = "dispatch", ![k].retry = Restart(@)]
       \/ call' = Return(call, k, Finish(call[k].retry, FALSE))
    /\ UNCHANGED net
    /\ Regular

(* Reading the response. *)

\* phases::Head and Body take the next event.
ReadEvent(k) ==
    LET event == Head(call[k].inbox)
        rest == [call EXCEPT ![k].inbox = Tail(@)]
    IN /\ call[k].phase \in {"reply", "body"}
       /\ call[k].inbox # <<>>
       /\ \/ /\ event = "head"
             /\ net' = net
             /\ call' = [rest EXCEPT ![k].phase = "body"]
          \/ /\ event = "end"
             /\ net' = [net EXCEPT !.work = @ \cup {call[k].on}]
             /\ \/ call' = Return(call, k, "ok")
                \/ call' = Return(call, k, "PossiblyCommitted")
          \/ /\ event \in Classes
             /\ net' = DropReply(net, call, k)
             /\ call' = Failed(call, k, event, TRUE)
       /\ Regular

\* Machine::response: a complete response redirects, its method kept or made GET, and a
\* new Retry begins with the safety of the hops before it.
Redirect(k) ==
    /\ k \in Following
    /\ call[k].hops < MaxHops
    /\ call[k].phase = "body"
    /\ call[k].inbox = <<"end">>
    /\ net' = [net EXCEPT !.work = @ \cup {call[k].on}]
    /\ \E idempotent \in {call[k].retry.idempotent, TRUE} :
          call' = [call EXCEPT ![k] = [NewCall(k) EXCEPT !.hops = call[k].hops + 1, !.ever = call[k].ever,
                                                         !.retry = NewRetry(idempotent, TRUE)]]
    /\ Faulty

\* The head timeout may be retried; a body that times out or cannot be kept is final.
ReplyTimeout(k) ==
    /\ \/ /\ call[k].phase = "reply"
          /\ \E cause \in {"HeadLimit", "HeadBudget"} : call' = Failed(call, k, ClassOf(cause), TRUE)
       \/ /\ call[k].phase = "body"
          /\ call' = Return(call, k, Finish(call[k].retry, TRUE))
    /\ net' = DropReply(net, call, k)
    /\ Faulty

\* The application drops the call, or the stream it was given.
Cancel(k) ==
    /\ call[k].phase \in {"dispatch", "wait", "dial", "reply", "body", "backoff"}
    /\ net' = IF call[k].phase \in {"reply", "body"} THEN DropReply(net, call, k)
              ELSE DropDispatch(net, call, k)
    /\ call' = Return(call, k, "none")
    /\ Faulty

(* Connections. *)

\* Transport::try_activate: for a fixed connector, or for a call's dial.
Activate(c) ==
    /\ net.conn[c].state = "vacant"
    /\ \/ /\ ~dynamic
          /\ net' = [net EXCEPT !.conn[c].state = "admitted"]
       \/ /\ dynamic
          /\ \E k \in Calls :
                /\ call[k].mail = "pending"
                /\ \A d \in Conns : net.conn[d].dialer # k
                /\ net' = [net EXCEPT !.conn[c].state = "admitted", !.conn[c].dialer = k]
    /\ UNCHANGED call
    /\ Regular

\* Route::try_connect: the fixed connector offers the connection, the dynamic one
\* reserves it for its call, or asks to close it when the call has gone.
Connect(c) ==
    LET k == net.conn[c].dialer
    IN /\ net.conn[c].state = "admitted"
       /\ net.conn[c].closing = "none"
       /\ \/ /\ ~dynamic
             /\ net' = WakeOne([net EXCEPT !.conn[c].state = "ready", !.conn[c].adm = Available(idle),
                                           !.ready = Append(@, c)])
             /\ UNCHANGED call
          \/ /\ dynamic /\ k # NoCall
             /\ net' = WakeOne([net EXCEPT !.conn[c].state = "ready", !.conn[c].adm = Reserved])
             /\ call' = [call EXCEPT ![k].mail = "connected"]
          \/ /\ dynamic /\ k = NoCall
             /\ net' = Request(net, c, "Superseded")
             /\ UNCHANGED call
       /\ Regular

\* session::Failed::failed: the dynamic connector settles the mailbox.
ConnectFails(c) ==
    LET k == net.conn[c].dialer
    IN /\ net.conn[c].state = "admitted"
       /\ net.conn[c].closing = "none"
       /\ \/ /\ k = NoCall
             /\ net' = [net EXCEPT !.conn[c] = NewConn]
             /\ UNCHANGED call
          \/ /\ k # NoCall
             /\ net' = WakeOne([net EXCEPT !.conn[c] = NewConn])
             /\ \E cause \in {"Connect", "ConnectFatal"} : call' = [call EXCEPT ![k].mail = ClassOf(cause)]
       /\ Faulty

Open(c) == net.conn[c].state \in {"ready", "receiving"}

\* The end of Output::publish and Pool::complete, when the reply has left the lane.
Completion(n, cl, c) ==
    LET x == n.conn[c]
        adm == Completed(x.adm, x.budget, Len(x.lane))
        done == [n EXCEPT !.conn[c].adm = adm, !.conn[c].budget = 0,
                          !.conn[c].headed = FALSE, !.conn[c].quiet = 0]
        offered == IF x.failed /\ x.lane = <<>> THEN done ELSE Schedule(done, cl, c)
    IN IF x.budget = 0 THEN Request(offered, c, "ScheduledRotation") ELSE offered

\* Output::publish of a final head: Reuse::observe.
PublishHead(c) ==
    /\ Open(c)
    /\ net.conn[c].lane # <<>>
    /\ ~net.conn[c].headed
    /\ \E control \in {Control(TRUE, t) : t \in Timeouts} \cup {Control(FALSE, NoHint)} :
          LET seen == [net EXCEPT !.conn[c].headed = TRUE, !.conn[c].said = control,
                                  !.conn[c].budget = Admit(idle, control)]
          IN net' = IF Admit(idle, control) = 0 THEN Seal(seen, c) ELSE seen
    /\ call' = Deliver(net, call, c, "head")
    /\ Regular

\* Output::publish of the end of a response.
PublishEnd(c) ==
    /\ Open(c)
    /\ net.conn[c].headed
    /\ call' = Deliver(net, call, c, "end")
    /\ net' = Completion(PopLane(net, c), call, c)
    /\ Regular

\* Output::publish of a protocol error, or of an event the lane has no room for: the
\* connection is sealed and the reply ends.  With an empty lane the response is
\* unsolicited.
PublishFails(c, cause) ==
    LET asked == IF cause = "Protocol" THEN Request(net, c, cause) ELSE net
        sealed == Seal([asked EXCEPT !.conn[c].budget = 0], c)
    IN /\ Open(c)
       /\ cause = "Protocol" \/ net.conn[c].lane # <<>>
       /\ call' = Deliver(net, call, c, ClassOf(cause))
       /\ net' = Completion(IF net.conn[c].lane = <<>> THEN sealed ELSE PopLane(sealed, c), call, c)
       /\ Faulty

\* Pool::input: unprocessed input keeps the connection from new requests.
Input(c) ==
    /\ \/ /\ net.conn[c].state = "ready"
          /\ net' = Unready([net EXCEPT !.conn[c].state = "receiving"], c)
       \/ /\ net.conn[c].state = "receiving"
          /\ net' = Schedule([net EXCEPT !.conn[c].state = "ready"], call, c)
    /\ UNCHANGED call
    /\ Regular

\* Pool::failed: a receive or transmit failure is reported; the runtime closes.
IoFails(c) ==
    /\ Open(c)
    /\ ~net.conn[c].failed
    /\ net' = Request([net EXCEPT !.conn[c].failed = TRUE], c, "Receive")
    /\ UNCHANGED call
    /\ Faulty

\* The peer closes, or the runtime takes the close that was asked for: quarantine.
Close(c) ==
    /\ Open(c)
    /\ net' = CloseClaim(Request(net, c, "RemoteEof"), c)
    /\ UNCHANGED call
    /\ IF net.conn[c].closing = "none" THEN Faulty ELSE Regular

\* Pool::retire: the replies outstanding fail one at a time.
Retire(c) ==
    LET x == net.conn[c]
    IN /\ x.state = "closing"
       /\ x.closing # "none"
       /\ IF x.lane = <<>>
          THEN net' = [net EXCEPT !.conn[c].state = "drained"] /\ UNCHANGED call
          ELSE /\ net' = PopLane(net, c)
               /\ call' = Deliver(net, call, c, IF x.failed THEN ClassOf("Receive") ELSE x.closing)
       /\ Regular

\* Pool::finish_close: the slot is vacant for another generation.
Disconnect(c) ==
    /\ \/ net.conn[c].state = "drained"
       \/ net.conn[c].state = "admitted" /\ net.conn[c].closing # "none"
    /\ net' = [net EXCEPT !.conn[c] = NewConn]
    /\ call' = [k \in Calls |-> IF call[k].on = c THEN [call[k] EXCEPT !.live = FALSE] ELSE call[k]]
    /\ Regular

\* Defect: a lane that was full is not offered when a reply is released.
Maintained_Idle(n, cl, c) == [n EXCEPT !.work = @ \ {c}]

\* Pool::maintain of a lane in which a reply was released.
Maintained(n, cl, c) == Schedule([n EXCEPT !.work = @ \ {c}], cl, c)

\* Schedule::park.
Park ==
    LET Wake(n) == IF CanWake(n, call) THEN WakeOne(n) ELSE n
    IN /\ \/ \E c \in net.work : net' = Wake(Maintained(net, call, c))
          \/ net.work = {} /\ CanWake(net, call) /\ net' = Wake(net)
       /\ UNCHANGED call
       /\ Regular

\* Time passes for every connection.  quiet counts to the maximum.
Tick ==
    /\ net' = [net EXCEPT !.conn = [c \in Conns |->
          LET x == net.conn[c]
          IN IF ~Open(c) THEN x
             ELSE [x EXCEPT !.adm = Aged(@),
                            !.quiet = IF x.lane = <<>> /\ @ < idle THEN @ + 1 ELSE @]]]
    /\ net' # net
    /\ UNCHANGED call
    /\ Regular

CallStep(k) ==
    \/ PollSubmits(k) \/ PollFails(k) \/ PollRefused(k) \/ PollDials(k) \/ PollWaits(k)
    \/ DialFails(k) \/ DialRefused(k) \/ DialSubmits(k)
    \/ DispatchTimeout(k) \/ BackoffEnds(k) \/ ReadEvent(k) \/ Redirect(k) \/ ReplyTimeout(k) \/ Cancel(k)

ConnStep(c) ==
    \/ Activate(c) \/ Connect(c) \/ ConnectFails(c) \/ PublishHead(c) \/ PublishEnd(c)
    \/ PublishFails(c, "Protocol") \/ PublishFails(c, "Capacity")
    \/ Input(c) \/ IoFails(c) \/ Close(c) \/ Retire(c) \/ Disconnect(c)

Next ==
    \/ \E k \in Calls : CallStep(k)
    \/ \E c \in Conns : ConnStep(c)
    \/ Park
    \/ Tick

Spec == Init /\ [][Next]_vars

-----------------------------------------------------------------------------
(* What the client promises. *)

\* A failed call reports BeforeSubmit exactly when none of its requests entered egress
\* (safety.rs, merged by State::finish over every attempt and redirect), and a request
\* whose method is not idempotent enters egress at most once between redirects, whatever
\* timeouts, closes and drops come between (retry.rs).
SafetyExact ==
    \A k \in Calls :
        /\ call[k].result = "BeforeSubmit" => ~call[k].ever
        /\ call[k].result = "PossiblyCommitted" => call[k].ever
        /\ ~call[k].retry.idempotent => call[k].sent <= 1

\* A request is written to a connection only while its lease lasts: the last final
\* response allowed reuse, and with nothing outstanding the connection was quiet for less
\* than the client's maximum and than the peer's timeout less the margin (reuse.rs).  A
\* client without reuse writes one request to a connection.
LeaseKept ==
    [][\A c \in Conns :
        LET x == net.conn[c]
        IN Len(net'.conn[c].lane) > Len(x.lane) =>
            /\ x.said.reusable
            /\ x.used => idle > 0
            /\ x.lane = <<>> /\ x.dialer = NoCall /\ idle > 0 =>
                  /\ x.quiet < idle
                  /\ x.said.timeout # NoHint => x.quiet + Margin < x.said.timeout]_vars

\* A connection that could take a request is in the ready queue, once, and nothing else
\* is: no sequence of releases, completions, input and failures loses it or leaves a
\* closing one behind (Pool::schedule, remove).
ReadyExact ==
    /\ Distinct(net.ready)
    /\ \A c \in Conns :
        LET x == net.conn[c]
            queued == c \in Elements(net.ready)
            claimable == /\ x.state = "ready" /\ CanQueue(x.adm) /\ ~x.failed
                         /\ ~Full(net, call, c) /\ c \notin net.work
        IN /\ claimable => queued
           /\ queued => x.state = "ready" /\ CanQueue(x.adm)

\* Nobody waits for what cannot come: a call that awaits its reply has its place in the
\* lane of a living connection or an event to read, and a reserved connection has the
\* call that dialled it or is to be closed (Pool::retire, Dial's drop, finish_close).
NobodyForgotten ==
    /\ \A k \in Calls :
        call[k].phase \in {"reply", "body"} =>
            \/ call[k].inbox # <<>>
            \/ call[k].live /\ k \in Elements(net.conn[call[k].on].lane)
    /\ \A c \in Conns :
        LET x == net.conn[c]
        IN x.adm.kind = "reserved" /\ x.closing = "none" =>
              x.dialer \in Calls /\ call[x.dialer].phase = "dial"
    /\ \A k \in Calls :
        call[k].phase = "wait" => k \in net.woken \cup Elements(net.waiters)
=============================================================================
