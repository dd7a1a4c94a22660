----------------------------- MODULE HttpSource -----------------------------
(***************************************************************************)
(* HttpSource: a server task accepts connections, one task per connection  *)
(* answers its requests one after the other, and a bounded channel leads   *)
(* to poll().  Connection tasks are not told when the source closes.       *)
(*                                                                         *)
(* Requests are numbered in the order in which they arrive.                *)
(***************************************************************************)
EXTENDS SourceLoop, FiniteSets

CONSTANTS
    Conn,           \* connections a client may open
    BufferSize,     \* buffer_size
    MaxRequests     \* bound: requests that arrive

\* What an instance has to give.
HttpAssumption ==
    /\ IsFiniteSet(Conn)
    /\ BufferSize \in Nat \ {0}
    /\ MaxRequests \in Nat

VARIABLES
    server,     \* the accept loop: "up", "down"
    conn,       \* each connection's task: "none", "idle", "body", "send", "gone"
    request,    \* the request a connection handles
    channel,    \* message_rx
    receiver,   \* is message_rx there?
    arrived,    \* requests so far
    answer      \* the status each request got

ioVars == <<server, conn, request, channel, receiver, arrived, answer>>
vars == <<loopVars, ioVars>>

NoRequest == 0

Init ==
    /\ LoopInit
    /\ server = "up"
    /\ conn = [c \in Conn |-> "none"]
    /\ request = [c \in Conn |-> NoRequest]
    /\ channel = <<>> /\ receiver = TRUE
    /\ arrived = 0 /\ answer = <<>>

-----------------------------------------------------------------------------
(***************************************************************************)
(* run_http_server and the connection tasks.                               *)
(***************************************************************************)

\* shutdown_rx ends the loop as abort() does: close() sends both.
Accept(c) ==
    /\ server = "up"
    /\ conn[c] = "none"
    /\ conn' = [conn EXCEPT ![c] = "idle"]
    /\ UNCHANGED <<loopVars, server, request, channel, receiver, arrived, answer>>

\* The client hangs up, between its requests or in the middle of one, whose
\* handler is dropped where it waits.
HangUp(c) ==
    /\ conn[c] \in {"idle", "body", "send"}
    /\ conn' = [conn EXCEPT ![c] = "gone"]
    /\ UNCHANGED <<loopVars, server, request, channel, receiver, arrived, answer>>

Answer(c, status) ==
    /\ answer' = [answer EXCEPT ![request[c]] = status]
    /\ conn' = [conn EXCEPT ![c] = "idle"]
    /\ request' = [request EXCEPT ![c] = NoRequest]

\* A request that is not a POST, or not on the path, is answered at once.
Request(c, method, path) ==
    /\ conn[c] = "idle"
    /\ arrived < MaxRequests
    /\ arrived' = arrived + 1
    /\ IF method # "POST" \/ ~path
       THEN /\ answer' = Append(answer, IF method # "POST" THEN 405 ELSE 404)
            /\ UNCHANGED <<conn, request>>
       ELSE /\ answer' = Append(answer, 0)
            /\ conn' = [conn EXCEPT ![c] = "body"]
            /\ request' = [request EXCEPT ![c] = arrived + 1]
    /\ UNCHANGED <<loopVars, server, channel, receiver>>

Body(c) ==
    /\ conn[c] = "body"
    /\ \/ /\ conn' = [conn EXCEPT ![c] = "send"]
          /\ UNCHANGED <<request, answer>>
       \/ Answer(c, 400)
    /\ UNCHANGED <<loopVars, server, channel, receiver, arrived>>

\* Fault: try_send, and a full channel is not an error.
SendIfRoom(c) ==
    /\ conn[c] = "send"
    /\ receiver
    /\ channel' = IF Len(channel) < BufferSize THEN Append(channel, request[c]) ELSE channel
    /\ Answer(c, 200)
    /\ UNCHANGED <<loopVars, server, receiver, arrived>>

\* tx.send(): it waits for room, and fails once the receiver is gone, also
\* for a request that is waiting by then.
SendMessage(c) ==
    /\ conn[c] = "send"
    /\ \/ /\ receiver
          /\ Len(channel) < BufferSize
          /\ channel' = Append(channel, request[c])
          /\ Answer(c, 200)
       \/ /\ ~receiver
          /\ UNCHANGED channel
          /\ Answer(c, 503)
    /\ UNCHANGED <<loopVars, server, receiver, arrived>>

-----------------------------------------------------------------------------
\* Never None: the server task keeps a sender.
Poll ==
    /\ channel # <<>>
    /\ PollSome(Head(channel))
    /\ channel' = Tail(channel)
    /\ UNCHANGED <<server, conn, request, receiver, arrived, answer>>

\* close(): the server task is stopped and the receiver dropped, with what
\* was in the channel.
Close ==
    /\ Closed
    /\ server' = "down"
    /\ channel' = <<>>
    /\ receiver' = FALSE
    /\ UNCHANGED <<conn, request, arrived, answer>>

Next ==
    \/ \E c \in Conn :
         \/ Accept(c) \/ HangUp(c) \/ Body(c) \/ SendMessage(c)
         \/ \E method \in {"POST", "GET"}, path \in BOOLEAN : Request(c, method, path)
    \/ Poll
    \/ LoopStep /\ UNCHANGED ioVars
    \/ Cancel /\ UNCHANGED ioVars
    \/ Close
    \/ phase = "done" /\ UNCHANGED vars

Spec == Init /\ [][Next]_vars

(***************************************************************************)
(* Fairness: tasks are polled; a client sends its body or breaks off.      *)
(* A sender that waits gets its turn: the channel's waiters are a queue.   *)
(***************************************************************************)
SourceTask == Poll \/ (LoopStep /\ UNCHANGED ioVars) \/ Close

FairSpec ==
    /\ Spec
    /\ WF_vars(SourceTask)
    /\ \A c \in Conn : WF_vars(Body(c)) /\ SF_vars(SendMessage(c))

-----------------------------------------------------------------------------
HttpTypeOK ==
    /\ LoopTypeOK
    /\ server \in {"up", "down"}
    /\ conn \in [Conn -> {"none", "idle", "body", "send", "gone"}]
    /\ request \in [Conn -> 0..MaxRequests]
    /\ Len(channel) <= BufferSize
    /\ answer \in [1..arrived -> {0, 200, 400, 404, 405, 503}]

\* The answer tells the client what became of its message: only what was
\* answered 200 goes downstream, and until the source closes all of it does.
Acknowledged == {r \in 1..arrived : answer[r] = 200}

AnswerIsTrue ==
    /\ ToSet(emitted) \cup ToSet(channel) \subseteq Acknowledged
    /\ receiver => Acknowledged = ToSet(emitted) \cup ToSet(channel)

\* A source that closes has acknowledged at most buffer_size messages that
\* never go downstream.
LossAtClose == Cardinality(Acknowledged \ ToSet(emitted)) <= BufferSize

\* Every request is answered unless its client hangs up, also one that waits
\* for room when the source is closed and one that arrives on a connection
\* which outlives it.
RequestsAnswered ==
    \A c \in Conn : conn[c] \in {"body", "send"} ~> conn[c] \in {"idle", "gone"}
=============================================================================
