----------------------------- MODULE MqttSource -----------------------------
(***************************************************************************)
(* MqttSource: an event loop task subscribes on every new session and      *)
(* passes publishes through a bounded channel to poll().                   *)
(*                                                                         *)
(* Messages are numbered in the order in which others publish them.  The   *)
(* broker and rumqttc are external: a session that is not resumed has no   *)
(* subscription, and a broken link loses what is on the wire.              *)
(***************************************************************************)
EXTENDS SourceLoop

CONSTANTS
    ChannelCap,     \* mpsc::channel(100)
    RequestCap,     \* AsyncClient::new(.., 10)
    Rejects,        \* may the broker reject the subscription?
    MaxMessages, MaxBroken      \* bounds: publishes, broken links

\* What an instance has to give.
MqttAssumption ==
    /\ {ChannelCap, RequestCap} \subseteq Nat \ {0}
    /\ {MaxMessages, MaxBroken} \subseteq Nat
    /\ Rejects \in BOOLEAN

VARIABLES
    eventloop,  \* the task: "poll", "send", "sleep", "gone"
    held,       \* the publish it sends to the channel
    channel,    \* between the task and poll()
    requests,   \* subscribe requests the client has not sent
    up,         \* is the connection alive?
    session,    \* has the broker a session it could resume?
    subscribed, \* does the broker's session hold the subscription?
    rejected,   \* history: the broker has refused it
    wire,       \* publishes sent to the client and not read by it
    published, broken

linkVars == <<requests, up, session, subscribed, rejected, wire, published, broken>>
vars == <<loopVars, eventloop, held, channel, linkVars>>

NoMessage == 0

Init ==
    /\ LoopInit
    /\ eventloop = "poll" /\ held = NoMessage /\ channel = <<>>
    /\ requests = 0 /\ up = FALSE /\ session = FALSE /\ subscribed = FALSE /\ rejected = FALSE
    /\ wire = <<>> /\ published = 0 /\ broken = 0

-----------------------------------------------------------------------------
(***************************************************************************)
(* The event loop task.                                                    *)
(***************************************************************************)

\* Fault: only the first connection subscribes.
ConnAckFirstOnly(session_present) ==
    /\ eventloop = "poll" /\ ~up
    /\ session_present => session
    /\ up' = TRUE
    /\ session' = TRUE
    /\ subscribed' = (subscribed /\ session_present)
    /\ requests' = IF broken = 0 THEN requests + 1 ELSE requests
    /\ UNCHANGED <<loopVars, eventloop, held, channel, rejected, wire, published, broken>>

\* A connection is made: try_subscribe, unless the session was resumed; it
\* fails, and is only logged, when the client's requests are full.
ConnAck(session_present) ==
    /\ eventloop = "poll" /\ ~up
    /\ session_present => session
    /\ up' = TRUE
    /\ session' = TRUE
    /\ subscribed' = (subscribed /\ session_present)
    /\ requests' = IF ~session_present /\ requests < RequestCap THEN requests + 1 ELSE requests
    /\ UNCHANGED <<loopVars, eventloop, held, channel, rejected, wire, published, broken>>

\* The request goes out and the broker answers; a rejection is only logged.
SubAck(granted) ==
    /\ eventloop = "poll" /\ up
    /\ requests > 0
    /\ granted \/ Rejects
    /\ requests' = requests - 1
    /\ subscribed' = (subscribed \/ granted)
    /\ rejected' = (rejected \/ ~granted)
    /\ UNCHANGED <<loopVars, eventloop, held, channel, up, session, wire, published, broken>>

Incoming ==
    /\ eventloop = "poll" /\ up
    /\ wire # <<>>
    /\ held' = Head(wire)
    /\ wire' = Tail(wire)
    /\ eventloop' = "send"
    /\ UNCHANGED <<loopVars, channel, requests, up, session, subscribed, rejected, published, broken>>

\* tx.send(): waits for room; the task ends when the receiver is gone.
Forward ==
    /\ eventloop = "send"
    /\ Len(channel) < ChannelCap
    /\ channel' = Append(channel, held)
    /\ held' = NoMessage
    /\ eventloop' = "poll"
    /\ UNCHANGED <<loopVars, linkVars>>

PollFails ==
    /\ eventloop = "poll" /\ ~up
    /\ broken < MaxBroken
    /\ broken' = broken + 1
    /\ eventloop' = "sleep"
    /\ UNCHANGED <<loopVars, held, channel, requests, up, session, subscribed, rejected, wire, published>>

Wakes ==
    /\ eventloop = "sleep"
    /\ eventloop' = "poll"
    /\ UNCHANGED <<loopVars, held, channel, linkVars>>

Works ==
    \/ \E session_present \in BOOLEAN : ConnAck(session_present)
    \/ \E granted \in BOOLEAN : SubAck(granted)
    \/ Incoming \/ Forward \/ Wakes

(***************************************************************************)
(* The broker and the network.                                             *)
(***************************************************************************)
LinkBreaks ==
    /\ up
    /\ broken < MaxBroken
    /\ broken' = broken + 1
    /\ up' = FALSE
    /\ wire' = <<>>
    /\ eventloop' = IF eventloop = "poll" THEN "sleep" ELSE eventloop
    /\ UNCHANGED <<loopVars, held, channel, requests, session, subscribed, rejected, published>>

\* Somebody publishes; the broker forwards it if it holds the subscription.
Publish ==
    /\ published < MaxMessages
    /\ published' = published + 1
    /\ wire' = IF up /\ subscribed THEN Append(wire, published + 1) ELSE wire
    /\ UNCHANGED <<loopVars, eventloop, held, channel, requests, up, session, subscribed,
                   rejected, broken>>

-----------------------------------------------------------------------------
Poll ==
    /\ channel # <<>>
    /\ PollSome(Head(channel))
    /\ channel' = Tail(channel)
    /\ UNCHANGED <<eventloop, held, linkVars>>

\* close(): the task is aborted, the receiver dropped; the disconnect that is
\* queued after that reaches nobody.
Close ==
    /\ Closed
    /\ eventloop' = "gone"
    /\ held' = NoMessage
    /\ channel' = <<>>
    /\ up' = FALSE
    /\ wire' = <<>>
    /\ UNCHANGED <<requests, session, subscribed, rejected, published, broken>>

Rest == UNCHANGED <<eventloop, held, channel, linkVars>>

Next ==
    \/ Works \/ PollFails \/ LinkBreaks \/ Publish
    \/ Poll
    \/ LoopStep /\ Rest
    \/ Cancel /\ Rest
    \/ Close
    \/ phase = "done" /\ UNCHANGED vars

Spec == Init /\ [][Next]_vars

(***************************************************************************)
(* Fairness: tasks are polled, the sleep ends, and rumqttc's poll connects *)
(* and sends its requests.                                                 *)
(***************************************************************************)
SourceTask == Poll \/ (LoopStep /\ Rest) \/ Close

FairSpec == Spec /\ WF_vars(SourceTask) /\ WF_vars(Works)

-----------------------------------------------------------------------------
MqttTypeOK ==
    /\ LoopTypeOK
    /\ eventloop \in {"poll", "send", "sleep", "gone"}
    /\ held \in 0..MaxMessages
    /\ Len(channel) <= ChannelCap
    /\ requests \in 0..RequestCap
    /\ {up, session, subscribed, rejected} \subseteq BOOLEAN

=============================================================================
