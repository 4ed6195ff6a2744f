-------------------------- MODULE MCGatewayRequest --------------------------
(* Instances of GatewayRequest for TLC. *)
EXTENDS GatewayRequest, TLC

CONSTANTS q1, q2

ToolCall(endpoint, notification, known) ==
    [endpoint |-> endpoint, method |-> "tools/call",
     notification |-> notification, known |-> known, named |-> TRUE]

\* q1 may ask whatever there is to ask (only a tool call has a tool's name), q2
\* is a call without identity that competes with it for the throttle.
EveryCall ==
    {c \in AllCalls :
        /\ c.endpoint = "decide" => c.method = "tools/call" /\ ~ c.notification
        /\ c.method # "tools/call" => c.named}
AnyAndUnknown == q1 :> EveryCall @@ q2 :> {ToolCall("mcp", FALSE, FALSE)}
Setting(mode, production) == [mode |-> mode, production |-> production]

\* advise differs from audit_only in the body of an answer; production matters
\* where a request is parked.
EverySetting ==
    {Setting("enforce", TRUE), Setting("enforce", FALSE), Setting("audit_only", TRUE)}
=============================================================================
