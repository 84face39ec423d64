--------------------------- MODULE MCProxyCapture ---------------------------
(* An instance of ProxyCapture for TLC: an agent and its eager sub-agent in   *)
(* one session, and a client without a session id that asks for the synthetic *)
(* replies.                                                                   *)
EXTENDS ProxyCapture

CONSTANTS Main, Sub, Plain
MCAgents == {Main, Sub, Plain}
MCKey == [a \in MCAgents |-> IF a = Plain THEN NoKey ELSE "session"]
MCTurns == [a \in MCAgents |-> 2]
MCRetries == [a \in MCAgents |-> IF a = Main THEN 1 ELSE 0]
=============================================================================
