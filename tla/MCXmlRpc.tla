------------------------------ MODULE MCXmlRpc ------------------------------
(***************************************************************************)
(* An instance of XmlRpc: the client's two calls end work() and the        *)
(* daemon; one of the peer's shuts the server down.                        *)
(***************************************************************************)
EXTENDS XmlRpc

CONSTANTS exiting, quitting, closing, lengthless

MCCalls == {exiting, quitting, closing, lengthless}
MCWanted == <<exiting, quitting>>
MCDoes == [x \in MCCalls |-> CASE x = exiting -> "exit" [] x = quitting -> "quit"
                             [] x = closing -> "shutdown" [] OTHER -> "answer"]
=============================================================================
