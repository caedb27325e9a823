------------------------------ MODULE EgressProxy ------------------------------
(***************************************************************************)
(* The egress proxy of one browser session (AuthenticatedLoopbackProxy in  *)
(* src/jarvis/browser/proxy.py) and the host policy it shares with the     *)
(* session's navigation checks (PublicHostPolicy in                        *)
(* src/jarvis/browser/validation.py).  Connections are handled by tasks    *)
(* side by side; a host's name server may give another answer every time.  *)
(***************************************************************************)
EXTENDS Integers, FiniteSets

CONSTANTS
    Clients,        \* accepted connections that can be there at once or one after the other
    MaxClients,     \* max_connections
    Hosts,          \* names a request can be for
    Addresses,      \* numbered in the order resolve_addresses sorts them
    Public          \* those _public_address admits

ASSUME EgressConstants ==
    /\ MaxClients \in Nat
    /\ Addresses \subseteq Nat \ {0} /\ Public \subseteq Addresses
    /\ Hosts \cap Addresses = {} /\ "page" \notin Clients

VARIABLES
    server,     \* "new", "open", "closing", "cancelling", "closed"
    at,         \* what each connection's task does
    host,       \* the host (or address) its request is for
    left,       \* addresses _open_pinned has not tried yet
    up,         \* the address the upstream connection goes to, 0 for none
    pins,       \* _pins, {} where there is no pin
    asking,     \* who is inside the policy's lock: a client, "page", or "nobody"
    lookup,     \* the host it has asked the name server for
    reached     \* history: addresses connected to for each host

egressVars == <<server, at, host, left, up, pins, asking, lookup, reached>>

policyVars == <<pins, asking, lookup>>

\* The tasks in _client_tasks.
Tasks == {c \in Clients : at[c] \notin {"none", "gone"}}

EgressInit ==
    /\ server = "new"
    /\ at = [c \in Clients |-> "none"]
    /\ host = [c \in Clients |-> 0]
    /\ left = [c \in Clients |-> {}]
    /\ up = [c \in Clients |-> 0]
    /\ pins = [h \in Hosts |-> {}]
    /\ asking = "nobody" /\ lookup = "nothing"
    /\ reached = [h \in Hosts |-> {}]

----------------------------------------------------------------------------
(* The listener.                                                           *)

StartServer ==
    /\ server = "new"
    /\ server' = "open"
    /\ UNCHANGED <<at, host, left, up, policyVars, reached>>

\* _accept: closed, or too many connections: the connection is dropped.
Accept(c) ==
    /\ server = "open"
    /\ at[c] = "none"
    /\ at' = [at EXCEPT ![c] = IF Cardinality(Tasks) < MaxClients THEN "reading" ELSE "gone"]
    /\ UNCHANGED <<server, host, left, up, policyVars, reached>>

CloseServer ==
    /\ server \in {"new", "open"}
    /\ server' = "closing"
    /\ UNCHANGED <<at, host, left, up, policyVars, reached>>

\* Server.wait_closed: up to Python 3.11 it returns at once, later it waits for the connections.
CancelTasks ==
    /\ server = "closing"
    /\ server' = "cancelling"
    /\ UNCHANGED <<at, host, left, up, policyVars, reached>>

ServerClosed ==
    /\ server = "cancelling"
    /\ Tasks = {}
    /\ server' = "closed"
    /\ UNCHANGED <<at, host, left, up, policyVars, reached>>

----------------------------------------------------------------------------
(* _handle_client.                                                         *)

\* The answer (400, 403, 407, 502 or the response) is given; the writers are closed.
AnswerGiven(c) ==
    /\ at' = [at EXCEPT ![c] = "ending"]
    /\ up' = [up EXCEPT ![c] = 0]
    /\ left' = [left EXCEPT ![c] = {}]

\* A well-formed, authorised request for a name.
RequestName(c) ==
    /\ at[c] = "reading"
    /\ \E h \in Hosts : host' = [host EXCEPT ![c] = h]
    /\ at' = [at EXCEPT ![c] = "queueing"]
    /\ UNCHANGED <<server, left, up, policyVars, reached>>

\* One for a literal address is not looked up.
RequestLiteral(c) ==
    /\ at[c] = "reading"
    /\ \E a \in Public : /\ host' = [host EXCEPT ![c] = a]
                         /\ left' = [left EXCEPT ![c] = {a}]
    /\ at' = [at EXCEPT ![c] = "connecting"]
    /\ UNCHANGED <<server, up, policyVars, reached>>

\* Malformed, without the credential, or for a target that validation refuses.
RequestRefused(c) ==
    /\ at[c] = "reading"
    /\ AnswerGiven(c)
    /\ UNCHANGED <<server, host, policyVars, reached>>

\* resolve_addresses has the policy's lock and asks the name server.
LookUp(c) ==
    /\ at[c] = "queueing" /\ asking = "nobody"
    /\ asking' = c /\ lookup' = host[c]
    /\ at' = [at EXCEPT ![c] = "asking"]
    /\ UNCHANGED <<server, host, left, up, pins, reached>>

\* Variant: the answer is not compared with the pin.
AdmittedAnew(h, answer) == answer # {} /\ answer \subseteq Public

\* The answer is admitted: all public, and the same as before.
Admitted(h, answer) ==
    /\ answer # {} /\ answer \subseteq Public
    /\ pins[h] \in {{}, answer}

Resolved(c) ==
    /\ at[c] = "asking"
    /\ \E answer \in SUBSET Addresses :
          /\ Admitted(host[c], answer)
          /\ pins' = [pins EXCEPT ![host[c]] = answer]
          /\ left' = [left EXCEPT ![c] = answer]
    /\ at' = [at EXCEPT ![c] = "connecting"]
    /\ asking' = "nobody"
    /\ UNCHANGED <<server, host, up, lookup, reached>>

NotResolved(c) ==
    /\ at[c] = "asking"
    /\ asking' = "nobody"
    /\ AnswerGiven(c)
    /\ UNCHANGED <<server, host, pins, lookup, reached>>

\* _open_pinned tries the addresses in their order.
Foremost(a, c) == a \in left[c] /\ \A b \in left[c] : a <= b

Connects(c) ==
    /\ at[c] = "connecting"
    /\ \E a \in Addresses :
          /\ Foremost(a, c)
          /\ up' = [up EXCEPT ![c] = a]
          /\ reached' = IF host[c] \in Hosts THEN [reached EXCEPT ![host[c]] = @ \cup {a}]
                                             ELSE reached
    /\ at' = [at EXCEPT ![c] = "relaying"]
    /\ UNCHANGED <<server, host, left, policyVars>>

ConnectFails(c) ==
    /\ at[c] = "connecting"
    /\ \E a \in Addresses : Foremost(a, c) /\ left' = [left EXCEPT ![c] = @ \ {a}]
    /\ UNCHANGED <<server, at, host, up, policyVars, reached>>

\* No address answered (502), or what was relayed has ended, failed or timed out.
Relayed(c) ==
    /\ \/ at[c] = "connecting" /\ left[c] = {}
       \/ at[c] = "relaying"
    /\ AnswerGiven(c)
    /\ UNCHANGED <<server, host, policyVars, reached>>

Gone(c) ==
    /\ at[c] = "ending"
    /\ at' = [at EXCEPT ![c] = "gone"]
    /\ UNCHANGED <<server, host, left, up, policyVars, reached>>

\* close() has cancelled the task; wait_for may have its result already and go on.
Cancelled(c) ==
    /\ server = "cancelling"
    /\ c \in Tasks
    /\ AnswerGiven(c)
    /\ asking' = IF asking = c THEN "nobody" ELSE asking
    /\ UNCHANGED <<server, host, pins, lookup, reached>>

----------------------------------------------------------------------------
(* The same policy checks navigations, redirects and every request a page  *)
(* makes, without connecting.                                              *)

PageAsks ==
    /\ asking = "nobody"
    /\ asking' = "page"
    /\ lookup' \in Hosts
    /\ UNCHANGED <<server, at, host, left, up, pins, reached>>

PageResolved ==
    /\ asking = "page"
    /\ \E answer \in SUBSET Addresses :
          /\ Admitted(lookup, answer)
          /\ pins' = [pins EXCEPT ![lookup] = answer]
    /\ asking' = "nobody"
    /\ UNCHANGED <<server, at, host, left, up, lookup, reached>>

PageNotResolved ==
    /\ asking = "page"
    /\ asking' = "nobody"
    /\ UNCHANGED <<server, at, host, left, up, pins, lookup, reached>>

----------------------------------------------------------------------------
EgressNext ==
    \/ StartServer \/ CloseServer \/ CancelTasks \/ ServerClosed
    \/ \E c \in Clients :
          \/ Accept(c) \/ RequestName(c) \/ RequestLiteral(c) \/ RequestRefused(c)
          \/ LookUp(c) \/ Resolved(c) \/ NotResolved(c)
          \/ Connects(c) \/ ConnectFails(c) \/ Relayed(c) \/ Gone(c) \/ Cancelled(c)
    \/ PageAsks \/ PageResolved \/ PageNotResolved

EgressSpec == EgressInit /\ [][EgressNext]_egressVars

----------------------------------------------------------------------------
(* Properties.                                                             *)

ClientStages == {"none", "reading", "queueing", "asking", "connecting", "relaying", "ending", "gone"}

EgressTypeOK ==
    /\ server \in {"new", "open", "closing", "cancelling", "closed"}
    /\ at \in [Clients -> ClientStages]
    /\ host \in [Clients -> Hosts \cup Addresses \cup {0}]
    /\ left \in [Clients -> SUBSET Addresses]
    /\ up \in [Clients -> Addresses \cup {0}]
    /\ pins \in [Hosts -> SUBSET Addresses] /\ reached \in [Hosts -> SUBSET Addresses]
    /\ asking \in Clients \cup {"page", "nobody"} /\ lookup \in Hosts \cup {"nothing"}

\* However connections, page checks and changing name-server answers interleave, all that was
\* ever connected to for a host lies in the one answer pinned for it, and is public.
OnePinPerHost ==
    \A h \in Hosts : reached[h] \subseteq pins[h] /\ pins[h] \subseteq Public
=============================================================================
