---------------------------- MODULE SocketSetup -----------------------------
(***************************************************************************)
(* create_socket, with what create_server_socket and create_client_socket  *)
(* do to a new socket, and bind_internal: one address after another is     *)
(* tried until a socket is bound and listens, or is connected.             *)
(***************************************************************************)
EXTENDS Naturals, FiniteSets

CONSTANT MaxAddresses  \* the most that getaddrinfo is taken to find

ASSUME SocketAssumption == MaxAddresses \in Nat \ {0}

VARIABLES
  step,      \* "resolve", "try", "made", "ready", "returned" or "reported"
  left,      \* addresses not yet tried
  info,      \* is the list of addresses allocated?
  sock,      \* the socket at hand: its number, 0 for INVALID_SOCKET
  made,      \* sockets created so far
  openSocks, \* those that are open
  client,    \* is it to be connected, rather than to listen?
  result     \* what is reported: a port, or the client's Error

socketVars == <<step, left, info, sock, made, openSocks, client, result>>
ends == <<client, result>>

Invalid == 0

SocketInit ==
  /\ step = "resolve" /\ left = 0 /\ info = FALSE /\ sock = Invalid
  /\ made = 0 /\ openSocks = {}
  /\ client \in BOOLEAN /\ result = "success"

Step(from, to) == step = from /\ step' = to

\* getaddrinfo fails, or finds some addresses.
Resolve ==
  \/ Step("resolve", "returned") /\ UNCHANGED <<left, info, sock, made, openSocks, ends>>
  \/ /\ Step("resolve", "try")
     /\ left' \in 1..MaxAddresses /\ info' = TRUE
     /\ UNCHANGED <<sock, made, openSocks, ends>>

\* The address of a Unix socket is not looked up, and there is only one.
ResolveUnix ==
  /\ Step("resolve", "try") /\ left' = 1
  /\ UNCHANGED <<info, sock, made, openSocks, ends>>

\* socket() for the next address, or the end of the list.
TryNext ==
  \/ /\ Step("try", "made") /\ left > 0
     /\ left' = left - 1 /\ made' = made + 1
     /\ sock' = made + 1 /\ openSocks' = openSocks \cup {made + 1}
     /\ UNCHANGED <<info, ends>>
  \/ /\ Step("try", "try") /\ left > 0
     /\ left' = left - 1
     /\ UNCHANGED <<info, sock, made, openSocks, ends>>
  \/ /\ Step("try", "returned") /\ left = 0
     /\ info' = FALSE
     /\ UNCHANGED <<left, sock, made, openSocks, ends>>

\* Plausible bug: a socket that is given up is not closed.
DropSocket == sock' = Invalid /\ UNCHANGED openSocks

CloseSocketAtHand == sock' = Invalid /\ openSocks' = openSocks \ {sock}

\* The descriptor must not reach the children that scripts run in; only a Unix
\* socket is used although that could not be arranged.
SetCloexec ==
  /\ \/ Step("made", "ready") /\ UNCHANGED <<sock, openSocks>>
     \/ Step("made", "try") /\ info /\ CloseSocketAtHand
  /\ UNCHANGED <<left, info, made, ends>>

\* bind and listen.
BindAndListen ==
  /\ ~client
  /\ \/ Step("ready", "returned") /\ info' = FALSE /\ UNCHANGED <<sock, openSocks>>
     \/ Step("ready", "try") /\ CloseSocketAtHand /\ UNCHANGED info
  /\ UNCHANGED <<left, made, ends>>

\* A socket is bound, but its port may still be asked for in vain: the error
\* leaves it open in svr_sock_.
BindInternal ==
  /\ ~client /\ Step("returned", "reported")
  /\ result' \in (IF sock = Invalid THEN {"error"} ELSE {"port", "error"})
  /\ UNCHANGED <<left, info, sock, made, openSocks, client>>

\* How binding to an interface fails, and connecting, at once or after a wait.
BindErrors == {"BindIPAddress"}
ConnectErrors == {"Connection", "ConnectionTimeout"}

\* The client's socket is bound to an interface, if one is named, and connected
\* without blocking, so that it can wait for a limited time.
Connect ==
  /\ client
  /\ \/ /\ Step("ready", "returned") /\ info' = FALSE /\ result' = "success"
        /\ UNCHANGED <<sock, openSocks>>
     \/ /\ Step("ready", "try") /\ CloseSocketAtHand /\ UNCHANGED info
        /\ result' \in BindErrors \cup ConnectErrors
  /\ UNCHANGED <<left, made, client>>

\* Without a socket there is an error, at least that there is no connection.
ReportError ==
  /\ client /\ Step("returned", "reported")
  /\ result' = CASE sock # Invalid -> "success"
                 [] sock = Invalid /\ result = "success" -> "Connection"
                 [] OTHER -> result
  /\ UNCHANGED <<left, info, sock, made, openSocks, client>>

SocketNext ==
  \/ Resolve \/ ResolveUnix \/ TryNext \/ SetCloexec
  \/ BindAndListen \/ BindInternal \/ Connect \/ ReportError

(* Whichever calls fail on whichever addresses, what is returned is the only *)
(* socket left open, and the list of addresses has been freed.  A client    *)
(* without a socket is told of an error, and one with a socket of none,     *)
(* whatever went wrong with addresses before the last.                      *)
SocketsBalanced ==
  /\ step \in {"returned", "reported"} => openSocks = {sock} \ {Invalid} /\ ~info
  /\ step = "reported" /\ client => (result = "success" <=> sock # Invalid)
=============================================================================
