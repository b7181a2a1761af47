----------------------------- MODULE Transport -----------------------------
(***************************************************************************)
(* One StratumClient over its sockets, at the grain of bytes               *)
(* (src/src/net/stratum_client.cc, socket_posix.cc, socket_openssl.cc):    *)
(* connect() walks the addresses of a host, recvLine() assembles lines one *)
(* byte at a time under a timeout, sendJson() loops over partial sends.    *)
(* The runner thread connects, sends its three requests and receives; the  *)
(* main thread sends shares on the same socket, once a job has been seen,  *)
(* and takes a mutex that the runner thread does not.                      *)
(*                                                                         *)
(* The peer and TCP are external: bytes arrive in order, the peer closes   *)
(* or resets at any time.  A byte is <<line, place>>; a line has LineLen   *)
(* bytes and a newline, a request MsgLen bytes of which the last is the    *)
(* newline.                                                                *)
(***************************************************************************)
EXTENDS Naturals, Sequences, SequencesExt

CONSTANTS MaxAddrs,   \* bound: addresses a name resolves to
          MaxTries,   \* bound: calls of connect()
          MaxLines,   \* bound: lines the peer sends on one connection
          LineLen,    \* bytes of a line before its newline
          MsgLen,     \* bytes of a request, its newline included
          MaxShares,  \* bound: shares the main thread sends
          MaxTimeouts \* bound: receive timeouts on one connection

ASSUME TransportAssumption ==
  /\ MaxAddrs \in Nat /\ MaxTries \in Nat /\ MaxLines \in Nat /\ MaxShares \in Nat /\ MaxTimeouts \in Nat
  /\ LineLen \in Nat \ {0} /\ MsgLen \in Nat \ {0}

VARIABLES
  (* the network *)
  reach,    \* what each address of the name does; empty: it does not resolve
  arrived,  \* bytes of the peer's stream that the kernel holds or has handed out
  ended,    \* "no", or how the peer ended the connection: "closed", "reset"
  wire,     \* bytes the peer has received on this connection
  (* the client *)
  use_tls_, pc, at, tries, conns,
  sock_,    \* "null", "unconnected" or "up"
  taken,    \* bytes handed out by recv
  line,     \* what recvLine has of the line so far
  got,      \* lines returned on this connection
  timeouts, cut,   \* receive timeouts, and the lines they fell into
  todo,     \* requests the runner thread still has to send
  left,     \* what each thread's sendJson has left of its request
  has_job, shares

netVars == <<reach, arrived, ended, wire>>
recvVars == <<taken, line, got, timeouts, cut>>
sendVars == <<todo, left>>
vars == <<netVars, recvVars, sendVars, use_tls_, pc, at, tries, conns, sock_, has_job, shares>>

Senders == {"runner", "main"}

Message(m) == [k \in 1 .. MsgLen |-> <<m, k>>]

\* sendSubscribe, sendAuthorize and mining.configure, ids 1, 2 and 100.
Greeting == <<1, 2, 100>>

\* A share on the wire is told apart from the others by this number.
Share(n) == 1000 + n

\* The peer's stream: byte p is byte k of line n; k > LineLen is the newline.
LineOf(p) == ((p - 1) \div (LineLen + 1)) + 1

PlaceOf(p) == ((p - 1) % (LineLen + 1)) + 1

Newline(p) == PlaceOf(p) > LineLen

Whole(n) == [k \in 1 .. LineLen |-> <<n, k>>]

Init ==
  /\ use_tls_ \in BOOLEAN
  /\ reach = <<>> /\ arrived = 0 /\ ended = "no" /\ wire = <<>>
  /\ pc = "connect" /\ at = 1 /\ tries = 0 /\ conns = 0 /\ sock_ = "null"
  /\ taken = 0 /\ line = <<>> /\ got = <<>> /\ timeouts = 0 /\ cut = {}
  /\ todo = <<>> /\ left = [s \in Senders |-> <<>>] /\ has_job = FALSE /\ shares = 0

------------------------------------------------------------------------------
(* connect() *)

\* A new socket object, and getaddrinfo.  MakeTlsSocket of a build without TLS
\* returns null, and connect() fails as it does when the name has no address.
Resolve ==
  /\ pc = "connect" /\ tries < MaxTries
  /\ tries' = tries + 1
  /\ \E n \in 0 .. MaxAddrs : reach' \in [1 .. n -> {"accepts", "refuses", "silent"}]
  /\ sock_' = "unconnected" \/ (sock_' = "null" /\ use_tls_ /\ reach' = <<>>)
  /\ at' = 1
  /\ pc' = "walk"
  /\ UNCHANGED <<arrived, ended, wire, recvVars, sendVars, use_tls_, conns, has_job, shares>>

\* No address is left.
ConnectFails ==
  /\ pc = "walk" /\ at > Len(reach)
  /\ pc' = "failed"
  /\ UNCHANGED <<netVars, recvVars, sendVars, use_tls_, at, tries, conns, sock_, has_job, shares>>

\* The plain socket looks at SO_ERROR, so a refusal is one; the TLS socket takes
\* every descriptor that select reports as connected.
PlainTakes(a) == a = "accepts"

TlsTakes(a) == a # "silent"

Opened ==
  /\ sock_' = "up" /\ conns' = conns + 1 /\ pc' = "greet" /\ todo' = Greeting
  /\ arrived' = 0 /\ ended' = "no" /\ wire' = <<>>
  /\ taken' = 0 /\ line' = <<>> /\ got' = <<>> /\ timeouts' = 0 /\ cut' = {}
  /\ UNCHANGED <<reach, left, use_tls_, at, tries, has_job, shares>>

\* Fault: the plain socket stops at the first address that does not connect.
StopsAtFirst ==
  /\ pc = "walk" /\ at <= Len(reach) /\ ~use_tls_
  /\ IF PlainTakes(reach[at]) THEN Opened
     ELSE pc' = "failed" /\ UNCHANGED <<netVars, recvVars, sendVars, use_tls_, at, tries, conns, sock_, has_job, shares>>

PlainConnect ==
  /\ pc = "walk" /\ at <= Len(reach) /\ ~use_tls_
  /\ IF PlainTakes(reach[at]) THEN Opened
     ELSE at' = at + 1 /\ UNCHANGED <<netVars, recvVars, sendVars, use_tls_, pc, tries, conns, sock_, has_job, shares>>

TlsConnect ==
  /\ pc = "walk" /\ at <= Len(reach) /\ use_tls_
  /\ IF TlsTakes(reach[at]) THEN pc' = "handshake" /\ UNCHANGED at
     ELSE at' = at + 1 /\ UNCHANGED pc
  /\ UNCHANGED <<netVars, recvVars, sendVars, use_tls_, tries, conns, sock_, has_job, shares>>

\* SSL_connect in a loop of waits, each up to the timeout.
Handshake ==
  /\ pc = "handshake"
  /\ \/ reach[at] = "accepts" /\ Opened
     \/ /\ pc' = "failed"
        /\ UNCHANGED <<netVars, recvVars, sendVars, use_tls_, at, tries, conns, sock_, has_job, shares>>

\* The runner waits and tries again; sock_ keeps what connect() left in it.
Backoff ==
  /\ pc = "failed"
  /\ pc' = "connect"
  /\ UNCHANGED <<netVars, recvVars, sendVars, use_tls_, at, tries, conns, sock_, has_job, shares>>

------------------------------------------------------------------------------
(* the peer *)

PeerSends ==
  /\ sock_ = "up" /\ ended = "no" /\ arrived < MaxLines * (LineLen + 1)
  /\ arrived' = arrived + 1
  /\ UNCHANGED <<reach, ended, wire, recvVars, sendVars, use_tls_, pc, at, tries, conns, sock_, has_job, shares>>

\* A reset discards what the kernel holds.
PeerEnds ==
  /\ sock_ = "up" /\ ended = "no"
  /\ \E how \in {"closed", "reset"} :
       /\ ended' = how
       /\ arrived' = IF how = "reset" THEN taken ELSE arrived
  /\ UNCHANGED <<reach, wire, recvVars, sendVars, use_tls_, pc, at, tries, conns, sock_, has_job, shares>>

------------------------------------------------------------------------------
(* recvLine() *)

\* A whole line may be a mining.notify, which sets last_job_id_.
Return(l) ==
  /\ got' = Append(got, l) /\ line' = <<>>
  /\ has_job' \in (IF l \in {Whole(n) : n \in 1 .. MaxLines} THEN {has_job, TRUE} ELSE {has_job})

recvByte ==
  /\ pc = "recv" /\ taken < arrived
  /\ taken' = taken + 1
  /\ IF Newline(taken') THEN Return(line)
     ELSE line' = Append(line, <<LineOf(taken'), PlaceOf(taken')>>) /\ UNCHANGED <<got, has_job>>
  /\ UNCHANGED <<netVars, timeouts, cut, sendVars, use_tls_, pc, at, tries, conns, sock_, shares>>

Quiet == pc = "recv" /\ taken = arrived /\ ended = "no" /\ ~use_tls_ /\ timeouts < MaxTimeouts

\* Fault: a timeout returns what there is of the line.
TimeoutReturns ==
  /\ Quiet
  /\ timeouts' = timeouts + 1
  /\ cut' = IF line = <<>> THEN cut ELSE cut \union {LineOf(taken)}
  /\ Return(line)
  /\ UNCHANGED <<netVars, taken, sendVars, use_tls_, pc, at, tries, conns, sock_, shares>>

\* select's 5 s: kTimeout, and the bytes of an unfinished line are gone.  The
\* TLS socket ignores the timeout: SSL_read blocks.
recvTimeout ==
  /\ Quiet
  /\ timeouts' = timeouts + 1
  /\ cut' = IF line = <<>> THEN cut ELSE cut \union {LineOf(taken)}
  /\ line' = <<>>
  /\ UNCHANGED <<netVars, taken, got, sendVars, use_tls_, pc, at, tries, conns, sock_, has_job, shares>>

\* The end of the stream ends an unfinished line as a newline would; the next
\* call finds nothing and says kClosed.  The runner then closes the client.
recvEnd ==
  /\ pc = "recv" /\ taken = arrived /\ ended # "no"
  /\ IF line # <<>> THEN Return(line) /\ UNCHANGED <<pc, sock_>>
     ELSE pc' = "connect" /\ sock_' = "null" /\ UNCHANGED <<line, got, has_job>>
  /\ UNCHANGED <<netVars, taken, timeouts, cut, sendVars, use_tls_, at, tries, conns, shares>>

------------------------------------------------------------------------------
(* sendJson() *)

\* The runner thread's next request; when all are out it starts to receive.
Greet ==
  /\ pc = "greet" /\ left["runner"] = <<>>
  /\ IF todo = <<>> THEN pc' = "recv" /\ UNCHANGED sendVars
     ELSE left' = [left EXCEPT !["runner"] = Message(Head(todo))] /\ todo' = Tail(todo) /\ UNCHANGED pc
  /\ UNCHANGED <<netVars, recvVars, use_tls_, at, tries, conns, sock_, has_job, shares>>

\* Fault: shares are sent before any job has come.
SubmitsEarly ==
  /\ left["main"] = <<>> /\ shares < MaxShares /\ conns > 0 /\ sock_ # "null"
  /\ shares' = shares + 1
  /\ left' = [left EXCEPT !["main"] = Message(Share(shares))]
  /\ UNCHANGED <<netVars, recvVars, todo, use_tls_, pc, at, tries, conns, sock_, has_job>>

\* submitShare, in the main thread: there is a job, and sock_ is not null.
sendSubmit ==
  /\ left["main"] = <<>> /\ shares < MaxShares /\ has_job /\ sock_ # "null"
  /\ shares' = shares + 1
  /\ left' = [left EXCEPT !["main"] = Message(Share(shares))]
  /\ UNCHANGED <<netVars, recvVars, todo, use_tls_, pc, at, tries, conns, sock_, has_job>>

\* send takes some of the rest; sock_ is read again for every call.
sendSome(s) ==
  /\ left[s] # <<>> /\ sock_ = "up" /\ ended = "no"
  /\ \E n \in 1 .. Len(left[s]) :
       /\ wire' = wire \o SubSeq(left[s], 1, n)
       /\ left' = [left EXCEPT ![s] = SubSeq(@, n + 1, Len(@))]
  /\ UNCHANGED <<reach, arrived, ended, recvVars, todo, use_tls_, pc, at, tries, conns, sock_, has_job, shares>>

\* An error gives the request up; nobody looks at the result.  A call through
\* the pointer while it is null, or while its object is freed, is undefined
\* (MCSessionClaims.cfg reaches it); here it fails, or happens after connect().
sendFails(s) ==
  /\ left[s] # <<>> /\ (sock_ # "up" \/ ended # "no")
  /\ left' = [left EXCEPT ![s] = <<>>]
  /\ UNCHANGED <<netVars, recvVars, todo, use_tls_, pc, at, tries, conns, sock_, has_job, shares>>

Next == \/ Resolve \/ ConnectFails \/ PlainConnect \/ TlsConnect \/ Handshake \/ Backoff
        \/ PeerSends \/ PeerEnds
        \/ recvByte \/ recvTimeout \/ recvEnd
        \/ Greet \/ sendSubmit \/ \E s \in Senders : sendSome(s) \/ sendFails(s)

Spec == Init /\ [][Next]_vars

------------------------------------------------------------------------------
\* connect() came to an address that accepts, if there is one.
Reached ==
  pc = "failed" =>
    \/ \A a \in DOMAIN reach : reach[a] # "accepts"
    \/ at \in DOMAIN reach /\ reach[at] = "accepts"

\* A plain connect() fails only if no address of the host accepts, wherever in
\* the list the one that does may be.
PlainReaches == ~use_tls_ => Reached

\* The same of TLS.  It does not hold: a refusal ends the walk.
TlsReaches == use_tls_ => Reached

\* l is line n from byte j to byte k.
Piece(l, n, j, k) == l = SubSeq(Whole(n), j, k)

\* recvLine gives the lines of the peer, whole and in their order, with two
\* exceptions: a line that a timeout fell into comes without its first bytes or
\* not at all, and the end of the stream may cut off the last bytes of the last.
\* No line disappears in any other way.
LinesExact ==
  /\ \A i \in DOMAIN got : \E n \in 1 .. MaxLines : \E j, k \in 1 .. LineLen + 1 :
       /\ Piece(got[i], n, j, k - 1)
       /\ j > 1 => n \in cut
       /\ k - 1 < LineLen => ended # "no" /\ i = Len(got)
  /\ \A i, j \in DOMAIN got :
       (i < j /\ got[i] # <<>> /\ got[j] # <<>>) => got[i][1][1] < got[j][1][1]
  /\ \A p \in 1 .. taken : Newline(p) => LineOf(p) \in cut \/ Whole(LineOf(p)) \in Range(got)

\* Every request is in one piece and starts after a newline.
Framed ==
  \A i \in DOMAIN wire :
    IF wire[i][2] = 1 THEN i = 1 \/ wire[i - 1][2] = MsgLen
    ELSE i > 1 /\ wire[i - 1] = <<wire[i][1], wire[i][2] - 1>>

\* On the first connection the two threads never mix their requests, although
\* they share no lock: no share is sent before a job came, and no job comes
\* before the runner has sent its three requests.
FirstConnectionFramed ==
  conns = 1 => /\ Framed
               /\ \A i \in DOMAIN wire : wire[i][1] \notin Range(Greeting) => i > Len(Greeting) * MsgLen

\* The same of every connection.  It does not hold: after a reconnect the job
\* of the old connection lets the main thread send while the runner greets.
AlwaysFramed == conns > 0 => Framed
============================================================================
