-------------------------- MODULE Transport_proofs --------------------------
(***************************************************************************)
(* Proofs about Transport, for every number of addresses, lines, shares    *)
(* and timeouts and every length of a line and of a request.               *)
(*                                                                         *)
(* WalkInv carries PlainReaches: what the walk has passed did not accept.  *)
(* RequestInv carries FirstConnectionFramed: while the greeting is not out *)
(* there is no job and so no share, what was sent and what is owed make up *)
(* the greeting, and the next byte of whoever is sending continues the     *)
(* stream.  LineInv carries LinesExact: line is the part of the current    *)
(* line that ends at the last byte taken, a part that lacks its first      *)
(* bytes belongs to a line a timeout fell into, and all that was returned  *)
(* belongs to earlier lines, except for what the end of the stream cut.    *)
(***************************************************************************)
EXTENDS Transport, Integers, SequenceTheorems, TLAPS

(* What an address does when it is connected to. *)
Ways == {"accepts", "refuses", "silent"}

(* A byte is its line or request and its place there. *)
Bytes == Nat \X Nat

(* Types of the network, and what recv can have handed out. *)
NetTypes ==
  /\ reach \in Seq(Ways) /\ ended \in {"no", "closed", "reset"} /\ wire \in Seq(Bytes)
  /\ arrived \in Nat /\ taken \in Nat /\ taken <= arrived /\ arrived <= MaxLines * (LineLen + 1)

(* Types of the client; its socket is up from the handshake to the close. *)
ClientTypes ==
  /\ use_tls_ \in BOOLEAN /\ has_job \in BOOLEAN /\ at \in Nat \ {0} /\ conns \in Nat /\ shares \in Nat
  /\ pc \in {"connect", "walk", "handshake", "failed", "greet", "recv"}
  /\ sock_ = "up" <=> pc \in {"greet", "recv"}
  /\ sock_ = "up" => conns > 0

(* Types of what was received. *)
RecvTypes == line \in Seq(Bytes) /\ got \in Seq(Seq(Bytes))

(* Types of what is to be sent; the runner sends only while it greets. *)
SendTypes ==
  /\ todo \in Seq(Nat) /\ left \in [Senders -> Seq(Bytes)]
  /\ left["runner"] # <<>> => pc = "greet"

Types == NetTypes /\ ClientTypes /\ RecvTypes /\ SendTypes

(* The plain walk has passed no address that accepts, and ends only at the  *)
(* end of the list.                                                         *)
WalkInv ==
  ~use_tls_ =>
    /\ pc # "handshake"
    /\ pc \in {"walk", "failed"} => \A a \in DOMAIN reach : a < at => reach[a] # "accepts"
    /\ pc = "failed" => at > Len(reach)

-----------------------------------------------------------------------------
(* Before the first greeting is out there is no job and no share. *)
NoShareYet ==
  conns = 0 \/ (conns = 1 /\ pc = "greet") => ~has_job /\ left["main"] = <<>>

(* What a thread has left of a request is its last bytes. *)
LastBytes ==
  \A s \in Senders :
    /\ Len(left[s]) <= MsgLen
    /\ \A i \in DOMAIN left[s] : left[s][i] = <<left[s][1][1], (MsgLen - Len(left[s])) + i>>

(* What is sent and what is owed of the first greeting. *)
Owed ==
  conns = 1 /\ pc = "greet" /\ ended = "no" =>
    LET out == Len(wire) + Len(left["runner"])
    IN \/ todo = <<1, 2, 100>> /\ out = 0
       \/ todo = <<2, 100>> /\ out = MsgLen
       \/ todo = <<100>> /\ out = 2 * MsgLen
       \/ todo = <<>> /\ out = 3 * MsgLen

(* The runner sends requests of the greeting only. *)
OnlyGreets ==
  conns = 1 /\ pc = "greet" =>
    /\ todo \in {<<1, 2, 100>>, <<2, 100>>, <<100>>, <<>>}
    /\ \A i \in DOMAIN left["runner"] : left["runner"][i][1] \in {1, 2, 100}

(* The greeting is out before the runner receives. *)
GreetingOut == conns = 1 /\ pc = "recv" /\ ended = "no" => Len(wire) >= 3 * MsgLen

(* What the peer has received ends with a request. *)
Clean == wire = <<>> \/ wire[Len(wire)][2] = MsgLen

(* b continues what the peer has received. *)
Continues(b) ==
  IF b[2] = 1 THEN Clean
  ELSE wire # <<>> /\ wire[Len(wire)] = <<b[1], b[2] - 1>>

(* So does the next byte of whoever is sending; if nobody is, a request can *)
(* begin.                                                                   *)
NextByte ==
  conns = 1 /\ sock_ = "up" /\ ended = "no" =>
    /\ \A s \in Senders : left[s] # <<>> => Continues(left[s][1])
    /\ (\A s \in Senders : left[s] = <<>>) => Clean

RequestInv ==
  /\ NoShareYet /\ LastBytes /\ Owed /\ OnlyGreets /\ GreetingOut /\ NextByte
  /\ FirstConnectionFramed

-----------------------------------------------------------------------------
(* The line and the place of the last byte taken; the newline counts as     *)
(* place 0 of the next.                                                     *)
Cur == LineOf(taken + 1)

Off == PlaceOf(taken + 1) - 1

(* The stream is over and all of it was returned. *)
Spent == ended # "no" /\ taken = arrived /\ line = <<>>

(* line is the part of the current line up to the last byte taken, and lacks *)
(* its first bytes only after a timeout.                                    *)
LineShape ==
  /\ Len(line) <= Off
  /\ \A i \in DOMAIN line : line[i] = <<Cur, (Off - Len(line)) + i>>
  /\ Len(line) < Off => Cur \in cut \/ Spent

(* What was returned: pieces of lines. *)
GotShape ==
  \A i \in DOMAIN got : \E n \in 1 .. MaxLines : \E j, k \in 1 .. LineLen + 1 :
    /\ Piece(got[i], n, j, k - 1)
    /\ j > 1 => n \in cut
    /\ k - 1 < LineLen => Spent /\ i = Len(got)

(* They are of lines before the current one, except for a last one that the *)
(* end of the stream cut.                                                   *)
GotBefore ==
  \A i \in DOMAIN got : got[i] # <<>> =>
    /\ got[i][1][1] <= Cur
    /\ got[i][1][1] = Cur => Spent /\ i = Len(got)

(* The order of what was returned. *)
GotOrder ==
  \A i, j \in DOMAIN got :
    (i < j /\ got[i] # <<>> /\ got[j] # <<>>) => got[i][1][1] < got[j][1][1]

(* No line disappeared but by a timeout. *)
NoneLost ==
  \A p \in 1 .. taken : Newline(p) => LineOf(p) \in cut \/ Whole(LineOf(p)) \in Range(got)

LineInv == LineShape /\ GotShape /\ GotBefore /\ GotOrder /\ NoneLost

-----------------------------------------------------------------------------
(* A request and a line are sequences of bytes. *)
LEMMA MessageBytes ==
  ASSUME NEW m \in Nat
  PROVE  /\ Message(m) \in Seq(Bytes) /\ Len(Message(m)) = MsgLen /\ Message(m) # <<>>
         /\ \A i \in 1 .. MsgLen : Message(m)[i] = <<m, i>>
  BY TransportAssumption DEF Message, Bytes

LEMMA WholeBytes ==
  ASSUME NEW n \in Nat
  PROVE  /\ Whole(n) \in Seq(Bytes) /\ Len(Whole(n)) = LineLen
         /\ \A i \in 1 .. LineLen : Whole(n)[i] = <<n, i>>
  BY TransportAssumption DEF Whole, Bytes

(* send takes the first n bytes of l; the rest stays. *)
LEMMA SendShape ==
  ASSUME NEW w \in Seq(Bytes), NEW l \in Seq(Bytes), NEW n \in 1 .. Len(l)
  PROVE  /\ w \o SubSeq(l, 1, n) \in Seq(Bytes)
         /\ Len(w \o SubSeq(l, 1, n)) = Len(w) + n
         /\ \A i \in 1 .. Len(w) : (w \o SubSeq(l, 1, n))[i] = w[i]
         /\ \A i \in 1 .. n : (w \o SubSeq(l, 1, n))[Len(w) + i] = l[i]
         /\ SubSeq(l, n + 1, Len(l)) \in Seq(Bytes)
         /\ Len(SubSeq(l, n + 1, Len(l))) = Len(l) - n
         /\ \A i \in 1 .. (Len(l) - n) : SubSeq(l, n + 1, Len(l))[i] = l[n + i]
<1> DEFINE u == SubSeq(l, 1, n)
           v == SubSeq(l, n + 1, Len(l))
<1>1. \A i \in 1 .. Len(l) : l[i] \in Bytes BY ElementOfSeq
<1>2. Len(l) \in Nat /\ Len(w) \in Nat BY LenProperties
<1>3. /\ u \in Seq(Bytes) /\ Len(u) = n
      /\ \A i \in 1 .. n : u[i] = l[i]
  BY <1>1, <1>2, SubSeqProperties
<1>4. /\ v \in Seq(Bytes) /\ Len(v) = Len(l) - n
      /\ \A i \in 1 .. (Len(l) - n) : v[i] = l[n + i]
  BY <1>1, <1>2, SubSeqProperties
<1> HIDE DEF u, v
<1>5. /\ w \o u \in Seq(Bytes) /\ Len(w \o u) = Len(w) + n
      /\ \A i \in 1 .. (Len(w) + n) : (w \o u)[i] = IF i <= Len(w) THEN w[i] ELSE u[i - Len(w)]
  BY <1>3, ConcatProperties
<1>6. \A i \in 1 .. Len(w) : (w \o u)[i] = w[i] BY <1>2, <1>5
<1>7. \A i \in 1 .. n : (w \o u)[Len(w) + i] = l[i] BY <1>2, <1>3, <1>5
<1> QED BY <1>4, <1>5, <1>6, <1>7 DEF u, v

LEMMA StreamLength == MaxLines * (LineLen + 1) \in Nat
  BY TransportAssumption

-----------------------------------------------------------------------------
(* Quotient and remainder. *)
LEMMA DivMod ==
  ASSUME NEW x \in Nat, NEW m \in Nat \ {0}
  PROVE  x % m \in 0..(m - 1) /\ x \div m \in Nat /\ x = m * (x \div m) + (x % m)
  BY SMT

(* They are the only ones. *)
LEMMA DivModUnique ==
  ASSUME NEW m \in Nat \ {0}, NEW q \in Int, NEW p \in Int,
         NEW r \in 0..(m - 1), NEW s \in 0..(m - 1), m * q + r = m * p + s
  PROVE  q = p /\ r = s
<1>1. m * (q - p) = s - r BY SMT
<1>2. q - p >= 1 => m * (q - p) >= m BY SMT
<1>3. p - q >= 1 => m * (p - q) >= m BY SMT
<1> QED BY <1>1, <1>2, <1>3, SMT

(* Line and place of a byte of the peer's stream. *)
LEMMA Places ==
  ASSUME NEW p \in Nat \ {0}
  PROVE  /\ LineOf(p) \in Nat \ {0} /\ PlaceOf(p) \in 1 .. (LineLen + 1)
         /\ p = (LineLen + 1) * (LineOf(p) - 1) + PlaceOf(p)
<1> DEFINE q == (p - 1) \div (LineLen + 1)
           r == (p - 1) % (LineLen + 1)
<1>1. q \in Nat /\ r \in 0 .. ((LineLen + 1) - 1) /\ p - 1 = (LineLen + 1) * q + r
  <2>1. p - 1 \in Nat /\ LineLen + 1 \in Nat \ {0} BY TransportAssumption
  <2> QED BY <2>1, DivMod, Zenon
<1>2. LineOf(p) = q + 1 /\ PlaceOf(p) = r + 1 BY DEF LineOf, PlaceOf
<1> HIDE DEF q, r
<1>3. LineOf(p) - 1 = q BY <1>1, <1>2
<1> QED BY <1>1, <1>2, <1>3, TransportAssumption

(* They are determined by the position. *)
LEMMA PlacesUnique ==
  ASSUME NEW p \in Nat \ {0}, NEW n \in Nat \ {0}, NEW k \in 1 .. (LineLen + 1),
         p = (LineLen + 1) * (n - 1) + k
  PROVE  LineOf(p) = n /\ PlaceOf(p) = k
<1> DEFINE m == LineLen + 1
           q == LineOf(p) - 1
           r == PlaceOf(p) - 1
<1>1. m \in Nat \ {0} BY TransportAssumption
<1>2. q \in Int /\ r \in 0 .. (m - 1) /\ p = m * q + (r + 1) BY Places, TransportAssumption
<1>3. n - 1 \in Int /\ k - 1 \in 0 .. (m - 1) /\ p = m * (n - 1) + ((k - 1) + 1) BY TransportAssumption
<1>4. LineOf(p) \in Nat /\ PlaceOf(p) \in Nat BY Places, TransportAssumption
<1>5. q = LineOf(p) - 1 /\ r = PlaceOf(p) - 1 OBVIOUS
<1> HIDE DEF m, q, r
<1>6. m * q + r = m * (n - 1) + (k - 1) BY <1>1, <1>2, <1>3
<1>7. q = n - 1 /\ r = k - 1 BY <1>1, <1>2, <1>3, <1>6, DivModUnique
<1> QED BY <1>4, <1>5, <1>7

(* The byte after p. *)
LEMMA NextPlace ==
  ASSUME NEW p \in Nat \ {0}
  PROVE  /\ PlaceOf(p) <= LineLen => LineOf(p + 1) = LineOf(p) /\ PlaceOf(p + 1) = PlaceOf(p) + 1
         /\ PlaceOf(p) > LineLen => LineOf(p + 1) = LineOf(p) + 1 /\ PlaceOf(p + 1) = 1
<1> DEFINE n == LineOf(p)
           k == PlaceOf(p)
<1>1. n \in Nat \ {0} /\ k \in 1 .. (LineLen + 1) /\ p = (LineLen + 1) * (n - 1) + k BY Places
<1> HIDE DEF n, k
<1>2. ASSUME k <= LineLen PROVE LineOf(p + 1) = n /\ PlaceOf(p + 1) = k + 1
  <2>1. k + 1 \in 1 .. (LineLen + 1) /\ p + 1 = (LineLen + 1) * (n - 1) + (k + 1)
    BY <1>1, <1>2, TransportAssumption
  <2> QED BY <1>1, <2>1, PlacesUnique
<1>3. ASSUME k > LineLen PROVE LineOf(p + 1) = n + 1 /\ PlaceOf(p + 1) = 1
  <2>1. k = LineLen + 1 BY <1>1, <1>3, TransportAssumption
  <2>2. (LineLen + 1) * (n - 1) + (LineLen + 1) = (LineLen + 1) * n BY <1>1, TransportAssumption
  <2>3. p + 1 = (LineLen + 1) * ((n + 1) - 1) + 1 BY <1>1, <2>1, <2>2, TransportAssumption
  <2>4. p + 1 \in Nat \ {0} /\ n + 1 \in Nat \ {0} /\ 1 \in 1 .. (LineLen + 1) BY <1>1, TransportAssumption
  <2> QED BY <2>3, <2>4, PlacesUnique, Zenon
<1> QED BY <1>2, <1>3 DEF n, k

(* The stream begins with the first byte of the first line. *)
LEMMA FirstPlace == LineOf(1) = 1 /\ PlaceOf(1) = 1
  BY PlacesUnique, TransportAssumption

(* It ends with the last line. *)
LEMMA LastLine ==
  ASSUME NEW p \in 1 .. MaxLines * (LineLen + 1)
  PROVE  LineOf(p) \in 1 .. MaxLines
<1> DEFINE n == LineOf(p)
           m == LineLen + 1
<1>1. p \in Nat \ {0} BY StreamLength
<1>2. n \in Nat \ {0} /\ p > m * (n - 1) BY <1>1, Places, TransportAssumption
<1>3. m \in Nat \ {0} /\ MaxLines \in Nat /\ p <= MaxLines * m BY TransportAssumption
<1> HIDE DEF n, m
<1>4. n - 1 >= MaxLines => m * (n - 1) >= m * MaxLines BY <1>2, <1>3
<1>5. m * MaxLines = MaxLines * m /\ m * MaxLines \in Int /\ m * (n - 1) \in Int BY <1>2, <1>3
<1>6. n - 1 < MaxLines BY <1>1, <1>2, <1>3, <1>4, <1>5
<1> QED BY <1>2, <1>3, <1>6 DEF n

-----------------------------------------------------------------------------
LEMMA TypesInit == Init => Types
<1> SUFFICES ASSUME Init PROVE Types OBVIOUS
<1>1. NetTypes BY StreamLength DEF Init, NetTypes, Bytes
<1>2. ClientTypes
  <2>1. use_tls_ \in BOOLEAN /\ has_job \in BOOLEAN BY Zenon DEF Init
  <2> QED BY <2>1 DEF Init, ClientTypes
<1>3. RecvTypes BY DEF Init, RecvTypes, Bytes
<1>4. SendTypes BY DEF Init, SendTypes, Bytes, Senders
<1> QED BY <1>1, <1>2, <1>3, <1>4 DEF Types

LEMMA NetTypesStep == Types /\ [Next]_vars => NetTypes'
<1> SUFFICES ASSUME Types, [Next]_vars PROVE NetTypes' OBVIOUS
<1> USE DEF Types, NetTypes
<1>1. CASE Resolve
  <2>1. PICK n \in 0 .. MaxAddrs : reach' \in [1 .. n -> Ways] BY <1>1 DEF Resolve, Ways
  <2>2. reach' \in Seq(Ways) BY <2>1, TransportAssumption
  <2> QED BY <1>1, <2>2 DEF Resolve, recvVars
<1>2. CASE Opened BY <1>2, StreamLength, EmptySeq DEF Opened
<1>3. CASE ConnectFails BY <1>3 DEF ConnectFails, netVars, recvVars
<1>4. CASE PlainConnect /\ ~Opened BY <1>4 DEF PlainConnect, netVars, recvVars
<1>5. CASE TlsConnect BY <1>5 DEF TlsConnect, netVars, recvVars
<1>6. CASE Handshake /\ ~Opened BY <1>6 DEF Handshake, netVars, recvVars
<1>7. CASE Backoff BY <1>7 DEF Backoff, netVars, recvVars
<1>8. CASE PeerSends BY <1>8, StreamLength DEF PeerSends, recvVars
<1>9. CASE PeerEnds BY <1>9, StreamLength DEF PeerEnds, recvVars
<1>10. CASE recvByte BY <1>10, StreamLength DEF recvByte, netVars
<1>11. CASE recvTimeout BY <1>11 DEF recvTimeout, netVars
<1>12. CASE recvEnd BY <1>12 DEF recvEnd, netVars
<1>13. CASE Greet BY <1>13 DEF Greet, netVars, recvVars
<1>14. CASE sendSubmit BY <1>14 DEF sendSubmit, netVars, recvVars
<1>15. CASE \E s \in Senders : sendSome(s)
  <2>1. PICK s \in Senders : sendSome(s) BY <1>15
  <2>2. PICK n \in 1 .. Len(left[s]) : wire' = wire \o SubSeq(left[s], 1, n) BY <2>1 DEF sendSome
  <2>3. left[s] \in Seq(Bytes) BY <2>1 DEF SendTypes
  <2>4. wire' \in Seq(Bytes) BY <2>2, <2>3, SendShape
  <2> QED BY <2>1, <2>4 DEF sendSome, recvVars
<1>16. CASE \E s \in Senders : sendFails(s) BY <1>16 DEF sendFails, netVars, recvVars
<1>17. CASE UNCHANGED vars BY <1>17 DEF vars, netVars, recvVars
<1> QED
  BY <1>1, <1>2, <1>3, <1>4, <1>5, <1>6, <1>7, <1>8, <1>9, <1>10, <1>11, <1>12, <1>13, <1>14, <1>15,
     <1>16, <1>17
  DEF Next

LEMMA ClientTypesStep == Types /\ [Next]_vars => ClientTypes'
<1> SUFFICES ASSUME Types, [Next]_vars PROVE ClientTypes' OBVIOUS
<1> USE DEF Types, ClientTypes
<1>1. CASE Resolve BY <1>1 DEF Resolve
<1>2. CASE Opened BY <1>2 DEF Opened
<1>3. CASE ConnectFails BY <1>3 DEF ConnectFails
<1>4. CASE PlainConnect /\ ~Opened BY <1>4 DEF PlainConnect
<1>5. CASE TlsConnect BY <1>5 DEF TlsConnect
<1>6. CASE Handshake /\ ~Opened BY <1>6 DEF Handshake
<1>7. CASE Backoff BY <1>7 DEF Backoff
<1>8. CASE PeerSends BY <1>8 DEF PeerSends
<1>9. CASE PeerEnds BY <1>9 DEF PeerEnds
<1>10. CASE recvByte BY <1>10 DEF recvByte, Return
<1>11. CASE recvTimeout BY <1>11 DEF recvTimeout
<1>12. CASE recvEnd BY <1>12 DEF recvEnd, Return
<1>13. CASE Greet BY <1>13 DEF Greet
<1>14. CASE sendSubmit BY <1>14 DEF sendSubmit
<1>15. CASE \E s \in Senders : sendSome(s) BY <1>15 DEF sendSome
<1>16. CASE \E s \in Senders : sendFails(s) BY <1>16 DEF sendFails
<1>17. CASE UNCHANGED vars BY <1>17 DEF vars
<1> QED
  BY <1>1, <1>2, <1>3, <1>4, <1>5, <1>6, <1>7, <1>8, <1>9, <1>10, <1>11, <1>12, <1>13, <1>14, <1>15,
     <1>16, <1>17
  DEF Next

LEMMA RecvTypesStep == Types /\ [Next]_vars => RecvTypes'
<1> SUFFICES ASSUME Types, [Next]_vars PROVE RecvTypes' OBVIOUS
<1> USE DEF Types, RecvTypes
<1>a. ASSUME Return(line) PROVE line' \in Seq(Bytes) /\ got' \in Seq(Seq(Bytes))
  BY <1>a, AppendProperties, EmptySeq DEF Return
<1>1. CASE Resolve BY <1>1 DEF Resolve, recvVars
<1>2. CASE Opened BY <1>2, EmptySeq DEF Opened
<1>3. CASE ConnectFails BY <1>3 DEF ConnectFails, recvVars
<1>4. CASE PlainConnect /\ ~Opened BY <1>4 DEF PlainConnect, recvVars
<1>5. CASE TlsConnect BY <1>5 DEF TlsConnect, recvVars
<1>6. CASE Handshake /\ ~Opened BY <1>6 DEF Handshake, recvVars
<1>7. CASE Backoff BY <1>7 DEF Backoff, recvVars
<1>8. CASE PeerSends BY <1>8 DEF PeerSends, recvVars
<1>9. CASE PeerEnds BY <1>9 DEF PeerEnds, recvVars
<1>10. CASE recvByte
  <2>1. CASE Newline(taken') BY <1>10, <1>a, <2>1 DEF recvByte
  <2>2. CASE ~Newline(taken')
    <3>1. <<LineOf(taken'), PlaceOf(taken')>> \in Bytes
      BY <1>10, Places DEF recvByte, NetTypes, Bytes
    <3> QED BY <1>10, <2>2, <3>1, AppendProperties DEF recvByte
  <2> QED BY <2>1, <2>2
<1>11. CASE recvTimeout BY <1>11, EmptySeq DEF recvTimeout
<1>12. CASE recvEnd BY <1>12, <1>a DEF recvEnd
<1>13. CASE Greet BY <1>13 DEF Greet, recvVars
<1>14. CASE sendSubmit BY <1>14 DEF sendSubmit, recvVars
<1>15. CASE \E s \in Senders : sendSome(s) BY <1>15 DEF sendSome, recvVars
<1>16. CASE \E s \in Senders : sendFails(s) BY <1>16 DEF sendFails, recvVars
<1>17. CASE UNCHANGED vars BY <1>17 DEF vars, recvVars
<1> QED
  BY <1>1, <1>2, <1>3, <1>4, <1>5, <1>6, <1>7, <1>8, <1>9, <1>10, <1>11, <1>12, <1>13, <1>14, <1>15,
     <1>16, <1>17
  DEF Next

LEMMA SendTypesStep == Types /\ [Next]_vars => SendTypes'
<1> SUFFICES ASSUME Types, [Next]_vars PROVE SendTypes' OBVIOUS
<1> USE DEF Types, SendTypes
<1>1. CASE Resolve BY <1>1 DEF Resolve, sendVars
<1>2. CASE Opened BY <1>2 DEF Opened, Greeting
<1>3. CASE ConnectFails BY <1>3 DEF ConnectFails, sendVars
<1>4. CASE PlainConnect /\ ~Opened BY <1>4 DEF PlainConnect, sendVars
<1>5. CASE TlsConnect BY <1>5 DEF TlsConnect, sendVars
<1>6. CASE Handshake /\ ~Opened BY <1>6 DEF Handshake, sendVars
<1>7. CASE Backoff BY <1>7 DEF Backoff, sendVars
<1>8. CASE PeerSends BY <1>8 DEF PeerSends, sendVars
<1>9. CASE PeerEnds BY <1>9 DEF PeerEnds, sendVars
<1>10. CASE recvByte BY <1>10 DEF recvByte, sendVars
<1>11. CASE recvTimeout BY <1>11 DEF recvTimeout, sendVars
<1>12. CASE recvEnd BY <1>12 DEF recvEnd, sendVars
<1>13. CASE Greet
  <2>1. CASE todo = <<>> BY <1>13, <2>1 DEF Greet, sendVars
  <2>2. CASE todo # <<>>
    <3>1. Head(todo) \in Nat /\ Tail(todo) \in Seq(Nat) BY <2>2, HeadTailProperties
    <3>2. Message(Head(todo)) \in Seq(Bytes) BY <3>1, MessageBytes
    <3> QED BY <1>13, <2>2, <3>1, <3>2 DEF Greet, Senders
  <2> QED BY <2>1, <2>2
<1>14. CASE sendSubmit
  <2>1. Message(Share(shares)) \in Seq(Bytes)
    <3>1. Share(shares) \in Nat BY DEF Share, ClientTypes
    <3> QED BY <3>1, MessageBytes
  <2> QED BY <1>14, <2>1 DEF sendSubmit, Senders
<1>15. CASE \E s \in Senders : sendSome(s)
  <2>1. PICK s \in Senders : sendSome(s) BY <1>15
  <2>2. PICK n \in 1 .. Len(left[s]) : left' = [left EXCEPT ![s] = SubSeq(left[s], n + 1, Len(left[s]))]
    BY <2>1 DEF sendSome
  <2>3. left[s] \in Seq(Bytes) BY <2>1
  <2>4. SubSeq(left[s], n + 1, Len(left[s])) \in Seq(Bytes) BY <2>3, SendShape
  <2>5. left' \in [Senders -> Seq(Bytes)] BY <2>2, <2>4
  <2>6. left["runner"] = <<>> => left'["runner"] = <<>> BY <2>1, <2>2 DEF sendSome, Senders
  <2> QED BY <2>1, <2>5, <2>6 DEF sendSome
<1>16. CASE \E s \in Senders : sendFails(s)
  <2>1. PICK s \in Senders : sendFails(s) BY <1>16
  <2>2. left' \in [Senders -> Seq(Bytes)] BY <2>1, EmptySeq DEF sendFails
  <2>3. left["runner"] = <<>> => left'["runner"] = <<>> BY <2>1 DEF sendFails, Senders
  <2> QED BY <2>1, <2>2, <2>3 DEF sendFails
<1>17. CASE UNCHANGED vars BY <1>17 DEF vars, sendVars
<1> QED
  BY <1>1, <1>2, <1>3, <1>4, <1>5, <1>6, <1>7, <1>8, <1>9, <1>10, <1>11, <1>12, <1>13, <1>14, <1>15,
     <1>16, <1>17
  DEF Next

LEMMA TypesStep == Types /\ [Next]_vars => Types'
  BY NetTypesStep, ClientTypesStep, RecvTypesStep, SendTypesStep DEF Types

-----------------------------------------------------------------------------
(* The address walk. *)
LEMMA WalkStep == Types /\ WalkInv /\ [Next]_vars => WalkInv'
<1> SUFFICES ASSUME Types, WalkInv, [Next]_vars PROVE WalkInv' OBVIOUS
<1>a. at \in Nat \ {0} /\ reach \in Seq(Ways) /\ use_tls_ \in BOOLEAN BY DEF Types, NetTypes, ClientTypes
<1> USE DEF WalkInv
<1>1. CASE Resolve
  <2>1. at' = 1 /\ pc' = "walk" BY <1>1 DEF Resolve
  <2>2. PICK n \in 0 .. MaxAddrs : reach' \in [1 .. n -> Ways] BY <1>1 DEF Resolve, Ways
  <2>3. \A a \in DOMAIN reach' : ~(a < 1) BY <2>2, TransportAssumption
  <2> QED BY <2>1, <2>3
<1>2. CASE Opened BY <1>2 DEF Opened
<1>3. CASE ConnectFails BY <1>3 DEF ConnectFails, netVars
<1>4. CASE PlainConnect /\ ~Opened
  <2>1. /\ pc = "walk" /\ pc' = pc /\ at' = at + 1 /\ reach' = reach /\ reach[at] # "accepts"
        /\ ~use_tls_ /\ at <= Len(reach)
    BY <1>4 DEF PlainConnect, PlainTakes, netVars
  <2>2. \A a \in DOMAIN reach : a < at + 1 => a < at \/ a = at BY <1>a
  <2> QED BY <2>1, <2>2
<1>5. CASE TlsConnect BY <1>5 DEF TlsConnect
<1>6. CASE Handshake /\ ~Opened BY <1>6 DEF Handshake
<1>7. CASE Backoff BY <1>7 DEF Backoff
<1>8. CASE PeerSends BY <1>8 DEF PeerSends
<1>9. CASE PeerEnds BY <1>9 DEF PeerEnds
<1>10. CASE recvByte BY <1>10 DEF recvByte
<1>11. CASE recvTimeout BY <1>11 DEF recvTimeout, Quiet
<1>12. CASE recvEnd BY <1>12 DEF recvEnd
<1>13. CASE Greet BY <1>13 DEF Greet
<1>14. CASE sendSubmit BY <1>14 DEF sendSubmit, netVars
<1>15. CASE \E s \in Senders : sendSome(s) BY <1>15 DEF sendSome
<1>16. CASE \E s \in Senders : sendFails(s) BY <1>16 DEF sendFails, netVars
<1>17. CASE UNCHANGED vars BY <1>17 DEF vars, netVars
<1> QED
  BY <1>1, <1>2, <1>3, <1>4, <1>5, <1>6, <1>7, <1>8, <1>9, <1>10, <1>11, <1>12, <1>13, <1>14, <1>15,
     <1>16, <1>17
  DEF Next

(* A plain connect() that fails has tried every address of the host: the    *)
(* loop over getaddrinfo's list leaves it only at its end.                  *)
THEOREM TransportReaches == Spec => []PlainReaches
<1>1. Init => Types /\ WalkInv
  <2>1. Init => WalkInv BY DEF Init, WalkInv
  <2> QED BY <2>1, TypesInit
<1>2. Types /\ WalkInv /\ [Next]_vars => (Types /\ WalkInv)' BY TypesStep, WalkStep
<1>3. Types /\ WalkInv => PlainReaches
  <2> SUFFICES ASSUME Types, WalkInv, ~use_tls_, pc = "failed"
               PROVE  \A a \in DOMAIN reach : reach[a] # "accepts"
    BY DEF PlainReaches, Reached
  <2>1. at > Len(reach) /\ \A a \in DOMAIN reach : a < at => reach[a] # "accepts" BY DEF WalkInv
  <2>2. reach \in Seq(Ways) /\ at \in Nat BY DEF Types, NetTypes, ClientTypes
  <2>3. \A a \in DOMAIN reach : a < at BY <2>1, <2>2
  <2> QED BY <2>1, <2>3
<1> QED BY <1>1, <1>2, <1>3, PTL DEF Spec

-----------------------------------------------------------------------------
(* The requests. *)
LEMMA GreetingFacts == Range(Greeting) = {1, 2, 100} /\ Len(Greeting) * MsgLen = 3 * MsgLen
<1>1. DOMAIN Greeting = {1, 2, 3} /\ Greeting[1] = 1 /\ Greeting[2] = 2 /\ Greeting[3] = 100
  BY DEF Greeting
<1>2. Range(Greeting) = {1, 2, 100} BY <1>1 DEF Range
<1>3. Len(Greeting) = 3 BY DEF Greeting
<1> QED BY <1>2, <1>3

LEMMA RequestInit == Init => RequestInv
<1> SUFFICES ASSUME Init PROVE RequestInv OBVIOUS
<1>1. \A s \in Senders : left[s] = <<>> BY DEF Init, Senders
<1>2. LastBytes BY <1>1, TransportAssumption DEF LastBytes
<1>3. NoShareYet BY <1>1 DEF Init, NoShareYet, Senders
<1> QED
  BY <1>2, <1>3 DEF Init, RequestInv, Owed, OnlyGreets, GreetingOut, NextByte, FirstConnectionFramed

(* What RequestInv is about. *)
reqVars == <<wire, left, todo, conns, ended, has_job, sock_, pc>>

LEMMA RequestSame == RequestInv /\ UNCHANGED reqVars => RequestInv'
<1> SUFFICES ASSUME RequestInv, UNCHANGED reqVars PROVE RequestInv' OBVIOUS
<1> USE DEF RequestInv, reqVars
<1>1. NoShareYet' BY DEF NoShareYet
<1>2. LastBytes' BY DEF LastBytes
<1>3. Owed' BY DEF Owed
<1>4. OnlyGreets' BY DEF OnlyGreets
<1>5. GreetingOut' BY DEF GreetingOut
<1>6. NextByte' BY DEF NextByte, Continues, Clean
<1>7. FirstConnectionFramed' BY DEF FirstConnectionFramed, Framed
<1> QED BY <1>1, <1>2, <1>3, <1>4, <1>5, <1>6, <1>7

(* While the socket is not up nothing is sent. *)
LEMMA RequestDown ==
  RequestInv /\ UNCHANGED <<wire, left, conns, has_job>> /\ sock_' # "up" /\ pc' \notin {"greet", "recv"}
    => RequestInv'
<1> SUFFICES ASSUME RequestInv, UNCHANGED <<wire, left, conns, has_job>>,
                    sock_' # "up", pc' \notin {"greet", "recv"}
             PROVE RequestInv'
  OBVIOUS
<1> USE DEF RequestInv
<1>1. NoShareYet' BY DEF NoShareYet
<1>2. LastBytes' BY DEF LastBytes
<1>3. Owed' /\ OnlyGreets' /\ GreetingOut' /\ NextByte' BY DEF Owed, OnlyGreets, GreetingOut, NextByte
<1>4. FirstConnectionFramed' BY DEF FirstConnectionFramed, Framed
<1> QED BY <1>1, <1>2, <1>3, <1>4

(* A line is returned, and may be a job. *)
LEMMA RequestJob ==
  Types /\ RequestInv /\ pc = "recv" /\ UNCHANGED <<wire, left, todo, conns, ended, sock_, pc>> => RequestInv'
<1> SUFFICES ASSUME Types, RequestInv, pc = "recv", UNCHANGED <<wire, left, todo, conns, ended, sock_, pc>>
             PROVE RequestInv'
  OBVIOUS
<1> USE DEF RequestInv
<1>1. NoShareYet' BY DEF NoShareYet, Types, ClientTypes
<1>2. LastBytes' BY DEF LastBytes
<1>3. Owed' /\ OnlyGreets' BY DEF Owed, OnlyGreets
<1>4. GreetingOut' BY DEF GreetingOut
<1>5. NextByte' BY DEF NextByte, Continues, Clean
<1>6. FirstConnectionFramed' BY DEF FirstConnectionFramed, Framed
<1> QED BY <1>1, <1>2, <1>3, <1>4, <1>5, <1>6

(* A new connection has nothing on the wire. *)
LEMMA RequestOpened == Types /\ RequestInv /\ pc \in {"walk", "handshake"} /\ Opened => RequestInv'
<1> SUFFICES ASSUME Types, RequestInv, pc \in {"walk", "handshake"}, Opened PROVE RequestInv' OBVIOUS
<1> USE DEF RequestInv
<1>1. left["runner"] = <<>> BY DEF Types, SendTypes
<1>2. conns' = conns + 1 /\ conns \in Nat BY DEF Opened, Types, ClientTypes
<1>3. conns' = 1 => ~has_job /\ left["main"] = <<>> BY <1>2 DEF NoShareYet
<1>4. wire' = <<>> /\ left' = left /\ has_job' = has_job /\ pc' = "greet" /\ todo' = <<1, 2, 100>>
  BY DEF Opened, Greeting
<1>5. NoShareYet' BY <1>2, <1>3, <1>4 DEF NoShareYet
<1>6. LastBytes' BY <1>4 DEF LastBytes
<1>7. Owed' BY <1>1, <1>4 DEF Owed
<1>8. OnlyGreets' BY <1>1, <1>4 DEF OnlyGreets
<1>9. GreetingOut' BY <1>4 DEF GreetingOut
<1>10. NextByte'
  <2> SUFFICES ASSUME conns' = 1 PROVE NextByte' BY DEF NextByte
  <2>1. \A s \in Senders : left'[s] = <<>> BY <1>1, <1>3, <1>4 DEF Senders
  <2>2. Clean' BY <1>4 DEF Clean
  <2> QED BY <2>1, <2>2 DEF NextByte
<1>11. FirstConnectionFramed' BY <1>4 DEF FirstConnectionFramed, Framed
<1> QED BY <1>5, <1>6, <1>7, <1>8, <1>9, <1>10, <1>11

(* The runner's next request, or its first receive. *)
LEMMA RequestGreet == Types /\ RequestInv /\ Greet => RequestInv'
<1> SUFFICES ASSUME Types, RequestInv, Greet PROVE RequestInv' OBVIOUS
<1> USE DEF RequestInv
<1>a. pc = "greet" /\ left["runner"] = <<>> /\ sock_ = "up" /\ conns # 0
  BY DEF Greet, Types, ClientTypes
<1>b. UNCHANGED <<wire, conns, ended, has_job, sock_>> BY DEF Greet, netVars
<1>c. wire \in Seq(Bytes) /\ Len(wire) \in Nat /\ MsgLen \in Nat /\ Len(<<>>) = 0
  BY LenProperties, TransportAssumption DEF Types, NetTypes
<1>1. CASE todo = <<>>
  <2>1. pc' = "recv" /\ UNCHANGED left BY <1>1 DEF Greet, sendVars
  <2>2. NoShareYet' BY <1>a, <1>b, <2>1 DEF NoShareYet
  <2>3. LastBytes' BY <2>1 DEF LastBytes
  <2>4. Owed' /\ OnlyGreets' BY <2>1 DEF Owed, OnlyGreets
  <2>5. GreetingOut'
    <3> SUFFICES ASSUME conns = 1, ended = "no" PROVE Len(wire) >= 3 * MsgLen BY <1>b DEF GreetingOut
    <3>1. todo # <<1, 2, 100>> /\ todo # <<2, 100>> /\ todo # <<100>> BY <1>1
    <3>2. Len(wire) + Len(left["runner"]) = 3 * MsgLen BY <1>a, <3>1 DEF Owed
    <3> QED BY <1>a, <1>c, <3>2
  <2>6. NextByte' BY <1>b, <2>1 DEF NextByte, Continues, Clean
  <2>7. FirstConnectionFramed' BY <1>b DEF FirstConnectionFramed, Framed
  <2> QED BY <2>2, <2>3, <2>4, <2>5, <2>6, <2>7
<1>2. CASE todo # <<>>
  <2> DEFINE m == Head(todo)
  <2>1. m \in Nat BY <1>2, HeadTailProperties DEF Types, SendTypes
  <2>2. /\ Message(m) \in Seq(Bytes) /\ Len(Message(m)) = MsgLen /\ Message(m) # <<>>
        /\ \A i \in 1 .. MsgLen : Message(m)[i] = <<m, i>>
    BY <2>1, MessageBytes
  <2>3. DOMAIN Message(m) = 1 .. MsgLen /\ Message(m)[1] = <<m, 1>> BY <2>2, TransportAssumption DEF Message
  <2>4. pc' = pc /\ todo' = Tail(todo) /\ left' = [left EXCEPT !["runner"] = Message(m)] BY <1>2 DEF Greet
  <2>5. left'["runner"] = Message(m) /\ left'["main"] = left["main"] BY <2>4 DEF Types, SendTypes, Senders
  <2> HIDE DEF m
  <2>6. NoShareYet' BY <1>a, <1>b, <2>4, <2>5 DEF NoShareYet
  <2>7. LastBytes'
    <3>1. \A i \in 1 .. MsgLen : Message(m)[i] = <<Message(m)[1][1], (MsgLen - Len(Message(m))) + i>>
      BY <2>2, <2>3, TransportAssumption
    <3>2. \A s \in Senders : s = "runner" \/ left'[s] = left[s] BY <2>5 DEF Senders
    <3>3. \A i \in DOMAIN Message(m) : Message(m)[i] = <<Message(m)[1][1], (MsgLen - Len(Message(m))) + i>>
      BY <2>3, <3>1
    <3>4. Len(Message(m)) <= MsgLen BY <1>c, <2>2
    <3> QED BY <2>5, <3>2, <3>3, <3>4 DEF LastBytes
  <2>8. ASSUME conns = 1
        PROVE  \/ todo = <<1, 2, 100>> /\ todo' = <<2, 100>> /\ m = 1
               \/ todo = <<2, 100>> /\ todo' = <<100>> /\ m = 2
               \/ todo = <<100>> /\ todo' = <<>> /\ m = 100
    <3>1. todo = <<1, 2, 100>> \/ todo = <<2, 100>> \/ todo = <<100>> BY <1>a, <1>2, <2>8 DEF OnlyGreets
    <3>2. CASE todo = <<1, 2, 100>> BY <2>4, <3>2 DEF m
    <3>3. CASE todo = <<2, 100>> BY <2>4, <3>3 DEF m
    <3>4. CASE todo = <<100>> BY <2>4, <3>4 DEF m
    <3> QED BY <3>1, <3>2, <3>3, <3>4
  <2>9. Owed'
    <3> SUFFICES ASSUME conns = 1, ended = "no" PROVE Owed' BY <1>b DEF Owed
    <3>1. Len(wire') + Len(left'["runner"]) = Len(wire) + MsgLen BY <1>b, <2>2, <2>5
    <3>2. Len(wire) + Len(left["runner"]) = Len(wire) BY <1>a, <1>c
    <3>3. CASE todo = <<1, 2, 100>>
      <4>1. Len(wire) = 0 BY <1>a, <3>2, <3>3 DEF Owed
      <4> QED BY <1>c, <2>8, <3>1, <3>3, <4>1 DEF Owed
    <3>4. CASE todo = <<2, 100>>
      <4>1. Len(wire) = MsgLen BY <1>a, <3>2, <3>4 DEF Owed
      <4> QED BY <1>c, <2>8, <3>1, <3>4, <4>1 DEF Owed
    <3>5. CASE todo = <<100>>
      <4>1. Len(wire) = 2 * MsgLen BY <1>a, <3>2, <3>5 DEF Owed
      <4> QED BY <1>c, <2>8, <3>1, <3>5, <4>1 DEF Owed
    <3> QED BY <2>8, <3>3, <3>4, <3>5
  <2>10. OnlyGreets'
    <3> SUFFICES ASSUME conns = 1 PROVE OnlyGreets' BY <1>b DEF OnlyGreets
    <3>1. m \in {1, 2, 100} BY <2>8
    <3>2. \A i \in DOMAIN Message(m) : Message(m)[i][1] = m BY <2>2, <2>3
    <3>3. todo' \in {<<1, 2, 100>>, <<2, 100>>, <<100>>, <<>>} BY <2>8
    <3> QED BY <2>5, <3>1, <3>2, <3>3 DEF OnlyGreets
  <2>11. GreetingOut' BY <1>a, <2>4 DEF GreetingOut
  <2>12. NextByte'
    <3> SUFFICES ASSUME conns = 1, ended = "no" PROVE NextByte' BY <1>b DEF NextByte
    <3>1. left["main"] = <<>> BY <1>a DEF NoShareYet
    <3>2. Clean BY <1>a, <3>1 DEF NextByte, Senders
    <3>3. Clean' BY <1>b, <3>2 DEF Clean
    <3>4. left'["runner"][1][2] = 1 BY <2>3, <2>5
    <3>5. \A s \in Senders : left'[s] # <<>> => s = "runner" BY <2>5, <3>1 DEF Senders
    <3> QED BY <3>3, <3>4, <3>5 DEF NextByte, Continues
  <2>13. FirstConnectionFramed' BY <1>b DEF FirstConnectionFramed, Framed
  <2> QED BY <2>6, <2>7, <2>9, <2>10, <2>11, <2>12, <2>13
<1> QED BY <1>1, <1>2

(* A share is begun. *)
LEMMA RequestSubmit == Types /\ RequestInv /\ sendSubmit => RequestInv'
<1> SUFFICES ASSUME Types, RequestInv, sendSubmit PROVE RequestInv' OBVIOUS
<1> USE DEF RequestInv
<1> DEFINE m == Share(shares)
<1>a. left["main"] = <<>> /\ has_job /\ has_job' = has_job /\ UNCHANGED <<wire, todo, conns, ended, sock_, pc>>
  BY DEF sendSubmit, netVars
<1>b. conns # 0 /\ ~(conns = 1 /\ pc = "greet") BY <1>a DEF NoShareYet
<1>1. m \in Nat BY DEF Share, Types, ClientTypes
<1>2. /\ Len(Message(m)) = MsgLen
      /\ \A i \in 1 .. MsgLen : Message(m)[i] = <<m, i>>
  BY <1>1, MessageBytes
<1>3. DOMAIN Message(m) = 1 .. MsgLen /\ Message(m)[1] = <<m, 1>> BY <1>2, TransportAssumption DEF Message
<1>4. left'["main"] = Message(m) /\ left'["runner"] = left["runner"]
  BY DEF sendSubmit, Types, SendTypes, Senders
<1> HIDE DEF m
<1>5. NoShareYet' BY <1>a, <1>b DEF NoShareYet
<1>6. LastBytes'
  <2>1. \A i \in DOMAIN Message(m) : Message(m)[i] = <<Message(m)[1][1], (MsgLen - Len(Message(m))) + i>>
    BY <1>2, <1>3, TransportAssumption
  <2>2. \A s \in Senders : s = "main" \/ left'[s] = left[s] BY <1>4 DEF Senders
  <2>3. Len(Message(m)) <= MsgLen BY <1>2, TransportAssumption
  <2> QED BY <1>4, <2>1, <2>2, <2>3 DEF LastBytes
<1>7. Owed' /\ OnlyGreets' BY <1>a, <1>b DEF Owed, OnlyGreets
<1>8. GreetingOut' BY <1>a DEF GreetingOut
<1>9. NextByte'
  <2> SUFFICES ASSUME conns = 1, sock_ = "up", ended = "no" PROVE NextByte' BY <1>a DEF NextByte
  <2>1. left["runner"] = <<>> BY <1>b DEF Types, SendTypes
  <2>2. Clean BY <1>a, <2>1 DEF NextByte, Senders
  <2>3. Clean' BY <1>a, <2>2 DEF Clean
  <2>4. left'["main"][1][2] = 1 BY <1>3, <1>4
  <2>5. \A s \in Senders : left'[s] # <<>> => s = "main" BY <1>4, <2>1 DEF Senders
  <2> QED BY <2>3, <2>4, <2>5 DEF NextByte, Continues
<1>10. FirstConnectionFramed' BY <1>a DEF FirstConnectionFramed, Framed
<1> QED BY <1>5, <1>6, <1>7, <1>8, <1>9, <1>10

(* Some of a request goes out. *)
LEMMA RequestSome ==
  ASSUME Types, RequestInv, NEW s \in Senders, sendSome(s)
  PROVE  RequestInv'
<1> USE DEF RequestInv
<1> DEFINE l == left[s]
           off == MsgLen - Len(l)
<1>1. PICK n \in 1 .. Len(l) : wire' = wire \o SubSeq(l, 1, n) /\ left' = [left EXCEPT ![s] = SubSeq(l, n + 1, Len(l))]
  BY DEF sendSome
<1>a. sock_ = "up" /\ ended = "no" /\ l # <<>> /\ UNCHANGED <<ended, todo, pc, conns, sock_, has_job>>
  BY DEF sendSome
<1>b. wire \in Seq(Bytes) /\ l \in Seq(Bytes) BY DEF Types, NetTypes, SendTypes
<1>c. Len(wire) \in Nat /\ Len(l) \in Nat /\ MsgLen \in Nat \ {0} /\ Len(l) <= MsgLen /\ n \in Nat \ {0} /\ n <= Len(l)
  BY <1>b, LenProperties, TransportAssumption DEF LastBytes
<1>2. /\ wire' \in Seq(Bytes) /\ Len(wire') = Len(wire) + n
      /\ \A i \in 1 .. Len(wire) : wire'[i] = wire[i]
      /\ \A i \in 1 .. n : wire'[Len(wire) + i] = l[i]
  BY <1>1, <1>b, SendShape
<1>3. /\ left'[s] \in Seq(Bytes) /\ Len(left'[s]) = Len(l) - n
      /\ \A i \in 1 .. (Len(l) - n) : left'[s][i] = l[n + i]
  BY <1>1, <1>b, SendShape DEF Types, SendTypes
<1>4. \A o \in Senders : o # s => left'[o] = left[o] BY <1>1 DEF Types, SendTypes
<1>5. \A i \in 1 .. Len(l) : l[i] = <<l[1][1], off + i>>
  BY <1>b, LenProperties DEF LastBytes
<1>d. DOMAIN left'[s] = 1 .. Len(left'[s]) BY <1>3, LenProperties
<1>e. off \in Nat /\ off = MsgLen - Len(l) BY <1>c
<1> HIDE DEF l, off
<1>6. NoShareYet'
  <2>1. left["main"] = <<>> => left'["main"] = left["main"] BY <1>4, <1>a DEF Senders, l
  <2> QED BY <1>a, <2>1 DEF NoShareYet
<1>7. LastBytes'
  <2>1. Len(left'[s]) <= MsgLen BY <1>3, <1>c
  <2>2. ASSUME NEW i \in DOMAIN left'[s]
        PROVE  left'[s][i] = <<left'[s][1][1], (MsgLen - Len(left'[s])) + i>>
    <3>1. i \in 1 .. (Len(l) - n) /\ 1 \in 1 .. (Len(l) - n) BY <1>d, <1>3, <1>c
    <3>2. left'[s][i] = l[n + i] /\ left'[s][1] = l[n + 1] BY <1>3, <3>1
    <3>3. n + i \in 1 .. Len(l) /\ n + 1 \in 1 .. Len(l) BY <3>1, <1>c
    <3>4. l[n + i] = <<l[1][1], off + (n + i)>> /\ l[n + 1] = <<l[1][1], off + (n + 1)>> BY <1>5, <3>3
    <3>5. l[n + 1][1] = l[1][1] BY <3>4
    <3>6. off + (n + i) = (MsgLen - Len(left'[s])) + i BY <1>e, <1>3, <1>c, <3>1
    <3> QED BY <3>2, <3>4, <3>5, <3>6
  <2> QED BY <1>4, <2>1, <2>2 DEF LastBytes
<1>8. ASSUME conns = 1
      PROVE  \A o \in Senders : o # s => left[o] = <<>>
  <2>1. CASE s = "runner" BY <1>8, <1>a, <2>1 DEF Types, SendTypes, NoShareYet, Senders, l
  <2>2. CASE s = "main" BY <1>8, <1>a, <2>2 DEF Types, SendTypes, NoShareYet, Senders, l
  <2> QED BY <2>1, <2>2 DEF Senders
<1>9. Owed'
  <2> SUFFICES ASSUME conns = 1, pc = "greet" PROVE Owed' BY <1>a DEF Owed
  <2>1. s = "runner" BY <1>a DEF NoShareYet, Senders, l
  <2>2. Len(left'["runner"]) = Len(l) - n /\ Len(left["runner"]) = Len(l) BY <1>3, <2>1, Zenon DEF l
  <2>3. (Len(wire) + n) + (Len(l) - n) = Len(wire) + Len(l) BY <1>c
  <2>4. Len(wire') + Len(left'["runner"]) = Len(wire) + Len(left["runner"]) BY <1>2, <2>2, <2>3, Zenon
  <2> QED BY <1>a, <2>4 DEF Owed
<1>10. OnlyGreets'
  <2> SUFFICES ASSUME conns = 1, pc = "greet" PROVE OnlyGreets' BY <1>a DEF OnlyGreets
  <2>1. s = "runner" BY <1>a DEF NoShareYet, Senders, l
  <2>2. \A i \in DOMAIN left'[s] : n + i \in DOMAIN l /\ left'[s][i] = l[n + i]
    BY <1>b, <1>c, <1>d, <1>3
  <2>3. \A i \in DOMAIN left'["runner"] : left'["runner"][i][1] \in {1, 2, 100}
    BY <2>1, <2>2 DEF OnlyGreets, l
  <2> QED BY <1>a, <2>3 DEF OnlyGreets
<1>11. GreetingOut'
  <2>1. Len(wire') >= Len(wire) BY <1>2, <1>c
  <2>2. Len(wire') \in Nat /\ 3 * MsgLen \in Nat BY <1>2, <1>c
  <2> QED BY <1>a, <1>c, <2>1, <2>2 DEF GreetingOut
<1>12. NextByte'
  <2> SUFFICES ASSUME conns = 1 PROVE NextByte' BY <1>a DEF NextByte
  <2>1. \A o \in Senders : o # s => left'[o] = <<>> BY <1>4, <1>8
  <2>2. n \in 1 .. n /\ n \in 1 .. Len(l) /\ Len(wire') = Len(wire) + n /\ wire' # <<>> BY <1>2, <1>c, EmptySeq
  <2>3. wire'[Len(wire')] = <<l[1][1], off + n>> BY <1>2, <1>5, <2>2
  <2>4. CASE n = Len(l)
    <3>1. off + n = MsgLen BY <1>c, <1>e, <2>4
    <3>2. Clean' BY <2>3, <3>1 DEF Clean
    <3>3. left'[s] = <<>> BY <1>3, <1>c, <2>4, EmptySeq
    <3> QED BY <2>1, <3>2, <3>3 DEF NextByte
  <2>5. CASE n # Len(l)
    <3>1. 1 \in 1 .. (Len(l) - n) /\ n + 1 \in 1 .. Len(l) BY <1>c, <2>5
    <3>2. left'[s][1] = <<l[1][1], off + (n + 1)>> BY <1>3, <1>5, <3>1
    <3>3. off + (n + 1) # 1 /\ (off + (n + 1)) - 1 = off + n BY <1>c, <1>e
    <3>4. Continues(left[s][1])' BY <2>2, <2>3, <3>2, <3>3 DEF Continues
    <3>5. left'[s] # <<>> BY <1>3, <1>d, <3>1
    <3> QED BY <2>1, <3>4, <3>5 DEF NextByte
  <2> QED BY <2>4, <2>5
<1>13. FirstConnectionFramed'
  <2> SUFFICES ASSUME conns = 1 PROVE FirstConnectionFramed' BY <1>a DEF FirstConnectionFramed
  <2>0. DOMAIN wire' = 1 .. Len(wire') /\ DOMAIN wire = 1 .. Len(wire) BY <1>2, <1>b, LenProperties
  <2>1. Framed /\ \A i \in DOMAIN wire : wire[i][1] \notin {1, 2, 100} => i > 3 * MsgLen
    BY GreetingFacts DEF FirstConnectionFramed
  <2>2. ASSUME NEW i \in 1 .. Len(wire'), ~(i \in 1 .. Len(wire))
        PROVE  i - Len(wire) \in 1 .. n /\ i = Len(wire) + (i - Len(wire)) /\ i - Len(wire) \in 1 .. Len(l)
    BY <1>2, <1>c, <2>2
  <2>3. Framed'
    <3> SUFFICES ASSUME NEW i \in 1 .. Len(wire')
                 PROVE  IF wire'[i][2] = 1 THEN i = 1 \/ wire'[i - 1][2] = MsgLen
                        ELSE i > 1 /\ wire'[i - 1] = <<wire'[i][1], wire'[i][2] - 1>>
      BY <2>0 DEF Framed
    <3>1. CASE i \in 1 .. Len(wire)
      <4>1. wire'[i] = wire[i] BY <1>2, <3>1
      <4>2. i > 1 => wire'[i - 1] = wire[i - 1] BY <1>2, <1>c, <3>1
      <4>3. i # 1 => i > 1 BY <3>1
      <4> QED BY <2>0, <2>1, <3>1, <4>1, <4>2, <4>3 DEF Framed
    <3>2. CASE ~(i \in 1 .. Len(wire))
      <4> DEFINE k == i - Len(wire)
      <4>1. k \in 1 .. n /\ k \in 1 .. Len(l) /\ i = Len(wire) + k BY <2>2, <3>2
      <4> HIDE DEF k
      <4>2. wire'[i] = l[k] BY <1>2, <4>1
      <4>3. CASE k = 1
        <5>1. Continues(l[1]) BY <1>a DEF NextByte, l
        <5>2. wire = <<>> => i = 1 BY <4>1, <4>3
        <5>3. wire # <<>> => i > 1 /\ i - 1 = Len(wire) /\ Len(wire) \in 1 .. Len(wire)
          BY <1>b, <1>c, <4>1, <4>3, EmptySeq
        <5>4. wire # <<>> => wire'[i - 1] = wire[Len(wire)] BY <1>2, <5>3
        <5>5. CASE l[1][2] = 1 BY <4>2, <4>3, <5>1, <5>2, <5>4, <5>5 DEF Continues, Clean
        <5>6. CASE l[1][2] # 1 BY <4>2, <4>3, <5>1, <5>3, <5>4, <5>6 DEF Continues
        <5> QED BY <5>5, <5>6
      <4>4. CASE k # 1
        <5>1. k - 1 \in 1 .. n /\ k - 1 \in 1 .. Len(l) /\ i - 1 = Len(wire) + (k - 1) /\ i > 1
          BY <1>c, <4>1, <4>4
        <5>2. wire'[i - 1] = l[k - 1] BY <1>2, <5>1
        <5>3. l[k] = <<l[1][1], off + k>> /\ l[k - 1] = <<l[1][1], off + (k - 1)>> BY <1>5, <4>1, <5>1
        <5>4. off + k # 1 /\ off + (k - 1) = (off + k) - 1 BY <1>c, <1>e, <4>1, <5>1
        <5> QED BY <4>2, <5>1, <5>2, <5>3, <5>4
      <4> QED BY <4>3, <4>4
    <3> QED BY <3>1, <3>2
  <2>4. ASSUME NEW i \in 1 .. Len(wire'), wire'[i][1] \notin {1, 2, 100} PROVE i > 3 * MsgLen
    <3>1. CASE i \in 1 .. Len(wire) BY <1>2, <2>0, <2>1, <2>4, <3>1
    <3>2. CASE ~(i \in 1 .. Len(wire))
      <4> DEFINE k == i - Len(wire)
      <4>1. k \in 1 .. n /\ k \in 1 .. Len(l) /\ i = Len(wire) + k BY <2>2, <3>2
      <4> HIDE DEF k
      <4>2. l[k][1] \notin {1, 2, 100} BY <1>2, <2>4, <4>1
      <4>3. pc # "greet"
        <5> SUFFICES ASSUME pc = "greet" PROVE FALSE OBVIOUS
        <5>1. s = "runner" BY <1>a DEF NoShareYet, Senders, l
        <5>2. k \in DOMAIN l BY <1>b, <4>1, LenProperties
        <5> QED BY <4>2, <5>1, <5>2 DEF OnlyGreets, l
      <4>4. Len(wire) >= 3 * MsgLen BY <1>a, <4>3 DEF GreetingOut, Types, ClientTypes
      <4> QED BY <1>c, <4>1, <4>4
    <3> QED BY <3>1, <3>2
  <2> QED BY <2>0, <2>3, <2>4, GreetingFacts DEF FirstConnectionFramed
<1> QED BY <1>6, <1>7, <1>9, <1>10, <1>11, <1>12, <1>13

(* A request is given up. *)
LEMMA RequestFails ==
  ASSUME Types, RequestInv, NEW s \in Senders, sendFails(s)
  PROVE  RequestInv'
<1> USE DEF RequestInv
<1>a. (sock_ # "up" \/ ended # "no") /\ UNCHANGED <<wire, ended, todo, pc, conns, sock_, has_job>>
  BY DEF sendFails, netVars
<1>1. left'[s] = <<>> /\ \A o \in Senders : o # s => left'[o] = left[o]
  BY DEF sendFails, Types, SendTypes
<1>2. NoShareYet' BY <1>a, <1>1 DEF NoShareYet, Senders
<1>3. LastBytes'
  <2>1. Len(<<>>) <= MsgLen /\ DOMAIN <<>> = {} BY TransportAssumption
  <2>2. Len(left'[s]) <= MsgLen /\ DOMAIN left'[s] = {} BY <1>1, <2>1, Zenon
  <2> QED BY <1>1, <2>2 DEF LastBytes
<1>4. Owed' /\ GreetingOut' /\ NextByte' BY <1>a DEF Owed, GreetingOut, NextByte, Types, ClientTypes
<1>5. OnlyGreets'
  <2>1. left'["runner"] = <<>> \/ left'["runner"] = left["runner"] BY <1>1 DEF Senders
  <2> QED BY <1>a, <2>1 DEF OnlyGreets
<1>6. FirstConnectionFramed' BY <1>a DEF FirstConnectionFramed, Framed
<1> QED BY <1>2, <1>3, <1>4, <1>5, <1>6

(* After the peer has ended the connection nothing is sent on it. *)
LEMMA RequestEnds == RequestInv /\ PeerEnds => RequestInv'
<1> SUFFICES ASSUME RequestInv, PeerEnds PROVE RequestInv' OBVIOUS
<1> USE DEF RequestInv
<1>a. ended' # "no" /\ UNCHANGED <<wire, left, todo, conns, has_job, sock_, pc>> BY DEF PeerEnds, sendVars
<1>1. NoShareYet' BY <1>a DEF NoShareYet
<1>2. LastBytes' BY <1>a DEF LastBytes
<1>3. Owed' /\ GreetingOut' /\ NextByte' BY <1>a DEF Owed, GreetingOut, NextByte
<1>4. OnlyGreets' BY <1>a DEF OnlyGreets
<1>5. FirstConnectionFramed' BY <1>a DEF FirstConnectionFramed, Framed
<1> QED BY <1>1, <1>2, <1>3, <1>4, <1>5

LEMMA RequestStep == Types /\ RequestInv /\ [Next]_vars => RequestInv'
<1> SUFFICES ASSUME Types, RequestInv, [Next]_vars PROVE RequestInv' OBVIOUS
<1>a. sock_ = "up" <=> pc \in {"greet", "recv"} BY DEF Types, ClientTypes
<1>1. CASE Resolve BY <1>1, RequestDown DEF Resolve, sendVars
<1>2. CASE ConnectFails BY <1>2, <1>a, RequestDown DEF ConnectFails, netVars, sendVars
<1>3. CASE PlainConnect
  <2>1. CASE Opened BY <1>3, <2>1, RequestOpened DEF PlainConnect
  <2>2. CASE ~Opened BY <1>3, <1>a, <2>2, RequestDown DEF PlainConnect, netVars, sendVars
  <2> QED BY <2>1, <2>2
<1>4. CASE TlsConnect BY <1>4, <1>a, RequestDown DEF TlsConnect, netVars, sendVars
<1>5. CASE Handshake
  <2>1. CASE Opened BY <1>5, <2>1, RequestOpened DEF Handshake
  <2>2. CASE ~Opened BY <1>5, <1>a, <2>2, RequestDown DEF Handshake, netVars, sendVars
  <2> QED BY <2>1, <2>2
<1>6. CASE Backoff BY <1>6, <1>a, RequestDown DEF Backoff, netVars, sendVars
<1>7. CASE PeerSends BY <1>7, RequestSame DEF PeerSends, sendVars, reqVars
<1>8. CASE PeerEnds BY <1>8, RequestEnds
<1>9. CASE recvByte BY <1>9, RequestJob DEF recvByte, netVars, sendVars
<1>10. CASE recvTimeout BY <1>10, RequestSame DEF recvTimeout, netVars, sendVars, reqVars
<1>11. CASE recvEnd
  <2>1. CASE line # <<>> BY <1>11, <2>1, RequestJob DEF recvEnd, netVars, sendVars
  <2>2. CASE line = <<>> BY <1>11, <2>2, RequestDown DEF recvEnd, netVars, sendVars
  <2> QED BY <2>1, <2>2
<1>12. CASE Greet BY <1>12, RequestGreet
<1>13. CASE sendSubmit BY <1>13, RequestSubmit
<1>14. CASE \E s \in Senders : sendSome(s) BY <1>14, RequestSome
<1>15. CASE \E s \in Senders : sendFails(s) BY <1>15, RequestFails
<1>16. CASE UNCHANGED vars BY <1>16, RequestSame DEF vars, netVars, sendVars, reqVars
<1> QED
  BY <1>1, <1>2, <1>3, <1>4, <1>5, <1>6, <1>7, <1>8, <1>9, <1>10, <1>11, <1>12, <1>13, <1>14, <1>15, <1>16
  DEF Next

(* On the first connection the requests of the two threads never mix,       *)
(* whatever the sizes of the partial sends: sendSubscribe, sendAuthorize    *)
(* and the configure are out before a job lets submitShare send.            *)
THEOREM TransportFramed == Spec => []FirstConnectionFramed
<1>1. Init => Types /\ RequestInv BY TypesInit, RequestInit
<1>2. Types /\ RequestInv /\ [Next]_vars => (Types /\ RequestInv)' BY TypesStep, RequestStep
<1>3. Types /\ RequestInv => FirstConnectionFramed BY DEF RequestInv
<1> QED BY <1>1, <1>2, <1>3, PTL DEF Spec

-----------------------------------------------------------------------------
(* The lines. *)
LEMMA CurFacts == Types => Cur \in Nat \ {0} /\ Off \in 0 .. LineLen
<1> SUFFICES ASSUME Types PROVE Cur \in Nat \ {0} /\ Off \in 0 .. LineLen OBVIOUS
<1>1. taken + 1 \in Nat \ {0} BY DEF Types, NetTypes
<1> QED BY <1>1, Places, TransportAssumption DEF Cur, Off

LEMMA LineInit == Init => LineInv
<1> SUFFICES ASSUME Init PROVE LineInv OBVIOUS
<1>1. taken + 1 = 1 /\ line = <<>> /\ got = <<>> /\ taken = 0 BY DEF Init
<1>2. Off = 0 BY <1>1, FirstPlace DEF Off
<1>3. LineShape BY <1>1, <1>2 DEF LineShape
<1>4. GotShape /\ GotBefore /\ GotOrder BY <1>1 DEF GotShape, GotBefore, GotOrder
<1>5. NoneLost BY <1>1 DEF NoneLost
<1> QED BY <1>3, <1>4, <1>5 DEF LineInv

(* What LineInv is about. *)
lineVars == <<taken, line, got, cut, ended, arrived>>

LEMMA LineSame == LineInv /\ UNCHANGED lineVars => LineInv'
<1> SUFFICES ASSUME LineInv, UNCHANGED lineVars PROVE LineInv' OBVIOUS
<1> USE DEF LineInv, lineVars
<1>1. Cur' = Cur /\ Off' = Off BY DEF Cur, Off
<1>2. Spent' = Spent BY DEF Spent
<1>3. LineShape' BY <1>1, <1>2 DEF LineShape
<1>4. GotShape' BY <1>2 DEF GotShape
<1>5. GotBefore' BY <1>1, <1>2 DEF GotBefore
<1>6. GotOrder' BY DEF GotOrder
<1>7. NoneLost' BY DEF NoneLost
<1> QED BY <1>3, <1>4, <1>5, <1>6, <1>7

(* The peer sends or ends the stream. *)
LEMMA LinePeer == LineInv /\ ended = "no" /\ UNCHANGED <<taken, line, got, cut>> => LineInv'
<1> SUFFICES ASSUME LineInv, ended = "no", UNCHANGED <<taken, line, got, cut>> PROVE LineInv' OBVIOUS
<1> USE DEF LineInv
<1>1. Cur' = Cur /\ Off' = Off BY DEF Cur, Off
<1>2. ~Spent BY DEF Spent
<1>3. LineShape' BY <1>1, <1>2 DEF LineShape
<1>4. GotShape' BY <1>2 DEF GotShape
<1>5. GotBefore' BY <1>1, <1>2 DEF GotBefore
<1>6. GotOrder' BY DEF GotOrder
<1>7. NoneLost' BY DEF NoneLost
<1> QED BY <1>3, <1>4, <1>5, <1>6, <1>7

(* A new connection has nothing of the old one's lines. *)
LEMMA LineOpened == Opened => LineInv'
<1> SUFFICES ASSUME Opened PROVE LineInv' OBVIOUS
<1>1. taken' + 1 = 1 /\ line' = <<>> /\ got' = <<>> /\ taken' = 0 BY DEF Opened
<1>2. Off' = 0 BY <1>1, FirstPlace DEF Off
<1>3. LineShape' BY <1>1, <1>2 DEF LineShape
<1>4. GotShape' /\ GotBefore' /\ GotOrder' BY <1>1 DEF GotShape, GotBefore, GotOrder
<1>5. NoneLost' BY <1>1 DEF NoneLost
<1> QED BY <1>3, <1>4, <1>5 DEF LineInv

(* A byte that is not the newline. *)
LEMMA LineGrows == Types /\ LineInv /\ recvByte /\ ~Newline(taken') => LineInv'
<1> SUFFICES ASSUME Types, LineInv, recvByte, ~Newline(taken') PROVE LineInv' OBVIOUS
<1> USE DEF LineInv
<1>a. taken \in Nat /\ taken' = taken + 1 /\ taken < arrived /\ line \in Seq(Bytes)
  BY DEF recvByte, Types, NetTypes, RecvTypes
<1>b. /\ line' = Append(line, <<LineOf(taken + 1), PlaceOf(taken + 1)>>)
      /\ UNCHANGED <<got, cut, ended, arrived>>
  BY <1>a DEF recvByte, netVars
<1>c. Cur \in Nat \ {0} /\ Off \in 0 .. LineLen /\ PlaceOf(taken + 1) = Off + 1
  BY <1>a, CurFacts, Places DEF Off
<1>d. ~Spent BY <1>a DEF Spent, Types, NetTypes
<1>1. PlaceOf(taken + 1) <= LineLen BY <1>a, <1>c, TransportAssumption DEF Newline
<1>2. Cur' = Cur /\ Off' = Off + 1
  <2>1. LineOf((taken + 1) + 1) = LineOf(taken + 1) /\ PlaceOf((taken + 1) + 1) = PlaceOf(taken + 1) + 1
    BY <1>1, <1>a, NextPlace
  <2> QED BY <1>a, <1>c, <2>1 DEF Cur, Off
<1>3. LineShape'
  <2> DEFINE b == <<Cur, Off + 1>>
  <2>1. line' = Append(line, b) /\ b \in Bytes BY <1>b, <1>c DEF Cur, Bytes
  <2> HIDE DEF b
  <2>2. /\ line' \in Seq(Bytes) /\ Len(line') = Len(line) + 1 /\ DOMAIN line' = 1 .. Len(line')
        /\ \A i \in 1 .. Len(line) : line'[i] = line[i]
        /\ line'[Len(line) + 1] = b
    BY <2>1, <1>a, AppendProperties, LenProperties
  <2>3. Len(line) \in Nat /\ DOMAIN line = 1 .. Len(line) /\ Len(line) <= Off BY <1>a, LenProperties DEF LineShape
  <2>4. Len(line') <= Off' BY <1>2, <1>c, <2>2, <2>3
  <2>5. Off' - Len(line') = Off - Len(line) BY <1>2, <1>c, <2>2, <2>3
  <2>6. ASSUME NEW i \in 1 .. Len(line') PROVE line'[i] = <<Cur', (Off' - Len(line')) + i>>
    <3>1. CASE i \in 1 .. Len(line) BY <1>2, <2>2, <2>3, <2>5, <3>1 DEF LineShape
    <3>2. CASE i = Len(line) + 1
      <4>1. (Off - Len(line)) + i = Off + 1 BY <1>c, <2>3, <3>2
      <4> QED BY <1>2, <2>2, <2>5, <3>2, <4>1 DEF b
    <3> QED BY <2>2, <2>3, <3>1, <3>2
  <2>7. Len(line') < Off' => Cur' \in cut'
    <3>1. Len(line') < Off' => Len(line) < Off BY <1>2, <1>c, <2>2, <2>3
    <3> QED BY <1>2, <1>b, <1>d, <3>1 DEF LineShape
  <2> QED BY <2>2, <2>4, <2>6, <2>7 DEF LineShape
<1>4. GotShape' BY <1>b, <1>d DEF GotShape
<1>5. GotBefore' BY <1>b, <1>d, <1>2 DEF GotBefore
<1>6. GotOrder' BY <1>b DEF GotOrder
<1>7. NoneLost'
  <2>1. \A p \in 1 .. taken' : p \in 1 .. taken \/ p = taken' BY <1>a
  <2> QED BY <1>b, <2>1 DEF NoneLost, Newline
<1> QED BY <1>3, <1>4, <1>5, <1>6, <1>7

(* A timeout inside a line. *)
LEMMA LineTimeout == Types /\ LineInv /\ recvTimeout => LineInv'
<1> SUFFICES ASSUME Types, LineInv, recvTimeout PROVE LineInv' OBVIOUS
<1> USE DEF LineInv
<1>a. /\ taken \in Nat /\ line \in Seq(Bytes) /\ ended = "no" /\ line' = <<>>
      /\ UNCHANGED <<taken, got, ended, arrived>>
      /\ cut' = IF line = <<>> THEN cut ELSE cut \union {LineOf(taken)}
  BY DEF recvTimeout, Quiet, netVars, Types, NetTypes, RecvTypes
<1>b. cut \subseteq cut' BY <1>a
<1>c. Cur' = Cur /\ Off' = Off BY <1>a DEF Cur, Off
<1>d. Cur \in Nat \ {0} /\ Off \in 0 .. LineLen BY CurFacts
<1>e. ~Spent BY <1>a DEF Spent
<1>1. line # <<>> => LineOf(taken) = Cur
  <2> SUFFICES ASSUME line # <<>> PROVE LineOf(taken) = Cur OBVIOUS
  <2>1. Off > 0 BY <1>a, <1>d, EmptySeq DEF LineShape
  <2>2. taken # 0 BY <2>1, FirstPlace DEF Off
  <2>3. taken \in Nat \ {0} /\ PlaceOf(taken) \in 1 .. (LineLen + 1) BY <1>a, <2>2, Places
  <2>4. CASE PlaceOf(taken) <= LineLen BY <2>3, <2>4, NextPlace DEF Cur
  <2>5. CASE PlaceOf(taken) > LineLen BY <2>1, <2>3, <2>5, NextPlace DEF Off
  <2> QED BY <2>3, <2>4, <2>5, TransportAssumption
<1>2. LineShape'
  <2>1. Off > 0 => Cur \in cut'
    <3>1. CASE line = <<>>
      <4>1. Len(line) = 0 BY <3>1
      <4> QED BY <1>a, <1>b, <1>d, <1>e, <4>1 DEF LineShape
    <3>2. CASE line # <<>> BY <1>a, <1>1, <3>2
    <3> QED BY <3>1, <3>2
  <2>2. Len(line') = 0 /\ DOMAIN line' = {} BY <1>a
  <2> QED BY <1>c, <1>d, <2>1, <2>2 DEF LineShape
<1>3. GotShape' BY <1>a, <1>b, <1>e DEF GotShape
<1>4. GotBefore' BY <1>a, <1>c, <1>e DEF GotBefore
<1>5. GotOrder' BY <1>a DEF GotOrder
<1>6. NoneLost' BY <1>a, <1>b DEF NoneLost
<1> QED BY <1>2, <1>3, <1>4, <1>5, <1>6

(* What is returned is a piece of the current line. *)
LEMMA LineIsPiece ==
  ASSUME Types, LineShape
  PROVE  Piece(line, Cur, (Off - Len(line)) + 1, Off)
<1> DEFINE j == (Off - Len(line)) + 1
           v == SubSeq(Whole(Cur), j, Off)
<1>1. Cur \in Nat /\ Off \in 0 .. LineLen BY CurFacts
<1>2. line \in Seq(Bytes) /\ Len(line) \in Nat /\ DOMAIN line = 1 .. Len(line) /\ Len(line) <= Off
  BY LenProperties DEF Types, RecvTypes, LineShape
<1>3. j \in Int /\ Off \in Int /\ j >= 1 /\ Off <= LineLen /\ (Off - j) + 1 = Len(line)
  BY <1>1, <1>2, TransportAssumption
<1>4. \A i \in 1 .. LineLen : Whole(Cur)[i] = <<Cur, i>> /\ <<Cur, i>> \in Bytes
  <2>1. \A i \in 1 .. LineLen : Whole(Cur)[i] = <<Cur, i>> BY <1>1, WholeBytes
  <2>2. \A i \in 1 .. LineLen : i \in Nat BY TransportAssumption
  <2> QED BY <1>1, <2>1, <2>2, Zenon DEF Bytes
<1>e. \A i \in 1 .. Len(line) : (j + i) - 1 = (Off - Len(line)) + i /\ (j + i) - 1 \in 1 .. LineLen
  BY <1>1, <1>2, TransportAssumption
<1> HIDE DEF j
<1>5. \A i \in j .. Off : Whole(Cur)[i] \in Bytes
  <2>1. \A i \in j .. Off : i \in 1 .. LineLen BY <1>3, TransportAssumption
  <2> QED BY <1>4, <2>1, Zenon
<1>6. /\ v \in Seq(Bytes) /\ Len(v) = IF j <= Off THEN Off - j + 1 ELSE 0
      /\ \A i \in 1 .. Off - j + 1 : v[i] = Whole(Cur)[j + i - 1]
  BY <1>3, <1>5, SubSeqProperties
<1>7. Len(v) = Len(line) BY <1>2, <1>3, <1>6
<1>8. \A i \in 1 .. Len(line) : v[i] = Whole(Cur)[(j + i) - 1] BY <1>2, <1>3, <1>6
<1>9. \A i \in 1 .. Len(line) : line[i] = v[i]
  <2> SUFFICES ASSUME NEW i \in 1 .. Len(line) PROVE line[i] = v[i] OBVIOUS
  <2>1. line[i] = <<Cur, (Off - Len(line)) + i>> BY <1>2 DEF LineShape
  <2> QED BY <1>4, <1>8, <1>e, <2>1
<1> HIDE DEF v
<1>10. line = v BY <1>2, <1>6, <1>7, <1>9, SeqEqual
<1> QED BY <1>10 DEF Piece, v, j

(* A returned line joins the earlier ones. *)
LEMMA GotReturn ==
  ASSUME Types, LineInv, ~Spent, Cur \in 1 .. MaxLines, got' = Append(got, line), cut' = cut,
         Off < LineLen => Spent', Cur' \in Nat, Cur' >= Cur, Cur' = Cur => Spent'
  PROVE  GotShape' /\ GotBefore' /\ GotOrder'
<1> USE DEF LineInv
<1>a. line \in Seq(Bytes) /\ got \in Seq(Seq(Bytes)) BY DEF Types, RecvTypes
<1>b. /\ Len(got) \in Nat /\ DOMAIN got = 1 .. Len(got)
      /\ got' \in Seq(Seq(Bytes)) /\ Len(got') = Len(got) + 1
      /\ \A i \in 1 .. Len(got) : got'[i] = got[i]
      /\ got'[Len(got) + 1] = line
  BY <1>a, AppendProperties, LenProperties
<1>c. DOMAIN got' = 1 .. Len(got') BY <1>b, LenProperties
<1>d. Cur \in Nat \ {0} /\ Off \in 0 .. LineLen /\ MaxLines \in Nat /\ LineLen \in Nat
  BY CurFacts, TransportAssumption
<1>e. \A i \in DOMAIN got' : i \in DOMAIN got \/ i = Len(got) + 1 BY <1>b, <1>c
<1>f. Len(line) \in Nat /\ Len(line) <= Off /\ (Len(line) < Off => Cur \in cut) BY <1>a, LenProperties DEF LineShape
<1>g. line # <<>> => line[1][1] = Cur
  <2>1. line # <<>> => 1 \in DOMAIN line BY <1>a, EmptySeq, LenProperties
  <2> QED BY <2>1 DEF LineShape
<1>h. \A i \in DOMAIN got : got'[i] = got[i] BY <1>b
<1>i. \A i \in DOMAIN got : got[i] # <<>> => got[i] \in Seq(Bytes) /\ got[i][1][1] \in Nat
  <2> SUFFICES ASSUME NEW i \in DOMAIN got, got[i] # <<>> PROVE got[i] \in Seq(Bytes) /\ got[i][1][1] \in Nat
    OBVIOUS
  <2>1. got[i] \in Seq(Bytes) BY <1>a, <1>b, ElementOfSeq
  <2>2. 1 \in 1 .. Len(got[i]) BY <2>1, EmptySeq
  <2>3. got[i][1] \in Bytes BY <2>1, <2>2, ElementOfSeq
  <2> QED BY <2>1, <2>3 DEF Bytes
<1>1. GotShape'
  <2> SUFFICES ASSUME NEW i \in DOMAIN got'
               PROVE  \E n \in 1 .. MaxLines : \E j, k \in 1 .. LineLen + 1 :
                        /\ Piece(got'[i], n, j, k - 1)
                        /\ j > 1 => n \in cut
                        /\ k - 1 < LineLen => Spent' /\ i = Len(got')
    BY DEF GotShape, Piece, Whole
  <2>1. CASE i \in DOMAIN got BY <1>h, <2>1 DEF GotShape
  <2>2. CASE i = Len(got) + 1
    <3> DEFINE j == (Off - Len(line)) + 1
               k == Off + 1
    <3>1. j \in 1 .. LineLen + 1 /\ k \in 1 .. LineLen + 1 /\ k - 1 = Off /\ (j > 1 => Len(line) < Off)
      BY <1>d, <1>f
    <3>2. Piece(got'[i], Cur, j, Off) BY <1>b, <2>2, LineIsPiece
    <3>3. i = Len(got') BY <1>b, <2>2
    <3> HIDE DEF j, k
    <3> QED BY <1>f, <3>1, <3>2, <3>3
  <2> QED BY <1>e, <2>1, <2>2
<1>2. GotBefore'
  <2> SUFFICES ASSUME NEW i \in DOMAIN got', got'[i] # <<>>
               PROVE  got'[i][1][1] <= Cur' /\ (got'[i][1][1] = Cur' => Spent' /\ i = Len(got'))
    BY DEF GotBefore
  <2>1. CASE i \in DOMAIN got
    <3>1. got[i][1][1] \in Nat /\ got[i][1][1] < Cur BY <1>d, <1>h, <1>i, <2>1 DEF GotBefore
    <3>2. got[i][1][1] < Cur' BY <1>d, <3>1
    <3> QED BY <1>h, <2>1, <3>1, <3>2
  <2>2. CASE i = Len(got) + 1 BY <1>b, <1>d, <1>g, <2>2
  <2> QED BY <1>e, <2>1, <2>2
<1>3. GotOrder'
  <2> SUFFICES ASSUME NEW i \in DOMAIN got', NEW j \in DOMAIN got', i < j, got'[i] # <<>>, got'[j] # <<>>
               PROVE  got'[i][1][1] < got'[j][1][1]
    BY DEF GotOrder
  <2>1. i \in DOMAIN got BY <1>b, <1>c
  <2>2. CASE j \in DOMAIN got BY <1>h, <2>1, <2>2 DEF GotOrder
  <2>3. CASE j = Len(got) + 1
    <3>1. got[i][1][1] \in Nat /\ got[i][1][1] < Cur BY <1>d, <1>h, <1>i, <2>1 DEF GotBefore
    <3>2. got'[j][1][1] = Cur BY <1>b, <1>g, <2>3
    <3> QED BY <1>h, <2>1, <3>1, <3>2
  <2> QED BY <1>e, <2>2, <2>3
<1> QED BY <1>1, <1>2, <1>3

(* The newline. *)
LEMMA LineReturned == Types /\ LineInv /\ recvByte /\ Newline(taken') => LineInv'
<1> SUFFICES ASSUME Types, LineInv, recvByte, Newline(taken') PROVE LineInv' OBVIOUS
<1> USE DEF LineInv
<1>a. taken \in Nat /\ arrived \in Nat /\ taken' = taken + 1 /\ taken < arrived /\ line \in Seq(Bytes)
  BY DEF recvByte, Types, NetTypes, RecvTypes
<1>b. line' = <<>> /\ got' = Append(got, line) /\ UNCHANGED <<cut, ended, arrived>>
  BY DEF recvByte, Return, netVars
<1>c. Cur \in Nat \ {0} /\ Off \in 0 .. LineLen /\ PlaceOf(taken + 1) = Off + 1
  BY <1>a, CurFacts, Places DEF Off
<1>d. ~Spent BY <1>a DEF Spent
<1>1. Off = LineLen /\ PlaceOf(taken + 1) > LineLen BY <1>a, <1>c, TransportAssumption DEF Newline
<1>2. Cur' = Cur + 1 /\ Off' = 0
  <2>1. LineOf((taken + 1) + 1) = LineOf(taken + 1) + 1 /\ PlaceOf((taken + 1) + 1) = 1
    BY <1>1, <1>a, NextPlace
  <2> QED BY <1>a, <1>c, <2>1 DEF Cur, Off
<1>3. Cur \in 1 .. MaxLines
  <2>1. taken + 1 \in 1 .. MaxLines * (LineLen + 1) BY <1>a, StreamLength DEF Types, NetTypes
  <2> QED BY <2>1, LastLine DEF Cur
<1>4. LineShape' BY <1>b, <1>2 DEF LineShape
<1>5. GotShape' /\ GotBefore' /\ GotOrder'
  <2>1. ~(Off < LineLen) /\ Cur' \in Nat /\ Cur' >= Cur /\ Cur' # Cur BY <1>1, <1>2, <1>c, TransportAssumption
  <2> QED BY <1>b, <1>d, <1>3, <2>1, GotReturn
<1>6. NoneLost'
  <2>a. got \in Seq(Seq(Bytes)) BY DEF Types, RecvTypes
  <2>b. /\ Len(got) \in Nat /\ DOMAIN got = 1 .. Len(got) /\ DOMAIN got' = 1 .. (Len(got) + 1)
        /\ \A i \in 1 .. Len(got) : got'[i] = got[i]
        /\ got'[Len(got) + 1] = line
    <3>1. got' \in Seq(Seq(Bytes)) /\ Len(got') = Len(got) + 1
      BY <1>a, <1>b, <2>a, AppendProperties
    <3> QED BY <1>a, <1>b, <2>a, <3>1, AppendProperties, LenProperties
  <2>1. \A x \in Range(got) : x \in Range(got')
    <3>1. \A i \in DOMAIN got : i \in DOMAIN got' /\ got'[i] = got[i] BY <2>b
    <3> QED BY <3>1 DEF Range
  <2>2. line \in Range(got')
    <3>1. Len(got) + 1 \in DOMAIN got' BY <2>b
    <3> QED BY <2>b, <3>1 DEF Range
  <2>3. Cur \in cut \/ Whole(Cur) = line
    <3>1. CASE Len(line) < Off BY <1>d, <3>1 DEF LineShape
    <3>2. CASE ~(Len(line) < Off)
      <4>1. Len(line) = Off BY <1>a, <1>c, <3>2, LenProperties DEF LineShape
      <4>2. (Off - Len(line)) + 1 = 1 /\ Off = LineLen BY <1>c, <1>1, <4>1
      <4>3. line = SubSeq(Whole(Cur), 1, LineLen) BY <4>2, LineIsPiece DEF Piece
      <4>4. Whole(Cur) \in Seq(Bytes) /\ Len(Whole(Cur)) = LineLen BY <1>c, WholeBytes
      <4>5. SubSeq(Whole(Cur), 1, Len(Whole(Cur))) = Whole(Cur) BY <4>4, SubSeqFull
      <4> QED BY <4>3, <4>4, <4>5
    <3> QED BY <3>1, <3>2
  <2>4. \A p \in 1 .. taken' : p \in 1 .. taken \/ p = taken + 1 BY <1>a
  <2> QED BY <1>b, <2>1, <2>2, <2>3, <2>4 DEF NoneLost, Cur
<1> QED BY <1>4, <1>5, <1>6

(* The end of the stream returns what there is of a line. *)
LEMMA LineCutOff == Types /\ LineInv /\ recvEnd /\ line # <<>> => LineInv'
<1> SUFFICES ASSUME Types, LineInv, recvEnd, line # <<>> PROVE LineInv' OBVIOUS
<1> USE DEF LineInv
<1>a. taken \in Nat /\ arrived \in Nat /\ taken = arrived /\ line \in Seq(Bytes) /\ ended # "no"
  BY DEF recvEnd, Types, NetTypes, RecvTypes
<1>b. line' = <<>> /\ got' = Append(got, line) /\ UNCHANGED <<taken, cut, ended, arrived>>
  BY DEF recvEnd, Return, netVars
<1>c. Cur \in Nat \ {0} /\ Off \in 0 .. LineLen BY CurFacts
<1>d. ~Spent /\ Spent' BY <1>a, <1>b DEF Spent
<1>1. Cur' = Cur /\ Off' = Off BY <1>b DEF Cur, Off
<1>2. Off > 0 BY <1>a, <1>c, EmptySeq DEF LineShape
<1>3. Cur \in 1 .. MaxLines
  <2>1. taken # 0 BY <1>2, FirstPlace DEF Off
  <2>2. taken \in Nat \ {0} /\ PlaceOf(taken) \in 1 .. (LineLen + 1) BY <1>a, <2>1, Places
  <2>3. PlaceOf(taken) <= LineLen
    <3>1. CASE PlaceOf(taken) > LineLen BY <1>2, <2>2, <3>1, NextPlace DEF Off
    <3> QED BY <2>2, <3>1, TransportAssumption
  <2>4. Cur = LineOf(taken) BY <2>2, <2>3, NextPlace DEF Cur
  <2>5. taken \in 1 .. MaxLines * (LineLen + 1) BY <1>a, <2>2, StreamLength DEF Types, NetTypes
  <2> QED BY <2>4, <2>5, LastLine
<1>4. LineShape'
  <2>1. Len(line') = 0 /\ DOMAIN line' = {} BY <1>b
  <2> QED BY <1>c, <1>d, <1>1, <2>1 DEF LineShape
<1>5. GotShape' /\ GotBefore' /\ GotOrder'
  <2>1. Cur' \in Nat /\ Cur' >= Cur BY <1>c, <1>1
  <2> QED BY <1>b, <1>d, <1>3, <2>1, GotReturn
<1>6. NoneLost'
  <2>1. got \in Seq(Seq(Bytes)) BY DEF Types, RecvTypes
  <2>2. \A i \in DOMAIN got : i \in DOMAIN got' /\ got'[i] = got[i]
    <3>1. got' \in Seq(Seq(Bytes)) /\ Len(got') = Len(got) + 1 /\ \A i \in 1 .. Len(got) : got'[i] = got[i]
      BY <1>a, <1>b, <2>1, AppendProperties
    <3>2. DOMAIN got = 1 .. Len(got) /\ DOMAIN got' = 1 .. Len(got') /\ Len(got) \in Nat
      BY <2>1, <3>1, LenProperties
    <3> QED BY <3>1, <3>2
  <2>3. \A x \in Range(got) : x \in Range(got') BY <2>2 DEF Range
  <2> QED BY <1>b, <2>3 DEF NoneLost
<1> QED BY <1>4, <1>5, <1>6

LEMMA LineStep == Types /\ LineInv /\ [Next]_vars => LineInv'
<1> SUFFICES ASSUME Types, LineInv, [Next]_vars PROVE LineInv' OBVIOUS
<1> USE DEF netVars, recvVars, lineVars
<1>1. CASE Resolve BY <1>1, LineSame DEF Resolve
<1>2. CASE Opened BY <1>2, LineOpened
<1>3. CASE ConnectFails BY <1>3, LineSame DEF ConnectFails
<1>4. CASE PlainConnect /\ ~Opened BY <1>4, LineSame DEF PlainConnect
<1>5. CASE TlsConnect BY <1>5, LineSame DEF TlsConnect
<1>6. CASE Handshake /\ ~Opened BY <1>6, LineSame DEF Handshake
<1>7. CASE Backoff BY <1>7, LineSame DEF Backoff
<1>8. CASE PeerSends BY <1>8, LinePeer DEF PeerSends
<1>9. CASE PeerEnds BY <1>9, LinePeer DEF PeerEnds
<1>10. CASE recvByte BY <1>10, LineGrows, LineReturned
<1>11. CASE recvTimeout BY <1>11, LineTimeout
<1>12. CASE recvEnd
  <2>1. CASE line # <<>> BY <1>12, <2>1, LineCutOff
  <2>2. CASE line = <<>> BY <1>12, <2>2, LineSame DEF recvEnd
  <2> QED BY <2>1, <2>2
<1>13. CASE Greet BY <1>13, LineSame DEF Greet
<1>14. CASE sendSubmit BY <1>14, LineSame DEF sendSubmit
<1>15. CASE \E s \in Senders : sendSome(s) BY <1>15, LineSame DEF sendSome
<1>16. CASE \E s \in Senders : sendFails(s) BY <1>16, LineSame DEF sendFails
<1>17. CASE UNCHANGED vars BY <1>17, LineSame DEF vars
<1> QED
  BY <1>1, <1>2, <1>3, <1>4, <1>5, <1>6, <1>7, <1>8, <1>9, <1>10, <1>11, <1>12, <1>13, <1>14, <1>15,
     <1>16, <1>17
  DEF Next

(* recvLine gives the peer's lines whole, in order and without a gap, but   *)
(* for what a timeout inside a line or the end of the stream takes, for     *)
(* every length of a line and every number of lines and timeouts.           *)
THEOREM TransportLines == Spec => []LinesExact
<1>1. Init => Types /\ LineInv BY TypesInit, LineInit
<1>2. Types /\ LineInv /\ [Next]_vars => (Types /\ LineInv)' BY TypesStep, LineStep
<1>3. Types /\ LineInv => LinesExact
  <2> SUFFICES ASSUME LineInv PROVE LinesExact OBVIOUS
  <2>1. GotShape /\ GotOrder /\ NoneLost BY DEF LineInv
  <2> QED BY <2>1 DEF LinesExact, GotShape, GotOrder, NoneLost, Spent
<1> QED BY <1>1, <1>2, <1>3, PTL DEF Spec
=============================================================================
