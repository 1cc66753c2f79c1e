---------------------- MODULE NativeConnectionsProofs ----------------------
(***************************************************************************)
(* Proofs about the connections of the native server (IocpServer, and      *)
(* NativeConnections, which runs it): who owns a connection, and what its  *)
(* client is sent, for any number of connections and clients, any lengths, *)
(* any pieces and any failures; and about the pool of their structures     *)
(* (ConnPool), for any number of threads, one of which allocates.          *)
(***************************************************************************)
EXTENDS NativeConnections, LinkedListProofs, TLAPS

Units == {"header", "body"} \X Nat
Total == HeaderLen + BodyLen

ConnTypeOK ==
  /\ peer \in [Slots -> Clients \cup {None}]
  /\ op \in [Slots -> {"none", "recv", "send"}]
  /\ iov \in [Slots -> Seq(Units)]
  /\ pooled \subseteq Slots
  /\ mode \in [Slots -> {"http", "ws", "h2"}]
  /\ buf \in [Slots -> Nat]
  /\ resp_sent \in [Slots -> Nat]
  /\ phase \in [Clients -> {"away", "open", "shut", "reset", "closed"}]
  /\ wire \in [Clients -> Nat]
  /\ part \in [Clients -> 0 .. 1]
  /\ asked \in [Clients -> Nat]
  /\ got \in [Clients -> Seq(Units)]

(* A client connects once, so no two slots serve the same one. *)
Owned ==
  /\ OneOwner
  /\ \A s \in Slots : Live(s) => phase[peer[s]] \notin {"away", "closed"}
  /\ \A k \in Clients : phase[k] = "away" =>
       asked[k] = 0 /\ got[k] = <<>> /\ wire[k] = 0 /\ part[k] = 0

(* What a connection and its client have in common.  Before a request is   *)
(* complete in the buffer, with b units in it: all was answered and what   *)
(* the client has sent of the next request is under way, or one request is *)
(* under way as a whole.  While it is answered, with n units sent, the     *)
(* client sends nothing.                                                   *)
Reading(k, b) ==
  /\ b \in 0 .. 1
  /\ \/ Len(got[k]) = asked[k] * Total /\ wire[k] + b = part[k]
     \/ Len(got[k]) + Total = asked[k] * Total /\ wire[k] + b = 2 /\ part[k] = 0
Serving(k, n) ==
  /\ n \in 0 .. Total - 1
  /\ wire[k] = 0 /\ part[k] = 0
  /\ Len(got[k]) + Total = asked[k] * Total + n

Talk(s) ==
  /\ mode[s] # "http" => op[s] # "send" /\ s \notin pooled
  /\ mode[s] = "http" /\ op[s] = "recv" => Reading(peer[s], buf[s])
  /\ op[s] = "send" => Serving(peer[s], resp_sent[s]) /\ iov[s] = Rest(resp_sent[s])
  /\ s \in pooled => Serving(peer[s], 0)

Told(k) ==
  /\ Len(got[k]) <= asked[k] * Total
  /\ \A m \in 1 .. Len(got[k]) : \E r \in 0 .. asked[k] - 1, u \in 1 .. Total :
       m = r * Total + u /\ got[k][m] = Response[u]

ConnInv ==
  /\ ConnTypeOK
  /\ Owned
  /\ \A s \in Slots : Live(s) => Talk(s)
  /\ \A k \in Clients : Told(k)

----------------------------------------------------------------------------
(* Whole answers count by their length. *)
LEMMA OneMore ==
  ASSUME NEW T \in Nat, NEW n \in Nat
  PROVE  n * T \in Nat /\ (n + 1) * T = n * T + T
  OBVIOUS

(* What a concatenation and a piece of a sequence hold. *)
LEMMA ConcatHolds ==
  ASSUME NEW T, NEW a \in Seq(T), NEW b \in Seq(T)
  PROVE  /\ a \o b \in Seq(T) /\ Len(a) \in Nat /\ Len(b) \in Nat
         /\ Len(a \o b) = Len(a) + Len(b)
         /\ \A u \in 1 .. Len(a) : (a \o b)[u] = a[u]
         /\ \A u \in 1 .. Len(b) : (a \o b)[Len(a) + u] = b[u]
<1>1. a \o b \in Seq(T) /\ Len(a) \in Nat /\ Len(b) \in Nat /\ Len(a \o b) = Len(a) + Len(b)
  OBVIOUS
<1>2. \A u \in 1 .. Len(a) : (a \o b)[u] = a[u]
  OBVIOUS
<1>3. ASSUME NEW u \in 1 .. Len(b) PROVE (a \o b)[Len(a) + u] = b[u]
  BY <1>1
<1>. QED
  BY <1>1, <1>2, <1>3

(* See ConcatHolds. *)
LEMMA PieceHolds ==
  ASSUME NEW T, NEW a \in Seq(T), NEW m \in Nat, NEW n \in Nat, m <= n, n <= Len(a)
  PROVE  /\ SubSeq(a, m + 1, n) \in Seq(T)
         /\ Len(SubSeq(a, m + 1, n)) = n - m
         /\ \A u \in 1 .. n - m : SubSeq(a, m + 1, n)[u] = a[m + u]
<1>1. \A u \in 1 .. Len(a) : a[u] \in T
  OBVIOUS
<1>2. /\ SubSeq(a, m + 1, n) \in Seq(T)
      /\ Len(SubSeq(a, m + 1, n)) = n - m
  OBVIOUS
<1>3. ASSUME NEW u \in 1 .. n - m PROVE SubSeq(a, m + 1, n)[u] = a[m + u]
  <2>1. m + u = (m + 1) + u - 1
    OBVIOUS
  <2>. QED
    BY <1>2, <2>1
<1>. QED
  BY <1>2, <1>3

(* A response, and what is left of it after n units. *)
LEMMA Responses ==
  /\ Total \in Nat \ {0} /\ Len(Response) = Total
  /\ \A n \in 0 .. Total - 1 :
       /\ Rest(n) \in Seq(Units) /\ Len(Rest(n)) = Total - n
       /\ \A u \in 1 .. Total - n : Rest(n)[u] = Response[n + u]
<1>1. HeaderLen \in Nat \ {0} /\ BodyLen \in Nat /\ Total = HeaderLen + BodyLen
  BY ServerAssumption DEF ServerAssumption, Total
<1>2. Header \in Seq(Units) /\ Len(Header) = HeaderLen
  <2>1. \A u \in 1 .. HeaderLen : <<"header", u>> \in Units
    BY <1>1 DEF Units
  <2>. QED
    BY <1>1, <2>1 DEF Header
<1>3. Body \in Seq(Units) /\ Len(Body) = BodyLen
  <2>1. \A u \in 1 .. BodyLen : <<"body", u>> \in Units
    BY <1>1 DEF Units
  <2>. QED
    BY <1>1, <2>1 DEF Body
<1>4. /\ Response \in Seq(Units) /\ Len(Response) = Total
      /\ \A u \in 1 .. HeaderLen : Response[u] = Header[u]
      /\ \A u \in 1 .. BodyLen : Response[HeaderLen + u] = Body[u]
  BY <1>1, <1>2, <1>3 DEF Response
<1>5. ASSUME NEW n \in 0 .. Total - 1, n < HeaderLen
      PROVE  /\ Rest(n) \in Seq(Units) /\ Len(Rest(n)) = Total - n
             /\ \A u \in 1 .. Total - n : Rest(n)[u] = Response[n + u]
  <2> DEFINE front == SubSeq(Header, n + 1, HeaderLen)
  <2>1. /\ front \in Seq(Units) /\ Len(front) = HeaderLen - n
        /\ \A u \in 1 .. HeaderLen - n : front[u] = Header[n + u]
    <3>1. n \in Nat /\ n <= HeaderLen /\ HeaderLen <= Len(Header)
      BY <1>1, <1>2, <1>5
    <3>. QED
      BY ONLY <3>1, <1>1, <1>2, PieceHolds
  <2>2. Rest(n) = front \o Body
    BY <1>5 DEF Rest
  <2> HIDE DEF front
  <2>3. /\ Rest(n) \in Seq(Units) /\ Len(Rest(n)) = Total - n
        /\ \A u \in 1 .. HeaderLen - n : Rest(n)[u] = front[u]
        /\ \A u \in 1 .. BodyLen : Rest(n)[(HeaderLen - n) + u] = Body[u]
    <3>1. /\ Rest(n) \in Seq(Units) /\ Len(Rest(n)) = Len(front) + Len(Body)
          /\ \A u \in 1 .. Len(front) : Rest(n)[u] = front[u]
          /\ \A u \in 1 .. Len(Body) : Rest(n)[Len(front) + u] = Body[u]
      <4>1. /\ front \o Body \in Seq(Units) /\ Len(front \o Body) = Len(front) + Len(Body)
            /\ \A u \in 1 .. Len(front) : (front \o Body)[u] = front[u]
            /\ \A u \in 1 .. Len(Body) : (front \o Body)[Len(front) + u] = Body[u]
        <5>1. front \in Seq(Units) /\ Body \in Seq(Units)
          BY <1>3, <2>1
        <5>. QED
          BY ONLY <5>1, ConcatHolds
      <4>. QED
        BY ONLY <2>2, <4>1
    <3>2. (HeaderLen - n) + BodyLen = Total - n
      BY <1>1, <1>5
    <3>. QED
      BY ONLY <1>3, <2>1, <3>1, <3>2
  <2>4. ASSUME NEW u \in 1 .. Total - n PROVE Rest(n)[u] = Response[n + u]
    <3>1. CASE u <= HeaderLen - n
      <4>1. u \in 1 .. HeaderLen - n /\ n + u \in 1 .. HeaderLen
        BY <1>1, <1>5, <3>1
      <4>2. Rest(n)[u] = Header[n + u]
        BY <2>1, <2>3, <4>1
      <4>. QED
        BY <1>4, <4>1, <4>2
    <3>2. CASE ~(u <= HeaderLen - n)
      <4> DEFINE v == u - (HeaderLen - n)
      <4>1. v \in 1 .. BodyLen /\ u = (HeaderLen - n) + v /\ n + u = HeaderLen + v
        BY <1>1, <1>5, <3>2
      <4>. QED
        BY <1>4, <2>3, <4>1
    <3>. QED
      BY <3>1, <3>2
  <2>. QED
    BY <2>3, <2>4
<1>6. ASSUME NEW n \in 0 .. Total - 1, ~(n < HeaderLen)
      PROVE  /\ Rest(n) \in Seq(Units) /\ Len(Rest(n)) = Total - n
             /\ \A u \in 1 .. Total - n : Rest(n)[u] = Response[n + u]
  <2>1. Rest(n) = SubSeq(Body, n - HeaderLen + 1, BodyLen)
    BY <1>6 DEF Rest
  <2>2. /\ Rest(n) \in Seq(Units) /\ Len(Rest(n)) = Total - n
        /\ \A u \in 1 .. Total - n : Rest(n)[u] = Body[(n - HeaderLen) + u]
    <3> DEFINE m == n - HeaderLen
    <3>1. m \in Nat /\ m <= BodyLen /\ BodyLen - m = Total - n
      BY <1>1, <1>6
    <3>2. /\ SubSeq(Body, m + 1, BodyLen) \in Seq(Units)
          /\ Len(SubSeq(Body, m + 1, BodyLen)) = BodyLen - m
          /\ \A u \in 1 .. BodyLen - m : SubSeq(Body, m + 1, BodyLen)[u] = Body[m + u]
      <4> HIDE DEF m
      <4>1. BodyLen \in Nat /\ BodyLen <= Len(Body)
        BY <1>1, <1>3
      <4>. QED
        BY ONLY <1>3, <3>1, <4>1, PieceHolds
    <3>3. Rest(n) = SubSeq(Body, m + 1, BodyLen)
      BY <2>1
    <3>. QED
      BY <3>1, <3>2, <3>3
  <2>3. ASSUME NEW u \in 1 .. Total - n PROVE Rest(n)[u] = Response[n + u]
    <3>1. (n - HeaderLen) + u \in 1 .. BodyLen /\ n + u = HeaderLen + ((n - HeaderLen) + u)
      BY <1>1, <1>6
    <3>. QED
      BY <1>4, <2>2, <3>1
  <2>. QED
    BY <2>2, <2>3
<1>. QED
  BY <1>1, <1>4, <1>5, <1>6

(* Units that continue an answer are where they belong. *)
LEMMA ToldMore ==
  ASSUME NEW k \in Clients, ConnTypeOK, Told(k), NEW n \in Nat, Serving(k, n),
         NEW c \in 1 .. Total - n, asked' = asked,
         got' = [got EXCEPT ![k] = @ \o SubSeq(Rest(n), 1, c)]
  PROVE  /\ got' \in [Clients -> Seq(Units)] /\ Told(k)'
         /\ Len(got'[k]) = Len(got[k]) + c
         /\ \A j \in Clients \ {k} : got'[j] = got[j]
<1>1. /\ Total \in Nat \ {0} /\ n \in 0 .. Total - 1
      /\ Rest(n) \in Seq(Units) /\ Len(Rest(n)) = Total - n
      /\ \A u \in 1 .. Total - n : Rest(n)[u] = Response[n + u]
  BY Responses DEF Serving
<1> DEFINE piece == SubSeq(Rest(n), 1, c)
<1>2. piece \in Seq(Units) /\ Len(piece) = c /\ \A u \in 1 .. c : piece[u] = Response[n + u]
  <2>1. c \in Nat /\ c <= Len(Rest(n)) /\ 0 + 1 = 1 /\ c - 0 = c
        /\ \A u \in 1 .. c : 0 + u = u /\ u \in 1 .. Total - n
    BY <1>1
  <2>2. /\ SubSeq(Rest(n), 0 + 1, c) \in Seq(Units)
        /\ Len(SubSeq(Rest(n), 0 + 1, c)) = c - 0
        /\ \A u \in 1 .. c - 0 : SubSeq(Rest(n), 0 + 1, c)[u] = Rest(n)[0 + u]
    BY <1>1, <2>1, PieceHolds
  <2>. QED
    BY <1>1, <2>1, <2>2
<1>3. got[k] \in Seq(Units) /\ asked[k] \in Nat /\ Len(got[k]) \in Nat
  BY DEF ConnTypeOK
<1>4. got'[k] = got[k] \o piece /\ \A j \in Clients \ {k} : got'[j] = got[j]
  BY DEF ConnTypeOK
<1> HIDE DEF piece
<1>5. /\ got'[k] \in Seq(Units) /\ Len(got'[k]) = Len(got[k]) + c
      /\ \A u \in 1 .. Len(got[k]) : got'[k][u] = got[k][u]
      /\ \A u \in 1 .. c : got'[k][Len(got[k]) + u] = piece[u]
  <2>1. /\ got[k] \o piece \in Seq(Units)
        /\ Len(got[k] \o piece) = Len(got[k]) + Len(piece)
        /\ \A u \in 1 .. Len(got[k]) : (got[k] \o piece)[u] = got[k][u]
        /\ \A u \in 1 .. Len(piece) : (got[k] \o piece)[Len(got[k]) + u] = piece[u]
    <3>1. piece \in Seq(Units) /\ got[k] \in Seq(Units)
      BY <1>2, <1>3
    <3>. QED
      BY ONLY <3>1, ConcatHolds
  <2>. QED
    BY ONLY <1>2, <1>4, <2>1
<1>6. got' \in [Clients -> Seq(Units)]
  BY <1>4, <1>5 DEF ConnTypeOK
<1>7. PICK r \in Nat : asked[k] = r + 1
  <2>1. asked[k] # 0
    <3> SUFFICES ASSUME asked[k] = 0 PROVE FALSE
      OBVIOUS
    <3>1. asked[k] * Total = 0
      BY <1>1, 0 * Total = 0
    <3>. QED
      BY <1>1, <1>3, <3>1 DEF Serving
  <2>2. asked[k] - 1 \in Nat /\ asked[k] = (asked[k] - 1) + 1
    BY <1>3, <2>1
  <2>. QED
    BY <2>2
<1>8. r * Total \in Nat /\ asked[k] * Total = r * Total + Total
  BY <1>1, <1>7, OneMore
<1>9. Len(got[k]) = r * Total + n
  <2> DEFINE p == r * Total
  <2>1. p \in Nat /\ Len(got[k]) + Total = (p + Total) + n
    BY <1>8 DEF Serving
  <2>2. Total \in Nat /\ n \in Nat
    BY <1>1
  <2> HIDE DEF p
  <2>3. Len(got[k]) = p + n
    BY ONLY <1>3, <2>1, <2>2
  <2>. QED
    BY <2>3 DEF p
<1>10. Len(got'[k]) <= asked[k] * Total
  <2> DEFINE p == r * Total
  <2>1. p \in Nat /\ asked[k] * Total = p + Total /\ Len(got'[k]) = p + n + c
    BY <1>5, <1>8, <1>9
  <2>2. n + c <= Total /\ n + c \in Nat
    BY <1>1
  <2> HIDE DEF p
  <2>. QED
    BY <1>1, <2>1, <2>2
<1>11. ASSUME NEW m \in 1 .. Len(got'[k])
       PROVE  \E q \in 0 .. asked[k] - 1, u \in 1 .. Total :
                m = q * Total + u /\ got'[k][m] = Response[u]
  <2>1. CASE m \in 1 .. Len(got[k])
    BY <1>5, <2>1 DEF Told
  <2>2. CASE m \notin 1 .. Len(got[k])
    <3> DEFINE u == m - Len(got[k])
    <3>1. u \in 1 .. c /\ m = Len(got[k]) + u /\ n + u \in 1 .. Total
      <4>1. /\ c \in Nat /\ n + c <= Total /\ n \in Nat /\ Total \in Nat
            /\ Len(got'[k]) = Len(got[k]) + c
        BY <1>1, <1>5
      <4>. QED
        BY ONLY <1>3, <2>2, <4>1
    <3>2. got'[k][m] = Response[n + u]
      BY <1>2, <1>5, <3>1
    <3>3. m = r * Total + (n + u) /\ r \in 0 .. asked[k] - 1
      <4> DEFINE p == r * Total
      <4>1. p \in Nat /\ Len(got[k]) = p + n /\ u \in Nat /\ n \in Nat
        BY <1>1, <1>8, <1>9, <3>1
      <4> HIDE DEF p
      <4>2. m = p + (n + u)
        BY <3>1, <4>1
      <4>3. r \in 0 .. asked[k] - 1
        BY <1>7
      <4>. QED
        BY <4>2, <4>3 DEF p
    <3>. QED
      BY <3>1, <3>2, <3>3
  <2>. QED
    BY <2>1, <2>2
<1>12. Told(k)'
  BY <1>10, <1>11 DEF Told
<1>. QED
  BY <1>4, <1>5, <1>6, <1>12

----------------------------------------------------------------------------
(* closesocket and yk_conn_free as the others see them. *)
SlotFreed(s) ==
  /\ peer' = [peer EXCEPT ![s] = None]
  /\ phase' = [phase EXCEPT ![peer[s]] = "closed"]
  /\ op' = [op EXCEPT ![s] = "none"]
  /\ pooled' = pooled \ {s}

(* A step of one slot and its client: it leaves the other slots and        *)
(* clients alone, and the slot is free afterwards, its client gone for     *)
(* good, or it serves the same client under the invariant.                 *)
LEMMA SlotStep ==
  ASSUME ConnInv, NEW s \in Slots, Live(s), ConnTypeOK',
         \A t \in Slots \ {s} :
           /\ op'[t] = op[t] /\ iov'[t] = iov[t] /\ (t \in pooled' <=> t \in pooled)
           /\ mode'[t] = mode[t] /\ buf'[t] = buf[t] /\ resp_sent'[t] = resp_sent[t],
         \A k \in Clients \ {peer[s]} : got'[k] = got[k] /\ wire'[k] = wire[k],
         UNCHANGED <<asked, part>>,
         NEW k0, k0 = peer[s], Told(k0)',
         \/ SlotFreed(s)
         \/ UNCHANGED <<peer, phase>> /\ Talk(s)' /\ ~(op'[s] # "none" /\ s \in pooled')
  PROVE  ConnInv'
<1> USE DEF ConnInv
<1>1. /\ k0 \in Clients /\ None \notin Clients
      /\ \A t \in Slots : Live(t) => peer[t] \in Clients
  BY ServerAssumption DEF ServerAssumption, ConnTypeOK, Live
<1>2. \A t \in Slots \ {s} : Live(t) => peer[t] # k0
  BY DEF Owned, OneOwner
<1>3. /\ \A t \in Slots \ {s} : peer'[t] = peer[t]
      /\ \A k \in Clients \ {k0} : phase'[k] = phase[k]
  BY DEF SlotFreed, ConnTypeOK
<1>4. ASSUME NEW t \in Slots, t # s, Live(t)' PROVE Talk(t)'
  <2>1. Live(t) /\ Talk(t) /\ peer'[t] = peer[t] /\ peer[t] \in Clients \ {k0}
    BY <1>1, <1>2, <1>3, <1>4 DEF Live
  <2>2. \A n : Serving(peer[t], n)' <=> Serving(peer[t], n)
    BY <2>1 DEF Serving
  <2>3. \A n : Reading(peer[t], n)' <=> Reading(peer[t], n)
    BY <2>1 DEF Reading
  <2>. QED
    BY <1>4, <2>1, <2>2, <2>3 DEF Talk
<1>5. ASSUME NEW k \in Clients PROVE Told(k)'
  BY <1>5 DEF Told
<1>6. CASE SlotFreed(s)
  <2>1. /\ peer'[s] = None /\ op'[s] = "none" /\ s \notin pooled' /\ phase'[k0] = "closed"
    BY <1>1, <1>6 DEF SlotFreed, ConnTypeOK
  <2>2. OneOwner'
    BY <1>3, <2>1 DEF Owned, OneOwner, Live
  <2>3. \A t \in Slots : Live(t)' => phase'[peer'[t]] \notin {"away", "closed"}
    BY <1>1, <1>2, <1>3, <2>1 DEF Owned, Live
  <2>4. \A k \in Clients : phase'[k] = "away" =>
          asked'[k] = 0 /\ got'[k] = <<>> /\ wire'[k] = 0 /\ part'[k] = 0
    BY <1>3, <2>1 DEF Owned
  <2>5. Owned'
    BY <2>2, <2>3, <2>4 DEF Owned
  <2>6. ~Live(s)'
    BY <2>1 DEF Live
  <2>. QED
    BY <1>4, <1>5, <2>5, <2>6
<1>7. CASE UNCHANGED <<peer, phase>> /\ Talk(s)' /\ ~(op'[s] # "none" /\ s \in pooled')
  <2>1. OneOwner'
    BY <1>7 DEF Owned, OneOwner, Live
  <2>2. phase[k0] # "away"
    BY DEF Owned
  <2>3. \A k \in Clients : phase'[k] = "away" =>
          asked'[k] = 0 /\ got'[k] = <<>> /\ wire'[k] = 0 /\ part'[k] = 0
    BY <1>7, <2>2 DEF Owned
  <2>4. Owned'
    BY <1>7, <2>1, <2>3 DEF Owned, Live
  <2>. QED
    BY <1>4, <1>5, <1>7, <2>4
<1>. QED
  BY <1>6, <1>7
(* What a receive, a send and a close that are posted leave behind. *)
LEMMA Posted ==
  ASSUME ConnTypeOK, NEW s \in Slots
  PROVE  /\ PostRecv(s) =>
              \/ /\ op' \in [Slots -> {"none", "recv", "send"}] /\ iov' \in [Slots -> Seq(Units)]
                 /\ op'[s] = "recv" /\ pooled' = pooled \ {s} /\ UNCHANGED <<peer, phase>>
                 /\ \A t \in Slots \ {s} : op'[t] = op[t] /\ iov'[t] = iov[t]
              \/ Close(s)
         /\ \A n \in 0 .. Total - 1 : PostSend(s, n) =>
              \/ /\ op' \in [Slots -> {"none", "recv", "send"}] /\ iov' \in [Slots -> Seq(Units)]
                 /\ op'[s] = "send" /\ iov'[s] = Rest(n)
                 /\ pooled' = pooled \ {s} /\ UNCHANGED <<peer, phase>>
                 /\ \A t \in Slots \ {s} : op'[t] = op[t] /\ iov'[t] = iov[t]
              \/ Close(s)
         /\ Close(s) =>
              /\ SlotFreed(s)
              /\ peer' \in [Slots -> Clients \cup {None}]
              /\ op' \in [Slots -> {"none", "recv", "send"}] /\ iov' \in [Slots -> Seq(Units)]
              /\ pooled' \subseteq Slots
              /\ phase' \in [Clients -> {"away", "open", "shut", "reset", "closed"}]
              /\ \A t \in Slots \ {s} : op'[t] = op[t] /\ iov'[t] = iov[t]
<1> USE DEF ConnTypeOK
<1>1. <<>> \in Seq(Units)
  OBVIOUS
<1>2. ASSUME PostRecv(s), ~Close(s)
      PROVE  /\ op' \in [Slots -> {"none", "recv", "send"}] /\ iov' \in [Slots -> Seq(Units)]
             /\ op'[s] = "recv" /\ pooled' = pooled \ {s} /\ UNCHANGED <<peer, phase>>
             /\ \A t \in Slots \ {s} : op'[t] = op[t] /\ iov'[t] = iov[t]
  <2>1. /\ op' = [op EXCEPT ![s] = "recv"] /\ iov' = [iov EXCEPT ![s] = <<>>]
        /\ pooled' = pooled \ {s} /\ UNCHANGED <<peer, phase>>
    BY <1>2 DEF PostRecv
  <2>2. /\ op' \in [Slots -> {"none", "recv", "send"}] /\ op'[s] = "recv"
        /\ \A t \in Slots \ {s} : op'[t] = op[t]
    BY <2>1
  <2>3. iov' \in [Slots -> Seq(Units)] /\ \A t \in Slots \ {s} : iov'[t] = iov[t]
    BY <1>1, <2>1
  <2>. QED
    BY <2>1, <2>2, <2>3
<1>3. ASSUME NEW n \in 0 .. Total - 1, PostSend(s, n), ~Close(s)
      PROVE  /\ op' \in [Slots -> {"none", "recv", "send"}] /\ iov' \in [Slots -> Seq(Units)]
             /\ op'[s] = "send" /\ iov'[s] = Rest(n)
             /\ pooled' = pooled \ {s} /\ UNCHANGED <<peer, phase>>
             /\ \A t \in Slots \ {s} : op'[t] = op[t] /\ iov'[t] = iov[t]
  <2>1. Rest(n) \in Seq(Units)
    BY Responses
  <2>. QED
    <3>1. /\ op' = [op EXCEPT ![s] = "send"] /\ iov' = [iov EXCEPT ![s] = Rest(n)]
          /\ pooled' = pooled \ {s} /\ UNCHANGED <<peer, phase>>
      BY <1>3 DEF PostSend
    <3>2. /\ op' \in [Slots -> {"none", "recv", "send"}] /\ op'[s] = "send"
          /\ \A t \in Slots \ {s} : op'[t] = op[t]
      BY <3>1
    <3>3. /\ iov' \in [Slots -> Seq(Units)] /\ iov'[s] = Rest(n)
          /\ \A t \in Slots \ {s} : iov'[t] = iov[t]
      BY <2>1, <3>1
    <3>. QED
      BY <3>1, <3>2, <3>3
<1>4. ASSUME Close(s)
      PROVE  /\ SlotFreed(s)
             /\ peer' \in [Slots -> Clients \cup {None}]
             /\ op' \in [Slots -> {"none", "recv", "send"}] /\ iov' \in [Slots -> Seq(Units)]
             /\ pooled' \subseteq Slots
             /\ phase' \in [Clients -> {"away", "open", "shut", "reset", "closed"}]
             /\ \A t \in Slots \ {s} : op'[t] = op[t] /\ iov'[t] = iov[t]
  BY <1>1, <1>4 DEF Close, SlotFreed
<1>. QED
  BY <1>2, <1>3, <1>4

(* What the invariant says of a slot in use. *)
LEMMA SlotFacts ==
  ASSUME ConnInv, NEW s \in Slots, Live(s)
  PROVE  /\ ConnTypeOK /\ peer[s] \in Clients /\ Talk(s) /\ Told(peer[s])
         /\ ~(op[s] # "none" /\ s \in pooled)
  BY DEF ConnInv, ConnTypeOK, Live, Owned, OneOwner

(* A client that was told nothing new and asked nothing new. *)
LEMMA ToldSame ==
  ASSUME NEW k \in Clients, Told(k), UNCHANGED <<asked, got>>
  PROVE  Told(k)'
  BY DEF Told

----------------------------------------------------------------------------
(* A receive completes. *)
LEMMA RecvDoneInv ==
  ASSUME ConnInv, NEW s \in Slots, Live(s), NEW n \in 1 .. RequestLen, RecvDone(s, n)
  PROVE  ConnInv'
<1>1. /\ ConnTypeOK /\ peer[s] \in Clients /\ Talk(s) /\ Told(peer[s])
      /\ ~(op[s] # "none" /\ s \in pooled)
  BY SlotFacts
<1>2. PICK k \in Clients : k = peer[s]
  BY <1>1
<1>3. /\ op[s] = "recv" /\ s \notin pooled /\ n \in 1 .. wire[k] /\ n \in Nat /\ n > 0
      /\ wire' = [wire EXCEPT ![k] = @ - n]
      /\ UNCHANGED <<asked, part, got>>
  BY <1>1, <1>2 DEF RecvDone, RequestLen
<1>4. wire' \in [Clients -> Nat] /\ wire'[k] = wire[k] - n
      /\ \A j \in Clients \ {k} : wire'[j] = wire[j]
  <2>1. wire[k] \in Nat /\ wire[k] - n \in Nat
    BY <1>1, <1>3 DEF ConnTypeOK
  <2>. QED
    BY <1>1, <1>3, <2>1 DEF ConnTypeOK
<1>5. Told(k)'
  BY <1>1, <1>2, <1>3, ToldSame
<1>6. buf[s] \in Nat /\ buf[s] + n \in Nat
  BY <1>1, <1>3 DEF ConnTypeOK
<1> DEFINE Calm ==
      /\ buf' \in [Slots -> Nat] /\ mode' \in [Slots -> {"http", "ws", "h2"}]
      /\ resp_sent' \in [Slots -> Nat]
      /\ \A t \in Slots \ {s} : /\ buf'[t] = buf[t] /\ mode'[t] = mode[t]
                                /\ resp_sent'[t] = resp_sent[t]
<1>7. ASSUME Calm, Close(s)
      PROVE  ConnInv'
  <2>1. /\ SlotFreed(s) /\ ConnTypeOK'
        /\ \A t \in Slots \ {s} : op'[t] = op[t] /\ iov'[t] = iov[t]
    BY <1>1, <1>3, <1>4, <1>7, Posted DEF ConnTypeOK
  <2>2. \A t \in Slots \ {s} : t \in pooled' <=> t \in pooled
    BY <2>1 DEF SlotFreed
  <2>. QED
    BY <1>2, <1>3, <1>4, <1>5, <1>7, <2>1, <2>2, SlotStep
<1>8. ASSUME Calm, UNCHANGED <<peer, phase>>,
             op' \in [Slots -> {"none", "recv", "send"}], iov' \in [Slots -> Seq(Units)],
             pooled' \subseteq Slots,
             \A t \in Slots \ {s} : /\ op'[t] = op[t] /\ iov'[t] = iov[t]
                                    /\ t \in pooled' <=> t \in pooled,
             Talk(s)', ~(op'[s] # "none" /\ s \in pooled')
      PROVE  ConnInv'
  <2>1. ConnTypeOK'
    BY <1>1, <1>3, <1>4, <1>8 DEF ConnTypeOK
  <2>. QED
    BY <1>2, <1>3, <1>4, <1>5, <1>8, <2>1, SlotStep
<1>9. CASE /\ mode[s] = "http" /\ buf[s] + n < RequestLen
           /\ buf' = [buf EXCEPT ![s] = @ + n]
           /\ PostRecv(s)
           /\ UNCHANGED <<mode, keep, resp_sent>>
  <2>1. Calm /\ buf'[s] = buf[s] + n
    BY <1>1, <1>6, <1>9 DEF ConnTypeOK
  <2>2. CASE Close(s)
    BY <1>7, <2>1, <2>2
  <2>3. CASE ~Close(s)
    <3>1. /\ op' \in [Slots -> {"none", "recv", "send"}] /\ iov' \in [Slots -> Seq(Units)]
          /\ op'[s] = "recv" /\ pooled' = pooled \ {s} /\ UNCHANGED <<peer, phase>>
          /\ \A t \in Slots \ {s} : op'[t] = op[t] /\ iov'[t] = iov[t]
      BY <1>1, <1>9, <2>3, Posted
    <3>2. Reading(k, buf[s])
      BY <1>1, <1>2, <1>3, <1>9 DEF Talk
    <3>3. PICK b \in Nat : b = buf[s] + n
      BY <1>6
    <3>4. Talk(s)'
      <4>1. b \in 0 .. 1 /\ wire'[k] + b = wire[k] + buf[s]
        <5>1. wire[k] \in Nat
          BY <1>1 DEF ConnTypeOK
        <5>. QED
          BY <1>3, <1>4, <1>6, <1>9, <3>3, <5>1 DEF RequestLen
      <4>2. Reading(k, b)'
        BY <1>3, <3>2, <4>1 DEF Reading, Total
      <4>. QED
        BY <1>2, <1>9, <2>1, <3>1, <3>3, <4>2 DEF Talk
    <3>5. pooled' \subseteq Slots /\ s \notin pooled'
          /\ \A t \in Slots \ {s} : t \in pooled' <=> t \in pooled
      BY <1>1, <3>1 DEF ConnTypeOK
    <3>. QED
      BY <1>8, <2>1, <3>1, <3>4, <3>5
  <2>. QED
    BY <2>2, <2>3
<1>10. CASE /\ mode[s] = "http" /\ buf[s] + n >= RequestLen
            /\ buf' = [buf EXCEPT ![s] = @ + n]
            /\ Dispatch(s)
            /\ UNCHANGED mode
  <2>1. Reading(k, buf[s])
    BY <1>1, <1>2, <1>3, <1>10 DEF Talk
  <2>2. /\ Total \in Nat \ {0} /\ wire'[k] = 0 /\ part[k] = 0
        /\ Len(got[k]) + Total = asked[k] * Total /\ asked[k] * Total \in Nat
    <3>1. Total \in Nat \ {0} /\ wire[k] \in Nat /\ part[k] \in 0 .. 1
          /\ asked[k] * Total \in Nat
      BY <1>1, Responses, OneMore DEF ConnTypeOK
    <3>2. ~(wire[k] + buf[s] = part[k])
      BY <1>3, <1>6, <1>10, <3>1 DEF RequestLen
    <3>3. /\ Len(got[k]) + Total = asked[k] * Total
          /\ wire[k] + buf[s] = 2 /\ part[k] = 0
      BY <2>1, <3>2 DEF Reading
    <3>4. wire'[k] = 0
      BY <1>3, <1>4, <1>6, <1>10, <3>1, <3>3 DEF RequestLen
    <3>. QED
      BY <3>1, <3>3, <3>4
  <2>3. Serving(k, 0)'
    <3>1. 0 \in 0 .. Total - 1 /\ asked[k] * Total + 0 = asked[k] * Total
      BY <2>2
    <3>. QED
      BY <1>3, <2>2, <3>1 DEF Serving, Total
  <2>4. CASE Offload(s)
    <3>1. /\ op' \in [Slots -> {"none", "recv", "send"}] /\ op'[s] = "none"
          /\ \A t \in Slots \ {s} : op'[t] = op[t] /\ (t \in pooled' <=> t \in pooled)
          /\ pooled' \subseteq Slots /\ UNCHANGED <<peer, iov, resp_sent, phase>>
      BY <1>1, <2>4 DEF Offload, ConnTypeOK
    <3>2. Calm
      BY <1>1, <1>6, <1>10, <3>1 DEF ConnTypeOK
    <3>3. Talk(s)'
      BY <1>2, <1>10, <2>3, <3>1 DEF Talk
    <3>. QED
      BY <1>1, <1>8, <3>1, <3>2, <3>3 DEF ConnTypeOK
  <2>5. CASE AnswerNow(s)
    <3>1. Calm /\ resp_sent'[s] = 0
      BY <1>1, <1>6, <1>10, <2>5 DEF AnswerNow, ConnTypeOK
    <3>2. CASE PostSend(s, 0) /\ Close(s)
      BY <1>7, <3>1, <3>2
    <3>3. CASE PostSend(s, 0) /\ ~Close(s)
      <4>1. /\ op' \in [Slots -> {"none", "recv", "send"}] /\ iov' \in [Slots -> Seq(Units)]
            /\ op'[s] = "send" /\ iov'[s] = Rest(0)
            /\ pooled' = pooled \ {s} /\ UNCHANGED <<peer, phase>>
            /\ \A t \in Slots \ {s} : op'[t] = op[t] /\ iov'[t] = iov[t]
        <5>1. 0 \in 0 .. Total - 1
          BY <2>2
        <5>. QED
          BY <1>1, <3>3, <5>1, Posted
      <4>2. Rest(0)' = Rest(0)
        BY DEF Rest, Header, Body
      <4>3. Talk(s)'
        BY <1>2, <1>10, <2>3, <3>1, <4>1, <4>2 DEF Talk
      <4>4. pooled' \subseteq Slots /\ s \notin pooled'
            /\ \A t \in Slots \ {s} : t \in pooled' <=> t \in pooled
        BY <1>1, <4>1 DEF ConnTypeOK
      <4>. QED
        BY <1>8, <3>1, <4>1, <4>3, <4>4
    <3>4. CASE op' = [op EXCEPT ![s] = "none"] /\ UNCHANGED <<peer, iov, pooled, phase>>
      <4>1. /\ op' \in [Slots -> {"none", "recv", "send"}] /\ op'[s] = "none"
            /\ \A t \in Slots \ {s} : op'[t] = op[t]
        BY <1>1, <3>4 DEF ConnTypeOK
      <4>2. Talk(s)'
        BY <1>3, <1>10, <3>4, <4>1 DEF Talk
      <4>. QED
        BY <1>1, <1>8, <3>1, <3>4, <4>1, <4>2 DEF ConnTypeOK
    <3>. QED
      BY <2>5, <3>2, <3>3, <3>4 DEF AnswerNow
  <2>. QED
    BY <1>10, <2>4, <2>5 DEF Dispatch
<1>11. CASE /\ mode[s] # "http" \/ \E m \in Modes \ {"http"} : mode' = [mode EXCEPT ![s] = m]
            /\ mode[s] # "http" => UNCHANGED mode
            /\ buf' = [buf EXCEPT ![s] = 0]
            /\ PostRecv(s) \/ Close(s)
            /\ UNCHANGED <<keep, resp_sent>>
  <2>1. Calm /\ mode'[s] # "http"
    BY <1>1, <1>11 DEF ConnTypeOK, Modes
  <2>2. CASE Close(s)
    BY <1>7, <2>1, <2>2
  <2>3. CASE ~Close(s)
    <3>1. /\ op' \in [Slots -> {"none", "recv", "send"}] /\ iov' \in [Slots -> Seq(Units)]
          /\ op'[s] = "recv" /\ pooled' = pooled \ {s} /\ UNCHANGED <<peer, phase>>
          /\ \A t \in Slots \ {s} : op'[t] = op[t] /\ iov'[t] = iov[t]
      BY <1>1, <1>11, <2>3, Posted
    <3>2. Talk(s)'
      BY <2>1, <3>1 DEF Talk
    <3>3. pooled' \subseteq Slots /\ s \notin pooled'
          /\ \A t \in Slots \ {s} : t \in pooled' <=> t \in pooled
      BY <1>1, <3>1 DEF ConnTypeOK
    <3>. QED
      BY <1>8, <2>1, <3>1, <3>2, <3>3
  <2>. QED
    BY <2>2, <2>3
<1>. QED
  BY <1>9, <1>10, <1>11 DEF RecvDone

(* The peer shut its side. *)
LEMMA RecvClosedInv ==
  ASSUME ConnInv, NEW s \in Slots, Live(s), RecvClosed(s)
  PROVE  ConnInv'
<1>1. /\ ConnTypeOK /\ peer[s] \in Clients /\ Told(peer[s])
  BY SlotFacts
<1>2. PICK k \in Clients : k = peer[s]
  BY <1>1
<1>3. /\ UNCHANGED <<mode, buf, resp_sent, wire, part, asked, got>>
      /\ SlotFreed(s) /\ ConnTypeOK'
      /\ \A t \in Slots \ {s} : op'[t] = op[t] /\ iov'[t] = iov[t]
  BY <1>1, Posted DEF RecvClosed, ConnTypeOK
<1>4. \A t \in Slots \ {s} : t \in pooled' <=> t \in pooled
  BY <1>3 DEF SlotFreed
<1>5. Told(k)'
  BY <1>1, <1>2, <1>3, ToldSame
<1>. QED
  BY <1>2, <1>3, <1>4, <1>5, SlotStep

(* A handler has run, and its thread posts the response. *)
LEMMA HandlerDoneInv ==
  ASSUME ConnInv, NEW s \in Slots, HandlerDone(s)
  PROVE  ConnInv'
<1>1. Live(s) /\ s \in pooled
  BY DEF ConnInv, Owned, OneOwner, HandlerDone
<1>2. ConnTypeOK /\ peer[s] \in Clients /\ Talk(s) /\ Told(peer[s])
  BY <1>1, SlotFacts
<1>3. PICK k \in Clients : k = peer[s]
  BY <1>2
<1>4. /\ UNCHANGED <<mode, buf, wire, part, asked, got>>
      /\ resp_sent' \in [Slots -> Nat] /\ resp_sent'[s] = 0
      /\ \A t \in Slots \ {s} : resp_sent'[t] = resp_sent[t]
  BY <1>2 DEF HandlerDone, ConnTypeOK
<1>5. Told(k)'
  BY <1>2, <1>3, <1>4, ToldSame
<1>6. CASE Close(s)
  <2>1. /\ SlotFreed(s) /\ ConnTypeOK'
        /\ \A t \in Slots \ {s} : op'[t] = op[t] /\ iov'[t] = iov[t]
    BY <1>2, <1>4, <1>6, Posted DEF ConnTypeOK
  <2>2. \A t \in Slots \ {s} : t \in pooled' <=> t \in pooled
    BY <2>1 DEF SlotFreed
  <2>. QED
    BY <1>1, <1>3, <1>4, <1>5, <2>1, <2>2, SlotStep
<1>7. CASE ~Close(s)
  <2>1. 0 \in 0 .. Total - 1 /\ Serving(k, 0) /\ mode[s] = "http"
    BY <1>1, <1>2, <1>3 DEF Talk, Serving
  <2>2. /\ op' \in [Slots -> {"none", "recv", "send"}] /\ iov' \in [Slots -> Seq(Units)]
        /\ op'[s] = "send" /\ iov'[s] = Rest(0)
        /\ pooled' = pooled \ {s} /\ UNCHANGED <<peer, phase>>
        /\ \A t \in Slots \ {s} : op'[t] = op[t] /\ iov'[t] = iov[t]
    BY <1>2, <1>7, <2>1, Posted DEF HandlerDone
  <2>3. Serving(k, 0)'
    BY <1>4, <2>1 DEF Serving, Total
  <2>4. Rest(0)' = Rest(0)
    BY DEF Rest, Header, Body
  <2>5. Talk(s)'
    BY <1>3, <1>4, <2>1, <2>2, <2>3, <2>4 DEF Talk
  <2>6. ConnTypeOK' /\ s \notin pooled'
        /\ \A t \in Slots \ {s} : t \in pooled' <=> t \in pooled
    BY <1>2, <1>4, <2>2 DEF ConnTypeOK
  <2>. QED
    BY <1>1, <1>3, <1>4, <1>5, <2>2, <2>5, <2>6, SlotStep
<1>. QED
  BY <1>6, <1>7

(* A send completes. *)
LEMMA SendDoneInv ==
  ASSUME ConnInv, NEW s \in Slots, Live(s), NEW n \in 1 .. Len(Response), SendDone(s, n)
  PROVE  ConnInv'
<1>1. /\ ConnTypeOK /\ peer[s] \in Clients /\ Talk(s) /\ Told(peer[s])
      /\ ~(op[s] # "none" /\ s \in pooled)
  BY SlotFacts
<1>2. PICK k \in Clients : k = peer[s]
  BY <1>1
<1>3. PICK b : b = resp_sent[s]
  OBVIOUS
<1>4. /\ op[s] = "send" /\ mode[s] = "http" /\ s \notin pooled
      /\ Serving(k, b) /\ iov[s] = Rest(b)
  BY <1>1, <1>2, <1>3 DEF SendDone, Talk
<1>5. /\ Total \in Nat \ {0} /\ b \in Nat /\ b \in 0 .. Total - 1
      /\ Len(Rest(b)) = Total - b /\ n \in Nat
  BY <1>4, Responses DEF Serving
<1>6. PICK m \in Nat : m = b + n
  BY <1>5
<1>7. /\ n \in 1 .. Total - b
      /\ got' = [got EXCEPT ![k] = @ \o SubSeq(Rest(b), 1, n)]
      /\ resp_sent' = [resp_sent EXCEPT ![s] = m]
      /\ UNCHANGED <<mode, wire, part, asked>>
      /\ \/ m < Total /\ PostSend(s, m) /\ UNCHANGED buf
         \/ m >= Total /\ keep[s] /\ buf' = [buf EXCEPT ![s] = 0] /\ PostRecv(s)
         \/ m >= Total /\ Close(s) /\ UNCHANGED buf
  BY <1>2, <1>3, <1>4, <1>5, <1>6, Responses DEF SendDone
<1>8. /\ resp_sent' \in [Slots -> Nat] /\ resp_sent'[s] = m
      /\ \A t \in Slots \ {s} : resp_sent'[t] = resp_sent[t]
      /\ buf' \in [Slots -> Nat]
      /\ \A t \in Slots \ {s} : buf'[t] = buf[t]
  <2>1. resp_sent \in [Slots -> Nat] /\ buf \in [Slots -> Nat]
    BY <1>1 DEF ConnTypeOK
  <2>2. buf' = buf \/ buf' = [buf EXCEPT ![s] = 0]
    BY <1>7
  <2>3. buf' \in [Slots -> Nat] /\ \A t \in Slots \ {s} : buf'[t] = buf[t]
    BY ONLY <2>1, <2>2
  <2>. QED
    BY <1>6, <1>7, <2>1, <2>3
<1>9. /\ got' \in [Clients -> Seq(Units)] /\ Told(k)'
      /\ Len(got'[k]) = Len(got[k]) + n
      /\ \A j \in Clients \ {k} : got'[j] = got[j]
  BY <1>1, <1>2, <1>4, <1>5, <1>7, ToldMore
<1>10. /\ Len(got[k]) \in Nat /\ asked[k] * Total \in Nat
       /\ Len(got[k]) + Total = asked[k] * Total + b /\ wire[k] = 0 /\ part[k] = 0
  <2>1. Len(got[k]) \in Nat /\ asked[k] \in Nat
    BY <1>1 DEF ConnTypeOK
  <2>2. asked[k] * Total \in Nat
    BY <1>5, <2>1, OneMore
  <2>. QED
    BY <1>4, <2>1, <2>2 DEF Serving
<1>11. Len(got'[k]) + Total = asked[k] * Total + m
  <2> DEFINE p == asked[k] * Total
  <2>1. p \in Nat /\ Len(got[k]) + Total = p + b
    BY <1>10
  <2> HIDE DEF p
  <2>2. Len(got'[k]) + Total = p + m
    <3>1. /\ Len(got[k]) \in Nat /\ b \in Nat /\ n \in Nat /\ Total \in Nat
          /\ m = b + n /\ Len(got'[k]) = Len(got[k]) + n
      BY <1>5, <1>6, <1>9, <1>10
    <3>. QED
      BY ONLY <2>1, <3>1
  <2>. QED
    BY <2>2 DEF p
<1>12. CASE Close(s)
  <2>1. /\ SlotFreed(s) /\ ConnTypeOK'
        /\ \A t \in Slots \ {s} : op'[t] = op[t] /\ iov'[t] = iov[t]
    BY <1>1, <1>7, <1>8, <1>9, <1>12, Posted DEF ConnTypeOK
  <2>2. \A t \in Slots \ {s} : t \in pooled' <=> t \in pooled
    BY <2>1 DEF SlotFreed
  <2>. QED
    BY <1>2, <1>7, <1>8, <1>9, <2>1, <2>2, SlotStep
<1>13. CASE ~Close(s) /\ m < Total /\ PostSend(s, m)
  <2>1. m \in 0 .. Total - 1
    BY <1>5, <1>13
  <2>2. /\ op' \in [Slots -> {"none", "recv", "send"}] /\ iov' \in [Slots -> Seq(Units)]
        /\ op'[s] = "send" /\ iov'[s] = Rest(m)
        /\ pooled' = pooled \ {s} /\ UNCHANGED <<peer, phase>>
        /\ \A t \in Slots \ {s} : op'[t] = op[t] /\ iov'[t] = iov[t]
    BY <1>1, <1>13, <2>1, Posted
  <2>3. Serving(k, m)'
    BY <1>7, <1>10, <1>11, <2>1 DEF Serving, Total
  <2>4. Rest(m)' = Rest(m)
    BY DEF Rest, Header, Body
  <2>5. Talk(s)'
    BY <1>2, <1>4, <1>7, <1>8, <2>2, <2>3, <2>4 DEF Talk
  <2>6. ConnTypeOK' /\ s \notin pooled'
        /\ \A t \in Slots \ {s} : t \in pooled' <=> t \in pooled
    BY <1>1, <1>7, <1>8, <1>9, <2>2 DEF ConnTypeOK
  <2>. QED
    BY <1>2, <1>7, <1>8, <1>9, <2>2, <2>5, <2>6, SlotStep
<1>14. CASE ~Close(s) /\ m >= Total /\ buf' = [buf EXCEPT ![s] = 0] /\ PostRecv(s)
  <2>1. m = Total
    BY <1>5, <1>6, <1>7, <1>14
  <2>2. /\ op' \in [Slots -> {"none", "recv", "send"}] /\ iov' \in [Slots -> Seq(Units)]
        /\ op'[s] = "recv" /\ pooled' = pooled \ {s} /\ UNCHANGED <<peer, phase>>
        /\ \A t \in Slots \ {s} : op'[t] = op[t] /\ iov'[t] = iov[t]
    BY <1>1, <1>14, Posted
  <2>3. Len(got'[k]) = asked[k] * Total
    <3> DEFINE p == asked[k] * Total
    <3>1. p \in Nat /\ Len(got'[k]) + Total = p + Total /\ Len(got'[k]) \in Nat
      BY <1>5, <1>9, <1>10, <1>11, <2>1
    <3> HIDE DEF p
    <3>2. Len(got'[k]) = p
      BY <1>5, <3>1
    <3>. QED
      BY <3>2 DEF p
  <2>4. Reading(k, 0)'
    BY <1>7, <1>10, <2>3 DEF Reading, Total
  <2>5. buf'[s] = 0
    BY <1>1, <1>14 DEF ConnTypeOK
  <2>6. Talk(s)'
    BY <1>2, <1>4, <1>7, <2>2, <2>4, <2>5 DEF Talk
  <2>7. ConnTypeOK' /\ s \notin pooled'
        /\ \A t \in Slots \ {s} : t \in pooled' <=> t \in pooled
    BY <1>1, <1>7, <1>8, <1>9, <2>2 DEF ConnTypeOK
  <2>. QED
    BY <1>2, <1>7, <1>8, <1>9, <2>2, <2>6, <2>7, SlotStep
<1>. QED
  BY <1>7, <1>12, <1>13, <1>14

(* An operation fails: its connection is left without an owner. *)
LEMMA OpFailedInv ==
  ASSUME ConnInv, NEW s \in Slots, OpFailed(s)
  PROVE  ConnInv'
<1>1. Live(s)
  BY DEF OpFailed
<1>2. /\ ConnTypeOK /\ peer[s] \in Clients /\ Talk(s) /\ Told(peer[s])
      /\ ~(op[s] # "none" /\ s \in pooled)
  BY <1>1, SlotFacts
<1>3. PICK k \in Clients : k = peer[s]
  BY <1>2
<1>4. /\ op[s] # "none" /\ s \notin pooled
      /\ op' = [op EXCEPT ![s] = "none"]
      /\ UNCHANGED <<peer, iov, pooled, mode, buf, resp_sent, clientVars>>
  BY <1>2 DEF OpFailed
<1>5. /\ op' \in [Slots -> {"none", "recv", "send"}] /\ op'[s] = "none"
      /\ \A t \in Slots \ {s} : op'[t] = op[t]
  BY <1>2, <1>4 DEF ConnTypeOK
<1>6. ConnTypeOK' /\ Told(k)'
  BY <1>2, <1>3, <1>4, <1>5, ToldSame DEF ConnTypeOK, clientVars
<1>7. Talk(s)'
  BY <1>4, <1>5 DEF Talk
<1>. QED
  BY <1>1, <1>3, <1>4, <1>5, <1>6, <1>7, SlotStep DEF clientVars

(* A client sends a part of a request: only to a connection that reads, or *)
(* to a session.                                                           *)
LEMMA ClientSendsInv ==
  ASSUME ConnInv, NEW k \in Clients, ClientSends(k)
  PROVE  ConnInv'
<1> USE DEF ConnInv
<1>1. PICK n \in 1 .. RequestLen - part[k] :
        /\ wire[k] + n <= RequestLen
        /\ wire' = [wire EXCEPT ![k] = @ + n]
        /\ IF part[k] + n < RequestLen
             THEN /\ part' = [part EXCEPT ![k] = @ + n]
                  /\ UNCHANGED <<asked, lastReq>>
             ELSE /\ part'  = [part EXCEPT ![k] = 0]
                  /\ asked' = [asked EXCEPT ![k] = @ + 1]
  BY DEF ClientSends
<1>2. /\ phase[k] = "open"
      /\ part[k] = 0 => Answered(k) \/ InSession(k)
      /\ UNCHANGED <<peer, op, iov, pooled, mode, buf, resp_sent, phase, got>>
  BY DEF ClientSends, connVars
<1>3. /\ part[k] \in 0 .. 1 /\ wire[k] \in Nat /\ asked[k] \in Nat /\ Len(got[k]) \in Nat
      /\ n \in Nat /\ n > 0 /\ n <= 2 - part[k]
      /\ Total \in Nat \ {0} /\ Len(Response) = Total
      /\ asked[k] * Total \in Nat /\ (asked[k] + 1) * Total = asked[k] * Total + Total
  <2>1. part[k] \in 0 .. 1 /\ wire[k] \in Nat /\ asked[k] \in Nat /\ Len(got[k]) \in Nat
    BY DEF ConnTypeOK
  <2>2. Total \in Nat \ {0} /\ Len(Response) = Total
    BY Responses
  <2>3. n \in Nat /\ n > 0 /\ n <= 2 - part[k]
    BY <1>1, <2>1 DEF RequestLen
  <2>. QED
    BY <2>1, <2>2, <2>3, OneMore
<1>4. /\ wire' \in [Clients -> Nat] /\ wire'[k] = wire[k] + n
      /\ \A j \in Clients \ {k} : wire'[j] = wire[j]
  BY <1>1, <1>3 DEF ConnTypeOK
<1>5. \/ /\ part[k] = 0 /\ n = 1 /\ part'[k] = 1 /\ asked'[k] = asked[k]
         /\ part' \in [Clients -> 0 .. 1] /\ asked' \in [Clients -> Nat]
         /\ \A j \in Clients \ {k} : part'[j] = part[j] /\ asked'[j] = asked[j]
      \/ /\ part[k] + n = 2 /\ part'[k] = 0 /\ asked'[k] = asked[k] + 1
         /\ part' \in [Clients -> 0 .. 1] /\ asked' \in [Clients -> Nat]
         /\ \A j \in Clients \ {k} : part'[j] = part[j] /\ asked'[j] = asked[j]
  <2>1. CASE part[k] + n < RequestLen
    <3>1. part[k] = 0 /\ n = 1 /\ part[k] + n = 1
      BY <1>3, <2>1 DEF RequestLen
    <3>2. part' = [part EXCEPT ![k] = part[k] + n] /\ asked' = asked
      BY <1>1, <2>1
    <3>3. part' \in [Clients -> 0 .. 1] /\ part'[k] = 1 /\ \A j \in Clients \ {k} : part'[j] = part[j]
      BY <3>1, <3>2 DEF ConnTypeOK
    <3>. QED
      BY <3>1, <3>2, <3>3 DEF ConnTypeOK
  <2>2. CASE ~(part[k] + n < RequestLen)
    <3>1. part[k] + n = 2
      BY <1>3, <2>2 DEF RequestLen
    <3>. QED
      <4>1. part' = [part EXCEPT ![k] = 0] /\ asked' = [asked EXCEPT ![k] = asked[k] + 1]
        BY <1>1, <2>2
      <4>2. part' \in [Clients -> 0 .. 1] /\ part'[k] = 0 /\ \A j \in Clients \ {k} : part'[j] = part[j]
        BY <4>1 DEF ConnTypeOK
      <4>3. /\ asked' \in [Clients -> Nat] /\ asked'[k] = asked[k] + 1
            /\ \A j \in Clients \ {k} : asked'[j] = asked[j]
        <5>1. asked[k] + 1 \in Nat
          BY <1>3
        <5>. QED
          BY <4>1, <5>1 DEF ConnTypeOK
      <4>. QED
        BY <3>1, <4>2, <4>3
  <2>. QED
    BY <2>1, <2>2
<1>6. ConnTypeOK'
  BY <1>2, <1>4, <1>5 DEF ConnTypeOK
<1>7. Owned'
  <2>1. OneOwner'
    BY <1>2 DEF Owned, OneOwner, Live
  <2>2. ASSUME NEW j \in Clients, phase'[j] = "away"
        PROVE  asked'[j] = 0 /\ got'[j] = <<>> /\ wire'[j] = 0 /\ part'[j] = 0
    <3>1. j # k /\ phase[j] = "away"
      BY <1>2, <2>2
    <3>. QED
      BY <1>2, <1>4, <1>5, <3>1 DEF Owned
  <2>. QED
    BY <1>2, <2>1, <2>2 DEF Owned, Live
<1>8. ASSUME NEW s \in Slots, Live(s)' PROVE Talk(s)'
  <2>1. Live(s) /\ Talk(s) /\ peer[s] \in Clients
    BY <1>2, <1>8 DEF Live, ConnTypeOK
  <2>2. CASE peer[s] # k
    <3>1. \A b : Serving(peer[s], b)' <=> Serving(peer[s], b)
      BY <1>2, <1>4, <1>5, <2>1, <2>2 DEF Serving
    <3>2. \A b : Reading(peer[s], b)' <=> Reading(peer[s], b)
      BY <1>2, <1>4, <1>5, <2>1, <2>2 DEF Reading
    <3>3. \A b : Rest(b)' = Rest(b)
      BY DEF Rest, Header, Body
    <3>. QED
      BY <1>2, <2>1, <3>1, <3>2, <3>3 DEF Talk
  <2>3. CASE peer[s] = k /\ mode[s] # "http"
    BY <1>2, <2>1, <2>3 DEF Talk
  <2>4. CASE peer[s] = k /\ mode[s] = "http"
    <3>1. ~InSession(k)
      BY <2>1, <2>4 DEF InSession, Owned, OneOwner
    <3>2. part[k] = 0 => Len(got[k]) = asked[k] * Total
      BY <1>2, <1>3, <3>1 DEF Answered
    <3>3. ASSUME NEW b, Serving(k, b) PROVE FALSE
      <4> DEFINE p == asked[k] * Total
      <4>1. p \in Nat /\ Len(got[k]) = p /\ Len(got[k]) + Total = p + b /\ b \in 0 .. Total - 1
        BY <1>3, <3>2, <3>3 DEF Serving
      <4> HIDE DEF p
      <4>. QED
        BY <1>3, <4>1
    <3>4. op[s] # "send" /\ s \notin pooled
      BY <2>1, <2>4, <3>3 DEF Talk
    <3>5. CASE op[s] = "recv"
      <4>1. PICK b : b = buf[s]
        OBVIOUS
      <4>2. Reading(k, b)
        BY <2>1, <2>4, <3>5, <4>1 DEF Talk
      <4> DEFINE p == asked[k] * Total
                 q == asked'[k] * Total
      <4>3. /\ p \in Nat /\ b \in 0 .. 1 /\ (part[k] = 0 => Len(got[k]) = p)
            /\ \/ Len(got[k]) = p /\ wire[k] + b = part[k]
               \/ Len(got[k]) + Total = p /\ wire[k] + b = 2 /\ part[k] = 0
        BY <1>3, <3>2, <4>2 DEF Reading
      <4>4. \/ part'[k] = part[k] + n /\ q = p
            \/ part[k] + n = 2 /\ part'[k] = 0 /\ q = p + Total
        BY <1>3, <1>5
      <4> HIDE DEF p, q
      <4>5. Len(got[k]) = p /\ wire[k] + b = part[k]
        BY <1>3, <4>3
      <4>6. \/ Len(got[k]) = q /\ wire'[k] + b = part'[k]
            \/ Len(got[k]) + Total = q /\ wire'[k] + b = 2 /\ part'[k] = 0
        BY <1>3, <1>4, <4>3, <4>4, <4>5
      <4>7. Reading(k, b)'
        BY <1>2, <4>3, <4>6 DEF Reading, Total, q
      <4>. QED
        BY <1>2, <2>4, <3>4, <3>5, <4>1, <4>7 DEF Talk
    <3>6. CASE op[s] # "recv"
      BY <1>2, <2>4, <3>4, <3>6 DEF Talk
    <3>. QED
      BY <3>5, <3>6
  <2>. QED
    BY <2>2, <2>3, <2>4
<1>9. ASSUME NEW j \in Clients PROVE Told(j)'
  <2>1. Told(j) /\ got'[j] = got[j]
    BY <1>2
  <2>2. CASE asked'[j] = asked[j]
    BY <2>1, <2>2 DEF Told
  <2>3. CASE asked'[j] # asked[j]
    <3>1. j = k /\ asked'[k] = asked[k] + 1
      BY <1>5, <2>3
    <3>2. Len(got[k]) <= (asked[k] + 1) * Total
      <4> DEFINE p == asked[k] * Total
                 q == (asked[k] + 1) * Total
      <4>1. p \in Nat /\ q = p + Total /\ Len(got[k]) <= p
        BY <1>3, <2>1, <3>1 DEF Told
      <4> HIDE DEF p, q
      <4>2. Len(got[k]) <= q
        BY <1>3, <4>1
      <4>. QED
        BY <4>2 DEF q
    <3>3. \A r \in 0 .. asked[k] - 1 : r \in 0 .. asked'[k] - 1
      BY <1>3, <3>1
    <3>. QED
      BY <2>1, <3>1, <3>2, <3>3 DEF Told
  <2>. QED
    BY <2>2, <2>3
<1>. QED
  BY <1>6, <1>7, <1>8, <1>9

(* Steps that no connection sees. *)
LEMMA QuietStep ==
  ASSUME ConnInv,
         UNCHANGED <<peer, op, iov, pooled, mode, buf, resp_sent, wire, part, asked, got>>,
         \/ UNCHANGED phase
         \/ \E k \in Clients, p \in {"shut", "reset"} :
              phase[k] = "open" /\ phase' = [phase EXCEPT ![k] = p]
  PROVE  ConnInv'
<1> USE DEF ConnInv
<1>1. /\ phase' \in [Clients -> {"away", "open", "shut", "reset", "closed"}]
      /\ \A k \in Clients : phase'[k] = "away" <=> phase[k] = "away"
      /\ \A k \in Clients : phase'[k] = "closed" <=> phase[k] = "closed"
  <2>1. phase \in [Clients -> {"away", "open", "shut", "reset", "closed"}]
    BY DEF ConnTypeOK
  <2>2. ASSUME NEW k \in Clients, NEW p \in {"shut", "reset"},
               phase[k] = "open", phase' = [phase EXCEPT ![k] = p]
        PROVE  /\ phase' \in [Clients -> {"away", "open", "shut", "reset", "closed"}]
               /\ \A j \in Clients : phase'[j] = "away" <=> phase[j] = "away"
               /\ \A j \in Clients : phase'[j] = "closed" <=> phase[j] = "closed"
    BY ONLY <2>1, <2>2
  <2>. QED
    BY <2>1, <2>2
<1>2. ConnTypeOK'
  BY <1>1 DEF ConnTypeOK
<1>3. Owned'
  <2>1. OneOwner'
    BY DEF Owned, OneOwner, Live
  <2>2. \A s \in Slots : Live(s) => peer[s] \in Clients
    BY DEF ConnTypeOK, Live
  <2>. QED
    BY <1>1, <2>1, <2>2 DEF Owned, Live
<1>4. ASSUME NEW s \in Slots, Live(s)' PROVE Talk(s)'
  <2>1. Talk(s)
    BY <1>4 DEF Live
  <2>2. \A k, b : (Reading(k, b)' <=> Reading(k, b)) /\ (Serving(k, b)' <=> Serving(k, b))
    BY DEF Reading, Serving
  <2>3. \A b : Rest(b)' = Rest(b)
    BY DEF Rest, Header, Body
  <2>. QED
    BY <2>1, <2>2, <2>3 DEF Talk
<1>5. \A k \in Clients : Told(k)'
  BY ToldSame
<1>. QED
  BY <1>2, <1>3, <1>4, <1>5

(* A client is accepted into a free slot, or its first receive fails. *)
LEMMA AcceptDoneInv ==
  ASSUME ConnInv, NEW k \in Clients, NEW s \in Slots, AcceptDone(k, s)
  PROVE  ConnInv'
<1> USE DEF ConnInv
<1>1. /\ phase[k] = "away" /\ ~Live(s) /\ UNCHANGED <<pooled, wire, part, asked, got>>
      /\ mode' = [mode EXCEPT ![s] = "http"] /\ buf' = [buf EXCEPT ![s] = 0]
      /\ resp_sent' = [resp_sent EXCEPT ![s] = 0] /\ iov' = [iov EXCEPT ![s] = <<>>]
      /\ \/ /\ op'    = [op EXCEPT ![s] = "recv"]
            /\ peer'  = [peer EXCEPT ![s] = k]
            /\ phase' = [phase EXCEPT ![k] = "open"]
         \/ /\ phase' = [phase EXCEPT ![k] = "closed"]
            /\ UNCHANGED <<op, peer>>
  BY DEF AcceptDone
<1>2. /\ mode'[s] = "http" /\ buf'[s] = 0
      /\ \A t \in Slots \ {s} : /\ mode'[t] = mode[t] /\ buf'[t] = buf[t]
                                /\ resp_sent'[t] = resp_sent[t] /\ iov'[t] = iov[t]
      /\ mode' \in [Slots -> {"http", "ws", "h2"}] /\ buf' \in [Slots -> Nat]
      /\ resp_sent' \in [Slots -> Nat] /\ iov' \in [Slots -> Seq(Units)]
  <2>1. <<>> \in Seq(Units)
    OBVIOUS
  <2>. QED
    BY <1>1, <2>1 DEF ConnTypeOK
<1>3. s \notin pooled /\ \A t \in Slots : peer[t] # k
  BY <1>1, ServerAssumption DEF Owned, OneOwner, Live, ServerAssumption
<1>4. ASSUME NEW t \in Slots \ {s}, Live(t), peer'[t] = peer[t], op'[t] = op[t]
      PROVE  Talk(t)'
  <2>1. Talk(t)
    BY <1>4
  <2>2. \A b : /\ Reading(peer[t], b)' <=> Reading(peer[t], b)
               /\ Serving(peer[t], b)' <=> Serving(peer[t], b)
    BY <1>1, <1>4 DEF Reading, Serving
  <2>3. \A b : Rest(b)' = Rest(b)
    BY DEF Rest, Header, Body
  <2>. QED
    BY <1>1, <1>2, <1>4, <2>1, <2>2, <2>3 DEF Talk
<1>5. \A j \in Clients : Told(j)'
  BY <1>1, ToldSame
<1>6. \A j \in Clients \ {k} : phase'[j] = phase[j]
  BY <1>1 DEF ConnTypeOK
<1>7. CASE /\ op'    = [op EXCEPT ![s] = "recv"]
           /\ peer'  = [peer EXCEPT ![s] = k]
           /\ phase' = [phase EXCEPT ![k] = "open"]
  <2>1. /\ ConnTypeOK' /\ op'[s] = "recv" /\ peer'[s] = k /\ phase'[k] = "open"
        /\ \A t \in Slots \ {s} : op'[t] = op[t] /\ peer'[t] = peer[t]
    BY <1>1, <1>2, <1>7 DEF ConnTypeOK
  <2>2. None # k
    BY ServerAssumption DEF ServerAssumption
  <2>3. Owned'
    <3>1. OneOwner'
      BY <1>1, <1>3, <2>1, <2>2 DEF Owned, OneOwner, Live
    <3>2. \A t \in Slots : Live(t)' => phase'[peer'[t]] \notin {"away", "closed"}
      <4>1. ASSUME NEW t \in Slots \ {s}, Live(t)'
            PROVE  phase'[peer'[t]] \notin {"away", "closed"}
        <5>1. peer'[t] = peer[t] /\ Live(t) /\ peer[t] \in Clients \ {k}
          BY <1>3, <2>1, <4>1 DEF Live, ConnTypeOK
        <5>. QED
          BY <1>6, <5>1 DEF Owned
      <4>. QED
        BY <2>1, <4>1
    <3>3. \A j \in Clients : phase'[j] = "away" =>
            asked'[j] = 0 /\ got'[j] = <<>> /\ wire'[j] = 0 /\ part'[j] = 0
      BY <1>1, <1>6, <2>1 DEF Owned
    <3>. QED
      BY <3>1, <3>2, <3>3 DEF Owned
  <2>4. Talk(s)'
    <3>1. asked[k] = 0 /\ got[k] = <<>> /\ wire[k] = 0 /\ part[k] = 0
      BY <1>1 DEF Owned
    <3>2. Len(got[k]) = asked[k] * Total
      BY <3>1, Responses
    <3>3. Reading(k, 0)'
      BY <1>1, <3>1, <3>2 DEF Reading, Total
    <3>. QED
      BY <1>1, <1>2, <1>3, <2>1, <3>3 DEF Talk
  <2>5. ASSUME NEW t \in Slots, Live(t)' PROVE Talk(t)'
    BY <1>4, <2>1, <2>4, <2>5 DEF Live
  <2>. QED
    BY <1>5, <2>1, <2>3, <2>5
<1>8. CASE phase' = [phase EXCEPT ![k] = "closed"] /\ UNCHANGED <<op, peer>>
  <2>1. ConnTypeOK' /\ phase'[k] = "closed"
    BY <1>1, <1>2, <1>8 DEF ConnTypeOK
  <2>2. OneOwner'
    BY <1>1, <1>8 DEF Owned, OneOwner, Live
  <2>3. \A t \in Slots : Live(t)' => phase'[peer'[t]] \notin {"away", "closed"}
    BY <1>3, <1>6, <1>8 DEF Owned, Live, ConnTypeOK
  <2>4. \A j \in Clients : phase'[j] = "away" =>
          asked'[j] = 0 /\ got'[j] = <<>> /\ wire'[j] = 0 /\ part'[j] = 0
    BY <1>1, <1>6, <2>1 DEF Owned
  <2>5. ASSUME NEW t \in Slots, Live(t)' PROVE Talk(t)'
    BY <1>1, <1>4, <1>8, <2>5 DEF Live
  <2>. QED
    BY <1>5, <2>1, <2>2, <2>3, <2>4, <2>5 DEF Owned
<1>. QED
  BY <1>1, <1>7, <1>8

----------------------------------------------------------------------------
(* No client is there yet. *)
LEMMA ConnStart == Init => ConnInv
<1> SUFFICES ASSUME Init PROVE ConnInv
  OBVIOUS
<1>1. ConnTypeOK
  <2>1. <<>> \in Seq(Units)
    OBVIOUS
  <2>. QED
    BY <2>1 DEF Init, ConnTypeOK
<1>2. \A s \in Slots : ~Live(s) /\ op[s] = "none" /\ s \notin pooled
  BY DEF Init, Live
<1>3. Owned
  BY <1>2 DEF Init, Owned, OneOwner
<1>4. ASSUME NEW k \in Clients PROVE Told(k)
  <2>1. got[k] = <<>> /\ asked[k] = 0 /\ Len(got[k]) = 0 /\ Total \in Nat
    BY Responses DEF Init
  <2>2. 0 * Total = 0
    BY <2>1
  <2>. QED
    BY <2>1, <2>2 DEF Told
<1>. QED
  BY <1>1, <1>2, <1>3, <1>4 DEF ConnInv

(* One case per action. *)
LEMMA ConnNext == ConnInv /\ [Next]_vars => ConnInv'
<1> SUFFICES ASSUME ConnInv, [Next]_vars PROVE ConnInv'
  OBVIOUS
<1>1. CASE UNCHANGED vars
  BY <1>1, QuietStep DEF vars, connVars, clientVars
<1>2. ASSUME NEW k \in Clients, ClientSends(k) PROVE ConnInv'
  BY <1>2, ClientSendsInv
<1>3. ASSUME NEW k \in Clients, ClientLeaves(k) PROVE ConnInv'
  <2>1. \E p \in {"shut", "reset"} : phase[k] = "open" /\ phase' = [phase EXCEPT ![k] = p]
    BY <1>3 DEF ClientLeaves, CanFail
  <2>. QED
    BY <1>3, <2>1, QuietStep DEF ClientLeaves, connVars
<1>4. ASSUME NEW k \in Clients, NEW s \in Slots, AcceptDone(k, s) PROVE ConnInv'
  BY <1>4, AcceptDoneInv
<1>5. CASE AcceptFailed
  BY <1>5, QuietStep DEF AcceptFailed, connVars, clientVars
<1>6. ASSUME NEW s \in Slots, Completion(s) PROVE ConnInv'
  BY <1>6, RecvDoneInv, RecvClosedInv, SendDoneInv, OpFailedInv DEF Completion
<1>7. ASSUME NEW s \in Slots, HandlerDone(s) PROVE ConnInv'
  BY <1>7, HandlerDoneInv
<1>. QED
  BY <1>1, <1>2, <1>3, <1>4, <1>5, <1>6, <1>7 DEF Next, Step

(* What the invariant is for. *)
LEMMA ConnGives == ConnInv => OneOwner /\ WireInOrder
  BY Responses DEF ConnInv, Owned, Told, WireInOrder

----------------------------------------------------------------------------
(* A connection of the server has one owner at a time - an operation of    *)
(* the system or a thread of the handler pool - and a client one           *)
(* connection, whatever fails (yk_on_recv, yk_on_send, yk_hw_worker): for  *)
(* any number of connections and clients.                                  *)
THEOREM ConnectionsHaveOneOwner == Spec => []OneOwner
<1>1. Spec => []ConnInv
  BY ConnStart, ConnNext, PTL DEF Spec
<1>. QED
  BY <1>1, ConnGives, PTL

(* What a client receives is the answers to its requests, in order and     *)
(* each whole before the next, for any lengths of header and body and any  *)
(* pieces (the partial sends of yk_on_send), whatever fails.               *)
THEOREM AnswersComeInOrder == Spec => []WireInOrder
<1>1. Spec => []ConnInv
  BY ConnStart, ConnNext, PTL DEF Spec
<1>. QED
  BY <1>1, ConnGives, PTL

(* The same of the connections with the memory they live in, as they are   *)
(* model-checked together.                                                 *)
THEOREM ConnectionsAreSafe == ConnectionsSpec => [](OneOwner /\ WireInOrder)
<1>1. ConnectionsInit => ConnInv
  BY ConnStart DEF ConnectionsInit
<1>2. [ConnectionsNext]_allVars => [Next]_vars
  BY DEF ConnectionsNext, ConnectionStep, allVars, Next
<1>3. ConnInv /\ [ConnectionsNext]_allVars => ConnInv'
  BY <1>2, ConnNext
<1>4. ConnInv => OneOwner /\ WireInOrder
  BY ConnGives
<1>. QED
  BY <1>1, <1>3, <1>4, PTL DEF ConnectionsSpec

----------------------------------------------------------------------------
(* The structures the connections live in (ConnPool).                      *)

(* One I/O thread allocates.  (Two may commit the same page, see           *)
(* ConnPool!Commit, and take a slot that is freed and taken again under    *)
(* their hands.)                                                           *)
OneAllocator == \A t, u \in Allocators : t = u

Slot == Conns!Structures
Word == Slot \cup {Null, Junk}

StructTypeOK ==
  /\ head \in Slot \cup {Null}
  /\ next \in [Slot -> Word]
  /\ pages \in 0 .. MaxPages
  /\ heap \in 0 .. Heap
  /\ cache \in [Threads -> Seq(Slot)]
  /\ pc \in [Threads -> {"idle", "head", "next", "pop", "page", "commit", "extra",
                         "pushextra", "heap", "open", "link", "push"}]
  /\ mine \in [Threads -> Slot \cup {Null}]
  /\ h \in [Threads -> Slot \cup {Null}]
  /\ nx \in [Threads -> Word]
  /\ page \in [Threads -> Nat]
  /\ i \in [Threads -> Nat]

FreeList == List(head, next)

(* The free list is without a cycle and has pointers only. *)
Linked ==
  \A s \in FreeList : next[s] \in Slot \cup {Null} /\ s \notin List(next[s], next)

(* Only a thread that allocates pops and commits, and a thread has a slot  *)
(* in hand from where it gets it to where it leaves it.                    *)
Role(t) ==
  /\ pc[t] \notin {"idle", "link", "push"} => t \in Allocators
  /\ mine[t] # Null <=> pc[t] \in {"extra", "pushextra", "open", "link", "push"}

(* What the popping thread has read is still so: nobody else takes a slot  *)
(* off the list.                                                           *)
Popping(t) ==
  /\ pc[t] \in {"next", "pop"} => h[t] \in FreeList
  /\ pc[t] = "pop" => nx[t] = next[h[t]]

(* The page that is committed is the next one, then the last one.          *)
Committing(t) ==
  /\ pc[t] = "commit" => page[t] = pages /\ pages < MaxPages
  /\ pc[t] \in {"extra", "pushextra"} =>
       /\ page[t] + 1 = pages /\ i[t] \in 1 .. PerPage - 1
       /\ mine[t] = Conns!First(page[t])

(* A slot about to be pushed points to the head that was read. *)
Pushing(t) ==
  /\ pc[t] = "pushextra" => next[Conns!Extra(t)] = h[t]
  /\ pc[t] = "push" => next[mine[t]] = h[t]

(* The places a slot can be in, and what is in each. *)
InUse      == <<"live", Null>>
OnFreeList == <<"list", Null>>
CacheOf(t) == <<"cache", t>>
HandOf(t)  == <<"hand", t>>
Homes      == {InUse, OnFreeList} \cup {CacheOf(t) : t \in Threads} \cup {HandOf(t) : t \in Threads}

At(used, free, cached, held) ==
  [p \in Homes |-> CASE p[1] = "live" -> used [] p[1] = "list" -> free
                     [] p[1] = "cache" -> cached[p[2]] [] p[1] = "hand" -> held[p[2]]]

Cached == [t \in Threads |-> Conns!ToSet(cache[t])]
Held   == [t \in Threads |-> Conns!InHand(t)]
Home   == At(live, FreeList, Cached, Held)

Apart(f) == \A p, q \in DOMAIN f : p # q => f[p] \cap f[q] = {}
All(f)   == UNION {f[p] : p \in DOMAIN f}

(* The slots of the committed pages, and those that came from malloc. *)
Provided == (1 .. pages * PerPage) \cup {MaxPages * PerPage + n : n \in 1 .. heap}

Housed == /\ Apart(Home) /\ All(Home) = Provided
          /\ \A t \in Threads : Conns!IsInjective(cache[t])

Buffered == bufs \subseteq live \cup UNION {Conns!ToSet(cache[t]) : t \in Threads}

StructInv ==
  /\ StructTypeOK /\ Linked
  /\ \A t \in Threads : Role(t) /\ Popping(t) /\ Committing(t) /\ Pushing(t)
  /\ Housed /\ Buffered

----------------------------------------------------------------------------
(* The homes of a slot are different ones. *)
LEMMA HomesDiffer ==
  /\ InUse # OnFreeList
  /\ \A t : /\ CacheOf(t) \notin {InUse, OnFreeList} /\ HandOf(t) \notin {InUse, OnFreeList}
            /\ \A u : CacheOf(t) # HandOf(u)
  /\ \A t, u : t # u => CacheOf(t) # CacheOf(u) /\ HandOf(t) # HandOf(u)
  BY DEF InUse, OnFreeList, CacheOf, HandOf

(* What is at each of them. *)
LEMMA HomeIs ==
  ASSUME NEW used, NEW free, NEW cached, NEW held
  PROVE  /\ DOMAIN At(used, free, cached, held) = Homes
         /\ At(used, free, cached, held)[InUse] = used
         /\ At(used, free, cached, held)[OnFreeList] = free
         /\ \A t \in Threads : /\ At(used, free, cached, held)[CacheOf(t)] = cached[t]
                               /\ At(used, free, cached, held)[HandOf(t)] = held[t]
<1>1. DOMAIN At(used, free, cached, held) = Homes
  BY DEF At
<1>2. /\ InUse \in Homes /\ OnFreeList \in Homes
      /\ \A t \in Threads : CacheOf(t) \in Homes /\ HandOf(t) \in Homes
  BY DEF Homes
<1>3. /\ InUse[1] = "live" /\ OnFreeList[1] = "list"
      /\ \A t : CacheOf(t)[1] = "cache" /\ CacheOf(t)[2] = t /\ HandOf(t)[1] = "hand" /\ HandOf(t)[2] = t
  BY DEF InUse, OnFreeList, CacheOf, HandOf
<1>. QED
  BY <1>1, <1>2, <1>3 DEF At

(* Slots move from one home to another. *)
LEMMA Moved ==
  ASSUME NEW f, NEW g, DOMAIN g = DOMAIN f, NEW p \in DOMAIN f, NEW q \in DOMAIN f, p # q,
         NEW X, X \subseteq f[p], g[p] = f[p] \ X, g[q] = f[q] \cup X,
         \A r \in DOMAIN f \ {p, q} : g[r] = f[r], Apart(f)
  PROVE  Apart(g) /\ All(g) = All(f)
<1>1. \A r \in DOMAIN f \ {q} : g[r] \subseteq f[r]
  OBVIOUS
<1>2. ASSUME NEW r \in DOMAIN f \ {q} PROVE g[r] \cap g[q] = {}
  BY <1>1, <1>2 DEF Apart
<1>3. Apart(g)
  BY <1>1, <1>2 DEF Apart
<1>4. All(g) = All(f)
  BY DEF All
<1>. QED
  BY <1>3, <1>4

(* Slots that were nowhere come to a home. *)
LEMMA Arrived ==
  ASSUME NEW f, NEW g, DOMAIN g = DOMAIN f, NEW q \in DOMAIN f,
         NEW X, X \cap All(f) = {}, g[q] = f[q] \cup X,
         \A r \in DOMAIN f \ {q} : g[r] = f[r], Apart(f)
  PROVE  Apart(g) /\ All(g) = All(f) \cup X
<1>1. \A r \in DOMAIN f : f[r] \cap X = {}
  BY DEF All
<1>2. Apart(g)
  BY <1>1 DEF Apart
<1>3. All(g) = All(f) \cup X
  BY DEF All
<1>. QED
  BY <1>2, <1>3
----------------------------------------------------------------------------
(* The constants of the pool. *)
LEMMA PoolConstants ==
  /\ Allocators \subseteq Threads /\ Cap \in Nat
  /\ MaxPages \in Nat /\ PerPage \in Nat \ {0} /\ Heap \in Nat /\ MaxPages * PerPage \in Nat
  /\ Null \notin Slot /\ Junk \notin Slot /\ Null # Junk
  /\ Slot = 1 .. MaxPages * PerPage + Heap
  BY StructureAssumption DEF Conns!ConnPoolAssumption, Conns!Structures, Slot

(* The pages fit in the reserved memory. *)
LEMMA PagesFit ==
  ASSUME NEW p \in 0 .. MaxPages
  PROVE  /\ p * PerPage \in 0 .. MaxPages * PerPage
         /\ (p + 1) * PerPage = p * PerPage + PerPage
         /\ p # MaxPages => p * PerPage + PerPage <= MaxPages * PerPage
<1>1. /\ PerPage \in Nat /\ MaxPages \in Nat /\ p \in Nat
  BY PoolConstants
<1>2. PICK d \in Nat : MaxPages = p + d
  BY <1>1
<1>3. /\ p * PerPage \in Nat /\ d * PerPage \in Nat
      /\ MaxPages * PerPage = p * PerPage + d * PerPage
      /\ (p + 1) * PerPage = p * PerPage + PerPage
  BY <1>1, <1>2
<1>4. d # 0 => d * PerPage >= PerPage
  BY <1>1
<1>. QED
  BY ONLY <1>1, <1>2, <1>3, <1>4

(* Every slot that is provided is one of the slots. *)
LEMMA ProvidedAreSlots == StructTypeOK => Provided \subseteq Slot
<1> SUFFICES ASSUME StructTypeOK PROVE Provided \subseteq Slot
  OBVIOUS
<1>1. /\ pages * PerPage \in 0 .. MaxPages * PerPage /\ heap \in 0 .. Heap
  BY PagesFit DEF StructTypeOK
<1>2. PICK N \in Nat : N = MaxPages * PerPage
  BY PoolConstants
<1>3. PICK m \in Nat : m = pages * PerPage
  BY <1>1, PoolConstants
<1>4. /\ Heap \in Nat /\ Slot = 1 .. N + Heap
      /\ Provided = (1 .. m) \cup {N + n : n \in 1 .. heap}
      /\ m <= N
  BY <1>1, <1>2, <1>3, PoolConstants DEF Provided
<1>. QED
  BY ONLY <1>1, <1>4, N \in Nat, m \in Nat

(* The free list of the pool is the list of the lemmas. *)
LEMMA FreeListIs ==
  /\ Conns!OnList = FreeList
  /\ \A s : Conns!List(next[s], next) = List(next[s], next)
  BY DEF Conns!OnList, FreeList, Conns!List, Conns!Closed, List, Closed

(* What is at each home. *)
LEMMA HomeNow ==
  /\ DOMAIN Home = Homes /\ Home[InUse] = live /\ Home[OnFreeList] = FreeList
  /\ \A t \in Threads : /\ Home[CacheOf(t)] = Conns!ToSet(cache[t])
                        /\ Home[HandOf(t)] = Conns!InHand(t)
  BY HomeIs DEF Home, Cached, Held

(* The same after a step. *)
LEMMA HomeThen ==
  /\ (DOMAIN Home)' = Homes /\ Home'[InUse] = live' /\ Home'[OnFreeList] = FreeList'
  /\ \A t \in Threads : /\ Home'[CacheOf(t)] = Conns!ToSet(cache'[t])
                        /\ Home'[HandOf(t)] = Conns!InHand(t)'
  BY HomeIs DEF Home, Cached, Held

(* There are no other homes. *)
LEMMA HomesAre ==
  /\ InUse \in Homes /\ OnFreeList \in Homes
  /\ \A t \in Threads : CacheOf(t) \in Homes /\ HandOf(t) \in Homes
  /\ \A p \in Homes : \/ p \in {InUse, OnFreeList}
                      \/ \E t \in Threads : p = CacheOf(t) \/ p = HandOf(t)
  BY DEF Homes

(* What it means that every slot has one home. *)
LEMMA HousedFacts ==
  ASSUME StructTypeOK, Housed
  PROVE  /\ live \cap FreeList = {} /\ live \cup FreeList \subseteq Provided
         /\ \A t \in Threads :
              /\ Conns!ToSet(cache[t]) \cup Conns!InHand(t) \subseteq Provided
              /\ Conns!ToSet(cache[t]) \cap (live \cup FreeList) = {}
              /\ Conns!InHand(t) \cap (live \cup FreeList) = {}
              /\ \A u \in Threads : Conns!ToSet(cache[t]) \cap Conns!InHand(u) = {}
              /\ \A u \in Threads \ {t} : /\ Conns!ToSet(cache[t]) \cap Conns!ToSet(cache[u]) = {}
                                          /\ Conns!InHand(t) \cap Conns!InHand(u) = {}
<1>1. \A p, q \in Homes : p # q => Home[p] \cap Home[q] = {}
  BY HomeNow DEF Housed, Apart
<1>2. \A p \in Homes : Home[p] \subseteq Provided
  BY HomeNow DEF Housed, All
<1>3. /\ live \cap FreeList = {} /\ live \cup FreeList \subseteq Provided
  BY <1>1, <1>2, HomeNow, HomesAre, HomesDiffer
<1>4. ASSUME NEW t \in Threads
      PROVE  /\ Conns!ToSet(cache[t]) \cup Conns!InHand(t) \subseteq Provided
             /\ Conns!ToSet(cache[t]) \cap (live \cup FreeList) = {}
             /\ Conns!InHand(t) \cap (live \cup FreeList) = {}
  <2>1. /\ Home[CacheOf(t)] \cap Home[InUse] = {} /\ Home[CacheOf(t)] \cap Home[OnFreeList] = {}
        /\ Home[HandOf(t)] \cap Home[InUse] = {} /\ Home[HandOf(t)] \cap Home[OnFreeList] = {}
        /\ Home[CacheOf(t)] \subseteq Provided /\ Home[HandOf(t)] \subseteq Provided
    BY <1>1, <1>2, HomesAre, HomesDiffer
  <2>. QED
    BY <2>1, HomeNow
<1>5. ASSUME NEW t \in Threads, NEW u \in Threads
      PROVE  Conns!ToSet(cache[t]) \cap Conns!InHand(u) = {}
  BY <1>1, HomeNow, HomesAre, HomesDiffer
<1>6. ASSUME NEW t \in Threads, NEW u \in Threads \ {t}
      PROVE  /\ Conns!ToSet(cache[t]) \cap Conns!ToSet(cache[u]) = {}
             /\ Conns!InHand(t) \cap Conns!InHand(u) = {}
  <2>1. CacheOf(t) # CacheOf(u) /\ HandOf(t) # HandOf(u)
    BY HomesDiffer
  <2>. QED
    BY <1>1, <2>1, HomeNow, HomesAre
<1>. QED
  BY <1>3, <1>4, <1>5, <1>6

(* What a thread has in hand. *)
LEMMA HandFacts ==
  ASSUME StructInv, NEW t \in Threads
  PROVE  /\ Conns!InHand(t) \subseteq Slot /\ Null \notin Conns!InHand(t)
         /\ mine[t] # Null => mine[t] \in Conns!InHand(t) /\ mine[t] \in Slot
         /\ pc[t] \notin {"extra", "pushextra"} =>
              Conns!InHand(t) = (IF mine[t] = Null THEN {} ELSE {mine[t]})
         /\ pc[t] \in {"extra", "pushextra"} =>
              /\ Conns!Extra(t) \in Conns!InHand(t) /\ Conns!Extra(t) \in Slot
              /\ Conns!Extra(t) = mine[t] + i[t] /\ mine[t] \in Nat
              /\ Conns!InHand(t) = {mine[t]} \cup {mine[t] + j : j \in i[t] .. PerPage - 1}
<1>1. Conns!InHand(t) \subseteq Slot
  BY HousedFacts, ProvidedAreSlots DEF StructInv
<1>2. mine[t] # Null => mine[t] \in Conns!InHand(t)
  BY DEF Conns!InHand
<1>3. pc[t] \notin {"extra", "pushextra"} =>
        Conns!InHand(t) = (IF mine[t] = Null THEN {} ELSE {mine[t]})
  BY DEF Conns!InHand
<1>4. ASSUME pc[t] \in {"extra", "pushextra"}
      PROVE  /\ Conns!Extra(t) \in Conns!InHand(t)
             /\ Conns!Extra(t) = mine[t] + i[t] /\ mine[t] \in Nat
             /\ Conns!InHand(t) = {mine[t]} \cup {mine[t] + j : j \in i[t] .. PerPage - 1}
  <2>1. /\ mine[t] # Null /\ mine[t] = Conns!First(page[t]) /\ i[t] \in 1 .. PerPage - 1
    BY <1>4 DEF StructInv, Role, Committing
  <2>2. Conns!InHand(t) = {mine[t]} \cup {mine[t] + j : j \in i[t] .. PerPage - 1}
    BY <1>4, <2>1 DEF Conns!InHand
  <2>3. Conns!Extra(t) = mine[t] + i[t]
    BY <2>1 DEF Conns!Extra
  <2>4. i[t] \in i[t] .. PerPage - 1
    BY <2>1
  <2>5. mine[t] \in Slot
    BY <1>1, <1>2, <2>1
  <2>. QED
    BY <2>2, <2>3, <2>4, <2>5, PoolConstants
<1>. QED
  BY <1>1, <1>2, <1>3, <1>4, PoolConstants

(* The last entry of a cache is taken off. *)
LEMMA CacheTaken ==
  ASSUME NEW S, NEW q \in Seq(S), q # <<>>, Conns!IsInjective(q)
  PROVE  /\ Conns!Front(q) \in Seq(S) /\ Conns!IsInjective(Conns!Front(q))
         /\ Conns!Last(q) \in Conns!ToSet(q)
         /\ Conns!ToSet(Conns!Front(q)) = Conns!ToSet(q) \ {Conns!Last(q)}
<1> DEFINE f == Conns!Front(q)
<1>1. /\ Len(q) \in Nat \ {0} /\ f \in Seq(S) /\ Len(f) = Len(q) - 1
      /\ \A j \in 1 .. Len(q) - 1 : f[j] = q[j]
      /\ DOMAIN f = 1 .. Len(q) - 1 /\ DOMAIN q = 1 .. Len(q)
  <2>1. /\ Len(q) \in Nat \ {0} /\ DOMAIN q = 1 .. Len(q)
        /\ \A j \in 1 .. Len(q) - 1 : q[j] \in S
    OBVIOUS
  <2>2. f = SubSeq(q, 1, Len(q) - 1)
    BY DEF Conns!Front
  <2>3. f \in Seq(S) /\ Len(f) = Len(q) - 1
    BY <2>1, <2>2
  <2>4. \A j \in 1 .. Len(q) - 1 : f[j] = q[j]
    BY <2>1, <2>2
  <2>. QED
    BY <2>1, <2>3, <2>4
<1> HIDE DEF f
<1>2. \A a, b \in 1 .. Len(q) : q[a] = q[b] => a = b
  BY <1>1 DEF Conns!IsInjective
<1>3. Conns!IsInjective(f)
  BY <1>1, <1>2 DEF Conns!IsInjective
<1>4. /\ Conns!Last(q) = q[Len(q)] /\ Len(q) \in 1 .. Len(q)
  BY <1>1 DEF Conns!Last
<1>5. /\ Conns!ToSet(f) = {q[j] : j \in 1 .. Len(q) - 1}
      /\ Conns!ToSet(q) = {q[j] : j \in 1 .. Len(q)}
  BY <1>1 DEF Conns!ToSet
<1>6. \A j \in 1 .. Len(q) : j \in 1 .. Len(q) - 1 <=> j # Len(q)
  BY <1>1
<1>7. \A j \in 1 .. Len(q) - 1 : j \in 1 .. Len(q)
  BY <1>1
<1>. QED
  <2>1. Conns!Last(q) \in Conns!ToSet(q)
    BY <1>4, <1>5
  <2>2. Conns!ToSet(f) = {q[j] : j \in 1 .. Len(q) - 1}
    BY <1>1, <1>5
  <2>3. \A j \in 1 .. Len(q) : q[j] = q[Len(q)] => j = Len(q)
    BY <1>2, <1>4
  <2>4. Conns!ToSet(f) = Conns!ToSet(q) \ {q[Len(q)]}
    BY <1>5, <1>6, <2>2, <2>3
  <2>. QED
    BY <1>1, <1>3, <1>4, <2>1, <2>4 DEF f

(* A slot is put on top. *)
LEMMA CachePut ==
  ASSUME NEW S, NEW q \in Seq(S), NEW s \in S, s \notin Conns!ToSet(q), Conns!IsInjective(q)
  PROVE  /\ Append(q, s) \in Seq(S) /\ Conns!IsInjective(Append(q, s))
         /\ Conns!ToSet(Append(q, s)) = Conns!ToSet(q) \cup {s}
<1> DEFINE g == Append(q, s)
<1>1. /\ Len(q) \in Nat /\ g \in Seq(S) /\ g[Len(q) + 1] = s
      /\ \A j \in 1 .. Len(q) : g[j] = q[j]
      /\ DOMAIN g = 1 .. Len(q) + 1 /\ DOMAIN q = 1 .. Len(q)
  OBVIOUS
<1>2. \A j \in 1 .. Len(q) + 1 : j \in 1 .. Len(q) \/ j = Len(q) + 1
  BY <1>1
<1>3. \A j \in 1 .. Len(q) : q[j] # s
  BY <1>1 DEF Conns!ToSet
<1>4. Conns!IsInjective(g)
  BY <1>1, <1>2, <1>3 DEF Conns!IsInjective
<1>5. /\ Conns!ToSet(g) = {g[j] : j \in 1 .. Len(q) + 1}
      /\ Conns!ToSet(q) = {q[j] : j \in 1 .. Len(q)}
  BY <1>1 DEF Conns!ToSet
<1>6. \A j \in 1 .. Len(q) : j \in 1 .. Len(q) + 1
  BY <1>1
<1>7. Len(q) + 1 \in 1 .. Len(q) + 1
  BY <1>1
<1>. QED
  BY <1>1, <1>2, <1>4, <1>5, <1>6, <1>7

(* The free list begins with its head, if with any slot. *)
LEMMA FreeListHead ==
  ASSUME StructTypeOK, Linked
  PROVE  /\ FreeList \subseteq Slot /\ Null \notin FreeList /\ DOMAIN next = Slot
         /\ head = Null => FreeList = {}
         /\ head # Null => /\ head \in FreeList /\ next[head] \in Slot \cup {Null}
                           /\ FreeList \ {head} = List(next[head], next)
                           /\ head \notin List(next[head], next)
<1>1. DOMAIN next = Slot /\ head \in Slot \cup {Null} /\ Null \notin Slot
  BY PoolConstants DEF StructTypeOK
<1>2. FreeList \subseteq Slot
  BY <1>1, ListClosed DEF FreeList
<1>3. head = Null => FreeList = {}
  BY <1>1, ListNull DEF FreeList
<1>4. ASSUME head # Null PROVE head \in FreeList /\ FreeList = {head} \cup List(next[head], next)
  BY <1>1, <1>4, ListStep DEF FreeList
<1>. QED
  BY <1>1, <1>2, <1>3, <1>4 DEF Linked

(* A slot that is off the list is changed. *)
LEMMA LinkOff ==
  ASSUME StructTypeOK, Linked, NEW p \in Slot, p \notin FreeList, NEW w \in Word,
         next' = [next EXCEPT ![p] = w], UNCHANGED head
  PROVE  /\ FreeList' = FreeList /\ Linked' /\ next' \in [Slot -> Word] /\ next'[p] = w
         /\ \A s \in Slot : s # p => next'[s] = next[s]
<1>1. /\ next' \in [Slot -> Word] /\ next'[p] = w /\ DOMAIN next = Slot /\ DOMAIN next' = Slot
      /\ \A s \in Slot : s # p => next'[s] = next[s]
  BY DEF StructTypeOK
<1>2. /\ FreeList' = FreeList
      /\ \A s \in FreeList : next'[s] = next[s] /\ List(next'[s], next') = List(next[s], next)
  <2>1. p \notin List(head, next) /\ \A s \in DOMAIN next : s # p => next'[s] = next[s]
    BY <1>1 DEF FreeList
  <2>2. /\ List(head, next') = List(head, next)
        /\ \A s \in List(head, next) :
              next'[s] = next[s] /\ List(next'[s], next') = List(next[s], next)
    BY ONLY <1>1, <2>1, ListUntouched
  <2>. QED
    BY <2>2 DEF FreeList
<1>. QED
  BY <1>1, <1>2 DEF Linked

(* A slot that points to the head is put before it. *)
LEMMA PushOn ==
  ASSUME StructTypeOK, Linked, NEW p \in Slot, p \notin FreeList, next[p] = head,
         head' = p, UNCHANGED next
  PROVE  FreeList' = FreeList \cup {p} /\ Linked'
<1>1. FreeList' = {p} \cup FreeList
  BY ListStep DEF FreeList, StructTypeOK
<1>2. ASSUME NEW s \in FreeList'
      PROVE  next'[s] \in Slot \cup {Null} /\ s \notin List(next'[s], next')
  <2>1. CASE s = p
    BY <2>1 DEF FreeList, StructTypeOK
  <2>2. CASE s \in FreeList
    BY <2>2 DEF Linked
  <2>. QED
    BY <1>1, <1>2, <2>1, <2>2
<1>. QED
  BY <1>1, <1>2 DEF Linked

(* The head is taken off. *)
LEMMA PopOff ==
  ASSUME StructTypeOK, Linked, head # Null, head' = next[head],
         next' = [next EXCEPT ![head] = Null]
  PROVE  /\ FreeList' = FreeList \ {head} /\ Linked' /\ head' \in Slot \cup {Null}
         /\ next' \in [Slot -> Word] /\ \A s \in Slot : s # head => next'[s] = next[s]
<1>1. /\ next' \in [Slot -> Word] /\ DOMAIN next = Slot /\ DOMAIN next' = Slot
      /\ head \in Slot /\ head' \in Slot \cup {Null}
      /\ \A s \in Slot : s # head => next'[s] = next[s]
  BY FreeListHead DEF StructTypeOK, Word
<1>2. /\ FreeList \ {head} = List(next[head], next) /\ head \notin List(next[head], next)
      /\ FreeList \subseteq Slot
  BY FreeListHead
<1>3. /\ List(next[head], next') = List(next[head], next)
      /\ \A s \in List(next[head], next) :
            next'[s] = next[s] /\ List(next'[s], next') = List(next[s], next)
  <2>1. \A s \in DOMAIN next : s # head => next'[s] = next[s]
    BY <1>1
  <2>. QED
    BY ONLY <1>1, <1>2, <2>1, ListUntouched
<1>4. FreeList' = FreeList \ {head}
  BY <1>2, <1>3 DEF FreeList
<1>5. Linked'
  BY <1>2, <1>3, <1>4 DEF Linked
<1>. QED
  BY <1>1, <1>4, <1>5

----------------------------------------------------------------------------
(* The other threads, and what they rely on, while thread t takes a step   *)
(* that changes at most the link of slot p.                                *)
Alone(t) ==
  \A u \in Threads \ {t} : /\ pc'[u] = pc[u] /\ mine'[u] = mine[u] /\ h'[u] = h[u]
                           /\ nx'[u] = nx[u] /\ page'[u] = page[u] /\ i'[u] = i[u]

ThreadInv(t) == Role(t) /\ Popping(t) /\ Committing(t) /\ Pushing(t)

(* One thread's step leaves the others what they rely on.                  *)
LEMMA OthersKeep ==
  ASSUME OneAllocator, StructInv, NEW t \in Threads, Alone(t),
         NEW p, \A u \in Threads \ {t} : p \notin Conns!InHand(u),
         \A s \in Slot : s # p => next'[s] = next[s],
         t \in Allocators \/ (pages' = pages /\ FreeList \subseteq FreeList' /\ p \notin FreeList)
  PROVE  \A u \in Threads \ {t} : ThreadInv(u)' /\ Conns!InHand(u)' = Conns!InHand(u)
<1> SUFFICES ASSUME NEW u \in Threads \ {t}
             PROVE  ThreadInv(u)' /\ Conns!InHand(u)' = Conns!InHand(u)
  OBVIOUS
<1>1. /\ pc'[u] = pc[u] /\ mine'[u] = mine[u] /\ h'[u] = h[u]
      /\ nx'[u] = nx[u] /\ page'[u] = page[u] /\ i'[u] = i[u]
  BY DEF Alone
<1>2. Conns!InHand(u)' = Conns!InHand(u) /\ Conns!Extra(u)' = Conns!Extra(u)
  BY <1>1 DEF Conns!InHand, Conns!Extra, Conns!First
<1>3. ThreadInv(u)
  BY DEF StructInv, ThreadInv
<1>4. Role(u)'
  BY <1>1, <1>3 DEF ThreadInv, Role
<1>5. ASSUME t \in Allocators PROVE pc[u] \in {"idle", "link", "push"}
  <2>1. u \notin Allocators
    BY <1>5 DEF OneAllocator
  <2>. QED
    BY <1>3, <2>1 DEF ThreadInv, Role
<1>6. Popping(u)'
  <2>1. CASE t \in Allocators
    BY <1>1, <1>5, <2>1 DEF Popping
  <2>2. CASE t \notin Allocators
    <3>1. ASSUME pc[u] \in {"next", "pop"} PROVE h[u] \in FreeList /\ h[u] \in Slot
      BY <1>3, <3>1, FreeListHead DEF ThreadInv, Popping, StructInv
    <3>. QED
      BY <1>1, <1>3, <2>2, <3>1 DEF ThreadInv, Popping
  <2>. QED
    BY <2>1, <2>2
<1>7. Committing(u)'
  BY <1>1, <1>3, <1>5 DEF ThreadInv, Committing, Conns!First
<1>8. Pushing(u)'
  <2>1. ASSUME pc[u] = "pushextra" PROVE next'[Conns!Extra(u)] = h[u]
    <3>1. Conns!Extra(u) \in Slot /\ Conns!Extra(u) \in Conns!InHand(u)
      BY <2>1, HandFacts
    <3>. QED
      BY <1>3, <2>1, <3>1 DEF ThreadInv, Pushing
  <2>2. ASSUME pc[u] = "push" PROVE next'[mine[u]] = h[u]
    <3>1. mine[u] \in Slot /\ mine[u] \in Conns!InHand(u)
      BY <1>3, <2>2, HandFacts DEF ThreadInv, Role
    <3>. QED
      BY <1>3, <2>2, <3>1 DEF ThreadInv, Pushing
  <2>. QED
    BY <1>1, <1>2, <2>1, <2>2 DEF Pushing
<1>. QED
  BY <1>2, <1>4, <1>6, <1>7, <1>8 DEF ThreadInv

(* Slots move from one home to another. *)
LEMMA SlotsMove ==
  ASSUME Housed, NEW p \in Homes, NEW q \in Homes, p # q, NEW X, X \subseteq Home[p],
         Home'[p] = Home[p] \ X, Home'[q] = Home[q] \cup X,
         \A r \in Homes \ {p, q} : Home'[r] = Home[r],
         Provided' = Provided, \A t \in Threads : Conns!IsInjective(cache'[t])
  PROVE  Housed'
<1>1. DOMAIN Home = Homes /\ DOMAIN Home' = Homes
  BY HomeNow, HomeThen
<1>2. Apart(Home') /\ All(Home') = All(Home)
  BY <1>1, Moved DEF Housed
<1>. QED
  BY <1>2 DEF Housed, Apart, All

(* Slots that are provided come to a home. *)
LEMMA SlotsArrive ==
  ASSUME Housed, NEW q \in Homes, NEW X, X \cap Provided = {},
         Home'[q] = Home[q] \cup X, \A r \in Homes \ {q} : Home'[r] = Home[r],
         Provided' = Provided \cup X, UNCHANGED cache
  PROVE  Housed'
<1>1. DOMAIN Home = Homes /\ DOMAIN Home' = Homes
  BY HomeNow, HomeThen
<1>2. Apart(Home') /\ All(Home') = All(Home) \cup X
  BY <1>1, Arrived DEF Housed
<1>. QED
  BY <1>2 DEF Housed, Apart, All

(* The slots stay where they are. *)
LEMMA SlotsStay ==
  ASSUME Housed, UNCHANGED <<live, cache>>, FreeList' = FreeList, Provided' = Provided,
         \A t \in Threads : Conns!InHand(t)' = Conns!InHand(t)
  PROVE  Housed'
<1>1. \A r \in Homes : Home'[r] = Home[r]
  BY HomeNow, HomeThen, HomesAre
<1>2. DOMAIN Home = Homes /\ DOMAIN Home' = Homes
  BY HomeNow, HomeThen
<1>. QED
  BY <1>1, <1>2 DEF Housed, Apart, All

(* The invariant is put together. *)
LEMMA Together ==
  ASSUME NEW t \in Threads, StructTypeOK', Linked', ThreadInv(t)', Housed', Buffered',
         \A u \in Threads \ {t} : ThreadInv(u)'
  PROVE  StructInv'
  BY DEF StructInv, ThreadInv

----------------------------------------------------------------------------
(* yk_conn_alloc takes a slot from the cache. *)
LEMMA AllocCachedStep ==
  ASSUME OneAllocator, StructInv, NEW t \in Threads, Conns!AllocCached(t)
  PROVE  StructInv'
<1> DEFINE s == Conns!Last(cache[t])
<1>1. /\ cache[t] # <<>> /\ cache' = [cache EXCEPT ![t] = Conns!Front(cache[t])]
      /\ live' = live \cup {s}
      /\ UNCHANGED <<head, next, pages, heap, bufs, pc, mine, h, nx, page, i>>
  BY DEF Conns!AllocCached, Conns!local
<1>2. /\ StructTypeOK /\ Housed /\ Buffered /\ Linked /\ \A u \in Threads : ThreadInv(u)
      /\ cache \in [Threads -> Seq(Slot)] /\ cache[t] \in Seq(Slot)
      /\ \A u \in Threads : Conns!IsInjective(cache[u])
  BY DEF StructInv, ThreadInv, StructTypeOK, Housed
<1>3. /\ Conns!Front(cache[t]) \in Seq(Slot) /\ Conns!IsInjective(Conns!Front(cache[t]))
      /\ s \in Conns!ToSet(cache[t])
      /\ Conns!ToSet(Conns!Front(cache[t])) = Conns!ToSet(cache[t]) \ {s}
  BY <1>1, <1>2, CacheTaken
<1> HIDE DEF s
<1>4. /\ cache'[t] = Conns!Front(cache[t]) /\ cache' \in [Threads -> Seq(Slot)]
      /\ \A u \in Threads \ {t} : cache'[u] = cache[u]
  BY <1>1, <1>2, <1>3
<1>5. StructTypeOK'
  BY <1>1, <1>2, <1>4 DEF StructTypeOK
<1>6. FreeList' = FreeList /\ Linked' /\ Provided' = Provided
  BY <1>1, <1>2 DEF FreeList, Linked, Provided
<1>7. \A u \in Threads : ThreadInv(u)' /\ Conns!InHand(u)' = Conns!InHand(u)
  BY <1>1, <1>2, <1>6
     DEF ThreadInv, Role, Popping, Committing, Pushing, Conns!InHand, Conns!Extra, Conns!First
<1>8. Housed'
  <2>1. /\ CacheOf(t) \in Homes /\ InUse \in Homes /\ CacheOf(t) # InUse
    BY HomesAre, HomesDiffer
  <2>2. /\ {s} \subseteq Home[CacheOf(t)] /\ Home'[CacheOf(t)] = Home[CacheOf(t)] \ {s}
        /\ Home'[InUse] = Home[InUse] \cup {s}
    BY <1>1, <1>3, <1>4, HomeNow, HomeThen
  <2>3. \A r \in Homes \ {CacheOf(t), InUse} : Home'[r] = Home[r]
    <3>1. /\ Home'[OnFreeList] = Home[OnFreeList]
          /\ \A u \in Threads : Home'[HandOf(u)] = Home[HandOf(u)]
      BY <1>6, <1>7, HomeNow, HomeThen
    <3>2. \A u \in Threads \ {t} : Home'[CacheOf(u)] = Home[CacheOf(u)]
      BY <1>4, HomeNow, HomeThen
    <3>. QED
      BY <3>1, <3>2, HomesAre
  <2>4. \A u \in Threads : Conns!IsInjective(cache'[u])
    BY <1>2, <1>3, <1>4
  <2>. QED
    BY <1>2, <1>6, <2>1, <2>2, <2>3, <2>4, SlotsMove
<1>9. Buffered'
  <2>1. UNION {Conns!ToSet(cache[u]) : u \in Threads}
          \subseteq {s} \cup UNION {Conns!ToSet(cache'[u]) : u \in Threads}
    BY <1>3, <1>4
  <2>. QED
    BY <1>1, <1>2, <2>1 DEF Buffered
<1>. QED
  BY <1>5, <1>6, <1>7, <1>8, <1>9, Together

(* A step that only reads: AllocBegin, ReadHead, ReadNext, ReadEnd. *)
LEMMA LocalStep ==
  ASSUME OneAllocator, StructInv, NEW t \in Threads,
         UNCHANGED <<head, next, pages, heap, cache, live, bufs, mine, i>>,
         Alone(t), StructTypeOK', ThreadInv(t)',
         {pc[t], pc'[t]} \cap {"extra", "pushextra"} = {}
  PROVE  StructInv'
<1>1. FreeList' = FreeList /\ Linked' /\ Provided' = Provided
  BY DEF FreeList, Linked, Provided, StructInv
<1>2. \A u \in Threads \ {t} : ThreadInv(u)' /\ Conns!InHand(u)' = Conns!InHand(u)
  <2>1. \A u \in Threads : Null \notin Conns!InHand(u)
    BY HandFacts
  <2>2. Null \notin FreeList
    BY FreeListHead DEF StructInv
  <2>. QED
    BY <1>1, <2>1, <2>2, OthersKeep
<1>3. Conns!InHand(t)' = Conns!InHand(t)
  BY DEF Conns!InHand
<1>4. Housed'
  BY <1>1, <1>2, <1>3, SlotsStay DEF StructInv
<1>5. Buffered'
  BY DEF StructInv, Buffered
<1>. QED
  BY <1>1, <1>2, <1>4, <1>5, Together

(* yk_vmem_pool_alloc, up to the compare-and-swap of the head. *)
LEMMA ReadStep ==
  ASSUME OneAllocator, StructInv, NEW t \in Threads,
         Conns!AllocBegin(t) \/ Conns!ReadHead(t) \/ Conns!ReadNext(t) \/ Conns!ReadEnd(t)
  PROVE  StructInv'
<1>1. /\ StructTypeOK /\ Linked /\ ThreadInv(t)
      /\ head \in Slot \cup {Null} /\ next \in [Slot -> Word] /\ pages \in 0 .. MaxPages
      /\ h \in [Threads -> Slot \cup {Null}] /\ nx \in [Threads -> Word] /\ page \in [Threads -> Nat]
      /\ pc \in [Threads -> {"idle", "head", "next", "pop", "page", "commit", "extra",
                              "pushextra", "heap", "open", "link", "push"}]
  BY DEF StructInv, ThreadInv, StructTypeOK
<1>2. /\ UNCHANGED <<head, next, pages, heap, cache, live, bufs, mine, i>>
      /\ FreeList' = FreeList
  BY DEF Conns!AllocBegin, Conns!ReadHead, Conns!ReadNext, Conns!ReadEnd, FreeList
<1>3. CASE Conns!AllocBegin(t)
  <2>1. /\ t \in Allocators /\ pc[t] = "idle" /\ pc' = [pc EXCEPT ![t] = "head"]
        /\ UNCHANGED <<h, nx, page>>
    BY <1>3 DEF Conns!AllocBegin
  <2>2. Alone(t) /\ StructTypeOK' /\ pc'[t] = "head"
    BY <1>1, <1>2, <2>1 DEF Alone, StructTypeOK
  <2>3. ThreadInv(t)'
    BY <1>1, <1>2, <2>1, <2>2 DEF ThreadInv, Role, Popping, Committing, Pushing
  <2>. QED
    BY <1>2, <2>1, <2>2, <2>3, LocalStep
<1>4. CASE Conns!ReadHead(t)
  <2>1. /\ pc[t] = "head" /\ pc' = [pc EXCEPT ![t] = IF head = Null THEN "page" ELSE "next"]
        /\ h' = [h EXCEPT ![t] = head] /\ UNCHANGED <<nx, page>>
    BY <1>4 DEF Conns!ReadHead, Conns!Goto
  <2>2. /\ Alone(t) /\ StructTypeOK' /\ h'[t] = head
        /\ pc'[t] = IF head = Null THEN "page" ELSE "next"
    BY <1>1, <1>2, <2>1 DEF Alone, StructTypeOK
  <2>3. ThreadInv(t)'
    BY <1>1, <1>2, <2>1, <2>2, FreeListHead DEF ThreadInv, Role, Popping, Committing, Pushing
  <2>. QED
    BY <1>2, <2>1, <2>2, <2>3, LocalStep
<1>5. CASE Conns!ReadNext(t)
  <2>1. /\ pc[t] = "next" /\ pc' = [pc EXCEPT ![t] = "pop"]
        /\ nx' = [nx EXCEPT ![t] = next[h[t]]] /\ UNCHANGED <<h, page>>
    BY <1>5 DEF Conns!ReadNext, Conns!Goto
  <2>2. h[t] \in FreeList /\ h[t] \in Slot
    BY <1>1, <2>1, FreeListHead DEF ThreadInv, Popping
  <2>3. Alone(t) /\ StructTypeOK' /\ pc'[t] = "pop" /\ nx'[t] = next[h[t]]
    BY <1>1, <1>2, <2>1, <2>2 DEF Alone, StructTypeOK
  <2>4. ThreadInv(t)'
    BY <1>1, <1>2, <2>1, <2>2, <2>3 DEF ThreadInv, Role, Popping, Committing, Pushing
  <2>. QED
    BY <1>2, <2>1, <2>3, <2>4, LocalStep
<1>6. CASE Conns!ReadEnd(t)
  <2>1. /\ pc[t] = "page"
        /\ pc' = [pc EXCEPT ![t] = IF pages < MaxPages THEN "commit" ELSE "heap"]
        /\ page' = [page EXCEPT ![t] = pages] /\ UNCHANGED <<h, nx>>
    BY <1>6 DEF Conns!ReadEnd, Conns!Goto
  <2>2. /\ Alone(t) /\ StructTypeOK' /\ page'[t] = pages
        /\ pc'[t] = IF pages < MaxPages THEN "commit" ELSE "heap"
    <3>1. pages \in Nat
      BY <1>1, PoolConstants
    <3>. QED
      BY <1>1, <1>2, <2>1, <3>1 DEF Alone, StructTypeOK
  <2>3. ThreadInv(t)'
    BY <1>1, <1>2, <2>1, <2>2 DEF ThreadInv, Role, Popping, Committing, Pushing
  <2>. QED
    BY <1>2, <2>1, <2>2, <2>3, LocalStep
<1>. QED
  BY <1>3, <1>4, <1>5, <1>6

(* The compare-and-swap that takes the head: nobody else allocates, so     *)
(* what was read of it is still so.                                        *)
LEMMA PopCasStep ==
  ASSUME OneAllocator, StructInv, NEW t \in Threads, Conns!PopCas(t)
  PROVE  StructInv'
<1>1. /\ StructTypeOK /\ Linked /\ Housed /\ Buffered /\ ThreadInv(t) /\ pc[t] = "pop"
      /\ UNCHANGED <<pages, heap, cache, live, bufs, h, nx, page, i>>
  BY DEF StructInv, ThreadInv, Conns!PopCas, Conns!Goto
<1>2. h[t] \in FreeList /\ nx[t] = next[h[t]] /\ t \in Allocators /\ mine[t] = Null
  BY <1>1 DEF ThreadInv, Popping, Role
<1>3. h[t] \in Slot /\ h[t] # Null
  BY <1>1, <1>2, FreeListHead
<1>4. CASE head = h[t]
  <2>1. /\ pc' = [pc EXCEPT ![t] = "open"] /\ head' = next[head]
        /\ next' = [next EXCEPT ![head] = Null] /\ mine' = [mine EXCEPT ![t] = head]
    BY <1>2, <1>4 DEF Conns!PopCas, Conns!Goto
  <2>2. /\ FreeList' = FreeList \ {head} /\ Linked' /\ head' \in Slot \cup {Null}
        /\ next' \in [Slot -> Word] /\ \A s \in Slot : s # head => next'[s] = next[s]
    BY <1>1, <1>3, <1>4, <2>1, PopOff
  <2>3. /\ pc'[t] = "open" /\ mine'[t] = head /\ Alone(t) /\ StructTypeOK'
    BY <1>1, <1>3, <1>4, <2>1, <2>2 DEF StructTypeOK, Alone
  <2>4. /\ Provided' = Provided
        /\ Conns!InHand(t) = {} /\ Conns!InHand(t)' = {head}
    BY <1>1, <1>2, <1>3, <1>4, <2>3 DEF Provided, Conns!InHand
  <2>5. \A u \in Threads \ {t} : ThreadInv(u)' /\ Conns!InHand(u)' = Conns!InHand(u)
    <3>1. \A u \in Threads : head \notin Conns!InHand(u)
      BY <1>1, <1>2, <1>4, HousedFacts
    <3>. QED
      BY <1>2, <2>2, <2>3, <3>1, OthersKeep
  <2>6. ThreadInv(t)'
    BY <1>2, <1>3, <1>4, <2>3 DEF ThreadInv, Role, Popping, Committing, Pushing
  <2>7. Housed'
    <3>1. /\ OnFreeList \in Homes /\ HandOf(t) \in Homes /\ OnFreeList # HandOf(t)
      BY HomesAre, HomesDiffer
    <3>2. /\ {head} \subseteq Home[OnFreeList] /\ Home'[OnFreeList] = Home[OnFreeList] \ {head}
          /\ Home'[HandOf(t)] = Home[HandOf(t)] \cup {head}
      BY <1>2, <1>4, <2>2, <2>4, HomeNow, HomeThen
    <3>3. \A r \in Homes \ {OnFreeList, HandOf(t)} : Home'[r] = Home[r]
      <4>1. /\ Home'[InUse] = Home[InUse]
            /\ \A u \in Threads : Home'[CacheOf(u)] = Home[CacheOf(u)]
        BY <1>1, HomeNow, HomeThen
      <4>2. \A u \in Threads \ {t} : Home'[HandOf(u)] = Home[HandOf(u)]
        BY <2>5, HomeNow, HomeThen
      <4>. QED
        BY <4>1, <4>2, HomesAre
    <3>4. \A u \in Threads : Conns!IsInjective(cache'[u])
      BY <1>1 DEF Housed
    <3>. QED
      BY <1>1, <2>4, <3>1, <3>2, <3>3, <3>4, SlotsMove
  <2>8. Buffered'
    BY <1>1 DEF Buffered
  <2>. QED
    BY <2>2, <2>3, <2>5, <2>6, <2>7, <2>8, Together
<1>5. CASE head # h[t]
  <2>1. pc' = [pc EXCEPT ![t] = "head"] /\ UNCHANGED <<head, next, mine>>
    BY <1>5 DEF Conns!PopCas, Conns!Goto
  <2>2. Alone(t) /\ StructTypeOK' /\ pc'[t] = "head"
    BY <1>1, <2>1 DEF Alone, StructTypeOK
  <2>3. ThreadInv(t)'
    BY <1>1, <1>2, <2>1, <2>2 DEF ThreadInv, Role, Popping, Committing, Pushing
  <2>. QED
    BY <1>1, <2>1, <2>2, <2>3, LocalStep
<1>. QED
  BY <1>4, <1>5

(* The slots of a page, the first of which the thread takes. *)
LEMMA PageArrives ==
  ASSUME StructTypeOK, NEW p \in 0 .. MaxPages, p = pages, pages # MaxPages
  PROVE  /\ Conns!First(p) \in Slot
         /\ LET X == {Conns!First(p)} \cup {Conns!First(p) + j : j \in 1 .. PerPage - 1}
            IN  /\ X \cap Provided = {}
                /\ (1 .. (pages + 1) * PerPage) \cup {MaxPages * PerPage + n : n \in 1 .. heap}
                     = Provided \cup X
<1>1. /\ p * PerPage \in Nat /\ MaxPages * PerPage \in Nat
      /\ (p + 1) * PerPage = p * PerPage + PerPage
      /\ p * PerPage + PerPage <= MaxPages * PerPage
  BY PagesFit, PoolConstants
<1>2. PICK N \in Nat : N = MaxPages * PerPage
  BY <1>1
<1>3. PICK m \in Nat : m = p * PerPage
  BY <1>1
<1>4. PICK k \in Nat \ {0} : k = PerPage
  BY PoolConstants
<1>5. /\ m + k <= N /\ heap \in Nat /\ Heap \in Nat
      /\ Slot = 1 .. N + Heap /\ Conns!First(p) = m + 1
      /\ Provided = (1 .. m) \cup {N + n : n \in 1 .. heap}
      /\ (pages + 1) * PerPage = m + k
  BY <1>1, <1>2, <1>3, <1>4, PoolConstants DEF Provided, Conns!First, StructTypeOK
<1>6. {m + 1} \cup {m + 1 + j : j \in 1 .. k - 1} = m + 1 .. m + k
  <2>1. ASSUME NEW x \in m + 1 .. m + k, x # m + 1
        PROVE  \E j \in 1 .. k - 1 : x = m + 1 + j
    <3>1. x - (m + 1) \in 1 .. k - 1 /\ x = m + 1 + (x - (m + 1))
      BY <2>1
    <3>. QED
      BY <3>1
  <2>2. \A j \in 1 .. k - 1 : m + 1 + j \in m + 1 .. m + k
    OBVIOUS
  <2>3. m + 1 \in m + 1 .. m + k
    OBVIOUS
  <2>. QED
    BY ONLY <2>1, <2>2, <2>3
<1>7. /\ m + 1 \in 1 .. N + Heap
      /\ (m + 1 .. m + k) \cap ((1 .. m) \cup {N + n : n \in 1 .. heap}) = {}
      /\ 1 .. m + k = (1 .. m) \cup (m + 1 .. m + k)
  BY ONLY <1>5, m \in Nat, k \in Nat \ {0}, N \in Nat
<1>8. {Conns!First(p)} \cup {Conns!First(p) + j : j \in 1 .. PerPage - 1} = m + 1 .. m + k
  BY <1>4, <1>5, <1>6
<1>9. (1 .. (pages + 1) * PerPage) \cup {MaxPages * PerPage + n : n \in 1 .. heap}
        = (1 .. m + k) \cup {N + n : n \in 1 .. heap}
  BY <1>2, <1>5
<1>10. (m + 1 .. m + k) \cap Provided = {}
  BY <1>5, <1>7
<1>11. (1 .. m + k) \cup {N + n : n \in 1 .. heap} = Provided \cup (m + 1 .. m + k)
  BY <1>5, <1>7
<1>. QED
  BY <1>5, <1>7, <1>8, <1>9, <1>10, <1>11

(* A page is committed. *)
LEMMA CommitStep ==
  ASSUME OneAllocator, StructInv, NEW t \in Threads, Conns!Commit(t)
  PROVE  StructInv'
<1> DEFINE first == Conns!First(page[t])
           X == {first} \cup {first + j : j \in 1 .. PerPage - 1}
<1>1. /\ StructTypeOK /\ Linked /\ Housed /\ Buffered /\ ThreadInv(t) /\ pc[t] = "commit"
      /\ pc' = [pc EXCEPT ![t] = IF PerPage > 1 THEN "extra" ELSE "open"]
      /\ pages' \in {pages + 1, page[t] + 1}
      /\ mine' = [mine EXCEPT ![t] = first] /\ i' = [i EXCEPT ![t] = 1]
      /\ UNCHANGED <<head, next, heap, cache, live, bufs, h, nx, page>>
  BY DEF StructInv, ThreadInv, Conns!Commit, Conns!Goto
<1>2. /\ t \in Allocators /\ mine[t] = Null /\ page[t] = pages /\ pages # MaxPages
      /\ pages \in 0 .. MaxPages /\ pages' = pages + 1 /\ pages' \in 0 .. MaxPages
  <2>1. /\ t \in Allocators /\ mine[t] = Null /\ page[t] = pages /\ pages < MaxPages
        /\ pages \in 0 .. MaxPages
    BY <1>1 DEF ThreadInv, Role, Committing, StructTypeOK
  <2>. QED
    BY <1>1, <2>1, PoolConstants
<1>3. /\ first \in Slot /\ X \cap Provided = {} /\ Provided' = Provided \cup X
  BY <1>1, <1>2, PageArrives DEF Provided
<1> HIDE DEF first
<1>4. /\ pc'[t] = IF PerPage > 1 THEN "extra" ELSE "open"
      /\ mine'[t] = first /\ i'[t] = 1 /\ Alone(t) /\ StructTypeOK'
  BY <1>1, <1>2, <1>3 DEF StructTypeOK, Alone
<1>5. FreeList' = FreeList /\ Linked' /\ Buffered'
  BY <1>1 DEF FreeList, Linked, Buffered
<1>6. /\ Conns!InHand(t) = {} /\ Conns!InHand(t)' = X
  <2>1. first # Null /\ PerPage \in Nat \ {0}
    BY <1>3, PoolConstants
  <2>2. Conns!InHand(t) = {}
    BY <1>1, <1>2 DEF Conns!InHand
  <2>3. CASE PerPage > 1
    <3>1. /\ pc'[t] = "extra" /\ mine'[t] # Null /\ page'[t] = page[t]
          /\ mine'[t] = first /\ i'[t] = 1
      BY <1>1, <1>4, <2>1, <2>3
    <3>2. Conns!InHand(t)' = {mine'[t]} \cup {Conns!First(page'[t]) + j : j \in i'[t] .. PerPage - 1}
      BY <3>1 DEF Conns!InHand, Conns!First
    <3>3. Conns!First(page'[t]) = first
      BY <3>1 DEF first
    <3>. QED
      BY <2>2, <3>1, <3>2, <3>3
  <2>4. CASE PerPage = 1
    <3>1. 1 .. PerPage - 1 = {}
      BY <2>4
    <3>. QED
      BY <1>4, <2>1, <2>2, <2>4, <3>1 DEF Conns!InHand
  <2>. QED
    BY <2>1, <2>2, <2>3, <2>4
<1>7. \A u \in Threads \ {t} : ThreadInv(u)' /\ Conns!InHand(u)' = Conns!InHand(u)
  <2>1. \A u \in Threads : Null \notin Conns!InHand(u)
    BY HandFacts
  <2>. QED
    BY <1>1, <1>2, <1>4, <2>1, OthersKeep
<1>8. ThreadInv(t)'
  <2>1. /\ page'[t] = page[t] /\ first # Null /\ PerPage \in Nat \ {0} /\ page[t] \in Nat
        /\ t \in Allocators
    BY <1>1, <1>2, <1>3, PoolConstants DEF StructTypeOK
  <2>2. PerPage > 1 => 1 \in 1 .. PerPage - 1
    BY <2>1
  <2>3. Role(t)' /\ Popping(t)' /\ Pushing(t)'
    BY <1>4, <2>1 DEF Role, Popping, Pushing
  <2>4. Committing(t)'
    BY <1>2, <1>4, <2>1, <2>2 DEF Committing, Conns!First, first
  <2>. QED
    BY <2>3, <2>4 DEF ThreadInv
<1>9. Housed'
  <2>1. HandOf(t) \in Homes /\ Home'[HandOf(t)] = Home[HandOf(t)] \cup X
    BY <1>6, HomesAre, HomeNow, HomeThen
  <2>2. \A r \in Homes \ {HandOf(t)} : Home'[r] = Home[r]
    <3>1. /\ Home'[InUse] = Home[InUse] /\ Home'[OnFreeList] = Home[OnFreeList]
          /\ \A u \in Threads : Home'[CacheOf(u)] = Home[CacheOf(u)]
      BY <1>1, <1>5, HomeNow, HomeThen
    <3>2. \A u \in Threads \ {t} : Home'[HandOf(u)] = Home[HandOf(u)]
      BY <1>7, HomeNow, HomeThen
    <3>. QED
      BY <3>1, <3>2, HomesAre
  <2>. QED
    BY <1>1, <1>3, <2>1, <2>2, SlotsArrive
<1>. QED
  BY <1>4, <1>5, <1>7, <1>8, <1>9, Together

(* A structure comes from malloc. *)
LEMMA FromHeapStep ==
  ASSUME OneAllocator, StructInv, NEW t \in Threads, Conns!FromHeap(t)
  PROVE  StructInv'
<1> DEFINE s == MaxPages * PerPage + heap + 1
<1>1. /\ StructTypeOK /\ Linked /\ Housed /\ Buffered /\ ThreadInv(t) /\ pc[t] = "heap"
      /\ heap < Heap /\ heap' = heap + 1 /\ pc' = [pc EXCEPT ![t] = "open"]
      /\ mine' = [mine EXCEPT ![t] = s]
      /\ UNCHANGED <<head, next, pages, cache, live, bufs, h, nx, page, i>>
  BY DEF StructInv, ThreadInv, Conns!FromHeap, Conns!Goto
<1>2. t \in Allocators /\ mine[t] = Null
  BY <1>1 DEF ThreadInv, Role
<1>3. /\ s \in Slot /\ {s} \cap Provided = {} /\ Provided' = Provided \cup {s}
      /\ heap' \in 0 .. Heap
  <2>1. PICK N \in Nat : N = MaxPages * PerPage
    BY PoolConstants
  <2>2. PICK m \in 0 .. N : m = pages * PerPage
    BY <1>1, <2>1, PagesFit DEF StructTypeOK
  <2>3. /\ heap \in 0 .. Heap /\ Heap \in Nat /\ heap < Heap
        /\ Slot = 1 .. N + Heap /\ s = N + heap + 1 /\ heap' = heap + 1
        /\ Provided = (1 .. m) \cup {N + n : n \in 1 .. heap}
        /\ Provided' = (1 .. m) \cup {N + n : n \in 1 .. heap'}
    BY <1>1, <2>1, <2>2, PoolConstants DEF StructTypeOK, Provided
  <2>4. 1 .. heap' = (1 .. heap) \cup {heap + 1}
    BY <2>3
  <2>5. /\ s \in Slot /\ s \notin 1 .. m /\ heap' \in 0 .. Heap
        /\ \A n \in 1 .. heap : s # N + n
    BY ONLY <2>3, N \in Nat, m \in 0 .. N
  <2>6. {N + n : n \in 1 .. heap'} = {N + n : n \in 1 .. heap} \cup {s}
    <3>1. s = N + (heap + 1)
      BY ONLY <2>3, N \in Nat
    <3>. QED
      BY ONLY <2>4, <3>1
  <2>7. s \notin Provided /\ Provided' = Provided \cup {s}
    BY ONLY <2>3, <2>5, <2>6
  <2>. QED
    BY <2>5, <2>7
<1> HIDE DEF s
<1>4. /\ pc'[t] = "open" /\ mine'[t] = s /\ Alone(t) /\ StructTypeOK'
  BY <1>1, <1>3 DEF StructTypeOK, Alone
<1>5. FreeList' = FreeList /\ Linked' /\ Buffered'
  BY <1>1 DEF FreeList, Linked, Buffered
<1>6. Conns!InHand(t) = {} /\ Conns!InHand(t)' = {s} /\ s # Null
  BY <1>1, <1>2, <1>3, <1>4, PoolConstants DEF Conns!InHand
<1>7. \A u \in Threads \ {t} : ThreadInv(u)' /\ Conns!InHand(u)' = Conns!InHand(u)
  <2>1. \A u \in Threads : Null \notin Conns!InHand(u)
    BY HandFacts
  <2>. QED
    BY <1>1, <1>2, <1>4, <2>1, OthersKeep
<1>8. ThreadInv(t)'
  BY <1>2, <1>4, <1>6 DEF ThreadInv, Role, Popping, Committing, Pushing
<1>9. Housed'
  <2>1. HandOf(t) \in Homes /\ Home'[HandOf(t)] = Home[HandOf(t)] \cup {s}
    BY <1>6, HomesAre, HomeNow, HomeThen
  <2>2. \A r \in Homes \ {HandOf(t)} : Home'[r] = Home[r]
    <3>1. /\ Home'[InUse] = Home[InUse] /\ Home'[OnFreeList] = Home[OnFreeList]
          /\ \A u \in Threads : Home'[CacheOf(u)] = Home[CacheOf(u)]
      BY <1>1, <1>5, HomeNow, HomeThen
    <3>2. \A u \in Threads \ {t} : Home'[HandOf(u)] = Home[HandOf(u)]
      BY <1>7, HomeNow, HomeThen
    <3>. QED
      BY <3>1, <3>2, HomesAre
  <2>. QED
    BY <1>1, <1>3, <2>1, <2>2, SlotsArrive
<1>. QED
  BY <1>4, <1>5, <1>7, <1>8, <1>9, Together

(* A slot in hand is linked to the head that is read: LinkExtra, Link. *)
LEMMA LinkStep ==
  ASSUME OneAllocator, StructInv, NEW t \in Threads, Conns!LinkExtra(t) \/ Conns!Link(t)
  PROVE  StructInv'
<1> DEFINE s == IF pc[t] = "extra" THEN Conns!Extra(t) ELSE mine[t]
<1>1. /\ StructTypeOK /\ Linked /\ Housed /\ Buffered /\ ThreadInv(t)
      /\ \/ pc[t] = "extra" /\ pc' = [pc EXCEPT ![t] = "pushextra"] /\ t \in Allocators
         \/ pc[t] = "link" /\ pc' = [pc EXCEPT ![t] = "push"]
      /\ h' = [h EXCEPT ![t] = head] /\ next' = [next EXCEPT ![s] = head]
      /\ UNCHANGED <<head, pages, heap, cache, live, bufs, mine, nx, page, i>>
  BY DEF StructInv, ThreadInv, Role, Conns!LinkExtra, Conns!Link, Conns!Goto
<1>2. /\ s \in Conns!InHand(t) /\ s \in Slot /\ mine[t] # Null
  BY <1>1, HandFacts DEF ThreadInv, Role
<1>3. Conns!Extra(t)' = Conns!Extra(t)
  BY <1>1 DEF Conns!Extra, Conns!First
<1> HIDE DEF s
<1>4. /\ s \notin FreeList /\ \A u \in Threads \ {t} : s \notin Conns!InHand(u)
  BY <1>1, <1>2, HousedFacts
<1>5. /\ FreeList' = FreeList /\ Linked' /\ next' \in [Slot -> Word] /\ next'[s] = head
      /\ \A r \in Slot : r # s => next'[r] = next[r]
  <2>1. head \in Word
    BY <1>1 DEF StructTypeOK, Word
  <2>. QED
    BY <1>1, <1>2, <1>4, <2>1, LinkOff
<1>6. h'[t] = head /\ Alone(t) /\ StructTypeOK'
  BY <1>1, <1>5 DEF StructTypeOK, Alone
<1>7. \A u \in Threads \ {t} : ThreadInv(u)' /\ Conns!InHand(u)' = Conns!InHand(u)
  BY <1>1, <1>4, <1>5, <1>6, OthersKeep
<1>8. ThreadInv(t)' /\ Conns!InHand(t)' = Conns!InHand(t)
  <2>1. CASE pc[t] = "extra"
    <3>1. pc'[t] = "pushextra" /\ s = Conns!Extra(t) /\ t \in Allocators
      BY <1>1, <2>1 DEF StructTypeOK, s
    <3>. QED
      BY <1>1, <1>2, <1>3, <1>5, <1>6, <2>1, <3>1
         DEF ThreadInv, Role, Popping, Committing, Pushing, Conns!InHand, Conns!First
  <2>2. CASE pc[t] = "link"
    <3>1. pc'[t] = "push" /\ s = mine[t]
      BY <1>1, <2>2 DEF StructTypeOK, s
    <3>. QED
      BY <1>1, <1>2, <1>3, <1>5, <1>6, <2>2, <3>1
         DEF ThreadInv, Role, Popping, Committing, Pushing, Conns!InHand, Conns!First
  <2>. QED
    BY <1>1, <2>1, <2>2
<1>9. Housed' /\ Buffered'
  <2>1. Provided' = Provided
    BY <1>1 DEF Provided
  <2>. QED
    BY <1>1, <1>5, <1>7, <1>8, <2>1, SlotsStay DEF Buffered
<1>. QED
  BY <1>5, <1>6, <1>7, <1>8, <1>9, Together

(* A slot leaves the hand and is pushed on the free list. *)
LEMMA Pushed ==
  ASSUME OneAllocator, StructInv, NEW t \in Threads, NEW s \in Conns!InHand(t),
         next[s] = head, head' = s,
         UNCHANGED <<next, pages, heap, cache, live, bufs>>,
         Alone(t), StructTypeOK', ThreadInv(t)',
         Conns!InHand(t)' = Conns!InHand(t) \ {s}
  PROVE  StructInv'
<1>1. StructTypeOK /\ Linked /\ Housed /\ Buffered
  BY DEF StructInv
<1>2. /\ s \in Slot /\ s \notin FreeList
  BY <1>1, HandFacts, HousedFacts
<1>3. FreeList' = FreeList \cup {s} /\ Linked'
  BY <1>1, <1>2, PushOn
<1>4. \A u \in Threads \ {t} : ThreadInv(u)' /\ Conns!InHand(u)' = Conns!InHand(u)
  <2>1. \A u \in Threads : Null \notin Conns!InHand(u)
    BY HandFacts
  <2>2. Null \notin FreeList
    BY <1>1, FreeListHead
  <2>. QED
    BY <1>3, <2>1, <2>2, OthersKeep
<1>5. Housed'
  <2>1. /\ OnFreeList \in Homes /\ HandOf(t) \in Homes /\ HandOf(t) # OnFreeList
    BY HomesAre, HomesDiffer
  <2>2. /\ {s} \subseteq Home[HandOf(t)] /\ Home'[HandOf(t)] = Home[HandOf(t)] \ {s}
        /\ Home'[OnFreeList] = Home[OnFreeList] \cup {s}
    BY <1>3, HomeNow, HomeThen
  <2>3. \A r \in Homes \ {HandOf(t), OnFreeList} : Home'[r] = Home[r]
    <3>1. /\ Home'[InUse] = Home[InUse]
          /\ \A u \in Threads : Home'[CacheOf(u)] = Home[CacheOf(u)]
      BY HomeNow, HomeThen
    <3>2. \A u \in Threads \ {t} : Home'[HandOf(u)] = Home[HandOf(u)]
      BY <1>4, HomeNow, HomeThen
    <3>. QED
      BY <3>1, <3>2, HomesAre
  <2>4. Provided' = Provided /\ \A u \in Threads : Conns!IsInjective(cache'[u])
    BY <1>1 DEF Housed, Provided
  <2>. QED
    BY <1>1, <2>1, <2>2, <2>3, <2>4, SlotsMove
<1>6. Buffered'
  BY <1>1 DEF Buffered
<1>. QED
  BY <1>3, <1>4, <1>5, <1>6, Together

(* The push of a slot that yk_conn_free gave up. *)
LEMMA PushStep ==
  ASSUME OneAllocator, StructInv, NEW t \in Threads, Conns!Push(t)
  PROVE  StructInv'
<1>1. /\ StructTypeOK /\ ThreadInv(t) /\ pc[t] = "push"
      /\ UNCHANGED <<next, pages, heap, cache, live, bufs, h, nx, page, i>>
  BY DEF StructInv, ThreadInv, Conns!Push, Conns!Goto
<1>2. /\ mine[t] # Null /\ mine[t] \in Slot /\ next[mine[t]] = h[t]
      /\ Conns!InHand(t) = {mine[t]}
  BY <1>1, HandFacts DEF ThreadInv, Role, Pushing
<1>3. CASE head = h[t]
  <2>1. /\ pc' = [pc EXCEPT ![t] = "idle"] /\ head' = mine[t] /\ mine' = [mine EXCEPT ![t] = Null]
    BY <1>3 DEF Conns!Push, Conns!Goto
  <2>2. pc'[t] = "idle" /\ mine'[t] = Null /\ Alone(t) /\ StructTypeOK'
    BY <1>1, <1>2, <2>1 DEF StructTypeOK, Alone
  <2>3. ThreadInv(t)' /\ Conns!InHand(t)' = {}
    BY <2>2 DEF ThreadInv, Role, Popping, Committing, Pushing, Conns!InHand
  <2>4. Conns!InHand(t)' = Conns!InHand(t) \ {mine[t]}
    BY <1>2, <2>3
  <2>. QED
    BY <1>1, <1>2, <1>3, <2>1, <2>2, <2>3, <2>4, Pushed
<1>4. CASE head # h[t]
  <2>1. pc' = [pc EXCEPT ![t] = "link"] /\ UNCHANGED <<head, mine>>
    BY <1>4 DEF Conns!Push, Conns!Goto
  <2>2. pc'[t] = "link" /\ Alone(t) /\ StructTypeOK'
    BY <1>1, <2>1 DEF StructTypeOK, Alone
  <2>3. ThreadInv(t)'
    BY <1>1, <1>2, <2>1, <2>2 DEF ThreadInv, Role, Popping, Committing, Pushing
  <2>. QED
    BY <1>1, <2>1, <2>2, <2>3, LocalStep
<1>. QED
  BY <1>3, <1>4

(* The push of a slot of a new page. *)
LEMMA PushExtraStep ==
  ASSUME OneAllocator, StructInv, NEW t \in Threads, Conns!PushExtra(t)
  PROVE  StructInv'
<1> DEFINE s == Conns!Extra(t)
<1>1. /\ StructTypeOK /\ Linked /\ Housed /\ Buffered /\ ThreadInv(t) /\ pc[t] = "pushextra"
      /\ UNCHANGED <<next, pages, heap, cache, live, bufs, mine, h, nx, page>>
  BY DEF StructInv, ThreadInv, Conns!PushExtra, Conns!Goto
<1>2. /\ mine[t] # Null /\ t \in Allocators /\ next[s] = h[t]
      /\ mine[t] \in Nat /\ mine[t] = Conns!First(page[t])
      /\ i[t] \in 1 .. PerPage - 1 /\ page[t] + 1 = pages
      /\ s \in Conns!InHand(t) /\ s \in Slot /\ s = mine[t] + i[t]
      /\ Conns!InHand(t) = {mine[t]} \cup {mine[t] + j : j \in i[t] .. PerPage - 1}
  BY <1>1, HandFacts DEF ThreadInv, Role, Pushing, Committing
<1> HIDE DEF s
<1>3. CASE head = h[t]
  <2>1. /\ pc' = [pc EXCEPT ![t] = IF i[t] + 1 < PerPage THEN "extra" ELSE "open"]
        /\ head' = s /\ i' = [i EXCEPT ![t] = i[t] + 1]
    BY <1>3 DEF Conns!PushExtra, Conns!Goto, s
  <2>2. /\ pc'[t] = IF i[t] + 1 < PerPage THEN "extra" ELSE "open"
        /\ i'[t] = i[t] + 1 /\ Alone(t) /\ StructTypeOK'
    BY <1>1, <1>2, <2>1 DEF StructTypeOK, Alone
  <2>3. PerPage \in Nat /\ i[t] \in Nat
    BY <1>2, PoolConstants
  <2>4. ThreadInv(t)'
    <3>1. i[t] + 1 < PerPage => i[t] + 1 \in 1 .. PerPage - 1
      BY <1>2, <2>3
    <3>2. Role(t)' /\ Popping(t)' /\ Pushing(t)'
      BY <1>1, <1>2, <2>2 DEF Role, Popping, Pushing
    <3>3. Committing(t)'
      BY <1>1, <1>2, <2>2, <3>1 DEF Committing, Conns!First
    <3>. QED
      BY <3>2, <3>3 DEF ThreadInv
  <2>5. Conns!InHand(t)' = Conns!InHand(t) \ {s}
    <3>1. Conns!InHand(t) \ {s} = {mine[t]} \cup {mine[t] + j : j \in i[t] + 1 .. PerPage - 1}
      <4>1. /\ \A j \in i[t] .. PerPage - 1 : j = i[t] \/ j \in i[t] + 1 .. PerPage - 1
            /\ \A j \in i[t] + 1 .. PerPage - 1 :
                 j \in i[t] .. PerPage - 1 /\ mine[t] + j # mine[t] + i[t]
            /\ mine[t] + i[t] # mine[t]
        BY <1>2, <2>3
      <4>. QED
        BY ONLY <1>2, <4>1
    <3>2. CASE i[t] + 1 < PerPage
      <4>1. Conns!InHand(t)' = {mine'[t]} \cup {Conns!First(page'[t]) + j : j \in i'[t] .. PerPage - 1}
        BY <1>1, <1>2, <2>2, <3>2 DEF Conns!InHand, Conns!First
      <4>2. /\ mine'[t] = mine[t] /\ Conns!First(page'[t]) = mine[t]
        BY <1>1, <1>2
      <4>. QED
        BY <2>2, <3>1, <4>1, <4>2
    <3>3. CASE ~(i[t] + 1 < PerPage)
      <4>1. i[t] + 1 .. PerPage - 1 = {}
        BY <2>3, <3>3
      <4>2. Conns!InHand(t)' = {mine[t]}
        BY <1>1, <1>2, <2>2, <3>3 DEF Conns!InHand
      <4>. QED
        BY <3>1, <4>1, <4>2
    <3>. QED
      BY <3>2, <3>3
  <2>. QED
    BY <1>1, <1>2, <1>3, <2>1, <2>2, <2>4, <2>5, Pushed
<1>4. CASE head # h[t]
  <2>1. pc' = [pc EXCEPT ![t] = "extra"] /\ UNCHANGED <<head, i>>
    BY <1>4 DEF Conns!PushExtra, Conns!Goto
  <2>2. pc'[t] = "extra" /\ Alone(t) /\ StructTypeOK'
    BY <1>1, <2>1 DEF StructTypeOK, Alone
  <2>3. ThreadInv(t)' /\ Conns!InHand(t)' = Conns!InHand(t)
    BY <1>1, <1>2, <2>1, <2>2
       DEF ThreadInv, Role, Popping, Committing, Pushing, Conns!InHand, Conns!First
  <2>4. FreeList' = FreeList /\ Linked' /\ Provided' = Provided
    BY <1>1, <2>1 DEF FreeList, Linked, Provided
  <2>5. \A u \in Threads \ {t} : ThreadInv(u)' /\ Conns!InHand(u)' = Conns!InHand(u)
    <3>1. \A u \in Threads : Null \notin Conns!InHand(u)
      BY HandFacts
    <3>. QED
      BY <1>1, <1>2, <2>2, <3>1, OthersKeep
  <2>6. Housed' /\ Buffered'
    BY <1>1, <2>3, <2>4, <2>5, SlotsStay DEF Buffered
  <2>. QED
    BY <2>2, <2>3, <2>4, <2>5, <2>6, Together
<1>. QED
  BY <1>3, <1>4

(* The accept handler takes the slot into use. *)
LEMMA OpenStep ==
  ASSUME OneAllocator, StructInv, NEW t \in Threads, Conns!Open(t)
  PROVE  StructInv'
<1> DEFINE s == mine[t]
<1>1. /\ StructTypeOK /\ Linked /\ Housed /\ Buffered /\ ThreadInv(t) /\ pc[t] = "open"
      /\ pc' = [pc EXCEPT ![t] = "idle"] /\ live' = live \cup {s} /\ bufs' = bufs \cup {s}
      /\ next' = [next EXCEPT ![s] = Junk] /\ mine' = [mine EXCEPT ![t] = Null]
      /\ UNCHANGED <<head, pages, heap, cache, h, nx, page, i>>
  BY DEF StructInv, ThreadInv, Conns!Open, Conns!Goto
<1>2. s \in Slot /\ t \in Allocators /\ Conns!InHand(t) = {s}
  BY <1>1, HandFacts DEF ThreadInv, Role
<1> HIDE DEF s
<1>3. /\ s \notin FreeList /\ \A u \in Threads \ {t} : s \notin Conns!InHand(u)
  BY <1>1, <1>2, HousedFacts
<1>4. /\ FreeList' = FreeList /\ Linked' /\ next' \in [Slot -> Word]
      /\ \A r \in Slot : r # s => next'[r] = next[r]
  <2>1. Junk \in Word
    BY DEF Word
  <2>. QED
    BY <1>1, <1>2, <1>3, <2>1, LinkOff
<1>5. pc'[t] = "idle" /\ mine'[t] = Null /\ Alone(t) /\ StructTypeOK'
  BY <1>1, <1>4 DEF StructTypeOK, Alone
<1>6. ThreadInv(t)' /\ Conns!InHand(t)' = {}
  BY <1>5 DEF ThreadInv, Role, Popping, Committing, Pushing, Conns!InHand
<1>7. \A u \in Threads \ {t} : ThreadInv(u)' /\ Conns!InHand(u)' = Conns!InHand(u)
  BY <1>2, <1>3, <1>4, <1>5, OthersKeep
<1>8. Housed'
  <2>1. /\ InUse \in Homes /\ HandOf(t) \in Homes /\ HandOf(t) # InUse
    BY HomesAre, HomesDiffer
  <2>2. /\ {s} \subseteq Home[HandOf(t)] /\ Home'[HandOf(t)] = Home[HandOf(t)] \ {s}
        /\ Home'[InUse] = Home[InUse] \cup {s}
    BY <1>1, <1>2, <1>6, HomeNow, HomeThen
  <2>3. \A r \in Homes \ {HandOf(t), InUse} : Home'[r] = Home[r]
    <3>1. /\ Home'[OnFreeList] = Home[OnFreeList]
          /\ \A u \in Threads : Home'[CacheOf(u)] = Home[CacheOf(u)]
      BY <1>1, <1>4, HomeNow, HomeThen
    <3>2. \A u \in Threads \ {t} : Home'[HandOf(u)] = Home[HandOf(u)]
      BY <1>7, HomeNow, HomeThen
    <3>. QED
      BY <3>1, <3>2, HomesAre
  <2>4. Provided' = Provided /\ \A u \in Threads : Conns!IsInjective(cache'[u])
    BY <1>1 DEF Housed, Provided
  <2>. QED
    BY <1>1, <2>1, <2>2, <2>3, <2>4, SlotsMove
<1>9. Buffered'
  BY <1>1 DEF Buffered
<1>. QED
  BY <1>4, <1>5, <1>6, <1>7, <1>8, <1>9, Together

(* yk_conn_free, into the cache or, without its buffers, to the pool. *)
LEMMA FreeStep ==
  ASSUME OneAllocator, StructInv, NEW t \in Threads, NEW s \in Slot, Conns!Free(t, s)
  PROVE  StructInv'
<1>1. /\ StructTypeOK /\ Linked /\ Housed /\ Buffered /\ ThreadInv(t) /\ pc[t] = "idle"
      /\ s \in live /\ live' = live \ {s}
      /\ UNCHANGED <<head, next, pages, heap, h, nx, page, i>>
  BY DEF StructInv, ThreadInv, Conns!Free
<1>2. /\ mine[t] = Null /\ Conns!InHand(t) = {} /\ s # Null
  BY <1>1, HandFacts, PoolConstants DEF ThreadInv, Role
<1>3. \A u \in Threads : s \notin Conns!ToSet(cache[u])
  BY <1>1, HousedFacts
<1>4. FreeList' = FreeList /\ Linked' /\ Provided' = Provided
  BY <1>1 DEF FreeList, Linked, Provided
<1>5. Alone(t) => \A u \in Threads \ {t} : ThreadInv(u)' /\ Conns!InHand(u)' = Conns!InHand(u)
  <2>1. \A u \in Threads : Null \notin Conns!InHand(u)
    BY HandFacts
  <2>2. Null \notin FreeList
    BY <1>1, FreeListHead
  <2>. QED
    BY <1>1, <1>4, <2>1, <2>2, OthersKeep
<1>6. CASE Len(cache[t]) < Cap
  <2>1. /\ cache' = [cache EXCEPT ![t] = Append(cache[t], s)] /\ UNCHANGED <<pc, mine, bufs>>
    BY <1>6 DEF Conns!Free
  <2>2. /\ Append(cache[t], s) \in Seq(Slot) /\ Conns!IsInjective(Append(cache[t], s))
        /\ Conns!ToSet(Append(cache[t], s)) = Conns!ToSet(cache[t]) \cup {s}
    <3>1. cache[t] \in Seq(Slot) /\ Conns!IsInjective(cache[t])
      BY <1>1 DEF StructTypeOK, Housed
    <3>. QED
      BY <1>3, <3>1, CachePut
  <2>3. /\ cache'[t] = Append(cache[t], s) /\ \A u \in Threads \ {t} : cache'[u] = cache[u]
        /\ StructTypeOK' /\ Alone(t)
    BY <1>1, <2>1, <2>2 DEF StructTypeOK, Alone
  <2>4. ThreadInv(t)' /\ Conns!InHand(t)' = {}
    BY <1>1, <1>2, <1>4, <2>1 DEF ThreadInv, Role, Popping, Committing, Pushing, Conns!InHand
  <2>5. Housed'
    <3>1. /\ InUse \in Homes /\ CacheOf(t) \in Homes /\ InUse # CacheOf(t)
      BY HomesAre, HomesDiffer
    <3>2. /\ {s} \subseteq Home[InUse] /\ Home'[InUse] = Home[InUse] \ {s}
          /\ Home'[CacheOf(t)] = Home[CacheOf(t)] \cup {s}
      BY <1>1, <2>2, <2>3, HomeNow, HomeThen
    <3>3. \A r \in Homes \ {InUse, CacheOf(t)} : Home'[r] = Home[r]
      <4>1. /\ Home'[OnFreeList] = Home[OnFreeList]
            /\ \A u \in Threads \ {t} : Home'[CacheOf(u)] = Home[CacheOf(u)]
        BY <1>4, <2>3, HomeNow, HomeThen
      <4>2. \A u \in Threads : Home'[HandOf(u)] = Home[HandOf(u)]
        BY <1>2, <1>5, <2>3, <2>4, HomeNow, HomeThen
      <4>. QED
        BY <4>1, <4>2, HomesAre
    <3>4. \A u \in Threads : Conns!IsInjective(cache'[u])
      BY <1>1, <2>2, <2>3 DEF Housed
    <3>. QED
      BY <1>1, <1>4, <3>1, <3>2, <3>3, <3>4, SlotsMove
  <2>6. Buffered'
    <3>1. {s} \cup UNION {Conns!ToSet(cache[u]) : u \in Threads}
            \subseteq UNION {Conns!ToSet(cache'[u]) : u \in Threads}
      BY <2>2, <2>3
    <3>. QED
      BY <1>1, <2>1, <3>1 DEF Buffered
  <2>. QED
    BY <1>4, <1>5, <2>3, <2>4, <2>5, <2>6, Together
<1>7. CASE ~(Len(cache[t]) < Cap)
  <2>1. /\ pc' = [pc EXCEPT ![t] = "link"] /\ mine' = [mine EXCEPT ![t] = s]
        /\ bufs' = bufs \ {s} /\ UNCHANGED cache
    BY <1>7 DEF Conns!Free
  <2>2. pc'[t] = "link" /\ mine'[t] = s /\ StructTypeOK' /\ Alone(t)
    BY <1>1, <2>1 DEF StructTypeOK, Alone
  <2>3. ThreadInv(t)' /\ Conns!InHand(t)' = {s}
    BY <1>2, <2>2 DEF ThreadInv, Role, Popping, Committing, Pushing, Conns!InHand
  <2>4. Housed'
    <3>1. /\ InUse \in Homes /\ HandOf(t) \in Homes /\ InUse # HandOf(t)
      BY HomesAre, HomesDiffer
    <3>2. /\ {s} \subseteq Home[InUse] /\ Home'[InUse] = Home[InUse] \ {s}
          /\ Home'[HandOf(t)] = Home[HandOf(t)] \cup {s}
      BY <1>1, <1>2, <2>3, HomeNow, HomeThen
    <3>3. \A r \in Homes \ {InUse, HandOf(t)} : Home'[r] = Home[r]
      <4>1. /\ Home'[OnFreeList] = Home[OnFreeList]
            /\ \A u \in Threads : Home'[CacheOf(u)] = Home[CacheOf(u)]
        BY <1>4, <2>1, HomeNow, HomeThen
      <4>2. \A u \in Threads \ {t} : Home'[HandOf(u)] = Home[HandOf(u)]
        BY <1>5, <2>2, HomeNow, HomeThen
      <4>. QED
        BY <4>1, <4>2, HomesAre
    <3>4. \A u \in Threads : Conns!IsInjective(cache'[u])
      BY <1>1, <2>1 DEF Housed
    <3>. QED
      BY <1>1, <1>4, <3>1, <3>2, <3>3, <3>4, SlotsMove
  <2>5. Buffered'
    BY <1>1, <2>1 DEF Buffered
  <2>. QED
    BY <1>4, <1>5, <2>2, <2>3, <2>4, <2>5, Together
<1>. QED
  BY <1>6, <1>7

----------------------------------------------------------------------------
(* The invariant holds at the start. *)
LEMMA StructStart == Conns!Init => StructInv
<1> SUFFICES ASSUME Conns!Init PROVE StructInv
  OBVIOUS
<1>1. /\ head = Null /\ next = [s \in Slot |-> Null] /\ pages = 0 /\ heap = 0
      /\ cache = [t \in Threads |-> <<>>] /\ live = {} /\ bufs = {}
      /\ pc   = [t \in Threads |-> "idle"] /\ mine = [t \in Threads |-> Null]
      /\ h    = [t \in Threads |-> Null]   /\ nx   = [t \in Threads |-> Null]
      /\ page = [t \in Threads |-> 0]      /\ i    = [t \in Threads |-> 0]
  BY DEF Conns!Init, Slot
<1>2. StructTypeOK
  BY <1>1, PoolConstants DEF StructTypeOK, Word
<1>3. FreeList = {} /\ Linked
  BY <1>1, PoolConstants, ListNull DEF FreeList, Linked
<1>4. \A t \in Threads : /\ Role(t) /\ Popping(t) /\ Committing(t) /\ Pushing(t)
                         /\ Conns!InHand(t) = {}
  BY <1>1 DEF Role, Popping, Committing, Pushing, Conns!InHand
<1>5. Housed
  <2>1. \A t \in Threads : cache[t] = <<>>
    BY <1>1
  <2>2. \A t \in Threads : Conns!ToSet(cache[t]) = {} /\ Conns!IsInjective(cache[t])
    BY <2>1 DEF Conns!ToSet, Conns!IsInjective
  <2>3. \A p \in Homes : Home[p] = {}
    BY <1>1, <1>3, <1>4, <2>2, HomeNow, HomesAre
  <2>4. Provided = {}
    <3>1. /\ pages * PerPage = 0 /\ 1 .. 0 = {} /\ 1 .. heap = {}
      BY <1>1, PoolConstants
    <3>. QED
      BY <3>1 DEF Provided
  <2>. QED
    BY <2>2, <2>3, <2>4, HomeNow DEF Housed, Apart, All
<1>6. Buffered
  BY <1>1 DEF Buffered
<1>. QED
  BY <1>2, <1>3, <1>4, <1>5, <1>6 DEF StructInv

(* Every step keeps it. *)
LEMMA StructStep ==
  ASSUME OneAllocator, StructInv, Conns!Next
  PROVE  StructInv'
<1>1. PICK t \in Threads :
        \/ Conns!AllocCached(t) \/ Conns!AllocBegin(t) \/ Conns!ReadHead(t) \/ Conns!ReadNext(t)
        \/ Conns!PopCas(t) \/ Conns!ReadEnd(t) \/ Conns!Commit(t) \/ Conns!LinkExtra(t)
        \/ Conns!PushExtra(t) \/ Conns!FromHeap(t) \/ Conns!Open(t)
        \/ \E s \in Slot : Conns!Free(t, s)
        \/ Conns!Link(t) \/ Conns!Push(t)
  BY DEF Conns!Next, Slot
<1>. QED
  BY <1>1, AllocCachedStep, ReadStep, PopCasStep, CommitStep, LinkStep, PushExtraStep,
     FromHeapStep, OpenStep, FreeStep, PushStep

(* So does a step of the connections. *)
LEMMA StructStutter == StructInv /\ UNCHANGED structVars => StructInv'
<1> SUFFICES ASSUME StructInv, UNCHANGED structVars PROVE StructInv'
  OBVIOUS
<1>1. UNCHANGED <<head, next, pages, heap, cache, live, bufs, pc, mine, h, nx, page, i>>
  BY DEF structVars
<1>2. /\ FreeList' = FreeList /\ Linked' /\ Provided' = Provided /\ StructTypeOK' /\ Buffered'
  BY <1>1 DEF FreeList, Linked, Provided, StructTypeOK, Buffered, StructInv
<1>3. \A u \in Threads : /\ (Role(u) /\ Popping(u) /\ Committing(u) /\ Pushing(u))'
                         /\ Conns!InHand(u)' = Conns!InHand(u)
  BY <1>1, <1>2
     DEF StructInv, Role, Popping, Committing, Pushing, Conns!InHand, Conns!Extra, Conns!First
<1>4. Housed'
  BY <1>1, <1>2, <1>3, SlotsStay DEF StructInv
<1>. QED
  BY <1>2, <1>3, <1>4 DEF StructInv

(* What the invariant says of the first property that is checked. *)
LEMMA InvExclusive == StructInv => Conns!SlotExclusive
<1> SUFFICES ASSUME StructInv PROVE Conns!SlotExclusive
  OBVIOUS
<1>1. /\ live \cap FreeList = {}
      /\ \A t \in Threads :
           /\ Conns!ToSet(cache[t]) \cap (live \cup FreeList) = {}
           /\ Conns!InHand(t) \cap (live \cup FreeList) = {}
           /\ \A u \in Threads : Conns!ToSet(cache[t]) \cap Conns!InHand(u) = {}
           /\ \A u \in Threads \ {t} : /\ Conns!ToSet(cache[t]) \cap Conns!ToSet(cache[u]) = {}
                                       /\ Conns!InHand(t) \cap Conns!InHand(u) = {}
  BY HousedFacts DEF StructInv
<1>2. /\ Conns!OnList = FreeList
      /\ Conns!Places = {live, FreeList} \cup {Conns!ToSet(cache[t]) : t \in Threads}
                                         \cup {Conns!InHand(t) : t \in Threads}
  BY FreeListIs DEF Conns!Places
<1>3. \A A, B \in Conns!Places : A # B => A \cap B = {}
  BY <1>1, <1>2
<1>4. \A t \in Threads : Conns!IsInjective(cache[t])
  BY DEF StructInv, Housed
<1>. QED
  BY <1>1, <1>2, <1>3, <1>4 DEF Conns!SlotExclusive

(* And of the second. *)
LEMMA InvNothingLost == StructInv => Conns!NothingLost
<1> SUFFICES ASSUME StructInv PROVE Conns!NothingLost
  OBVIOUS
<1>1. /\ StructTypeOK /\ Linked /\ Housed /\ Buffered
  BY DEF StructInv
<1>2. Conns!FreeListEnds
  <2>1. head \in FreeList \cup {Null}
    BY <1>1, FreeListHead
  <2>2. ASSUME NEW s \in FreeList
        PROVE  next[s] \in FreeList \cup {Null} /\ s \notin List(next[s], next)
    <3>1. next[s] \in Slot \cup {Null} /\ s \notin List(next[s], next)
      BY <1>1 DEF Linked
    <3>2. next[s] \in Slot => next[s] \in FreeList
      BY <1>1, ListClosed DEF FreeList, Closed, StructTypeOK
    <3>. QED
      BY <3>1, <3>2
  <2>. QED
    BY <2>1, <2>2, FreeListIs DEF Conns!FreeListEnds
<1>3. Provided \subseteq UNION Conns!Places
  <2>1. Provided \subseteq UNION {Home[p] : p \in Homes}
    BY <1>1, HomeNow DEF Housed, All
  <2>2. \A p \in Homes : Home[p] \in Conns!Places
    BY HomeNow, HomesAre, FreeListIs DEF Conns!Places
  <2>. QED
    BY <2>1, <2>2
<1>. QED
  BY <1>1, <1>2, <1>3 DEF Conns!NothingLost, Provided, Buffered

(* The invariant is one of every execution in which one thread allocates.  *)
LEMMA StructInvariant ==
  ASSUME OneAllocator
  PROVE  ConnectionsSpec => []StructInv
<1>1. ConnectionsInit => StructInv
  BY StructStart DEF ConnectionsInit
<1>2. StructInv /\ [ConnectionsNext]_allVars => StructInv'
  <2> SUFFICES ASSUME StructInv, [ConnectionsNext]_allVars PROVE StructInv'
    OBVIOUS
  <2>1. Conns!Next \/ UNCHANGED structVars
    BY DEF ConnectionsNext, ConnectionStep, allVars
  <2>. QED
    BY <2>1, StructStep, StructStutter
<1>. QED
  BY <1>1, <1>2, PTL DEF ConnectionsSpec

(* A structure serves one connection, one cache, one place in the free     *)
(* list or one thread's hand at a time (yk_conn_alloc and yk_conn_free),   *)
(* for any number of pages, slots and threads, one of which allocates.     *)
THEOREM StructuresAreExclusive ==
  ASSUME OneAllocator
  PROVE  ConnectionsSpec => []SlotExclusive
<1>1. StructInv => SlotExclusive
  BY InvExclusive DEF SlotExclusive
<1>. QED
  BY <1>1, StructInvariant, PTL

(* The free list ends, every structure that was ever provided is somewhere *)
(* and no buffer is lost (yk_vmem_pool_alloc and yk_vmem_pool_free).       *)
THEOREM StructuresAreKept ==
  ASSUME OneAllocator
  PROVE  ConnectionsSpec => []NothingLost
<1>1. StructInv => NothingLost
  BY InvNothingLost DEF NothingLost
<1>. QED
  BY <1>1, StructInvariant, PTL
=============================================================================
