------------------------ MODULE NativeSessionsProofs ------------------------
(***************************************************************************)
(* Proofs about an upgraded connection of the native server.  HTTP/2       *)
(* (H2Session, and NativeSessions, which runs it): what handlers are given *)
(* and where the connection's credit goes, for any number of streams, any  *)
(* table, any window and any interleaving of requests, trailers and        *)
(* resets.  WebSocket (WsFrames): every frame is answered, in order, for   *)
(* any sequence of frames and wherever the network cuts them.              *)
(***************************************************************************)
EXTENDS NativeSessions, FiniteSetTheorems, FunctionTheorems, TLAPS

States == {"idle", "open", "ended", "answered", "reset", "refused"}

(* What each side sends. *)
ClientFrames ==
  {f \in Frames : \/ f.type \in {"headers", "data", "trailers", "rst"} /\ f.id \in Ids
                  \/ f.type = "goaway" /\ f.id = 0}
ServerFrames ==
  {f \in Frames : \/ f.type \in {"response", "refused"} /\ f.id \in Ids
                  \/ f.type = "window"}

Requests == [id : Ids, hdr : {"headers", "trailers"}, body : Seq(Ids), closed : BOOLEAN]
Given    == [hdr : {"headers", "trailers"}, body : Seq(Ids)]

DataOf(id) == {f \in DataFrames : f.id = id}
Repeat(id, k) == [b \in 1 .. k |-> id]

SessionTypeOK ==
  /\ cl \in [Ids -> States]
  /\ sent \in [Ids -> Nat]
  /\ credit \in Nat
  /\ in \in Seq(ClientFrames)
  /\ used \in Nat /\ used <= Pieces * Len(in)
  /\ out \in Seq(ServerFrames)
  /\ streams \in Seq(Requests) /\ Len(streams) <= MaxStreams
  /\ ended \in BOOLEAN
  /\ answers \in [Ids -> Seq(Given)]

(* What the client has sent, in the order it arrives: the headers of a     *)
(* stream first, nothing but a reset behind the end of its request.        *)
InOrder ==
  \A i, j \in DOMAIN in : i < j /\ in[i].id = in[j].id /\ in[j].id # 0 =>
    /\ in[j].type # "headers"
    /\ in[i].end => in[j].type = "rst"

ClientKnows ==
  \A j \in DOMAIN in :
    /\ in[j].id # 0 => /\ cl[in[j].id] # "idle"
                       /\ in[j].end => cl[in[j].id] # "open"
    /\ in[j].type = "trailers" => Trailers

(* The server has not seen the headers of a stream yet; it has a place in  *)
(* the table; it was refused.                                              *)
Waits(id) == \/ cl[id] = "idle"
             \/ \E j \in DOMAIN in : in[j].type = "headers" /\ in[j].id = id
Known(id) == \E n \in DOMAIN streams : streams[n].id = id
Refused(id) == \/ cl[id] = "refused"
               \/ \E j \in DOMAIN out : out[j].type = "refused" /\ out[j].id = id

(* The table: one place per stream, with the body that has arrived; every  *)
(* stream whose headers were seen is in it or was refused because it was   *)
(* full.                                                                   *)
Apart ==
  \A m, n \in DOMAIN streams : streams[m].id = streams[n].id => m = n
Placed(id) ==
  /\ Waits(id) => ~Known(id) /\ ~Refused(id) /\ OnTheWay(in, DataOf(id)) = sent[id]
  /\ ~Waits(id) => (Known(id) <=> ~Refused(id))
  /\ Refused(id) => Len(streams) >= MaxStreams
Collects(st) ==
  /\ st.body = Repeat(st.id, Len(st.body))
  /\ Len(st.body) + OnTheWay(in, DataOf(st.id)) = sent[st.id]
  /\ st.hdr = "headers" \/ Trailers
Table ==
  /\ Apart
  /\ \A id \in Ids : Placed(id)
  /\ \A n \in DOMAIN streams : Collects(streams[n])
  /\ \A j \in DOMAIN out : out[j].type = "response" => Known(out[j].id)

Answered ==
  /\ \A id \in Ids : answers[id] # <<>> => cl[id] \notin {"idle", "open"}
  /\ RequestWhole

SessionInv ==
  /\ SessionTypeOK
  /\ InOrder
  /\ ClientKnows
  /\ ~ended => Table
  /\ CreditConserved
  /\ Answered

----------------------------------------------------------------------------
(* What the rest of a queue holds. *)
LEMMA TailHolds ==
  ASSUME NEW T, NEW q \in Seq(T), q # <<>>
  PROVE  /\ Tail(q) \in Seq(T) /\ Len(q) \in Nat /\ Len(q) > 0 /\ Len(Tail(q)) = Len(q) - 1
         /\ Head(q) \in T /\ Head(q) = q[1]
         /\ \A j \in 1 .. Len(q) - 1 : Tail(q)[j] = q[j + 1]
<1>1. Len(q) \in Nat /\ Len(q) > 0
  OBVIOUS
<1>2. Tail(q) \in Seq(T) /\ Len(Tail(q)) = Len(q) - 1 /\ Head(q) = q[1]
  BY <1>1
<1>3. \A j \in 1 .. Len(q) - 1 : Tail(q)[j] = q[j + 1]
  BY <1>1
<1>4. q[1] \in T
  BY <1>1
<1>. QED
  BY <1>1, <1>2, <1>3, <1>4

(* The elements of a queue are its head and those of the rest. *)
LEMMA TailElements ==
  ASSUME NEW T, NEW q \in Seq(T), q # <<>>
  PROVE  /\ \E j \in DOMAIN q : q[j] = Head(q)
         /\ \A j \in DOMAIN q : q[j] = Head(q) \/ \E k \in DOMAIN Tail(q) : Tail(q)[k] = q[j]
         /\ \A k \in DOMAIN Tail(q) : \E j \in DOMAIN q : q[j] = Tail(q)[k]
<1>1. /\ Len(q) \in Nat /\ Len(q) > 0 /\ Len(Tail(q)) = Len(q) - 1 /\ Head(q) = q[1]
      /\ \A j \in 1 .. Len(q) - 1 : Tail(q)[j] = q[j + 1]
  BY TailHolds
<1>2. DOMAIN q = 1 .. Len(q) /\ DOMAIN Tail(q) = 1 .. Len(q) - 1
  BY <1>1, TailHolds
<1>3. ASSUME NEW j \in 1 .. Len(q), j # 1
      PROVE  j - 1 \in 1 .. Len(q) - 1 /\ Tail(q)[j - 1] = q[j]
  BY <1>1, <1>3
<1>4. ASSUME NEW j \in 1 .. Len(q) - 1
      PROVE  j + 1 \in 1 .. Len(q) /\ Tail(q)[j] = q[j + 1]
  BY <1>1, <1>4
<1>5. 1 \in 1 .. Len(q)
  BY <1>1
<1>6. ASSUME NEW j \in DOMAIN q, q[j] # Head(q)
      PROVE  \E k \in DOMAIN Tail(q) : Tail(q)[k] = q[j]
  <2>1. j \in 1 .. Len(q) /\ j # 1
    BY <1>1, <1>2, <1>6
  <2>. QED
    BY <1>2, <1>3, <2>1
<1>7. \A k \in DOMAIN Tail(q) : \E j \in DOMAIN q : q[j] = Tail(q)[k]
  BY <1>2, <1>4
<1>8. \E j \in DOMAIN q : q[j] = Head(q)
  BY <1>1, <1>2, <1>5
<1>. QED
  BY <1>6, <1>7, <1>8

(* What a queue with one more frame holds. *)
LEMMA AppendHolds ==
  ASSUME NEW T, NEW q \in Seq(T), NEW f \in T
  PROVE  /\ Append(q, f) \in Seq(T) /\ Len(q) \in Nat /\ Len(Append(q, f)) = Len(q) + 1
         /\ Append(q, f)[Len(q) + 1] = f
         /\ \A j \in 1 .. Len(q) : Append(q, f)[j] = q[j] /\ q[j] \in T
  OBVIOUS

(* A queue counts the frames of a set: a natural number, nothing exactly   *)
(* if there is none.                                                       *)
LEMMA CountNone ==
  ASSUME NEW T, NEW q \in Seq(T), NEW fs
  PROVE  /\ IsFiniteSet({j \in DOMAIN q : q[j] \in fs})
         /\ OnTheWay(q, fs) \in Nat
         /\ OnTheWay(q, fs) = 0 <=> \A j \in DOMAIN q : q[j] \notin fs
<1>1. DOMAIN q = 1 .. Len(q) /\ Len(q) \in Nat
  OBVIOUS
<1>2. IsFiniteSet(DOMAIN q)
  BY <1>1, FS_Interval
<1>3. IsFiniteSet({j \in DOMAIN q : q[j] \in fs})
  BY <1>2, FS_Subset
<1>. QED
  BY <1>3, FS_CardinalityType, FS_EmptySet DEF OnTheWay

(* It counts one more when one of them is appended ... *)
LEMMA CountAppend ==
  ASSUME NEW T, NEW q \in Seq(T), NEW f \in T, NEW fs
  PROVE  OnTheWay(Append(q, f), fs) = OnTheWay(q, fs) + IF f \in fs THEN 1 ELSE 0
<1>. DEFINE now  == {j \in DOMAIN q : q[j] \in fs}
            then == {j \in DOMAIN Append(q, f) : Append(q, f)[j] \in fs}
            end  == Len(q) + 1
<1>1. IsFiniteSet(now) /\ Cardinality(now) \in Nat
  BY CountNone DEF OnTheWay
<1>2. DOMAIN q = 1 .. Len(q) /\ DOMAIN Append(q, f) = 1 .. end /\ Len(q) \in Nat
  BY AppendHolds
<1>3. Append(q, f)[end] = f /\ \A j \in 1 .. Len(q) : Append(q, f)[j] = q[j]
  BY AppendHolds
<1>4. then = IF f \in fs THEN now \cup {end} ELSE now
  BY <1>2, <1>3
<1>5. end \notin now
  BY <1>2
<1>. HIDE DEF now, then, end
<1>6. Cardinality(then) = Cardinality(now) + IF f \in fs THEN 1 ELSE 0
  <2>1. Cardinality(now \cup {end}) = Cardinality(now) + 1
    BY <1>1, <1>5, FS_AddElement
  <2>. QED
    BY <1>1, <1>4, <2>1
<1>. QED
  BY <1>6 DEF OnTheWay, now, then

(* ... and one less when one of them is taken. *)
LEMMA CountTail ==
  ASSUME NEW T, NEW q \in Seq(T), q # <<>>, NEW fs
  PROVE  OnTheWay(q, fs) = OnTheWay(Tail(q), fs) + IF Head(q) \in fs THEN 1 ELSE 0
<1>. DEFINE now  == {j \in DOMAIN q : q[j] \in fs}
            rest == now \ {1}
            then == {j \in DOMAIN Tail(q) : Tail(q)[j] \in fs}
            next == [j \in rest |-> j - 1]
<1>1. IsFiniteSet(now) /\ Cardinality(now) \in Nat
  BY CountNone DEF OnTheWay
<1>2. DOMAIN q = 1 .. Len(q) /\ Len(q) \in Nat /\ Len(q) > 0
  OBVIOUS
<1>3. DOMAIN Tail(q) = 1 .. Len(q) - 1
  BY TailHolds
<1>4. Head(q) = q[1] /\ \A j \in 1 .. Len(q) - 1 : Tail(q)[j] = q[j + 1]
  BY TailHolds
<1>5. IsFiniteSet(rest) /\ Cardinality(now) = Cardinality(rest) + IF Head(q) \in fs THEN 1 ELSE 0
  <2>1. 1 \in now <=> Head(q) \in fs
    BY <1>2, <1>4
  <2>2. IsFiniteSet(rest) /\ Cardinality(rest) = IF 1 \in now THEN Cardinality(now) - 1 ELSE Cardinality(now)
    BY <1>1, FS_RemoveElement
  <2>3. Cardinality(rest) \in Nat
    BY <2>2, FS_CardinalityType
  <2>. HIDE DEF now, rest
  <2>. QED
    BY <1>1, <2>1, <2>2, <2>3
<1>6. ExistsBijection(rest, then)
  <2>1. \A j \in rest : j \in 2 .. Len(q) /\ j - 1 \in 1 .. Len(q) - 1 /\ q[j] \in fs
    BY <1>2
  <2>2. \A j \in rest : Tail(q)[j - 1] = q[(j - 1) + 1] /\ (j - 1) + 1 = j
    BY <1>4, <2>1
  <2>3. \A j \in rest : j - 1 \in then
    BY <1>3, <2>1, <2>2
  <2>4. \A j \in then : j + 1 \in rest /\ (j + 1) - 1 = j
    BY <1>2, <1>3, <1>4
  <2>5. next \in [rest -> then] /\ \A j \in rest : next[j] = j - 1
    BY <2>3
  <2>6. \A j, k \in rest : next[j] = next[k] => j = k
    BY <2>1, <2>5
  <2>7. \A k \in then : \E j \in rest : next[j] = k
    BY <2>4, <2>5
  <2>. HIDE DEF rest, then, next
  <2>. QED
    BY <2>5, <2>6, <2>7, Fun_IsBij, Fun_ExistsBij
<1>7. Cardinality(then) = Cardinality(rest)
  <2>. HIDE DEF rest, then
  <2>. QED
    BY <1>5, <1>6, FS_Bijection
<1>. HIDE DEF now, rest, then
<1>. QED
  BY <1>5, <1>7 DEF OnTheWay, now, then

----------------------------------------------------------------------------
(* Initially nothing was sent. *)
LEMMA SessionStart == Init => SessionInv
<1>. SUFFICES ASSUME Init PROVE SessionInv
  OBVIOUS
<1>. USE DEF Init
<1>1. Window \in Nat /\ MaxStreams \in Nat
  BY H2Assumption
<1>2. \A fs : OnTheWay(<<>>, fs) = 0
  <2>1. <<>> \in Seq(Frames) /\ DOMAIN <<>> = {}
    OBVIOUS
  <2>. QED
    BY <2>1, CountNone
<1>3. SessionTypeOK
  <2>1. answers \in [Ids -> Seq(Given)] /\ in \in Seq(ClientFrames)
        /\ out \in Seq(ServerFrames) /\ streams \in Seq(Requests)
    OBVIOUS
  <2>2. Len(in) = 0 /\ Len(streams) = 0 /\ Len(streams) <= MaxStreams
    BY <1>1
  <2>3. used <= Pieces * Len(in)
    BY <2>2 DEF Pieces
  <2>. QED
    BY <1>1, <2>1, <2>2, <2>3 DEF SessionTypeOK, States
<1>4. InOrder /\ ClientKnows
  BY DEF InOrder, ClientKnows
<1>5. Table
  BY <1>2 DEF Table, Apart, Placed, Waits, Known, Refused
<1>6. CreditConserved
  BY <1>1, <1>2 DEF CreditConserved
<1>7. Answered
  BY DEF Answered, RequestWhole
<1>. QED
  BY <1>3, <1>4, <1>5, <1>6, <1>7 DEF SessionInv

----------------------------------------------------------------------------
(* The client sends a frame: of a stream it may still send on, or GOAWAY. *)
LEMMA ClientSendsInv ==
  ASSUME SessionInv, NEW f \in ClientFrames, ~ended, in' = Append(in, f),
         cl' \in [Ids -> States],
         \A i \in Ids : i # f.id => cl'[i] = cl[i],
         f.id # 0 =>
           /\ cl'[f.id] \in {"open", "ended", "reset"}
           /\ f.end => cl'[f.id] # "open"
           /\ cl[f.id] \in {"idle", "open", "ended"}
           /\ f.type = "headers" <=> cl[f.id] = "idle"
           /\ cl[f.id] = "ended" => f.type = "rst" /\ f.end,
         f.type = "trailers" => Trailers,
         sent' \in [Ids -> Nat],
         \A i \in Ids : sent'[i] = sent[i] + IF f \in DataOf(i) THEN 1 ELSE 0,
         credit' \in Nat,
         credit = credit' + IF f \in DataFrames THEN 1 ELSE 0,
         UNCHANGED <<used, out, streams, ended, answers>>
  PROVE  SessionInv'
<1>. DEFINE n == Len(in)
<1>1. in \in Seq(ClientFrames)
  BY DEF SessionInv, SessionTypeOK
<1>2. /\ in' \in Seq(ClientFrames) /\ n \in Nat /\ Len(in') = n + 1 /\ in'[n + 1] = f
      /\ \A j \in 1 .. n : in'[j] = in[j] /\ in[j] \in ClientFrames
  BY <1>1, AppendHolds
<1>3. DOMAIN in = 1 .. n /\ DOMAIN in' = 1 .. n + 1
  BY <1>1, <1>2
<1>4. \A fs : OnTheWay(in', fs) = OnTheWay(in, fs) + IF f \in fs THEN 1 ELSE 0
  BY <1>1, CountAppend
<1>5. \A fs : OnTheWay(in, fs) \in Nat /\ OnTheWay(out, fs) \in Nat
  BY CountNone DEF SessionInv, SessionTypeOK
<1>. HIDE DEF n
<1>6. SessionTypeOK'
  <2>1. used \in Nat /\ used <= Pieces * n /\ used <= Pieces * (n + 1)
    BY <1>2 DEF SessionInv, SessionTypeOK, Pieces, n
  <2>. QED
    BY <1>2, <2>1 DEF SessionInv, SessionTypeOK
<1>7. InOrder'
  <2>. SUFFICES ASSUME NEW i \in 1 .. n + 1, NEW j \in 1 .. n + 1, i < j,
                       in'[i].id = in'[j].id, in'[j].id # 0
                PROVE  in'[j].type # "headers" /\ (in'[i].end => in'[j].type = "rst")
    BY <1>3 DEF InOrder
  <2>1. CASE j \in 1 .. n
    BY <1>2, <1>3, <2>1 DEF SessionInv, InOrder
  <2>2. CASE j = n + 1
    <3>1. i \in 1 .. n /\ in'[i] = in[i] /\ in'[j] = f
      BY <1>2, <2>2
    <3>2. cl[f.id] # "idle" /\ (in[i].end => cl[f.id] # "open")
      BY <1>3, <3>1 DEF SessionInv, ClientKnows
    <3>. QED
      BY <3>1, <3>2
  <2>3. j \in 1 .. n \/ j = n + 1
    BY <1>2
  <2>. QED
    BY <2>1, <2>2, <2>3
<1>8. ClientKnows'
  <2>. SUFFICES ASSUME NEW j \in 1 .. n + 1
                PROVE  /\ in'[j].id # 0 => /\ cl'[in'[j].id] # "idle"
                                           /\ in'[j].end => cl'[in'[j].id] # "open"
                       /\ in'[j].type = "trailers" => Trailers
    BY <1>3 DEF ClientKnows
  <2>1. CASE j = n + 1
    BY <1>2, <2>1
  <2>2. CASE j \in 1 .. n
    <3>1. in'[j] = in[j] /\ (in[j].id # 0 => in[j].id \in Ids)
      BY <1>2, <2>2 DEF ClientFrames, Frames, Ids
    <3>2. /\ in[j].id # 0 => /\ cl[in[j].id] # "idle"
                             /\ in[j].end => cl[in[j].id] # "open"
          /\ in[j].type = "trailers" => Trailers
      BY <1>3, <2>2 DEF SessionInv, ClientKnows
    <3>. QED
      BY <3>1, <3>2
  <2>. QED
    BY <1>2, <2>1, <2>2
<1>9. ASSUME NEW i \in Ids
      PROVE  (Waits(i)' <=> Waits(i)) /\ (Known(i)' <=> Known(i)) /\ (Refused(i)' <=> Refused(i))
  <2>1. (\E j \in 1 .. n + 1 : in'[j].type = "headers" /\ in'[j].id = i)
          <=> \/ \E j \in 1 .. n : in[j].type = "headers" /\ in[j].id = i
              \/ f.type = "headers" /\ f.id = i
    BY <1>2
  <2>2. i # 0
    BY DEF Ids
  <2>3. Waits(i)' <=> Waits(i)
    BY <1>3, <2>1, <2>2 DEF Waits
  <2>4. Known(i)' <=> Known(i)
    BY DEF Known
  <2>5. Refused(i)' <=> Refused(i)
    BY <2>2 DEF Refused
  <2>. QED
    BY <2>3, <2>4, <2>5
<1>10. ASSUME NEW i \in Ids
       PROVE  \E a, b, d \in Nat :
                /\ OnTheWay(in, DataOf(i)) = a /\ OnTheWay(in', DataOf(i)) = a + d
                /\ sent[i] = b /\ sent'[i] = b + d
  <2>. DEFINE d == IF f \in DataOf(i) THEN 1 ELSE 0
  <2>1. d \in Nat /\ sent[i] \in Nat /\ OnTheWay(in, DataOf(i)) \in Nat
    BY <1>5 DEF SessionInv, SessionTypeOK
  <2>2. OnTheWay(in', DataOf(i)) = OnTheWay(in, DataOf(i)) + d /\ sent'[i] = sent[i] + d
    BY <1>4
  <2>. HIDE DEF d
  <2>. QED
    BY <2>1, <2>2
<1>11. Table'
  <2>1. Table /\ ~ended'
    BY DEF SessionInv
  <2>2. ASSUME NEW i \in Ids PROVE Placed(i)'
    <3>1. Placed(i)
      BY <2>1 DEF Table
    <3>2. OnTheWay(in', DataOf(i)) = sent'[i] <=> OnTheWay(in, DataOf(i)) = sent[i]
      BY <1>10
    <3>. QED
      BY <1>9, <3>1, <3>2 DEF Placed
  <2>3. ASSUME NEW m \in DOMAIN streams PROVE Collects(streams[m])'
    <3>1. streams[m].id \in Ids /\ Len(streams[m].body) \in Nat /\ Collects(streams[m])
      <4>1. streams[m] \in Requests
        BY DEF SessionInv, SessionTypeOK
      <4>2. streams[m].id \in Ids /\ streams[m].body \in Seq(Ids)
        BY <4>1 DEF Requests
      <4>. QED
        BY <2>1, <4>2 DEF Table
    <3>2. PICK st : st = streams[m]
      OBVIOUS
    <3>3. st.id \in Ids /\ Len(st.body) \in Nat /\ Collects(st)
      BY <3>1, <3>2
    <3>4. Len(st.body) + OnTheWay(in', DataOf(st.id)) = sent'[st.id]
      <4>1. PICK a, b, d \in Nat :
              /\ OnTheWay(in, DataOf(st.id)) = a /\ OnTheWay(in', DataOf(st.id)) = a + d
              /\ sent[st.id] = b /\ sent'[st.id] = b + d
        BY <1>10, <3>3
      <4>2. PICK l \in Nat : l = Len(st.body)
        BY <3>3
      <4>3. l + a = b
        BY <3>3, <4>1, <4>2 DEF Collects
      <4>4. l + (a + d) = b + d
        BY ONLY <4>3, l \in Nat, a \in Nat, b \in Nat, d \in Nat
      <4>. QED
        BY <4>1, <4>2, <4>4
    <3>. QED
      BY <3>2, <3>3, <3>4 DEF Collects
  <2>4. \A j \in DOMAIN out : out[j].type = "response" => Known(out[j].id)'
    BY <2>1 DEF Table, Known
  <2>. QED
    BY <2>1, <2>2, <2>3, <2>4 DEF Table, Apart
<1>12. CreditConserved'
  <2>1. NoneRefused' => NoneRefused
    <3>1. \A i \in Ids : cl[i] = "refused" => cl'[i] = "refused"
      BY DEF Ids
    <3>. QED
      BY <3>1 DEF NoneRefused
  <2>. QED
    BY <1>4, <1>5, <2>1 DEF SessionInv, SessionTypeOK, CreditConserved
<1>13. Answered'
  <2>1. ASSUME NEW i \in Ids, answers[i] # <<>>
        PROVE  cl'[i] \notin {"idle", "open"} /\ sent'[i] = sent[i]
    <3>1. i # 0 /\ cl[i] \notin {"idle", "open"}
      BY <2>1 DEF SessionInv, Answered, Ids
    <3>2. f \in DataOf(i) => f.id = i /\ f.type = "data"
      BY DEF DataOf, DataFrames
    <3>3. f.id = i => cl[i] = "ended" /\ f.type = "rst" /\ f.end
      BY <3>1
    <3>4. sent'[i] = sent[i]
      BY <3>2, <3>3 DEF SessionInv, SessionTypeOK
    <3>. QED
      BY <3>1, <3>3, <3>4
  <2>2. RequestWhole'
    <3>1. RequestWhole
      BY DEF SessionInv, Answered
    <3>2. ASSUME NEW i \in Ids, NEW j \in DOMAIN answers[i]
          PROVE  /\ answers[i][j].hdr = "headers" \/ Trailers
                 /\ answers[i][j].body = [b \in 1 .. sent'[i] |-> i]
      <4>1. answers[i] # <<>>
        OBVIOUS
      <4>2. sent'[i] = sent[i]
        BY <2>1, <4>1
      <4>. QED
        BY <3>1, <4>2 DEF RequestWhole
    <3>. QED
      BY <3>2 DEF RequestWhole
  <2>. QED
    BY <2>1, <2>2 DEF Answered
<1>. QED
  BY <1>6, <1>7, <1>8, <1>11, <1>12, <1>13 DEF SessionInv

(* The frames of the model are frames. *)
LEMMA FrameHolds ==
  ASSUME NEW id \in Ids, NEW end \in BOOLEAN
  PROVE  /\ \A t \in {"headers", "data", "trailers", "rst"} :
              /\ Frame(t, id, end) \in ClientFrames
              /\ Frame(t, id, end).type = t /\ Frame(t, id, end).id = id
              /\ Frame(t, id, end).end = end
         /\ id # 0
  BY H2Assumption DEF ClientFrames, Frames, Frame, Ids

(* The client opens a stream, sends on one, ends or resets one. *)
LEMMA ClientStreamInv ==
  ASSUME SessionInv, NEW id \in Ids,
         ClientOpens(id) \/ ClientData(id) \/ ClientTrails(id) \/ ClientResets(id)
  PROVE  SessionInv'
<1>1. PICK t \in {"headers", "data", "trailers", "rst"}, end \in BOOLEAN,
           c \in {"open", "ended", "reset"} :
        /\ Sends(Frame(t, id, end)) /\ cl' = [cl EXCEPT ![id] = c]
        /\ end => c # "open"
        /\ cl[id] \in {"idle", "open", "ended"}
        /\ t = "headers" <=> cl[id] = "idle"
        /\ cl[id] = "ended" => t = "rst" /\ end
        /\ t = "trailers" => Trailers
        /\ t = "data" => /\ credit > 0 /\ credit' = credit - 1
                         /\ sent' = [sent EXCEPT ![id] = @ + 1]
        /\ t # "data" => UNCHANGED <<sent, credit>>
        /\ UNCHANGED <<used, out, streams, ended, answers>>
  <2>1. CASE ClientOpens(id)
    <3>1. PICK end \in BOOLEAN :
            /\ Sends(Frame("headers", id, end))
            /\ cl' = [cl EXCEPT ![id] = IF end THEN "ended" ELSE "open"]
      BY <2>1 DEF ClientOpens
    <3>. QED
      BY <2>1, <3>1 DEF ClientOpens
  <2>2. CASE ClientData(id)
    <3>1. PICK end \in BOOLEAN :
            /\ Sends(Frame("data", id, end))
            /\ cl' = [cl EXCEPT ![id] = IF end THEN "ended" ELSE "open"]
      BY <2>2 DEF ClientData
    <3>. QED
      BY <2>2, <3>1 DEF ClientData
  <2>3. CASE ClientTrails(id)
    BY <2>3 DEF ClientTrails
  <2>4. CASE ClientResets(id)
    BY <2>4 DEF ClientResets
  <2>. QED
    BY <2>1, <2>2, <2>3, <2>4
<1>2. PICK f \in ClientFrames : f = Frame(t, id, end)
  BY FrameHolds
<1>3. f.type = t /\ f.id = id /\ f.end = end /\ id # 0
  BY <1>2, FrameHolds
<1>4. in' = Append(in, f) /\ ~ended
  BY <1>1, <1>2 DEF Sends
<1>5. cl \in [Ids -> States] /\ sent \in [Ids -> Nat] /\ credit \in Nat
  BY DEF SessionInv, SessionTypeOK
<1>6. cl' \in [Ids -> States] /\ cl'[id] = c /\ \A i \in Ids : i # id => cl'[i] = cl[i]
  BY <1>1, <1>5 DEF States
<1>7. /\ f \in DataFrames <=> t = "data"
      /\ \A i \in Ids : f \in DataOf(i) <=> t = "data" /\ i = id
  BY <1>3 DEF DataFrames, DataOf, ClientFrames
<1>8. sent' \in [Ids -> Nat] /\ \A i \in Ids : sent'[i] = sent[i] + IF f \in DataOf(i) THEN 1 ELSE 0
  <2>1. CASE t = "data"
    BY <1>1, <1>5, <1>7, <2>1
  <2>2. CASE t # "data"
    BY <1>1, <1>5, <1>7, <2>2
  <2>. QED
    BY <2>1, <2>2
<1>9. credit' \in Nat /\ credit = credit' + IF f \in DataFrames THEN 1 ELSE 0
  BY <1>1, <1>5, <1>7
<1>. QED
  BY <1>1, <1>3, <1>4, <1>6, <1>8, <1>9, ClientSendsInv

(* The client ends the session. *)
LEMMA ClientGoesAwayInv ==
  ASSUME SessionInv, ClientGoesAway
  PROVE  SessionInv'
<1>1. PICK f \in ClientFrames : f = Frame("goaway", 0, TRUE)
  <2>1. 0 \in 0 .. Streams
    BY H2Assumption
  <2>2. Frame("goaway", 0, TRUE) \in Frames
    BY <2>1 DEF Frames, Frame
  <2>3. Frame("goaway", 0, TRUE).type = "goaway" /\ Frame("goaway", 0, TRUE).id = 0
    BY DEF Frame
  <2>. QED
    BY <2>2, <2>3 DEF ClientFrames
<1>2. f.type = "goaway" /\ f.id = 0
  BY <1>1 DEF Frame
<1>3. in' = Append(in, f) /\ ~ended /\ UNCHANGED <<clientVars, used, out, streams, ended, answers>>
  BY <1>1 DEF ClientGoesAway, Sends
<1>4. cl \in [Ids -> States] /\ sent \in [Ids -> Nat] /\ credit \in Nat
  BY DEF SessionInv, SessionTypeOK
<1>5. f \notin DataFrames /\ \A i \in Ids : f \notin DataOf(i)
  BY <1>2 DEF DataFrames, DataOf
<1>6. /\ \A i \in Ids : sent'[i] = sent[i] + IF f \in DataOf(i) THEN 1 ELSE 0
      /\ credit = credit' + IF f \in DataFrames THEN 1 ELSE 0
  BY <1>3, <1>4, <1>5 DEF clientVars
<1>. QED
  BY <1>2, <1>3, <1>4, <1>6, ClientSendsInv DEF clientVars

----------------------------------------------------------------------------
(* A stream was refused if any was. *)
LEMMA RefusedOnes ==
  ASSUME out \in Seq(ServerFrames)
  PROVE  NoneRefused <=> \A i \in Ids : ~Refused(i)
<1>1. \A j \in DOMAIN out : out[j] \in ServerFrames
  OBVIOUS
<1>2. \A j \in DOMAIN out : out[j].type = "refused" => out[j].id \in Ids
  BY <1>1 DEF ServerFrames
<1>. QED
  BY <1>2 DEF NoneRefused, Refused

(* The client reads a frame. *)
LEMMA ClientReadsInv ==
  ASSUME SessionInv, ClientReads
  PROVE  SessionInv'
<1>1. /\ out \in Seq(ServerFrames) /\ out # <<>> /\ out' = Tail(out)
      /\ UNCHANGED <<sent, in, used, streams, ended, answers>>
  BY DEF SessionInv, SessionTypeOK, ClientReads
<1>2. PICK h \in ServerFrames : h = Head(out)
  BY <1>1, TailHolds
<1>3. /\ out' \in Seq(ServerFrames) /\ Len(out) \in Nat /\ Len(out) > 0 /\ Len(out') = Len(out) - 1
      /\ h = out[1] /\ \A j \in 1 .. Len(out) - 1 : out'[j] = out[j + 1]
  BY <1>1, <1>2, TailHolds
<1>4. DOMAIN out = 1 .. Len(out) /\ DOMAIN out' = 1 .. Len(out) - 1
  BY <1>1, <1>3
<1>5. /\ \E j \in DOMAIN out : out[j] = h
      /\ \A j \in DOMAIN out : out[j] = h \/ \E k \in DOMAIN out' : out'[k] = out[j]
      /\ \A k \in DOMAIN out' : \E j \in DOMAIN out : out[j] = out'[k]
  BY <1>1, <1>2, TailElements
<1>6. /\ h.type = "response" =>
           /\ h.id \in Ids /\ UNCHANGED credit
           /\ cl' = [cl EXCEPT ![h.id] = IF @ = "reset" THEN @ ELSE "answered"]
      /\ h.type = "refused" =>
           h.id \in Ids /\ UNCHANGED credit /\ cl' = [cl EXCEPT ![h.id] = "refused"]
      /\ h.type = "window" => cl' = cl /\ credit' = IF h.id = 0 THEN credit + 1 ELSE credit
      /\ h.type \in {"response", "refused", "window"} /\ h \in Frames
  <2>1. h.type \in {"response", "refused", "window"} /\ h \in Frames
    BY DEF ServerFrames
  <2>2. h.type # "window" => h.id \in Ids
    BY DEF ServerFrames
  <2>. QED
    BY <1>2, <2>1, <2>2 DEF ClientReads
<1>7. cl \in [Ids -> States] /\ credit \in Nat
  BY DEF SessionInv, SessionTypeOK
<1>8. cl' \in [Ids -> States] /\ credit' \in Nat
  BY <1>6, <1>7 DEF States
<1>9. SessionTypeOK'
  BY <1>1, <1>3, <1>8 DEF SessionInv, SessionTypeOK
<1>10. \A i \in Ids : /\ cl[i] \notin {"idle", "open"} => cl'[i] \notin {"idle", "open"}
                      /\ cl[i] # "idle" => cl'[i] # "idle"
                      /\ cl[i] # "open" => cl'[i] # "open"
  BY <1>6, <1>7
<1>11. InOrder' /\ ClientKnows'
  <2>1. InOrder'
    BY <1>1 DEF SessionInv, InOrder
  <2>2. \A j \in DOMAIN in : in[j].id # 0 => in[j].id \in Ids
    BY DEF SessionInv, SessionTypeOK, ClientFrames
  <2>. QED
    BY <1>1, <1>10, <2>1, <2>2 DEF SessionInv, ClientKnows
<1>12. ASSUME ~ended, NEW i \in Ids
       PROVE  (Waits(i)' <=> Waits(i)) /\ (Known(i)' <=> Known(i)) /\ (Refused(i)' <=> Refused(i))
  <2>1. Known(i)' <=> Known(i)
    BY <1>1 DEF Known
  <2>2. Table /\ Placed(i)
    BY <1>12 DEF SessionInv, Table
  <2>3. \E j \in DOMAIN out : out[j] = h
    BY <1>5
  <2>4. h.type = "response" /\ h.id = i => Known(i)
    BY <2>2, <2>3 DEF Table
  <2>5. h.type = "refused" /\ h.id = i => Refused(i)
    BY <2>3 DEF Refused
  <2>6. h.type \in {"response", "refused"} /\ h.id = i => ~Waits(i)
    BY <2>2, <2>4, <2>5 DEF Placed
  <2>7. cl[i] = "idle" <=> cl'[i] = "idle"
    BY <1>6, <1>7, <2>6 DEF Waits
  <2>8. Waits(i)' <=> Waits(i)
    BY <1>1, <2>7 DEF Waits
  <2>9. (\E j \in DOMAIN out : out[j].type = "refused" /\ out[j].id = i)
          <=> \/ h.type = "refused" /\ h.id = i
              \/ \E j \in DOMAIN out' : out'[j].type = "refused" /\ out'[j].id = i
    BY <1>5
  <2>10. Refused(i)' <=> Refused(i)
    <3>1. CASE h.type = "response" /\ h.id = i
      <4>1. ~Refused(i)
        BY <2>2, <2>4, <2>6, <3>1 DEF Placed
      <4>2. cl'[i] # "refused"
        BY <1>6, <1>7, <3>1, <4>1 DEF Refused
      <4>. QED
        BY <2>9, <3>1, <4>1, <4>2 DEF Refused
    <3>2. CASE h.type = "refused" /\ h.id = i
      BY <1>6, <1>7, <2>5, <3>2 DEF Refused
    <3>3. CASE h.type = "window" \/ h.id # i
      <4>1. cl'[i] = cl[i]
        BY <1>6, <1>7, <3>3
      <4>. QED
        BY <2>9, <3>3, <4>1 DEF Refused
    <3>. QED
      BY <1>6, <3>1, <3>2, <3>3
  <2>. QED
    BY <2>1, <2>8, <2>10
<1>13. ASSUME ~ended' PROVE Table'
  <2>1. ~ended /\ Table
    BY <1>1, <1>13 DEF SessionInv
  <2>2. \A i \in Ids : Placed(i)'
    BY <1>1, <1>12, <2>1 DEF Table, Placed
  <2>3. ASSUME NEW n \in DOMAIN streams PROVE Collects(streams[n])'
    <3>1. PICK st : st = streams[n]
      OBVIOUS
    <3>2. Collects(st)
      BY <2>1, <3>1 DEF Table
    <3>. QED
      BY <1>1, <3>1, <3>2 DEF Collects
  <2>4. ASSUME NEW j \in DOMAIN out', out'[j].type = "response"
        PROVE  \E n \in DOMAIN streams' : streams'[n].id = out'[j].id
    <3>1. \E k \in DOMAIN out : out[k] = out'[j]
      BY <1>5
    <3>. QED
      BY <1>1, <2>1, <2>4, <3>1 DEF Table, Known
  <2>. QED
    BY <1>1, <2>1, <2>2, <2>3, <2>4 DEF Table, Apart, Known
<1>14. CreditConserved'
  <2>. SUFFICES ASSUME ~ended', NoneRefused'
                PROVE  credit' + OnTheWay(in', DataFrames) + OnTheWay(out', Credits) = Window
    BY DEF CreditConserved
  <2>1. NoneRefused
    <3>1. \A i \in Ids : ~Refused(i)'
      BY DEF NoneRefused, Refused
    <3>. QED
      BY <1>1, <1>12, <3>1, RefusedOnes
  <2>2. credit + OnTheWay(in, DataFrames) + OnTheWay(out, Credits) = Window
    BY <1>1, <2>1 DEF SessionInv, CreditConserved
  <2>3. OnTheWay(out, Credits) = OnTheWay(out', Credits) + IF h \in Credits THEN 1 ELSE 0
    BY <1>1, <1>2, CountTail
  <2>4. h \in Credits <=> h.type = "window" /\ h.id = 0
    BY <1>6 DEF Credits
  <2>5. OnTheWay(out', Credits) \in Nat /\ OnTheWay(in, DataFrames) \in Nat
    BY <1>3, CountNone DEF SessionInv, SessionTypeOK
  <2>6. credit' = credit + IF h \in Credits THEN 1 ELSE 0
    BY <1>6, <1>7, <2>4
  <2>7. PICK a, b, d \in Nat : /\ a = OnTheWay(in, DataFrames) /\ b = OnTheWay(out', Credits)
                               /\ d = IF h \in Credits THEN 1 ELSE 0
    BY <2>5
  <2>8. credit + a + (b + d) = Window /\ credit' = credit + d /\ credit \in Nat
    BY <1>7, <2>2, <2>3, <2>6, <2>7
  <2>9. credit' + a + b = Window
    BY <2>8
  <2>. QED
    BY <1>1, <2>7, <2>9
<1>15. Answered'
  BY <1>1, <1>10 DEF SessionInv, Answered, RequestWhole
<1>. QED
  BY <1>9, <1>11, <1>13, <1>14, <1>15 DEF SessionInv

----------------------------------------------------------------------------
(* The server takes the next frame: what it knows of the rest. *)
LEMMA TakesFrame ==
  ASSUME SessionInv, NEW types, Next1(types), UNCHANGED cl,
         NEW h, h = Head(in)
  PROVE  /\ in \in Seq(ClientFrames) /\ in # <<>> /\ in' = Tail(in)
         /\ ~ended /\ h \in ClientFrames /\ h.type \in types
         /\ in' \in Seq(ClientFrames) /\ used' \in Nat /\ used' <= Pieces * Len(in')
         /\ InOrder' /\ ClientKnows'
         /\ h.type = "trailers" => Trailers
         /\ \A i \in Ids : i # h.id => (Waits(i)' <=> Waits(i))
         /\ \A i \in Ids : i = h.id =>
              /\ ~Waits(i)'
              /\ Waits(i) <=> h.type = "headers"
              /\ h.end => cl[i] \notin {"idle", "open"}
              /\ h.end => OnTheWay(in', DataOf(i)) = 0
<1>1. in \in Seq(ClientFrames) /\ used \in Nat /\ used <= Pieces * Len(in) /\ used >= Pieces
      /\ in' = Tail(in) /\ used' = used - Pieces /\ ~ended /\ h.type \in types
  BY DEF SessionInv, SessionTypeOK, Next1
<1>2. in # <<>>
  BY <1>1 DEF Pieces
<1>3. /\ in' \in Seq(ClientFrames) /\ Len(in) \in Nat /\ Len(in) > 0 /\ Len(in') = Len(in) - 1
      /\ h \in ClientFrames /\ h = in[1] /\ \A j \in 1 .. Len(in) - 1 : in'[j] = in[j + 1]
  BY <1>1, <1>2, TailHolds
<1>4. DOMAIN in = 1 .. Len(in) /\ DOMAIN in' = 1 .. Len(in) - 1
  BY <1>1, <1>3
<1>5. used' \in Nat /\ used' <= Pieces * Len(in')
  BY <1>1, <1>3 DEF Pieces
<1>6. InOrder /\ ClientKnows
  BY DEF SessionInv
<1>7. \A j \in DOMAIN in' : j + 1 \in DOMAIN in /\ in'[j] = in[j + 1]
  BY <1>3, <1>4
<1>8. InOrder'
  <2>. SUFFICES ASSUME NEW i \in DOMAIN in', NEW j \in DOMAIN in', i < j,
                       in'[i].id = in'[j].id, in'[j].id # 0
                PROVE  in'[j].type # "headers" /\ (in'[i].end => in'[j].type = "rst")
    BY DEF InOrder
  <2>1. i + 1 < j + 1 /\ i + 1 \in DOMAIN in /\ j + 1 \in DOMAIN in
    BY <1>4, <1>7
  <2>. QED
    BY <1>6, <1>7, <2>1 DEF InOrder
<1>9. ClientKnows'
  BY <1>6, <1>7 DEF ClientKnows
<1>10. 1 \in DOMAIN in
  BY <1>3, <1>4
<1>11. /\ \A j \in DOMAIN in : in[j] = h \/ \E k \in DOMAIN in' : in'[k] = in[j]
       /\ \A k \in DOMAIN in' : \E j \in DOMAIN in : in[j] = in'[k]
       /\ \E j \in DOMAIN in : in[j] = h
  BY <1>1, <1>2, TailElements
<1>12. \A i \in Ids : i # h.id => (Waits(i)' <=> Waits(i))
  BY <1>11 DEF Waits
<1>13. \A j \in DOMAIN in' : in'[j].id = h.id /\ h.id # 0 =>
         in'[j].type # "headers" /\ (h.end => in'[j].type = "rst")
  <2>. SUFFICES ASSUME NEW j \in DOMAIN in', in'[j].id = h.id, h.id # 0
                PROVE  in'[j].type # "headers" /\ (h.end => in'[j].type = "rst")
    OBVIOUS
  <2>1. 1 < j + 1 /\ j + 1 \in DOMAIN in /\ in'[j] = in[j + 1]
    BY <1>4, <1>7
  <2>. QED
    BY <1>3, <1>6, <1>10, <2>1 DEF InOrder
<1>14. ASSUME NEW k \in Ids, k = h.id
       PROVE  /\ ~Waits(k)'
              /\ Waits(k) <=> h.type = "headers"
              /\ h.end => cl[k] \notin {"idle", "open"}
              /\ h.end => OnTheWay(in', DataOf(k)) = 0
  <2>1. h.id # 0
    BY <1>14 DEF Ids
  <2>2. cl[k] # "idle" /\ (h.end => cl[k] # "open")
    BY <1>3, <1>6, <1>10, <1>14, <2>1 DEF ClientKnows
  <2>3. ~Waits(k)'
    BY <1>13, <1>14, <2>1, <2>2 DEF Waits
  <2>4. Waits(k) <=> h.type = "headers"
    BY <1>11, <1>13, <1>14, <2>1, <2>2 DEF Waits
  <2>5. h.end => OnTheWay(in', DataOf(k)) = 0
    <3>1. \A j \in DOMAIN in' : h.end => in'[j] \notin DataOf(k)
      BY <1>13, <1>14, <2>1 DEF DataOf, DataFrames
    <3>. QED
      BY <1>3, <3>1, CountNone
  <2>. QED
    BY <2>2, <2>3, <2>4, <2>5
<1>15. h.type = "trailers" => Trailers
  BY <1>3, <1>6, <1>10 DEF ClientKnows
<1>. QED
  BY <1>1, <1>2, <1>3, <1>5, <1>8, <1>9, <1>12, <1>14, <1>15

(* A frame of data counts for its stream and the connection. *)
LEMMA TakenCounts ==
  ASSUME in \in Seq(ClientFrames), in # <<>>, in' = Tail(in), NEW h, h = Head(in)
  PROVE  /\ \A fs : OnTheWay(in', fs) \in Nat
         /\ OnTheWay(in, DataFrames) = OnTheWay(in', DataFrames) + IF h.type = "data" THEN 1 ELSE 0
         /\ \A i \in Ids : OnTheWay(in, DataOf(i))
              = OnTheWay(in', DataOf(i)) + IF h.type = "data" /\ h.id = i THEN 1 ELSE 0
<1>1. h \in ClientFrames /\ in' \in Seq(ClientFrames)
  BY TailHolds
<1>2. h \in DataFrames <=> h.type = "data"
  BY <1>1 DEF DataFrames, ClientFrames
<1>3. \A i : h \in DataOf(i) <=> h.type = "data" /\ h.id = i
  BY <1>2 DEF DataOf
<1>4. \A fs : OnTheWay(in, fs) = OnTheWay(in', fs) + IF h \in fs THEN 1 ELSE 0
  BY CountTail
<1>. QED
  BY <1>1, <1>2, <1>3, <1>4, CountNone

----------------------------------------------------------------------------
(* A frame that stores nothing: the table keeps its streams and bodies.    *)
(* Its stream is known or refused afterwards, and refused if it was data.  *)
LEMMA DropInv ==
  ASSUME SessionInv, NEW types, Next1(types), UNCHANGED <<cl, sent, credit, ended, answers>>,
         NEW h, h = Head(in), NEW k \in Ids, h.id = k,
         streams' \in Seq(Requests), Len(streams') = Len(streams),
         \A n \in DOMAIN streams : /\ streams'[n].id = streams[n].id
                                   /\ streams'[n].body = streams[n].body
                                   /\ streams'[n].hdr = streams[n].hdr,
         out' \in Seq(ServerFrames), OnTheWay(out', Credits) = OnTheWay(out, Credits),
         \A j \in DOMAIN out' : out'[j].type = "response" => Known(out'[j].id),
         \A i \in Ids : i # k => (Refused(i)' <=> Refused(i)),
         Refused(k) => Refused(k)',
         Known(k) <=> ~Refused(k)',
         Refused(k)' => Len(streams) >= MaxStreams,
         h.type = "data" => Refused(k)'
  PROVE  SessionInv'
<1>1. /\ in \in Seq(ClientFrames) /\ in # <<>> /\ in' = Tail(in)
      /\ ~ended /\ h \in ClientFrames
      /\ in' \in Seq(ClientFrames) /\ used' \in Nat /\ used' <= Pieces * Len(in')
      /\ InOrder' /\ ClientKnows'
      /\ \A i \in Ids : i # k => (Waits(i)' <=> Waits(i))
      /\ ~Waits(k)'
  BY TakesFrame
<1>2. Table /\ out \in Seq(ServerFrames) /\ streams \in Seq(Requests)
  BY <1>1 DEF SessionInv, SessionTypeOK
<1>3. /\ \A fs : OnTheWay(in', fs) \in Nat
      /\ OnTheWay(in, DataFrames) = OnTheWay(in', DataFrames) + IF h.type = "data" THEN 1 ELSE 0
      /\ \A i \in Ids : OnTheWay(in, DataOf(i))
           = OnTheWay(in', DataOf(i)) + IF h.type = "data" /\ h.id = i THEN 1 ELSE 0
  BY <1>1, TakenCounts
<1>4. DOMAIN streams' = DOMAIN streams
  BY <1>2
<1>5. SessionTypeOK'
  BY <1>1 DEF SessionInv, SessionTypeOK
<1>6. \A i \in Ids : Known(i)' <=> Known(i)
  BY <1>4 DEF Known
<1>7. ASSUME NEW i \in Ids, h.type = "data" => h.id # i
      PROVE  OnTheWay(in', DataOf(i)) = OnTheWay(in, DataOf(i))
  BY <1>3, <1>7
<1>8. ASSUME NEW i \in Ids PROVE Placed(i)'
  <2>2. CASE i = k
    <3>1. ~Waits(k)' /\ (Known(k)' <=> ~Refused(k)') /\ (Refused(k)' => Len(streams') >= MaxStreams)
      BY <1>1, <1>6
    <3>. QED
      BY <2>2, <3>1 DEF Placed
  <2>3. CASE i # k
    <3>1. /\ Waits(i)' <=> Waits(i)
          /\ Known(i)' <=> Known(i)
          /\ Refused(i)' <=> Refused(i)
          /\ OnTheWay(in', DataOf(i)) = OnTheWay(in, DataOf(i))
          /\ Placed(i)
      BY <1>1, <1>2, <1>6, <1>7, <2>3 DEF Table
    <3>. QED
      BY <3>1 DEF Placed
  <2>. QED
    BY <2>2, <2>3
<1>9. ASSUME NEW n \in DOMAIN streams 
      PROVE  \E st : st = streams'[n] /\ Collects(st)'
  <2>1. streams[n] \in Requests /\ Collects(streams[n])
    BY <1>2 DEF Table
  <2>2. PICK st \in Requests : st = streams'[n]
    BY <1>4
  <2>3. /\ st.id = streams[n].id /\ st.id \in Ids /\ Known(st.id)
        /\ st.body = streams[n].body /\ st.hdr = streams[n].hdr
    BY <2>1, <2>2 DEF Requests, Known
  <2>4. h.type = "data" => h.id # st.id
    BY <1>6, <2>3 DEF Known
  <2>5. OnTheWay(in', DataOf(st.id)) = OnTheWay(in, DataOf(st.id))
    BY <1>7, <2>3, <2>4
  <2>6. Collects(st)'
    BY <2>1, <2>3, <2>5 DEF Collects
  <2>. QED
    BY <2>2, <2>6
<1>10. Table'
  <2>1. Apart'
    BY <1>2, <1>4 DEF Table, Apart
  <2>2. ASSUME NEW j \in DOMAIN out', out'[j].type = "response"
        PROVE  \E n \in DOMAIN streams' : streams'[n].id = out'[j].id
    BY <1>4, <2>2 DEF Known
  <2>3. \A n \in DOMAIN streams' : Collects(streams[n])'
    BY <1>4, <1>9 DEF Collects
  <2>. QED
    BY <1>8, <2>1, <2>2, <2>3 DEF Table, Known
<1>11. CreditConserved'
  <2>. SUFFICES ASSUME NoneRefused'
                PROVE  credit' + OnTheWay(in', DataFrames) + OnTheWay(out', Credits) = Window
    BY DEF CreditConserved
  <2>1. \A i \in Ids : ~Refused(i)'
    BY DEF NoneRefused, Refused
  <2>2. ~Refused(k)'
    BY DEF NoneRefused, Refused
  <2>3. NoneRefused
    BY <1>2, <2>1, <2>2, RefusedOnes
  <2>4. OnTheWay(in', DataFrames) = OnTheWay(in, DataFrames)
    BY <1>3, <2>2
  <2>. QED
    BY <1>1, <2>3, <2>4 DEF SessionInv, CreditConserved
<1>12. Answered'
  BY DEF SessionInv, Answered, RequestWhole
<1>. QED
  BY <1>1, <1>5, <1>10, <1>11, <1>12 DEF SessionInv

(* A body grows by what belongs to its stream. *)
LEMMA BodyGrows ==
  ASSUME NEW id \in Ids, NEW body \in Seq(Ids), body = Repeat(id, Len(body))
  PROVE  /\ Append(body, id) \in Seq(Ids) /\ Len(body) \in Nat
         /\ Len(Append(body, id)) = Len(body) + 1
         /\ Append(body, id) = Repeat(id, Len(body) + 1)
<1>1. /\ Append(body, id) \in Seq(Ids) /\ Len(body) \in Nat
      /\ Len(Append(body, id)) = Len(body) + 1
      /\ Append(body, id)[Len(body) + 1] = id
      /\ \A j \in 1 .. Len(body) : Append(body, id)[j] = body[j]
  BY AppendHolds
<1>2. \A j \in 1 .. Len(body) : body[j] = id
  BY DEF Repeat
<1>3. \A j \in 1 .. Len(body) + 1 : Append(body, id)[j] = id
  BY <1>1, <1>2
<1>4. PICK q \in Seq(Ids) : q = Append(body, id)
  BY <1>1
<1>5. q = [j \in 1 .. Len(q) |-> q[j]]
  OBVIOUS
<1>6. q = [j \in 1 .. Len(body) + 1 |-> id]
  BY <1>1, <1>3, <1>4, <1>5
<1>. QED
  BY <1>1, <1>4, <1>6 DEF Repeat

(* A frame h of stream k is stored as st, at the n-th place: the stream    *)
(* gets the place, or its place is written again with what the frame       *)
(* brings to the body; the client is sent credit for data and, at the end  *)
(* of the request, the answer.                                             *)
Stores(h, k, n, st, body) ==
  /\ h.id = k /\ n <= MaxStreams
  /\ st.id = k
  /\ st.hdr = "headers" \/ Trailers
  /\ \/ /\ h.type = "headers" /\ n = Len(streams) + 1 /\ body = <<>>
        /\ streams' = Append(streams, st)
     \/ /\ h.type # "headers" /\ n \in DOMAIN streams /\ streams[n].id = k
        /\ body = streams[n].body /\ streams' = [streams EXCEPT ![n] = st]
  /\ st.body = IF h.type = "data" THEN Append(body, k) ELSE body
  /\ out' \in Seq(ServerFrames)
  /\ OnTheWay(out', Credits) = OnTheWay(out, Credits) + IF h.type = "data" THEN 1 ELSE 0
  /\ \A j \in DOMAIN out : \E m \in DOMAIN out' : out'[m] = out[j]
  /\ \A m \in DOMAIN out' : \/ \E j \in DOMAIN out : out[j] = out'[m]
                            \/ out'[m].type = "window"
                            \/ out'[m].type = "response" /\ out'[m].id = k
  /\ \/ answers' = answers
     \/ h.end /\ answers' = [answers EXCEPT ![k] = Append(@, [hdr |-> st.hdr, body |-> st.body])]

(* It keeps the invariant. *)
LEMMA StoreInv ==
  ASSUME SessionInv, NEW types, Next1(types), UNCHANGED <<cl, sent, credit, ended>>,
         NEW h, h = Head(in), NEW k \in Ids, NEW n \in Nat, NEW st \in Requests,
         NEW body \in Seq(Ids), Stores(h, k, n, st, body)
  PROVE  SessionInv'
<1>. USE DEF Stores
<1>1. /\ in \in Seq(ClientFrames) /\ in # <<>> /\ in' = Tail(in)
      /\ ~ended /\ h \in ClientFrames
      /\ in' \in Seq(ClientFrames) /\ used' \in Nat /\ used' <= Pieces * Len(in')
      /\ InOrder' /\ ClientKnows'
      /\ \A i \in Ids : i # k => (Waits(i)' <=> Waits(i))
      /\ ~Waits(k)'
      /\ Waits(k) <=> h.type = "headers"
      /\ h.end => cl[k] \notin {"idle", "open"}
      /\ h.end => OnTheWay(in', DataOf(k)) = 0
  BY TakesFrame
<1>2. Table /\ out \in Seq(ServerFrames) /\ streams \in Seq(Requests) /\ answers \in [Ids -> Seq(Given)]
      /\ sent \in [Ids -> Nat] /\ credit \in Nat
  BY <1>1 DEF SessionInv, SessionTypeOK
<1>3. /\ \A fs : OnTheWay(in', fs) \in Nat
      /\ OnTheWay(in, DataFrames) = OnTheWay(in', DataFrames) + IF h.type = "data" THEN 1 ELSE 0
      /\ \A i \in Ids : OnTheWay(in, DataOf(i))
           = OnTheWay(in', DataOf(i)) + IF h.type = "data" /\ h.id = i THEN 1 ELSE 0
  BY <1>1, TakenCounts
<1>4. DOMAIN streams = 1 .. Len(streams) /\ Len(streams) \in Nat
  BY <1>2
<1>5. /\ streams' \in Seq(Requests) /\ Len(streams') >= Len(streams) /\ Len(streams') <= MaxStreams
      /\ Len(streams') \in Nat
      /\ n \in DOMAIN streams' /\ streams'[n] = st
      /\ DOMAIN streams' = DOMAIN streams \cup {n}
      /\ \A m \in DOMAIN streams : m # n => streams'[m] = streams[m]
  <2>1. CASE h.type = "headers"
    <3>1. n = Len(streams) + 1 /\ streams' = Append(streams, st)
      BY <2>1
    <3>2. /\ streams' \in Seq(Requests) /\ Len(streams') = n /\ streams'[n] = st
          /\ \A m \in 1 .. Len(streams) : streams'[m] = streams[m]
      BY <1>2, <3>1, AppendHolds
    <3>3. PICK l \in Nat : l = Len(streams)
      BY <1>4
    <3>4. n = l + 1
      BY <3>1, <3>3
    <3>5. 1 .. n = (1 .. l) \cup {n} /\ n \in 1 .. n /\ n >= l
      BY ONLY <3>4, l \in Nat
    <3>6. DOMAIN streams' = 1 .. n
      BY <3>2
    <3>. QED
      BY <1>4, <3>2, <3>3, <3>5, <3>6
  <2>2. CASE h.type # "headers"
    <3>1. n \in DOMAIN streams /\ streams' = [streams EXCEPT ![n] = st]
      BY <2>2
    <3>2. streams' \in Seq(Requests) /\ Len(streams') = Len(streams)
      BY <1>2, <3>1
    <3>3. Len(streams) <= MaxStreams
      BY DEF SessionInv, SessionTypeOK
    <3>4. DOMAIN streams' = DOMAIN streams /\ DOMAIN streams = DOMAIN streams \cup {n}
      BY <1>2, <3>1
    <3>5. streams'[n] = st /\ \A m \in DOMAIN streams : m # n => streams'[m] = streams[m]
      BY <1>2, <3>1
    <3>6. Len(streams') \in Nat /\ Len(streams') >= Len(streams) /\ Len(streams') <= MaxStreams
      BY <1>4, <3>2, <3>3
    <3>. QED
      BY <3>1, <3>2, <3>4, <3>5, <3>6
  <2>. QED
    BY <2>1, <2>2
<1>6. SessionTypeOK'
  <2>1. [hdr |-> st.hdr, body |-> st.body] \in Given
    BY DEF Requests, Given
  <2>2. Append(answers[k], [hdr |-> st.hdr, body |-> st.body]) \in Seq(Given)
    BY <1>2, <2>1
  <2>3. answers' \in [Ids -> Seq(Given)]
    BY <1>2, <2>2
  <2>. QED
    BY <1>1, <1>5, <2>3 DEF SessionInv, SessionTypeOK
(* The stream of the frame was not refused, and none is by it. *)
<1>7. ~Refused(k)
  <2>1. Placed(k)
    BY <1>2 DEF Table
  <2>. QED
    BY <1>1, <2>1 DEF Placed, Known
<1>8. \A i \in Ids : Refused(i)' <=> Refused(i)
  <2>1. \A i : (\E j \in DOMAIN out : out[j].type = "refused" /\ out[j].id = i)
                 <=> \E m \in DOMAIN out' : out'[m].type = "refused" /\ out'[m].id = i
    OBVIOUS
  <2>2. cl' = cl
    OBVIOUS
  <2>. QED
    BY ONLY <2>1, <2>2 DEF Refused
<1>9. \A i \in Ids : Known(i)' <=> Known(i) \/ i = k
  <2>1. ASSUME NEW i \in Ids, NEW m \in DOMAIN streams, streams[m].id = i
        PROVE  \E x \in DOMAIN streams' : streams'[x].id = i
    <3>1. CASE m # n
      BY <1>5, <2>1, <3>1
    <3>2. CASE m = n
      BY <1>4, <1>5, <2>1, <3>2
    <3>. QED
      BY <3>1, <3>2
  <2>2. ASSUME NEW i \in Ids, NEW m \in DOMAIN streams', streams'[m].id = i, i # k
        PROVE  \E x \in DOMAIN streams : streams[x].id = i
    BY <1>5, <2>2
  <2>3. \E x \in DOMAIN streams' : streams'[x].id = k
    BY <1>5
  <2>. QED
    BY <2>1, <2>2, <2>3 DEF Known
<1>10. \A m \in DOMAIN streams : streams[m].id = k => m = n
  <2>1. CASE h.type = "headers"
    <3>1. Placed(k)
      BY <1>2 DEF Table
    <3>. QED
      BY <1>1, <2>1, <3>1 DEF Placed, Known
  <2>2. CASE h.type # "headers"
    BY <1>2, <2>2 DEF Table, Apart
  <2>. QED
    BY <2>1, <2>2
<1>11. ASSUME NEW i \in Ids, i # k
       PROVE  OnTheWay(in', DataOf(i)) = OnTheWay(in, DataOf(i))
  BY <1>3, <1>11
(* The body that was collected, and with what the frame brings. *)
<1>12. body = Repeat(k, Len(body)) /\ Len(body) \in Nat
       /\ Len(body) + OnTheWay(in, DataOf(k)) = sent[k]
  <2>1. CASE h.type = "headers"
    <3>1. Placed(k)
      BY <1>2 DEF Table
    <3>2. OnTheWay(in, DataOf(k)) = sent[k] /\ sent[k] \in Nat
      BY <1>1, <1>2, <2>1, <3>1 DEF Placed
    <3>3. body = <<>> /\ Len(body) = 0
      BY <2>1
    <3>4. body = Repeat(k, 0)
      BY <3>3 DEF Repeat
    <3>. QED
      BY <3>2, <3>3, <3>4
  <2>2. CASE h.type # "headers"
    <3>1. n \in DOMAIN streams /\ streams[n].id = k /\ body = streams[n].body
      BY <2>2
    <3>. QED
      BY <1>2, <3>1 DEF Table, Collects
  <2>. QED
    BY <2>1, <2>2
<1>13. st.body = Repeat(k, Len(st.body)) /\ Len(st.body) \in Nat
       /\ Len(st.body) + OnTheWay(in', DataOf(k)) = sent[k]
  <2>1. PICK b, c, d \in Nat : /\ b = Len(body) /\ c = OnTheWay(in', DataOf(k))
                               /\ d = IF h.type = "data" THEN 1 ELSE 0
    BY <1>3, <1>12
  <2>2. OnTheWay(in, DataOf(k)) = c + d
    BY <1>3, <2>1
  <2>3. b + (c + d) = sent[k]
    BY <1>12, <2>1, <2>2
  <2>4. CASE h.type = "data"
    <3>1. st.body = Repeat(k, b + 1) /\ Len(st.body) = b + 1
      BY <1>12, <2>1, <2>4, BodyGrows
    <3>2. d = 1
      BY <2>1, <2>4
    <3>3. (b + 1) + c = b + (c + d) /\ b + 1 \in Nat
      BY ONLY <3>2, b \in Nat, c \in Nat
    <3>4. Len(st.body) \in Nat /\ Len(st.body) + c = sent[k]
      BY ONLY <2>3, <3>1, <3>3
    <3>. QED
      BY <2>1, <3>1, <3>4
  <2>5. CASE h.type # "data"
    BY <1>12, <2>1, <2>3, <2>5
  <2>. QED
    BY <2>4, <2>5
<1>14. Table'
  <2>1. Apart'
    <3>. SUFFICES ASSUME NEW m \in DOMAIN streams', NEW x \in DOMAIN streams',
                         streams'[m].id = streams'[x].id
                  PROVE  m = x
      BY DEF Apart
    <3>1. CASE m = n \/ x = n
      BY <1>5, <1>10, <3>1
    <3>2. CASE m # n /\ x # n
      BY <1>2, <1>5, <3>2 DEF Table, Apart
    <3>. QED
      BY <3>1, <3>2
  <2>2. ASSUME NEW i \in Ids PROVE Placed(i)'
    <3>1. CASE i = k
      <4>1. ~Waits(k)' /\ Known(k)' /\ ~Refused(k)'
        BY <1>1, <1>7, <1>8, <1>9
      <4>. QED
        BY <3>1, <4>1 DEF Placed
    <3>2. CASE i # k
      <4>1. /\ Waits(i)' <=> Waits(i)
            /\ Known(i)' <=> Known(i)
            /\ Refused(i)' <=> Refused(i)
            /\ OnTheWay(in', DataOf(i)) = OnTheWay(in, DataOf(i))
            /\ Placed(i)
        BY <1>1, <1>2, <1>8, <1>9, <1>11, <3>2 DEF Table
      <4>. QED
        BY <1>4, <1>5, <4>1, H2Assumption DEF Placed
    <3>. QED
      BY <3>1, <3>2
  <2>3. ASSUME NEW m \in DOMAIN streams'
        PROVE  \E s : s = streams'[m] /\ Collects(s)'
    <3>1. CASE m = n
      <4>1. Collects(st)'
        BY <1>13 DEF Collects
      <4>. QED
        BY <1>5, <3>1, <4>1
    <3>2. CASE m # n
      <4>1. m \in DOMAIN streams /\ streams'[m] = streams[m]
        BY <1>5, <3>2
      <4>2. PICK s \in Requests : s = streams[m]
        BY <1>2, <4>1
      <4>3. Collects(s) /\ s.id \in Ids /\ s.id # k
        BY <1>2, <1>10, <3>2, <4>1, <4>2 DEF Table, Requests
      <4>4. Collects(s)'
        BY <1>11, <4>3 DEF Collects
      <4>. QED
        BY <4>1, <4>2, <4>4
    <3>. QED
      BY <3>1, <3>2
  <2>4. \A m \in DOMAIN streams' : Collects(streams[m])'
    BY <2>3 DEF Collects
  <2>5. ASSUME NEW m \in DOMAIN out', out'[m].type = "response"
        PROVE  \E x \in DOMAIN streams' : streams'[x].id = out'[m].id
    <3>1. PICK g \in ServerFrames : g = out'[m]
      OBVIOUS
    <3>2. g.id \in Ids
      BY <2>5, <3>1 DEF ServerFrames
    <3>3. Known(g.id) \/ g.id = k
      <4>1. (\E j \in DOMAIN out : out[j] = g) \/ g.id = k
        BY <2>5, <3>1
      <4>2. \A j \in DOMAIN out : out[j].type = "response" => Known(out[j].id)
        BY <1>2 DEF Table
      <4>. QED
        BY ONLY <2>5, <3>1, <4>1, <4>2
    <3>. QED
      BY <1>9, <3>1, <3>2, <3>3 DEF Known
  <2>. QED
    BY <2>1, <2>2, <2>4, <2>5 DEF Table, Known
<1>15. CreditConserved'
  <2>. SUFFICES ASSUME NoneRefused'
                PROVE  credit' + OnTheWay(in', DataFrames) + OnTheWay(out', Credits) = Window
    BY DEF CreditConserved
  <2>1. \A i \in Ids : ~Refused(i)'
    BY DEF NoneRefused, Refused
  <2>2. NoneRefused
    BY <1>2, <1>8, <2>1, RefusedOnes
  <2>3. credit + OnTheWay(in, DataFrames) + OnTheWay(out, Credits) = Window
    BY <1>1, <2>2 DEF SessionInv, CreditConserved
  <2>4. PICK a, b, d \in Nat : /\ a = OnTheWay(in', DataFrames) /\ b = OnTheWay(out, Credits)
                               /\ d = IF h.type = "data" THEN 1 ELSE 0
    BY <1>2, <1>3, CountNone
  <2>5. credit + (a + d) + b = Window
    BY <1>3, <2>3, <2>4
  <2>6. OnTheWay(out', Credits) = b + d
    BY <2>4
  <2>7. credit + a + (b + d) = Window
    BY <1>2, <2>5
  <2>. QED
    BY <2>4, <2>6, <2>7
<1>16. Answered'
  <2>1. ASSUME NEW i \in Ids, answers'[i] # answers[i]
        PROVE  /\ i = k /\ h.end
               /\ answers'[k] = Append(answers[k], [hdr |-> st.hdr, body |-> st.body])
    <3>1. h.end /\ answers' = [answers EXCEPT ![k] = Append(@, [hdr |-> st.hdr, body |-> st.body])]
      BY <2>1
    <3>2. answers \in [Ids -> Seq(Given)]
      BY <1>2
    <3>. QED
      BY ONLY <2>1, <3>1, <3>2
  <2>2. ASSUME h.end PROVE st.body = Repeat(k, sent[k])
    <3>1. OnTheWay(in', DataOf(k)) = 0
      BY <1>1, <2>2
    <3>2. Len(st.body) = sent[k]
      BY <1>13, <3>1
    <3>. QED
      BY <1>13, <3>2
  <2>3. ASSUME NEW i \in Ids, answers'[i] # <<>>
        PROVE  cl[i] \notin {"idle", "open"}
    <3>1. CASE answers'[i] = answers[i]
      BY <2>3, <3>1 DEF SessionInv, Answered
    <3>2. CASE answers'[i] # answers[i]
      BY <1>1, <2>1, <3>2
    <3>. QED
      BY <3>1, <3>2
  <2>4. ASSUME NEW i \in Ids, NEW j \in DOMAIN answers'[i]
        PROVE  /\ answers'[i][j].hdr = "headers" \/ Trailers
               /\ answers'[i][j].body = [b \in 1 .. sent[i] |-> i]
    <3>1. RequestWhole
      BY DEF SessionInv, Answered
    <3>2. CASE answers'[i] = answers[i]
      BY <3>1, <3>2 DEF RequestWhole
    <3>3. CASE answers'[i] # answers[i]
      <4>. DEFINE a == [hdr |-> st.hdr, body |-> st.body]
      <4>1. i = k /\ h.end /\ answers'[k] = Append(answers[k], a)
        BY <2>1, <3>3
      <4>2. a \in Given /\ answers[k] \in Seq(Given)
        BY <1>2 DEF Requests, Given
      <4>3. a.hdr = st.hdr /\ a.body = Repeat(k, sent[k])
        BY <2>2, <4>1
      <4>. HIDE DEF a
      <4>4. /\ Len(answers[k]) \in Nat /\ Len(answers'[k]) = Len(answers[k]) + 1
            /\ answers'[k][Len(answers[k]) + 1] = a
            /\ \A x \in 1 .. Len(answers[k]) : answers'[k][x] = answers[k][x]
        BY <4>1, <4>2, AppendHolds
      <4>5. j \in 1 .. Len(answers[k]) + 1 /\ DOMAIN answers[k] = 1 .. Len(answers[k])
        BY <1>6, <4>1, <4>2, <4>4 DEF SessionTypeOK
      <4>6. CASE j = Len(answers[k]) + 1
        BY <4>1, <4>3, <4>4, <4>6 DEF Repeat
      <4>7. CASE j \in 1 .. Len(answers[k])
        <5>1. answers'[i][j] = answers[i][j] /\ j \in DOMAIN answers[i]
          BY <4>1, <4>4, <4>5, <4>7
        <5>. QED
          BY <3>1, <5>1 DEF RequestWhole
      <4>. QED
        BY <4>4, <4>5, <4>6, <4>7
    <3>. QED
      BY <3>2, <3>3
  <2>. QED
    BY <2>3, <2>4 DEF Answered, RequestWhole
<1>. QED
  BY <1>1, <1>6, <1>14, <1>15, <1>16 DEF SessionInv

----------------------------------------------------------------------------
(* A stream is found where it is stored. *)
LEMMA StoredOne ==
  ASSUME NEW k
  PROVE  /\ Find(k) # {} <=> Known(k)
         /\ Find(k) # {} => Stored(k) \in DOMAIN streams /\ streams[Stored(k)].id = k
<1>1. Find(k) # {} => Stored(k) \in Find(k)
  BY DEF Stored
<1>. QED
  BY <1>1 DEF Find, Known

(* What a queue holds after a message was sent. *)
LEMMA SendHolds ==
  ASSUME NEW q \in Seq(ServerFrames), NEW fs \in Seq(ServerFrames)
  PROVE  /\ q \o fs \in Seq(ServerFrames)
         /\ \A j \in DOMAIN q : \E m \in DOMAIN (q \o fs) : (q \o fs)[m] = q[j]
         /\ \A m \in DOMAIN (q \o fs) : \/ \E j \in DOMAIN q : q[j] = (q \o fs)[m]
                                        \/ \E j \in DOMAIN fs : fs[j] = (q \o fs)[m]
<1>. DEFINE a == Len(q)
            b == Len(fs)
<1>1. /\ a \in Nat /\ b \in Nat /\ q \o fs \in Seq(ServerFrames) /\ Len(q \o fs) = a + b
      /\ DOMAIN q = 1 .. a /\ DOMAIN fs = 1 .. b
  OBVIOUS
<1>2. DOMAIN (q \o fs) = 1 .. a + b
  BY <1>1
<1>3. \A m \in 1 .. a + b : (q \o fs)[m] = IF m <= a THEN q[m] ELSE fs[m - a]
  OBVIOUS
<1>. HIDE DEF a, b
<1>4. \A j \in 1 .. a : j \in 1 .. a + b /\ (q \o fs)[j] = q[j]
  BY <1>1, <1>3
<1>5. ASSUME NEW m \in 1 .. a + b
      PROVE  \/ \E j \in 1 .. a : q[j] = (q \o fs)[m]
             \/ \E j \in 1 .. b : fs[j] = (q \o fs)[m]
  <2>1. CASE m <= a
    <3>1. m \in 1 .. a
      BY <1>1, <2>1
    <3>. QED
      BY <1>3, <2>1, <3>1
  <2>2. CASE ~(m <= a)
    <3>1. m - a \in 1 .. b
      BY <1>1, <2>2
    <3>. QED
      BY <1>3, <2>2, <3>1
  <2>. QED
    BY <2>1, <2>2
<1>. QED
  BY <1>1, <1>2, <1>4, <1>5

(* A message of one frame holds it. *)
LEMMA OneFrame ==
  ASSUME NEW f \in ServerFrames
  PROVE  <<f>> \in Seq(ServerFrames) /\ \A j \in DOMAIN <<f>> : <<f>>[j] = f
<1>1. <<f>> \in Seq(ServerFrames) /\ Len(<<f>>) = 1 /\ <<f>>[1] = f
  OBVIOUS
<1>2. DOMAIN <<f>> = 1 .. 1
  BY <1>1
<1>. QED
  BY <1>1, <1>2

(* A message of two frames holds these. *)
LEMMA TwoFrames ==
  ASSUME NEW f \in ServerFrames, NEW g \in ServerFrames
  PROVE  <<f, g>> \in Seq(ServerFrames) /\ \A j \in DOMAIN <<f, g>> : <<f, g>>[j] \in {f, g}
<1>1. /\ <<f, g>> \in Seq(ServerFrames) /\ Len(<<f, g>>) = 2
      /\ <<f, g>>[1] = f /\ <<f, g>>[2] = g
  OBVIOUS
<1>2. DOMAIN <<f, g>> = 1 .. 2
  BY <1>1
<1>3. 1 .. 2 = {1, 2}
  OBVIOUS
<1>. QED
  BY <1>1, <1>2, <1>3

(* What it counts then. *)
LEMMA SentOne ==
  ASSUME NEW q \in Seq(ServerFrames), NEW f \in ServerFrames, NEW fs
  PROVE  /\ q \o <<f>> \in Seq(ServerFrames)
         /\ OnTheWay(q \o <<f>>, fs) = OnTheWay(q, fs) + IF f \in fs THEN 1 ELSE 0
<1>1. q \o <<f>> = Append(q, f)
  OBVIOUS
<1>2. Append(q, f) \in Seq(ServerFrames)
  BY AppendHolds
<1>3. OnTheWay(Append(q, f), fs) = OnTheWay(q, fs) + IF f \in fs THEN 1 ELSE 0
  BY CountAppend
<1>. QED
  BY <1>1, <1>2, <1>3

(* Of two frames, of which the second counts. *)
LEMMA SentTwo ==
  ASSUME NEW q \in Seq(ServerFrames), NEW f \in ServerFrames, NEW g \in ServerFrames, NEW fs,
         f \notin fs, g \in fs
  PROVE  /\ q \o <<f, g>> \in Seq(ServerFrames)
         /\ OnTheWay(q \o <<f, g>>, fs) = OnTheWay(q, fs) + 1
<1>1. q \o <<f, g>> = Append(Append(q, f), g)
  OBVIOUS
<1>2. Append(q, f) \in Seq(ServerFrames) /\ OnTheWay(q, fs) \in Nat
  BY AppendHolds, CountNone
<1>3. OnTheWay(Append(q, f), fs) = OnTheWay(q, fs)
  BY <1>2, CountAppend
<1>4. PICK p \in Seq(ServerFrames) : p = Append(q, f)
  BY <1>2
<1>5. OnTheWay(Append(p, g), fs) = OnTheWay(p, fs) + IF g \in fs THEN 1 ELSE 0
  BY CountAppend
<1>6. Append(p, g) \in Seq(ServerFrames)
  BY AppendHolds
<1>. QED
  BY <1>1, <1>3, <1>4, <1>5, <1>6

(* Of three frames, of which the second counts. *)
LEMMA SentThree ==
  ASSUME NEW q \in Seq(ServerFrames), NEW f \in ServerFrames, NEW g \in ServerFrames,
         NEW e \in ServerFrames, NEW fs, f \notin fs, g \in fs, e \notin fs
  PROVE  /\ q \o Append(<<f, g>>, e) \in Seq(ServerFrames)
         /\ OnTheWay(q \o Append(<<f, g>>, e), fs) = OnTheWay(q, fs) + 1
<1>1. q \o Append(<<f, g>>, e) = Append(q \o <<f, g>>, e)
  OBVIOUS
<1>2. q \o <<f, g>> \in Seq(ServerFrames) /\ OnTheWay(q \o <<f, g>>, fs) = OnTheWay(q, fs) + 1
  BY SentTwo
<1>3. OnTheWay(q, fs) \in Nat
  BY CountNone
<1>4. PICK p \in Seq(ServerFrames) : p = q \o <<f, g>>
  BY <1>2
<1>5. OnTheWay(Append(p, e), fs) = OnTheWay(p, fs) + IF e \in fs THEN 1 ELSE 0
  BY CountAppend
<1>6. Append(p, e) \in Seq(ServerFrames)
  BY AppendHolds
<1>7. OnTheWay(Append(p, e), fs) = OnTheWay(p, fs)
  BY <1>2, <1>3, <1>4, <1>5
<1>. QED
  BY <1>1, <1>2, <1>4, <1>6, <1>7

(* What the server sends is what it may send. *)
LEMMA Sendable ==
  ASSUME NEW k \in Ids
  PROVE  /\ Frame("refused", k, TRUE) \in ServerFrames \ Credits
         /\ Frame("response", k, TRUE) \in ServerFrames \ Credits
         /\ Frame("window", k, FALSE) \in ServerFrames \ Credits
         /\ Frame("window", 0, FALSE) \in ServerFrames \cap Credits
<1>1. k \in 0 .. Streams /\ 0 \in 0 .. Streams /\ k # 0
  BY H2Assumption DEF Ids
<1>2. /\ \A t \in {"refused", "response", "window"}, e \in BOOLEAN : Frame(t, k, e) \in Frames
      /\ Frame("window", 0, FALSE) \in Frames
  BY <1>1 DEF Frame, Frames
<1>3. \A t, i, e : Frame(t, i, e).type = t /\ Frame(t, i, e).id = i
  BY DEF Frame
<1>4. /\ \A t \in {"refused", "response", "window"}, e \in BOOLEAN : Frame(t, k, e) \in ServerFrames
      /\ Frame("window", 0, FALSE) \in ServerFrames
  <2>1. \A f \in Frames : /\ f.type \in {"refused", "response"} /\ f.id \in Ids => f \in ServerFrames
                          /\ f.type = "window" => f \in ServerFrames
    BY DEF ServerFrames
  <2>2. ASSUME NEW t \in {"refused", "response", "window"}, NEW e \in BOOLEAN
        PROVE  Frame(t, k, e) \in ServerFrames
    <3>1. PICK f \in Frames : f = Frame(t, k, e)
      BY <1>2
    <3>2. f.type = t /\ f.id = k
      BY <1>3, <3>1
    <3>3. f \in ServerFrames
      BY <2>1, <3>2
    <3>. QED
      BY <3>1, <3>3
  <2>3. Frame("window", 0, FALSE) \in ServerFrames
    BY <1>2, <1>3, <2>1
  <2>. QED
    BY <2>2, <2>3
<1>5. Frame("window", 0, FALSE) \in Credits /\ \A t, e : Frame(t, k, e) \notin Credits
  <2>1. \A f \in Credits : f.id = 0
    BY DEF Credits
  <2>2. Frame("window", 0, FALSE) \in Credits
    BY <1>2, <1>3 DEF Credits
  <2>. QED
    BY ONLY <1>1, <1>3, <2>1, <2>2
<1>. QED
  BY <1>4, <1>5

(* Data of a stream that was refused, and resets: nothing is sent. *)
LEMMA QuietDropInv ==
  ASSUME SessionInv, NEW types, Next1(types), "headers" \notin types,
         UNCHANGED <<cl, sent, credit, ended, answers, out>>,
         NEW h, h = Head(in), NEW k \in Ids, h.id = k,
         streams' \in Seq(Requests), Len(streams') = Len(streams),
         \A n \in DOMAIN streams : /\ streams'[n].id = streams[n].id
                                   /\ streams'[n].body = streams[n].body
                                   /\ streams'[n].hdr = streams[n].hdr,
         h.type = "data" => ~Known(k)
  PROVE  SessionInv'
<1>1. ~ended /\ h.type \in types /\ (Waits(k) <=> h.type = "headers")
  BY TakesFrame
<1>2. Table /\ out \in Seq(ServerFrames)
  BY <1>1 DEF SessionInv, SessionTypeOK
<1>3. \A i \in Ids : Refused(i)' <=> Refused(i)
  BY DEF Refused
<1>4. /\ Known(k) <=> ~Refused(k)
      /\ Refused(k) => Len(streams) >= MaxStreams
  <2>1. Placed(k)
    BY <1>2 DEF Table
  <2>. QED
    BY <1>1, <2>1 DEF Placed
<1>5. /\ Known(k) <=> ~Refused(k)'
      /\ Refused(k)' => Len(streams) >= MaxStreams
      /\ h.type = "data" => Refused(k)'
  BY <1>3, <1>4
<1>6. \A j \in DOMAIN out' : out'[j].type = "response" => Known(out'[j].id)
  BY <1>2 DEF Table
<1>. QED
  BY <1>2, <1>3, <1>5, <1>6, DropInv

(* HEADERS. *)
LEMMA HeadersInv ==
  ASSUME SessionInv, Headers
  PROVE  SessionInv'
<1>1. PICK h : h = Head(in)
  OBVIOUS
<1>2. Next1({"headers", "trailers"}) /\ UNCHANGED <<cl, sent, credit, ended>>
  BY DEF Headers, clientVars
<1>3. /\ ~ended /\ h \in ClientFrames /\ h.type \in {"headers", "trailers"}
      /\ h.type = "trailers" => Trailers
      /\ \A i \in Ids : i = h.id => (Waits(i) <=> h.type = "headers")
  BY <1>1, <1>2, TakesFrame
<1>4. PICK k \in Ids : k = h.id
  BY <1>3 DEF ClientFrames
<1>5. Table /\ out \in Seq(ServerFrames) /\ streams \in Seq(Requests) /\ Len(streams) <= MaxStreams
  BY <1>3 DEF SessionInv, SessionTypeOK
<1>6. DOMAIN streams = 1 .. Len(streams) /\ Len(streams) \in Nat /\ MaxStreams \in Nat
  BY <1>5, H2Assumption
<1>7. Placed(k) /\ (Waits(k) <=> h.type = "headers")
  BY <1>3, <1>4, <1>5 DEF Table
<1>. DEFINE n    == IF Find(k) # {} THEN Stored(k) ELSE Len(streams) + 1
            body == IF n \in DOMAIN streams THEN streams[n].body ELSE <<>>
            st   == [id |-> k, hdr |-> h.type, closed |-> FALSE, body |-> body]
            set(s) == streams' = IF n \in DOMAIN streams THEN [streams EXCEPT ![n] = s]
                                 ELSE Append(streams, s)
<1>8. \/ /\ n > MaxStreams
         /\ Send(<<Frame("refused", k, TRUE)>>)
         /\ UNCHANGED <<streams, answers>>
      \/ /\ n <= MaxStreams /\ ~h.end
         /\ set(st)
         /\ UNCHANGED <<out, answers>>
      \/ /\ n <= MaxStreams /\ h.end
         /\ set(Closed(st)) /\ Process(st) /\ Send(<<Response(st)>>)
  BY <1>1, <1>4 DEF Headers
<1>9. /\ n \in Nat
      /\ n \in DOMAIN streams <=> Known(k)
      /\ n \in DOMAIN streams => streams[n].id = k
      /\ n \notin DOMAIN streams => n = Len(streams) + 1
  BY <1>6, StoredOne
<1>10. /\ body \in Seq(Ids) /\ body = st.body /\ st.id = k /\ st.hdr = h.type
       /\ st.hdr = "headers" \/ Trailers
       /\ st \in Requests /\ Closed(st) \in Requests
       /\ Closed(st).id = k /\ Closed(st).hdr = st.hdr /\ Closed(st).body = st.body
  <2>1. body \in Seq(Ids)
    <3>1. \A m \in DOMAIN streams : streams[m] \in Requests
      BY <1>5
    <3>. QED
      BY <3>1 DEF Requests
  <2>. HIDE DEF body
  <2>. QED
    BY <1>3, <2>1 DEF Requests, Closed
<1>. HIDE DEF n, body, st
<1>11. CASE n > MaxStreams
  <2>. DEFINE f == Frame("refused", k, TRUE)
  <2>1. ~(n <= MaxStreams)
    BY <1>6, <1>9, <1>11
  <2>2. out' = out \o <<f>> /\ UNCHANGED <<streams, answers>>
    BY <1>8, <2>1 DEF Send
  <2>3. f \in ServerFrames /\ f \notin Credits /\ f.type = "refused" /\ f.id = k
    BY Sendable DEF Frame
  <2>. HIDE DEF f
  <2>4. out' \in Seq(ServerFrames) /\ OnTheWay(out', Credits) = OnTheWay(out, Credits)
    <3>1. OnTheWay(out, Credits) \in Nat
      BY <1>5, CountNone
    <3>. QED
      BY <1>5, <2>2, <2>3, <3>1, SentOne
  <2>5. /\ \A j \in DOMAIN out : \E m \in DOMAIN out' : out'[m] = out[j]
        /\ \A m \in DOMAIN out' : (\E j \in DOMAIN out : out[j] = out'[m]) \/ out'[m] = f
    <3>1. PICK fs \in Seq(ServerFrames) : fs = <<f>> /\ \A j \in DOMAIN fs : fs[j] = f
      BY <2>3, OneFrame
    <3>2. /\ \A j \in DOMAIN out : \E m \in DOMAIN (out \o fs) : (out \o fs)[m] = out[j]
          /\ \A m \in DOMAIN (out \o fs) : \/ \E j \in DOMAIN out : out[j] = (out \o fs)[m]
                                           \/ \E j \in DOMAIN fs : fs[j] = (out \o fs)[m]
      BY <1>5, SendHolds
    <3>. QED
      BY <2>2, <3>1, <3>2
  <2>6. \E m \in DOMAIN out' : out'[m] = f
    <3>1. out' = Append(out, f) /\ Len(out') = Len(out) + 1 /\ out'[Len(out) + 1] = f
      BY <1>5, <2>2, <2>3
    <3>2. DOMAIN out' = 1 .. Len(out) + 1 /\ Len(out) \in Nat
      BY <1>5, <2>4, <3>1
    <3>. QED
      BY <3>1, <3>2
  <2>7. ~Known(k) /\ Len(streams) >= MaxStreams
    BY <1>5, <1>6, <1>9, <1>11
  <2>8. Refused(k)' /\ \A i \in Ids : i # k => (Refused(i)' <=> Refused(i))
    BY <1>2, <2>3, <2>5, <2>6 DEF Refused
  <2>9. \A m \in DOMAIN out' : out'[m].type = "response" => Known(out'[m].id)
    BY <1>5, <2>3, <2>5 DEF Table
  <2>10. h.type # "data"
    BY <1>3
  <2>. QED
    BY <1>1, <1>2, <1>4, <1>5, <2>2, <2>4, <2>7, <2>8, <2>9, <2>10, DropInv
<1>12. ASSUME n <= MaxStreams, NEW s \in Requests, s.id = k, s.hdr = h.type, s.body = body, set(s),
              \/ UNCHANGED <<out, answers>>
              \/ /\ h.end /\ out' = out \o <<Frame("response", k, TRUE)>>
                 /\ answers' = [answers EXCEPT ![k] = Append(@, [hdr |-> s.hdr, body |-> s.body])]
       PROVE  SessionInv'
  <2>1. \/ /\ h.type = "headers" /\ n = Len(streams) + 1 /\ body = <<>>
           /\ streams' = Append(streams, s)
        \/ /\ h.type # "headers" /\ n \in DOMAIN streams /\ streams[n].id = k
           /\ body = streams[n].body /\ streams' = [streams EXCEPT ![n] = s]
    <3>1. CASE h.type = "headers"
      <4>1. n \notin DOMAIN streams
        BY <1>7, <1>9, <3>1 DEF Placed
      <4>. QED
        BY <1>9, <1>12, <3>1, <4>1 DEF body
    <3>2. CASE h.type # "headers"
      <4>1. n \in DOMAIN streams
        <5>1. ~Known(k) => Len(streams) >= MaxStreams /\ n = Len(streams) + 1
          BY <1>7, <1>9, <3>2 DEF Placed
        <5>. QED
          BY <1>6, <1>9, <1>12, <5>1
      <4>. QED
        BY <1>9, <1>12, <3>2, <4>1 DEF body
    <3>. QED
      BY <3>1, <3>2
  <2>2. /\ out' \in Seq(ServerFrames) /\ OnTheWay(out', Credits) = OnTheWay(out, Credits) + 0
        /\ \A j \in DOMAIN out : \E m \in DOMAIN out' : out'[m] = out[j]
        /\ \A m \in DOMAIN out' : \/ \E j \in DOMAIN out : out[j] = out'[m]
                                  \/ out'[m].type = "response" /\ out'[m].id = k
    <3>. DEFINE f == Frame("response", k, TRUE)
    <3>1. f \in ServerFrames /\ f \notin Credits /\ f.type = "response" /\ f.id = k
      BY Sendable DEF Frame
    <3>2. OnTheWay(out, Credits) \in Nat
      BY <1>5, CountNone
    <3>. HIDE DEF f
    <3>3. CASE out' = out
      BY <1>5, <3>2, <3>3
    <3>4. CASE out' = out \o <<f>>
      <4>1. PICK fs \in Seq(ServerFrames) : fs = <<f>> /\ \A j \in DOMAIN fs : fs[j] = f
        BY <3>1, OneFrame
      <4>2. /\ \A j \in DOMAIN out : \E m \in DOMAIN out' : out'[m] = out[j]
            /\ \A m \in DOMAIN out' : (\E j \in DOMAIN out : out[j] = out'[m]) \/ out'[m] = f
        <5>1. /\ \A j \in DOMAIN out : \E m \in DOMAIN (out \o fs) : (out \o fs)[m] = out[j]
              /\ \A m \in DOMAIN (out \o fs) : \/ \E j \in DOMAIN out : out[j] = (out \o fs)[m]
                                               \/ \E j \in DOMAIN fs : fs[j] = (out \o fs)[m]
          BY <1>5, SendHolds
        <5>. QED
          BY <3>4, <4>1, <5>1
      <4>3. out' \in Seq(ServerFrames) /\ OnTheWay(out', Credits) = OnTheWay(out, Credits) + 0
        BY <1>5, <3>1, <3>4, SentOne
      <4>. QED
        BY <3>1, <4>2, <4>3
    <3>. QED
      BY <1>12, <3>3, <3>4 DEF f
  <2>3. h.type # "data"
    BY <1>3
  <2>4. s.body = IF h.type = "data" THEN Append(body, k) ELSE body
    BY <1>12, <2>3
  <2>5. OnTheWay(out', Credits) = OnTheWay(out, Credits) + IF h.type = "data" THEN 1 ELSE 0
    BY <2>2, <2>3
  <2>6. \A m \in DOMAIN out' : \/ \E j \in DOMAIN out : out[j] = out'[m]
                               \/ out'[m].type = "window"
                               \/ out'[m].type = "response" /\ out'[m].id = k
    BY <2>2
  <2>7. \/ answers' = answers
        \/ h.end /\ answers' = [answers EXCEPT ![k] = Append(@, [hdr |-> s.hdr, body |-> s.body])]
    BY <1>12
  <2>8. h.id = k /\ n \in Nat /\ body \in Seq(Ids) /\ (s.hdr = "headers" \/ Trailers)
    BY <1>4, <1>9, <1>10, <1>12
  <2>9. Stores(h, k, n, s, body)
    BY <1>10, <1>12, <2>1, <2>2, <2>4, <2>5, <2>6, <2>7, <2>8 DEF Stores
  <2>. QED
    BY <1>1, <1>2, <1>12, <2>8, <2>9, StoreInv
<1>13. CASE n <= MaxStreams /\ ~h.end
  <2>1. set(st) /\ UNCHANGED <<out, answers>>
    BY <1>6, <1>8, <1>9, <1>13
  <2>. QED
    BY <1>10, <1>12, <1>13, <2>1
<1>14. CASE n <= MaxStreams /\ h.end
  <2>1. set(Closed(st)) /\ Process(st) /\ Send(<<Response(st)>>)
    BY <1>6, <1>8, <1>9, <1>14
  <2>2. Response(st) = Frame("response", k, TRUE)
    BY <1>10 DEF Response
  <2>3. /\ out' = out \o <<Frame("response", k, TRUE)>>
        /\ answers' = [answers EXCEPT ![k] = Append(@, [hdr |-> st.hdr, body |-> st.body])]
    BY <1>10, <2>1, <2>2 DEF Send, Process
  <2>. QED
    BY <1>10, <1>12, <1>14, <2>1, <2>3
<1>15. n > MaxStreams \/ n <= MaxStreams
  BY <1>6, <1>9
<1>. QED
  BY <1>3, <1>11, <1>13, <1>14, <1>15

(* DATA. *)
LEMMA DataInv ==
  ASSUME SessionInv, Data
  PROVE  SessionInv'
<1>1. PICK h : h = Head(in)
  OBVIOUS
<1>2. Next1({"data"}) /\ UNCHANGED <<cl, sent, credit, ended>>
  BY DEF Data, clientVars
<1>3. ~ended /\ h \in ClientFrames /\ h.type = "data"
  BY <1>1, <1>2, TakesFrame
<1>4. PICK k \in Ids : k = h.id
  BY <1>3 DEF ClientFrames
<1>5. Table /\ out \in Seq(ServerFrames) /\ streams \in Seq(Requests) /\ Len(streams) <= MaxStreams
  BY <1>3 DEF SessionInv, SessionTypeOK
<1>. DEFINE n    == Stored(k)
            body == streams[n].body
            st   == [streams[n] EXCEPT !.body = Append(@, k)]
            own  == Frame("window", k, FALSE)
            all  == Frame("window", 0, FALSE)
<1>6. \/ Find(k) = {} /\ UNCHANGED <<out, streams, answers>>
      \/ /\ Find(k) # {} /\ ~h.end
         /\ streams' = [streams EXCEPT ![n] = st]
         /\ Send(<<own, all>>)
         /\ UNCHANGED answers
      \/ /\ Find(k) # {} /\ h.end
         /\ streams' = [streams EXCEPT ![n] = Closed(st)]
         /\ Process(st)
         /\ Send(Append(<<own, all>>, Response(st)))
  BY <1>1, <1>4 DEF Data
<1>7. CASE Find(k) = {}
  <2>1. UNCHANGED <<out, streams, answers>> /\ ~Known(k)
    BY <1>6, <1>7, StoredOne
  <2>. QED
    BY <1>1, <1>2, <1>4, <1>5, <2>1, QuietDropInv
<1>8. CASE Find(k) # {}
  <2>1. n \in DOMAIN streams /\ streams[n].id = k
    BY <1>8, StoredOne
  <2>2. DOMAIN streams = 1 .. Len(streams) /\ Len(streams) \in Nat /\ MaxStreams \in Nat
    BY <1>5, H2Assumption
  <2>3. n \in Nat /\ n <= MaxStreams
    BY <1>5, <2>1, <2>2
  <2>4. PICK old \in Requests : old = streams[n]
    BY <1>5, <2>1
  <2>5. /\ old.id = k /\ old.body \in Seq(Ids) /\ old.hdr \in {"headers", "trailers"}
        /\ old.hdr = "headers" \/ Trailers
    BY <1>5, <2>1, <2>4 DEF Requests, Table, Collects
  <2>6. Append(old.body, k) \in Seq(Ids)
    BY <2>5, AppendHolds
  <2>7. /\ st \in Requests /\ st.id = k /\ st.hdr = old.hdr /\ st.body = Append(old.body, k)
        /\ Closed(st) \in Requests /\ Closed(st).id = k
        /\ Closed(st).hdr = st.hdr /\ Closed(st).body = st.body
    BY <2>4, <2>5, <2>6 DEF Requests, Closed
  <2>8. own \in ServerFrames /\ own \notin Credits /\ all \in ServerFrames /\ all \in Credits
        /\ own.type = "window" /\ all.type = "window"
    BY Sendable DEF Frame
  <2>9. PICK f \in ServerFrames : f = Response(st) /\ f \notin Credits /\ f.type = "response" /\ f.id = k
    BY <2>7, Sendable DEF Response, Frame
  <2>. HIDE DEF n, st, own, all
  <2>10. ASSUME NEW s \in Requests, s.id = k, s.hdr = old.hdr, s.body = Append(old.body, k),
                streams' = [streams EXCEPT ![n] = s],
                NEW fs \in Seq(ServerFrames), out' = out \o fs, out' \in Seq(ServerFrames),
                OnTheWay(out', Credits) = OnTheWay(out, Credits) + 1,
                \A j \in DOMAIN fs : fs[j] \in {own, all, f},
                \/ answers' = answers
                \/ h.end /\ answers' = [answers EXCEPT ![k] = Append(@, [hdr |-> s.hdr, body |-> s.body])]
         PROVE  SessionInv'
    <3>1. /\ \A j \in DOMAIN out : \E m \in DOMAIN out' : out'[m] = out[j]
          /\ \A m \in DOMAIN out' : \/ \E j \in DOMAIN out : out[j] = out'[m]
                                    \/ \E j \in DOMAIN fs : fs[j] = out'[m]
      <4>1. /\ \A j \in DOMAIN out : \E m \in DOMAIN (out \o fs) : (out \o fs)[m] = out[j]
            /\ \A m \in DOMAIN (out \o fs) : \/ \E j \in DOMAIN out : out[j] = (out \o fs)[m]
                                             \/ \E j \in DOMAIN fs : fs[j] = (out \o fs)[m]
        BY <1>5, SendHolds
      <4>. QED
        BY <2>10, <4>1
    <3>2. \A m \in DOMAIN out' : \/ \E j \in DOMAIN out : out[j] = out'[m]
                                 \/ out'[m].type = "window"
                                 \/ out'[m].type = "response" /\ out'[m].id = k
      <4>1. \A j \in DOMAIN fs : fs[j] = own \/ fs[j] = all \/ fs[j] = f
        BY <2>10
      <4>. QED
        BY ONLY <2>8, <2>9, <3>1, <4>1
    <3>3. Stores(h, k, n, s, old.body)
      BY <1>3, <1>4, <2>1, <2>3, <2>4, <2>5, <2>10, <3>1, <3>2 DEF Stores
    <3>. QED
      BY <1>1, <1>2, <2>3, <2>5, <3>3, StoreInv
  <2>11. CASE ~h.end
    <3>1. /\ streams' = [streams EXCEPT ![n] = st] /\ out' = out \o <<own, all>>
          /\ answers' = answers
      BY <1>6, <1>8, <2>11 DEF Send
    <3>2. PICK fs \in Seq(ServerFrames) : fs = <<own, all>> /\ \A j \in DOMAIN fs : fs[j] \in {own, all}
      BY <2>8, TwoFrames
    <3>3. out' \in Seq(ServerFrames) /\ OnTheWay(out', Credits) = OnTheWay(out, Credits) + 1
      BY <1>5, <2>8, <3>1, SentTwo
    <3>. QED
      BY <2>7, <2>10, <3>1, <3>2, <3>3
  <2>12. CASE h.end
    <3>1. /\ streams' = [streams EXCEPT ![n] = Closed(st)]
          /\ out' = out \o Append(<<own, all>>, f)
          /\ answers' = [answers EXCEPT ![k] = Append(@, [hdr |-> st.hdr, body |-> st.body])]
      BY <1>6, <1>8, <2>7, <2>9, <2>12 DEF Send, Process
    <3>2. PICK fs \in Seq(ServerFrames) : /\ fs = Append(<<own, all>>, f)
                                          /\ \A j \in DOMAIN fs : fs[j] \in {own, all, f}
      <4>1. PICK ws \in Seq(ServerFrames) : ws = <<own, all>> /\ \A j \in DOMAIN ws : ws[j] \in {own, all}
        BY <2>8, TwoFrames
      <4>2. /\ Append(ws, f) \in Seq(ServerFrames) /\ Len(ws) \in Nat
            /\ Len(Append(ws, f)) = Len(ws) + 1 /\ Append(ws, f)[Len(ws) + 1] = f
            /\ \A j \in 1 .. Len(ws) : Append(ws, f)[j] = ws[j]
        BY AppendHolds
      <4>3. DOMAIN Append(ws, f) = 1 .. Len(ws) + 1 /\ DOMAIN ws = 1 .. Len(ws)
        BY <4>2
      <4>4. \A j \in DOMAIN Append(ws, f) : j \in DOMAIN ws \/ j = Len(ws) + 1
        BY <4>2, <4>3
      <4>5. \A j \in DOMAIN Append(ws, f) : Append(ws, f)[j] \in {own, all, f}
        BY <4>1, <4>2, <4>3, <4>4
      <4>. QED
        BY <4>1, <4>2, <4>5
    <3>3. out' \in Seq(ServerFrames) /\ OnTheWay(out', Credits) = OnTheWay(out, Credits) + 1
      BY <1>5, <2>8, <2>9, <3>1, SentThree
    <3>4. answers' = [answers EXCEPT ![k] = Append(@, [hdr |-> Closed(st).hdr, body |-> Closed(st).body])]
      BY <2>7, <3>1
    <3>5. h.end /\ Closed(st).hdr = old.hdr /\ Closed(st).body = Append(old.body, k)
      BY <2>7, <2>12
    <3>. QED
      BY <2>7, <2>10, <3>1, <3>2, <3>3, <3>4, <3>5
  <2>. QED
    BY <1>3, <2>11, <2>12
<1>. QED
  BY <1>7, <1>8

(* RST_STREAM. *)
LEMMA ResetInv ==
  ASSUME SessionInv, Reset
  PROVE  SessionInv'
<1>1. PICK h : h = Head(in)
  OBVIOUS
<1>2. Next1({"rst"}) /\ UNCHANGED <<cl, sent, credit, ended, answers, out>>
  BY DEF Reset, clientVars
<1>3. ~ended /\ h \in ClientFrames /\ h.type = "rst"
  BY <1>1, <1>2, TakesFrame
<1>4. PICK k \in Ids : k = h.id
  BY <1>3 DEF ClientFrames
<1>5. streams' = [n \in DOMAIN streams |-> IF streams[n].id = k THEN Closed(streams[n]) ELSE streams[n]]
  BY <1>1, <1>4 DEF Reset
<1>6. streams \in Seq(Requests) /\ \A n \in DOMAIN streams : streams[n] \in Requests
  BY DEF SessionInv, SessionTypeOK
<1>7. \A st \in Requests : /\ Closed(st) \in Requests /\ Closed(st).id = st.id
                           /\ Closed(st).body = st.body /\ Closed(st).hdr = st.hdr
  BY DEF Closed, Requests
<1>8. \A n \in DOMAIN streams : /\ streams'[n] \in Requests
                                /\ streams'[n].id = streams[n].id
                                /\ streams'[n].body = streams[n].body
                                /\ streams'[n].hdr = streams[n].hdr
  BY <1>5, <1>6, <1>7
<1>9. DOMAIN streams = 1 .. Len(streams) /\ Len(streams) \in Nat /\ DOMAIN streams' = DOMAIN streams
  BY <1>5, <1>6
<1>10. streams' \in Seq(Requests) /\ Len(streams') = Len(streams)
  BY <1>5, <1>8, <1>9
<1>. QED
  BY <1>1, <1>2, <1>3, <1>4, <1>8, <1>10, QuietDropInv

(* GOAWAY: the session is over. *)
LEMMA GoAwayInv ==
  ASSUME SessionInv, GoAway
  PROVE  SessionInv'
<1>1. PICK h : h = Head(in)
  OBVIOUS
<1>2. Next1({"goaway"}) /\ UNCHANGED <<cl, sent, credit, out, answers>> /\ ended' /\ streams' = <<>>
  BY DEF GoAway, clientVars
<1>3. /\ in' \in Seq(ClientFrames) /\ used' \in Nat /\ used' <= Pieces * Len(in')
      /\ InOrder' /\ ClientKnows'
  BY <1>1, <1>2, TakesFrame
<1>4. streams' \in Seq(Requests) /\ Len(streams') = 0 /\ Len(streams') <= MaxStreams /\ ended' = TRUE
  BY <1>2, H2Assumption DEF GoAway
<1>5. SessionTypeOK'
  BY <1>2, <1>3, <1>4 DEF SessionInv, SessionTypeOK
<1>6. Answered'
  BY <1>2 DEF SessionInv, Answered, RequestWhole
<1>. QED
  BY <1>2, <1>3, <1>5, <1>6 DEF SessionInv, CreditConserved

(* Nothing the invariant speaks of changes. *)
LEMMA SessionStays ==
  ASSUME SessionInv, UNCHANGED <<clientVars, in, out, streams, ended, answers>>,
         used' \in Nat, used' <= Pieces * Len(in)
  PROVE  SessionInv'
<1>1. SessionTypeOK'
  BY DEF SessionInv, SessionTypeOK, clientVars
<1>2. InOrder' /\ ClientKnows' /\ CreditConserved' /\ Answered'
  BY DEF SessionInv, InOrder, ClientKnows, CreditConserved, NoneRefused, Answered, RequestWhole, clientVars
<1>3. Table => Table'
  BY DEF Table, Apart, Placed, Waits, Known, Refused, Collects, clientVars
<1>. QED
  BY <1>1, <1>2, <1>3 DEF SessionInv

(* Every step keeps the invariant. *)
LEMMA SessionNext == SessionInv /\ [Next]_vars => SessionInv'
<1>. SUFFICES ASSUME SessionInv, [Next]_vars PROVE SessionInv'
  OBVIOUS
<1>1. CASE UNCHANGED vars
  <2>1. used' \in Nat /\ used' <= Pieces * Len(in)
    BY <1>1 DEF vars, SessionInv, SessionTypeOK
  <2>. QED
    BY <1>1, <2>1, SessionStays DEF vars
<1>2. ASSUME NEW id \in Ids,
             ClientOpens(id) \/ ClientData(id) \/ ClientTrails(id) \/ ClientResets(id)
      PROVE  SessionInv'
  BY <1>2, ClientStreamInv
<1>3. ASSUME NEW n \in 1 .. Pieces, Recv(n) PROVE SessionInv'
  <2>1. used \in Nat /\ n \in Nat /\ used + n <= Pieces * Len(in) /\ used' = used + n
    BY <1>3 DEF Recv, SessionInv, SessionTypeOK, Pieces
  <2>2. used' \in Nat /\ used' <= Pieces * Len(in)
    BY <2>1
  <2>. QED
    BY <1>3, <2>2, SessionStays DEF Recv
<1>. QED
  BY <1>1, <1>2, <1>3, ClientGoesAwayInv, ClientReadsInv, HeadersInv, DataInv, ResetInv, GoAwayInv
     DEF Next, Handle

(* What the invariant is for. *)
LEMMA SessionGives == SessionInv => RequestWhole /\ CreditConserved
  BY DEF SessionInv, Answered

----------------------------------------------------------------------------
(* Every handler is given the headers and the whole body of one request,   *)
(* and nothing of another, however the frames of different streams are     *)
(* interleaved (yk_h2_handle_headers, yk_h2_handle_data,                   *)
(* yk_h2_process_stream): for any number of streams, any table, window and *)
(* length of bodies.                                                       *)
THEOREM RequestsAreWhole == Spec => []RequestWhole
<1>1. Spec => []SessionInv
  BY SessionStart, SessionNext, PTL DEF Spec
<1>. QED
  BY <1>1, SessionGives, PTL

(* While no stream is refused the credit of the connection is conserved    *)
(* (yk_h2_handle_data): what was sent and has been taken is returned.      *)
THEOREM CreditIsConserved == Spec => []CreditConserved
<1>1. Spec => []SessionInv
  BY SessionStart, SessionNext, PTL DEF Spec
<1>. QED
  BY <1>1, SessionGives, PTL

(* The same of an upgraded connection, which may be a WebSocket instead    *)
(* (yk_on_recv).                                                           *)
THEOREM SessionsAreSafe == SessionsSpec => [](RequestWhole /\ CreditConserved)
<1>1. SessionsInit => SessionInv
  BY SessionStart DEF SessionsInit
<1>2. [SessionsNext]_allVars => [Next]_vars
  BY DEF SessionsNext, WsStep, H2Step, allVars
<1>3. SessionInv /\ [SessionsNext]_allVars => SessionInv'
  BY <1>2, SessionNext
<1>4. SessionInv => RequestWhole /\ CreditConserved
  BY SessionGives
<1>. QED
  BY <1>1, <1>3, <1>4, PTL DEF SessionsSpec

----------------------------------------------------------------------------
(* The WebSocket session (WsFrames).  Its parser is a function of what it  *)
(* consumed: the frame it is in, and the place in it, are those that the   *)
(* client's stream has there.                                              *)

(* Bytes and answers up to the end of the n-th frame.                      *)
BytesOf(n)   == IF n = 0 THEN 0 ELSE marks[n].bytes
AnswersOf(n) == IF n = 0 THEN 0 ELSE marks[n].answers

(* Where the fields of the frame behind the first n begin.                 *)
ExtAt(n)     == BytesOf(n) + 2
MaskAt(n)    == ExtAt(n) + frames[n + 1].ext
PayloadAt(n) == MaskAt(n) + frames[n + 1].mask

Byte == Nat \X {"header", "ext", "mask", "payload"} \X Nat
Marks == [bytes : Nat, answers : Nat]

WsTypeOK ==
  /\ frames \in Seq(Kinds)
  /\ stream \in Seq(Byte)
  /\ owed \in Seq({"text", "ping"} \X Seq(Byte))
  /\ marks \in Seq(Marks)
  /\ arrived \in Nat
  /\ buf \in Seq(Byte)
  /\ pos \in Nat
  /\ state \in {"header", "ext", "mask", "payload"}
  /\ frame \in Kinds \cup {Ws!NoFrame}
  /\ payload \in Seq(Byte)
  /\ pc \in {"recv", "parse", "closed"}
  /\ replies \in Seq({"text", "ping"} \X Seq(Byte))

(* The frames lie in the stream one behind the other.                      *)
FrameLies(n) ==
  /\ BytesOf(n + 1) = PayloadAt(n) + frames[n + 1].len
  /\ stream[BytesOf(n) + 1] = <<n + 1, "header", 1>>
  /\ \A b \in 1 .. frames[n + 1].len :
       stream[PayloadAt(n) + b] = <<n + 1, "payload", b>>

Laid ==
  /\ Len(marks) = Len(frames)
  /\ Len(stream) = BytesOf(Len(frames))
  /\ \A n \in 0 .. Len(frames) : n < Len(frames) => FrameLies(n)
  /\ \A n, k \in 0 .. Len(frames) : n <= k => BytesOf(n) <= BytesOf(k)

(* The server owes an answer for the frame behind the first n.             *)
Asks(n) == frames[n + 1].op \in {"text", "ping"} /\ ~Ws!EndsAt(n)
AnswerTo(n) ==
  IF Asks(n)
    THEN /\ AnswersOf(n + 1) = AnswersOf(n) + 1
         /\ owed[AnswersOf(n) + 1] = <<frames[n + 1].op,
              Ws!FieldBytes(n + 1, "payload", frames[n + 1].len)>>
    ELSE AnswersOf(n + 1) = AnswersOf(n)

Owes ==
  /\ Len(owed) = AnswersOf(Len(frames))
  /\ \A n \in 0 .. Len(frames) : n < Len(frames) => AnswerTo(n)
  /\ \A n, k \in 0 .. Len(frames) : n <= k => AnswersOf(n) <= AnswersOf(k)

(* The buffer is the last of what has arrived.                             *)
Buffered ==
  /\ Len(buf) <= arrived /\ arrived <= Len(stream)
  /\ \A b \in 1 .. Len(buf) : buf[b] = stream[arrived - Len(buf) + b]
  /\ pc = "parse" => pos <= Len(buf)

Consumed == IF pc = "parse" THEN arrived - Len(buf) + pos ELSE arrived - Len(buf)

(* What was sent is the beginning of what is owed.                         *)
Told == /\ Len(replies) <= Len(owed)
        /\ \A i \in 1 .. Len(replies) : replies[i] = owed[i]

(* The parser is in the frame behind the first n, where its state says.    *)
In(n) ==
  IF state = "header" THEN Consumed = BytesOf(n) /\ payload = <<>>
  ELSE /\ n < Len(frames) /\ frame = frames[n + 1]
       /\ state = "ext"  => frame.ext > 0 /\ Consumed = ExtAt(n)
       /\ state = "mask" => Consumed = MaskAt(n)
       /\ state = "payload" =>
            /\ frame.op # "huge"
            /\ Len(payload) < frame.len
            /\ \A b \in 1 .. Len(payload) : payload[b] = <<n + 1, "payload", b>>
            /\ Consumed = PayloadAt(n) + Len(payload)

(* At the start of the buffer there is enough to go on.                    *)
Fresh == pos = 0 => /\ Len(buf) > 0
                    /\ \/ Len(buf) >= 8
                       \/ \E m \in 0 .. Len(frames) : arrived = BytesOf(m)

Parsed(n) ==
  /\ ~Ws!EndsAt(n)
  /\ Len(replies) = AnswersOf(n)
  /\ In(n)
  /\ pc = "recv" /\ n < Len(frames) => arrived < BytesOf(n + 1)
  /\ pc = "parse" => Fresh

WsInv ==
  /\ WsTypeOK /\ Laid /\ Owes /\ Buffered /\ Told
  /\ pc # "closed" => \E n \in 0 .. Len(frames) : Parsed(n)
----------------------------------------------------------------------------

(* The constants, as the proofs use them. *)
LEMMA KindFacts ==
  ASSUME NEW f \in Kinds
  PROVE  /\ f.op \in {"text", "ping", "cont", "close", "huge"}
         /\ f.ext \in {0, 2, 8} /\ f.mask \in {0, 4} /\ f.len \in Nat
         /\ f.mask > 0 \/ f.len > 0
  BY WsAssumption DEF Ws!FrameKinds

(* The same as inequalities. *)
LEMMA KindNumbers ==
  ASSUME NEW f \in Kinds
  PROVE  /\ f.ext \in Nat /\ f.ext <= 8 /\ f.mask \in Nat /\ f.mask <= 4 /\ f.len \in Nat
         /\ f.mask + f.len > 0
<1>1. /\ f.ext \in {0, 2, 8} /\ f.mask \in {0, 4} /\ f.len \in Nat
      /\ f.mask > 0 \/ f.len > 0
  BY KindFacts
<1> QED
  BY ONLY <1>1

(* The bytes of a field. *)
LEMMA FieldIs ==
  ASSUME NEW j \in Nat, NEW field \in {"header", "ext", "mask", "payload"}, NEW n \in Nat
  PROVE  /\ Ws!FieldBytes(j, field, n) \in Seq(Byte)
         /\ Len(Ws!FieldBytes(j, field, n)) = n
         /\ \A b \in 1 .. n : Ws!FieldBytes(j, field, n)[b] = <<j, field, b>>
<1> DEFINE q == Ws!FieldBytes(j, field, n)
<1>1. q = [b \in 1 .. n |-> <<j, field, b>>]
  BY DEF Ws!FieldBytes
<1>2. \A b \in 1 .. n : <<j, field, b>> \in Byte
  BY DEF Byte
<1> HIDE DEF q
<1>3. q \in Seq(Byte)
  BY ONLY <1>1, <1>2, n \in Nat
<1>4. Len(q) = n
  BY ONLY <1>1, n \in Nat
<1>5. \A b \in 1 .. n : q[b] = <<j, field, b>>
  BY ONLY <1>1
<1> QED
  BY <1>3, <1>4, <1>5 DEF q

(* A concatenation, place by place. *)
LEMMA Concatenated ==
  ASSUME NEW S, NEW s \in Seq(S), NEW t \in Seq(S)
  PROVE  /\ s \o t \in Seq(S)
         /\ Len(s \o t) = Len(s) + Len(t)
         /\ \A i \in 1 .. Len(s) : (s \o t)[i] = s[i]
         /\ \A i \in 1 .. Len(t) : (s \o t)[Len(s) + i] = t[i]
  OBVIOUS

(* The same with the lengths given by name. *)
Joint(x, s, t, a, c) ==
  /\ Len(x) = a + c
  /\ \A i \in 1 .. a : x[i] = s[i]
  /\ \A i \in 1 .. c : x[a + i] = t[i]

(* s and t one behind the other make such an x. *)
LEMMA Joints ==
  ASSUME NEW S, NEW s \in Seq(S), NEW t \in Seq(S), NEW a, NEW c, Len(s) = a, Len(t) = c
  PROVE  s \o t \in Seq(S) /\ Joint(s \o t, s, t, a, c)
<1>1. s \o t \in Seq(S)
  BY Concatenated
<1>2. Len(s \o t) = Len(s) + Len(t)
  BY Concatenated
<1>3. \A i \in 1 .. Len(s) : (s \o t)[i] = s[i]
  BY Concatenated
<1>4. \A i \in 1 .. Len(t) : (s \o t)[Len(s) + i] = t[i]
  BY Concatenated
<1>5. Len(s) = a /\ Len(t) = c
  OBVIOUS
<1>6. PICK x : x = s \o t
  OBVIOUS
<1>7. Joint(x, s, t, Len(s), Len(t))
  BY ONLY <1>2, <1>3, <1>4, <1>6 DEF Joint
<1> QED
  BY ONLY <1>1, <1>5, <1>6, <1>7

(* What the fields of a frame are, and what they are one behind the other. *)
Fields(h, e, k, p, j, i, m, n) ==
  /\ h \in Seq(Byte) /\ e \in Seq(Byte) /\ k \in Seq(Byte) /\ p \in Seq(Byte)
  /\ Len(h) = 2 /\ Len(e) = i /\ Len(k) = m /\ Len(p) = n
  /\ h[1] = <<j, "header", 1>> /\ \A b \in 1 .. n : p[b] = <<j, "payload", b>>
Joined(s, j, i, m, n) ==
  /\ s \in Seq(Byte) /\ Len(s) = 2 + i + m + n
  /\ s[1] = <<j, "header", 1>>
  /\ \A b \in 1 .. n : s[2 + i + m + b] = <<j, "payload", b>>

(* Header, extended length, mask and payload one behind the other.         *)
LEMMA FieldsJoin ==
  ASSUME NEW h, NEW e, NEW k, NEW p, NEW j, NEW i \in Nat, NEW m \in Nat, NEW n \in Nat,
         Fields(h, e, k, p, j, i, m, n)
  PROVE  Joined(h \o e \o k \o p, j, i, m, n)
<1>1. h \in Seq(Byte) /\ e \in Seq(Byte) /\ Len(h) = 2 /\ Len(e) = i
  BY DEF Fields
<1>2. k \in Seq(Byte) /\ p \in Seq(Byte) /\ Len(k) = m /\ Len(p) = n
  BY DEF Fields
<1>3. h[1] = <<j, "header", 1>> /\ \A b \in 1 .. n : p[b] = <<j, "payload", b>>
  BY DEF Fields
<1>4. i \in Nat /\ m \in Nat /\ n \in Nat
  OBVIOUS
<1> HIDE DEF Fields
<1>5. h \o e \in Seq(Byte) /\ Joint(h \o e, h, e, 2, i)
  BY ONLY <1>1, Joints
<1>6. PICK x : x = h \o e
  OBVIOUS
<1>7. x \in Seq(Byte) /\ Joint(x, h, e, 2, i)
  BY ONLY <1>5, <1>6
<1>8. Len(x) = 2 + i
  BY ONLY <1>7 DEF Joint
<1>9. x \o k \in Seq(Byte) /\ Joint(x \o k, x, k, 2 + i, m)
  BY ONLY <1>2, <1>7, <1>8, Joints
<1>10. PICK y : y = x \o k
  OBVIOUS
<1>11. y \in Seq(Byte) /\ Joint(y, x, k, 2 + i, m)
  BY ONLY <1>9, <1>10
<1>12. Len(y) = 2 + i + m
  BY ONLY <1>11 DEF Joint
<1>13. y \o p \in Seq(Byte) /\ Joint(y \o p, y, p, 2 + i + m, n)
  BY ONLY <1>2, <1>11, <1>12, Joints
<1>14. PICK z : z = y \o p
  OBVIOUS
<1>15. z \in Seq(Byte) /\ Joint(z, y, p, 2 + i + m, n)
  BY ONLY <1>13, <1>14
<1>16. Len(z) = 2 + i + m + n
  BY ONLY <1>15 DEF Joint
<1>17. x[1] = h[1]
  <2>1. 1 \in 1 .. 2
    OBVIOUS
  <2> QED
    BY ONLY <2>1, <1>7 DEF Joint
<1>18. y[1] = x[1]
  <2>1. 1 \in 1 .. 2 + i
    BY ONLY <1>4
  <2> QED
    BY ONLY <2>1, <1>11 DEF Joint
<1>19. z[1] = y[1]
  <2>1. 1 \in 1 .. 2 + i + m
    BY ONLY <1>4
  <2> QED
    BY ONLY <2>1, <1>15 DEF Joint
<1>20. \A b \in 1 .. n : z[2 + i + m + b] = p[b]
  BY ONLY <1>15 DEF Joint
<1>21. Joined(z, j, i, m, n)
  BY ONLY <1>3, <1>15, <1>16, <1>17, <1>18, <1>19, <1>20 DEF Joined
<1> QED
  BY ONLY <1>6, <1>10, <1>14, <1>21

(* The bytes of a frame: its header first, its payload behind header,      *)

(* extended length and mask.                                               *)
LEMMA BytesAre ==
  ASSUME NEW j \in Nat, NEW f \in Kinds
  PROVE  /\ Ws!Bytes(j, f) \in Seq(Byte)
         /\ Len(Ws!Bytes(j, f)) = 2 + f.ext + f.mask + f.len
         /\ Ws!Bytes(j, f)[1] = <<j, "header", 1>>
         /\ \A b \in 1 .. f.len :
              Ws!Bytes(j, f)[2 + f.ext + f.mask + b] = <<j, "payload", b>>
<1>1. f.ext \in Nat /\ f.mask \in Nat /\ f.len \in Nat
  BY KindNumbers
<1> DEFINE h == Ws!FieldBytes(j, "header", 2)
<1> DEFINE e == Ws!FieldBytes(j, "ext", f.ext)
<1> DEFINE k == Ws!FieldBytes(j, "mask", f.mask)
<1> DEFINE p == Ws!FieldBytes(j, "payload", f.len)
<1>2. h \in Seq(Byte) /\ Len(h) = 2
  BY FieldIs
<1>3. e \in Seq(Byte) /\ Len(e) = f.ext
  BY <1>1, FieldIs
<1>4. k \in Seq(Byte) /\ Len(k) = f.mask
  BY <1>1, FieldIs
<1>5. p \in Seq(Byte) /\ Len(p) = f.len
  BY <1>1, FieldIs
<1>6. h[1] = <<j, "header", 1>>
  BY ONLY j \in Nat DEF Ws!FieldBytes
<1>7. \A b \in 1 .. f.len : p[b] = <<j, "payload", b>>
  BY ONLY j \in Nat DEF Ws!FieldBytes
<1>8. Ws!Bytes(j, f) = h \o e \o k \o p
  BY DEF Ws!Bytes
<1> HIDE DEF h, e, k, p
<1>9. Fields(h, e, k, p, j, f.ext, f.mask, f.len)
  BY ONLY <1>2, <1>3, <1>4, <1>5, <1>6, <1>7 DEF Fields
<1>10. Joined(h \o e \o k \o p, j, f.ext, f.mask, f.len)
  BY ONLY <1>1, <1>9, FieldsJoin
<1> QED
  BY ONLY <1>8, <1>10 DEF Joined

(* What a mark says. *)
LEMMA MarkNumbers ==
  ASSUME WsTypeOK, Laid, NEW n \in 0 .. Len(frames)
  PROVE  BytesOf(n) \in Nat /\ AnswersOf(n) \in Nat
<1>1. n = 0 \/ n \in 1 .. Len(marks)
  BY DEF WsTypeOK, Laid
<1>2. CASE n = 0
  BY <1>2 DEF BytesOf, AnswersOf
<1>3. CASE n # 0
  <2>1. marks[n] \in Marks
    BY <1>1, <1>3 DEF WsTypeOK
  <2> QED
    BY <1>3, <2>1 DEF BytesOf, AnswersOf, Marks
<1> QED
  BY <1>2, <1>3

(* The numbers of the frame behind the first n. *)
LEMMA FrameNumbers ==
  ASSUME WsTypeOK, Laid, NEW n \in 0 .. Len(frames), n < Len(frames)
  PROVE  /\ n + 1 \in 1 .. Len(frames) /\ frames[n + 1] \in Kinds
         /\ BytesOf(n) \in Nat /\ BytesOf(n + 1) \in Nat
         /\ ExtAt(n) = BytesOf(n) + 2
         /\ MaskAt(n) = BytesOf(n) + 2 + frames[n + 1].ext
         /\ PayloadAt(n) = BytesOf(n) + 2 + frames[n + 1].ext + frames[n + 1].mask
         /\ BytesOf(n + 1)
              = BytesOf(n) + 2 + frames[n + 1].ext + frames[n + 1].mask + frames[n + 1].len
<1>1. Len(frames) \in Nat /\ n \in Nat /\ n + 1 \in 0 .. Len(frames)
  BY DEF WsTypeOK
<1>2. n + 1 \in 1 .. Len(frames) /\ frames[n + 1] \in Kinds
  BY <1>1 DEF WsTypeOK
<1>3. BytesOf(n) \in Nat /\ BytesOf(n + 1) \in Nat
  BY <1>1, MarkNumbers
<1>4. FrameLies(n)
  BY DEF Laid
<1> QED
  BY <1>2, <1>3, <1>4 DEF FrameLies, ExtAt, MaskAt, PayloadAt

(* What a client's frame adds to each history. *)
LEMMA SendAdds ==
  ASSUME WsTypeOK, Laid, NEW f \in Kinds, Ws!Send(f)
  PROVE  /\ frames' \in Seq(Kinds) /\ Len(frames') = Len(frames) + 1
         /\ frames'[Len(frames) + 1] = f
         /\ \A i \in 1 .. Len(frames) : frames'[i] = frames[i]
         /\ marks' \in Seq(Marks) /\ Len(marks') = Len(frames) + 1
         /\ marks'[Len(frames) + 1] = [bytes |-> Len(stream'), answers |-> Len(owed')]
         /\ \A i \in 1 .. Len(frames) : marks'[i] = marks[i]
<1>1. Len(marks) = Len(frames) /\ Len(frames) \in Nat
  BY DEF Laid, WsTypeOK
<1>2. frames \in Seq(Kinds) /\ frames' = Append(frames, f)
  BY DEF WsTypeOK, Ws!Send
<1>3. /\ frames' \in Seq(Kinds) /\ Len(frames') = Len(frames) + 1
      /\ frames'[Len(frames) + 1] = f
      /\ \A i \in 1 .. Len(frames) : frames'[i] = frames[i]
  BY ONLY <1>2, f \in Kinds
<1>4. stream' \in Seq(Byte)
  <2>1. Ws!Bytes(Len(frames) + 1, f) \in Seq(Byte)
    BY <1>1, BytesAre
  <2> QED
    BY <2>1 DEF Ws!Send, WsTypeOK
<1>5. Len(owed') \in Nat
  <2>1. owed' = owed \/ \E a : owed' = Append(owed, a)
    BY DEF Ws!Send
  <2>2. owed \in Seq({"text", "ping"} \X Seq(Byte))
    BY DEF WsTypeOK
  <2> QED
    BY ONLY <2>1, <2>2
<1> DEFINE mark == [bytes |-> Len(stream'), answers |-> Len(owed')]
<1>6. mark \in Marks
  BY <1>4, <1>5 DEF Marks
<1>7. marks \in Seq(Marks) /\ marks' = Append(marks, mark)
  BY DEF WsTypeOK, Ws!Send
<1> HIDE DEF mark
<1>8. /\ marks' \in Seq(Marks) /\ Len(marks') = Len(marks) + 1
      /\ marks'[Len(marks) + 1] = mark
      /\ \A i \in 1 .. Len(marks) : marks'[i] = marks[i]
  BY ONLY <1>6, <1>7
<1> QED
  BY <1>1, <1>3, <1>8 DEF mark

(* What the marks mean stays the same for the frames before. *)
LEMMA SendKeeps ==
  ASSUME WsTypeOK, Laid, NEW f \in Kinds, Ws!Send(f), NEW n \in 0 .. Len(frames)
  PROVE  /\ BytesOf(n)' = BytesOf(n) /\ AnswersOf(n)' = AnswersOf(n)
         /\ Ws!EndsAt(n)' <=> Ws!EndsAt(n)
<1>1. /\ \A i \in 1 .. Len(frames) : frames'[i] = frames[i]
      /\ \A i \in 1 .. Len(frames) : marks'[i] = marks[i]
  BY SendAdds
<1>2. n = 0 \/ n \in 1 .. Len(frames)
  BY DEF WsTypeOK
<1>3. \A i \in 1 .. n : i \in 1 .. Len(frames)
  BY DEF WsTypeOK
<1>4. BytesOf(n)' = BytesOf(n) /\ AnswersOf(n)' = AnswersOf(n)
  BY <1>1, <1>2 DEF BytesOf, AnswersOf
<1>5. Ws!EndsAt(n)' <=> Ws!EndsAt(n)
  BY <1>1, <1>3 DEF Ws!EndsAt
<1> QED
  BY <1>4, <1>5

(* The bytes it adds to the stream. *)
LEMMA SendStreams ==
  ASSUME WsTypeOK, Laid, NEW f \in Kinds, Ws!Send(f)
  PROVE  /\ stream' \in Seq(Byte)
         /\ Len(stream') = Len(stream) + 2 + f.ext + f.mask + f.len
         /\ \A i \in 1 .. Len(stream) : stream'[i] = stream[i]
         /\ stream'[Len(stream) + 1] = <<Len(frames) + 1, "header", 1>>
         /\ \A b \in 1 .. f.len : stream'[Len(stream) + 2 + f.ext + f.mask + b]
                                    = <<Len(frames) + 1, "payload", b>>
<1>1. Len(frames) + 1 \in Nat /\ stream \in Seq(Byte) /\ Len(stream) \in Nat
  BY DEF WsTypeOK
<1>2. f.ext \in Nat /\ f.mask \in Nat /\ f.len \in Nat
  BY KindNumbers
<1> PICK t : t = Ws!Bytes(Len(frames) + 1, f)
  OBVIOUS
<1>3. /\ t \in Seq(Byte)
      /\ Len(t) = 2 + f.ext + f.mask + f.len
      /\ t[1] = <<Len(frames) + 1, "header", 1>>
      /\ \A b \in 1 .. f.len : t[2 + f.ext + f.mask + b] = <<Len(frames) + 1, "payload", b>>
  BY <1>1, BytesAre
<1>4. stream' = stream \o t
  BY DEF Ws!Send
<1>5. /\ stream' \in Seq(Byte)
      /\ Len(stream') = Len(stream) + Len(t)
      /\ \A i \in 1 .. Len(stream) : stream'[i] = stream[i]
      /\ \A i \in 1 .. Len(t) : stream'[Len(stream) + i] = t[i]
  BY <1>1, <1>3, <1>4, Concatenated
<1>6. PICK e \in Nat, m \in Nat, l \in Nat, s \in Nat :
        e = f.ext /\ m = f.mask /\ l = f.len /\ s = Len(stream)
  BY ONLY <1>1, <1>2
<1>7. /\ 1 \in 1 .. Len(t)
      /\ \A b \in 1 .. f.len : /\ 2 + f.ext + f.mask + b \in 1 .. Len(t)
                               /\ Len(stream) + (2 + f.ext + f.mask + b)
                                    = Len(stream) + 2 + f.ext + f.mask + b
  <2>1. /\ 1 \in 1 .. 2 + e + m + l
        /\ \A b \in 1 .. l : /\ 2 + e + m + b \in 1 .. 2 + e + m + l
                            /\ s + (2 + e + m + b) = s + 2 + e + m + b
    BY ONLY e \in Nat, m \in Nat, l \in Nat, s \in Nat
  <2> QED
    BY ONLY <1>3, <1>6, <2>1
<1>8. \A b \in 1 .. f.len : stream'[Len(stream) + 2 + f.ext + f.mask + b]
                              = <<Len(frames) + 1, "payload", b>>
  BY ONLY <1>3, <1>5, <1>7
<1>9. Len(stream') = Len(stream) + 2 + f.ext + f.mask + f.len
  <2>1. Len(stream') = Len(stream) + Len(t) /\ Len(t) = 2 + f.ext + f.mask + f.len
    BY ONLY <1>3, <1>5
  <2>2. s + (2 + e + m + l) = s + 2 + e + m + l
    BY ONLY e \in Nat, m \in Nat, l \in Nat, s \in Nat
  <2> QED
    BY ONLY <1>6, <2>1, <2>2
<1> QED
  BY ONLY <1>3, <1>5, <1>7, <1>8, <1>9

(* The frames lie in the longer stream as well. *)
LEMMA SendLays ==
  ASSUME WsTypeOK, Laid, NEW f \in Kinds, Ws!Send(f)
  PROVE  Laid'
<1> PICK L \in Nat : L = Len(frames)
  BY DEF WsTypeOK
<1>1. /\ L = Len(frames) /\ L \in Nat /\ Len(stream) \in Nat /\ Len(stream) = BytesOf(L)
      /\ f.ext \in Nat /\ f.mask \in Nat /\ f.len \in Nat
  BY KindNumbers DEF WsTypeOK, Laid
<1>2. /\ Len(frames') = L + 1 /\ frames'[L + 1] = f
      /\ Len(marks') = L + 1 /\ marks'[L + 1].bytes = Len(stream')
      /\ \A i \in 1 .. L : frames'[i] = frames[i]
  BY SendAdds
<1>3. \A n \in 0 .. L : BytesOf(n)' = BytesOf(n)
  BY SendKeeps
<1>4. BytesOf(L + 1)' = Len(stream')
  BY <1>1, <1>2 DEF BytesOf
<1>5. /\ Len(stream') = Len(stream) + 2 + f.ext + f.mask + f.len
      /\ \A i \in 1 .. Len(stream) : stream'[i] = stream[i]
      /\ stream'[Len(stream) + 1] = <<L + 1, "header", 1>>
      /\ \A b \in 1 .. f.len : stream'[Len(stream) + 2 + f.ext + f.mask + b]
                                 = <<L + 1, "payload", b>>
  BY SendStreams
<1>6. \A n \in 0 .. L : BytesOf(n) \in Nat
  BY MarkNumbers
<1>7. ASSUME NEW n \in 0 .. L, n < L
      PROVE  FrameLies(n)'
  <2> DEFINE g == frames[n + 1]
  <2>1. /\ n + 1 \in 1 .. L /\ n + 1 \in 0 .. L /\ g \in Kinds
        /\ BytesOf(n) \in Nat /\ BytesOf(n + 1) \in Nat
        /\ PayloadAt(n) = BytesOf(n) + 2 + g.ext + g.mask
        /\ BytesOf(n + 1) = BytesOf(n) + 2 + g.ext + g.mask + g.len
    BY <1>1, <1>7, FrameNumbers
  <2>2. /\ frames'[n + 1] = g /\ BytesOf(n)' = BytesOf(n) /\ BytesOf(n + 1)' = BytesOf(n + 1)
        /\ PayloadAt(n)' = PayloadAt(n)
    BY <1>2, <1>3, <2>1 DEF PayloadAt, MaskAt, ExtAt
  <2>3. BytesOf(n + 1) <= Len(stream)
    BY <1>1, <2>1 DEF Laid
  <2>4. g.ext \in Nat /\ g.mask \in Nat /\ g.len \in Nat
    BY <2>1, KindNumbers
  <2>5. FrameLies(n)
    BY <1>7 DEF Laid
  <2> HIDE DEF g
  <2>6. PICK e \in Nat, m \in Nat, l \in Nat, s \in Nat, o \in Nat :
          e = g.ext /\ m = g.mask /\ l = g.len /\ s = Len(stream) /\ o = BytesOf(n)
    BY ONLY <1>1, <2>1, <2>4
  <2>7. o + 2 + e + m + l <= s
    BY ONLY <2>1, <2>3, <2>6
  <2>8. o + 1 \in 1 .. s /\ \A b \in 1 .. l : o + 2 + e + m + b \in 1 .. s
    BY <2>7
  <2>9. /\ BytesOf(n) + 1 \in 1 .. Len(stream)
        /\ \A b \in 1 .. g.len : PayloadAt(n) + b \in 1 .. Len(stream)
    BY ONLY <2>1, <2>6, <2>8
  <2> QED
    BY <1>5, <2>2, <2>5, <2>9 DEF FrameLies, g
<1>8. FrameLies(L)'
  <2>1. /\ BytesOf(L)' = Len(stream) /\ L \in 0 .. L
        /\ PayloadAt(L)' = Len(stream) + 2 + f.ext + f.mask
    BY <1>1, <1>2, <1>3 DEF PayloadAt, MaskAt, ExtAt
  <2> QED
    BY <1>1, <1>2, <1>4, <1>5, <2>1 DEF FrameLies
<1>9. ASSUME NEW n \in 0 .. L + 1, NEW k \in 0 .. L + 1, n <= k
      PROVE  BytesOf(n)' <= BytesOf(k)'
  <2>1. Len(stream) <= Len(stream') /\ Len(stream') \in Nat
    <3>1. PICK e \in Nat, m \in Nat, l \in Nat, s \in Nat :
            e = f.ext /\ m = f.mask /\ l = f.len /\ s = Len(stream)
      BY ONLY <1>1
    <3>2. s + 2 + e + m + l \in Nat /\ s <= s + 2 + e + m + l
      BY ONLY e \in Nat, m \in Nat, l \in Nat, s \in Nat
    <3> QED
      BY ONLY <1>5, <3>1, <3>2
  <2>2. CASE k \in 0 .. L
    <3>1. n \in 0 .. L
      BY ONLY <1>1, <1>9, <2>2
    <3> QED
      BY <1>3, <1>9, <2>2, <3>1 DEF Laid
  <2>3. CASE k = L + 1 /\ n = L + 1
    BY <1>4, <2>1, <2>3
  <2>4. CASE k = L + 1 /\ n \in 0 .. L
    <3>1. BytesOf(n) <= BytesOf(L) /\ L \in 0 .. L
      BY <1>1, <2>4 DEF Laid
    <3>2. BytesOf(n)' = BytesOf(n) /\ BytesOf(n) \in Nat
      BY <1>3, <1>6, <2>4
    <3> QED
      BY ONLY <1>1, <1>4, <2>1, <2>4, <3>1, <3>2
  <2>5. (k \in 0 .. L) \/ (k = L + 1 /\ n = L + 1) \/ (k = L + 1 /\ n \in 0 .. L)
    BY ONLY <1>1, <1>9
  <2> QED
    BY <2>2, <2>3, <2>4, <2>5
<1>10. \A n \in 0 .. L + 1 : n < L + 1 => (n \in 0 .. L /\ n < L) \/ n = L
  BY ONLY <1>1
<1>11. \A n \in 0 .. L + 1 : n < L + 1 => FrameLies(n)'
  BY <1>7, <1>8, <1>10
<1>12. /\ Len(frames)' = L + 1 /\ Len(marks)' = Len(frames)'
       /\ Len(stream)' = BytesOf(Len(frames))'
  BY <1>2, <1>4 DEF BytesOf
<1> QED
  BY <1>9, <1>11, <1>12 DEF Laid

(* The server owes what the frame asks for. *)
LEMMA SendOwes ==
  ASSUME WsTypeOK, Laid, Owes, NEW f \in Kinds, Ws!Send(f)
  PROVE  /\ Owes'
         /\ owed' \in Seq({"text", "ping"} \X Seq(Byte))
         /\ Len(owed) <= Len(owed')
         /\ \A i \in 1 .. Len(owed) : owed'[i] = owed[i]
<1> PICK L \in Nat : L = Len(frames)
  BY DEF WsTypeOK
<1> DEFINE S == {"text", "ping"} \X Seq(Byte)
<1> DEFINE a == <<f.op, Ws!FieldBytes(L + 1, "payload", f.len)>>
<1> DEFINE asks == f.op \in {"text", "ping"} /\ ~Ws!EndsAt(L)
<1>1. L = Len(frames) /\ L \in Nat /\ owed \in Seq(S) /\ Len(owed) \in Nat /\ Len(owed) = AnswersOf(L)
  BY DEF WsTypeOK, Owes
<1>2. asks => a \in S
  <2>1. L + 1 \in Nat /\ f.len \in Nat
    BY <1>1, KindNumbers
  <2> QED
    BY <2>1, FieldIs
<1>3. owed' = IF asks THEN Append(owed, a) ELSE owed
  <2>1. (L + 1) - 1 = L
    BY <1>1
  <2> QED
    BY <2>1 DEF Ws!Send
<1> HIDE DEF S, a, asks
<1>4. /\ owed' \in Seq(S) /\ Len(owed) <= Len(owed')
      /\ Len(owed') = IF asks THEN Len(owed) + 1 ELSE Len(owed)
      /\ \A i \in 1 .. Len(owed) : owed'[i] = owed[i]
      /\ asks => owed'[Len(owed) + 1] = a
  BY ONLY <1>1, <1>2, <1>3
<1>5. /\ Len(frames') = L + 1 /\ frames'[L + 1] = f
      /\ Len(marks') = L + 1 /\ marks'[L + 1].answers = Len(owed')
      /\ \A i \in 1 .. L : frames'[i] = frames[i]
  BY SendAdds
<1>6. \A n \in 0 .. L : AnswersOf(n)' = AnswersOf(n) /\ (Ws!EndsAt(n)' <=> Ws!EndsAt(n))
  BY SendKeeps
<1>7. AnswersOf(L + 1)' = Len(owed')
  BY <1>1, <1>5 DEF AnswersOf
<1>8. \A n \in 0 .. L : AnswersOf(n) \in Nat
  BY MarkNumbers
<1>9. ASSUME NEW n \in 0 .. L, n < L
      PROVE  AnswerTo(n)'
  <2>1. n + 1 \in 1 .. L /\ n + 1 \in 0 .. L
    BY ONLY <1>1, <1>9
  <2>2. frames'[n + 1] = frames[n + 1] /\ (Asks(n)' <=> Asks(n))
    BY <1>5, <1>6, <2>1 DEF Asks
  <2>3. AnswersOf(n)' = AnswersOf(n) /\ AnswersOf(n + 1)' = AnswersOf(n + 1)
    BY <1>6, <2>1
  <2>4. AnswerTo(n) /\ AnswersOf(n + 1) <= Len(owed)
    BY <1>1, <1>9, <2>1 DEF Owes
  <2>5. Asks(n) => AnswersOf(n) + 1 \in 1 .. Len(owed)
    <3>1. AnswersOf(n) \in Nat /\ (Asks(n) => AnswersOf(n + 1) = AnswersOf(n) + 1)
      BY <1>8, <2>4 DEF AnswerTo
    <3> QED
      BY ONLY <1>1, <2>4, <3>1
  <2>6. Asks(n) => owed'[AnswersOf(n) + 1] = owed[AnswersOf(n) + 1]
    BY ONLY <1>4, <2>5
  <2> QED
    BY <2>2, <2>3, <2>4, <2>6 DEF AnswerTo, Ws!FieldBytes
<1>10. AnswerTo(L)'
  <2>1. L \in 0 .. L
    BY <1>1
  <2>2. (Asks(L)' <=> asks) /\ AnswersOf(L)' = Len(owed)
    BY <1>1, <1>5, <1>6, <2>1 DEF Asks, asks
  <2>3. a = <<f.op, Ws!FieldBytes(L + 1, "payload", f.len)>>
    BY DEF a
  <2> QED
    BY <1>4, <1>5, <1>7, <2>2, <2>3 DEF AnswerTo, Ws!FieldBytes
<1>11. ASSUME NEW n \in 0 .. L + 1, NEW k \in 0 .. L + 1, n <= k
       PROVE  AnswersOf(n)' <= AnswersOf(k)'
  <2>1. Len(owed) <= Len(owed') /\ Len(owed') \in Nat
    BY ONLY <1>1, <1>4
  <2>2. CASE k \in 0 .. L
    <3>1. n \in 0 .. L
      BY ONLY <1>1, <1>11, <2>2
    <3> QED
      BY <1>6, <1>11, <2>2, <3>1 DEF Owes
  <2>3. CASE k = L + 1 /\ n = L + 1
    BY <1>7, <2>1, <2>3
  <2>4. CASE k = L + 1 /\ n \in 0 .. L
    <3>1. AnswersOf(n) <= AnswersOf(L) /\ L \in 0 .. L
      BY <1>1, <2>4 DEF Owes
    <3>2. AnswersOf(n)' = AnswersOf(n) /\ AnswersOf(n) \in Nat
      BY <1>6, <1>8, <2>4
    <3> QED
      BY ONLY <1>1, <1>7, <2>1, <2>4, <3>1, <3>2
  <2>5. (k \in 0 .. L) \/ (k = L + 1 /\ n = L + 1) \/ (k = L + 1 /\ n \in 0 .. L)
    BY ONLY <1>1, <1>11
  <2> QED
    BY <2>2, <2>3, <2>4, <2>5
<1>12. \A n \in 0 .. L + 1 : n < L + 1 => (n \in 0 .. L /\ n < L) \/ n = L
  BY ONLY <1>1
<1>13. \A n \in 0 .. L + 1 : n < L + 1 => AnswerTo(n)'
  BY <1>9, <1>10, <1>12
<1>14. Len(frames)' = L + 1 /\ Len(owed)' = AnswersOf(Len(frames))'
  BY <1>5, <1>7 DEF AnswersOf
<1> QED
  BY <1>4, <1>11, <1>13, <1>14 DEF Owes, S

(* The server is where it was: what has arrived, and what it has sent.     *)
LEMMA SendLeaves ==
  ASSUME WsTypeOK, Laid, Owes, Buffered, Told, NEW f \in Kinds, Ws!Send(f)
  PROVE  WsTypeOK' /\ Buffered' /\ Told'
<1>1. /\ arrived' = arrived /\ buf' = buf /\ pos' = pos /\ state' = state
      /\ frame' = frame /\ payload' = payload /\ pc' = pc /\ replies' = replies
  BY DEF Ws!Send
<1>2. WsTypeOK'
  BY <1>1, SendAdds, SendStreams, SendOwes DEF WsTypeOK
<1>3. Buffered'
  <2>1. /\ arrived \in Nat /\ Len(buf) \in Nat /\ Len(stream) \in Nat
        /\ Len(buf) <= arrived /\ arrived <= Len(stream)
    BY DEF WsTypeOK, Buffered
  <2>2. Len(stream) <= Len(stream') /\ Len(stream') \in Nat
    <3>1. f.ext \in Nat /\ f.mask \in Nat /\ f.len \in Nat
      BY KindNumbers
    <3>2. Len(stream') = Len(stream) + 2 + f.ext + f.mask + f.len
      BY SendStreams
    <3> QED
      BY ONLY <2>1, <3>1, <3>2
  <2>3. \A b \in 1 .. Len(buf) : arrived - Len(buf) + b \in 1 .. Len(stream)
    BY ONLY <2>1
  <2>4. \A b \in 1 .. Len(buf) : buf[b] = stream'[arrived - Len(buf) + b]
    BY <2>3, SendStreams DEF Buffered
  <2>5. arrived <= Len(stream')
    BY ONLY <2>1, <2>2
  <2> QED
    BY <1>1, <2>1, <2>4, <2>5 DEF Buffered
<1>4. Told'
  <2>1. Len(replies) \in Nat /\ Len(owed) \in Nat /\ Len(owed') \in Nat
    BY SendOwes DEF WsTypeOK
  <2>2. Len(replies) <= Len(owed) /\ Len(owed) <= Len(owed')
    BY SendOwes DEF Told
  <2>3. \A i \in 1 .. Len(replies) : i \in 1 .. Len(owed)
    BY ONLY <2>1, <2>2
  <2>4. Len(replies) <= Len(owed')
    BY ONLY <2>1, <2>2
  <2> QED
    BY <1>1, <2>3, <2>4, SendOwes DEF Told
<1> QED
  BY <1>2, <1>3, <1>4

(* And so is the parser in its frame. *)
LEMMA SendParses ==
  ASSUME WsTypeOK, Laid, Owes, Buffered, NEW f \in Kinds, Ws!Send(f),
         NEW n \in 0 .. Len(frames), Parsed(n)
  PROVE  n \in 0 .. Len(frames') /\ Parsed(n)'
<1>1. /\ arrived' = arrived /\ buf' = buf /\ pos' = pos /\ state' = state
      /\ frame' = frame /\ payload' = payload /\ pc' = pc /\ replies' = replies
  BY DEF Ws!Send
<1> PICK L \in Nat : L = Len(frames)
  BY DEF WsTypeOK
<1>2. /\ L = Len(frames) /\ L \in Nat /\ n \in 0 .. L /\ Len(frames') = L + 1
      /\ \A i \in 1 .. L : frames'[i] = frames[i]
  BY SendAdds
<1>3. n \in 0 .. Len(frames') /\ n < Len(frames')
  BY ONLY <1>2
<1>4. /\ \A k \in 0 .. L : BytesOf(k)' = BytesOf(k)
      /\ AnswersOf(n)' = AnswersOf(n)
      /\ Ws!EndsAt(n)' <=> Ws!EndsAt(n)
  BY SendKeeps
<1>5. Consumed' = Consumed
  BY <1>1 DEF Consumed
<1>6. In(n)'
  <2>1. BytesOf(n)' = BytesOf(n)
    BY <1>2, <1>4
  <2>2. CASE state = "header"
    BY <1>1, <1>5, <2>1, <2>2 DEF Parsed, In
  <2>3. CASE state # "header"
    <3>1. n < L
      BY <2>3 DEF Parsed, In
    <3>2. n + 1 \in 1 .. L
      BY ONLY <1>2, <3>1
    <3>3. frames'[n + 1] = frames[n + 1]
      BY ONLY <1>2, <3>2
    <3> QED
      BY <1>1, <1>3, <1>5, <2>1, <2>3, <3>3 DEF Parsed, In, ExtAt, MaskAt, PayloadAt
  <2> QED
    BY <2>2, <2>3
<1>7. pc' = "recv" /\ n < Len(frames') => arrived' < BytesOf(n + 1)'
  <2> SUFFICES ASSUME pc = "recv" PROVE arrived' < BytesOf(n + 1)'
    BY <1>1
  <2>1. CASE n < L
    <3>1. n + 1 \in 0 .. L
      BY ONLY <1>2, <2>1
    <3> QED
      BY <1>1, <1>4, <2>1, <3>1 DEF Parsed
  <2>2. CASE n = L
    <3>1. arrived \in Nat /\ arrived <= BytesOf(n) /\ BytesOf(n)' = BytesOf(n)
      BY <1>2, <1>4, <2>2 DEF Buffered, Laid, WsTypeOK
    <3>2. FrameLies(n)' /\ WsTypeOK' /\ Laid'
      <4>1. Laid' /\ Len(frames)' = Len(frames')
        BY SendLays
      <4>2. WsTypeOK'
        BY <1>1, SendAdds, SendStreams, SendOwes DEF WsTypeOK
      <4> QED
        BY <1>3, <4>1, <4>2 DEF Laid
    <3>3. /\ BytesOf(n)' \in Nat /\ BytesOf(n + 1)' \in Nat
      <4>1. BytesOf(n + 1)' = Len(stream')
        BY <1>2, <2>2, <3>2 DEF Laid, BytesOf
      <4>2. BytesOf(n) \in Nat
        BY MarkNumbers
      <4> QED
        BY <3>1, <3>2, <4>1, <4>2 DEF WsTypeOK
    <3>4. BytesOf(n + 1)' = BytesOf(n)' + 2 + f.ext + f.mask + f.len
      <4>1. frames'[n + 1] = f
        BY <1>2, <2>2, SendAdds
      <4> QED
        BY <3>2, <4>1 DEF FrameLies, PayloadAt, MaskAt, ExtAt
    <3>5. f.ext \in Nat /\ f.mask \in Nat /\ f.len \in Nat
      BY KindNumbers
    <3>6. arrived < BytesOf(n + 1)'
      <4>1. PICK e \in Nat, m \in Nat, l \in Nat, o \in Nat, c \in Nat :
              /\ e = f.ext /\ m = f.mask /\ l = f.len /\ o = BytesOf(n)' /\ c = arrived
        BY ONLY <3>1, <3>3, <3>5
      <4>2. c <= o => c < o + 2 + e + m + l
        BY ONLY e \in Nat, m \in Nat, l \in Nat, o \in Nat, c \in Nat
      <4> QED
        BY ONLY <3>1, <3>4, <4>1, <4>2
    <3> QED
      BY <1>1, <3>6
  <2>3. n < L \/ n = L
    BY ONLY <1>2
  <2> QED
    BY <2>1, <2>2, <2>3
<1>8. pc' = "parse" => Fresh'
  <2> SUFFICES ASSUME pc = "parse" PROVE Fresh'
    BY <1>1
  <2>1. ASSUME NEW m \in 0 .. L, arrived = BytesOf(m)
        PROVE  m \in 0 .. Len(frames') /\ arrived = BytesOf(m)'
    <3>1. m \in 0 .. L + 1
      BY ONLY <1>2, m \in 0 .. L
    <3> QED
      BY <1>2, <1>4, <2>1, <3>1
  <2>2. Fresh
    BY DEF Parsed
  <2> QED
    BY <1>1, <1>2, <2>1, <2>2 DEF Fresh
<1> QED
  BY <1>1, <1>3, <1>4, <1>6, <1>7, <1>8 DEF Parsed

(* So a frame of the client keeps the invariant. *)
LEMMA SendInv ==
  ASSUME WsInv, NEW f \in Kinds, Ws!Send(f)
  PROVE  WsInv'
<1>1. WsTypeOK /\ Laid /\ Owes /\ Buffered /\ Told
  BY DEF WsInv
<1>2. WsTypeOK' /\ Laid' /\ Owes' /\ Buffered' /\ Told'
  BY <1>1, SendLays, SendOwes, SendLeaves
<1>3. ASSUME pc' # "closed" PROVE (\E n \in 0 .. Len(frames) : Parsed(n))'
  <2>1. pc # "closed"
    BY <1>3 DEF Ws!Send
  <2>2. PICK n \in 0 .. Len(frames) : Parsed(n)
    BY <2>1 DEF WsInv
  <2>3. n \in 0 .. Len(frames') /\ Parsed(n)'
    BY <1>1, <2>2, SendParses
  <2> QED
    BY <2>3
<1> QED
  BY <1>2, <1>3 DEF WsInv
----------------------------------------------------------------------------

(* While the server works, the client's histories are what they were. *)
LEMMA MarksKept ==
  ASSUME UNCHANGED Ws!clientVars, NEW n
  PROVE  /\ BytesOf(n)' = BytesOf(n) /\ AnswersOf(n)' = AnswersOf(n)
         /\ ExtAt(n)' = ExtAt(n) /\ MaskAt(n)' = MaskAt(n) /\ PayloadAt(n)' = PayloadAt(n)
         /\ Ws!EndsAt(n)' <=> Ws!EndsAt(n)
  BY DEF Ws!clientVars, BytesOf, AnswersOf, ExtAt, MaskAt, PayloadAt, Ws!EndsAt

(* So are the facts about them. *)
LEMMA ClientKept ==
  ASSUME Laid, Owes, UNCHANGED Ws!clientVars
  PROVE  Laid' /\ Owes'
<1>1. frames' = frames /\ stream' = stream /\ owed' = owed /\ marks' = marks
  BY DEF Ws!clientVars
<1>2. \A n : BytesOf(n)' = BytesOf(n) /\ AnswersOf(n)' = AnswersOf(n)
  BY MarksKept
<1>3. ASSUME NEW n PROVE (FrameLies(n)' <=> FrameLies(n)) /\ (AnswerTo(n)' <=> AnswerTo(n))
  <2>1. FrameLies(n)' <=> FrameLies(n)
    BY <1>1, <1>2, MarksKept DEF FrameLies
  <2>2. Asks(n)' <=> Asks(n)
    BY <1>1, MarksKept DEF Asks
  <2>3. AnswerTo(n)' <=> AnswerTo(n)
    BY <1>1, <1>2, <2>2 DEF AnswerTo, Ws!FieldBytes
  <2> QED
    BY <2>1, <2>3
<1>4. Laid'
  BY <1>1, <1>2, <1>3 DEF Laid
<1>5. Owes'
  BY <1>1, <1>2, <1>3 DEF Owes
<1> QED
  BY <1>4, <1>5

(* A part of a sequence, place by place. *)
LEMMA PartIs ==
  ASSUME NEW S, NEW s \in Seq(S), NEW i \in Nat, NEW n \in Nat, i + n <= Len(s)
  PROVE  /\ SubSeq(s, i + 1, i + n) \in Seq(S)
         /\ Len(SubSeq(s, i + 1, i + n)) = n
         /\ \A b \in 1 .. n : SubSeq(s, i + 1, i + n)[b] = s[i + b]
<1>1. \A b \in i + 1 .. i + n : b \in 1 .. Len(s)
  OBVIOUS
<1>2. SubSeq(s, i + 1, i + n) \in Seq(S)
  BY <1>1
<1>3. Len(SubSeq(s, i + 1, i + n)) = n
  OBVIOUS
<1>4. \A b \in 1 .. n : SubSeq(s, i + 1, i + n)[b] = s[i + b]
  OBVIOUS
<1> QED
  BY <1>2, <1>3, <1>4

(* A receive brings the next bytes of the stream. *)
LEMMA RecvInv ==
  ASSUME WsInv, NEW r \in 1 .. Len(stream), Ws!Recv(r)
  PROVE  WsInv'
<1>1. /\ WsTypeOK /\ Laid /\ Owes /\ Buffered /\ Told
      /\ UNCHANGED Ws!clientVars
      /\ pc = "recv" /\ pc' = "parse" /\ pos' = 0
      /\ arrived' = arrived + r /\ arrived + r <= Len(stream)
      /\ r >= MinRecv \/ arrived + r = Len(stream)
      /\ buf' = buf \o SubSeq(stream, arrived + 1, arrived + r)
      /\ state' = state /\ frame' = frame /\ payload' = payload /\ replies' = replies
  BY DEF WsInv, Ws!Recv
<1>2. /\ r \in Nat /\ r > 0 /\ arrived \in Nat /\ Len(buf) \in Nat /\ Len(stream) \in Nat
      /\ buf \in Seq(Byte) /\ stream \in Seq(Byte) /\ Len(buf) <= arrived
  <2>1. /\ arrived \in Nat /\ buf \in Seq(Byte) /\ stream \in Seq(Byte)
        /\ Len(buf) <= arrived
    BY <1>1 DEF WsTypeOK, Buffered
  <2>2. Len(buf) \in Nat /\ Len(stream) \in Nat
    BY ONLY <2>1
  <2>3. r \in Nat /\ r > 0
    BY ONLY <2>2, r \in 1 .. Len(stream)
  <2> QED
    BY ONLY <2>1, <2>2, <2>3
<1> PICK t : t = SubSeq(stream, arrived + 1, arrived + r)
  OBVIOUS
<1>3. /\ t \in Seq(Byte) /\ Len(t) = r
      /\ \A b \in 1 .. r : t[b] = stream[arrived + b]
  <2>1. arrived + r <= Len(stream)
    BY <1>1
  <2> QED
    BY ONLY <1>2, <2>1, PartIs, t = SubSeq(stream, arrived + 1, arrived + r)
<1>4. /\ buf' \in Seq(Byte) /\ Len(buf') = Len(buf) + r
      /\ \A b \in 1 .. Len(buf) : buf'[b] = buf[b]
      /\ \A b \in 1 .. r : buf'[Len(buf) + b] = stream[arrived + b]
  BY <1>1, <1>2, <1>3, Concatenated
<1>5. WsTypeOK'
  BY <1>1, <1>2, <1>4 DEF WsTypeOK, Ws!clientVars
<1>6. Laid' /\ Owes' /\ Told'
  BY <1>1, ClientKept DEF Told, Ws!clientVars
<1>7. Buffered'
  <2>1. /\ Len(buf') <= arrived' /\ arrived' <= Len(stream) /\ 0 <= Len(buf')
        /\ arrived' - Len(buf') = arrived - Len(buf)
    <3>1. /\ arrived' = arrived + r /\ arrived + r <= Len(stream)
          /\ Len(buf') = Len(buf) + r
      BY <1>1, <1>4
    <3>2. PICK x \in Nat, y \in Nat : x = arrived /\ y = Len(buf)
      BY <1>2
    <3> QED
      BY ONLY <1>2, <3>1, <3>2, x \in Nat, y \in Nat
  <2>2. ASSUME NEW b \in 1 .. Len(buf') PROVE buf'[b] = stream[arrived - Len(buf) + b]
    <3>1. CASE b \in 1 .. Len(buf)
      BY <1>1, <1>4, <3>1 DEF Buffered
    <3>2. CASE b \notin 1 .. Len(buf)
      <4>1. PICK i \in 1 .. r : b = Len(buf) + i
        <5>1. b - Len(buf) \in 1 .. r /\ b = Len(buf) + (b - Len(buf))
          BY <1>2, <1>4, <3>2
        <5> QED
          BY <5>1
      <4>2. arrived - Len(buf) + b = arrived + i
        BY <1>2, <4>1
      <4> QED
        BY <1>4, <4>1, <4>2
    <3> QED
      BY <3>1, <3>2
  <2>3. stream' = stream
    BY <1>1 DEF Ws!clientVars
  <2> QED
    BY <1>1, <2>1, <2>2, <2>3 DEF Buffered
<1>8. PICK n \in 0 .. Len(frames) : Parsed(n)
  BY <1>1 DEF WsInv
<1>9. Consumed' = Consumed
  <2>1. (arrived + r) - (Len(buf) + r) + 0 = arrived - Len(buf)
    BY ONLY <1>2
  <2> QED
    BY <1>1, <1>4, <2>1 DEF Consumed
<1>10. /\ BytesOf(n)' = BytesOf(n) /\ AnswersOf(n)' = AnswersOf(n)
       /\ ExtAt(n)' = ExtAt(n) /\ MaskAt(n)' = MaskAt(n) /\ PayloadAt(n)' = PayloadAt(n)
       /\ Ws!EndsAt(n)' <=> Ws!EndsAt(n)
  BY <1>1, MarksKept
<1>11. frames' = frames
  BY <1>1 DEF Ws!clientVars
<1>12. In(n)'
  BY <1>1, <1>8, <1>9, <1>10, <1>11 DEF Parsed, In
<1>13. Fresh'
  <2>1. Len(buf') > 0
    BY ONLY <1>2, <1>4
  <2>2. CASE r >= MinRecv
    <3>1. MinRecv \in Nat /\ MinRecv >= 8
      BY WsAssumption
    <3>2. Len(buf') >= 8
      BY ONLY <1>2, <1>4, <2>2, <3>1
    <3> QED
      BY <2>1, <3>2 DEF Fresh
  <2>3. CASE arrived + r = Len(stream)
    <3>1. Len(frames) \in 0 .. Len(frames) /\ Len(stream) = BytesOf(Len(frames))
      BY <1>1 DEF Laid, WsTypeOK
    <3>2. PICK m \in 0 .. Len(frames) : arrived' = BytesOf(m)
      BY <1>1, <2>3, <3>1
    <3>3. arrived' = BytesOf(m)'
      BY <1>1, <3>2, MarksKept
    <3> QED
      BY <1>11, <2>1, <3>2, <3>3 DEF Fresh
  <2> QED
    BY <1>1, <2>2, <2>3
<1>14. Parsed(n)'
  BY <1>1, <1>8, <1>10, <1>12, <1>13 DEF Parsed
<1> QED
  BY <1>5, <1>6, <1>7, <1>8, <1>11, <1>14 DEF WsInv

(* The parser goes on by d bytes of the buffer. *)
LEMMA Advances ==
  ASSUME WsTypeOK, Laid, Owes, Buffered, UNCHANGED Ws!clientVars, UNCHANGED <<arrived, buf>>,
         pc = "parse", NEW d \in Nat, d <= Len(buf) - pos, pos' = pos + d
  PROVE  /\ pos' \in Nat /\ Laid' /\ Owes' /\ Buffered'
         /\ arrived' - Len(buf') + pos' = Consumed + d
<1>1. /\ pos \in Nat /\ Len(buf) \in Nat /\ arrived \in Nat
  BY DEF WsTypeOK
<1>2. pos' \in Nat /\ pos' <= Len(buf)
  BY <1>1
<1>3. arrived - Len(buf) + (pos + d) = arrived - Len(buf) + pos + d
  BY <1>1
<1>4. Buffered'
  BY <1>2 DEF Buffered, Ws!clientVars
<1> QED
  BY <1>2, <1>3, <1>4, ClientKept DEF Consumed

(* What the parser reads is what was sent. *)
LEMMA Reads ==
  ASSUME WsTypeOK, Laid, Buffered, pc = "parse", NEW i \in Nat, i > 0, i <= Len(buf) - pos
  PROVE  /\ buf[pos + i] = stream[Consumed + i]
         /\ Consumed \in Nat /\ Consumed + i <= Len(stream)
<1>1. /\ pos \in Nat /\ Len(buf) \in Nat /\ arrived \in Nat /\ Len(stream) \in Nat
      /\ Len(buf) <= arrived /\ arrived <= Len(stream) /\ pos <= Len(buf)
  BY DEF WsTypeOK, Buffered
<1>2. pos + i \in 1 .. Len(buf)
  BY <1>1
<1>3. arrived - Len(buf) + (pos + i) = arrived - Len(buf) + pos + i
  BY <1>1
<1>4. /\ Consumed = arrived - Len(buf) + pos
  BY DEF Consumed
<1>5. Consumed \in Nat /\ Consumed + i <= Len(stream)
  BY <1>1, <1>4
<1>6. buf[pos + i] = stream[arrived - Len(buf) + (pos + i)]
  BY <1>2 DEF Buffered
<1> QED
  BY <1>3, <1>4, <1>5, <1>6

(* The header read is that of the frame the parser is in. *)
LEMMA FrameHeaderInv ==
  ASSUME WsInv, Ws!FrameHeader
  PROVE  WsInv'
<1>1. /\ WsTypeOK /\ Laid /\ Owes /\ Buffered /\ Told
      /\ UNCHANGED Ws!clientVars /\ UNCHANGED <<arrived, buf>>
      /\ pc = "parse" /\ pc' = pc /\ pos' = pos + 2 /\ state = "header"
      /\ payload' = payload /\ replies' = replies
      /\ state' = IF frame'.ext = 0 THEN "mask" ELSE "ext"
      /\ frame' \in Ws!HeaderRead
  BY DEF WsInv, Ws!FrameHeader, Ws!Parsing, Ws!Iterates
<1>2. 2 <= Len(buf) - pos /\ pos \in Nat /\ Len(buf) \in Nat
  BY DEF Ws!FrameHeader, Ws!Parsing, Ws!Iterates, Ws!Need, Ws!Left, WsInv, WsTypeOK
<1>3. PICK n \in 0 .. Len(frames) : Parsed(n)
  BY <1>1 DEF WsInv
<1>4. Consumed = BytesOf(n) /\ BytesOf(n) \in Nat /\ payload = <<>>
  BY <1>1, <1>3, MarkNumbers DEF Parsed, In
<1>5. buf[pos + 1] = stream[BytesOf(n) + 1] /\ BytesOf(n) + 1 <= Len(stream)
  <2>1. 1 \in Nat /\ 1 > 0 /\ 1 <= Len(buf) - pos
    BY ONLY <1>2
  <2> QED
    BY <1>1, <1>4, <2>1, Reads
<1>6. n < Len(frames)
  <2>1. n \in Nat /\ Len(frames) \in Nat /\ n <= Len(frames)
    BY <1>1 DEF WsTypeOK
  <2>2. n # Len(frames)
    BY <1>1, <1>4, <1>5 DEF Laid
  <2> QED
    BY ONLY <2>1, <2>2
<1>7. /\ n + 1 \in 1 .. Len(frames) /\ frames[n + 1] \in Kinds
      /\ ExtAt(n) = BytesOf(n) + 2
      /\ MaskAt(n) = BytesOf(n) + 2 + frames[n + 1].ext
  BY <1>1, <1>6, FrameNumbers
<1>8. frame' = frames[n + 1]
  <2>1. buf[pos + 1] = <<n + 1, "header", 1>>
    BY <1>1, <1>5, <1>6 DEF Laid, FrameLies
  <2> QED
    BY <1>1, <2>1 DEF Ws!HeaderRead
<1>9. /\ pos' \in Nat /\ Laid' /\ Owes' /\ Buffered'
      /\ arrived' - Len(buf') + pos' = Consumed + 2
  BY <1>1, <1>2, Advances
<1>10. WsTypeOK'
  BY <1>1, <1>7, <1>8, <1>9 DEF WsTypeOK, Ws!clientVars
<1>11. Told'
  BY <1>1 DEF Told, Ws!clientVars
<1>12. /\ Ws!EndsAt(n)' <=> Ws!EndsAt(n)
       /\ AnswersOf(n)' = AnswersOf(n) /\ BytesOf(n)' = BytesOf(n)
       /\ ExtAt(n)' = ExtAt(n) /\ MaskAt(n)' = MaskAt(n) /\ frames' = frames
  BY <1>1, MarksKept DEF Ws!clientVars
<1>13. Consumed' = ExtAt(n) /\ (frames[n + 1].ext = 0 => Consumed' = MaskAt(n))
  <2>1. Consumed' = BytesOf(n) + 2
    BY <1>1, <1>4, <1>9 DEF Consumed
  <2> QED
    BY <1>4, <1>7, <2>1
<1>14. frames[n + 1].ext # 0 => frames[n + 1].ext > 0
  BY <1>7, KindNumbers
<1>15. In(n)'
  BY <1>1, <1>6, <1>8, <1>12, <1>13, <1>14 DEF In
<1>16. pos' # 0
  BY ONLY <1>1, <1>2
<1>17. Parsed(n)'
  BY <1>1, <1>3, <1>12, <1>15, <1>16 DEF Parsed, Fresh
<1> QED
  BY <1>3, <1>9, <1>10, <1>11, <1>12, <1>17 DEF WsInv

(* Behind the extended length comes the mask. *)
LEMMA ExtLenInv ==
  ASSUME WsInv, Ws!ExtLen
  PROVE  WsInv'
<1>1. /\ WsTypeOK /\ Laid /\ Owes /\ Buffered /\ Told
      /\ UNCHANGED Ws!clientVars /\ UNCHANGED <<arrived, buf>>
      /\ pc = "parse" /\ pc' = pc /\ pos' = pos + frame.ext
      /\ state = "ext" /\ state' = "mask"
      /\ frame' = frame /\ payload' = payload /\ replies' = replies
      /\ frame.ext <= Len(buf) - pos
  <2>1. Ws!Need = frame.ext
    BY DEF Ws!ExtLen, Ws!Parsing, Ws!Need
  <2>2. frame.ext <= Len(buf) - pos
    <3>1. PICK n \in 0 .. Len(frames) : Parsed(n)
      BY DEF WsInv, Ws!ExtLen, Ws!Parsing, Ws!Iterates
    <3>2. frame \in Kinds
      <4>1. n < Len(frames) /\ frame = frames[n + 1]
        BY <3>1 DEF Parsed, In, Ws!ExtLen, Ws!Parsing
      <4> QED
        BY <4>1, FrameNumbers DEF WsInv
    <3>3. frame.ext \in Nat
      BY <3>2, KindNumbers
    <3>4. pos \in Nat /\ Len(buf) \in Nat
      BY DEF WsInv, WsTypeOK
    <3> QED
      BY <2>1, <3>3, <3>4 DEF Ws!ExtLen, Ws!Parsing, Ws!Iterates, Ws!Left
  <2> QED
    BY <2>2 DEF WsInv, Ws!ExtLen, Ws!Parsing, Ws!Iterates
<1>2. PICK n \in 0 .. Len(frames) : Parsed(n)
  BY <1>1 DEF WsInv
<1>3. /\ n < Len(frames) /\ frame = frames[n + 1]
      /\ frame.ext > 0 /\ Consumed = ExtAt(n)
  BY <1>1, <1>2 DEF Parsed, In
<1>4. /\ frames[n + 1] \in Kinds /\ BytesOf(n) \in Nat
      /\ ExtAt(n) = BytesOf(n) + 2
      /\ MaskAt(n) = BytesOf(n) + 2 + frames[n + 1].ext
  BY <1>1, <1>3, FrameNumbers
<1>5. frame.ext \in Nat /\ pos \in Nat
  BY <1>1, <1>3, <1>4, KindNumbers DEF WsTypeOK
<1>6. /\ pos' \in Nat /\ Laid' /\ Owes' /\ Buffered'
      /\ arrived' - Len(buf') + pos' = Consumed + frame.ext
  BY <1>1, <1>5, Advances
<1>7. WsTypeOK' /\ Told'
  BY <1>1, <1>6 DEF WsTypeOK, Told, Ws!clientVars
<1>8. /\ Ws!EndsAt(n)' <=> Ws!EndsAt(n)
      /\ AnswersOf(n)' = AnswersOf(n) /\ MaskAt(n)' = MaskAt(n) /\ frames' = frames
  BY <1>1, MarksKept DEF Ws!clientVars
<1>9. Consumed' = MaskAt(n)
  BY <1>1, <1>3, <1>4, <1>6 DEF Consumed
<1>10. pos' # 0
  BY ONLY <1>1, <1>3, <1>5
<1>11. Parsed(n)'
  BY <1>1, <1>2, <1>3, <1>8, <1>9, <1>10 DEF Parsed, In, Fresh
<1> QED
  BY <1>2, <1>6, <1>7, <1>8, <1>11 DEF WsInv

(* A frame that is complete is answered, and the next one begins. *)
LEMMA Completes ==
  ASSUME WsTypeOK, Laid, Owes, Told, UNCHANGED Ws!clientVars, UNCHANGED <<arrived, buf, frame>>,
         pc = "parse", NEW n \in 0 .. Len(frames), n < Len(frames),
         ~Ws!EndsAt(n), Len(replies) = AnswersOf(n),
         frame = frames[n + 1], frame.op # "huge",
         Ws!Complete(Ws!FieldBytes(n + 1, "payload", frame.len)),
         pos' # 0, arrived - Len(buf) + pos' = BytesOf(n + 1)
  PROVE  /\ Told' /\ state' = "header" /\ payload' = <<>>
         /\ replies' \in Seq({"text", "ping"} \X Seq(Byte))
         /\ pc' \in {"parse", "closed"}
         /\ pc' # "closed" => \E k \in 0 .. Len(frames) : Parsed(k)'
<1> DEFINE S == {"text", "ping"} \X Seq(Byte)
<1> DEFINE a == <<frame.op, Ws!FieldBytes(n + 1, "payload", frame.len)>>
<1>1. /\ state' = "header" /\ payload' = <<>>
      /\ pc' = IF frame.op = "close" THEN "closed" ELSE pc
      /\ replies' = IF frame.op \in {"text", "ping"} THEN Append(replies, a) ELSE replies
  BY DEF Ws!Complete
<1>2. /\ n \in Nat /\ n + 1 \in 0 .. Len(frames) /\ n + 1 \in 1 .. Len(frames)
      /\ frame \in Kinds /\ frame.len \in Nat
  BY FrameNumbers, KindNumbers DEF WsTypeOK
<1>3. a \in S \/ frame.op \notin {"text", "ping"}
  <2>1. n + 1 \in Nat /\ frame.len \in Nat
    BY <1>2
  <2>2. Ws!FieldBytes(n + 1, "payload", frame.len) \in Seq(Byte)
    BY <2>1, FieldIs
  <2> QED
    BY <2>2
<1>4. /\ replies \in Seq(S) /\ owed \in Seq(S)
      /\ AnswersOf(n) \in Nat /\ AnswersOf(n + 1) \in Nat
  BY <1>2, MarkNumbers DEF WsTypeOK
<1>5. AnswerTo(n) /\ AnswersOf(n + 1) <= Len(owed)
  <2>1. /\ \A i \in 0 .. Len(frames) : i < Len(frames) => AnswerTo(i)
        /\ \A i, k \in 0 .. Len(frames) : i <= k => AnswersOf(i) <= AnswersOf(k)
        /\ Len(owed) = AnswersOf(Len(frames))
    BY DEF Owes
  <2>2. Len(frames) \in Nat
    BY DEF WsTypeOK
  <2>3. Len(frames) \in 0 .. Len(frames) /\ n + 1 <= Len(frames)
    BY ONLY <1>2, <2>2
  <2>4. AnswersOf(n + 1) <= AnswersOf(Len(frames))
    BY ONLY <1>2, <2>1, <2>3
  <2>5. AnswerTo(n)
    BY <2>1
  <2> QED
    BY ONLY <2>1, <2>4, <2>5
<1>6. Asks(n) <=> frame.op \in {"text", "ping"}
  BY DEF Asks
<1>7. /\ owed' = owed /\ frames' = frames
  BY DEF Ws!clientVars
<1>8. ASSUME frame.op \in {"text", "ping"} PROVE Told' /\ replies' \in Seq(S)
  <2>1. /\ AnswersOf(n + 1) = AnswersOf(n) + 1 /\ owed[AnswersOf(n) + 1] = a
    BY <1>5, <1>6, <1>8 DEF AnswerTo
  <2>2. a \in S /\ replies' = Append(replies, a)
    BY <1>1, <1>3, <1>8
  <2> HIDE DEF S, a
  <2>3. /\ replies' \in Seq(S) /\ Len(replies') = AnswersOf(n) + 1
        /\ \A i \in 1 .. AnswersOf(n) : replies'[i] = replies[i]
        /\ replies'[AnswersOf(n) + 1] = a
    BY ONLY <1>4, <2>2, Len(replies) = AnswersOf(n)
  <2>4. Told'
    <3>1. Len(replies') <= Len(owed) /\ Len(replies') = AnswersOf(n + 1)
      BY <1>5, <2>1, <2>3
    <3>2. ASSUME NEW i \in 1 .. Len(replies') PROVE replies'[i] = owed[i]
      <4>1. i \in 1 .. AnswersOf(n) \/ i = AnswersOf(n) + 1
        BY ONLY <1>4, <2>3, i \in 1 .. Len(replies')
      <4> QED
        BY <2>1, <2>3, <4>1 DEF Told
    <3> QED
      BY <1>7, <3>1, <3>2 DEF Told
  <2> QED
    BY <2>3, <2>4
<1>9. ASSUME frame.op \notin {"text", "ping"} PROVE Told' /\ replies' \in Seq(S)
  BY <1>1, <1>4, <1>7, <1>9 DEF Told
<1>10. Len(replies') = AnswersOf(n + 1)
  <2>1. CASE frame.op \in {"text", "ping"}
    <3> HIDE DEF S, a
    <3>1. replies' = Append(replies, a)
      BY <1>1, <2>1
    <3>2. Len(replies') = AnswersOf(n) + 1
      BY ONLY <1>4, <3>1, Len(replies) = AnswersOf(n)
    <3> QED
      BY <1>5, <1>6, <2>1, <3>2 DEF AnswerTo
  <2>2. CASE frame.op \notin {"text", "ping"}
    BY <1>1, <1>5, <1>6, <2>2 DEF AnswerTo
  <2> QED
    BY <2>1, <2>2
<1>11. ASSUME pc' # "closed" PROVE Parsed(n + 1)'
  <2>1. pc' = "parse" /\ frame.op # "close"
    BY <1>1, <1>11
  <2>2. ~Ws!EndsAt(n + 1)
    <3>1. \A j \in 1 .. n + 1 : j \in 1 .. n \/ j = n + 1
      BY <1>2
    <3>2. frames[n + 1].op \notin {"close", "huge"}
      BY <2>1
    <3> QED
      BY <3>1, <3>2 DEF Ws!EndsAt
  <2>3. /\ Ws!EndsAt(n + 1)' <=> Ws!EndsAt(n + 1)
        /\ AnswersOf(n + 1)' = AnswersOf(n + 1) /\ BytesOf(n + 1)' = BytesOf(n + 1)
    BY MarksKept
  <2>4. Consumed' = BytesOf(n + 1)'
    BY <2>1, <2>3 DEF Consumed
  <2>5. In(n + 1)'
    BY <1>1, <2>4 DEF In
  <2> QED
    BY <1>10, <2>1, <2>2, <2>3, <2>5 DEF Parsed, Fresh
<1>12. Told' /\ replies' \in Seq(S)
  BY <1>8, <1>9
<1>13. pc' \in {"parse", "closed"}
  BY <1>1
<1> QED
  BY <1>1, <1>2, <1>11, <1>12, <1>13

(* The first k bytes of a payload, as the parser collects them. *)
LEMMA WholePayload ==
  ASSUME NEW p \in Seq(Byte), NEW j \in Nat, NEW n \in Nat, Len(p) = n,
         \A b \in 1 .. n : p[b] = <<j, "payload", b>>
  PROVE  p = Ws!FieldBytes(j, "payload", n)
<1>1. p = [b \in 1 .. n |-> p[b]]
  OBVIOUS
<1>2. [b \in 1 .. n |-> p[b]] = [b \in 1 .. n |-> <<j, "payload", b>>]
  BY Zenon
<1> QED
  BY ONLY <1>1, <1>2 DEF Ws!FieldBytes

(* Behind the mask: a huge frame ends the session, an empty one is         *)

(* complete, for any other the payload comes.                              *)
LEMMA MaskKeyInv ==
  ASSUME WsInv, Ws!MaskKey
  PROVE  WsInv'
<1>1. /\ WsTypeOK /\ Laid /\ Owes /\ Buffered /\ Told
      /\ UNCHANGED Ws!clientVars /\ UNCHANGED <<arrived, buf, frame>>
      /\ pc = "parse" /\ pos' = pos + frame.mask /\ state = "mask"
  BY DEF WsInv, Ws!MaskKey, Ws!Parsing, Ws!Iterates
<1>2. PICK n \in 0 .. Len(frames) : Parsed(n)
  BY <1>1 DEF WsInv
<1>3. n < Len(frames) /\ frame = frames[n + 1] /\ Consumed = MaskAt(n)
  BY <1>1, <1>2 DEF Parsed, In
<1>4. /\ n + 1 \in 1 .. Len(frames) /\ frame \in Kinds
      /\ BytesOf(n) \in Nat /\ BytesOf(n + 1) \in Nat
      /\ MaskAt(n) = BytesOf(n) + 2 + frame.ext
      /\ PayloadAt(n) = BytesOf(n) + 2 + frame.ext + frame.mask
      /\ BytesOf(n + 1) = BytesOf(n) + 2 + frame.ext + frame.mask + frame.len
  BY <1>1, <1>3, FrameNumbers
<1>5. /\ frame.ext \in Nat /\ frame.mask \in Nat /\ frame.len \in Nat
      /\ frame.mask + frame.len > 0
  BY <1>4, KindNumbers
<1>6. frame.mask <= Len(buf) - pos /\ pos \in Nat /\ Len(buf) \in Nat
  <2>1. Ws!Need = frame.mask
    BY <1>1 DEF Ws!Need
  <2>2. pos \in Nat /\ Len(buf) \in Nat
    BY <1>1 DEF WsTypeOK
  <2> QED
    BY <1>5, <2>1, <2>2 DEF Ws!MaskKey, Ws!Parsing, Ws!Iterates, Ws!Left
<1>7. /\ pos' \in Nat /\ Laid' /\ Owes' /\ Buffered'
      /\ arrived' - Len(buf') + pos' = Consumed + frame.mask
  BY <1>1, <1>5, <1>6, Advances
<1>8. arrived - Len(buf) + pos' = PayloadAt(n)
  BY <1>1, <1>3, <1>4, <1>5, <1>7
<1>9. /\ frames' = frames /\ owed' = owed
      /\ PayloadAt(n)' = PayloadAt(n) /\ AnswersOf(n)' = AnswersOf(n)
      /\ Ws!EndsAt(n)' <=> Ws!EndsAt(n)
  BY <1>1, MarksKept DEF Ws!clientVars
<1>10. CASE frame.op = "huge" /\ pc' = "closed" /\ UNCHANGED <<state, payload, replies>>
  <2>1. WsTypeOK' /\ Told'
    BY <1>1, <1>7, <1>9, <1>10 DEF WsTypeOK, Told, Ws!clientVars
  <2> QED
    BY <1>7, <1>10, <2>1 DEF WsInv
<1>11. CASE frame.op # "huge" /\ frame.len = 0 /\ Ws!Complete(<<>>)
  <2>1. <<>> = Ws!FieldBytes(n + 1, "payload", frame.len)
    BY <1>11 DEF Ws!FieldBytes
  <2>2. pos' # 0
    BY ONLY <1>1, <1>5, <1>6, <1>11
  <2>3. arrived - Len(buf) + pos' = BytesOf(n + 1)
    BY <1>4, <1>5, <1>8, <1>11
  <2>4. ~Ws!EndsAt(n) /\ Len(replies) = AnswersOf(n)
    BY <1>2 DEF Parsed
  <2>5. frame.op # "huge" /\ Ws!Complete(Ws!FieldBytes(n + 1, "payload", frame.len))
    BY <1>11, <2>1
  <2>6. /\ Told' /\ state' = "header" /\ payload' = <<>>
        /\ replies' \in Seq({"text", "ping"} \X Seq(Byte))
        /\ pc' \in {"parse", "closed"}
        /\ pc' # "closed" => \E k \in 0 .. Len(frames) : Parsed(k)'
    BY <1>1, <1>3, <2>2, <2>3, <2>4, <2>5, Completes
  <2>7. WsTypeOK'
    BY <1>1, <1>7, <1>9, <2>6 DEF WsTypeOK, Ws!clientVars
  <2> QED
    BY <1>7, <1>9, <2>6, <2>7 DEF WsInv
<1>12. CASE /\ frame.op # "huge" /\ frame.len > 0
            /\ state' = "payload" /\ payload' = <<>> /\ UNCHANGED <<pc, replies>>
  <2>1. WsTypeOK' /\ Told'
    <3>1. pc' = pc /\ replies' = replies /\ state' = "payload" /\ payload' = <<>>
      BY <1>12
    <3>2. payload' \in Seq(Byte)
      BY <3>1
    <3>3. WsTypeOK'
      BY <1>1, <1>7, <3>1, <3>2 DEF WsTypeOK, Ws!clientVars
    <3> QED
      BY <1>1, <1>9, <3>1, <3>3 DEF Told
  <2>2. Consumed' = PayloadAt(n)' + 0
    BY <1>1, <1>4, <1>5, <1>8, <1>9, <1>12 DEF Consumed
  <2>3. In(n)'
    BY <1>1, <1>3, <1>5, <1>9, <1>12, <2>2 DEF In
  <2>4. Fresh'
    <3>1. pos' = 0 => pos = 0
      BY ONLY <1>1, <1>5, <1>6
    <3>2. Fresh
      BY <1>1, <1>2 DEF Parsed
    <3>3. ASSUME NEW m \in 0 .. Len(frames), arrived = BytesOf(m)
          PROVE  arrived' = BytesOf(m)'
      BY <1>1, <3>3, MarksKept
    <3> QED
      BY <1>1, <1>9, <3>1, <3>2, <3>3 DEF Fresh
  <2>5. Parsed(n)'
    BY <1>1, <1>2, <1>9, <1>12, <2>3, <2>4 DEF Parsed
  <2> QED
    BY <1>2, <1>7, <1>9, <2>1, <2>5 DEF WsInv
<1> QED
  BY <1>10, <1>11, <1>12 DEF Ws!MaskKey

(* The payload takes what there is of it; with its last byte the frame is  *)

(* complete.                                                               *)
LEMMA PayloadInv ==
  ASSUME WsInv, Ws!Payload
  PROVE  WsInv'
<1>1. /\ WsTypeOK /\ Laid /\ Owes /\ Buffered /\ Told
      /\ UNCHANGED Ws!clientVars /\ UNCHANGED <<arrived, buf, frame>>
      /\ pc = "parse" /\ state = "payload" /\ Len(buf) - pos > 0
  BY DEF WsInv, Ws!Payload, Ws!Parsing, Ws!Iterates, Ws!Left
<1>2. PICK n \in 0 .. Len(frames) : Parsed(n)
  BY <1>1 DEF WsInv
<1>3. /\ n < Len(frames) /\ frame = frames[n + 1] /\ frame.op # "huge"
      /\ Len(payload) < frame.len
      /\ \A b \in 1 .. Len(payload) : payload[b] = <<n + 1, "payload", b>>
      /\ Consumed = PayloadAt(n) + Len(payload)
  BY <1>1, <1>2 DEF Parsed, In
<1>4. /\ n + 1 \in 1 .. Len(frames) /\ frame \in Kinds
      /\ BytesOf(n) \in Nat /\ BytesOf(n + 1) \in Nat
      /\ PayloadAt(n) = BytesOf(n) + 2 + frame.ext + frame.mask
      /\ BytesOf(n + 1) = BytesOf(n) + 2 + frame.ext + frame.mask + frame.len
  BY <1>1, <1>3, FrameNumbers
<1>5. frame.ext \in Nat /\ frame.mask \in Nat /\ frame.len \in Nat
  BY <1>4, KindNumbers
<1>6. /\ pos \in Nat /\ Len(buf) \in Nat /\ Len(payload) \in Nat
      /\ payload \in Seq(Byte) /\ buf \in Seq(Byte)
  BY <1>1 DEF WsTypeOK
<1>7. PICK left \in Nat, have \in Nat, len \in Nat, at \in Nat :
        left = Len(buf) - pos /\ have = Len(payload) /\ len = frame.len /\ at = PayloadAt(n)
  <2>1. Len(buf) - pos \in Nat
    BY ONLY <1>1, <1>6
  <2>2. PayloadAt(n) \in Nat
    BY ONLY <1>4, <1>5
  <2> QED
    BY ONLY <1>5, <1>6, <2>1, <2>2
<1>8. left > 0 /\ have < len
  BY ONLY <1>1, <1>3, <1>7
<1>9. PICK copy : copy = IF left < len - have THEN left ELSE len - have
  OBVIOUS
<1>10. /\ copy \in Nat /\ copy > 0 /\ copy <= left /\ have + copy <= len
       /\ have + copy < len \/ have + copy = len
  BY ONLY <1>8, <1>9, left \in Nat, have \in Nat, len \in Nat
<1>11. PICK part : part = SubSeq(buf, pos + 1, pos + copy)
  OBVIOUS
<1>12. /\ part \in Seq(Byte) /\ Len(part) = copy
       /\ \A b \in 1 .. copy : part[b] = buf[pos + b]
  <2>1. pos + copy <= Len(buf)
    BY ONLY <1>6, <1>7, <1>10
  <2>2. buf \in Seq(Byte) /\ pos \in Nat /\ copy \in Nat
    BY ONLY <1>6, <1>10
  <2> QED
    BY ONLY PartIs, <1>11, <2>1, <2>2
<1>13. PICK data : data = payload \o part
  OBVIOUS
<1>14. /\ data \in Seq(Byte) /\ Len(data) = have + copy
       /\ \A b \in 1 .. have : data[b] = payload[b]
       /\ \A b \in 1 .. copy : data[have + b] = part[b]
  <2>1. payload \in Seq(Byte) /\ part \in Seq(Byte) /\ Len(payload) = have /\ Len(part) = copy
    BY ONLY <1>6, <1>7, <1>12
  <2>2. /\ payload \o part \in Seq(Byte)
        /\ Len(payload \o part) = Len(payload) + Len(part)
        /\ \A b \in 1 .. Len(payload) : (payload \o part)[b] = payload[b]
        /\ \A b \in 1 .. Len(part) : (payload \o part)[Len(payload) + b] = part[b]
    <3>1. payload \in Seq(Byte) /\ part \in Seq(Byte)
      BY ONLY <2>1
    <3> QED
      BY ONLY <3>1, Concatenated
  <2> QED
    BY ONLY <1>13, <2>1, <2>2
<1>15. /\ pos' = pos + copy
       /\ IF Len(data) >= len THEN Ws!Complete(data)
          ELSE payload' = data /\ UNCHANGED <<state, pc, replies>>
  BY <1>7, <1>9, <1>11, <1>13 DEF Ws!Payload, Ws!Left
<1>16. ASSUME NEW b \in 1 .. have + copy PROVE data[b] = <<n + 1, "payload", b>>
  <2>1. CASE b \in 1 .. have
    BY <1>3, <1>7, <1>14, <2>1
  <2>2. CASE b \notin 1 .. have
    <3>1. PICK i \in 1 .. copy : b = have + i
      <4>1. b - have \in 1 .. copy /\ b = have + (b - have)
        BY <1>10, <2>2
      <4> QED
        BY <4>1
    <3>2. i \in Nat /\ i > 0 /\ i <= Len(buf) - pos
      BY ONLY <1>7, <1>10, <3>1, left \in Nat, i \in 1 .. copy
    <3>3. buf[pos + i] = stream[Consumed + i]
      BY <1>1, <3>2, Reads
    <3>4. Consumed + i = PayloadAt(n) + b
      <4>1. at + have + i = at + (have + i)
        BY ONLY <3>2, at \in Nat, have \in Nat
      <4> QED
        BY ONLY <1>3, <1>7, <3>1, <4>1
    <3>5. b \in 1 .. frames[n + 1].len
      <4>1. b \in 1 .. len
        BY <1>10
      <4> QED
        BY <1>3, <1>7, <4>1
    <3>6. FrameLies(n)
      BY <1>1, <1>3 DEF Laid
    <3>7. stream[PayloadAt(n) + b] = <<n + 1, "payload", b>>
      BY <3>5, <3>6 DEF FrameLies
    <3> QED
      BY <1>12, <1>14, <3>1, <3>3, <3>4, <3>7
  <2> QED
    BY <2>1, <2>2
<1>17. /\ pos' \in Nat /\ Laid' /\ Owes' /\ Buffered'
       /\ arrived' - Len(buf') + pos' = Consumed + copy
  <2>1. copy \in Nat /\ copy <= Len(buf) - pos /\ pos' = pos + copy
    BY <1>7, <1>10, <1>15
  <2> QED
    BY <1>1, <2>1, Advances
<1>18. arrived - Len(buf) + pos' = PayloadAt(n) + (have + copy)
  <2>1. at + have + copy = at + (have + copy)
    BY ONLY <1>10, at \in Nat, have \in Nat
  <2> QED
    BY <1>1, <1>3, <1>7, <1>17, <2>1
<1>19. pos' # 0
  BY ONLY <1>6, <1>10, <1>15
<1>20. /\ frames' = frames /\ owed' = owed
       /\ PayloadAt(n)' = PayloadAt(n) /\ AnswersOf(n)' = AnswersOf(n)
       /\ Ws!EndsAt(n)' <=> Ws!EndsAt(n)
  BY <1>1, MarksKept DEF Ws!clientVars
<1>21. CASE have + copy = len
  <2>1. n + 1 \in Nat /\ frame.len \in Nat /\ Len(data) = frame.len
    BY <1>4, <1>5, <1>7, <1>14, <1>21 DEF WsTypeOK
  <2>2. data = Ws!FieldBytes(n + 1, "payload", frame.len)
    <3>1. data \in Seq(Byte) /\ len = frame.len /\ have + copy = frame.len
      BY <1>7, <1>14, <1>21
    <3>2. \A b \in 1 .. frame.len : data[b] = <<n + 1, "payload", b>>
      BY <1>16, <3>1
    <3> QED
      BY ONLY <2>1, <3>1, <3>2, WholePayload
  <2>3. Ws!Complete(data)
    <3>1. Len(data) >= len
      BY ONLY <1>14, <1>21, len \in Nat
    <3> QED
      BY <1>15, <3>1
  <2>4. Ws!Complete(Ws!FieldBytes(n + 1, "payload", frame.len))
    BY <2>2, <2>3
  <2>5. arrived - Len(buf) + pos' = BytesOf(n + 1)
    BY <1>4, <1>7, <1>18, <1>21
  <2>6. ~Ws!EndsAt(n) /\ Len(replies) = AnswersOf(n)
    BY <1>2 DEF Parsed
  <2>7. /\ Told' /\ state' = "header" /\ payload' = <<>>
        /\ replies' \in Seq({"text", "ping"} \X Seq(Byte))
        /\ pc' \in {"parse", "closed"}
        /\ pc' # "closed" => \E k \in 0 .. Len(frames) : Parsed(k)'
    BY <1>1, <1>3, <1>19, <2>4, <2>5, <2>6, Completes
  <2>8. WsTypeOK'
    BY <1>1, <1>17, <1>20, <2>7 DEF WsTypeOK, Ws!clientVars
  <2> QED
    BY <1>17, <1>20, <2>7, <2>8 DEF WsInv
<1>22. CASE have + copy < len
  <2>1. payload' = data /\ state' = state /\ pc' = pc /\ replies' = replies
    <3>1. ~(Len(data) >= len)
      BY ONLY <1>10, <1>14, <1>22, len \in Nat, have \in Nat
    <3> QED
      BY <1>15, <3>1
  <2>2. WsTypeOK' /\ Told'
    BY <1>1, <1>14, <1>17, <1>20, <2>1 DEF WsTypeOK, Told, Ws!clientVars
  <2>3. Consumed' = PayloadAt(n)' + Len(payload')
    BY <1>1, <1>14, <1>18, <1>20, <2>1 DEF Consumed
  <2>4. In(n)'
    <3>1. Len(payload)' < frame.len
      BY <1>7, <1>14, <1>22, <2>1
    <3>2. \A b \in 1 .. Len(payload)' : payload'[b] = <<n + 1, "payload", b>>
      BY <1>14, <1>16, <2>1
    <3> QED
      BY <1>1, <1>3, <1>20, <2>1, <2>3, <3>1, <3>2 DEF In
  <2>5. Parsed(n)'
    BY <1>1, <1>2, <1>19, <1>20, <2>1, <2>4 DEF Parsed, Fresh
  <2> QED
    BY <1>2, <1>17, <1>20, <2>2, <2>5 DEF WsInv
<1> QED
  BY <1>10, <1>21, <1>22

(* When nothing more can be parsed, some of the buffer was, and the frame  *)
(* the parser is in has not arrived.                                       *)
LEMMA Rests ==
  ASSUME WsTypeOK, Laid, Buffered, pc = "parse", ~Ws!Iterates,
         NEW n \in 0 .. Len(frames), Parsed(n)
  PROVE  /\ pos > 0
         /\ n < Len(frames) => arrived < BytesOf(n + 1)
<1>1. /\ pos \in Nat /\ Len(buf) \in Nat /\ arrived \in Nat /\ Len(payload) \in Nat
      /\ Len(buf) <= arrived /\ pos <= Len(buf) /\ BytesOf(n) \in Nat /\ n \in Nat
      /\ Len(frames) \in Nat /\ n <= Len(frames)
  <2>1. /\ pos \in Nat /\ buf \in Seq(Byte) /\ arrived \in Nat /\ payload \in Seq(Byte)
        /\ frames \in Seq(Kinds) /\ Len(buf) <= arrived /\ pos <= Len(buf)
    BY DEF WsTypeOK, Buffered
  <2>2. Len(buf) \in Nat /\ Len(payload) \in Nat /\ Len(frames) \in Nat
    BY ONLY <2>1
  <2>3. n \in Nat /\ n <= Len(frames)
    BY ONLY <2>2, n \in 0 .. Len(frames)
  <2>4. BytesOf(n) \in Nat
    BY MarkNumbers
  <2> QED
    BY ONLY <2>1, <2>2, <2>3, <2>4
<1>2. PICK left \in Nat, c \in Nat, o \in Nat :
        /\ left = Len(buf) - pos /\ c = Consumed /\ o = BytesOf(n) /\ c + left = arrived
  <2>1. Len(buf) - pos \in Nat /\ arrived - Len(buf) + pos \in Nat
        /\ (arrived - Len(buf) + pos) + (Len(buf) - pos) = arrived
    BY ONLY <1>1
  <2>2. Consumed = arrived - Len(buf) + pos
    BY DEF Consumed
  <2> QED
    BY ONLY <1>1, <2>1, <2>2
<1>3. Ws!Need \in Nat /\ Ws!Need <= 8
  <2>1. CASE state = "header"
    BY <2>1 DEF Ws!Need
  <2>2. CASE state = "payload"
    BY <2>2 DEF Ws!Need
  <2>3. CASE state \in {"ext", "mask"}
    <3>1. n < Len(frames) /\ frame = frames[n + 1]
      BY <2>3 DEF Parsed, In
    <3>2. frame \in Kinds
      BY <3>1, FrameNumbers
    <3>3. frame.ext \in Nat /\ frame.ext <= 8 /\ frame.mask \in Nat /\ frame.mask <= 4
      BY <3>2, KindNumbers
    <3>4. CASE state = "ext"
      BY <3>3, <3>4 DEF Ws!Need
    <3>5. CASE state = "mask"
      BY <3>3, <3>5 DEF Ws!Need
    <3> QED
      BY <2>3, <3>4, <3>5
  <2> QED
    BY <2>1, <2>2, <2>3 DEF WsTypeOK
<1>4. left = 0 \/ left < Ws!Need
  <2>1. ~(left > 0 /\ left >= Ws!Need)
    BY <1>2 DEF Ws!Iterates, Ws!Left
  <2> QED
    BY ONLY <1>3, <2>1, left \in Nat
<1>5. ASSUME n < Len(frames) PROVE arrived < BytesOf(n + 1)
  <2>1. /\ frames[n + 1] \in Kinds /\ BytesOf(n + 1) \in Nat
        /\ ExtAt(n) = BytesOf(n) + 2
        /\ MaskAt(n) = BytesOf(n) + 2 + frames[n + 1].ext
        /\ PayloadAt(n) = BytesOf(n) + 2 + frames[n + 1].ext + frames[n + 1].mask
        /\ BytesOf(n + 1)
             = BytesOf(n) + 2 + frames[n + 1].ext + frames[n + 1].mask + frames[n + 1].len
    BY <1>5, FrameNumbers
  <2>2. PICK e \in Nat, m \in Nat, l \in Nat :
          /\ e = frames[n + 1].ext /\ m = frames[n + 1].mask /\ l = frames[n + 1].len
          /\ m + l > 0
    BY <2>1, KindNumbers
  <2>3. BytesOf(n + 1) = o + 2 + e + m + l
    BY ONLY <1>2, <2>1, <2>2
  <2>4. CASE state = "header"
    <3>1. c = o /\ Ws!Need = 2
      BY <1>2, <2>4 DEF Parsed, In, Ws!Need
    <3>2. c + left < o + 2 + e + m + l
      BY <1>4, <3>1
    <3> QED
      BY ONLY <1>2, <2>3, <3>2
  <2>5. CASE state = "ext"
    <3>1. c = o + 2 /\ Ws!Need = e /\ e > 0
      BY <1>2, <2>1, <2>2, <2>5 DEF Parsed, In, Ws!Need
    <3>2. c + left < o + 2 + e + m + l
      BY <1>4, <3>1
    <3> QED
      BY ONLY <1>2, <2>3, <3>2
  <2>6. CASE state = "mask"
    <3>1. c = o + 2 + e /\ Ws!Need = m
      BY <1>2, <2>1, <2>2, <2>6 DEF Parsed, In, Ws!Need
    <3>2. c + left < o + 2 + e + m + l
      <4>1. m + l > 0
        BY <2>2
      <4> QED
        BY ONLY <1>4, <3>1, <4>1, left \in Nat, o \in Nat, e \in Nat, m \in Nat, l \in Nat
    <3> QED
      BY ONLY <1>2, <2>3, <3>2
  <2>7. CASE state = "payload"
    <3>1. /\ c = o + 2 + e + m + Len(payload) /\ Ws!Need = 0 /\ Len(payload) < l
      BY <1>2, <2>1, <2>2, <2>7 DEF Parsed, In, Ws!Need
    <3>2. c + left < o + 2 + e + m + l
      BY <1>1, <1>4, <3>1
    <3> QED
      BY ONLY <1>2, <2>3, <3>2
  <2> QED
    BY <2>4, <2>5, <2>6, <2>7 DEF WsTypeOK
<1>6. BytesOf(n) <= Consumed
  <2>1. CASE state = "header"
    BY <1>1, <2>1 DEF Parsed, In
  <2>2. CASE state # "header"
    <3>1. n < Len(frames) /\ frame = frames[n + 1]
      BY <2>2 DEF Parsed, In
    <3>2. /\ frame \in Kinds
          /\ ExtAt(n) = BytesOf(n) + 2
          /\ MaskAt(n) = BytesOf(n) + 2 + frame.ext
          /\ PayloadAt(n) = BytesOf(n) + 2 + frame.ext + frame.mask
      BY <3>1, FrameNumbers
    <3>3. frame.ext \in Nat /\ frame.mask \in Nat
      BY <3>2, KindNumbers
    <3>4. \/ Consumed = ExtAt(n) \/ Consumed = MaskAt(n)
          \/ Consumed = PayloadAt(n) + Len(payload)
      BY <2>2 DEF Parsed, In, WsTypeOK
    <3>5. PICK b \in Nat, e \in Nat, m \in Nat, p \in Nat :
            /\ b = BytesOf(n) /\ e = frame.ext /\ m = frame.mask /\ p = Len(payload)
      BY ONLY <1>1, <3>3
    <3>6. b <= b + 2 /\ b <= b + 2 + e /\ b <= b + 2 + e + m + p
      BY ONLY b \in Nat, e \in Nat, m \in Nat, p \in Nat
    <3> QED
      BY ONLY <3>2, <3>4, <3>5, <3>6
  <2> QED
    BY <2>1, <2>2
<1>7. pos # 0
  <2> SUFFICES ASSUME pos = 0 PROVE FALSE
    OBVIOUS
  <2>1. Fresh
    BY DEF Parsed
  <2>2. Len(buf) > 0 /\ left = Len(buf)
    BY ONLY <1>1, <1>2, <2>1, pos = 0 DEF Fresh
  <2>3. Len(buf) < 8
    <3>1. left < Ws!Need
      BY ONLY <1>4, <2>2, left \in Nat
    <3> QED
      BY ONLY <1>3, <2>2, <3>1, left \in Nat
  <2>4. PICK m \in 0 .. Len(frames) : arrived = BytesOf(m)
    BY ONLY <1>1, <2>1, <2>3, pos = 0 DEF Fresh
  <2>5. BytesOf(n) < BytesOf(m)
    BY ONLY <1>1, <1>2, <1>6, <2>2, <2>4, left \in Nat, c \in Nat
  <2>6. BytesOf(m) \in Nat /\ m \in Nat
    BY <2>4, <1>1
  <2>7. n < m
    <3>1. m <= n => BytesOf(m) <= BytesOf(n)
      BY DEF Laid
    <3> QED
      BY ONLY <1>1, <2>5, <2>6, <3>1
  <2>8. n < Len(frames) /\ n + 1 <= m /\ n + 1 \in 0 .. Len(frames)
    BY ONLY <1>1, <2>7, m \in 0 .. Len(frames)
  <2>9. BytesOf(n + 1) <= BytesOf(m) /\ BytesOf(n + 1) \in Nat
    BY <2>8, MarkNumbers DEF Laid
  <2>10. arrived < BytesOf(n + 1)
    BY <1>5, <2>8
  <2> QED
    BY ONLY <1>1, <2>4, <2>9, <2>10
<1>8. pos > 0
  BY ONLY <1>1, <1>7
<1> QED
  BY <1>5, <1>8

(* The rest of the buffer is kept. *)
LEMMA DoneInv ==
  ASSUME WsInv, Ws!Done
  PROVE  WsInv'
<1>1. /\ WsTypeOK /\ Laid /\ Owes /\ Buffered /\ Told
      /\ UNCHANGED Ws!clientVars
      /\ pc = "parse" /\ pc' = "recv" /\ ~Ws!Iterates
      /\ arrived' = arrived /\ pos' = pos /\ state' = state /\ frame' = frame
      /\ payload' = payload /\ replies' = replies
      /\ buf' = IF 0 < pos /\ pos < Len(buf) THEN SubSeq(buf, pos + 1, Len(buf)) ELSE <<>>
  BY DEF WsInv, Ws!Done
<1>2. PICK n \in 0 .. Len(frames) : Parsed(n)
  BY <1>1 DEF WsInv
<1>3. pos > 0 /\ (n < Len(frames) => arrived < BytesOf(n + 1))
  BY <1>1, <1>2, Rests
<1>4. /\ pos \in Nat /\ Len(buf) \in Nat /\ arrived \in Nat /\ Len(stream) \in Nat
      /\ buf \in Seq(Byte)
      /\ Len(buf) <= arrived /\ pos <= Len(buf) /\ arrived <= Len(stream)
  BY <1>1 DEF WsTypeOK, Buffered
<1>5. /\ buf' \in Seq(Byte) /\ Len(buf') = Len(buf) - pos
      /\ \A b \in 1 .. Len(buf') : buf'[b] = buf[pos + b]
  <2>1. CASE pos < Len(buf)
    <3>1. PICK k \in Nat : k = Len(buf) - pos
      BY <1>4
    <3>2. Len(buf) = pos + k /\ pos + k <= Len(buf)
      BY ONLY <1>4, <3>1, k \in Nat
    <3>3. buf' = SubSeq(buf, pos + 1, pos + k)
      BY <1>1, <1>3, <2>1, <3>2
    <3>4. /\ SubSeq(buf, pos + 1, pos + k) \in Seq(Byte)
          /\ Len(SubSeq(buf, pos + 1, pos + k)) = k
          /\ \A b \in 1 .. k : SubSeq(buf, pos + 1, pos + k)[b] = buf[pos + b]
      <4>1. buf \in Seq(Byte) /\ pos \in Nat /\ pos + k <= Len(buf)
        BY ONLY <1>4, <3>2
      <4> QED
        BY ONLY <4>1, PartIs, k \in Nat
    <3> QED
      BY ONLY <3>1, <3>3, <3>4
  <2>2. CASE pos = Len(buf)
    <3>1. buf' = <<>>
      BY <1>1, <2>2
    <3> QED
      BY <1>4, <2>2, <3>1
  <2>3. pos < Len(buf) \/ pos = Len(buf)
    BY ONLY <1>4
  <2> QED
    BY <2>1, <2>2, <2>3
<1>6. WsTypeOK' /\ Laid' /\ Owes' /\ Told'
  BY <1>1, <1>5, ClientKept DEF WsTypeOK, Told, Ws!clientVars
<1>7. arrived' - Len(buf') = arrived - Len(buf) + pos /\ Len(buf') <= arrived
  <2>1. PICK x \in Nat, y \in Nat, z \in Nat :
          x = arrived /\ y = Len(buf) /\ z = pos /\ y <= x /\ z <= y
    BY <1>4
  <2>2. x - (y - z) = x - y + z /\ y - z <= x
    BY <2>1
  <2> QED
    BY ONLY <1>1, <1>5, <2>1, <2>2
<1>8. Buffered'
  <2>1. ASSUME NEW b \in 1 .. Len(buf') PROVE buf'[b] = stream[arrived' - Len(buf') + b]
    <3>1. pos + b \in 1 .. Len(buf)
      BY ONLY <1>4, <1>5, b \in 1 .. Len(buf')
    <3>2. arrived - Len(buf) + (pos + b) = arrived' - Len(buf') + b
      <4>1. arrived - Len(buf) + (pos + b) = arrived - Len(buf) + pos + b
        BY ONLY <1>4, <3>1, b \in 1 .. Len(buf')
      <4> QED
        BY ONLY <1>7, <4>1
    <3>3. buf[pos + b] = stream[arrived - Len(buf) + (pos + b)]
      BY <1>1, <3>1 DEF Buffered
    <3> QED
      BY <1>5, <3>2, <3>3
  <2> QED
    BY <1>1, <1>4, <1>7, <2>1 DEF Buffered, Ws!clientVars
<1>9. Consumed' = Consumed
  BY <1>1, <1>7 DEF Consumed
<1>10. /\ BytesOf(n)' = BytesOf(n) /\ AnswersOf(n)' = AnswersOf(n)
       /\ BytesOf(n + 1)' = BytesOf(n + 1) /\ frames' = frames
       /\ ExtAt(n)' = ExtAt(n) /\ MaskAt(n)' = MaskAt(n) /\ PayloadAt(n)' = PayloadAt(n)
       /\ Ws!EndsAt(n)' <=> Ws!EndsAt(n)
  BY <1>1, MarksKept DEF Ws!clientVars
<1>11. In(n)'
  BY <1>1, <1>2, <1>9, <1>10 DEF Parsed, In
<1>12. Parsed(n)'
  BY <1>1, <1>2, <1>3, <1>10, <1>11 DEF Parsed
<1> QED
  BY <1>2, <1>6, <1>8, <1>10, <1>12 DEF WsInv

----------------------------------------------------------------------------

(* A session starts with nothing sent and nothing received. *)
LEMMA WsStart == Ws!Init => WsInv
<1> SUFFICES ASSUME Ws!Init PROVE WsInv
  OBVIOUS
<1>1. /\ frames = <<>> /\ stream = <<>> /\ owed = <<>> /\ marks = <<>>
      /\ arrived = 0 /\ buf = <<>> /\ pos = 0 /\ state = "header" /\ frame = Ws!NoFrame
      /\ payload = <<>> /\ pc = "recv" /\ replies = <<>>
  BY DEF Ws!Init
<1>2. WsTypeOK
  BY <1>1 DEF WsTypeOK
<1>3. Len(frames) = 0 /\ 0 \in 0 .. Len(frames) /\ \A n \in 0 .. Len(frames) : n = 0
  BY <1>1
<1>4. Laid /\ Owes /\ Told
  BY <1>1, <1>3 DEF Laid, Owes, Told, BytesOf, AnswersOf
<1>5. Buffered
  BY <1>1 DEF Buffered
<1>6. Parsed(0)
  <2>1. ~Ws!EndsAt(0)
    BY DEF Ws!EndsAt
  <2>2. Consumed = 0
    <3>1. Len(<<>>) = 0 /\ 0 - 0 = 0
      OBVIOUS
    <3> QED
      BY <1>1, <3>1 DEF Consumed
  <2> QED
    BY <1>1, <1>3, <2>1, <2>2 DEF Parsed, In, BytesOf, AnswersOf
<1> QED
  BY <1>2, <1>3, <1>4, <1>5, <1>6 DEF WsInv

(* A step that leaves the session alone keeps the invariant. *)
LEMMA WsStays ==
  ASSUME WsInv, UNCHANGED <<Ws!clientVars, arrived, buf, pos, state, frame, payload, pc, replies>>
  PROVE  WsInv'
<1>1. WsTypeOK' /\ Buffered' /\ Told'
  BY DEF WsInv, WsTypeOK, Buffered, Told, Ws!clientVars
<1>2. Laid' /\ Owes'
  BY ClientKept DEF WsInv
<1>3. ASSUME NEW n \in 0 .. Len(frames), Parsed(n) PROVE Parsed(n)'
  <2>1. Consumed' = Consumed
    BY DEF Consumed
  <2>2. In(n)'
    BY <1>3, <2>1, MarksKept DEF Parsed, In, Ws!clientVars
  <2>3. Fresh => Fresh'
    <3>1. \A m : BytesOf(m)' = BytesOf(m)
      BY MarksKept
    <3> QED
      BY <3>1 DEF Fresh, Ws!clientVars
  <2>4. /\ BytesOf(n + 1)' = BytesOf(n + 1) /\ AnswersOf(n)' = AnswersOf(n)
        /\ Ws!EndsAt(n)' <=> Ws!EndsAt(n)
    BY MarksKept
  <2> QED
    BY <1>3, <2>2, <2>3, <2>4 DEF Parsed, Ws!clientVars
<1> QED
  BY <1>1, <1>2, <1>3 DEF WsInv, Ws!clientVars

(* Every step of an upgraded connection keeps the invariant. *)
LEMMA WsNext == WsInv /\ [SessionsNext]_allVars => WsInv'
<1> SUFFICES ASSUME WsInv, [SessionsNext]_allVars PROVE WsInv'
  OBVIOUS
<1>1. CASE Ws!Next
  BY <1>1, SendInv, RecvInv, FrameHeaderInv, ExtLenInv, MaskKeyInv, PayloadInv, DoneInv
     DEF Ws!Next
<1>2. CASE UNCHANGED wsVars
  <2>1. UNCHANGED <<Ws!clientVars, arrived, buf, pos, state, frame, payload, pc, replies>>
    BY <1>2 DEF wsVars, Ws!clientVars
  <2> QED
    BY <2>1, WsStays
<1> QED
  BY <1>1, <1>2 DEF SessionsNext, WsStep, H2Step, allVars

(* What was told is what was owed, and while the server waits, for all     *)

(* that arrived.                                                           *)
LEMMA WsGives == WsInv => FramesEchoed
<1> SUFFICES ASSUME WsInv PROVE FramesEchoed
  OBVIOUS
<1>1. WsTypeOK /\ Laid /\ Owes /\ Buffered /\ Told
  BY DEF WsInv
<1>2. Ws!EchoInOrder
  <2>1. /\ Len(replies) <= Len(owed) /\ \A i \in 1 .. Len(replies) : replies[i] = owed[i]
        /\ replies \in Seq({"text", "ping"} \X Seq(Byte))
        /\ owed \in Seq({"text", "ping"} \X Seq(Byte))
    BY <1>1 DEF Told, WsTypeOK
  <2> QED
    BY <2>1 DEF Ws!EchoInOrder, Ws!IsPrefix
<1>3. ASSUME pc = "recv", NEW m \in 1 .. Len(frames), marks[m].bytes <= arrived
      PROVE  Len(replies) >= marks[m].answers /\ ~Ws!EndsAt(m)
  <2>1. PICK n \in 0 .. Len(frames) : Parsed(n)
    BY <1>3 DEF WsInv
  <2>2. /\ m \in Nat /\ m # 0 /\ m \in 0 .. Len(frames) /\ n \in Nat /\ Len(frames) \in Nat
        /\ arrived \in Nat
    BY <1>1 DEF WsTypeOK
  <2>3. /\ BytesOf(m) = marks[m].bytes /\ AnswersOf(m) = marks[m].answers
        /\ BytesOf(m) \in Nat /\ AnswersOf(m) \in Nat /\ AnswersOf(n) \in Nat
    BY <1>1, <2>2, MarkNumbers DEF BytesOf, AnswersOf
  <2>4. m <= n
    <3> SUFFICES ASSUME n < m PROVE FALSE
      BY <2>2
    <3>1. n < Len(frames) /\ n + 1 \in 0 .. Len(frames) /\ n + 1 <= m
      BY ONLY <2>2, n < m
    <3>2. BytesOf(n + 1) <= BytesOf(m) /\ BytesOf(n + 1) \in Nat
      BY <1>1, <2>2, <3>1, MarkNumbers DEF Laid
    <3>3. arrived < BytesOf(n + 1)
      BY <1>3, <2>1, <3>1 DEF Parsed
    <3> QED
      BY ONLY <1>3, <2>2, <2>3, <3>2, <3>3
  <2>5. AnswersOf(m) <= AnswersOf(n) /\ Len(replies) = AnswersOf(n)
    BY <1>1, <2>1, <2>2, <2>4 DEF Owes, Parsed
  <2>6. ~Ws!EndsAt(m)
    <3>1. ~Ws!EndsAt(n)
      BY <2>1 DEF Parsed
    <3>2. \A j \in 1 .. m : j \in 1 .. n
      BY ONLY <2>2, <2>4
    <3> QED
      BY <3>1, <3>2 DEF Ws!EndsAt
  <2> QED
    BY <2>3, <2>5, <2>6
<1> QED
  BY <1>2, <1>3 DEF FramesEchoed, Ws!NoFrameLost

(* A WebSocket session (yk_ws_process_data) answers the texts and pings in *)
(* order, each with its own payload, and whenever it waits for data it has *)
(* answered every frame that has arrived completely: for any frames a      *)
(* client may send, sent at any time, and wherever the network cuts them   *)
(* into receives of at least eight bytes.                                  *)
THEOREM FramesAreEchoed == SessionsSpec => []FramesEchoed
<1>1. SessionsInit => WsInv
  BY WsStart DEF SessionsInit
<1>2. WsInv /\ [SessionsNext]_allVars => WsInv'
  BY WsNext
<1>3. WsInv => FramesEchoed
  BY WsGives
<1> QED
  BY <1>1, <1>2, <1>3, PTL DEF SessionsSpec
=============================================================================
