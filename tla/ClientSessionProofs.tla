------------------------ MODULE ClientSessionProofs ------------------------
(***************************************************************************)
(* Proofs about the machoNet client.  What the client has not decoded yet  *)
(* is a sequence of whole frames, numbered without a gap and each          *)
(* encrypted under the vector the one before it left; in the handshake the *)
(* lines of the two ends tell how many messages are on the way in each     *)
(* direction, and it is never both.                                        *)
(***************************************************************************)
EXTENDS ClientSession, SequenceTheorems, TLAPS

-----------------------------------------------------------------------------
(* The inductive invariant. *)

\* A vector, or none.
Vectors == Nat \cup {NoCrypto}
Shapes == {"version", "client_version", "vk", "crypto_request", "ok_cc", "login",
           "password_version", "server_handshake", "result", "ack", "other",
           "ping_req", "ping_rsp", "notification", "packet"}
Messages == [shape : Shapes, iv : Vectors, cid : Nat, size : Nat \ {0}, gen : Nat, seq : Nat]
Units == [part : {"prefix", "payload"}, msg : Messages]
Servers == [gen : Nat, step : 1 .. 11, iv : Vectors, alive : BOOLEAN, honest : BOOLEAN,
            garbled : BOOLEAN, seq : Nat, started : Nat, faults : Nat]

\* What the client has not decoded yet.
Rest == decoder \o toClient

\* The last unit of the frame whose prefix is unit i.
FrameEnd(s, i) == i + s[i].msg.size

\* A sequence of whole frames.
Whole(s) ==
    /\ s # <<>> => s[1].part = "prefix"
    /\ \A i \in DOMAIN s : s[i].part = "prefix" =>
          /\ FrameEnd(s, i) \in DOMAIN s
          /\ \A j \in (i + 1) .. FrameEnd(s, i) : s[j].part = "payload" /\ s[j].msg = s[i].msg
          /\ FrameEnd(s, i) + 1 \in DOMAIN s => s[FrameEnd(s, i) + 1].part = "prefix"

\* The frames are numbered from lo + 1 to hi.
Numbered(s, lo, hi) ==
    /\ s = <<>> => lo = hi
    /\ s # <<>> => s[1].msg.seq = lo + 1
    /\ \A i \in DOMAIN s : lo < s[i].msg.seq /\ s[i].msg.seq <= hi
    /\ \A i, j \in DOMAIN s :
          s[i].part = "prefix" /\ FrameEnd(s, i) < j => s[i].msg.seq < s[j].msg.seq
    /\ \A i \in DOMAIN s : s[i].part = "prefix" =>
          IF FrameEnd(s, i) = Len(s) THEN s[i].msg.seq = hi
          ELSE s[FrameEnd(s, i) + 1].msg.seq = s[i].msg.seq + 1

\* The vector both ends hold after a message of the server.
VectorAfter(m) ==
    IF m.shape = "ok_cc" THEN 0 ELSE IF m.iv = NoCrypto THEN NoCrypto ELSE m.cid

\* Each frame is encrypted under the vector the one before it left; v is the vector before
\* the first of them, w the one after the last.
Chained(s, v, w) ==
    /\ s = <<>> => v = w
    /\ s # <<>> => s[1].msg.iv = v
    /\ \A i \in DOMAIN s : s[i].part = "prefix" =>
          IF FrameEnd(s, i) = Len(s) THEN VectorAfter(s[i].msg) = w
          ELSE s[FrameEnd(s, i) + 1].msg.iv = VectorAfter(s[i].msg)

\* The same for the messages to the server, none of which is cut into units.
VectorSent(m) == IF m.iv = NoCrypto THEN NoCrypto ELSE m.cid
SentChained(s, v, w) ==
    /\ s # <<>> /\ s[1].iv = v
    /\ VectorSent(s[Len(s)]) = w
    /\ \A i \in 1 .. Len(s) - 1 : s[i + 1].iv = VectorSent(s[i])

\* Every message of a stream belongs to this connection, and OK CC to its handshake.
OfConnection(s, gen) ==
    \A i \in DOMAIN s : s[i].msg.gen = gen /\ (s[i].msg.shape = "ok_cc" => s[i].msg.seq <= 5)

\* Messages the server, and the client, has sent before line k of the handshake.
ServerSent == <<0, 1, 1, 1, 1, 2, 2, 3, 4, 4, 5>>
ClientSent == <<0, 0, 1, 2, 3, 3, 4, 4, 4, 5, 5>>

Places ==
    /\ pc \in {"idle", "open", "establish", "receive"}
    /\ connected \in BOOLEAN /\ open \in BOOLEAN
    /\ open <=> (pc = "establish" \/ connected)
    /\ pc \in {"open", "establish"} => ~connected
    /\ pc = "receive" => connected
    /\ connected => IsComplete(hs)
    /\ pc = "establish" => step \in 1 .. 10
    /\ generation \in Nat /\ srv.gen = generation
    /\ srv.alive => open

Vector ==
    /\ crypto \in Vectors /\ lastIv \in Nat /\ broken \in BOOLEAN
    /\ pc = "establish" => (crypto = NoCrypto <=> step <= 5)
    /\ connected => crypto # NoCrypto

Stream == open => Whole(Rest) /\ OfConnection(Rest, generation)

ServerCount == IF srv.step = 11 THEN srv.seq >= 5 ELSE srv.seq = ServerSent[srv.step]

Turns ==
    /\ open => \E lo \in Nat :
          /\ Numbered(Rest, lo, srv.seq)
          /\ pc = "establish" => lo = ServerSent[step]
          /\ connected => lo >= 5
    /\ pc = "establish" => ClientSent[srv.step] <= ClientSent[step]
    /\ pc = "establish" /\ srv.alive => ClientSent[srv.step] + Len(toServer) = ClientSent[step]
    /\ connected => srv.step = 11

\* A server that deviated in the handshake is found out: what it sent is still to be read.
Deviations ==
    open /\ ~srv.honest => \E i \in DOMAIN Rest : Rest[i].msg.shape = "other" /\ Rest[i].msg.seq <= 5

\* The vectors of the two ends are joined by a chain: through r, what the client has not
\* decoded, or through the messages to the server; v is the vector of the client.
Joined(r, v) ==
    \/ r = <<>> /\ ~srv.alive
    \/ Chained(r, v, srv.iv) /\ (toServer = <<>> \/ ~srv.alive)
    \/ /\ r = <<>> /\ toServer # <<>> /\ SentChained(toServer, srv.iv, v)
       /\ connected => srv.iv # NoCrypto

Lockstep ==
    /\ pc = "establish" => ~broken
    /\ open /\ ~broken => Joined(Rest, crypto)
    /\ pc \in {"open", "establish"} => error # "undecodable"
    /\ srv.garbled => srv.step = 11

Types ==
    /\ decoder \in Seq(Units) /\ toClient \in Seq(Units)
    /\ toServer \in Seq(Messages) /\ srv \in Servers

IInv ==
    /\ Types /\ Places /\ Vector /\ Stream /\ ServerCount /\ Turns /\ Deviations /\ Lockstep

-----------------------------------------------------------------------------
(* Streams of frames. *)

(* The units of a stream have types.                                       *)
LEMMA UnitTypes ==
  ASSUME NEW s \in Seq(Units)
  PROVE  /\ Len(s) \in Nat /\ DOMAIN s = 1 .. Len(s) /\ (s = <<>> <=> Len(s) = 0)
         /\ \A i \in 1 .. Len(s) :
              /\ s[i].part \in {"prefix", "payload"} /\ s[i].msg \in Messages
              /\ s[i].msg.size \in Nat \ {0} /\ s[i].msg.seq \in Nat /\ s[i].msg.gen \in Nat
              /\ s[i].msg.cid \in Nat /\ s[i].msg.iv \in Vectors /\ s[i].msg.shape \in Shapes
<1>1. Len(s) \in Nat /\ DOMAIN s = 1 .. Len(s) /\ (s = <<>> <=> Len(s) = 0)
  OBVIOUS
<1>2. ASSUME NEW i \in 1 .. Len(s) PROVE s[i] \in Units
  BY <1>1
<1>3. \A u \in Units : u.part \in {"prefix", "payload"} /\ u.msg \in Messages
  BY DEF Units
<1>4. \A m \in Messages :
        /\ m.size \in Nat \ {0} /\ m.seq \in Nat /\ m.gen \in Nat
        /\ m.cid \in Nat /\ m.iv \in Vectors /\ m.shape \in Shapes
  BY DEF Messages
<1> QED
  BY <1>1, <1>2, <1>3, <1>4

(* EncodeFrame writes a prefix unit and the units of the payload.          *)
LEMMA FrameUnits ==
  ASSUME NEW m \in Messages
  PROVE  /\ EncodeFrame(m) \in Seq(Units) /\ Len(EncodeFrame(m)) = m.size + 1
         /\ m.size \in Nat \ {0}
         /\ EncodeFrame(m)[1].part = "prefix"
         /\ \A i \in 2 .. m.size + 1 : EncodeFrame(m)[i].part = "payload"
         /\ \A i \in 1 .. m.size + 1 : EncodeFrame(m)[i].msg = m
<1>1. m.size \in Nat \ {0}
  BY DEF Messages
<1> DEFINE e(i) == [part |-> IF i = 1 THEN "prefix" ELSE "payload", msg |-> m]
<1>2. \A i \in 1 .. m.size + 1 : e(i) \in Units
  BY Zenon DEF Units
<1>3. \A i \in 1 .. m.size + 1 :
        e(i).part = (IF i = 1 THEN "prefix" ELSE "payload") /\ e(i).msg = m
  OBVIOUS
<1>4. EncodeFrame(m) = [i \in 1 .. m.size + 1 |-> e(i)]
  BY DEF EncodeFrame
<1> HIDE DEF e
<1>5. EncodeFrame(m) \in Seq(Units)
  BY <1>1, <1>2, <1>4
<1>6. DOMAIN EncodeFrame(m) = 1 .. m.size + 1
  BY <1>4
<1>7. Len(EncodeFrame(m)) = m.size + 1
  BY <1>1, <1>5, <1>6
<1>8. \A i \in 1 .. m.size + 1 : EncodeFrame(m)[i] = e(i)
  BY <1>4
<1> QED
  BY <1>1, <1>3, <1>5, <1>7, <1>8

\* The stream t is s, of length L, and the frame of m, of q payload units.
Extended(t, s, m, L, q) ==
    /\ t \in Seq(Units) /\ Len(t) = L + q + 1
    /\ \A i \in 1 .. L : t[i] = s[i]
    /\ t[L + 1].part = "prefix"
    /\ \A i \in L + 2 .. L + q + 1 : t[i].part = "payload"
    /\ \A i \in L + 1 .. L + q + 1 : t[i].msg = m

(* A frame is put at the end of a stream.                                  *)
LEMMA PutUnits ==
  \A s, m : s \in Seq(Units) /\ m \in Messages =>
     Extended(s \o EncodeFrame(m), s, m, Len(s), m.size)
<1>0. SUFFICES ASSUME NEW s, NEW m, s \in Seq(Units), m \in Messages
               PROVE  Extended(s \o EncodeFrame(m), s, m, Len(s), m.size)
  OBVIOUS
<1> DEFINE e == EncodeFrame(m)
           t == s \o e
<1>1. PICK L \in Nat : L = Len(s)
  BY <1>0
<1>2. PICK q \in Nat \ {0} : q = m.size
  BY <1>0 DEF Messages
<1>3. /\ e \in Seq(Units) /\ Len(e) = q + 1
      /\ e[1].part = "prefix" /\ \A i \in 2 .. q + 1 : e[i].part = "payload"
      /\ \A i \in 1 .. q + 1 : e[i].msg = m
  BY <1>0, <1>2, FrameUnits
<1> HIDE DEF e
<1>4. /\ t \in Seq(Units) /\ Len(t) = Len(s) + Len(e)
      /\ \A i \in 1 .. Len(s) + Len(e) : t[i] = IF i <= Len(s) THEN s[i] ELSE e[i - Len(s)]
  BY <1>0, <1>3, ConcatProperties
<1> HIDE DEF t
<1>5. Len(t) = L + q + 1
  BY <1>3, <1>4, <1>1
<1>6. \A i \in 1 .. L + q + 1 : t[i] = IF i <= L THEN s[i] ELSE e[i - L]
  BY <1>3, <1>4, <1>1
<1>7. \A i \in 1 .. L : t[i] = s[i]
  BY <1>6
<1>8. \A i \in L + 1 .. L + q + 1 : t[i] = e[i - L] /\ i - L \in 1 .. q + 1
  BY <1>6
<1>9. t[L + 1].part = "prefix"
  <2>1. L + 1 \in L + 1 .. L + q + 1 /\ (L + 1) - L = 1
    OBVIOUS
  <2> QED
    BY <1>3, <1>8, <2>1
<1>10. ASSUME NEW i \in L + 2 .. L + q + 1 PROVE t[i].part = "payload"
  <2>1. i \in L + 1 .. L + q + 1 /\ i - L \in 2 .. q + 1
    OBVIOUS
  <2> QED
    BY <1>3, <1>8, <2>1
<1>11. \A i \in L + 1 .. L + q + 1 : t[i].msg = m
  BY <1>3, <1>8
<1>12. Extended(t, s, m, L, q)
  BY <1>4, <1>5, <1>7, <1>9, <1>10, <1>11 DEF Extended
<1> QED
  BY <1>12, <1>1, <1>2 DEF t, e

(* The first frame is taken off a stream.                                  *)
Drop(s) == SubSeq(s, s[1].msg.size + 2, Len(s))

(* What is left of it.                                                     *)
LEMMA DropUnits ==
  \A s : s \in Seq(Units) /\ Whole(s) /\ s # <<>> =>
         /\ Drop(s) \in Seq(Units) /\ FrameEnd(s, 1) \in 2 .. Len(s) /\ s[1].part = "prefix"
         /\ Len(Drop(s)) = Len(s) - FrameEnd(s, 1)
         /\ \A i \in 1 .. Len(s) - FrameEnd(s, 1) : Drop(s)[i] = s[i + FrameEnd(s, 1)]
<1>0. SUFFICES ASSUME NEW s, s \in Seq(Units), Whole(s), s # <<>>
               PROVE  /\ Drop(s) \in Seq(Units) /\ FrameEnd(s, 1) \in 2 .. Len(s)
                      /\ s[1].part = "prefix"
                      /\ Len(Drop(s)) = Len(s) - FrameEnd(s, 1)
                      /\ \A i \in 1 .. Len(s) - FrameEnd(s, 1) : Drop(s)[i] = s[i + FrameEnd(s, 1)]
  OBVIOUS
<1>1. PICK L \in Nat : L = Len(s)
  BY <1>0
<1>2. DOMAIN s = 1 .. L /\ L # 0 /\ \A i \in 1 .. L : s[i] \in Units
  BY <1>0, <1>1
<1>3. 1 \in 1 .. L
  BY <1>2
<1>4. PICK k \in Nat \ {0} : k = s[1].msg.size
  BY <1>0, <1>1, <1>3, UnitTypes
<1>5. s[1].part = "prefix"
  BY <1>0 DEF Whole
<1>6. FrameEnd(s, 1) = k + 1 /\ k + 1 \in 1 .. L
  BY <1>0, <1>2, <1>3, <1>4, <1>5 DEF Whole, FrameEnd
<1>7. PICK n \in 2 .. L : n = k + 1 /\ n = FrameEnd(s, 1)
  BY <1>6
<1> DEFINE t == SubSeq(s, n + 1, L)
<1>8. Drop(s) = t
  <2>1. k + 2 = n + 1
    BY <1>7
  <2> QED
    BY <1>1, <1>4, <2>1 DEF Drop
<1>9. /\ t \in Seq(Units) /\ Len(t) = IF n + 1 <= L THEN L - (n + 1) + 1 ELSE 0
      /\ \A i \in 1 .. L - (n + 1) + 1 : t[i] = s[n + 1 + i - 1]
  <2>1. n + 1 \in Int /\ L \in Int /\ \A i \in n + 1 .. L : s[i] \in Units
    BY <1>2
  <2> QED
    BY <2>1, SubSeqProperties
<1> HIDE DEF t
<1>10. Len(t) = L - n
  BY <1>9
<1>11. ASSUME NEW i \in 1 .. L - n PROVE t[i] = s[i + n]
  <2>1. i \in 1 .. L - (n + 1) + 1 /\ n + 1 + i - 1 = i + n
    OBVIOUS
  <2> QED
    BY <1>9, <2>1
<1> QED
  BY <1>1, <1>5, <1>7, <1>8, <1>9, <1>10, <1>11

(* A stream with one more frame is a sequence of whole frames.             *)
LEMMA WholePut ==
  \A s, m : s \in Seq(Units) /\ m \in Messages /\ Whole(s) => Whole(s \o EncodeFrame(m))
<1>0. SUFFICES ASSUME NEW s, NEW m,
                    s \in Seq(Units), m \in Messages, Whole(s)
             PROVE  Whole(s \o EncodeFrame(m))
  OBVIOUS
<1> DEFINE t == s \o EncodeFrame(m)
<1>1. PICK L \in Nat : L = Len(s)
  BY <1>0
<1>2. PICK q \in Nat \ {0} : q = m.size
  BY <1>0 DEF Messages
<1>3. Extended(t, s, m, L, q)
  BY <1>0, <1>1, <1>2, PutUnits
<1> HIDE DEF t
<1>4. /\ Len(t) = L + q + 1 /\ DOMAIN t = 1 .. L + q + 1 /\ t # <<>>
      /\ DOMAIN s = 1 .. L /\ (s = <<>> <=> L = 0)
  BY <1>0, <1>1, <1>3, UnitTypes DEF Extended
<1>5. /\ \A i \in 1 .. L : t[i] = s[i]
      /\ t[L + 1].part = "prefix"
      /\ \A i \in L + 2 .. L + q + 1 : t[i].part = "payload"
      /\ \A i \in L + 1 .. L + q + 1 : t[i].msg = m
  BY <1>3 DEF Extended
<1>6. \A i \in 1 .. L : s[i].msg.size \in Nat \ {0} /\ s[i].msg.seq \in Nat
  BY <1>0, <1>1, UnitTypes
<1>7. \A i \in 1 .. L : FrameEnd(t, i) = FrameEnd(s, i)
  BY <1>5 DEF FrameEnd
<1>8. FrameEnd(t, L + 1) = L + q + 1
  <2>1. t[L + 1].msg = m
    BY <1>5
  <2> QED
    BY <1>2, <2>1 DEF FrameEnd
<1>9. \A i \in 1 .. L + q + 1 : t[i].part = "prefix" => i \in 1 .. L \/ i = L + 1
  BY <1>5
<1>10. \A i \in 1 .. L : s[i].part = "prefix" => FrameEnd(s, i) \in 1 .. L
  BY <1>0, <1>4 DEF Whole
<1>11. t[1].part = "prefix"
  BY <1>0, <1>4, <1>5 DEF Whole
<1>12. ASSUME NEW i \in 1 .. L + q + 1, t[i].part = "prefix"
      PROVE  /\ FrameEnd(t, i) \in 1 .. L + q + 1
             /\ \A j \in (i + 1) .. FrameEnd(t, i) : t[j].part = "payload" /\ t[j].msg = t[i].msg
             /\ FrameEnd(t, i) + 1 \in 1 .. L + q + 1 => t[FrameEnd(t, i) + 1].part = "prefix"
  <2>1. CASE i \in 1 .. L
    <3>1. PICK k \in 1 .. L : k = FrameEnd(s, i) /\ k = FrameEnd(t, i) /\ t[i] = s[i]
      BY <1>5, <1>7, <1>10, <1>12, <2>1
    <3>2. /\ \A j \in (i + 1) .. k : s[j].part = "payload" /\ s[j].msg = s[i].msg
          /\ k + 1 \in 1 .. L => s[k + 1].part = "prefix"
      BY <1>0, <1>4, <1>12, <2>1, <3>1 DEF Whole
    <3>3. \A j \in (i + 1) .. k : t[j] = s[j]
      BY <1>5, <2>1
    <3>4. t[k + 1].part = "prefix"
      <4>1. CASE k + 1 \in 1 .. L
        BY <1>5, <3>2, <4>1
      <4>2. CASE k + 1 \notin 1 .. L
        <5>1. k = L
          BY <4>2
        <5> QED
          BY <1>5, <5>1
      <4> QED
        BY <4>1, <4>2
    <3>5. k \in 1 .. L + q + 1
      OBVIOUS
    <3> QED
      BY <3>1, <3>2, <3>3, <3>4, <3>5
  <2>2. CASE i = L + 1
    <3>1. \A j \in i + 1 .. L + q + 1 : t[j].part = "payload" /\ t[j].msg = m
      BY <1>5, <2>2
    <3>2. t[i].msg = m
      BY <1>5, <2>2
    <3> QED
      BY <1>8, <2>2, <3>1, <3>2
  <2> QED
    BY <1>9, <1>12, <2>1, <2>2
<1> QED
  BY <1>4, <1>11, <1>12 DEF t, Whole

(* So is a stream without its first frame.                                 *)
LEMMA WholeDrop ==
  \A s : s \in Seq(Units) /\ Whole(s) /\ s # <<>> => Whole(Drop(s))
<1>0. SUFFICES ASSUME NEW s,
                    s \in Seq(Units), Whole(s), s # <<>>
             PROVE  Whole(Drop(s))
  OBVIOUS
<1> DEFINE t == Drop(s)
<1>1. PICK L \in Nat : L = Len(s)
  BY <1>0
<1>2. PICK n \in 2 .. L : n = FrameEnd(s, 1)
  BY <1>0, <1>1, DropUnits
<1>3. /\ Len(t) = L - n /\ DOMAIN t = 1 .. L - n /\ (t = <<>> <=> L = n)
      /\ DOMAIN s = 1 .. L /\ 1 \in 1 .. L /\ s[1].part = "prefix"
  <2>1. t \in Seq(Units) /\ Len(t) = L - n /\ s[1].part = "prefix"
    BY <1>0, <1>1, <1>2, DropUnits
  <2> HIDE DEF t
  <2> QED
    BY <1>0, <1>1, <2>1, UnitTypes
<1>4. \A i \in 1 .. L - n : t[i] = s[i + n]
  BY <1>0, <1>1, <1>2, <1>3, DropUnits
<1>5. \A i \in 1 .. L : s[i].msg.size \in Nat \ {0} /\ s[i].msg.seq \in Nat
  BY <1>0, <1>1, UnitTypes
<1> HIDE DEF t
<1>6. \A i \in 1 .. L - n : i + n \in 1 .. L
  OBVIOUS
<1>7. \A i \in 1 .. L - n : FrameEnd(s, i + n) = FrameEnd(t, i) + n /\ FrameEnd(t, i) \in Nat
  <2> SUFFICES ASSUME NEW i \in 1 .. L - n
               PROVE  FrameEnd(s, i + n) = FrameEnd(t, i) + n /\ FrameEnd(t, i) \in Nat
    OBVIOUS
  <2>1. PICK z \in Nat : z = s[i + n].msg.size
    BY <1>5, <1>6
  <2>2. t[i].msg.size = z
    BY <1>4, <2>1
  <2> QED
    BY <2>1, <2>2 DEF FrameEnd
<1>8. \A i \in 1 .. L : s[i].part = "prefix" => FrameEnd(s, i) \in 1 .. L
  BY <1>0, <1>3 DEF Whole
<1>9. \A i \in 1 .. L - n : t[i].part = "prefix" =>
         \E k \in 1 .. L - n : k = FrameEnd(t, i) /\ k + n = FrameEnd(s, i + n) /\ i < k
  <2> SUFFICES ASSUME NEW i \in 1 .. L - n, t[i].part = "prefix"
               PROVE  FrameEnd(t, i) \in 1 .. L - n /\ i < FrameEnd(t, i)
    BY <1>7
  <2>1. PICK z \in Nat \ {0} : z = s[i + n].msg.size
    BY <1>5, <1>6
  <2>2. t[i].msg.size = z
    BY <1>4, <2>1
  <2>3. i + n + z \in 1 .. L
    BY <1>4, <1>6, <1>8, <2>1 DEF FrameEnd
  <2> QED
    BY <2>2, <2>3 DEF FrameEnd
<1>10. n + 1 \in 1 .. L => s[n + 1].part = "prefix"
  BY <1>0, <1>2, <1>3 DEF Whole
<1>11. t # <<>> => t[1].part = "prefix"
  <2>1. L # n => 1 \in 1 .. L - n /\ n + 1 \in 1 .. L /\ 1 + n = n + 1
    OBVIOUS
  <2> QED
    BY <1>3, <1>4, <1>10, <2>1
<1>12. ASSUME NEW i \in 1 .. L - n, t[i].part = "prefix"
      PROVE  /\ FrameEnd(t, i) \in 1 .. L - n
             /\ \A j \in (i + 1) .. FrameEnd(t, i) : t[j].part = "payload" /\ t[j].msg = t[i].msg
             /\ FrameEnd(t, i) + 1 \in 1 .. L - n => t[FrameEnd(t, i) + 1].part = "prefix"
  <2>1. PICK k \in 1 .. L - n : k = FrameEnd(t, i) /\ k + n = FrameEnd(s, i + n)
    BY <1>9, <1>12
  <2>2. i + n \in 1 .. L /\ t[i] = s[i + n]
    BY <1>4, <1>6
  <2>3. /\ \A j \in (i + n + 1) .. k + n : s[j].part = "payload" /\ s[j].msg = s[i + n].msg
        /\ k + n + 1 \in 1 .. L => s[k + n + 1].part = "prefix"
    <3>1. DOMAIN s = 1 .. L
      BY <1>3
    <3>2. i + n \in DOMAIN s /\ s[i + n].part = "prefix"
      BY <1>12, <2>2, <3>1
    <3>3. /\ \A j \in ((i + n) + 1) .. FrameEnd(s, i + n) : s[j].part = "payload" /\ s[j].msg = s[i + n].msg
          /\ FrameEnd(s, i + n) + 1 \in DOMAIN s => s[FrameEnd(s, i + n) + 1].part = "prefix"
      BY <1>0, <3>2, Zenon DEF Whole
    <3> QED
      BY <2>1, <3>1, <3>3, Zenon
  <2>4. ASSUME NEW j \in (i + 1) .. k PROVE t[j].part = "payload" /\ t[j].msg = t[i].msg
    <3>1. j \in 1 .. L - n /\ j + n \in (i + n + 1) .. k + n
      OBVIOUS
    <3> QED
      BY <1>4, <2>2, <2>3, <3>1
  <2>5. ASSUME k + 1 \in 1 .. L - n PROVE t[k + 1].part = "prefix"
    <3>1. (k + 1) + n = k + n + 1 /\ k + n + 1 \in 1 .. L
      BY <2>5
    <3>2. t[k + 1] = s[(k + 1) + n]
      BY <1>4, <2>5
    <3> QED
      BY <2>3, <3>1, <3>2
  <2> QED
    BY <2>1, <2>4, <2>5
<1> QED
  BY <1>3, <1>11, <1>12 DEF t, Whole

(* A frame with the next number continues the numbering.                   *)
LEMMA NumberedPut ==
  \A s, m, lo, hi :
     /\ s \in Seq(Units) /\ m \in Messages /\ Whole(s) /\ lo \in Nat /\ hi \in Nat
     /\ Numbered(s, lo, hi) /\ m.seq = hi + 1
     => Numbered(s \o EncodeFrame(m), lo, hi + 1)
<1>0. SUFFICES ASSUME NEW s, NEW m, NEW lo \in Nat, NEW hi \in Nat,
                    s \in Seq(Units), m \in Messages, Whole(s),
                    Numbered(s, lo, hi), m.seq = hi + 1
             PROVE  Numbered(s \o EncodeFrame(m), lo, hi + 1)
  OBVIOUS
<1> DEFINE t == s \o EncodeFrame(m)
<1>1. PICK L \in Nat : L = Len(s)
  BY <1>0
<1>2. PICK q \in Nat \ {0} : q = m.size
  BY <1>0 DEF Messages
<1>3. Extended(t, s, m, L, q)
  BY <1>0, <1>1, <1>2, PutUnits
<1> HIDE DEF t
<1>4. /\ Len(t) = L + q + 1 /\ DOMAIN t = 1 .. L + q + 1 /\ t # <<>>
      /\ DOMAIN s = 1 .. L /\ (s = <<>> <=> L = 0)
  BY <1>0, <1>1, <1>3, UnitTypes DEF Extended
<1>5. /\ \A i \in 1 .. L : t[i] = s[i]
      /\ t[L + 1].part = "prefix"
      /\ \A i \in L + 2 .. L + q + 1 : t[i].part = "payload"
      /\ \A i \in L + 1 .. L + q + 1 : t[i].msg = m
  BY <1>3 DEF Extended
<1>6. \A i \in 1 .. L : s[i].msg.size \in Nat \ {0} /\ s[i].msg.seq \in Nat
  BY <1>0, <1>1, UnitTypes
<1>7. \A i \in 1 .. L : FrameEnd(t, i) = FrameEnd(s, i)
  BY <1>5 DEF FrameEnd
<1>8. FrameEnd(t, L + 1) = L + q + 1
  <2>1. t[L + 1].msg = m
    BY <1>5
  <2> QED
    BY <1>2, <2>1 DEF FrameEnd
<1>9. \A i \in 1 .. L + q + 1 : t[i].part = "prefix" => i \in 1 .. L \/ i = L + 1
  BY <1>5
<1>10. \A i \in 1 .. L : s[i].part = "prefix" => FrameEnd(s, i) \in 1 .. L
  BY <1>0, <1>4 DEF Whole
<1>11. /\ \A i \in 1 .. L : lo < s[i].msg.seq /\ s[i].msg.seq <= hi /\ s[i].msg.seq \in Nat
       /\ L = 0 => lo = hi
       /\ L # 0 => s[1].msg.seq = lo + 1
  BY <1>0, <1>4, <1>6 DEF Numbered
<1>12. lo <= hi
  <2>1. CASE L = 0
    BY <1>11, <2>1
  <2>2. CASE L # 0
    <3>1. 1 \in 1 .. L
      BY <2>2
    <3> QED
      BY <1>11, <3>1
  <2> QED
    BY <2>1, <2>2
<1>13. \A i \in L + 1 .. L + q + 1 : t[i].msg.seq = hi + 1
  BY <1>0, <1>5
<1>14. t[1].msg.seq = lo + 1
  <2>1. CASE L = 0
    BY <1>11, <1>13, <2>1
  <2>2. CASE L # 0
    BY <1>5, <1>11, <2>2
  <2> QED
    BY <2>1, <2>2
<1>15. ASSUME NEW i \in 1 .. L + q + 1 PROVE lo < t[i].msg.seq /\ t[i].msg.seq <= hi + 1
  <2>1. CASE i \in 1 .. L
    BY <1>5, <1>11, <2>1
  <2>2. CASE i \in L + 1 .. L + q + 1
    BY <1>12, <1>13, <2>2
  <2> QED
    BY <2>1, <2>2
<1>16. ASSUME NEW i \in 1 .. L + q + 1, NEW j \in 1 .. L + q + 1, t[i].part = "prefix",
              FrameEnd(t, i) < j
      PROVE  t[i].msg.seq < t[j].msg.seq
  <2>1. i \in 1 .. L
    BY <1>8, <1>9, <1>16
  <2>2. t[i] = s[i] /\ FrameEnd(s, i) < j
    BY <1>5, <1>7, <1>16, <2>1
  <2>3. CASE j \in 1 .. L
    <3>1. s[i].msg.seq < s[j].msg.seq
      BY <1>0, <1>4, <1>16, <2>1, <2>2, <2>3 DEF Numbered
    <3> QED
      BY <1>5, <2>2, <2>3, <3>1
  <2>4. CASE j \in L + 1 .. L + q + 1
    BY <1>11, <1>13, <2>1, <2>2, <2>4
  <2> QED
    BY <2>3, <2>4
<1>17. ASSUME NEW i \in 1 .. L + q + 1, t[i].part = "prefix"
      PROVE  IF FrameEnd(t, i) = L + q + 1 THEN t[i].msg.seq = hi + 1
             ELSE t[FrameEnd(t, i) + 1].msg.seq = t[i].msg.seq + 1
  <2>1. CASE i \in 1 .. L
    <3>1. PICK k \in 1 .. L : k = FrameEnd(s, i) /\ k = FrameEnd(t, i) /\ t[i] = s[i]
      BY <1>5, <1>7, <1>10, <1>17, <2>1
    <3>2. IF k = L THEN s[i].msg.seq = hi ELSE s[k + 1].msg.seq = s[i].msg.seq + 1
      BY <1>0, <1>1, <1>4, <1>17, <2>1, <3>1 DEF Numbered
    <3>3. k # L + q + 1
      OBVIOUS
    <3>4. t[k + 1].msg.seq = t[i].msg.seq + 1
      <4>1. CASE k = L
        <5>1. t[k + 1].msg.seq = hi + 1
          BY <1>13, <4>1
        <5> QED
          BY <3>1, <3>2, <4>1, <5>1
      <4>2. CASE k # L
        <5>1. t[k + 1] = s[k + 1]
          BY <1>5, <4>2
        <5> QED
          BY <3>1, <3>2, <4>2, <5>1
      <4> QED
        BY <4>1, <4>2
    <3> QED
      BY <3>1, <3>3, <3>4
  <2>2. CASE i = L + 1
    BY <1>8, <1>13, <2>2
  <2> QED
    BY <1>9, <1>17, <2>1, <2>2
<1> QED
  BY <1>4, <1>14, <1>15, <1>16, <1>17 DEF t, Numbered

(* Without its first frame a stream is numbered from the next number on.   *)
LEMMA NumberedDrop ==
  \A s, lo, hi :
     /\ s \in Seq(Units) /\ Whole(s) /\ s # <<>> /\ lo \in Nat /\ hi \in Nat /\ Numbered(s, lo, hi)
     => Numbered(Drop(s), lo + 1, hi)
<1>0. SUFFICES ASSUME NEW s, NEW lo \in Nat, NEW hi \in Nat,
                    s \in Seq(Units), Whole(s), s # <<>>, Numbered(s, lo, hi)
             PROVE  Numbered(Drop(s), lo + 1, hi)
  OBVIOUS
<1> DEFINE t == Drop(s)
<1>1. PICK L \in Nat : L = Len(s)
  BY <1>0
<1>2. PICK n \in 2 .. L : n = FrameEnd(s, 1)
  BY <1>0, <1>1, DropUnits
<1>3. /\ Len(t) = L - n /\ DOMAIN t = 1 .. L - n /\ (t = <<>> <=> L = n)
      /\ DOMAIN s = 1 .. L /\ 1 \in 1 .. L /\ s[1].part = "prefix"
  <2>1. t \in Seq(Units) /\ Len(t) = L - n /\ s[1].part = "prefix"
    BY <1>0, <1>1, <1>2, DropUnits
  <2> HIDE DEF t
  <2> QED
    BY <1>0, <1>1, <2>1, UnitTypes
<1>4. \A i \in 1 .. L - n : t[i] = s[i + n]
  BY <1>0, <1>1, <1>2, <1>3, DropUnits
<1>5. \A i \in 1 .. L : s[i].msg.size \in Nat \ {0} /\ s[i].msg.seq \in Nat
  BY <1>0, <1>1, UnitTypes
<1> HIDE DEF t
<1>6. \A i \in 1 .. L - n : i + n \in 1 .. L
  OBVIOUS
<1>7. \A i \in 1 .. L - n : FrameEnd(s, i + n) = FrameEnd(t, i) + n /\ FrameEnd(t, i) \in Nat
  <2> SUFFICES ASSUME NEW i \in 1 .. L - n
               PROVE  FrameEnd(s, i + n) = FrameEnd(t, i) + n /\ FrameEnd(t, i) \in Nat
    OBVIOUS
  <2>1. PICK z \in Nat : z = s[i + n].msg.size
    BY <1>5, <1>6
  <2>2. t[i].msg.size = z
    BY <1>4, <2>1
  <2> QED
    BY <2>1, <2>2 DEF FrameEnd
<1>8. \A i \in 1 .. L : s[i].part = "prefix" => FrameEnd(s, i) \in 1 .. L
  BY <1>0, <1>3 DEF Whole
<1>9. \A i \in 1 .. L - n : t[i].part = "prefix" =>
         \E k \in 1 .. L - n : k = FrameEnd(t, i) /\ k + n = FrameEnd(s, i + n) /\ i < k
  <2> SUFFICES ASSUME NEW i \in 1 .. L - n, t[i].part = "prefix"
               PROVE  FrameEnd(t, i) \in 1 .. L - n /\ i < FrameEnd(t, i)
    BY <1>7
  <2>1. PICK z \in Nat \ {0} : z = s[i + n].msg.size
    BY <1>5, <1>6
  <2>2. t[i].msg.size = z
    BY <1>4, <2>1
  <2>3. i + n + z \in 1 .. L
    BY <1>4, <1>6, <1>8, <2>1 DEF FrameEnd
  <2> QED
    BY <2>2, <2>3 DEF FrameEnd
<1>10. /\ s[1].msg.seq = lo + 1
       /\ \A j \in 1 .. L : n < j => s[1].msg.seq < s[j].msg.seq
       /\ IF n = L THEN s[1].msg.seq = hi ELSE s[n + 1].msg.seq = s[1].msg.seq + 1
       /\ \A j \in 1 .. L : s[j].msg.seq <= hi
  BY <1>0, <1>1, <1>2, <1>3 DEF Numbered
<1>11. t = <<>> => lo + 1 = hi
  BY <1>3, <1>10
<1>12. t # <<>> => t[1].msg.seq = lo + 1 + 1
  <2>1. L # n => 1 \in 1 .. L - n /\ 1 + n = n + 1
    OBVIOUS
  <2> QED
    BY <1>3, <1>4, <1>10, <2>1
<1>13. ASSUME NEW i \in 1 .. L - n PROVE lo + 1 < t[i].msg.seq /\ t[i].msg.seq <= hi
  <2>1. n < i + n /\ i + n \in 1 .. L
    OBVIOUS
  <2> QED
    BY <1>4, <1>10, <2>1
<1>14. ASSUME NEW i \in 1 .. L - n, NEW j \in 1 .. L - n, t[i].part = "prefix", FrameEnd(t, i) < j
      PROVE  t[i].msg.seq < t[j].msg.seq
  <2>1. FrameEnd(s, i + n) < j + n
    BY <1>7, <1>14
  <2>2. i + n \in 1 .. L /\ j + n \in 1 .. L /\ t[i] = s[i + n] /\ t[j] = s[j + n]
    BY <1>4, <1>6
  <2> QED
    BY <1>0, <1>3, <1>14, <2>1, <2>2 DEF Numbered
<1>15. ASSUME NEW i \in 1 .. L - n, t[i].part = "prefix"
      PROVE  IF FrameEnd(t, i) = L - n THEN t[i].msg.seq = hi
             ELSE t[FrameEnd(t, i) + 1].msg.seq = t[i].msg.seq + 1
  <2>1. PICK k \in 1 .. L - n : k = FrameEnd(t, i) /\ k + n = FrameEnd(s, i + n)
    BY <1>9, <1>15
  <2>2. i + n \in 1 .. L /\ t[i] = s[i + n]
    BY <1>4, <1>6
  <2>3. IF k + n = L THEN s[i + n].msg.seq = hi ELSE s[k + n + 1].msg.seq = s[i + n].msg.seq + 1
    BY <1>0, <1>1, <1>3, <1>15, <2>1, <2>2 DEF Numbered
  <2>4. CASE k = L - n
    BY <2>1, <2>2, <2>3, <2>4
  <2>5. CASE k # L - n
    <3>1. k + 1 \in 1 .. L - n /\ k + n # L /\ k + n + 1 = (k + 1) + n
      BY <2>5
    <3>2. t[k + 1] = s[(k + 1) + n]
      BY <1>4, <3>1
    <3> QED
      BY <2>1, <2>2, <2>3, <2>5, <3>1, <3>2
  <2> QED
    BY <2>4, <2>5
<1> QED
  BY <1>3, <1>11, <1>12, <1>13, <1>14, <1>15 DEF t, Numbered

(* A frame made under the last vector continues the chain.                 *)
LEMMA ChainedPut ==
  \A s, m, v, w :
     /\ s \in Seq(Units) /\ m \in Messages /\ Whole(s) /\ Chained(s, v, w) /\ m.iv = w
     => Chained(s \o EncodeFrame(m), v, VectorAfter(m))
<1>0. SUFFICES ASSUME NEW s, NEW m, NEW v, NEW w,
                    s \in Seq(Units), m \in Messages, Whole(s), Chained(s, v, w), m.iv = w
             PROVE  Chained(s \o EncodeFrame(m), v, VectorAfter(m))
  OBVIOUS
<1> DEFINE t == s \o EncodeFrame(m)
<1>1. PICK L \in Nat : L = Len(s)
  BY <1>0
<1>2. PICK q \in Nat \ {0} : q = m.size
  BY <1>0 DEF Messages
<1>3. Extended(t, s, m, L, q)
  BY <1>0, <1>1, <1>2, PutUnits
<1> HIDE DEF t
<1>4. /\ Len(t) = L + q + 1 /\ DOMAIN t = 1 .. L + q + 1 /\ t # <<>>
      /\ DOMAIN s = 1 .. L /\ (s = <<>> <=> L = 0)
  BY <1>0, <1>1, <1>3, UnitTypes DEF Extended
<1>5. /\ \A i \in 1 .. L : t[i] = s[i]
      /\ t[L + 1].part = "prefix"
      /\ \A i \in L + 2 .. L + q + 1 : t[i].part = "payload"
      /\ \A i \in L + 1 .. L + q + 1 : t[i].msg = m
  BY <1>3 DEF Extended
<1>6. \A i \in 1 .. L : s[i].msg.size \in Nat \ {0} /\ s[i].msg.seq \in Nat
  BY <1>0, <1>1, UnitTypes
<1>7. \A i \in 1 .. L : FrameEnd(t, i) = FrameEnd(s, i)
  BY <1>5 DEF FrameEnd
<1>8. FrameEnd(t, L + 1) = L + q + 1
  <2>1. t[L + 1].msg = m
    BY <1>5
  <2> QED
    BY <1>2, <2>1 DEF FrameEnd
<1>9. \A i \in 1 .. L + q + 1 : t[i].part = "prefix" => i \in 1 .. L \/ i = L + 1
  BY <1>5
<1>10. \A i \in 1 .. L : s[i].part = "prefix" => FrameEnd(s, i) \in 1 .. L
  BY <1>0, <1>4 DEF Whole
<1>11. t[1].msg.iv = v
  <2>1. CASE L = 0
    <3>1. t[1].msg = m /\ v = w
      BY <1>0, <1>4, <1>5, <2>1 DEF Chained
    <3> QED
      BY <1>0, <3>1
  <2>2. CASE L # 0
    <3>1. s[1].msg.iv = v
      BY <1>0, <1>4, <2>2 DEF Chained
    <3> QED
      BY <1>5, <2>2, <3>1
  <2> QED
    BY <2>1, <2>2
<1>12. ASSUME NEW i \in 1 .. L + q + 1, t[i].part = "prefix"
      PROVE  IF FrameEnd(t, i) = L + q + 1 THEN VectorAfter(t[i].msg) = VectorAfter(m)
             ELSE t[FrameEnd(t, i) + 1].msg.iv = VectorAfter(t[i].msg)
  <2>1. CASE i \in 1 .. L
    <3>1. PICK k \in 1 .. L : k = FrameEnd(s, i) /\ k = FrameEnd(t, i) /\ t[i] = s[i]
      BY <1>5, <1>7, <1>10, <1>12, <2>1
    <3>2. IF k = L THEN VectorAfter(s[i].msg) = w ELSE s[k + 1].msg.iv = VectorAfter(s[i].msg)
      BY <1>0, <1>1, <1>4, <1>12, <2>1, <3>1 DEF Chained
    <3>3. k # L + q + 1
      OBVIOUS
    <3>4. t[k + 1].msg.iv = VectorAfter(t[i].msg)
      <4>1. CASE k = L
        <5>1. t[k + 1].msg = m
          BY <1>5, <4>1
        <5> QED
          BY <1>0, <3>1, <3>2, <4>1, <5>1
      <4>2. CASE k # L
        <5>1. t[k + 1] = s[k + 1]
          BY <1>5, <4>2
        <5> QED
          BY <3>1, <3>2, <4>2, <5>1
      <4> QED
        BY <4>1, <4>2
    <3> QED
      BY <3>1, <3>3, <3>4
  <2>2. CASE i = L + 1
    <3>1. t[i].msg = m
      BY <1>5, <2>2
    <3> QED
      BY <1>8, <2>2, <3>1
  <2> QED
    BY <1>9, <1>12, <2>1, <2>2
<1> QED
  BY <1>4, <1>11, <1>12 DEF t, Chained

(* Without its first frame the chain starts at the vector that frame left. *)
LEMMA ChainedDrop ==
  \A s, v, w :
     /\ s \in Seq(Units) /\ Whole(s) /\ s # <<>> /\ Chained(s, v, w)
     => Chained(Drop(s), VectorAfter(s[1].msg), w)
<1>0. SUFFICES ASSUME NEW s, NEW v, NEW w,
                    s \in Seq(Units), Whole(s), s # <<>>, Chained(s, v, w)
             PROVE  Chained(Drop(s), VectorAfter(s[1].msg), w)
  OBVIOUS
<1> DEFINE t == Drop(s)
<1>1. PICK L \in Nat : L = Len(s)
  BY <1>0
<1>2. PICK n \in 2 .. L : n = FrameEnd(s, 1)
  BY <1>0, <1>1, DropUnits
<1>3. /\ Len(t) = L - n /\ DOMAIN t = 1 .. L - n /\ (t = <<>> <=> L = n)
      /\ DOMAIN s = 1 .. L /\ 1 \in 1 .. L /\ s[1].part = "prefix"
  <2>1. t \in Seq(Units) /\ Len(t) = L - n /\ s[1].part = "prefix"
    BY <1>0, <1>1, <1>2, DropUnits
  <2> HIDE DEF t
  <2> QED
    BY <1>0, <1>1, <2>1, UnitTypes
<1>4. \A i \in 1 .. L - n : t[i] = s[i + n]
  BY <1>0, <1>1, <1>2, <1>3, DropUnits
<1>5. \A i \in 1 .. L : s[i].msg.size \in Nat \ {0} /\ s[i].msg.seq \in Nat
  BY <1>0, <1>1, UnitTypes
<1> HIDE DEF t
<1>6. \A i \in 1 .. L - n : i + n \in 1 .. L
  OBVIOUS
<1>7. \A i \in 1 .. L - n : FrameEnd(s, i + n) = FrameEnd(t, i) + n /\ FrameEnd(t, i) \in Nat
  <2> SUFFICES ASSUME NEW i \in 1 .. L - n
               PROVE  FrameEnd(s, i + n) = FrameEnd(t, i) + n /\ FrameEnd(t, i) \in Nat
    OBVIOUS
  <2>1. PICK z \in Nat : z = s[i + n].msg.size
    BY <1>5, <1>6
  <2>2. t[i].msg.size = z
    BY <1>4, <2>1
  <2> QED
    BY <2>1, <2>2 DEF FrameEnd
<1>8. \A i \in 1 .. L : s[i].part = "prefix" => FrameEnd(s, i) \in 1 .. L
  BY <1>0, <1>3 DEF Whole
<1>9. \A i \in 1 .. L - n : t[i].part = "prefix" =>
         \E k \in 1 .. L - n : k = FrameEnd(t, i) /\ k + n = FrameEnd(s, i + n) /\ i < k
  <2> SUFFICES ASSUME NEW i \in 1 .. L - n, t[i].part = "prefix"
               PROVE  FrameEnd(t, i) \in 1 .. L - n /\ i < FrameEnd(t, i)
    BY <1>7
  <2>1. PICK z \in Nat \ {0} : z = s[i + n].msg.size
    BY <1>5, <1>6
  <2>2. t[i].msg.size = z
    BY <1>4, <2>1
  <2>3. i + n + z \in 1 .. L
    BY <1>4, <1>6, <1>8, <2>1 DEF FrameEnd
  <2> QED
    BY <2>2, <2>3 DEF FrameEnd
<1>10. IF n = L THEN VectorAfter(s[1].msg) = w ELSE s[n + 1].msg.iv = VectorAfter(s[1].msg)
  BY <1>0, <1>1, <1>2, <1>3 DEF Chained
<1>11. t = <<>> => VectorAfter(s[1].msg) = w
  BY <1>3, <1>10
<1>12. t # <<>> => t[1].msg.iv = VectorAfter(s[1].msg)
  <2>1. L # n => 1 \in 1 .. L - n /\ 1 + n = n + 1
    OBVIOUS
  <2> QED
    BY <1>3, <1>4, <1>10, <2>1
<1>13. ASSUME NEW i \in 1 .. L - n, t[i].part = "prefix"
      PROVE  IF FrameEnd(t, i) = L - n THEN VectorAfter(t[i].msg) = w
             ELSE t[FrameEnd(t, i) + 1].msg.iv = VectorAfter(t[i].msg)
  <2>1. PICK k \in 1 .. L - n : k = FrameEnd(t, i) /\ k + n = FrameEnd(s, i + n)
    BY <1>9, <1>13
  <2>2. i + n \in 1 .. L /\ t[i] = s[i + n]
    BY <1>4, <1>6
  <2>3. IF k + n = L THEN VectorAfter(s[i + n].msg) = w
        ELSE s[k + n + 1].msg.iv = VectorAfter(s[i + n].msg)
    BY <1>0, <1>1, <1>3, <1>13, <2>1, <2>2 DEF Chained
  <2>4. CASE k = L - n
    BY <2>1, <2>2, <2>3, <2>4
  <2>5. CASE k # L - n
    <3>1. k + 1 \in 1 .. L - n /\ k + n # L /\ k + n + 1 = (k + 1) + n
      BY <2>5
    <3>2. t[k + 1] = s[(k + 1) + n]
      BY <1>4, <3>1
    <3> QED
      BY <2>1, <2>2, <2>3, <2>5, <3>1, <3>2
  <2> QED
    BY <2>4, <2>5
<1> QED
  BY <1>3, <1>11, <1>12, <1>13 DEF t, Chained

(* Of this connection stays every message of a stream that grows.          *)
LEMMA ConnectionPut ==
  \A s, m, g : /\ s \in Seq(Units) /\ m \in Messages /\ OfConnection(s, g)
               /\ m.gen = g /\ (m.shape = "ok_cc" => m.seq <= 5)
               => OfConnection(s \o EncodeFrame(m), g)
<1>0. SUFFICES ASSUME NEW s, NEW m, NEW g, s \in Seq(Units), m \in Messages, OfConnection(s, g),
                      m.gen = g, m.shape = "ok_cc" => m.seq <= 5
               PROVE  OfConnection(s \o EncodeFrame(m), g)
  OBVIOUS
<1> DEFINE t == s \o EncodeFrame(m)
<1>1. PICK L \in Nat : L = Len(s)
  BY <1>0
<1>2. PICK q \in Nat \ {0} : q = m.size
  BY <1>0 DEF Messages
<1>3. Extended(t, s, m, L, q)
  BY <1>0, <1>1, <1>2, PutUnits
<1> HIDE DEF t
<1>4. DOMAIN t = 1 .. L + q + 1 /\ DOMAIN s = 1 .. L
  BY <1>0, <1>1, <1>3 DEF Extended
<1>5. ASSUME NEW i \in 1 .. L + q + 1
      PROVE  t[i].msg.gen = g /\ (t[i].msg.shape = "ok_cc" => t[i].msg.seq <= 5)
  <2>1. CASE i \in 1 .. L
    BY <1>0, <1>3, <1>4, <2>1 DEF Extended, OfConnection
  <2>2. CASE i \in L + 1 .. L + q + 1
    BY <1>0, <1>3, <2>2 DEF Extended
  <2> QED
    BY <2>1, <2>2
<1> QED
  BY <1>4, <1>5 DEF t, OfConnection

(* A message of a stream without its first frame is one of the stream.     *)
LEMMA DropMessages ==
  \A s : s \in Seq(Units) /\ Whole(s) /\ s # <<>> =>
     /\ Drop(s) \in Seq(Units)
     /\ \A i \in DOMAIN Drop(s) : \E j \in DOMAIN s : Drop(s)[i] = s[j]
     /\ \A j \in DOMAIN s : s[j].msg = s[1].msg \/ \E i \in DOMAIN Drop(s) : Drop(s)[i] = s[j]
<1>0. SUFFICES ASSUME NEW s, s \in Seq(Units), Whole(s), s # <<>>
               PROVE  /\ Drop(s) \in Seq(Units)
                      /\ \A i \in DOMAIN Drop(s) : \E j \in DOMAIN s : Drop(s)[i] = s[j]
                      /\ \A j \in DOMAIN s : \/ s[j].msg = s[1].msg
                                             \/ \E i \in DOMAIN Drop(s) : Drop(s)[i] = s[j]
  OBVIOUS
<1>1. PICK L \in Nat : L = Len(s)
  BY <1>0
<1>2. PICK n \in 2 .. L : n = FrameEnd(s, 1)
  BY <1>0, <1>1, DropUnits
<1>3. /\ Drop(s) \in Seq(Units) /\ Len(Drop(s)) = L - n /\ s[1].part = "prefix"
      /\ \A i \in 1 .. L - n : Drop(s)[i] = s[i + n]
  BY <1>0, <1>1, <1>2, DropUnits
<1>4. DOMAIN s = 1 .. L /\ DOMAIN Drop(s) = 1 .. L - n
  BY <1>0, <1>1, <1>3
<1>5. \A j \in 2 .. n : s[j].msg = s[1].msg
  <2>1. 1 \in 1 .. L
    OBVIOUS
  <2> QED
    BY <1>0, <1>2, <1>3, <1>4, <2>1 DEF Whole
<1>6. ASSUME NEW j \in 1 .. L
      PROVE  s[j].msg = s[1].msg \/ \E i \in 1 .. L - n : Drop(s)[i] = s[j]
  <2>1. CASE j <= n
    BY <1>5, <2>1
  <2>2. CASE j > n
    <3>1. j - n \in 1 .. L - n /\ (j - n) + n = j
      BY <2>2
    <3> QED
      BY <1>3, <3>1
  <2> QED
    BY <2>1, <2>2
<1>7. \A i \in 1 .. L - n : i + n \in 1 .. L
  OBVIOUS
<1> QED
  BY <1>3, <1>4, <1>6, <1>7

(* And so is every message of a stream that shrinks.                       *)
LEMMA ConnectionDrop ==
  \A s, g : s \in Seq(Units) /\ Whole(s) /\ s # <<>> /\ OfConnection(s, g) => OfConnection(Drop(s), g)
BY DropMessages DEF OfConnection

(* Parts of the stream can be joined in any order. *)
LEMMA StreamAssociative ==
  ASSUME NEW a \in Seq(Units), NEW b \in Seq(Units), NEW d \in Seq(Units)
  PROVE  (d \o a) \o b = d \o (a \o b)
BY ConcatAssociative

(* What is read of a stream is its front.                                  *)
LEMMA ReadUnits ==
  ASSUME NEW d \in Seq(Units), NEW c \in Seq(Units), NEW n \in 1 .. Len(c)
  PROVE  /\ d \o SubSeq(c, 1, n) \in Seq(Units) /\ SubSeq(c, n + 1, Len(c)) \in Seq(Units)
         /\ (d \o SubSeq(c, 1, n)) \o SubSeq(c, n + 1, Len(c)) = d \o c
<1>1. Len(c) \in Nat /\ \A i \in 1 .. Len(c) : c[i] \in Units
  OBVIOUS
<1>2. PICK a \in Seq(Units) : a = SubSeq(c, 1, n)
  <2>1. SubSeq(c, 1, n) \in Seq(Units)
    BY <1>1
  <2> QED
    BY <2>1, Zenon
<1>3. PICK b \in Seq(Units) : b = SubSeq(c, n + 1, Len(c))
  <2>1. SubSeq(c, n + 1, Len(c)) \in Seq(Units)
    BY <1>1
  <2> QED
    BY <2>1, Zenon
<1>4. a \o b = c
  <2>1. SubSeq(c, 1, n) \o SubSeq(c, n + 1, Len(c)) = SubSeq(c, 1, Len(c))
    BY <1>1, ConcatAdjacentSubSeq
  <2> QED
    BY <1>2, <1>3, <2>1, SubSeqFull
<1>5. (d \o a) \o b = d \o (a \o b)
  BY StreamAssociative, Zenon
<1>6. d \o a \in Seq(Units)
  BY ConcatProperties
<1> QED
  BY <1>2, <1>3, <1>4, <1>5, <1>6, Zenon

-----------------------------------------------------------------------------
(* The lines of the handshake. *)

Inbound == {1, 5, 7, 8, 10}

(* The script: who sends on which line, and what.                          *)
LEMMA LineFacts ==
  /\ LastLine = 10 /\ EstablishSession[10].to = "Session"
  /\ \A k \in 1 .. 10 :
        /\ EstablishSession[k].op = IF k \in Inbound THEN "recv" ELSE "send"
        /\ ServerScript[k].op = IF k \in Inbound THEN "send" ELSE "recv"
        /\ ServerScript[k].shape = EstablishSession[k].shape
        /\ EstablishSession[k].shape \notin {"other", "none"} /\ EstablishSession[k].shape \in Shapes
        /\ EstablishSession[k].shape = "ok_cc" <=> k = 5
<1> USE DEF EstablishSession, OnVersionExchangeServer, BuildVersionExchangeClient, OnVkSent,
            OnCryptoRequestSent, OnOkCc, OnLoginChallengeSent, OnPasswordVersion,
            OnCryptoServerHandshake, OnHandshakeResultSent, OnCryptoHandshakeAck, Line,
            BuildVkCommand, BuildCryptoRequest, BuildLoginChallenge, BuildHandshakeResult
<1>1. LastLine = 10 /\ EstablishSession[10].to = "Session"
  BY DEF LastLine
<1>2. ASSUME NEW k \in 1 .. 10
      PROVE  /\ EstablishSession[k].op = IF k \in Inbound THEN "recv" ELSE "send"
             /\ EstablishSession[k].shape \notin {"other", "none"}
             /\ EstablishSession[k].shape \in Shapes
             /\ EstablishSession[k].shape = "ok_cc" <=> k = 5
  <2>1. k = 1 \/ k = 2 \/ k = 3 \/ k = 4 \/ k = 5 \/ k = 6 \/ k = 7 \/ k = 8 \/ k = 9 \/ k = 10
    OBVIOUS
  <2>2. EstablishSession[k].op = IF k \in Inbound THEN "recv" ELSE "send"
    BY <2>1 DEF Inbound
  <2>3. EstablishSession[k].shape \notin {"other", "none"}
    BY <2>1
  <2>4. EstablishSession[k].shape \in Shapes
    BY <2>1 DEF Shapes
  <2>5. EstablishSession[k].shape = "ok_cc" <=> k = 5
    BY <2>1
  <2> QED
    BY <2>2, <2>3, <2>4, <2>5
<1>3. ASSUME NEW k \in 1 .. 10
      PROVE  /\ ServerScript[k].op = IF k \in Inbound THEN "send" ELSE "recv"
             /\ ServerScript[k].shape = EstablishSession[k].shape
  <2>1. k = 1 \/ k = 2 \/ k = 3 \/ k = 4 \/ k = 5 \/ k = 6 \/ k = 7 \/ k = 8 \/ k = 9 \/ k = 10
    OBVIOUS
  <2> QED
    BY <1>1, <2>1 DEF Inbound, ServerScript
<1> HIDE DEF EstablishSession
<1> QED
  BY <1>1, <1>2, <1>3

(* How many messages each end has sent before a line.                      *)
LEMMA CountFacts ==
  /\ ServerSent[1] = 0 /\ ClientSent[1] = 0 /\ ServerSent[11] = 5 /\ ClientSent[11] = 5
  /\ \A k \in 1 .. 11 : ServerSent[k] \in 0 .. 5 /\ ClientSent[k] \in 0 .. 5
  /\ \A k \in 1 .. 10 : ServerSent[k] \in 0 .. 4
  /\ \A k \in 1 .. 10 : k \in Inbound => /\ ServerSent[k + 1] = ServerSent[k] + 1
                                         /\ ClientSent[k + 1] = ClientSent[k]
  /\ \A k \in 1 .. 10 : k \notin Inbound => /\ ServerSent[k + 1] = ServerSent[k]
                                            /\ ClientSent[k + 1] = ClientSent[k] + 1
<1> USE DEF ServerSent, ClientSent, Inbound
<1>1. ASSUME NEW k \in 1 .. 10
      PROVE  /\ ServerSent[k] \in 0 .. 4 /\ ClientSent[k] \in 0 .. 5
             /\ k \in Inbound => /\ ServerSent[k + 1] = ServerSent[k] + 1
                                 /\ ClientSent[k + 1] = ClientSent[k]
             /\ k \notin Inbound => /\ ServerSent[k + 1] = ServerSent[k]
                                    /\ ClientSent[k + 1] = ClientSent[k] + 1
  <2>1. k = 1 \/ k = 2 \/ k = 3 \/ k = 4 \/ k = 5 \/ k = 6 \/ k = 7 \/ k = 8 \/ k = 9 \/ k = 10
    OBVIOUS
  <2> QED
    BY <2>1
<1>2. ServerSent[1] = 0 /\ ClientSent[1] = 0 /\ ServerSent[11] = 5 /\ ClientSent[11] = 5
  OBVIOUS
<1> HIDE DEF ServerSent, ClientSent
<1>3. (\A k \in 1 .. 11 : k \in 1 .. 10 \/ k = 11) /\ (\A k \in 0 .. 4 : k \in 0 .. 5)
  OBVIOUS
<1>4. \A k \in 1 .. 11 : ServerSent[k] \in 0 .. 5 /\ ClientSent[k] \in 0 .. 5
  BY <1>1, <1>2, <1>3
<1> QED
  BY <1>1, <1>2, <1>4

(* An end that is to send has received all that was sent to it.            *)
LEMMA TurnFacts ==
  /\ \A s \in 1 .. 10, k \in 1 .. 10 :
        s \in Inbound /\ ServerSent[k] <= ServerSent[s] => ClientSent[k] <= ClientSent[s]
  /\ \A s \in 1 .. 11, k \in 1 .. 10 :
        k \notin Inbound /\ ClientSent[s] <= ClientSent[k] => s # 11 /\ ServerSent[s] <= ServerSent[k]
<1> USE DEF ServerSent, ClientSent, Inbound
<1>1. \A k \in 1 .. 11 : \/ k = 1 \/ k = 2 \/ k = 3 \/ k = 4 \/ k = 5 \/ k = 6 \/ k = 7 \/ k = 8
                         \/ k = 9 \/ k = 10 \/ k = 11
  OBVIOUS
<1>2. ASSUME NEW s \in 1 .. 10, NEW k \in 1 .. 10, s \in Inbound, ServerSent[k] <= ServerSent[s]
      PROVE  ClientSent[k] <= ClientSent[s]
  BY <1>1, <1>2
<1>3. ASSUME NEW s \in 1 .. 11, NEW k \in 1 .. 10, k \notin Inbound, ClientSent[s] <= ClientSent[k]
      PROVE  s # 11 /\ ServerSent[s] <= ServerSent[k]
  BY <1>1, <1>3
<1> HIDE DEF ServerSent, ClientSent, Inbound
<1> QED
  BY <1>2, <1>3

-----------------------------------------------------------------------------
(* The steps, as what they do to the stream. *)

(* TryPopFrame takes the first frame, and the message it carries.          *)
LEMMA PopFacts ==
  ASSUME NEW d \in Seq(Units), NEW c \in Seq(Units), Whole(d \o c), FrameReady(d)
  PROVE  /\ d \o c # <<>> /\ Carried(FramePayload(d)) = (d \o c)[1].msg
         /\ Carried(FramePayload(d)) \in Messages /\ Carried(FramePayload(d)) # NoMsg
         /\ AfterFrame(d) \in Seq(Units) /\ AfterFrame(d) \o c = Drop(d \o c)
<1> DEFINE r == d \o c
<1>1. d # <<>> /\ Len(d) >= 1 + LengthAt(d)
  BY DEF FrameReady
<1>2. PICK L \in Nat : L = Len(d) /\ L # 0
  BY <1>1
<1>3. PICK C \in Nat : C = Len(c)
  OBVIOUS
<1>4. /\ r \in Seq(Units) /\ Len(r) = L + C
      /\ \A i \in 1 .. L + C : r[i] = IF i <= L THEN d[i] ELSE c[i - L]
  BY <1>2, <1>3, ConcatProperties
<1>5. Whole(r)
  OBVIOUS
<1> HIDE DEF r
<1>6. /\ \A i \in 1 .. L : d[i] \in Units /\ r[i] = d[i]
      /\ \A i \in 1 .. L + C : r[i] \in Units
      /\ 1 \in 1 .. L /\ r # <<>> /\ DOMAIN r = 1 .. L + C
  BY <1>2, <1>4
<1>7. PICK m \in Messages : m = d[1].msg
  BY <1>6 DEF Units
<1>8. PICK k \in Nat \ {0} : k = m.size
  BY DEF Messages
<1>9. r[1].part = "prefix" /\ r[1].msg = m
  BY <1>5, <1>6, <1>7 DEF Whole
<1>10. LengthAt(d) = k /\ k + 1 <= L
  <2>1. Head(d) = d[1] /\ d[1].part = "prefix"
    BY <1>1, <1>6, <1>9
  <2>2. LengthAt(d) = k
    BY <1>7, <1>8, <2>1 DEF LengthAt
  <2> QED
    BY <1>1, <1>2, <2>2
<1>11. LeastOf(Len(d), 1 + LengthAt(d)) = k + 1
  BY <1>2, <1>10 DEF LeastOf
<1> DEFINE p == SubSeq(d, 2, k + 1)
           e == EncodeFrame(m)
           f == Tail(e)
<1>12. FramePayload(d) = p /\ AfterFrame(d) = SubSeq(d, k + 2, L)
  <2>1. (k + 1) + 1 = k + 2
    OBVIOUS
  <2> QED
    BY <1>2, <1>11, <2>1 DEF FramePayload, AfterFrame
<1>13. \A i \in 2 .. k + 1 : r[i].part = "payload" /\ r[i].msg = m
  <2>1. FrameEnd(r, 1) = k + 1
    BY <1>8, <1>9 DEF FrameEnd
  <2>2. 1 \in DOMAIN r /\ 1 + 1 = 2
    BY <1>6
  <2> QED
    BY <1>5, <1>9, <2>1, <2>2 DEF Whole
<1>14. p \in Seq(Units) /\ Len(p) = k /\ \A i \in 1 .. k : p[i] = d[i + 1]
  <2>1. \A i \in 2 .. k + 1 : d[i] \in Units
    BY <1>6, <1>10
  <2>2. /\ p \in Seq(Units) /\ Len(p) = IF 2 <= k + 1 THEN (k + 1) - 2 + 1 ELSE 0
        /\ \A i \in 1 .. (k + 1) - 2 + 1 : p[i] = d[2 + i - 1]
    BY <2>1, SubSeqProperties
  <2> HIDE DEF p
  <2>3. Len(p) = k
    BY <2>2
  <2>4. ASSUME NEW i \in 1 .. k PROVE p[i] = d[i + 1]
    <3>1. i \in 1 .. (k + 1) - 2 + 1 /\ 2 + i - 1 = i + 1
      OBVIOUS
    <3> QED
      BY <2>2, <3>1
  <2> QED
    BY <2>2, <2>3, <2>4
<1>15. /\ e \in Seq(Units) /\ Len(e) = k + 1
       /\ \A i \in 2 .. k + 1 : e[i].part = "payload" /\ e[i].msg = m
  BY <1>8, FrameUnits
<1> HIDE DEF e
<1>16. f \in Seq(Units) /\ Len(f) = k /\ \A i \in 1 .. k : f[i] = e[i + 1]
  BY <1>15
<1> HIDE DEF p, f
<1>17. \A u, w \in Units : u.part = w.part /\ u.msg = w.msg => u = w
  BY DEF Units
<1>18. ASSUME NEW i \in 1 .. k PROVE p[i] = f[i]
  <2>1. i + 1 \in 2 .. k + 1 /\ i + 1 \in 1 .. L
    BY <1>10
  <2>2. p[i].part = "payload" /\ p[i].msg = m
    <3>1. p[i] = r[i + 1]
      BY <1>6, <1>14, <2>1, Zenon
    <3>2. r[i + 1].part = "payload" /\ r[i + 1].msg = m
      BY <1>13, <2>1, Zenon
    <3> QED
      BY <3>1, <3>2, Zenon
  <2>3. f[i].part = "payload" /\ f[i].msg = m
    BY <1>15, <1>16, <2>1
  <2>4. p[i] \in Units /\ f[i] \in Units
    BY <1>14, <1>16
  <2> QED
    BY <1>17, <2>2, <2>3, <2>4
<1>19. p = f
  BY <1>14, <1>16, <1>18, SeqEqual
<1>20. p # <<>> /\ Head(p).msg = m
  <2>1. p # <<>> /\ Head(p) = p[1]
    BY <1>14
  <2>2. 1 \in 1 .. k /\ 1 + 1 = 2 /\ 2 \in 2 .. k + 1 /\ 2 \in 1 .. L
    BY <1>10
  <2>3. p[1] = r[2]
    BY <1>6, <1>14, <2>2
  <2> QED
    BY <1>13, <2>1, <2>2, <2>3
<1>21. Carried(p) = m
  BY <1>19, <1>20 DEF Carried, e, f
<1>22. m # NoMsg
  BY DEF Messages, NoMsg, Shapes
<1>23. AfterFrame(d) \in Seq(Units) /\ AfterFrame(d) \o c = Drop(r)
  <2> DEFINE a == AfterFrame(d)
             t == Drop(r)
  <2>1. /\ a \in Seq(Units) /\ Len(a) = IF k + 2 <= L THEN L - (k + 2) + 1 ELSE 0
        /\ \A i \in 1 .. L - (k + 2) + 1 : a[i] = d[k + 2 + i - 1]
    <3>1. \A i \in k + 2 .. L : d[i] \in Units
      BY <1>6
    <3> QED
      BY <1>12, <3>1, SubSeqProperties
  <2> HIDE DEF a
  <2>2. Len(a) = L - (k + 1)
    BY <1>10, <2>1
  <2>3. \A i \in 1 .. L - (k + 1) : a[i] = d[i + (k + 1)]
    <3>1. \A i \in 1 .. L - (k + 1) : i \in 1 .. L - (k + 2) + 1 /\ k + 2 + i - 1 = i + (k + 1)
      BY <1>10
    <3> QED
      BY <2>1, <3>1
  <2>4. /\ a \o c \in Seq(Units) /\ Len(a \o c) = Len(a) + Len(c)
        /\ \A i \in 1 .. Len(a) + Len(c) : (a \o c)[i] = IF i <= Len(a) THEN a[i] ELSE c[i - Len(a)]
    BY <2>1, ConcatProperties
  <2>5. FrameEnd(r, 1) = k + 1
    BY <1>8, <1>9 DEF FrameEnd
  <2>6. /\ t \in Seq(Units) /\ Len(t) = (L + C) - (k + 1)
        /\ \A i \in 1 .. (L + C) - (k + 1) : t[i] = r[i + (k + 1)]
    BY <1>4, <1>5, <1>6, <2>5, DropUnits
  <2> HIDE DEF t
  <2>7. Len(a \o c) = (L + C) - (k + 1)
    BY <1>3, <1>10, <2>2, <2>4
  <2>8. ASSUME NEW i \in 1 .. (L + C) - (k + 1) PROVE (a \o c)[i] = t[i]
    <3>1. PICK z \in Nat : z = L - (k + 1)
      BY <1>10
    <3>2. (a \o c)[i] = IF i <= z THEN a[i] ELSE c[i - z]
      BY <1>3, <2>2, <2>4, <3>1
    <3>3. i + (k + 1) \in 1 .. L + C
      BY <1>10
    <3>4. CASE i <= z
      <4>1. i \in 1 .. L - (k + 1) /\ i + (k + 1) <= L
        BY <3>1, <3>4
      <4> QED
        BY <1>4, <2>3, <2>6, <3>2, <3>3, <3>4, <4>1
    <3>5. CASE ~(i <= z)
      <4>1. ~(i + (k + 1) <= L) /\ i - z = (i + (k + 1)) - L
        BY <3>1, <3>5
      <4> QED
        BY <1>4, <2>6, <3>2, <3>3, <3>5, <4>1
    <3> QED
      BY <3>4, <3>5
  <2>9. a \o c = t
    BY <2>4, <2>6, <2>7, <2>8, SeqEqual
  <2> QED
    BY <2>1, <2>9 DEF a, t
<1> QED
  BY <1>6, <1>9, <1>12, <1>21, <1>22, <1>23 DEF r

\* The calling thread goes on and the stream stays what it is.
Quiet ==
    /\ Rest' = Rest /\ decoder' \in Seq(Units) /\ toClient' \in Seq(Units)
    /\ UNCHANGED <<step, connected, open, generation, crypto, hs, toServer, srv, lastIv, broken>>
    /\ \/ pc' = pc /\ error' = error
       \/ pc = "idle" /\ ~connected /\ pc' = "open" /\ error' = "none"
       \/ pc = "idle" /\ connected /\ pc' = "receive"
       \/ pc = "receive" /\ pc' = "idle"

\* The connection is closed.
Closed ==
    /\ open' = FALSE /\ connected' = FALSE /\ generation' = generation /\ crypto' = NoCrypto
    /\ toServer' = <<>> /\ toClient' = <<>> /\ decoder' \in Seq(Units)
    /\ srv' = [srv EXCEPT !.alive = FALSE]
    /\ pc' \in {"idle", "open"} /\ (pc' = "open" => error' # "undecodable")
    /\ UNCHANGED <<lastIv, broken>>

\* The server sends m.
PutMessage(m) ==
    /\ srv.alive /\ m \in Messages
    /\ Rest' = Rest \o EncodeFrame(m) /\ toClient' \in Seq(Units)
    /\ m.gen = srv.gen /\ m.seq = srv.seq + 1 /\ m.iv = srv.iv /\ VectorAfter(m) = srv'.iv
    /\ srv' \in Servers /\ srv'.gen = srv.gen /\ srv'.alive /\ srv'.garbled = srv.garbled
    /\ srv'.seq = srv.seq + 1
    /\ \/ /\ srv.step \in Inbound /\ srv'.step = srv.step + 1
          /\ m.shape = "other" \/ srv'.honest = srv.honest
       \/ srv.step = 11 /\ srv'.step = 11 /\ srv'.honest = srv.honest /\ m.shape # "ok_cc"
    /\ lastIv' \in Nat /\ broken' = (broken \/ (srv.iv # NoCrypto /\ toServer # <<>>))
    /\ UNCHANGED <<clientVars, toServer>>

\* The client sends, encrypting under iv, while r is what it has not decoded.
Sending(iv, r) ==
    /\ crypto' = AfterEncrypt(iv) /\ lastIv' = Ciphertexts(iv)
    /\ \E m \in Messages : /\ m.iv = iv /\ VectorSent(m) = crypto'
                           /\ toServer' = IF srv.alive THEN Append(toServer, m) ELSE toServer
    /\ broken' = (broken \/ (iv # NoCrypto /\ InFlight(r)))

\* A line of the handshake is sent ...
SentLine ==
    /\ pc = "establish" /\ step \notin Inbound /\ step' = step + 1
    /\ Sending(crypto, Rest)
    /\ UNCHANGED <<pc, connected, open, generation, decoder, toClient, error, srv>>

\* ... or received.
LineAccepted ==
    /\ pc = "establish" /\ step \in Inbound /\ step' = step + 1
    /\ Rest # <<>> /\ Rest' = Drop(Rest) /\ decoder' \in Seq(Units)
    /\ Rest[1].msg.iv = crypto /\ Rest[1].msg.shape = EstablishSession[step].shape
    /\ crypto' = VectorAfter(Rest[1].msg)
    /\ IF step = 10 THEN pc' = "idle" /\ connected' = TRUE /\ IsComplete(hs')
       ELSE pc' = pc /\ connected' = FALSE
    /\ UNCHANGED <<open, generation, error, toServer, toClient, srv, lastIv, broken>>

\* A message of the session is received, sent, or received and answered.
SessionStep ==
    /\ connected /\ connected' = TRUE /\ pc \in {"idle", "receive"} /\ pc' = "idle"
    /\ UNCHANGED <<step, open, generation, hs, toClient, srv>>
    /\ decoder' \in Seq(Units) /\ toServer' \in Seq(Messages)
    /\ crypto' \in Nat /\ lastIv' \in Nat /\ broken' \in BOOLEAN
    /\ Rest' = Rest \/ (Rest # <<>> /\ Rest' = Drop(Rest))
    /\ ~broken' =>
          \/ Rest' = Rest /\ Sending(crypto, Rest)
          \/ /\ Rest # <<>> /\ Rest' = Drop(Rest) /\ UNCHANGED <<toServer, broken>>
             /\ Rest[1].msg.iv # crypto \/ crypto' = VectorAfter(Rest[1].msg)
          \/ /\ Rest # <<>> /\ Rest' = Drop(Rest) /\ Rest[1].msg.iv = crypto
             /\ VectorAfter(Rest[1].msg) # NoCrypto
             /\ Sending(VectorAfter(Rest[1].msg), Rest')

(* An attempt that fails closes the connection.                            *)
LEMMA AttemptCloses ==
  ASSUME IInv, NEW why, why # "undecodable", NEW buffer \in Seq(Units), ~connected,
         AttemptFails(why, buffer)
  PROVE  Closed
BY DEF AttemptFails, ConnectionDisconnect, Closed, IInv, Places

(* A receive that throws without taking a frame changes no stream.         *)
LEMMA ThrowSteps ==
  ASSUME IInv, NEW why, why # "undecodable", NEW buffer \in Seq(Units), NEW wire \in Seq(Units),
         buffer \o wire = Rest, ReceiveThrows(why, buffer, wire, crypto)
  PROVE  Closed \/ Quiet
<1>1. CASE pc = "establish" /\ AttemptFails(why, buffer)
  <2>1. ~connected
    BY <1>1 DEF IInv, Places
  <2> QED
    BY <1>1, <2>1, AttemptCloses
<1>2. CASE pc # "establish" \/ ~AttemptFails(why, buffer)
  BY <1>2 DEF ReceiveThrows, Quiet, Rest
<1> QED
  BY <1>1, <1>2

(* recv.                                                                   *)
LEMMA RecvSteps ==
  IInv /\ RecvBytes => Closed \/ Quiet
<1> SUFFICES ASSUME IInv, RecvBytes PROVE Closed \/ Quiet
  OBVIOUS
<1>1. decoder \in Seq(Units) /\ toClient \in Seq(Units) /\ RecvChunk \in Nat
  BY BoundsAssumption DEF IInv, Types
<1>2. PICK n \in 1 .. LeastOf(RecvChunk, Len(toClient)) :
          LET buffer == decoder \o SubSeq(toClient, 1, n)
              wire == SubSeq(toClient, n + 1, Len(toClient))
          IN \/ /\ ~BufferOverflows(buffer)
                /\ decoder' = buffer /\ toClient' = wire
                /\ UNCHANGED <<pc, step, attempt, calls, connected, open, generation,
                               crypto, hs, sent, error, toServer, srv, lastIv, broken>>
             \/ /\ BufferOverflows(buffer)
                /\ ReceiveThrows("buffer_too_large", buffer, wire, crypto)
  BY DEF RecvBytes
<1>3. n \in 1 .. Len(toClient)
  <2>1. Len(toClient) \in Nat
    BY <1>1
  <2> QED
    BY <1>1, <2>1 DEF LeastOf
<1> DEFINE buffer == decoder \o SubSeq(toClient, 1, n)
           wire == SubSeq(toClient, n + 1, Len(toClient))
<1>4. buffer \in Seq(Units) /\ wire \in Seq(Units) /\ buffer \o wire = Rest
  BY <1>1, <1>3, ReadUnits DEF Rest
<1>5. CASE decoder' = buffer /\ toClient' = wire
           /\ UNCHANGED <<pc, step, attempt, calls, connected, open, generation,
                          crypto, hs, sent, error, toServer, srv, lastIv, broken>>
  <2> HIDE DEF buffer, wire
  <2> QED
    BY <1>4, <1>5 DEF Quiet, Rest
<1>6. CASE ReceiveThrows("buffer_too_large", buffer, wire, crypto)
  <2> HIDE DEF buffer, wire
  <2> QED
    BY <1>4, <1>6, ThrowSteps
<1> QED
  BY <1>2, <1>5, <1>6

(* What the server sends.                                                  *)
LEMMA ServerPuts ==
  ASSUME IInv, NEW shape \in Shapes, NEW size \in Nat \ {0}, NEW newSrv \in Servers,
         ServerPut(shape, size, newSrv), srv.alive, UNCHANGED <<clientVars, toServer>>,
         newSrv.gen = srv.gen, newSrv.alive = srv.alive, newSrv.garbled = srv.garbled,
         \/ /\ srv.step \in Inbound /\ newSrv.step = srv.step + 1
            /\ shape = "other" \/ newSrv.honest = srv.honest
         \/ srv.step = 11 /\ newSrv.step = 11 /\ newSrv.honest = srv.honest /\ shape # "ok_cc"
  PROVE  \E m : PutMessage(m)
<1> DEFINE b == [shape |-> shape, iv |-> NoCrypto, cid |-> 0, size |-> size,
                 gen |-> srv.gen, seq |-> srv.seq + 1]
           m == Encrypt(srv.iv, b)
<1>1. srv.gen \in Nat /\ srv.seq \in Nat /\ srv.iv \in Vectors /\ lastIv \in Nat
  BY DEF IInv, Types, Servers, Vector
<1>2. /\ b \in Messages /\ b.gen = srv.gen /\ b.seq = srv.seq + 1 /\ b.shape = shape
      /\ b.size = size /\ b.iv = NoCrypto
  BY <1>1 DEF Messages, Vectors
<1> HIDE DEF b
<1>3. /\ m \in Messages /\ m.gen = srv.gen /\ m.seq = srv.seq + 1 /\ m.iv = srv.iv
      /\ m.shape = shape /\ m.size = size
      /\ srv.iv # NoCrypto => m.cid = lastIv + 1
  <2>1. CASE srv.iv = NoCrypto
    BY <1>2, <2>1 DEF Encrypt
  <2>2. CASE srv.iv # NoCrypto
    <3>1. m = [b EXCEPT !.iv = srv.iv, !.cid = lastIv + 1]
      BY <2>2 DEF Encrypt
    <3>2. PICK v \in Vectors : v = srv.iv
      BY <1>1
    <3>3. PICK k \in Nat : k = lastIv + 1
      BY <1>1
    <3>4. m = [b EXCEPT !.iv = v, !.cid = k]
      BY <3>1, <3>2, <3>3
    <3> HIDE DEF m
    <3>5. /\ m \in Messages /\ m.gen = b.gen /\ m.seq = b.seq /\ m.iv = v /\ m.cid = k
          /\ m.shape = b.shape /\ m.size = b.size
      BY <1>2, <3>4 DEF Messages
    <3> QED
      BY <1>2, <3>2, <3>3, <3>5
  <2> QED
    BY <2>1, <2>2
<1>4. /\ toClient' = toClient \o EncodeFrame(m)
      /\ srv' = [newSrv EXCEPT !.seq = srv.seq + 1,
                    !.iv = IF shape = "ok_cc" THEN 0 ELSE AfterEncrypt(srv.iv)]
      /\ lastIv' = Ciphertexts(srv.iv)
      /\ broken' = (broken \/ (srv.iv # NoCrypto /\ toServer # <<>>))
  BY DEF ServerPut, b
<1> HIDE DEF m
<1>5. VectorAfter(m) = (IF shape = "ok_cc" THEN 0 ELSE AfterEncrypt(srv.iv))
  BY <1>3 DEF VectorAfter, AfterEncrypt
<1>6. VectorAfter(m) \in Vectors /\ lastIv' \in Nat
  BY <1>1, <1>4, <1>5 DEF AfterEncrypt, Vectors, Ciphertexts
<1>7. /\ srv' \in Servers /\ srv'.gen = srv.gen /\ srv'.alive /\ srv'.garbled = srv.garbled
      /\ srv'.seq = srv.seq + 1 /\ srv'.iv = VectorAfter(m)
      /\ srv'.step = newSrv.step /\ srv'.honest = newSrv.honest
  <2>1. PICK v \in Vectors : v = VectorAfter(m)
    BY <1>6
  <2>2. PICK k \in Nat : k = srv.seq + 1
    BY <1>1
  <2>3. srv' = [newSrv EXCEPT !.seq = k, !.iv = v]
    BY <1>4, <1>5, <2>1, <2>2
  <2>4. /\ srv' \in Servers /\ srv'.gen = newSrv.gen /\ srv'.alive = newSrv.alive
        /\ srv'.garbled = newSrv.garbled /\ srv'.seq = k /\ srv'.iv = v
        /\ srv'.step = newSrv.step /\ srv'.honest = newSrv.honest
    BY <2>3 DEF Servers
  <2> QED
    BY <2>1, <2>2, <2>4
<1>8. Rest' = Rest \o EncodeFrame(m) /\ toClient' \in Seq(Units)
  <2>1. EncodeFrame(m) \in Seq(Units) /\ toClient \in Seq(Units) /\ decoder \in Seq(Units)
    BY <1>3, FrameUnits DEF IInv, Types
  <2>2. decoder' = decoder
    BY DEF clientVars
  <2>3. PICK e \in Seq(Units) : e = EncodeFrame(m)
    BY <2>1
  <2>4. (decoder \o toClient) \o e = decoder \o (toClient \o e)
    BY <2>1, ConcatAssociative
  <2>5. toClient \o e \in Seq(Units)
    BY <2>1, ConcatProperties
  <2> QED
    BY <1>4, <2>2, <2>3, <2>4, <2>5 DEF Rest
<1> QED
  BY <1>3, <1>4, <1>6, <1>7, <1>8 DEF PutMessage

(* The lines and the messages of the server.                               *)
LEMMA ServerSteps ==
  IInv /\ (ServerSends \/ ServerDeviates \/ ServerStarts) => \E m : PutMessage(m)
<1> SUFFICES ASSUME IInv, ServerSends \/ ServerDeviates \/ ServerStarts PROVE \E m : PutMessage(m)
  OBVIOUS
<1>1. srv \in Servers /\ srv.step \in 1 .. 11 /\ MaxPayload \in Nat \ {0}
  BY BoundsAssumption DEF IInv, Types, Servers
<1>2. ASSUME ServerTurn("send") PROVE srv.alive /\ srv.step \in Inbound /\ srv.step \in 1 .. 10
  BY <1>1, <1>2, LineFacts DEF ServerTurn
<1>3. \A k \in 1 .. 10 : ServerScript[k].shape \in Shapes
  BY LineFacts
<1>4. ServerInSession <=> srv.step = 11
  BY <1>1, LineFacts DEF ServerInSession
<1>5. CASE ServerSends
  <2>1. ServerTurn("send")
    BY <1>5 DEF ServerSends
  <2> DEFINE shape == ServerScript[srv.step].shape
             size == IF shape = "server_handshake" THEN MaxPayload ELSE 1
             newSrv == [srv EXCEPT !.step = @ + 1]
  <2>2. shape \in Shapes /\ size \in Nat \ {0}
    BY <1>1, <1>2, <1>3, <2>1
  <2>3. /\ newSrv \in Servers /\ newSrv.gen = srv.gen /\ newSrv.alive = srv.alive
        /\ newSrv.garbled = srv.garbled /\ newSrv.step = srv.step + 1 /\ newSrv.honest = srv.honest
    <3>1. PICK k \in 1 .. 11 : k = srv.step + 1
      BY <1>1, <1>2, <2>1
    <3>2. newSrv = [srv EXCEPT !.step = k]
      BY <1>1, <3>1
    <3> HIDE DEF newSrv
    <3> QED
      BY <1>1, <3>1, <3>2 DEF Servers
  <2>4. ServerPut(shape, size, newSrv) /\ UNCHANGED <<clientVars, toServer>>
    BY <1>5 DEF ServerSends
  <2> HIDE DEF shape, size, newSrv
  <2> QED
    BY <1>2, <2>1, <2>2, <2>3, <2>4, ServerPuts
<1>6. CASE ServerDeviates
  <2>1. ServerTurn("send") \/ ServerInSession
    BY <1>6 DEF ServerDeviates
  <2> DEFINE newSrv == [srv EXCEPT !.step = IF ServerInSession THEN @ ELSE @ + 1,
                                   !.honest = @ /\ ServerInSession,
                                   !.faults = @ + 1]
  <2>2. PICK size \in {1, MaxPayload + 1} : ServerPut("other", size, newSrv)
    BY <1>6 DEF ServerDeviates
  <2>3. size \in Nat \ {0} /\ "other" \in Shapes /\ "other" # "ok_cc"
    BY <1>1 DEF Shapes
  <2>4. PICK k \in 1 .. 11 : k = IF ServerInSession THEN srv.step ELSE srv.step + 1
    BY <1>1, <1>2, <1>4, <2>1
  <2>5. PICK h \in BOOLEAN : h <=> srv.honest /\ ServerInSession
    OBVIOUS
  <2>6. PICK f \in Nat : f = srv.faults + 1
    BY <1>1 DEF Servers
  <2>7. newSrv = [srv EXCEPT !.step = k, !.honest = h, !.faults = f]
    <3>1. srv.honest \in BOOLEAN
      BY <1>1 DEF Servers
    <3>2. h = (srv.honest /\ ServerInSession)
      BY <2>5
    <3> QED
      BY <2>4, <2>6, <3>2
  <2> HIDE DEF newSrv
  <2>8. /\ newSrv \in Servers /\ newSrv.gen = srv.gen /\ newSrv.alive = srv.alive
        /\ newSrv.garbled = srv.garbled /\ newSrv.step = k /\ newSrv.honest = h
    BY <1>1, <2>7 DEF Servers
  <2>9. ServerInSession => h = srv.honest
    <3>1. srv.honest \in BOOLEAN
      BY <1>1 DEF Servers
    <3> QED
      BY <2>5, <3>1
  <2>10. UNCHANGED <<clientVars, toServer>> /\ srv.alive
    BY <1>6 DEF ServerDeviates
  <2>11. CASE ServerInSession
    BY <1>4, <2>2, <2>3, <2>4, <2>8, <2>9, <2>10, <2>11, ServerPuts
  <2>12. CASE ~ServerInSession
    BY <1>2, <2>1, <2>2, <2>3, <2>4, <2>8, <2>10, <2>12, ServerPuts
  <2> QED
    BY <2>11, <2>12
<1>7. CASE ServerStarts
  <2> DEFINE newSrv == [srv EXCEPT !.started = @ + 1]
  <2>1. PICK kind \in {<<"ping_req", 1>>, <<"notification", MaxPayload>>} :
           ServerPut(kind[1], kind[2], newSrv)
    BY <1>7 DEF ServerStarts
  <2>2. kind[1] \in Shapes /\ kind[2] \in Nat \ {0} /\ kind[1] # "ok_cc"
    BY <1>1 DEF Shapes
  <2>3. PICK f \in Nat : f = srv.started + 1
    BY <1>1 DEF Servers
  <2>4. newSrv = [srv EXCEPT !.started = f]
    BY <2>3
  <2> HIDE DEF newSrv
  <2>5. /\ newSrv \in Servers /\ newSrv.gen = srv.gen /\ newSrv.alive = srv.alive
        /\ newSrv.garbled = srv.garbled /\ newSrv.step = srv.step /\ newSrv.honest = srv.honest
    BY <1>1, <2>4 DEF Servers
  <2>6. UNCHANGED <<clientVars, toServer>> /\ srv.alive /\ srv.step = 11
    BY <1>4, <1>7 DEF ServerStarts
  <2>7. PICK sh \in Shapes : sh = kind[1]
    BY <2>2
  <2>8. PICK sz \in Nat \ {0} : sz = kind[2]
    BY <2>2
  <2>9. ServerPut(sh, sz, newSrv) /\ sh # "ok_cc"
    BY <2>1, <2>2, <2>7, <2>8
  <2> QED
    BY <2>5, <2>6, <2>9, ServerPuts
<1> QED
  BY <1>5, <1>6, <1>7

(* The ciphertexts in the decoder and on the wire.                         *)
LEMMA InFlightConcat ==
  ASSUME NEW d \in Seq(Units), NEW c \in Seq(Units)
  PROVE  InFlight(d \o c) <=> InFlight(d) \/ InFlight(c)
<1>1. PICK L \in Nat : L = Len(d)
  OBVIOUS
<1>2. PICK C \in Nat : C = Len(c)
  OBVIOUS
<1>3. /\ Len(d \o c) = L + C
      /\ \A i \in 1 .. L + C : (d \o c)[i] = IF i <= L THEN d[i] ELSE c[i - L]
  BY <1>1, <1>2, ConcatProperties
<1>4. \A i \in 1 .. L : i \in 1 .. L + C /\ (d \o c)[i] = d[i]
  BY <1>3
<1>5. \A i \in 1 .. C : i + L \in 1 .. L + C /\ (d \o c)[i + L] = c[i]
  <2> SUFFICES ASSUME NEW i \in 1 .. C PROVE i + L \in 1 .. L + C /\ (d \o c)[i + L] = c[i]
    OBVIOUS
  <2>1. i + L \in 1 .. L + C /\ ~(i + L <= L) /\ (i + L) - L = i
    OBVIOUS
  <2> QED
    BY <1>3, <2>1
<1>6. \A i \in 1 .. L + C : \/ i \in 1 .. L /\ (d \o c)[i] = d[i]
                            \/ i - L \in 1 .. C /\ (d \o c)[i] = c[i - L]
  BY <1>3
<1> DEFINE t == d \o c
<1>7. Len(t) = L + C
  BY <1>3
<1>8. /\ \A i \in 1 .. L : i \in 1 .. L + C /\ t[i] = d[i]
      /\ \A i \in 1 .. C : i + L \in 1 .. L + C /\ t[i + L] = c[i]
      /\ \A i \in 1 .. L + C : (t[i] = d[i] /\ i \in 1 .. L) \/ (i - L \in 1 .. C /\ t[i] = c[i - L])
  BY <1>4, <1>5, <1>6
<1> HIDE DEF t
<1>9. InFlight(d) => InFlight(t)
  BY <1>1, <1>7, <1>8 DEF InFlight
<1>10. InFlight(c) => InFlight(t)
  <2> SUFFICES ASSUME NEW i \in 1 .. C, c[i].msg.iv # NoCrypto PROVE InFlight(t)
    BY <1>2 DEF InFlight
  <2>1. i + L \in 1 .. L + C /\ t[i + L].msg.iv # NoCrypto
    BY <1>8
  <2> QED
    BY <1>7, <2>1 DEF InFlight
<1>11. InFlight(t) => InFlight(d) \/ InFlight(c)
  <2> SUFFICES ASSUME NEW i \in 1 .. L + C, t[i].msg.iv # NoCrypto PROVE InFlight(d) \/ InFlight(c)
    BY <1>7 DEF InFlight
  <2>1. CASE t[i] = d[i] /\ i \in 1 .. L
    BY <1>1, <2>1 DEF InFlight
  <2>2. CASE i - L \in 1 .. C /\ t[i] = c[i - L]
    BY <1>2, <2>2 DEF InFlight
  <2> QED
    BY <1>8, <2>1, <2>2
<1> QED
  BY <1>9, <1>10, <1>11 DEF t

(* What the client sends.                                                  *)
LEMMA ClientSends ==
  ASSUME IInv, NEW iv \in Vectors, NEW shape \in Shapes, NEW size \in Nat \ {0},
         NEW buffer \in Seq(Units), SendMarshal(iv, shape, size, buffer)
  PROVE  Sending(iv, buffer \o toClient)
<1> DEFINE b == ClientMsg(shape, size)
           m == Encrypt(iv, b)
<1>1. generation \in Nat /\ lastIv \in Nat /\ toClient \in Seq(Units)
  BY DEF IInv, Places, Vector, Types
<1>2. b \in Messages /\ b.iv = NoCrypto
  BY <1>1 DEF ClientMsg, Messages, Vectors
<1> HIDE DEF b
<1>3. m \in Messages /\ m.iv = iv /\ VectorSent(m) = AfterEncrypt(iv)
  <2>1. CASE iv = NoCrypto
    BY <1>2, <2>1 DEF Encrypt, VectorSent, AfterEncrypt
  <2>2. CASE iv # NoCrypto
    <3>1. PICK k \in Nat : k = lastIv + 1
      BY <1>1
    <3>2. m = [b EXCEPT !.iv = iv, !.cid = k]
      BY <2>2, <3>1 DEF Encrypt
    <3> HIDE DEF m
    <3>3. m \in Messages /\ m.iv = iv /\ m.cid = k
      BY <1>2, <3>2 DEF Messages
    <3> QED
      BY <2>2, <3>1, <3>3 DEF VectorSent, AfterEncrypt
  <2> QED
    BY <2>1, <2>2
<1>4. /\ crypto' = AfterEncrypt(iv) /\ lastIv' = Ciphertexts(iv)
      /\ toServer' = IF srv.alive THEN Append(toServer, m) ELSE toServer
      /\ broken' = (broken \/ (iv # NoCrypto /\ (InFlight(buffer) \/ InFlight(toClient))))
  BY DEF SendMarshal, b
<1> HIDE DEF m
<1>5. InFlight(buffer \o toClient) <=> InFlight(buffer) \/ InFlight(toClient)
  BY <1>1, InFlightConcat
<1>6. broken' = (broken \/ (iv # NoCrypto /\ InFlight(buffer \o toClient)))
  BY <1>4, <1>5
<1> QED
  BY <1>3, <1>4, <1>6 DEF Sending

(* It keeps the types.                                                     *)
LEMMA SendingTypes ==
  ASSUME IInv, NEW iv \in Vectors, NEW r, Sending(iv, r)
  PROVE  /\ toServer' \in Seq(Messages) /\ crypto' \in Vectors /\ lastIv' \in Nat
         /\ broken' \in BOOLEAN /\ (iv # NoCrypto => crypto' \in Nat)
         /\ (iv = NoCrypto => crypto' = NoCrypto)
<1>1. lastIv \in Nat /\ toServer \in Seq(Messages)
  BY DEF IInv, Vector, Types
<1>2. toServer' \in Seq(Messages)
  BY <1>1 DEF Sending
<1>3. broken' \in BOOLEAN
  BY DEF Sending
<1> QED
  BY <1>1, <1>2, <1>3 DEF Sending, AfterEncrypt, Ciphertexts, Vectors


(* The first frame, when the decoder has it whole.                         *)
LEMMA FirstFrame ==
  ASSUME IInv, open, FrameReady(decoder)
  PROVE  /\ Rest # <<>> /\ Rest \in Seq(Units) /\ Whole(Rest) /\ Popped = Rest[1].msg
         /\ Popped \in Messages /\ Popped # NoMsg
         /\ AfterFrame(decoder) \in Seq(Units) /\ AfterFrame(decoder) \o toClient = Drop(Rest)
<1>1. decoder \in Seq(Units) /\ toClient \in Seq(Units) /\ Whole(decoder \o toClient)
  BY DEF IInv, Types, Stream, Rest
<1>2. decoder \o toClient \in Seq(Units)
  BY <1>1, ConcatProperties
<1> QED
  BY <1>1, <1>2, PopFacts DEF Rest, Popped

(* The handshake of the client.                                            *)
LEMMA LineSteps ==
  ASSUME IInv, pc = "establish"
  PROVE  /\ SendLine => SentLine
         /\ RecvLine => LineAccepted \/ Closed
         /\ ~RecvUndecodable
<1>1. /\ step \in 1 .. 10 /\ open /\ ~connected /\ CurrentLine.shape \in Shapes
      /\ CurrentLine.op = IF step \in Inbound THEN "recv" ELSE "send"
  BY LineFacts DEF IInv, Places, CurrentLine
<1>2. decoder \in Seq(Units) /\ toClient \in Seq(Units) /\ crypto \in Vectors
  BY DEF IInv, Types, Vector
<1>3. ASSUME SendLine PROVE SentLine
  <2>1. step \notin Inbound
    BY <1>1, <1>3 DEF SendLine
  <2>2. Sending(crypto, Rest)
    BY <1>1, <1>2, <1>3, ClientSends DEF SendLine, Rest
  <2> QED
    BY <1>3, <2>1, <2>2 DEF SendLine, SentLine
<1>4. ASSUME RecvLine PROVE LineAccepted \/ Closed
  <2>1. /\ FrameReady(decoder) /\ Decrypts(crypto, Popped) /\ step \in Inbound
    BY <1>1, <1>4 DEF RecvLine, Receiving
  <2>2. /\ Rest # <<>> /\ Popped = Rest[1].msg /\ AfterFrame(decoder) \in Seq(Units)
        /\ AfterFrame(decoder) \o toClient = Drop(Rest)
    BY <1>1, <2>1, FirstFrame
  <2>3. CASE Accepts(CurrentLine, Popped.shape)
    <3>1. /\ decoder' = AfterFrame(decoder) /\ toClient' = toClient
          /\ crypto' = SetSessionCrypto(CurrentLine, AfterDecrypt(crypto, Popped))
          /\ hs' = StateAfter(CurrentLine) /\ step' = step + 1
          /\ pc' = (IF step = 10 THEN "idle" ELSE pc)
          /\ connected' = (step = 10 /\ IsComplete(hs'))
          /\ UNCHANGED <<open, generation, error, toServer, toClient, srv, lastIv, broken>>
      BY <1>4, <2>3, LineFacts DEF RecvLine
    <3>2. Rest' = Drop(Rest)
      BY <2>2, <3>1 DEF Rest
    <3>3. Popped.iv = crypto /\ Popped.shape = EstablishSession[step].shape
      BY <2>1, <2>3 DEF Decrypts, Accepts, CurrentLine
    <3>4. crypto' = VectorAfter(Popped)
      BY <3>1, <3>3 DEF SetSessionCrypto, AfterDecrypt, VectorAfter, CurrentLine
    <3>5. step = 10 => IsComplete(hs')
      <4>1. "Session" # "same"
        OBVIOUS
      <4> QED
        BY <3>1, <4>1, LineFacts DEF StateAfter, IsComplete, CurrentLine
    <3>6. connected' = IF step = 10 THEN TRUE ELSE FALSE
      BY <3>1, <3>5
    <3> QED
      BY <2>1, <2>2, <3>1, <3>2, <3>3, <3>4, <3>5, <3>6 DEF LineAccepted
  <2>4. CASE ~Accepts(CurrentLine, Popped.shape)
    <3>1. AttemptFails("protocol", AfterFrame(decoder))
      BY <1>4, <2>4 DEF RecvLine
    <3> QED
      BY <1>1, <2>2, <3>1, AttemptCloses
  <2> QED
    BY <2>3, <2>4
<1>5. ASSUME RecvUndecodable PROVE FALSE
  <2>1. FrameReady(decoder) /\ ~Decrypts(crypto, Popped)
    BY <1>5 DEF RecvUndecodable
  <2>2. Rest # <<>> /\ Popped = Rest[1].msg /\ Popped # NoMsg
    BY <1>1, <2>1, FirstFrame
  <2>3. Chained(Rest, crypto, srv.iv)
    BY <1>1, <2>2 DEF IInv, Lockstep, Joined
  <2> QED
    BY <2>1, <2>2, <2>3 DEF Chained, Decrypts
<1> QED
  BY <1>3, <1>4, <1>5

(* The first message of a session is no OK CC.                             *)
LEMMA SessionMessage ==
  ASSUME IInv, connected, Rest # <<>>
  PROVE  Rest[1].msg.shape # "ok_cc"
<1>1. open
  BY DEF IInv, Places
<1>2. PICK lo \in Nat : Numbered(Rest, lo, srv.seq) /\ lo >= 5
  BY <1>1 DEF IInv, Turns
<1>3. Rest[1].msg.seq = lo + 1
  BY <1>2 DEF Numbered
<1>4. 1 \in DOMAIN Rest
  <2>1. Rest \in Seq(Units)
    BY ConcatProperties DEF IInv, Types, Rest
  <2> QED
    BY <2>1, UnitTypes
<1> QED
  BY <1>1, <1>2, <1>3, <1>4 DEF IInv, Stream, OfConnection

(* What is sent in a session.                                              *)
LEMMA SendSteps ==
  ASSUME IInv, connected, pc = "idle", NEW size \in Nat \ {0},
         SendMarshal(crypto, "packet", size, decoder) \/ SendMarshalFails(crypto, "packet", size),
         UNCHANGED <<pc, step, connected, open, generation, decoder, hs, toClient, srv>>
  PROVE  SessionStep
<1>1. /\ decoder \in Seq(Units) /\ toClient \in Seq(Units) /\ toServer \in Seq(Messages)
      /\ crypto \in Vectors /\ crypto # NoCrypto /\ lastIv \in Nat /\ broken \in BOOLEAN
      /\ "packet" \in Shapes
  BY DEF IInv, Types, Vector, Shapes
<1>2. Rest' = Rest
  BY DEF Rest
<1>3. CASE SendMarshal(crypto, "packet", size, decoder)
  <2>1. Sending(crypto, Rest)
    BY <1>1, <1>3, ClientSends DEF Rest
  <2>2. toServer' \in Seq(Messages) /\ crypto' \in Nat /\ lastIv' \in Nat /\ broken' \in BOOLEAN
    BY <1>1, <2>1, SendingTypes
  <2> QED
    BY <1>1, <1>2, <2>1, <2>2 DEF SessionStep
<1>4. CASE SendMarshalFails(crypto, "packet", size)
  <2>1. crypto' = lastIv + 1 /\ lastIv' = lastIv + 1 /\ broken' = TRUE /\ toServer' = toServer
    BY <1>1, <1>4 DEF SendMarshalFails, AfterEncrypt, Ciphertexts
  <2> QED
    BY <1>1, <1>2, <2>1 DEF SessionStep
<1> QED
  BY <1>3, <1>4

(* What is received in a session.                                          *)
LEMMA IncomingSteps ==
  ASSUME IInv, pc = "receive", HandleIncoming \/ RecvUndecodable
  PROVE  SessionStep
<1>1. /\ connected /\ open /\ decoder \in Seq(Units) /\ toClient \in Seq(Units)
      /\ toServer \in Seq(Messages) /\ crypto \in Vectors /\ crypto # NoCrypto /\ lastIv \in Nat
      /\ broken \in BOOLEAN /\ "ping_rsp" \in Shapes
  BY DEF IInv, Types, Vector, Places, Shapes
<1>2. FrameReady(decoder)
  BY DEF HandleIncoming, RecvUndecodable
<1>3. /\ Rest # <<>> /\ Popped = Rest[1].msg /\ Popped \in Messages /\ Popped # NoMsg
      /\ AfterFrame(decoder) \in Seq(Units) /\ AfterFrame(decoder) \o toClient = Drop(Rest)
  BY <1>1, <1>2, FirstFrame
<1>4. Popped.shape # "ok_cc"
  BY <1>1, <1>3, SessionMessage
<1>5. Popped.cid \in Nat
  BY <1>3 DEF Messages
<1>6. CASE HandleIncoming
  <2>1. /\ Decrypts(crypto, Popped) /\ decoder' = AfterFrame(decoder) /\ pc' = "idle"
        /\ UNCHANGED <<step, connected, open, generation, hs, toClient, srv>>
    BY <1>6 DEF HandleIncoming
  <2>2. Popped.iv = crypto /\ VectorAfter(Popped) = Popped.cid
    BY <1>1, <1>4, <2>1 DEF Decrypts, VectorAfter
  <2>3. PICK iv \in Nat : iv = Popped.cid
    BY <1>5
  <2>4. AfterDecrypt(crypto, Popped) = iv /\ iv \in Vectors /\ iv # NoCrypto
    BY <1>1, <2>3 DEF AfterDecrypt, Vectors, NoCrypto
  <2>5. Rest' = Drop(Rest)
    BY <1>3, <2>1 DEF Rest
  <2>6. CASE SendMarshal(iv, "ping_rsp", 1, AfterFrame(decoder))
    <3>1. Sending(iv, Rest')
      <4>1. PICK buffer \in Seq(Units) : buffer = AfterFrame(decoder)
        BY <1>3
      <4>2. 1 \in Nat \ {0} /\ SendMarshal(iv, "ping_rsp", 1, buffer)
        BY <2>6, <4>1
      <4>3. Sending(iv, buffer \o toClient)
        BY <1>1, <2>4, <4>2, ClientSends
      <4>4. Rest' = buffer \o toClient
        BY <1>3, <2>5, <4>1
      <4> QED
        BY <4>3, <4>4 DEF Sending
    <3>2. toServer' \in Seq(Messages) /\ crypto' \in Nat /\ lastIv' \in Nat /\ broken' \in BOOLEAN
      BY <2>4, <3>1, SendingTypes
    <3> QED
      BY <1>1, <1>3, <2>1, <2>2, <2>3, <2>4, <2>5, <3>1, <3>2 DEF SessionStep
  <2>7. CASE SendMarshalFails(iv, "ping_rsp", 1)
    <3>1. crypto' = lastIv + 1 /\ lastIv' = lastIv + 1 /\ broken' = TRUE /\ toServer' = toServer
      BY <2>4, <2>7 DEF SendMarshalFails, AfterEncrypt, Ciphertexts
    <3> QED
      BY <1>1, <1>3, <2>1, <2>5, <3>1 DEF SessionStep
  <2>8. CASE crypto' = iv /\ UNCHANGED <<toServer, lastIv, broken>>
    BY <1>1, <1>3, <2>1, <2>2, <2>3, <2>5, <2>8 DEF SessionStep
  <2> QED
    BY <1>6, <2>4, <2>6, <2>7, <2>8 DEF HandleIncoming
<1>7. CASE RecvUndecodable
  <2>1. PICK iv \in AfterFailedDecrypt(crypto, Popped) :
           ReceiveThrows("undecodable", AfterFrame(decoder), toClient, iv)
    BY <1>7 DEF RecvUndecodable
  <2>2. iv \in Nat
    BY <1>1, <1>5 DEF AfterFailedDecrypt, Vectors
  <2>3. /\ pc' = "idle" /\ decoder' = AfterFrame(decoder) /\ toClient' = toClient /\ crypto' = iv
        /\ UNCHANGED <<step, connected, open, generation, hs, toServer, srv, lastIv, broken>>
    BY <2>1 DEF ReceiveThrows
  <2>4. Rest' = Drop(Rest)
    BY <1>3, <2>3 DEF Rest
  <2>5. Rest[1].msg.iv # crypto
    BY <1>3, <1>7 DEF RecvUndecodable, Decrypts
  <2> QED
    BY <1>1, <1>3, <2>2, <2>3, <2>4, <2>5 DEF SessionStep
<1> QED
  BY <1>6, <1>7

(* Every step is one of these.                                             *)
LEMMA Steps ==
  ASSUME IInv, [Next]_vars
  PROVE  \/ Quiet \/ Closed \/ OpenConnection \/ ServerReceives \/ ServerCloses
         \/ LineAccepted \/ SentLine \/ SessionStep
         \/ \E m : PutMessage(m)
<1>1. /\ decoder \in Seq(Units) /\ toClient \in Seq(Units) /\ MaxPayload + 1 \in Nat \ {0}
      /\ pc \in {"open", "establish"} => ~connected
  BY BoundsAssumption DEF IInv, Types, Places
<1>2. CASE OpenFails \/ SendLineFails
  BY <1>1, <1>2, AttemptCloses DEF OpenFails, SendLineFails
<1>3. CASE RecvFrameTooLarge \/ RecvClosed \/ RecvTimeout
  <2>1. decoder \o toClient = Rest
    BY DEF Rest
  <2> QED
    BY <1>1, <1>3, <2>1, ThrowSteps DEF RecvFrameTooLarge, RecvClosed, RecvTimeout
<1>4. CASE SendLine \/ RecvLine
  BY <1>4, LineSteps DEF SendLine, RecvLine
<1>5. CASE RecvUndecodable
  <2>1. pc = "receive" \/ pc = "establish"
    BY <1>5 DEF RecvUndecodable, Receiving
  <2> QED
    BY <1>5, <2>1, LineSteps, IncomingSteps
<1>6. CASE HandleIncoming
  <2>1. pc = "receive"
    BY <1>6 DEF HandleIncoming
  <2> QED
    BY <1>6, <2>1, IncomingSteps
<1>7. CASE SessionSend
  <2>1. PICK size \in {1, MaxPayload + 1} :
           SendMarshal(crypto, "packet", size, decoder) \/ SendMarshalFails(crypto, "packet", size)
    BY <1>7 DEF SessionSend
  <2>2. size \in Nat \ {0}
    BY <1>1
  <2> QED
    BY <1>7, <2>1, <2>2, SendSteps DEF SessionSend
<1>8. CASE PumpOnce
  BY <1>8, SendSteps DEF PumpOnce
<1>9. CASE Disconnect
  BY <1>1, <1>9 DEF Disconnect, ConnectionDisconnect, Closed
<1>10. CASE Connect \/ Receive \/ UNCHANGED vars
  BY <1>1, <1>10 DEF Connect, Receive, vars, clientVars, Quiet, Rest
<1>11. CASE RecvBytes
  BY <1>11, RecvSteps
<1>12. CASE ServerSends \/ ServerDeviates \/ ServerStarts
  BY <1>12, ServerSteps
<1> QED
  BY <1>2, <1>3, <1>4, <1>5, <1>6, <1>7, <1>8, <1>9, <1>10, <1>11, <1>12
     DEF Next, ClientNext, CallerNext, ServerNext

-----------------------------------------------------------------------------
(* The messages on the way to the server. *)

(* One message is a chain.                                                 *)
LEMMA SentOne ==
  ASSUME NEW m
  PROVE  <<m>> # <<>> /\ SentChained(<<m>>, m.iv, VectorSent(m))
<1>1. <<m>> # <<>> /\ Len(<<m>>) = 1 /\ <<m>>[1] = m
  OBVIOUS
<1> QED
  BY <1>1 DEF SentChained

(* A chain grows by a message made under the vector it ends in.            *)
LEMMA SentAppend ==
  \A s, m, v, w : s \in Seq(Messages) /\ m \in Messages /\ SentChained(s, v, w) /\ m.iv = w
                  => Append(s, m) # <<>> /\ SentChained(Append(s, m), v, VectorSent(m))
<1>0. SUFFICES ASSUME NEW s, NEW m, NEW v, NEW w, s \in Seq(Messages), m \in Messages,
                      SentChained(s, v, w), m.iv = w
               PROVE  Append(s, m) # <<>> /\ SentChained(Append(s, m), v, VectorSent(m))
  OBVIOUS
<1> DEFINE t == Append(s, m)
<1>1. PICK L \in Nat : L = Len(s) /\ L # 0
  BY <1>0 DEF SentChained
<1>2. t # <<>> /\ Len(t) = L + 1 /\ t[L + 1] = m /\ \A i \in 1 .. L : t[i] = s[i]
  BY <1>0, <1>1
<1> HIDE DEF t
<1>3. /\ s[1].iv = v /\ VectorSent(s[L]) = w
      /\ \A i \in 1 .. L - 1 : s[i + 1].iv = VectorSent(s[i])
  BY <1>0, <1>1 DEF SentChained
<1>4. t[1].iv = v
  BY <1>1, <1>2, <1>3
<1>5. ASSUME NEW i \in 1 .. L PROVE t[i + 1].iv = VectorSent(t[i])
  <2>1. CASE i = L
    BY <1>0, <1>2, <1>3, <2>1
  <2>2. CASE i \in 1 .. L - 1
    <3>1. i + 1 \in 1 .. L
      BY <2>2
    <3> QED
      BY <1>2, <1>3, <2>2, <3>1
  <2> QED
    BY <2>1, <2>2
<1>6. (L + 1) - 1 = L
  OBVIOUS
<1> QED
  BY <1>2, <1>4, <1>5, <1>6 DEF t, SentChained

(* It loses its first message and starts with the vector that left.        *)
LEMMA SentTail ==
  \A s, v, w : s \in Seq(Messages) /\ SentChained(s, v, w) =>
      /\ Head(s) = s[1] /\ s[1].iv = v
      /\ IF Tail(s) = <<>> THEN VectorSent(s[1]) = w
         ELSE SentChained(Tail(s), VectorSent(s[1]), w)
<1>0. SUFFICES ASSUME NEW s, NEW v, NEW w, s \in Seq(Messages), SentChained(s, v, w)
               PROVE  /\ Head(s) = s[1] /\ s[1].iv = v
                      /\ IF Tail(s) = <<>> THEN VectorSent(s[1]) = w
                         ELSE SentChained(Tail(s), VectorSent(s[1]), w)
  OBVIOUS
<1> DEFINE t == Tail(s)
<1>1. PICK L \in Nat : L = Len(s) /\ L # 0
  BY <1>0 DEF SentChained
<1>2. /\ t = <<>> <=> L = 1
      /\ Len(t) = L - 1 /\ \A i \in 1 .. L - 1 : t[i] = s[i + 1]
  BY <1>0, <1>1
<1>3. Head(s) = s[1]
  BY <1>0, <1>1
<1> HIDE DEF t
<1>4. /\ s[1].iv = v /\ VectorSent(s[L]) = w
      /\ \A i \in 1 .. L - 1 : s[i + 1].iv = VectorSent(s[i])
  BY <1>0, <1>1 DEF SentChained
<1>5. CASE t = <<>>
  BY <1>2, <1>3, <1>4, <1>5 DEF t
<1>6. CASE t # <<>>
  <2>1. L - 1 \in 1 .. L - 1 /\ 1 \in 1 .. L - 1 /\ (L - 1) + 1 = L
    BY <1>1, <1>2, <1>6
  <2>2. t[1].iv = VectorSent(s[1]) /\ VectorSent(t[L - 1]) = w
    BY <1>2, <1>4, <2>1
  <2>3. ASSUME NEW i \in 1 .. (L - 1) - 1 PROVE t[i + 1].iv = VectorSent(t[i])
    <3>1. i \in 1 .. L - 1 /\ i + 1 \in 1 .. L - 1
      OBVIOUS
    <3> QED
      BY <1>2, <1>4, <3>1
  <2>4. SentChained(t, VectorSent(s[1]), w)
    BY <1>2, <1>6, <2>2, <2>3 DEF SentChained
  <2> QED
    BY <1>3, <1>4, <1>6, <2>4 DEF t
<1> QED
  BY <1>5, <1>6

(* A message that does not cross a ciphertext keeps the ends joined.       *)
LEMMA SendJoins ==
  ASSUME IInv, NEW v \in Vectors, NEW r \in Seq(Units), Sending(v, r), ~broken', Joined(r, v),
         r = <<>> \/ v # NoCrypto, connected => v # NoCrypto
  PROVE  /\ ~broken /\ r = <<>>
         /\ \/ ~srv.alive
            \/ /\ toServer' # <<>> /\ SentChained(toServer', srv.iv, crypto')
               /\ connected => srv.iv # NoCrypto
<1>1. ~broken /\ (v # NoCrypto => ~InFlight(r))
  BY DEF Sending
<1>2. r = <<>>
  <2> SUFFICES ASSUME r # <<>> PROVE FALSE
    OBVIOUS
  <2>1. v # NoCrypto /\ r[1].msg.iv = v
    BY DEF Joined, Chained
  <2>2. 1 \in 1 .. Len(r)
    OBVIOUS
  <2> QED
    BY <1>1, <2>1, <2>2 DEF InFlight
<1>3. PICK m \in Messages : /\ m.iv = v /\ VectorSent(m) = crypto'
                            /\ toServer' = IF srv.alive THEN Append(toServer, m) ELSE toServer
  BY DEF Sending
<1>4. toServer \in Seq(Messages)
  BY DEF IInv, Types
<1>5. ASSUME srv.alive
      PROVE  /\ toServer' # <<>> /\ SentChained(toServer', srv.iv, crypto')
             /\ connected => srv.iv # NoCrypto
  <2>1. toServer' = Append(toServer, m)
    BY <1>3, <1>5
  <2>2. CASE Chained(r, v, srv.iv) /\ toServer = <<>>
    <3>1. v = srv.iv
      BY <1>2, <2>2 DEF Chained
    <3>2. toServer' = <<m>>
      BY <2>1, <2>2
    <3> QED
      BY <1>3, <3>1, <3>2, SentOne
  <2>3. CASE SentChained(toServer, srv.iv, v) /\ (connected => srv.iv # NoCrypto)
    BY <1>3, <1>4, <2>1, <2>3, SentAppend
  <2> QED
    BY <1>5, <2>2, <2>3 DEF Joined
<1> QED
  BY <1>1, <1>2, <1>5

-----------------------------------------------------------------------------
(* The steps keep the invariant. *)

(* What the invariant says of the types.                                   *)
LEMMA StateTypes ==
  ASSUME IInv
  PROVE  /\ decoder \in Seq(Units) /\ toClient \in Seq(Units) /\ toServer \in Seq(Messages)
         /\ Rest \in Seq(Units)
         /\ srv \in Servers /\ srv.step \in 1 .. 11 /\ srv.seq \in Nat /\ srv.gen \in Nat
         /\ srv.iv \in Vectors /\ srv.alive \in BOOLEAN /\ srv.honest \in BOOLEAN
         /\ srv.garbled \in BOOLEAN /\ crypto \in Vectors
<1>1. decoder \in Seq(Units) /\ toClient \in Seq(Units) /\ toServer \in Seq(Messages) /\ srv \in Servers
  BY DEF IInv, Types
<1>2. decoder \o toClient \in Seq(Units)
  BY <1>1, ConcatProperties
<1>3. crypto \in Vectors
  BY DEF IInv, Vector
<1> QED
  BY <1>1, <1>2, <1>3 DEF Rest, Servers

(* A step that leaves the stream alone.                                    *)
LEMMA QuietKeeps ==
  IInv /\ Quiet => IInv'
<1> SUFFICES ASSUME IInv, Quiet PROVE IInv'
  OBVIOUS
<1> USE DEF Quiet
<1>1. Types'
  BY DEF IInv, Types
<1>2. Places'
  BY DEF IInv, Places
<1>3. Vector'
  BY DEF IInv, Places, Vector
<1>4. Stream'
  BY DEF IInv, Stream
<1>5. ServerCount'
  BY DEF IInv, ServerCount
<1>6. Turns'
  BY DEF IInv, Places, Turns
<1>7. Deviations'
  BY DEF IInv, Deviations
<1>8. Lockstep'
  BY DEF IInv, Places, Lockstep, Joined
<1> QED
  BY <1>1, <1>2, <1>3, <1>4, <1>5, <1>6, <1>7, <1>8 DEF IInv

(* A step that closes the connection.                                      *)
LEMMA ClosedKeeps ==
  IInv /\ Closed => IInv'
<1> SUFFICES ASSUME IInv, Closed PROVE IInv'
  OBVIOUS
<1> USE DEF Closed
<1>0. /\ srv' \in Servers /\ srv'.alive = FALSE /\ srv'.gen = srv.gen /\ srv'.step = srv.step
      /\ srv'.seq = srv.seq /\ srv'.garbled = srv.garbled
  BY StateTypes DEF Servers
<1>1. Types'
  BY <1>0 DEF Types
<1>2. Places'
  BY <1>0 DEF IInv, Places
<1>3. Vector'
  BY DEF IInv, Vector, Vectors
<1>4. Stream' /\ Deviations'
  BY DEF Stream, Deviations
<1>5. ServerCount'
  BY <1>0 DEF IInv, ServerCount
<1>6. Turns'
  BY DEF Turns
<1>7. Lockstep'
  BY <1>0 DEF IInv, Lockstep
<1> QED
  BY <1>1, <1>2, <1>3, <1>4, <1>5, <1>6, <1>7 DEF IInv

(* A new connection.                                                       *)
LEMMA OpenKeeps ==
  IInv /\ OpenConnection => IInv'
<1> SUFFICES ASSUME IInv, OpenConnection PROVE IInv'
  OBVIOUS
<1>1. /\ pc = "open" /\ pc' = "establish" /\ step' = 1 /\ open' = TRUE /\ connected' = FALSE
      /\ crypto' = NoCrypto /\ decoder' = <<>> /\ toClient' = <<>> /\ toServer' = <<>>
      /\ lastIv' = 0 /\ broken' = FALSE /\ error' = error
  BY DEF IInv, Places, OpenConnection, ConnectionConnect
<1>2. PICK g \in Nat : g = generation' /\ g > 0
  BY DEF IInv, Places, OpenConnection, ConnectionConnect
<1>3. /\ srv' \in Servers /\ srv'.gen = g /\ srv'.step = 1 /\ srv'.iv = NoCrypto
      /\ srv'.alive = TRUE /\ srv'.honest = TRUE /\ srv'.garbled = FALSE /\ srv'.seq = 0
  <2>1. PICK f \in Nat : f = srv.faults
    BY StateTypes DEF Servers
  <2>2. PICK a \in BOOLEAN : a = (g > 0) /\ a = TRUE
    BY <1>2
  <2>3. srv' = [gen |-> g, step |-> 1, iv |-> NoCrypto, alive |-> a, honest |-> TRUE,
                garbled |-> FALSE, seq |-> 0, started |-> 0, faults |-> f]
    BY <1>2, <2>1, <2>2 DEF OpenConnection, NewServer
  <2> QED
    BY <2>2, <2>3 DEF Servers, Vectors
<1>4. Rest' = <<>> /\ DOMAIN <<>> = {} /\ Len(<<>>) = 0
  <2>1. <<>> \o <<>> = <<>>
    OBVIOUS
  <2> QED
    BY <1>1, <2>1 DEF Rest
<1>5. ServerSent[1] = 0 /\ ClientSent[1] = 0
  BY CountFacts
<1>6. Types'
  BY <1>1, <1>3 DEF Types
<1>7. Places'
  <2>1. step' \in 1 .. 10
    BY <1>1
  <2>2. open' <=> (pc' = "establish" \/ connected')
    BY <1>1
  <2> QED
    BY <1>1, <1>2, <1>3, <2>1, <2>2 DEF Places
<1>8. Vector'
  <2>1. crypto' \in Vectors /\ lastIv' \in Nat /\ broken' \in BOOLEAN
    BY <1>1 DEF Vectors
  <2>2. crypto' = NoCrypto /\ step' <= 5 /\ ~connected'
    BY <1>1
  <2> QED
    BY <2>1, <2>2 DEF Vector
<1>9. Stream'
  BY <1>4 DEF Stream, Whole, OfConnection
<1>10. ServerCount'
  BY <1>3, <1>5 DEF ServerCount
<1>11. Turns'
  <2>1. Numbered(Rest', 0, srv'.seq)
    BY <1>3, <1>4 DEF Numbered
  <2> QED
    BY <1>1, <1>3, <1>4, <1>5, <2>1 DEF Turns
<1>12. Deviations'
  BY <1>3 DEF Deviations
<1>13. Lockstep'
  <2>1. Chained(Rest', crypto', srv'.iv)
    BY <1>1, <1>3, <1>4 DEF Chained
  <2> QED
    BY <1>1, <1>3, <2>1 DEF IInv, Lockstep, Joined
<1> QED
  BY <1>6, <1>7, <1>8, <1>9, <1>10, <1>11, <1>12, <1>13 DEF IInv

(* The server closes the connection.                                       *)
LEMMA ServerClosesKeeps ==
  IInv /\ ServerCloses => IInv'
<1> SUFFICES ASSUME IInv, ServerCloses PROVE IInv'
  OBVIOUS
<1>0. /\ srv' \in Servers /\ srv'.alive = FALSE /\ srv'.gen = srv.gen /\ srv'.step = srv.step
      /\ srv'.seq = srv.seq /\ srv'.garbled = srv.garbled /\ srv'.iv = srv.iv
      /\ srv'.honest = srv.honest
  <2>1. PICK f \in Nat : f = srv.faults + 1
    BY StateTypes DEF Servers
  <2>2. srv' = [srv EXCEPT !.alive = FALSE, !.faults = f]
    BY <2>1 DEF ServerCloses
  <2> QED
    BY <2>2, StateTypes DEF Servers
<1>1. UNCHANGED <<pc, step, connected, open, generation, crypto, decoder, hs, error,
                  toServer, toClient, lastIv, broken>>
  BY DEF ServerCloses, clientVars
<1>2. Rest' = Rest
  BY <1>1 DEF Rest
<1>3. Types'
  BY <1>0, <1>1 DEF IInv, Types
<1>4. Places'
  BY <1>0, <1>1 DEF IInv, Places
<1>5. Vector' /\ Stream'
  BY <1>1, <1>2 DEF IInv, Vector, Stream
<1>6. ServerCount'
  BY <1>0 DEF IInv, ServerCount
<1>7. Turns'
  BY <1>0, <1>1, <1>2 DEF IInv, Turns
<1>8. Deviations'
  BY <1>0, <1>1, <1>2 DEF IInv, Deviations
<1>9. Lockstep'
  BY <1>0, <1>1, <1>2 DEF IInv, Lockstep, Joined
<1> QED
  BY <1>3, <1>4, <1>5, <1>6, <1>7, <1>8, <1>9 DEF IInv

(* The server takes a message.                                             *)
LEMMA ReceivesKeeps ==
  IInv /\ ServerReceives => IInv'
<1> SUFFICES ASSUME IInv, ServerReceives PROVE IInv'
  OBVIOUS
<1> DEFINE m == Head(toServer)
           next == IF ServerInSession THEN srv.step ELSE srv.step + 1
           taken == Decrypts(srv.iv, m) /\ (ServerInSession \/ m.shape = ServerScript[srv.step].shape)
<1>1. UNCHANGED <<pc, step, connected, open, generation, crypto, decoder, hs, error,
                  toClient, lastIv, broken>>
  BY DEF ServerReceives, clientVars
<1>2. Rest' = Rest
  BY <1>1 DEF Rest
<1>3. srv.alive /\ toServer # <<>> /\ toServer' = Tail(toServer) /\ open
  BY DEF ServerReceives, IInv, Places
<1>4. ServerInSession <=> srv.step = 11
  <2>1. LastLine = 10
    BY LineFacts, Zenon
  <2>2. srv.step \in 1 .. 11
    BY StateTypes, Zenon
  <2> QED
    BY <2>1, <2>2 DEF ServerInSession
<1>5. srv.step = 11 \/ (srv.step \in 1 .. 10 /\ srv.step \notin Inbound)
  <2>1. CASE ServerTurn("recv")
    <3>1. srv.step \in 1 .. 10 /\ ServerScript[srv.step].op = "recv"
      BY <2>1, StateTypes, LineFacts DEF ServerTurn
    <3> QED
      BY <3>1, LineFacts
  <2> QED
    BY <1>4, <2>1 DEF ServerReceives
<1>6. /\ m \in Messages /\ m = toServer[1] /\ toServer' \in Seq(Messages)
      /\ Len(toServer') = Len(toServer) - 1 /\ Len(toServer) \in Nat
  BY <1>3, StateTypes
<1>7. m # NoMsg
  BY <1>6 DEF Messages, NoMsg, Shapes
<1>8. CASE taken
  <2>1. PICK k \in 1 .. 11 : /\ k = IF srv.step = 11 THEN srv.step ELSE srv.step + 1
    BY <1>5
  <2>2. PICK v \in Vectors : v = IF srv.iv = NoCrypto THEN srv.iv ELSE m.cid
    BY <1>6, StateTypes DEF Messages, Vectors
  <2>3. srv' = [srv EXCEPT !.step = k, !.iv = v]
    BY <1>4, <1>8, <2>1, <2>2 DEF ServerReceives
  <2>4. /\ srv' \in Servers /\ srv'.alive = srv.alive /\ srv'.gen = srv.gen /\ srv'.step = k
        /\ srv'.seq = srv.seq /\ srv'.garbled = srv.garbled /\ srv'.iv = v
        /\ srv'.honest = srv.honest
    BY <2>3, StateTypes DEF Servers
  <2>5. m.iv = srv.iv /\ v = VectorSent(m)
    BY <1>8, <2>2 DEF Decrypts, VectorSent
  <2>6. Types'
    BY <1>1, <1>6, <2>4 DEF IInv, Types
  <2>7. Places'
    BY <1>1, <2>4 DEF IInv, Places
  <2>8. Vector' /\ Stream'
    BY <1>1, <1>2 DEF IInv, Vector, Stream
  <2>9. srv.step # 11 => /\ k = srv.step + 1 /\ srv.step \in 1 .. 10 /\ k # 11
                         /\ ServerSent[k] = ServerSent[srv.step] /\ ClientSent[k] = ClientSent[srv.step] + 1
    <3>1. srv.step # 11 => srv.step # 10
      BY <1>5 DEF Inbound
    <3> QED
      BY <1>5, <2>1, <3>1, CountFacts
  <2>10. ServerCount'
    BY <2>1, <2>4, <2>9 DEF IInv, ServerCount
  <2>11. Turns'
    <3>1. CASE srv.step = 11
      <4>1. k = 11 /\ ClientSent[11] = 5 /\ (pc = "establish" => ClientSent[step] \in 0 .. 5)
        BY <2>1, <3>1, CountFacts DEF IInv, Places
      <4>2. pc # "establish"
        <5>1. pc = "establish" => 5 + Len(toServer) = ClientSent[step]
          BY <1>3, <3>1, <4>1 DEF IInv, Turns
        <5>2. Len(toServer) \in Nat /\ Len(toServer') \in Nat
          BY <1>6, StateTypes
        <5> QED
          BY <1>6, <4>1, <5>1, <5>2
      <4> QED
        BY <1>1, <1>2, <2>4, <4>1, <4>2 DEF IInv, Turns
    <3>2. CASE srv.step # 11
      <4>1. ~connected
        BY <3>2 DEF IInv, Turns
      <4>2. PICK n \in Nat : n = ClientSent[srv.step]
        <5>1. 0 .. 5 \subseteq Nat
          OBVIOUS
        <5> QED
          BY <5>1, StateTypes, CountFacts
      <4>3. PICK L \in Nat : L = Len(toServer) /\ Len(toServer') = L - 1 /\ L # 0
        <5>1. Len(toServer) # 0
          BY <1>3, StateTypes
        <5> QED
          BY <1>6, <5>1
      <4>4. ClientSent[k] = n + 1
        BY <2>9, <3>2, <4>2
      <4>5. pc = "establish" => n + L = ClientSent[step]
        BY <1>3, <4>2, <4>3 DEF IInv, Turns
      <4>6. pc = "establish" => ClientSent[k] <= ClientSent[step] /\ ClientSent[k] + Len(toServer') = ClientSent[step]
        BY <4>3, <4>4, <4>5
      <4> QED
        BY <1>1, <1>2, <2>4, <4>1, <4>6 DEF IInv, Turns
    <3> QED
      BY <3>1, <3>2
  <2>12. Deviations'
    BY <1>1, <1>2, <2>4 DEF IInv, Deviations
  <2>13. Lockstep'
    <3>1. ASSUME ~broken PROVE Joined(Rest, crypto)'
      <4>1. /\ Rest = <<>> /\ SentChained(toServer, srv.iv, crypto)
            /\ connected => srv.iv # NoCrypto
        BY <1>3, <3>1 DEF IInv, Lockstep, Joined
      <4>2. connected => v # NoCrypto
        <5>1. m.cid \in Nat
          BY <1>6 DEF Messages
        <5> QED
          BY <2>2, <4>1, <5>1 DEF NoCrypto
      <4>3. CASE toServer' = <<>>
        <5>1. v = crypto
          BY <1>3, <1>6, <2>5, <4>1, <4>3, SentTail, StateTypes
        <5> QED
          BY <1>1, <1>2, <2>4, <4>1, <4>3, <5>1 DEF Joined, Chained
      <4>4. CASE toServer' # <<>>
        <5>1. SentChained(toServer', v, crypto)
          BY <1>3, <1>6, <2>5, <4>1, <4>4, SentTail, StateTypes
        <5> QED
          BY <1>1, <1>2, <2>4, <4>1, <4>2, <4>4, <5>1 DEF Joined
      <4> QED
        BY <4>3, <4>4
    <3>2. srv'.garbled => srv'.step = 11
      BY <2>1, <2>4 DEF IInv, Lockstep
    <3> QED
      BY <1>1, <3>1, <3>2 DEF IInv, Lockstep
  <2> QED
    BY <2>6, <2>7, <2>8, <2>10, <2>11, <2>12, <2>13 DEF IInv
<1>9. CASE ~taken
  <2>1. PICK g \in BOOLEAN : g = ~Decrypts(srv.iv, m)
    OBVIOUS
  <2>2. srv' = [srv EXCEPT !.alive = FALSE, !.garbled = g]
    BY <1>9, <2>1 DEF ServerReceives
  <2>3. /\ srv' \in Servers /\ srv'.alive = FALSE /\ srv'.gen = srv.gen /\ srv'.step = srv.step
        /\ srv'.seq = srv.seq /\ srv'.garbled = g /\ srv'.iv = srv.iv /\ srv'.honest = srv.honest
    BY <2>2, StateTypes DEF Servers
  <2>4. Types'
    BY <1>1, <1>6, <2>3 DEF IInv, Types
  <2>5. Places'
    BY <1>1, <2>3 DEF IInv, Places
  <2>6. Vector' /\ Stream'
    BY <1>1, <1>2 DEF IInv, Vector, Stream
  <2>7. ServerCount'
    BY <2>3 DEF IInv, ServerCount
  <2>8. Turns'
    BY <1>1, <1>2, <2>3 DEF IInv, Turns
  <2>9. Deviations'
    BY <1>1, <1>2, <2>3 DEF IInv, Deviations
  <2>10. Lockstep'
    <3>1. ASSUME ~broken PROVE Rest = <<>> /\ SentChained(toServer, srv.iv, crypto)
      BY <1>3, <3>1 DEF IInv, Lockstep, Joined
    <3>2. ~broken => ~g
      BY <1>6, <1>7, <2>1, <3>1 DEF Decrypts, SentChained
    <3>3. srv.step # 11 => ~broken
      BY <1>3 DEF IInv, Turns, Places, Lockstep
    <3> QED
      BY <1>1, <1>2, <2>3, <3>1, <3>2, <3>3 DEF IInv, Lockstep, Joined
  <2> QED
    BY <2>4, <2>5, <2>6, <2>7, <2>8, <2>9, <2>10 DEF IInv
<1> QED
  BY <1>8, <1>9

(* The server sends a message.                                             *)
LEMMA PutKeeps ==
  ASSUME IInv, NEW m, PutMessage(m)
  PROVE  IInv'
<1>1. UNCHANGED <<pc, step, connected, open, generation, crypto, decoder, hs, error, toServer>>
  BY DEF PutMessage, clientVars
<1>2. /\ m \in Messages /\ Rest' = Rest \o EncodeFrame(m) /\ toClient' \in Seq(Units)
      /\ m.gen = srv.gen /\ m.seq = srv.seq + 1 /\ m.iv = srv.iv /\ VectorAfter(m) = srv'.iv
  BY DEF PutMessage
<1>3. /\ srv' \in Servers /\ srv'.gen = srv.gen /\ srv'.alive /\ srv'.garbled = srv.garbled
      /\ srv'.seq = srv.seq + 1 /\ srv.alive
      /\ lastIv' \in Nat /\ broken' = (broken \/ (srv.iv # NoCrypto /\ toServer # <<>>))
  BY DEF PutMessage
<1>4. \/ /\ srv.step \in Inbound /\ srv.step \in 1 .. 10 /\ srv'.step = srv.step + 1
         /\ m.shape = "other" \/ srv'.honest = srv.honest
      \/ srv.step = 11 /\ srv'.step = 11 /\ srv'.honest = srv.honest /\ m.shape # "ok_cc"
  BY DEF PutMessage, Inbound
<1>5. open /\ Whole(Rest) /\ OfConnection(Rest, generation) /\ srv.gen = generation
  BY <1>3 DEF IInv, Places, Stream
<1>6. ASSUME srv.step \in Inbound, srv.step \in 1 .. 10
      PROVE  /\ srv.seq = ServerSent[srv.step] /\ srv.seq + 1 = ServerSent[srv.step + 1]
             /\ srv.seq + 1 \in 0 .. 5 /\ ClientSent[srv.step + 1] = ClientSent[srv.step]
  <2>1. srv.step # 11 /\ srv.step + 1 \in 1 .. 11
    BY <1>6
  <2>2. srv.seq = ServerSent[srv.step]
    BY <2>1 DEF IInv, ServerCount
  <2> QED
    BY <1>6, <2>1, <2>2, CountFacts
<1>7. Types'
  BY <1>1, <1>2, <1>3 DEF IInv, Types
<1>8. Places'
  BY <1>1, <1>3, <1>5 DEF IInv, Places
<1>9. Vector'
  <2>1. broken' \in BOOLEAN
    BY <1>3
  <2> QED
    BY <1>1, <1>3, <2>1 DEF IInv, Vector
<1>10. m.shape = "ok_cc" => m.seq <= 5
  BY <1>2, <1>4, <1>6
<1>11. Stream'
  <2>1. Whole(Rest')
    BY <1>2, <1>5, StateTypes, WholePut
  <2>2. OfConnection(Rest', generation)
    BY <1>2, <1>5, <1>10, StateTypes, ConnectionPut
  <2> QED
    BY <1>1, <2>1, <2>2 DEF Stream
<1>12. ServerCount'
  <2>1. CASE srv.step = 11
    BY <1>3, <1>4, <2>1, StateTypes DEF IInv, ServerCount, Inbound
  <2>2. CASE srv.step # 11
    <3>1. srv'.step = srv.step + 1 /\ srv'.seq = ServerSent[srv.step + 1]
      BY <1>3, <1>4, <1>6, <2>2
    <3>2. ServerSent[11] = 5
      BY CountFacts
    <3> QED
      BY <3>1, <3>2 DEF ServerCount
  <2> QED
    BY <2>1, <2>2
<1>13. ClientSent[srv'.step] = ClientSent[srv.step]
  BY <1>4, <1>6
<1>14. Turns'
  <2>1. ASSUME NEW lo \in Nat, Numbered(Rest, lo, srv.seq) PROVE Numbered(Rest', lo, srv'.seq)
    BY <1>2, <1>3, <1>5, <2>1, StateTypes, NumberedPut
  <2>2. connected => srv'.step = 11
    BY <1>4 DEF IInv, Turns, Inbound
  <2>3. PICK lo \in Nat : /\ Numbered(Rest, lo, srv.seq)
                          /\ pc = "establish" => lo = ServerSent[step]
                          /\ connected => lo >= 5
    BY <1>5 DEF IInv, Turns
  <2>4. Numbered(Rest', lo, srv'.seq)
    BY <2>1, <2>3
  <2>5. pc = "establish" => /\ ClientSent[srv'.step] <= ClientSent[step]
                            /\ ClientSent[srv'.step] + Len(toServer) = ClientSent[step]
    BY <1>3, <1>13 DEF IInv, Turns
  <2> QED
    BY <1>1, <2>2, <2>3, <2>4, <2>5 DEF Turns
<1>15. Deviations'
  <2> SUFFICES ASSUME ~srv'.honest
               PROVE  \E i \in DOMAIN Rest' : Rest'[i].msg.shape = "other" /\ Rest'[i].msg.seq <= 5
    BY DEF Deviations
  <2>1. PICK L \in Nat : L = Len(Rest)
    BY StateTypes
  <2>2. PICK q \in Nat \ {0} : q = m.size
    BY <1>2 DEF Messages
  <2>3. Extended(Rest', Rest, m, L, q)
    BY <1>2, <2>1, <2>2, StateTypes, PutUnits
  <2>4. DOMAIN Rest' = 1 .. L + q + 1 /\ DOMAIN Rest = 1 .. L
    BY <2>1, <2>3, StateTypes DEF Extended
  <2>5. CASE ~srv.honest
    <3>1. PICK i \in 1 .. L : Rest[i].msg.shape = "other" /\ Rest[i].msg.seq <= 5
      BY <1>5, <2>4, <2>5 DEF IInv, Deviations
    <3>2. i \in 1 .. L + q + 1 /\ Rest'[i] = Rest[i]
      BY <2>3 DEF Extended
    <3> QED
      BY <2>4, <3>1, <3>2
  <2>6. CASE m.shape = "other" /\ srv.step \in Inbound /\ srv.step \in 1 .. 10
    <3>1. L + 1 \in L + 1 .. L + q + 1 /\ L + 1 \in 1 .. L + q + 1
      OBVIOUS
    <3>2. Rest'[L + 1].msg = m
      BY <2>3, <3>1 DEF Extended
    <3>3. m.seq <= 5
      BY <1>2, <1>6, <2>6
    <3> QED
      BY <2>4, <2>6, <3>1, <3>2, <3>3
  <2> QED
    BY <1>4, <2>5, <2>6
<1>16. Lockstep'
  <2>1. ~broken \/ pc # "establish"
    BY DEF IInv, Lockstep
  <2>2. pc = "establish" => toServer = <<>>
    <3> SUFFICES ASSUME pc = "establish" PROVE toServer = <<>>
      OBVIOUS
    <3>1. PICK L \in Nat : L = Len(toServer) /\ (L = 0 => toServer = <<>>)
      BY StateTypes
    <3>2. step \in 1 .. 10 /\ ClientSent[srv.step] + L = ClientSent[step]
      BY <1>3, <3>1 DEF IInv, Places, Turns
    <3>3. ClientSent[step] \in 0 .. 5 /\ ClientSent[srv.step] \in 0 .. 5 /\ ClientSent[11] = 5
      <4>1. step \in 1 .. 11 /\ srv.step \in 1 .. 11
        BY <3>2, StateTypes
      <4> QED
        BY <4>1, CountFacts
    <3>4. ClientSent[step] <= ClientSent[srv.step]
      <4>1. CASE srv.step = 11
        BY <3>3, <4>1
      <4>2. CASE srv.step \in Inbound /\ srv.step \in 1 .. 10
        <5>1. PICK lo \in Nat : Numbered(Rest, lo, srv.seq) /\ lo = ServerSent[step]
          BY <1>5 DEF IInv, Turns
        <5>2. lo <= srv.seq
          <6>1. CASE Rest = <<>>
            BY <5>1, <6>1 DEF Numbered
          <6>2. CASE Rest # <<>>
            <7>1. 1 \in DOMAIN Rest
              BY <6>2, StateTypes
            <7> QED
              BY <5>1, <6>2, <7>1, StateTypes DEF Numbered
          <6> QED
            BY <6>1, <6>2
        <5> QED
          BY <1>6, <3>2, <4>2, <5>1, <5>2, TurnFacts
      <4> QED
        BY <1>4, <4>1, <4>2
    <3>5. L = 0
      BY <3>2, <3>3, <3>4
    <3> QED
      BY <3>1, <3>5
  <2>3. ASSUME ~broken' PROVE Joined(Rest, crypto)'
    <3>1. ~broken /\ (srv.iv = NoCrypto \/ toServer = <<>>)
      BY <1>3, <2>3
    <3>2. Chained(Rest, crypto, srv.iv) /\ toServer = <<>>
      BY <1>3, <1>5, <2>2, <3>1 DEF IInv, Lockstep, Joined, Places
    <3>3. Chained(Rest', crypto, srv'.iv)
      BY <1>2, <1>5, <3>2, StateTypes, ChainedPut
    <3> QED
      BY <1>1, <3>2, <3>3 DEF Joined
  <2>4. pc = "establish" => ~broken'
    BY <1>3, <2>1, <2>2
  <2>5. srv'.garbled => srv'.step = 11
    BY <1>3, <1>4 DEF IInv, Lockstep, Inbound
  <2> QED
    BY <1>1, <2>3, <2>4, <2>5 DEF IInv, Lockstep
<1> QED
  BY <1>7, <1>8, <1>9, <1>11, <1>12, <1>14, <1>15, <1>16 DEF IInv

(* The client takes a line of the handshake.                               *)
LEMMA AcceptedKeeps ==
  IInv /\ LineAccepted => IInv'
<1> SUFFICES ASSUME IInv, LineAccepted PROVE IInv'
  OBVIOUS
<1>1. /\ pc = "establish" /\ step \in Inbound /\ step \in 1 .. 10 /\ step' = step + 1
      /\ open /\ ~connected /\ ~broken
  BY DEF LineAccepted, IInv, Places, Lockstep
<1>2. UNCHANGED <<open, generation, error, toServer, toClient, srv, lastIv, broken>>
  BY DEF LineAccepted
<1>3. /\ Rest # <<>> /\ Rest' = Drop(Rest) /\ decoder' \in Seq(Units) /\ Whole(Rest)
      /\ Rest[1].msg.iv = crypto /\ Rest[1].msg.shape = EstablishSession[step].shape
      /\ crypto' = VectorAfter(Rest[1].msg)
  BY <1>1 DEF LineAccepted, IInv, Stream
<1>4. IF step = 10 THEN pc' = "idle" /\ connected' = TRUE /\ IsComplete(hs')
      ELSE pc' = "establish" /\ connected' = FALSE
  BY <1>1 DEF LineAccepted
<1>5. Types'
  BY <1>2, <1>3 DEF IInv, Types
<1>6. Places'
  <2>1. step # 10 => step' \in 1 .. 10
    BY <1>1
  <2> QED
    BY <1>1, <1>2, <1>4, <2>1 DEF IInv, Places
<1>7. Rest[1].msg \in Messages /\ Rest[1].msg.cid \in Nat /\ 1 \in DOMAIN Rest
  <2>1. 1 \in 1 .. Len(Rest) /\ DOMAIN Rest = 1 .. Len(Rest)
    BY <1>3, StateTypes
  <2> QED
    BY <2>1, StateTypes, UnitTypes
<1>8. Vector'
  <2>1. crypto = NoCrypto <=> step <= 5
    BY <1>1 DEF IInv, Vector
  <2>2. Rest[1].msg.shape = "ok_cc" <=> step = 5
    BY <1>1, <1>3, LineFacts
  <2>3. crypto' = IF step = 5 THEN 0 ELSE IF step <= 5 THEN NoCrypto ELSE Rest[1].msg.cid
    BY <1>3, <2>1, <2>2 DEF VectorAfter
  <2>4. crypto' \in Vectors /\ (crypto' = NoCrypto <=> step <= 5 /\ step # 5)
    BY <1>7, <2>3 DEF Vectors, NoCrypto
  <2>5. crypto' = NoCrypto <=> step' <= 5
    BY <1>1, <2>4
  <2>6. step = 10 => crypto' # NoCrypto
    BY <2>4
  <2> QED
    BY <1>2, <1>4, <2>4, <2>5, <2>6 DEF IInv, Vector
<1>9. Stream'
  BY <1>1, <1>2, <1>3, StateTypes, WholeDrop, ConnectionDrop DEF IInv, Stream
<1>10. ServerCount'
  BY <1>2 DEF IInv, ServerCount
<1>11. /\ ServerSent[step + 1] = ServerSent[step] + 1 /\ ClientSent[step + 1] = ClientSent[step]
       /\ ServerSent[step] \in 0 .. 5
  BY <1>1, CountFacts
<1>12. PICK lo \in Nat : Numbered(Rest, lo, srv.seq) /\ lo = ServerSent[step]
  BY <1>1 DEF IInv, Turns
<1>13. Numbered(Rest', lo + 1, srv.seq)
  BY <1>3, <1>12, StateTypes, NumberedDrop
<1>14. step = 10 => srv.step = 11
  <2>1. lo < srv.seq
    BY <1>3, <1>7, <1>12, StateTypes, UnitTypes DEF Numbered
  <2> SUFFICES ASSUME step = 10, srv.step # 11 PROVE FALSE
    OBVIOUS
  <2>2. srv.step \in 1 .. 10
    BY StateTypes
  <2>3. srv.seq \in 0 .. 4
    BY <2>2, CountFacts DEF IInv, ServerCount
  <2>4. lo + 1 = 5
    BY <1>11, <1>12, CountFacts
  <2> QED
    BY <2>1, <2>3, <2>4
<1>15. Turns'
  <2>1. step = 10 => lo + 1 >= 5
    BY <1>11, <1>12, CountFacts
  <2>2. lo + 1 \in Nat /\ lo + 1 = ServerSent[step'] /\ ClientSent[step'] = ClientSent[step]
    BY <1>1, <1>11, <1>12
  <2>3. /\ ClientSent[srv.step] <= ClientSent[step]
        /\ srv.alive => ClientSent[srv.step] + Len(toServer) = ClientSent[step]
    BY <1>1 DEF IInv, Turns
  <2> QED
    BY <1>2, <1>4, <1>13, <1>14, <2>1, <2>2, <2>3 DEF Turns
<1>16. Deviations'
  <2> SUFFICES ASSUME ~srv.honest
               PROVE  \E i \in DOMAIN Rest' : Rest'[i].msg.shape = "other" /\ Rest'[i].msg.seq <= 5
    BY <1>2 DEF Deviations
  <2>1. PICK j \in DOMAIN Rest : Rest[j].msg.shape = "other" /\ Rest[j].msg.seq <= 5
    BY <1>1 DEF IInv, Deviations
  <2>2. Rest[j].msg # Rest[1].msg
    BY <1>1, <1>3, <2>1, LineFacts
  <2>3. PICK i \in DOMAIN Drop(Rest) : Drop(Rest)[i] = Rest[j]
    BY <1>3, <2>2, StateTypes, DropMessages
  <2> QED
    BY <1>3, <2>1, <2>3
<1>17. Lockstep'
  <2>1. Chained(Rest, crypto, srv.iv) /\ (toServer = <<>> \/ ~srv.alive)
    BY <1>1, <1>3 DEF IInv, Lockstep, Joined
  <2>2. Chained(Rest', crypto', srv.iv)
    BY <1>3, <2>1, StateTypes, ChainedDrop
  <2> QED
    BY <1>1, <1>2, <1>4, <2>1, <2>2 DEF IInv, Lockstep, Joined
<1> QED
  BY <1>5, <1>6, <1>8, <1>9, <1>10, <1>15, <1>16, <1>17 DEF IInv

(* The client sends a line of the handshake.                               *)
LEMMA SentKeeps ==
  IInv /\ SentLine => IInv'
<1> SUFFICES ASSUME IInv, SentLine PROVE IInv'
  OBVIOUS
<1>1. /\ pc = "establish" /\ step \notin Inbound /\ step \in 1 .. 10 /\ step' = step + 1
      /\ open /\ ~connected /\ ~broken /\ Sending(crypto, Rest)
  BY DEF SentLine, IInv, Places, Lockstep
<1>2. UNCHANGED <<pc, connected, open, generation, decoder, toClient, error, srv>>
  BY DEF SentLine
<1>3. Rest' = Rest
  BY <1>2 DEF Rest
<1>4. step' \in 1 .. 10 /\ (step' <= 5 <=> step <= 5)
  BY <1>1 DEF Inbound
<1>5. /\ toServer' \in Seq(Messages) /\ crypto' \in Vectors /\ lastIv' \in Nat
      /\ broken' \in BOOLEAN /\ (crypto # NoCrypto => crypto' \in Nat)
      /\ (crypto = NoCrypto => crypto' = NoCrypto)
  BY <1>1, StateTypes, SendingTypes
<1>6. /\ ServerSent[step + 1] = ServerSent[step] /\ ClientSent[step + 1] = ClientSent[step] + 1
      /\ ServerSent[step] \in 0 .. 5 /\ ClientSent[step] \in 0 .. 5 /\ ClientSent[srv.step] \in 0 .. 5
  <2>1. step \in 1 .. 11 /\ srv.step \in 1 .. 11
    BY <1>1, StateTypes
  <2> QED
    BY <1>1, <2>1, CountFacts
<1>7. PICK lo \in Nat : Numbered(Rest, lo, srv.seq) /\ lo = ServerSent[step]
  BY <1>1 DEF IInv, Turns
<1>8. Rest = <<>>
  <2> SUFFICES ASSUME Rest # <<>> PROVE FALSE
    OBVIOUS
  <2>1. ClientSent[srv.step] <= ClientSent[step]
    BY <1>1 DEF IInv, Turns
  <2>2. srv.step # 11 /\ ServerSent[srv.step] <= ServerSent[step]
    BY <1>1, <2>1, StateTypes, TurnFacts
  <2>3. srv.seq <= lo
    BY <1>7, <2>2 DEF IInv, ServerCount
  <2>4. 1 \in DOMAIN Rest
    BY StateTypes
  <2>5. lo < Rest[1].msg.seq /\ Rest[1].msg.seq <= srv.seq
    BY <1>7, <2>4 DEF Numbered
  <2>6. Rest[1].msg.seq \in Nat
    BY <2>4, StateTypes, UnitTypes
  <2> QED
    BY <2>3, <2>5, <2>6, StateTypes
<1>9. broken' = FALSE
  <2>1. ~InFlight(Rest)
    <3>1. 1 .. Len(<<>>) = {}
      OBVIOUS
    <3> QED
      BY <1>8, <3>1 DEF InFlight
  <2> QED
    BY <1>1, <2>1 DEF Sending
<1>10. Types'
  BY <1>2, <1>5 DEF IInv, Types
<1>11. Places'
  BY <1>1, <1>2, <1>4 DEF IInv, Places
<1>12. Vector'
  <2>1. crypto' = NoCrypto <=> crypto = NoCrypto
    BY <1>5 DEF NoCrypto
  <2> QED
    BY <1>1, <1>2, <1>4, <1>5, <2>1 DEF IInv, Vector
<1>13. Stream' /\ Deviations'
  BY <1>2, <1>3 DEF IInv, Stream, Deviations
<1>14. ServerCount'
  BY <1>2 DEF IInv, ServerCount
<1>15. Turns'
  <2>1. lo = ServerSent[step'] /\ ClientSent[step'] = ClientSent[step] + 1
    BY <1>1, <1>6, <1>7
  <2>2. ClientSent[srv.step] <= ClientSent[step']
    BY <1>1, <1>6, <2>1 DEF IInv, Turns
  <2>3. srv.alive => ClientSent[srv.step] + Len(toServer') = ClientSent[step']
    <3> SUFFICES ASSUME srv.alive PROVE ClientSent[srv.step] + Len(toServer') = ClientSent[step']
      OBVIOUS
    <3>1. PICK L \in Nat : L = Len(toServer)
      BY StateTypes
    <3>2. PICK m \in Messages : toServer' = Append(toServer, m)
      BY <1>1 DEF Sending
    <3>3. Len(toServer') = L + 1
      BY <3>1, <3>2, StateTypes
    <3>4. ClientSent[srv.step] + L = ClientSent[step]
      BY <1>1, <3>1 DEF IInv, Turns
    <3> QED
      BY <1>6, <2>1, <3>3, <3>4
  <2> QED
    BY <1>1, <1>2, <1>3, <1>7, <2>1, <2>2, <2>3 DEF Turns
<1>16. Lockstep'
  <2>1. Joined(Rest, crypto)
    BY <1>1 DEF IInv, Lockstep
  <2>2. \/ ~srv.alive
        \/ /\ toServer' # <<>> /\ SentChained(toServer', srv.iv, crypto')
           /\ connected => srv.iv # NoCrypto
    BY <1>1, <1>8, <1>9, <2>1, StateTypes, SendJoins
  <2> QED
    BY <1>1, <1>2, <1>3, <1>8, <1>9, <2>2 DEF IInv, Lockstep, Joined
<1> QED
  BY <1>10, <1>11, <1>12, <1>13, <1>14, <1>15, <1>16 DEF IInv

(* A message of the session.                                               *)
LEMMA SessionKeeps ==
  IInv /\ SessionStep => IInv'
<1> SUFFICES ASSUME IInv, SessionStep PROVE IInv'
  OBVIOUS
<1>1. /\ connected /\ connected' = TRUE /\ pc' = "idle" /\ open /\ srv.step = 11 /\ crypto # NoCrypto
      /\ Whole(Rest) /\ OfConnection(Rest, generation)
      /\ UNCHANGED <<step, open, generation, hs, toClient, srv>>
  BY DEF SessionStep, IInv, Places, Turns, Vector, Stream
<1>2. /\ decoder' \in Seq(Units) /\ toServer' \in Seq(Messages)
      /\ crypto' \in Nat /\ lastIv' \in Nat /\ broken' \in BOOLEAN
      /\ Rest' = Rest \/ (Rest # <<>> /\ Rest' = Drop(Rest))
  BY DEF SessionStep
<1>3. Types'
  BY <1>1, <1>2 DEF IInv, Types
<1>4. Places'
  BY <1>1 DEF IInv, Places
<1>5. crypto' \in Vectors /\ crypto' # NoCrypto
  BY <1>2 DEF Vectors, NoCrypto
<1>6. Vector'
  BY <1>1, <1>2, <1>5 DEF Vector
<1>7. Stream'
  BY <1>1, <1>2, StateTypes, WholeDrop, ConnectionDrop DEF Stream
<1>8. ServerCount'
  BY <1>1 DEF IInv, ServerCount
<1>9. PICK lo \in Nat : Numbered(Rest, lo, srv.seq) /\ lo >= 5
  BY <1>1 DEF IInv, Turns
<1>10. Turns'
  <2>1. CASE Rest' = Rest
    BY <1>1, <1>9, <2>1 DEF Turns
  <2>2. CASE Rest # <<>> /\ Rest' = Drop(Rest)
    <3>1. Numbered(Rest', lo + 1, srv.seq)
      BY <1>1, <1>9, <2>2, StateTypes, NumberedDrop
    <3>2. lo + 1 \in Nat /\ lo + 1 >= 5
      BY <1>9
    <3> QED
      BY <1>1, <3>1, <3>2 DEF Turns
  <2> QED
    BY <1>2, <2>1, <2>2
<1>11. Deviations'
  <2>1. ASSUME NEW i \in DOMAIN Rest, Rest[i].msg.seq <= 5 PROVE FALSE
    <3>1. Rest[i].msg.seq \in Nat
      BY StateTypes, UnitTypes
    <3>2. lo < Rest[i].msg.seq
      BY <1>9 DEF Numbered
    <3> QED
      BY <1>9, <2>1, <3>1, <3>2
  <2>2. srv.honest
    BY <1>1, <2>1 DEF IInv, Deviations
  <2> QED
    BY <1>1, <2>2 DEF Deviations
<1>12. Lockstep'
  <2>1. ASSUME ~broken' PROVE Joined(Rest, crypto)'
    <3>1. CASE Rest' = Rest /\ Sending(crypto, Rest)
      <4>1. ~broken
        BY <2>1, <3>1 DEF Sending
      <4>2. Joined(Rest, crypto)
        BY <1>1, <4>1 DEF IInv, Lockstep
      <4>3. /\ Rest = <<>>
            /\ \/ ~srv.alive
               \/ /\ toServer' # <<>> /\ SentChained(toServer', srv.iv, crypto')
                  /\ connected => srv.iv # NoCrypto
        BY <1>1, <2>1, <3>1, <4>2, StateTypes, SendJoins
      <4> QED
        BY <1>1, <3>1, <4>3 DEF Joined
    <3>2. CASE /\ Rest # <<>> /\ Rest' = Drop(Rest) /\ UNCHANGED <<toServer, broken>>
               /\ Rest[1].msg.iv # crypto \/ crypto' = VectorAfter(Rest[1].msg)
      <4>1. Chained(Rest, crypto, srv.iv) /\ (toServer = <<>> \/ ~srv.alive)
        BY <1>1, <2>1, <3>2 DEF IInv, Lockstep, Joined
      <4>2. Rest[1].msg.iv = crypto
        BY <3>2, <4>1 DEF Chained
      <4>3. Chained(Rest', crypto', srv.iv)
        BY <1>1, <3>2, <4>1, <4>2, StateTypes, ChainedDrop
      <4> QED
        BY <1>1, <3>2, <4>1, <4>3 DEF Joined
    <3>3. CASE /\ Rest # <<>> /\ Rest' = Drop(Rest) /\ Rest[1].msg.iv = crypto
               /\ VectorAfter(Rest[1].msg) # NoCrypto
               /\ Sending(VectorAfter(Rest[1].msg), Rest')
      <4>1. ~broken
        BY <2>1, <3>3 DEF Sending
      <4>2. Chained(Rest, crypto, srv.iv) /\ (toServer = <<>> \/ ~srv.alive)
        BY <1>1, <3>3, <4>1 DEF IInv, Lockstep, Joined
      <4>3. 1 \in 1 .. Len(Rest)
        BY <3>3, StateTypes
      <4>4. Rest[1].msg.cid \in Nat /\ Rest[1].msg.iv \in Vectors
        BY <4>3, StateTypes, UnitTypes
      <4>5. PICK v \in Vectors : v = VectorAfter(Rest[1].msg) /\ v # NoCrypto
        BY <3>3, <4>4 DEF VectorAfter, Vectors
      <4>6. PICK r \in Seq(Units) : r = Rest' /\ r = Drop(Rest)
        BY <1>1, <3>3, StateTypes, DropUnits
      <4>7. Chained(r, v, srv.iv)
        BY <1>1, <3>3, <4>2, <4>5, <4>6, StateTypes, ChainedDrop
      <4>8. Sending(v, r) /\ Joined(r, v)
        BY <3>3, <4>2, <4>5, <4>6, <4>7 DEF Joined
      <4>9. /\ r = <<>>
            /\ \/ ~srv.alive
               \/ /\ toServer' # <<>> /\ SentChained(toServer', srv.iv, crypto')
                  /\ connected => srv.iv # NoCrypto
        BY <2>1, <4>5, <4>8, SendJoins
      <4> QED
        BY <1>1, <4>6, <4>9 DEF Joined
    <3> QED
      BY <2>1, <3>1, <3>2, <3>3 DEF SessionStep
  <2> QED
    BY <1>1, <2>1 DEF IInv, Lockstep
<1> QED
  BY <1>3, <1>4, <1>6, <1>7, <1>8, <1>10, <1>11, <1>12 DEF IInv

-----------------------------------------------------------------------------
(* The theorems. *)

(* Init establishes the invariant: no connection, nothing on the way.      *)
LEMMA InitEstablishes ==
  Init => IInv
<1> SUFFICES ASSUME Init PROVE IInv
  OBVIOUS
<1>1. /\ pc = "idle" /\ open = FALSE /\ connected = FALSE /\ generation = 0 /\ crypto = NoCrypto
      /\ decoder = <<>> /\ toServer = <<>> /\ toClient = <<>> /\ lastIv = 0 /\ broken = FALSE
  BY DEF Init
<1>2. /\ srv \in Servers /\ srv.gen = 0 /\ srv.step = 1 /\ srv.seq = 0 /\ srv.alive = FALSE
      /\ srv.garbled = FALSE
  <2>1. PICK a \in BOOLEAN : a = (0 > 0) /\ a = FALSE
    <3>1. ~(0 > 0)
      OBVIOUS
    <3>2. (0 > 0) = FALSE
      BY <3>1
    <3> QED
      BY <3>2, Zenon
  <2>2. srv = [gen |-> 0, step |-> 1, iv |-> NoCrypto, alive |-> a, honest |-> TRUE,
               garbled |-> FALSE, seq |-> 0, started |-> 0, faults |-> 0]
    BY <2>1 DEF Init, NewServer
  <2> QED
    BY <2>1, <2>2 DEF Servers, Vectors
<1>3. Types
  BY <1>1, <1>2 DEF Types
<1>4. Places
  BY <1>1, <1>2 DEF Places
<1>5. Vector
  BY <1>1 DEF Vector, Vectors
<1>6. Stream /\ Deviations
  BY <1>1 DEF Stream, Deviations
<1>7. ServerCount
  BY <1>2, CountFacts DEF ServerCount
<1>8. Turns
  BY <1>1 DEF Turns
<1>9. Lockstep
  BY <1>1, <1>2 DEF Lockstep
<1> QED
  BY <1>3, <1>4, <1>5, <1>6, <1>7, <1>8, <1>9 DEF IInv

(* The invariant holds in every state, whatever the server does and however *)
(* recv cuts the stream.                                                    *)
THEOREM Invariance ==
  Spec => []IInv
<1>1. Init => IInv
  BY InitEstablishes
<1>2. IInv /\ [Next]_vars => IInv'
  BY Steps, QuietKeeps, ClosedKeeps, OpenKeeps, ServerClosesKeeps, ReceivesKeeps, PutKeeps,
     AcceptedKeeps, SentKeeps, SessionKeeps
<1> QED
  BY <1>1, <1>2, PTL DEF Spec

(* A client that says it is connected has a session with a server that went *)
(* through the whole handshake on this connection (Client::Connect,         *)
(* EstablishSession): a server that deviated would have been found out,     *)
(* because its deviation would still be among the first five messages.      *)
THEOREM SessionAgreed ==
  Spec => []SessionIsAgreed
<1>1. IInv => SessionIsAgreed
  <2> SUFFICES ASSUME IInv, connected
               PROVE  open /\ IsComplete(hs) /\ srv.gen = generation /\ ServerInSession /\ srv.honest
    BY DEF SessionIsAgreed
  <2>1. open /\ IsComplete(hs) /\ srv.gen = generation /\ srv.step = 11
    BY DEF IInv, Places, Turns
  <2>2. ServerInSession
    BY <2>1, LineFacts DEF ServerInSession
  <2>3. PICK lo \in Nat : Numbered(Rest, lo, srv.seq) /\ lo >= 5
    BY <2>1 DEF IInv, Turns
  <2>4. ASSUME NEW i \in DOMAIN Rest, Rest[i].msg.seq <= 5 PROVE FALSE
    <3>1. Rest[i].msg.seq \in Nat
      BY StateTypes, UnitTypes
    <3>2. lo < Rest[i].msg.seq
      BY <2>3 DEF Numbered
    <3> QED
      BY <2>3, <2>4, <3>1, <3>2
  <2>5. srv.honest
    BY <2>1, <2>4 DEF IInv, Deviations
  <2> QED
    BY <2>1, <2>2, <2>5
<1> QED
  BY <1>1, Invariance, PTL

(* The decoder never loses its place in the stream: it holds bytes of this *)
(* connection only, from a frame boundary on, however recv cuts the stream *)
(* (Connection::Connect, FrameDecoder::Push and TryPopFrame).              *)
THEOREM StreamInSync ==
  Spec => []DecoderInSync
<1>1. IInv => DecoderInSync
  <2> SUFFICES ASSUME IInv PROVE DecoderInSync
    OBVIOUS
  <2>1. NoStaleBytes
    <3> SUFFICES ASSUME open, NEW i \in 1 .. Len(decoder) PROVE decoder[i].msg.gen = generation
      BY DEF NoStaleBytes
    <3>1. PICK L \in Nat : L = Len(decoder)
      BY StateTypes
    <3>2. PICK C \in Nat : C = Len(toClient)
      BY StateTypes
    <3>3. /\ Len(Rest) = L + C
          /\ \A n \in 1 .. L + C : Rest[n] = IF n <= L THEN decoder[n] ELSE toClient[n - L]
      BY <3>1, <3>2, StateTypes, ConcatProperties DEF Rest
    <3>4. i \in 1 .. L + C /\ i <= L
      BY <3>1
    <3>5. i \in DOMAIN Rest
      BY <3>3, <3>4, StateTypes
    <3>6. Rest[i] = decoder[i]
      BY <3>3, <3>4
    <3> QED
      BY <3>5, <3>6 DEF IInv, Stream, OfConnection
  <2>2. FrameBoundaries
    <3>1. ASSUME open, Rest # <<>> PROVE Head(Rest).part = "prefix"
      <4>1. Head(Rest) = Rest[1]
        BY <3>1, StateTypes
      <4> QED
        BY <3>1, <4>1 DEF IInv, Stream, Whole
    <3> QED
      BY <3>1 DEF FrameBoundaries, Rest
  <2> QED
    BY <2>1, <2>2 DEF DecoderInSync
<1> QED
  BY <1>1, Invariance, PTL

(* Both ends switch to encryption at the same message and under the same   *)
(* vector, and hold the same vector whenever nothing is under way, unless  *)
(* ciphertexts crossed or one was made and not sent (EstablishSession,     *)
(* SetSessionCrypto, SessionCrypto::Encrypt, Decrypt and UpdateIv).        *)
THEOREM VectorsStay ==
  Spec => []VectorsInStep
<1>1. IInv => VectorsInStep
  <2> SUFFICES ASSUME IInv PROVE VectorsInStep
    OBVIOUS
  <2>1. HandshakeDecrypts
    <3>1. srv.step = 11 => ServerInSession
      BY LineFacts DEF ServerInSession
    <3> QED
      BY <3>1 DEF HandshakeDecrypts, IInv, Lockstep
  <2>2. VectorsAgree
    <3> SUFFICES ASSUME open, srv.alive, ~broken, toServer = <<>>, toClient = <<>>, decoder = <<>>
                 PROVE  crypto = srv.iv
      BY DEF VectorsAgree
    <3>1. Rest = <<>>
      <4>1. <<>> \o <<>> = <<>>
        OBVIOUS
      <4> QED
        BY <4>1 DEF Rest
    <3>2. Chained(Rest, crypto, srv.iv)
      BY DEF IInv, Lockstep, Joined
    <3> QED
      BY <3>1, <3>2 DEF Chained
  <2> QED
    BY <2>1, <2>2 DEF VectorsInStep
<1> QED
  BY <1>1, Invariance, PTL
=============================================================================
