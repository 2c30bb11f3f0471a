-------------------------- MODULE FileShareProofs --------------------------
(***************************************************************************)
(* What holds of the files shared in a watch party for every number of     *)
(* instances, connections and shares, every size of file and of chunk.     *)
(*                                                                         *)
(* The invariant has two halves.  Base holds whatever the names are: how   *)
(* far a sender is with a share is one number n, and every chunk on its    *)
(* way and everything a receiver has written agrees with the first n units *)
(* (InOrder); an announcement reaches a peer at most once (AnnouncedOnce); *)
(* a transfer goes to a path of its share, at which there was no file when *)
(* resolveSharePath chose it (Named).  Sound is about the disk: no two     *)
(* transfers whose names clash go on at a time (Exclusive), so no two of   *)
(* them write to one temporary file; what is written is a beginning of the *)
(* file, and a file that has its name is never written to again.           *)
(*                                                                         *)
(* Exclusive is what the program does not see to: sendSharedFile takes any *)
(* file at any time.  NamesApart says that the users do: files whose names *)
(* clash, as "film.mkv" and "film (1).mkv" do, are sent one after the      *)
(* other or there are no two of them, and no file is sent by the name that *)
(* the temporary file of another has.                                      *)
(*                                                                         *)
(* That files arrive has an invariant of its own, Arriving, for a party    *)
(* whose connections and files are left alone: the frames of a share are   *)
(* numbered, a receiver has handled the first of them, and the others that *)
(* were sent are on their way to it, in order.                             *)
(***************************************************************************)
EXTENDS FileShare, SequenceTheorems, FiniteSetTheorems, WellFoundedInduction, TLAPS

----------------------------------------------------------------------------
(* The invariant.                                                          *)

\* What may be on its way.
Frame ==
    {Accepted, Opened, Closed}
      \cup [type : {"join"}, code : Codes, role : {"host", "guest"}]
      \cup [type : {"peer_update"}, host : BOOLEAN, guests : Nat]
      \cup [type : {"share_meta"}, id : Shares]
      \cup [type : {"share_chunk"}, id : Shares, index : Nat, data : Seq(UnitsOf)]
      \cup [type : {"share_done"}, id : Shares, sha1 : Seq(UnitsOf)]

\* What a stream holds, whether anything holds f, and whether only once.
Frames(q)    == {q[i] : i \in DOMAIN q}
Travels(f)   == \E s \in Sockets : f \in Frames(up[s]) \/ f \in Frames(down[s])
Once(q, f)   == \A i, j \in DOMAIN q : q[i] = f /\ q[j] = f => i = j

\* A peer has one connection at a time.
Connections ==
    /\ \A p \in Peers : socket[p][1] = p
    /\ \A s \in Sockets : wire[s] \in {"up", "connecting"} => s = socket[s[1]]
    /\ \A s \in Sockets : s[2] > socket[s[1]][2] => wire[s] = "idle"
    /\ \A s \in Sockets : Closed \in Frames(down[s]) => wire[s] = "down"
    /\ \A p \in Peers : reconnectPending[p] => wire[socket[p]] = "down"

\* What an instance sends is its own, and in its queue once.
Queues ==
    \A p \in Peers : \A id \in Frames(outgoingQueue[p]) :
       /\ Owner[id] = p /\ outgoingShares[id] # NoShare
       /\ Once(outgoingQueue[p], id)

\* Where chunk i begins.
Start(i) == i * ChunkSize
Lesser(m, n) == IF m <= n THEN m ELSE n

\* The sender of a share has read n units of the file, a chunk on its way is a
\* piece of these, and a receiver has a beginning of them.
SentSoFar(id, n) ==
    /\ outgoingShares[id] # NoShare =>
          outgoingShares[id].sent = n /\ n = Start(outgoingShares[id].chunkIndex)
    /\ shown[Owner[id]][id] = "none" => n = 0
ChunkIs(f, id, n) ==
    f.type = "share_chunk" /\ f.id = id =>
       /\ Start(f.index) < n
       /\ f.data = Units(id, Start(f.index), Lesser(Start(f.index) + ChunkSize, n))
ReceivedSoFar(p, id, n) ==
    LET share == incomingShares[p][id]
    IN  id \in Incoming(p) =>
           /\ share.received = Content(id, Lesser(Start(share.receivedChunks), n))
           /\ share.receivedChunks # 0 => Start(share.receivedChunks - 1) < n
Agrees(id, n) ==
    /\ SentSoFar(id, n)
    /\ \A s \in Sockets :
          \A f \in Frames(up[s]) \cup Frames(down[s]) : ChunkIs(f, id, n)
    /\ \A p \in Peers : ReceivedSoFar(p, id, n)
InOrder == \A id \in Shares : \E n \in 0 .. Size[id] : Agrees(id, n)

\* An announcement reaches a peer once.
Announced(id) ==
    LET m == ShareMeta(id)
    IN  /\ shown[Owner[id]][id] = "none" =>
              /\ outgoingShares[id] = NoShare
              /\ \A s \in Sockets : m \notin Frames(up[s]) \cup Frames(down[s])
              /\ \A p \in Peers : savedAs[p][id] = NoFile
        /\ \A s \in Sockets : Once(up[s], m) /\ Once(down[s], m)
        /\ \A s, t \in Sockets : m \in Frames(up[s]) =>
              /\ m \in Frames(up[t]) => s = t
              /\ m \notin Frames(down[t])
              /\ savedAs[t[1]][id] = NoFile
        /\ \A s, t \in Sockets : m \in Frames(down[s]) =>
              /\ m \in Frames(down[t]) /\ s[1] = t[1] => s = t
              /\ savedAs[s[1]][id] = NoFile
AnnouncedOnce == \A id \in Shares : Announced(id)

\* The paths that resolveSharePath may give a share.
Own(id) == {Candidate[id][n] : n \in 0 .. MaxNumber} \cup {Generated[id]}

\* A transfer writes next to the path that the chat names, one of its own; a file
\* has a made-up name only if its share was announced.
Named ==
    \A p \in Peers :
       /\ \A id \in Incoming(p) :
             /\ savedAs[p][id] = incomingShares[p][id].finalPath
             /\ savedAs[p][id] \in Own(id)
             /\ downloads[p][PartOf[savedAs[p][id]]] # NoFile
       /\ \A id \in Shares : downloads[p][Generated[id]] # NoFile => savedAs[p][id] # NoFile
       /\ \A id \in Shares : shown[p][id] = "received" => savedAs[p][id] \in FinalPaths

\* Nobody sends a file by the name of another's temporary file.
PartsApart == FinalPaths \cap TempPaths = {}

\* What the names have to be: as above, and files whose names clash are sent one
\* after the other, or there are no two of them.
NamesApart ==
    /\ PartsApart
    /\ ~Overlap \/ \A x, y \in Shares : Clash(x, y) => x = y

\* Somebody sends the share, or receives it, or is about to; no two whose names clash.
InBusiness(id) ==
    \/ outgoingShares[id] # NoShare
    \/ \E p \in Peers : id \in Incoming(p)
    \/ Travels(ShareMeta(id))
Exclusive ==
    \A x, y \in Shares : Clash(x, y) /\ InBusiness(x) /\ InBusiness(y) => x = y

\* What a transfer will be renamed to does not exist.
Unfinished ==
    \A p \in Peers : \A id \in Incoming(p) :
       downloads[p][incomingShares[p][id].finalPath] = NoFile

\* Announcements, and the frames that neither announce nor carry a file.
Metas == {ShareMeta(id) : id \in Shares}
Plain == {f \in Frame : f.type \notin {"share_meta", "share_chunk"}}

\* The stream new holds what old held or extra holds, an announcement as often.
Derived(new, old, extra) ==
    /\ new \in Seq(Frame)
    /\ Frames(new) \subseteq Frames(old) \cup extra
    /\ \A m \in Metas \ extra : Once(old, m) => Once(new, m)

----------------------------------------------------------------------------
(* Frames and streams.                                                     *)

\* The frames that the program makes.
LEMMA FramesBuilt ==
    /\ {Accepted, Opened, Closed} \subseteq Plain
    /\ \A p \in Peers : JoinFrame(p) \in Plain
    /\ \A online \in BOOLEAN, n \in Nat : PeerUpdate(online, n) \in Plain
    /\ \A id \in Shares : ShareMeta(id) \in Frame
    /\ \A id \in Shares, i \in Nat, data \in Seq(UnitsOf) : ShareChunk(id, i, data) \in Frame
    /\ \A id \in Shares, sha1 \in Seq(UnitsOf) : ShareDone(id, sha1) \in Plain
  BY SharesAssumption
     DEF Frame, Plain, Accepted, Opened, Closed, JoinFrame, PeerUpdate, ShareMeta, ShareChunk,
         ShareDone

\* What a frame is told apart by.
LEMMA FramesRead ==
    ASSUME NEW f \in Frame
    PROVE  /\ f.type = "share_meta" => f.id \in Shares /\ f = ShareMeta(f.id)
           /\ f.type = "share_chunk" => /\ f.id \in Shares /\ f.index \in Nat
                                        /\ f.data \in Seq(UnitsOf)
           /\ f.type = "share_done" => f.id \in Shares
           /\ f.type = "join" => f.code \in Codes /\ f.role \in {"host", "guest"}
           /\ f.type # "ping"
  BY DEF Frame, Accepted, Opened, Closed, ShareMeta

\* Announcements are frames of their own, one for each share.
LEMMA MetasRead ==
    /\ \A m \in Metas : m \in Frame /\ m \notin Plain /\ m.type = "share_meta"
    /\ \A id \in Shares : ShareMeta(id) \in Metas
    /\ \A x, y \in Shares : ShareMeta(x) = ShareMeta(y) => x = y
  BY FramesBuilt DEF Metas, ShareMeta, Plain

\* A stream is a function on 1 .. its length.
LEMMA SeqRead ==
    ASSUME NEW q \in Seq(Frame)
    PROVE  /\ DOMAIN q = 1 .. Len(q) /\ Len(q) \in Nat
           /\ Frames(q) \subseteq Frame
  BY LenProperties DEF Frames

\* Without its head, a sequence holds what it held, once if it held it once.
LEMMA TailOf ==
    ASSUME NEW S, NEW q \in Seq(S), q # <<>>
    PROVE  /\ Tail(q) \in Seq(S) /\ Head(q) \in S /\ Head(q) \in Frames(q)
           /\ Frames(Tail(q)) \subseteq Frames(q)
           /\ \A m : Once(q, m) => Once(Tail(q), m)
           /\ Once(q, Head(q)) => Head(q) \notin Frames(Tail(q))
  <1>1. /\ Tail(q) \in Seq(S) /\ Head(q) = q[1] /\ Len(q) \in Nat \ {0}
        /\ Len(Tail(q)) = Len(q) - 1
        /\ \A i \in 1 .. Len(Tail(q)) : Tail(q)[i] = q[i + 1]
        /\ DOMAIN q = 1 .. Len(q) /\ DOMAIN Tail(q) = 1 .. Len(Tail(q))
    BY HeadTailProperties, LenProperties, EmptySeq
  <1>2. 1 \in DOMAIN q /\ q[1] \in S
    BY <1>1
  <1>3. \A i \in DOMAIN Tail(q) :
           i + 1 \in DOMAIN q /\ i + 1 # 1 /\ Tail(q)[i] = q[i + 1] /\ i \in Int
    BY <1>1
  <1>4. Frames(Tail(q)) \subseteq Frames(q)
    BY <1>3 DEF Frames
  <1>5. ASSUME NEW m, Once(q, m) PROVE Once(Tail(q), m)
    <2> SUFFICES ASSUME NEW i \in DOMAIN Tail(q), NEW j \in DOMAIN Tail(q),
                        Tail(q)[i] = m, Tail(q)[j] = m
                 PROVE  i = j
      BY DEF Once
    <2>1. i + 1 = j + 1
      BY <1>3, <1>5 DEF Once
    <2>2. QED
      BY <1>3, <2>1
  <1>6. ASSUME Once(q, Head(q)), Head(q) \in Frames(Tail(q)) PROVE FALSE
    <2>1. PICK i \in DOMAIN Tail(q) : Tail(q)[i] = Head(q)
      BY <1>6 DEF Frames
    <2>2. i + 1 = 1
      BY <1>1, <1>2, <1>3, <1>6, <2>1 DEF Once
    <2>3. QED
      BY <1>3, <2>2
  <1>7. Head(q) \in Frames(q)
    BY <1>1, <1>2 DEF Frames
  <1>8. QED
    BY <1>1, <1>2, <1>4, <1>5, <1>6, <1>7

\* With one more at its end, a sequence holds that too.
LEMMA AppendOf ==
    ASSUME NEW S, NEW q \in Seq(S), NEW f \in S
    PROVE  /\ Append(q, f) \in Seq(S)
           /\ Frames(Append(q, f)) = Frames(q) \cup {f}
           /\ \A m : Once(q, m) /\ (m # f \/ m \notin Frames(q)) => Once(Append(q, f), m)
  <1> DEFINE r == Append(q, f)
  <1>1. /\ r \in Seq(S) /\ Len(r) = Len(q) + 1 /\ r[Len(q) + 1] = f
        /\ \A i \in 1 .. Len(q) : r[i] = q[i]
        /\ Len(q) \in Nat
        /\ DOMAIN q = 1 .. Len(q) /\ DOMAIN r = 1 .. Len(r)
    BY AppendProperties, LenProperties
  <1> HIDE DEF r
  <1>2. DOMAIN r = DOMAIN q \cup {Len(q) + 1} /\ Len(q) + 1 \notin DOMAIN q
    BY <1>1
  <1>3. \A i \in DOMAIN q : r[i] = q[i]
    BY <1>1
  <1>4. Frames(r) = Frames(q) \cup {f}
    BY <1>1, <1>2, <1>3 DEF Frames
  <1>5. ASSUME NEW m, Once(q, m), m # f \/ m \notin Frames(q) PROVE Once(r, m)
    <2> SUFFICES ASSUME NEW i \in DOMAIN r, NEW j \in DOMAIN r, r[i] = m, r[j] = m
                 PROVE  i = j
      BY DEF Once
    <2>1. CASE m # f
      <3>1. i \in DOMAIN q /\ j \in DOMAIN q
        BY <1>1, <1>2, <2>1
      <3>2. QED
        BY <1>3, <1>5, <3>1 DEF Once
    <2>2. CASE m \notin Frames(q)
      <3>1. i \notin DOMAIN q /\ j \notin DOMAIN q
        BY <1>3, <2>2 DEF Frames
      <3>2. QED
        BY <1>2, <3>1
    <2>3. QED
      BY <1>5, <2>1, <2>2
  <1>6. QED
    BY <1>1, <1>4, <1>5 DEF r

\* The head of a stream is taken off.
LEMMA TailDerived ==
    ASSUME NEW q \in Seq(Frame), q # <<>>
    PROVE  /\ Derived(Tail(q), q, {})
           /\ Head(q) \in Frames(q) /\ Head(q) \in Frame
           /\ Once(q, Head(q)) => Head(q) \notin Frames(Tail(q))
  BY TailOf DEF Derived

\* A stream that stays as it is.
LEMMA SameDerived ==
    ASSUME NEW q \in Seq(Frame), NEW extra
    PROVE  Derived(q, q, extra)
  BY DEF Derived

\* What is left of a stream that breaks.
LEMMA PrefixDerived ==
    ASSUME NEW q \in Seq(Frame), NEW i \in 0 .. Len(q)
    PROVE  Derived(SubSeq(q, 1, i), q, {})
  <1> DEFINE kept == SubSeq(q, 1, i)
  <1>1. Len(q) \in Nat /\ DOMAIN q = 1 .. Len(q)
    BY LenProperties
  <1>2. \A k \in 1 .. i : q[k] \in Frame
    BY <1>1
  <1>3. kept \in Seq(Frame) /\ Len(kept) = i /\ \A k \in 1 .. i : kept[k] = q[k]
    BY <1>1, <1>2, SubSeqProperties
  <1>4. DOMAIN kept = 1 .. i
    BY <1>3, LenProperties
  <1>5. \A k \in DOMAIN kept : k \in DOMAIN q /\ kept[k] = q[k]
    BY <1>1, <1>3, <1>4
  <1> HIDE DEF kept
  <1>6. QED
    BY <1>3, <1>5 DEF kept, Derived, Frames, Once

\* What a stream holds after a frame was sent on it.
LEMMA FramesAppended ==
    ASSUME NEW q \in Seq(Frame), NEW f \in Frame
    PROVE  Frames(Append(q, f)) = Frames(q) \cup {f}
  BY AppendOf

\* A frame is sent on a stream that has changed already.
LEMMA AppendDerived ==
    ASSUME NEW q \in Seq(Frame), NEW old, NEW extra, NEW f \in Frame,
           Derived(q, old, extra)
    PROVE  /\ Derived(Append(q, f), old, extra \cup {f})
           /\ Once(q, f) /\ f \notin Frames(q) => Once(Append(q, f), f)
  <1>1. /\ Append(q, f) \in Seq(Frame) /\ Frames(Append(q, f)) = Frames(q) \cup {f}
        /\ \A m : Once(q, m) /\ (m # f \/ m \notin Frames(q)) => Once(Append(q, f), m)
    BY AppendOf
  <1>2. QED
    BY <1>1 DEF Derived

\* A stream that is cut ends with the callback about its end.
LEMMA CutDerived ==
    ASSUME NEW q \in Seq(Frame), NEW i \in 0 .. Len(q)
    PROVE  Derived(Append(SubSeq(q, 1, i), Closed), q, {Closed})
  <1>1. SubSeq(q, 1, i) \in Seq(Frame) /\ Derived(SubSeq(q, 1, i), q, {})
    BY PrefixDerived DEF Derived
  <1>2. Closed \in Frame
    BY FramesBuilt DEF Plain
  <1>3. Derived(Append(SubSeq(q, 1, i), Closed), q, {} \cup {Closed})
    BY <1>1, <1>2, AppendDerived
  <1>4. QED
    BY <1>3

\* A frame is sent on a stream.
LEMMA OneMore ==
    ASSUME NEW q \in Seq(Frame), NEW f \in Frame
    PROVE  Derived(Append(q, f), q, {f})
  <1>1. Derived(q, q, {})
    BY SameDerived
  <1>2. Derived(Append(q, f), q, {} \cup {f})
    BY <1>1, AppendDerived
  <1>3. QED
    BY <1>2

\* A larger set of new frames says less.
LEMMA DerivedWeakens ==
    ASSUME NEW new, NEW old, NEW few, NEW extra, Derived(new, old, few), few \subseteq extra
    PROVE  Derived(new, old, extra)
  BY DEF Derived

----------------------------------------------------------------------------
(* Multiples of the chunk size, and the units of a file.                   *)

\* Chunk i begins at Start(i), and a chunk that begins before another ends before it.
LEMMA Multiples ==
    /\ Start(0) = 0
    /\ \A i \in Nat : Start(i) \in Nat /\ Start(i + 1) = Start(i) + ChunkSize
    /\ \A i, j \in Nat : Start(i) < Start(j) => Start(i) + ChunkSize <= Start(j)
  <1>1. ChunkSize \in Nat /\ ChunkSize > 0
    BY SharesAssumption
  <1>2. PICK c \in Nat : c = ChunkSize /\ c > 0
    BY <1>1
  <1>3. ASSUME NEW i \in Nat PROVE i * c \in Nat /\ (i + 1) * c = i * c + c
    BY <1>2
  <1>4. ASSUME NEW i \in Nat, NEW j \in Nat, i * c < j * c PROVE i * c + c <= j * c
    <2>1. i < j
      <3>1. CASE j <= i
        <4>1. PICK k \in Nat : i = j + k
          BY <3>1
        <4>2. i * c = j * c + k * c /\ k * c \in Nat /\ i * c \in Nat /\ j * c \in Nat
          BY <1>2, <4>1
        <4>3. QED
          BY <1>4, <4>2
      <3>2. QED
        BY <3>1
    <2>2. PICK k \in Nat : j = (i + 1) + k
      <3>1. j - (i + 1) \in Nat /\ j = (i + 1) + (j - (i + 1))
        BY <2>1
      <3>2. QED
        BY <3>1
    <2>3. j * c = (i + 1) * c + k * c /\ k * c \in Nat
      BY <1>2, <2>2
    <2>4. QED
      BY <1>2, <1>3, <2>3
  <1>5. QED
    BY <1>2, <1>3, <1>4 DEF Start

\* A share has as many chunks as it takes.
LEMMA ChunksFit ==
    ASSUME NEW id \in Shares
    PROVE  /\ TotalChunks(id) \in Nat
           /\ \A j \in Nat : Start(j) < Size[id] => j + 1 <= TotalChunks(id)
  <1>1. PICK c \in Nat : c = ChunkSize /\ c > 0
    BY SharesAssumption
  <1>2. PICK n \in Nat : n = Size[id]
    BY SharesAssumption
  <1>3. PICK a \in Nat : a = n + c - 1
    BY <1>1, <1>2
  <1>4. PICK q \in Nat : q = a \div c /\ a < q * c + c
    BY <1>1, <1>3
  <1>5. ASSUME NEW j \in Nat, j * c < n PROVE j + 1 <= q
    <2>1. CASE q <= j
      <3>1. PICK k \in Nat : j = q + k
        BY <2>1
      <3>2. j * c = q * c + k * c /\ k * c \in Nat /\ q * c \in Nat
        BY <1>1, <3>1
      <3>3. QED
        BY <1>1, <1>3, <1>4, <1>5, <3>2
    <2>2. QED
      BY <2>1
  <1>6. TotalChunks(id) = q
    BY <1>1, <1>2, <1>3, <1>4 DEF TotalChunks
  <1>7. QED
    BY <1>1, <1>2, <1>5, <1>6 DEF Start

\* A piece of a file has as many units as it spans.
LEMMA UnitsTyped ==
    ASSUME NEW id \in Shares, NEW a \in Nat, NEW b \in Nat, a <= b
    PROVE  Units(id, a, b) \in Seq(UnitsOf) /\ Len(Units(id, a, b)) = b - a
  <1>1. PICK n \in Nat : n = b - a
    OBVIOUS
  <1>2. \A i \in 1 .. n : <<id, a + i>> \in UnitsOf
    BY DEF UnitsOf
  <1>3. Units(id, a, b) = [i \in 1 .. n |-> <<id, a + i>>]
    BY <1>1 DEF Units
  <1>4. Units(id, a, b) \in [1 .. n -> UnitsOf]
    BY <1>2, <1>3
  <1>5. QED
    BY <1>1, <1>4, LenProperties

\* The beginning of a file of n units has n units.
LEMMA ContentTyped ==
    ASSUME NEW id \in Shares, NEW n \in Nat
    PROVE  Content(id, n) \in Seq(UnitsOf) /\ Len(Content(id, n)) = n
  <1>1. 0 \in Nat /\ 0 <= n /\ n - 0 = n
    OBVIOUS
  <1>2. QED
    BY <1>1, UnitsTyped DEF Content

\* Nothing of a file is the empty sequence.
LEMMA ContentEmpty ==
    ASSUME NEW id \in Shares
    PROVE  Content(id, 0) = <<>>
  <1>1. Content(id, 0) \in Seq(UnitsOf) /\ Len(Content(id, 0)) = 0
    BY ContentTyped
  <1>2. QED
    BY <1>1, EmptySeq

\* A beginning and the piece that follows are a longer beginning.
LEMMA ContentExtended ==
    ASSUME NEW id \in Shares, NEW a \in Nat, NEW b \in Nat, a <= b
    PROVE  Content(id, a) \o Units(id, a, b) = Content(id, b)
  <1> DEFINE x == Content(id, a)
             y == Units(id, a, b)
             z == Content(id, b)
  <1>1. /\ x \in Seq(UnitsOf) /\ Len(x) = a /\ y \in Seq(UnitsOf) /\ Len(y) = b - a
        /\ z \in Seq(UnitsOf) /\ Len(z) = b
    BY UnitsTyped, ContentTyped
  <1>2. /\ \A i \in 1 .. a : x[i] = <<id, i>>
        /\ \A i \in 1 .. b - a : y[i] = <<id, a + i>>
        /\ \A i \in 1 .. b : z[i] = <<id, i>>
    BY DEF Content, Units
  <1> HIDE DEF x, y, z
  <1>3. /\ x \o y \in Seq(UnitsOf) /\ Len(x \o y) = Len(x) + Len(y)
        /\ \A i \in 1 .. Len(x) + Len(y) :
              (x \o y)[i] = IF i <= Len(x) THEN x[i] ELSE y[i - Len(x)]
    BY <1>1, ConcatProperties
  <1>4. PICK w \in Seq(UnitsOf) : w = x \o y
    BY <1>3
  <1>5. Len(w) = b /\ \A i \in 1 .. b : w[i] = IF i <= a THEN x[i] ELSE y[i - a]
    BY <1>1, <1>3, <1>4
  <1>6. ASSUME NEW i \in 1 .. b PROVE w[i] = z[i]
    <2>1. z[i] = <<id, i>> /\ w[i] = IF i <= a THEN x[i] ELSE y[i - a]
      BY <1>2, <1>5
    <2>2. CASE i <= a
      <3>1. i \in 1 .. a
        BY <2>2
      <3>2. x[i] = <<id, i>>
        BY <1>2, <3>1
      <3>3. QED
        BY <2>1, <2>2, <3>2
    <2>3. CASE ~(i <= a)
      <3>1. PICK k \in 1 .. b - a : k = i - a /\ a + k = i
        BY <2>3
      <3>2. y[k] = <<id, a + k>>
        BY <1>2
      <3>3. QED
        BY <2>1, <2>3, <3>1, <3>2
    <2>4. QED
      BY <2>2, <2>3
  <1>7. w = z
    BY <1>1, <1>5, <1>6, SeqEqual
  <1>8. QED
    BY <1>4, <1>7 DEF x, y, z

\* A beginning of a beginning of the file is one.
LEMMA ContentCut ==
    ASSUME NEW id \in Shares, NEW m \in Nat, NEW n \in 0 .. m
    PROVE  SubSeq(Content(id, m), 1, n) = Content(id, n)
  <1>1. PICK whole, cut : whole = Content(id, m) /\ cut = SubSeq(whole, 1, n)
    OBVIOUS
  <1>2. n \in Nat /\ whole \in Seq(UnitsOf) /\ Len(whole) = m
        /\ Content(id, n) \in Seq(UnitsOf) /\ Len(Content(id, n)) = n
    BY <1>1, ContentTyped
  <1>3. /\ \A i \in 1 .. m : whole[i] = <<id, i>>
        /\ \A i \in 1 .. n : Content(id, n)[i] = <<id, i>>
    BY <1>1, <1>2 DEF Content, Units
  <1>4. \A i \in 1 .. n : whole[i] \in UnitsOf
    BY <1>2, LenProperties
  <1>5. /\ cut \in Seq(UnitsOf) /\ Len(cut) = n
        /\ \A i \in 1 .. n : cut[i] = whole[i]
    <2>1. /\ cut \in Seq(UnitsOf)
          /\ Len(cut) = IF 1 <= n THEN n - 1 + 1 ELSE 0
          /\ \A i \in 1 .. n - 1 + 1 : cut[i] = whole[1 + i - 1]
      BY <1>1, <1>2, <1>4, SubSeqProperties
    <2>2. QED
      BY <1>2, <2>1
  <1>6. \A i \in 1 .. n : cut[i] = Content(id, n)[i]
    <2>1. \A i \in 1 .. n : i \in 1 .. m
      BY <1>2
    <2>2. QED
      BY <1>3, <1>5, <2>1
  <1>7. QED
    BY <1>1, <1>2, <1>5, <1>6, SeqEqual

\* A file that was written to is a sequence of units.
LEMMA WrittenTyped ==
    ASSUME NEW file \in Seq(UnitsOf), NEW at \in Nat, NEW data \in Seq(UnitsOf)
    PROVE  Written(file, at, data) \in Seq(UnitsOf)
  <1>1. PICK n \in Nat :
           n = (IF Len(file) > at + Len(data) THEN Len(file) ELSE at + Len(data))
    BY LenProperties
  <1>2. /\ Len(file) \in Nat /\ Len(data) \in Nat
        /\ \A k \in 1 .. Len(file) : file[k] \in UnitsOf
        /\ \A k \in 1 .. Len(data) : data[k] \in UnitsOf
    BY LenProperties
  <1>3. ASSUME NEW k \in 1 .. n
        PROVE  (IF k \in at + 1 .. at + Len(data) THEN data[k - at]
                ELSE IF k <= Len(file) THEN file[k] ELSE Zero) \in UnitsOf
    <2>1. CASE k \in at + 1 .. at + Len(data)
      <3>1. k - at \in 1 .. Len(data)
        BY <1>2, <2>1
      <3>2. QED
        BY <1>2, <2>1, <3>1
    <2>2. CASE k \notin at + 1 .. at + Len(data)
      BY <1>2, <2>2 DEF UnitsOf
    <2>3. QED
      BY <2>1, <2>2
  <1>4. Written(file, at, data) \in [1 .. n -> UnitsOf]
    BY <1>1, <1>3 DEF Written
  <1>5. QED
    BY <1>4

\* Written at the end of what is there.
LEMMA WrittenExtends ==
    ASSUME NEW id \in Shares, NEW a \in Nat, NEW b \in Nat, a <= b
    PROVE  Written(Content(id, a), a, Units(id, a, b)) = Content(id, b)
  <1> DEFINE x == Content(id, a)
             y == Units(id, a, b)
  <1>1. Len(x) = a /\ Len(y) = b - a
    BY UnitsTyped, ContentTyped
  <1>2. /\ \A i \in 1 .. a : x[i] = <<id, i>>
        /\ \A i \in 1 .. b - a : y[i] = <<id, a + i>>
    BY DEF Content, Units
  <1> HIDE DEF x, y
  <1>3. (IF Len(x) > a + Len(y) THEN Len(x) ELSE a + Len(y)) = b /\ a + Len(y) = b
    BY <1>1
  <1>4. ASSUME NEW k \in 1 .. b
        PROVE  (IF k \in a + 1 .. a + Len(y) THEN y[k - a]
                ELSE IF k <= Len(x) THEN x[k] ELSE Zero) = <<id, k>>
    <2>1. CASE k \in a + 1 .. b
      <3>1. k - a \in 1 .. b - a /\ a + (k - a) = k
        BY <2>1
      <3>2. QED
        BY <1>2, <1>3, <2>1, <3>1
    <2>2. CASE k \notin a + 1 .. b
      BY <1>1, <1>2, <1>3, <2>2
    <2>3. QED
      BY <2>1, <2>2
  <1>5. Written(x, a, y) = [k \in 1 .. b |-> <<id, k>>]
    BY <1>3, <1>4 DEF Written
  <1>6. Content(id, b) = [k \in 1 .. b |-> <<id, k>>]
    <2>1. \A k \in 1 .. b : 0 + k = k
      OBVIOUS
    <2>2. b - 0 = b
      OBVIOUS
    <2>3. QED
      BY <2>1, <2>2 DEF Content, Units
  <1>7. QED
    BY <1>5, <1>6 DEF x, y

----------------------------------------------------------------------------
(* The streams, and the server.                                            *)

Streams == up \in [Sockets -> Seq(Frame)] /\ down \in [Sockets -> Seq(Frame)]

\* What a step does to the streams: what is new on them is in extra.
NetStep(extra) ==
    /\ Streams'
    /\ \A s \in Sockets : Derived(up'[s], up[s], extra) /\ Derived(down'[s], down[s], extra)

\* How connections go on while every instance keeps the one it has, and who hears
\* of an end.
WiresMove ==
    \A s \in Sockets :
       /\ \/ wire'[s] = wire[s]
          \/ wire'[s] = "down" /\ (wire[s] = "up" \/ s = socket[s[1]])
          \/ wire'[s] = "up" /\ wire[s] = "connecting"
       /\ Closed \in Frames(down'[s]) => Closed \in Frames(down[s]) \/ wire'[s] = "down"

\* A peer_update is none of the frames that the transfers look at.
LEMMA PeerUpdateTyped ==
    ASSUME NEW online \in BOOLEAN, NEW g \in SUBSET Sockets
    PROVE  PeerUpdate(online, Cardinality(g)) \in Plain
           /\ PeerUpdate(online, Cardinality(g)) # Closed
  <1>1. Cardinality(g) \in Nat
    BY SocketsAssumption, FS_Subset, FS_CardinalityType
  <1>2. QED
    BY <1>1, FramesBuilt DEF PeerUpdate, Closed

\* sendPeerUpdate
LEMMA PeerUpdateSentDerived ==
    ASSUME Streams, NEW h, NEW g \in SUBSET Sockets, NEW s \in Sockets
    PROVE  /\ Derived(PeerUpdateSent(h, g)[s], down[s], Plain)
           /\ Closed \in Frames(PeerUpdateSent(h, g)[s]) => Closed \in Frames(down[s])
  <1>1. down[s] \in Seq(Frame)
    BY DEF Streams
  <1>2. CASE PeerUpdateSent(h, g)[s] = down[s]
    BY <1>1, <1>2, SameDerived
  <1>3. ASSUME NEW online \in BOOLEAN,
               PeerUpdateSent(h, g)[s] = Append(down[s], PeerUpdate(online, Cardinality(g)))
        PROVE  /\ Derived(PeerUpdateSent(h, g)[s], down[s], Plain)
               /\ Closed \in Frames(PeerUpdateSent(h, g)[s]) => Closed \in Frames(down[s])
    <2>1. PICK m \in Plain : m = PeerUpdate(online, Cardinality(g)) /\ m # Closed
      BY PeerUpdateTyped
    <2>2. m \in Frame /\ {m} \subseteq Plain
      BY <2>1 DEF Plain
    <2>4. Frames(Append(down[s], m)) = Frames(down[s]) \cup {m}
      BY <1>1, <2>2, FramesAppended
    <2>5. Derived(Append(down[s], m), down[s], Plain)
      BY <1>1, <2>2, OneMore, DerivedWeakens
    <2>6. QED
      BY <1>3, <2>1, <2>4, <2>5
  <1>4. \/ PeerUpdateSent(h, g)[s] = down[s]
        \/ \E online \in BOOLEAN :
              PeerUpdateSent(h, g)[s] = Append(down[s], PeerUpdate(online, Cardinality(g)))
    BY DEF PeerUpdateSent
  <1>5. QED
    BY <1>2, <1>3, <1>4

\* The server takes a frame or a callback off a stream.
LEMMA ConsumeDerived ==
    ASSUME Streams, NEW s \in Sockets, up[s] # <<>>, up' = Consume(s), NEW extra
    PROVE  /\ up' \in [Sockets -> Seq(Frame)]
           /\ \A x \in Sockets : Derived(up'[x], up[x], extra)
  <1>1. Derived(Tail(up[s]), up[s], extra)
    BY TailDerived, DerivedWeakens DEF Streams
  <1>2. Tail(up[s]) \in Seq(Frame)
    BY <1>1 DEF Derived
  <1>3. up' = [up EXCEPT ![s] = Tail(up[s])]
    BY DEF Consume
  <1>4. \A x \in Sockets : up'[x] = IF x = s THEN Tail(up[s]) ELSE up[x]
    BY <1>3 DEF Streams
  <1>5. \A x \in Sockets : x # s => Derived(up'[x], up[x], extra)
    BY <1>4, SameDerived DEF Streams
  <1>6. QED
    BY <1>1, <1>2, <1>3, <1>4, <1>5 DEF Streams

\* The streams of the clients stay as they are.
LEMMA UnchangedDerived ==
    ASSUME Streams, UNCHANGED down, NEW extra
    PROVE  /\ down' \in [Sockets -> Seq(Frame)]
           /\ \A x \in Sockets : /\ Derived(down'[x], down[x], extra)
                                 /\ Closed \in Frames(down'[x]) => Closed \in Frames(down[x])
  BY SameDerived DEF Streams

\* The types of the server and of the connections.
ServerOK == ServerTypeOK /\ wire \in [Sockets -> WireStates]

\* onClientConnected
LEMMA ArrivalRuns ==
    ASSUME ServerOK, Streams, NEW s \in Sockets, OnClientConnected(s)
    PROVE  ServerOK' /\ NetStep(Plain) /\ WiresMove
  <1>1. up' = Consume(s) /\ up[s] # <<>> /\ UNCHANGED <<wire, down>>
    BY DEF OnClientConnected, HeadIs
  <1>2. NetStep(Plain) /\ WiresMove
    BY <1>1, ConsumeDerived, UnchangedDerived DEF NetStep, Streams, WiresMove
  <1>3. ServerOK'
    BY DEF ServerOK, ServerTypeOK, OnClientConnected, PeerInfo
  <1>4. QED
    BY <1>2, <1>3

\* onSocketDisconnected
LEMMA EndRuns ==
    ASSUME ServerOK, Streams, NEW s \in Sockets, OnSocketDisconnected(s)
    PROVE  ServerOK' /\ NetStep(Plain) /\ WiresMove
  <1> DEFINE r == SessionOfPeer(s)
             h == HostSeatAfter(r, s)
             g == GuestSeatsAfter(r, s)
  <1>1. up' = Consume(s) /\ up[s] # <<>> /\ UNCHANGED wire
    BY DEF OnSocketDisconnected, HeadIs
  <1>2. r \in Codes \cup {NoCode}
    BY DEF ServerOK, ServerTypeOK, SessionOfPeer, PeerInfo
  <1>3. r # NoCode => h \in Sockets \cup {NoSocket} /\ g \in SUBSET Sockets
    BY <1>2 DEF ServerOK, ServerTypeOK, HostSeatAfter, GuestSeatsAfter
  <1>4. /\ UNCHANGED down \/ (r # NoCode /\ down' = PeerUpdateSent(h, g))
        /\ IF r = NoCode THEN UNCHANGED <<sessionOf, host, guests>>
           ELSE /\ host' = [host EXCEPT ![r] = h] /\ guests' = [guests EXCEPT ![r] = g]
                /\ \/ UNCHANGED sessionOf
                   \/ sessionOf' = [c \in Codes |-> IF sessionOf[c] = r THEN NoCode
                                                    ELSE sessionOf[c]]
        /\ peers' = [peers EXCEPT ![s] = Absent] /\ UNCHANGED running
    BY DEF OnSocketDisconnected
  <1> HIDE DEF r, h, g
  <1>5. ServerOK'
    <2>1. Absent \in PeerInfo
      BY DEF Absent, PeerInfo
    <2>2. QED
      BY <1>1, <1>2, <1>3, <1>4, <2>1 DEF ServerOK, ServerTypeOK
  <1>6. /\ down' \in [Sockets -> Seq(Frame)]
        /\ \A x \in Sockets : /\ Derived(down'[x], down[x], Plain)
                              /\ Closed \in Frames(down'[x]) => Closed \in Frames(down[x])
    <2>1. CASE UNCHANGED down
      BY <2>1, UnchangedDerived
    <2>2. CASE r # NoCode /\ down' = PeerUpdateSent(h, g)
      <3>1. \A x \in Sockets : /\ Derived(down'[x], down[x], Plain)
                               /\ Closed \in Frames(down'[x]) => Closed \in Frames(down[x])
        BY <1>3, <2>2, PeerUpdateSentDerived
      <3>2. down' = [x \in Sockets |-> down'[x]]
        BY <2>2 DEF PeerUpdateSent
      <3>3. QED
        BY <3>1, <3>2 DEF Derived
    <2>3. QED
      BY <1>4, <2>1, <2>2
  <1>7. NetStep(Plain) /\ WiresMove
    BY <1>1, <1>6, ConsumeDerived DEF NetStep, Streams, WiresMove
  <1>8. QED
    BY <1>5, <1>7

\* The join handler.
LEMMA JoinRuns ==
    ASSUME ServerOK, Streams, NEW s \in Sockets, OnJoin(s)
    PROVE  ServerOK' /\ NetStep(Plain) /\ WiresMove
  <1>1. PICK c \in Codes, role \in {"host", "guest"} :
           c = Head(up[s]).code /\ role = Head(up[s]).role
    <2>1. up[s] \in Seq(Frame) /\ up[s] # <<>> /\ Head(up[s]).type = "join"
      BY DEF OnJoin, HeadIs, Streams
    <2>2. Head(up[s]) \in Frame
      BY <2>1, TailDerived
    <2>3. QED
      BY <2>1, <2>2, FramesRead
  <1> DEFINE r    == IF sessionOf[c] = NoCode THEN c ELSE sessionOf[c]
             h    == IF role = "host" THEN s ELSE host[r]
             g    == IF role = "guest" THEN guests[r] \cup {s} ELSE guests[r]
             old  == IF role = "host" /\ host[r] # s THEN host[r] ELSE NoSocket
             ends == {old} \cap {x \in Sockets : Live(x)}
  <1>2. /\ up[s] # <<>>
        /\ sessionOf' = [sessionOf EXCEPT ![c] = r]
        /\ host' = [host EXCEPT ![r] = h] /\ guests' = [guests EXCEPT ![r] = g]
        /\ peers' = [peers EXCEPT ![s] = [code |-> c, role |-> role]]
        /\ wire' = [x \in Sockets |-> IF x \in ends THEN "down" ELSE wire[x]]
        /\ up'   = [x \in Sockets |-> IF x \in ends THEN Append(up[x], Closed)
                                      ELSE Consume(s)[x]]
        /\ down' = [x \in Sockets |-> IF x \in ends THEN Append(down[x], Closed)
                                      ELSE PeerUpdateSent(h, g)[x]]
        /\ UNCHANGED running
    BY <1>1 DEF OnJoin, HeadIs
  <1>3. r \in Codes /\ h \in Sockets \cup {NoSocket} /\ g \in SUBSET Sockets
    BY DEF ServerOK, ServerTypeOK
  <1>4. [code |-> c, role |-> role] \in PeerInfo
    BY DEF PeerInfo
  <1>5. \A x \in ends : x # s /\ wire[x] = "up"
    <2>1. old # s
      BY SocketsAssumption
    <2>2. QED
      BY <2>1 DEF Live
  <1> HIDE DEF r, h, g, ends
  <1>6. ServerOK'
    BY <1>2, <1>3, <1>4 DEF ServerOK, ServerTypeOK, WireStates
  <1>7. ASSUME NEW x \in Sockets
        PROVE  /\ Derived(up'[x], up[x], Plain) /\ Derived(down'[x], down[x], Plain)
               /\ x \notin ends /\ Closed \in Frames(down'[x]) => Closed \in Frames(down[x])
    <2>1. CASE x \in ends
      <3>1. up'[x] = Append(up[x], Closed) /\ down'[x] = Append(down[x], Closed)
        BY <1>2, <2>1
      <3>2. Closed \in Frame /\ {Closed} \subseteq Plain
        BY FramesBuilt DEF Plain
      <3>3. QED
        BY <2>1, <3>1, <3>2, OneMore, DerivedWeakens DEF Streams
    <2>2. CASE x \notin ends
      <3>1. up'[x] = Consume(s)[x] /\ down'[x] = PeerUpdateSent(h, g)[x]
        BY <1>2, <2>2
      <3>2. Consume(s)[x] = IF x = s THEN Tail(up[s]) ELSE up[x]
        BY DEF Consume, Streams
      <3>3. Derived(Tail(up[s]), up[s], Plain) /\ Derived(up[x], up[x], Plain)
        BY <1>2, TailDerived, DerivedWeakens, SameDerived DEF Streams
      <3>4. Derived(up'[x], up[x], Plain)
        BY <3>1, <3>2, <3>3
      <3>5. QED
        BY <1>3, <3>1, <3>4, PeerUpdateSentDerived
    <2>3. QED
      BY <2>1, <2>2
  <1>8. NetStep(Plain)
    BY <1>2, <1>7 DEF NetStep, Streams, Derived
  <1>9. WiresMove
    BY <1>2, <1>5, <1>7 DEF WiresMove
  <1>10. QED
    BY <1>6, <1>8, <1>9

\* What is forwarded goes from the head of one stream to the ends of others.
LEMMA RelayRuns ==
    ASSUME ServerOK, Streams, NEW s \in Sockets, OnRelay(s)
    PROVE  /\ ServerOK' /\ NetStep({Head(up[s])}) /\ WiresMove /\ UNCHANGED wire
           /\ up[s] # <<>> /\ up' = Consume(s)
           /\ \A x \in Sockets : \/ down'[x] = down[x]
                                 \/ Live(x) /\ down'[x] = Append(down[x], Head(up[s]))
  <1> DEFINE f == Head(up[s])
  <1>1. /\ up[s] # <<>> /\ f.type # "closed" /\ up' = Consume(s)
        /\ \E targets : down' = SentTo(targets, f)
        /\ UNCHANGED <<wire, server>>
    BY DEF OnRelay
  <1>2. f \in Frame
    BY <1>1, TailDerived DEF Streams
  <1> HIDE DEF f
  <1>3. \A x \in Sockets : \/ down'[x] = down[x]
                           \/ Live(x) /\ down'[x] = Append(down[x], f)
    BY <1>1 DEF SentTo
  <1>4. ASSUME NEW x \in Sockets
        PROVE  /\ Derived(down'[x], down[x], {f})
               /\ Closed \in Frames(down'[x]) => Closed \in Frames(down[x])
    <2>1. Derived(down[x], down[x], {}) /\ Derived(down[x], down[x], {f})
          /\ Derived(Append(down[x], f), down[x], {f}) /\ down[x] \in Seq(Frame)
      BY <1>2, SameDerived, OneMore DEF Streams
    <2>2. Frames(Append(down[x], f)) = Frames(down[x]) \cup {f}
      BY <1>2, <2>1, FramesAppended
    <2>3. f # Closed
      BY <1>1 DEF Closed
    <2>4. QED
      BY <1>3, <2>1, <2>2, <2>3
  <1>5. down' \in [Sockets -> Seq(Frame)]
    <2>1. down' = [x \in Sockets |-> down'[x]]
      BY <1>1 DEF SentTo
    <2>2. QED
      BY <1>4, <2>1 DEF Derived
  <1>6. NetStep({f}) /\ WiresMove
    BY <1>1, <1>4, <1>5, ConsumeDerived DEF NetStep, Streams, WiresMove
  <1>7. ServerOK'
    BY <1>1 DEF ServerOK, ServerTypeOK, server
  <1>8. QED
    BY <1>1, <1>3, <1>6, <1>7 DEF f

\* No client sends a ping here.
LEMMA NoPing ==
    ASSUME Streams, NEW s \in Sockets
    PROVE  ~OnPing(s)
  <1>1. up[s] # <<>> => Head(up[s]) \in Frame
    BY TailDerived DEF Streams
  <1>2. QED
    BY <1>1, FramesRead DEF OnPing, HeadIs

----------------------------------------------------------------------------
(* The two halves of the invariant.                                        *)

\* The rest of the types, by what a step may leave alone.
ClientTypes ==
    /\ socket \in [Peers -> Sockets] /\ joined \in [Peers -> BOOLEAN]
    /\ reconnectPending \in [Peers -> BOOLEAN] /\ sessionActive \in [Peers -> BOOLEAN]
SendTypes ==
    /\ shareSendActive \in [Peers -> BOOLEAN] /\ outgoingQueue \in [Peers -> Seq(Shares)]
    /\ outgoingShares \in [Shares -> [sent : Nat, chunkIndex : Nat] \cup {NoShare}]
    /\ \A id \in Shares : outgoingShares[id] \in OutgoingShare(id) \cup {NoShare}
    /\ length \in [Shares -> Nat]
Statuses == {"none", "sending", "sent", "receiving", "received", "failed"}
AnyIncoming == [finalPath : FinalPaths, received : Seq(UnitsOf), receivedChunks : Nat]
ReceiveTypes ==
    /\ incomingShares \in [Peers -> [Shares -> AnyIncoming \cup {NoShare}]]
    /\ downloads \in [Peers -> [Paths -> Seq(UnitsOf) \cup {NoFile}]]
    /\ savedAs \in [Peers -> [Shares -> FinalPaths \cup {NoFile}]]
    /\ cutShort \subseteq Peers \X Shares
ShownTypes == shown \in [Peers -> [Shares -> Statuses]]
Types == ServerOK /\ Streams /\ ClientTypes /\ SendTypes /\ ReceiveTypes /\ ShownTypes

\* Whatever the names are, and what rests on NamesApart.
Base  == Types /\ Connections /\ Queues /\ InOrder /\ AnnouncedOnce /\ Named
Sound == PartsApart /\ Exclusive /\ ReceivedIntact /\ PartFilesAreSound /\ Unfinished

\* The types split by what a step leaves alone are the type invariant.
LEMMA TypesImply == Types => TypeOK
  BY DEF Types, TypeOK, ServerOK, ClientTypes, SendTypes, ReceiveTypes, ShownTypes, Statuses,
         AnyIncoming, IncomingShare

\* A connection is one of a peer, and the peer's n-th.
LEMMA SocketsAre ==
    /\ \A s \in Sockets : s[1] \in Peers /\ s[2] \in Nat \ {0} /\ s = <<s[1], s[2]>>
    /\ \A p \in Peers : First(p) \in Sockets
  BY ConnectionsAssumption DEF First

----------------------------------------------------------------------------
(* What most steps do to the invariant.                                    *)

\* Connections end, and open, while every instance keeps its own.
LEMMA ConnectionsKept ==
    ASSUME Types, Connections, WiresMove, socket' = socket,
           \A p \in Peers : reconnectPending'[p] =>
              reconnectPending[p] \/ wire[socket[p]] = "down"
    PROVE  Connections'
  <1>1. \A p \in Peers : socket[p] \in Sockets /\ socket[p][2] \in Nat
    BY SocketsAre DEF Types, ClientTypes
  <1>2. ASSUME NEW s \in Sockets
        PROVE  /\ wire[s] = "down" => wire'[s] = "down"
               /\ wire'[s] \in {"up", "connecting"} => wire[s] \in {"up", "connecting"}
    BY DEF WiresMove
  <1>3. ASSUME NEW s \in Sockets, s[2] > socket[s[1]][2] PROVE wire'[s] = "idle"
    <2>1. wire[s] = "idle" /\ s # socket[s[1]]
      BY <1>1, <1>3, SocketsAre DEF Connections
    <2>2. QED
      BY <2>1 DEF WiresMove
  <1>4. ASSUME NEW s \in Sockets, Closed \in Frames(down'[s]) PROVE wire'[s] = "down"
    BY <1>2, <1>4 DEF WiresMove, Connections
  <1>5. ASSUME NEW p \in Peers, reconnectPending'[p] PROVE wire'[socket[p]] = "down"
    BY <1>1, <1>2, <1>5 DEF Connections
  <1>6. QED
    BY <1>2, <1>3, <1>4, <1>5 DEF Connections

\* What is not sent, and did not travel, does not travel.
LEMMA TravelsKept ==
    ASSUME NEW extra, NetStep(extra), NEW m \in Frame, m \in extra => Travels(m)
    PROVE  Travels(m)' => Travels(m)
  <1>1. \A s \in Sockets : /\ m \in Frames(up'[s]) => m \in Frames(up[s]) \/ m \in extra
                           /\ m \in Frames(down'[s]) => m \in Frames(down[s]) \/ m \in extra
    BY DEF NetStep, Derived
  <1>2. QED
    BY <1>1 DEF Travels

\* What is not sent anew is not announced anew.
LEMMA AnnouncedKept ==
    ASSUME NEW id \in Shares, Announced(id), NEW extra, NetStep(extra),
           ShareMeta(id) \notin extra,
           shown'[Owner[id]][id] = "none" =>
              /\ shown[Owner[id]][id] = "none"
              /\ outgoingShares'[id] = outgoingShares[id] \/ outgoingShares'[id] = NoShare,
           \A p \in Peers : savedAs'[p][id] = savedAs[p][id]
    PROVE  Announced(id)'
  <1>1. PICK m : m = ShareMeta(id)
    OBVIOUS
  <1>2. m \in Metas
    BY <1>1, MetasRead
  <1>3. \A s \in Sockets : /\ m \in Frames(up'[s]) => m \in Frames(up[s])
                           /\ m \in Frames(down'[s]) => m \in Frames(down[s])
                           /\ Once(up[s], m) => Once(up'[s], m)
                           /\ Once(down[s], m) => Once(down'[s], m)
    BY <1>1, <1>2 DEF NetStep, Derived
  <1>4. \A s \in Sockets : s[1] \in Peers
    BY SocketsAre
  <1>5. /\ shown[Owner[id]][id] = "none" =>
              /\ outgoingShares[id] = NoShare
              /\ \A s \in Sockets : m \notin Frames(up[s]) \cup Frames(down[s])
              /\ \A p \in Peers : savedAs[p][id] = NoFile
        /\ \A s \in Sockets : Once(up[s], m) /\ Once(down[s], m)
        /\ \A s, t \in Sockets : m \in Frames(up[s]) =>
              /\ m \in Frames(up[t]) => s = t
              /\ m \notin Frames(down[t])
              /\ savedAs[t[1]][id] = NoFile
        /\ \A s, t \in Sockets : m \in Frames(down[s]) =>
              /\ m \in Frames(down[t]) /\ s[1] = t[1] => s = t
              /\ savedAs[s[1]][id] = NoFile
    BY <1>1 DEF Announced
  <1>6. /\ shown'[Owner[id]][id] = "none" =>
              /\ outgoingShares'[id] = NoShare
              /\ \A s \in Sockets : m \notin Frames(up'[s]) \cup Frames(down'[s])
              /\ \A p \in Peers : savedAs'[p][id] = NoFile
        /\ \A s \in Sockets : Once(up'[s], m) /\ Once(down'[s], m)
        /\ \A s, t \in Sockets : m \in Frames(up'[s]) =>
              /\ m \in Frames(up'[t]) => s = t
              /\ m \notin Frames(down'[t])
              /\ savedAs'[t[1]][id] = NoFile
        /\ \A s, t \in Sockets : m \in Frames(down'[s]) =>
              /\ m \in Frames(down'[t]) /\ s[1] = t[1] => s = t
              /\ savedAs'[s[1]][id] = NoFile
    BY <1>3, <1>4, <1>5
  <1>7. QED
    BY <1>1, <1>6 DEF Announced, ShareMeta

\* What was said of the frames on their way stays true of those that were on
\* their way already.
LEMMA AgreesKept ==
    ASSUME NEW id \in Shares, NEW n \in Nat, NEW extra, NetStep(extra), Agrees(id, n),
           \A f \in extra : ChunkIs(f, id, n),
           SentSoFar(id, n)', \A p \in Peers : ReceivedSoFar(p, id, n)'
    PROVE  Agrees(id, n)'
  <1>1. \A s \in Sockets : \A f \in Frames(up'[s]) \cup Frames(down'[s]) : ChunkIs(f, id, n)
    BY DEF NetStep, Derived, Agrees
  <1>2. QED
    BY <1>1 DEF Agrees, ChunkIs

\* A frame that travels already, or says nothing of shares, changes nothing.
OldOrPlain(f) == f \in Plain \/ Travels(f)

\* A chunk that travels already agrees with the sender.
LEMMA OldChunks ==
    ASSUME NEW id \in Shares, NEW n \in Nat, Agrees(id, n), NEW f, OldOrPlain(f)
    PROVE  ChunkIs(f, id, n)
  BY DEF OldOrPlain, Travels, Agrees, ChunkIs, Plain

\* A step that leaves the transfers alone, and sends nothing of theirs anew.
LEMMA QuietKeeps ==
    ASSUME Base, NEW extra, NetStep(extra), \A f \in extra : OldOrPlain(f),
           UNCHANGED <<sessionActive, outgoingQueue, outgoingShares, receiving, shown>>
    PROVE  /\ Queues' /\ InOrder' /\ Named'
           /\ Sound => Sound'
  <1>1. Queues'
    BY DEF Base, Queues
  <1>2. \A p \in Peers : Incoming(p)' = Incoming(p)
    BY DEF Incoming, receiving
  <1>3. InOrder'
    <2> SUFFICES ASSUME NEW id \in Shares
                 PROVE  \E n \in 0 .. Size[id] : Agrees(id, n)'
      BY DEF InOrder
    <2>1. PICK n \in 0 .. Size[id] : Agrees(id, n)
      BY DEF Base, InOrder
    <2>2. n \in Nat
      BY SharesAssumption
    <2>3. SentSoFar(id, n)' /\ \A p \in Peers : ReceivedSoFar(p, id, n)'
      BY <2>1 DEF Agrees, SentSoFar, ReceivedSoFar, Incoming, receiving
    <2>4. Agrees(id, n)'
      BY <2>1, <2>2, <2>3, AgreesKept, OldChunks
    <2>5. QED
      BY <2>4
  <1>4. Named'
    BY <1>2 DEF Base, Named, receiving
  <1>5. ASSUME Sound PROVE Sound'
    <2>1. \A id \in Shares : InBusiness(id)' => InBusiness(id)
      <3> SUFFICES ASSUME NEW id \in Shares PROVE InBusiness(id)' => InBusiness(id)
        OBVIOUS
      <3>1. ShareMeta(id) \in Frame /\ ShareMeta(id) \notin Plain
        BY MetasRead
      <3>2. Travels(ShareMeta(id))' => Travels(ShareMeta(id))
        BY <3>1, TravelsKept DEF OldOrPlain
      <3>3. QED
        BY <1>2, <3>2 DEF InBusiness
    <2>2. Exclusive'
      BY <1>5, <2>1 DEF Sound, Exclusive
    <2>3. (ReceivedIntact /\ PartFilesAreSound /\ Unfinished)'
      BY <1>2, <1>5 DEF Sound, ReceivedIntact, PartFilesAreSound, PartFilesAreInUse,
                        PartIsBeginning, Unfinished, IsAnnounced, Temp, receiving
    <2>4. QED
      BY <1>5, <2>2, <2>3 DEF Sound
  <1>6. QED
    BY <1>1, <1>3, <1>4, <1>5

\* No announcement, and nothing about the transfers, in such a step.
LEMMA StillAnnounced ==
    ASSUME AnnouncedOnce, NEW extra, NetStep(extra), extra \cap Metas = {},
           UNCHANGED <<outgoingShares, savedAs, shown>>
    PROVE  AnnouncedOnce'
  <1> SUFFICES ASSUME NEW id \in Shares PROVE Announced(id)'
    BY DEF AnnouncedOnce
  <1>1. ShareMeta(id) \notin extra
    BY MetasRead
  <1>2. QED
    BY <1>1, AnnouncedKept DEF AnnouncedOnce

----------------------------------------------------------------------------
(* The server and the network.                                             *)

\* Nothing about the transfers but the frames that carry them.
Elsewhere == <<sessionActive, sending, receiving, length, shown>>

\* The types in a step of the network or the server.
LEMMA QuietTypes ==
    ASSUME Types, ServerOK', Streams', UNCHANGED <<socket, joined, reconnectPending, Elsewhere>>
    PROVE  Types'
  BY DEF Types, Elsewhere, ClientTypes, SendTypes, ReceiveTypes, ShownTypes, sending, receiving

\* The frames that say nothing of shares are no announcements.
LEMMA PlainIsOther == Plain \cap Metas = {} /\ \A f \in Plain : OldOrPlain(f)
  BY MetasRead DEF OldOrPlain

\* A step of the network or the server that takes no frame of a client along.
LEMMA PlainStepKeeps ==
    ASSUME Base, ServerOK', NetStep(Plain), WiresMove, UNCHANGED <<client, Elsewhere>>
    PROVE  Base' /\ (Sound => Sound')
  <1>1. Types'
    BY QuietTypes DEF Base, NetStep, client
  <1>2. Connections'
    BY ConnectionsKept DEF Base, client
  <1>3. Queues' /\ InOrder' /\ Named' /\ (Sound => Sound')
    BY QuietKeeps, PlainIsOther DEF Elsewhere, sending
  <1>4. AnnouncedOnce'
    BY StillAnnounced, PlainIsOther DEF Base, Elsewhere, sending, receiving
  <1>5. QED
    BY <1>1, <1>2, <1>3, <1>4 DEF Base

\* A forwarded announcement leaves the one stream it was on, and reaches the one
\* connection that each peer has.
LEMMA AnnouncementRelayed ==
    ASSUME Base, NEW s \in Sockets, up[s] # <<>>, up' = Consume(s), NEW id \in Shares,
           Head(up[s]) = ShareMeta(id),
           \A x \in Sockets : \/ down'[x] = down[x]
                              \/ Live(x) /\ down'[x] = Append(down[x], Head(up[s])),
           UNCHANGED <<outgoingShares, savedAs, shown>>
    PROVE  Announced(id)'
  <1>1. PICK m \in Metas : m = ShareMeta(id) /\ m = Head(up[s])
    BY MetasRead
  <1>2. m \in Frame /\ up[s] \in Seq(Frame) /\ \A x \in Sockets : down[x] \in Seq(Frame)
    BY <1>1, MetasRead DEF Base, Types, Streams
  <1>3. /\ shown[Owner[id]][id] = "none" =>
              /\ outgoingShares[id] = NoShare
              /\ \A x \in Sockets : m \notin Frames(up[x]) \cup Frames(down[x])
              /\ \A p \in Peers : savedAs[p][id] = NoFile
        /\ \A x \in Sockets : Once(up[x], m) /\ Once(down[x], m)
        /\ \A x, t \in Sockets : m \in Frames(up[x]) =>
              /\ m \in Frames(up[t]) => x = t
              /\ m \notin Frames(down[t])
              /\ savedAs[t[1]][id] = NoFile
    <2>1. Announced(id)
      BY DEF Base, AnnouncedOnce
    <2>2. QED
      BY <1>1, <2>1 DEF Announced
  <1>4. m \in Frames(up[s])
    BY <1>1, <1>2, TailDerived
  <1>5. \A x \in Sockets : m \notin Frames(up'[x])
    <2>1. m \notin Frames(Tail(up[s]))
      BY <1>1, <1>2, <1>3, TailDerived
    <2>2. \A x \in Sockets : up'[x] = IF x = s THEN Tail(up[s]) ELSE up[x]
      BY DEF Consume, Base, Types, Streams
    <2>3. QED
      BY <1>3, <1>4, <2>1, <2>2
  <1>6. ASSUME NEW x \in Sockets
        PROVE  Once(down'[x], m) /\ (m \in Frames(down'[x]) => Live(x))
    <2>1. m \notin Frames(down[x]) /\ Once(down[x], m)
      BY <1>3, <1>4
    <2>2. Derived(down[x], down[x], {})
      BY <1>2, SameDerived
    <2>3. Once(Append(down[x], m), m)
      BY <1>2, <2>1, <2>2, AppendDerived
    <2>4. QED
      BY <1>1, <2>1, <2>3
  <1>7. \A x, t \in Sockets : Live(x) /\ Live(t) /\ x[1] = t[1] => x = t
    BY DEF Base, Connections, Live
  <1>8. \A x \in Sockets : savedAs[x[1]][id] = NoFile
    BY <1>3, <1>4
  <1>9. /\ shown'[Owner[id]][id] # "none"
        /\ \A x \in Sockets : Once(up'[x], m) /\ Once(down'[x], m)
        /\ \A x, t \in Sockets : m \in Frames(down'[x]) =>
              /\ m \in Frames(down'[t]) /\ x[1] = t[1] => x = t
              /\ savedAs'[x[1]][id] = NoFile
    <2>1. \A x \in Sockets : Once(up'[x], m)
      BY <1>5 DEF Once, Frames
    <2>2. QED
      BY <1>3, <1>4, <1>6, <1>7, <1>8, <2>1
  <1>10. QED
    BY <1>1, <1>5, <1>9 DEF Announced, ShareMeta

\* A frame of the transfers is forwarded.
LEMMA RelayKeeps ==
    ASSUME Base, NEW s \in Sockets, OnRelay(s), UNCHANGED <<client, Elsewhere>>
    PROVE  Base' /\ (Sound => Sound')
  <1>1. /\ ServerOK' /\ NetStep({Head(up[s])}) /\ WiresMove
        /\ up[s] # <<>> /\ up' = Consume(s)
        /\ \A x \in Sockets : \/ down'[x] = down[x]
                              \/ Live(x) /\ down'[x] = Append(down[x], Head(up[s]))
    BY RelayRuns DEF Base, Types
  <1>2. PICK f \in Frame : f = Head(up[s]) /\ f \in Frames(up[s])
    BY <1>1, TailDerived DEF Base, Types, Streams
  <1>3. NetStep({f}) /\ OldOrPlain(f)
    BY <1>1, <1>2 DEF OldOrPlain, Travels
  <1>4. Types'
    BY <1>1, <1>3, QuietTypes DEF Base, NetStep, client
  <1>5. Connections'
    BY <1>1, ConnectionsKept DEF Base, client
  <1>6. Queues' /\ InOrder' /\ Named' /\ (Sound => Sound')
    BY <1>3, QuietKeeps DEF Elsewhere, sending
  <1>7. AnnouncedOnce'
    <2> SUFFICES ASSUME NEW id \in Shares PROVE Announced(id)'
      BY DEF AnnouncedOnce
    <2>1. UNCHANGED <<outgoingShares, savedAs, shown>>
      BY DEF Elsewhere, sending, receiving
    <2>2. CASE f = ShareMeta(id)
      BY <1>1, <1>2, <2>1, <2>2, AnnouncementRelayed
    <2>3. CASE f # ShareMeta(id)
      <3>1. ShareMeta(id) \notin {f} /\ Announced(id)
        BY <2>3 DEF Base, AnnouncedOnce
      <3>2. QED
        BY <1>3, <2>1, <3>1, AnnouncedKept
    <2>4. QED
      BY <2>2, <2>3
  <1>8. QED
    BY <1>4, <1>5, <1>6, <1>7 DEF Base

\* A task of the server.
LEMMA ServerKeeps ==
    ASSUME Base, NEW s \in Sockets, ServerStep(s)
    PROVE  Base' /\ (Sound => Sound')
  <1>1. ServerOK /\ Streams /\ UNCHANGED <<client, Elsewhere>>
    BY DEF Base, Types, ServerStep, Elsewhere
  <1>2. CASE OnClientConnected(s)
    BY <1>1, <1>2, ArrivalRuns, PlainStepKeeps
  <1>3. CASE OnSocketDisconnected(s)
    BY <1>1, <1>3, EndRuns, PlainStepKeeps
  <1>4. CASE OnJoin(s)
    BY <1>1, <1>4, JoinRuns, PlainStepKeeps
  <1>5. CASE OnRelay(s)
    BY <1>1, <1>5, RelayKeeps
  <1>6. QED
    BY <1>1, <1>2, <1>3, <1>4, <1>5, NoPing DEF ServerStep, ServerTask, OnTextMessage

\* A connection opens.
LEMMA OpenKeeps ==
    ASSUME Base, NEW s \in Sockets, Open(s)
    PROVE  Base' /\ (Sound => Sound')
  <1>1. /\ wire[s] = "connecting" /\ wire' = [wire EXCEPT ![s] = "up"]
        /\ up' = [up EXCEPT ![s] = <<Accepted>>] /\ down' = [down EXCEPT ![s] = <<Opened>>]
        /\ UNCHANGED <<server, client, Elsewhere>>
    BY DEF Open, WireOpen, Elsewhere
  <1>2. ServerOK'
    BY <1>1 DEF Base, Types, ServerOK, ServerTypeOK, WireStates, server
  <1>3. ASSUME NEW f \in Plain, NEW old PROVE Derived(<<f>>, old, Plain)
    <2>1. <<f>> \in Seq(Frame) /\ Frames(<<f>>) = {f} /\ \A m : Once(<<f>>, m)
      BY DEF Frames, Once, Plain
    <2>2. QED
      BY <2>1 DEF Derived
  <1>4. Accepted \in Plain /\ Opened \in Plain /\ Closed \notin Frames(<<Opened>>)
    BY FramesBuilt DEF Frames, Opened, Closed
  <1>5. NetStep(Plain)
    <2>1. Derived(up'[s], up[s], Plain) /\ Derived(down'[s], down[s], Plain)
      BY <1>1, <1>3, <1>4 DEF Base, Types, Streams
    <2>2. \A x \in Sockets \ {s} :
             Derived(up'[x], up[x], Plain) /\ Derived(down'[x], down[x], Plain)
      BY <1>1, SameDerived DEF Base, Types, Streams
    <2>3. Streams'
      BY <1>1, <2>1 DEF Base, Types, Streams, Derived
    <2>4. QED
      BY <2>1, <2>2, <2>3 DEF NetStep
  <1>6. WiresMove
    BY <1>1, <1>4 DEF WiresMove, Base, Types, Streams, ServerOK
  <1>7. QED
    BY <1>1, <1>2, <1>5, <1>6, PlainStepKeeps

\* A connection breaks.
LEMMA DropKeeps ==
    ASSUME Base, NEW s \in Sockets, Drop(s)
    PROVE  Base' /\ (Sound => Sound')
  <1>1. /\ wire[s] = "up" /\ wire' = [wire EXCEPT ![s] = "down"]
        /\ \E i \in 0 .. Len(up[s]) :
              up' = [up EXCEPT ![s] = Append(SubSeq(up[s], 1, i), Closed)]
        /\ \E j \in 0 .. Len(down[s]) :
              down' = [down EXCEPT ![s] = Append(SubSeq(down[s], 1, j), Closed)]
        /\ UNCHANGED <<server, client, Elsewhere>>
    BY DEF Drop, WireDrop, Live, Broken, Elsewhere
  <1>2. ServerOK'
    BY <1>1 DEF Base, Types, ServerOK, ServerTypeOK, WireStates, server
  <1>3. PICK i \in 0 .. Len(up[s]) :
           up' = [up EXCEPT ![s] = Append(SubSeq(up[s], 1, i), Closed)]
    BY <1>1
  <1>4. PICK j \in 0 .. Len(down[s]) :
           down' = [down EXCEPT ![s] = Append(SubSeq(down[s], 1, j), Closed)]
    BY <1>1
  <1>5. up[s] \in Seq(Frame) /\ down[s] \in Seq(Frame) /\ {Closed} \subseteq Plain
    BY FramesBuilt DEF Base, Types, Streams
  <1>6. /\ Derived(Append(SubSeq(up[s], 1, i), Closed), up[s], Plain)
        /\ Derived(Append(SubSeq(down[s], 1, j), Closed), down[s], Plain)
    BY <1>5, CutDerived, DerivedWeakens
  <1>7. NetStep(Plain)
    <2>1. Derived(up'[s], up[s], Plain) /\ Derived(down'[s], down[s], Plain)
      BY <1>3, <1>4, <1>6 DEF Base, Types, Streams
    <2>2. \A x \in Sockets \ {s} :
             Derived(up'[x], up[x], Plain) /\ Derived(down'[x], down[x], Plain)
      BY <1>3, <1>4, SameDerived DEF Base, Types, Streams
    <2>3. Streams'
      BY <1>3, <1>4, <2>1 DEF Base, Types, Streams, Derived
    <2>4. QED
      BY <2>1, <2>2, <2>3 DEF NetStep
  <1>8. WiresMove
    BY <1>1, <1>4 DEF WiresMove, Base, Types, Streams, ServerOK
  <1>9. QED
    BY <1>1, <1>2, <1>7, <1>8, PlainStepKeeps

\* Streams that stay as they are.
LEMMA NothingSent ==
    ASSUME Streams, UNCHANGED <<up, down>>, NEW extra
    PROVE  NetStep(extra)
  BY SameDerived DEF NetStep, Streams

\* Another program changes the file that is being sent.
LEMMA ChangeFileKeeps ==
    ASSUME Base, NEW id \in Shares, ChangeFile(id)
    PROVE  Base' /\ (Sound => Sound')
  <1>1. PICK n \in Nat : length' = [length EXCEPT ![id] = n]
    <2>1. Size[id] \in Nat
      BY SharesAssumption
    <2>2. PICK n \in 0 .. Size[id] + 1 : length' = [length EXCEPT ![id] = n]
      BY DEF ChangeFile
    <2>3. n \in Nat
      BY <2>1, <2>2
    <2>4. QED
      BY <2>2, <2>3
  <1>2. UNCHANGED <<net, server, client, sessionActive, sending, receiving, shown>>
    BY DEF ChangeFile
  <1>3. NetStep({})
    BY <1>2, NothingSent DEF Base, Types, net
  <1>4. Types'
    BY <1>1, <1>2 DEF Base, Types, ServerOK, ServerTypeOK, Streams, ClientTypes, SendTypes,
                      ReceiveTypes, ShownTypes, net, server, client, sending, receiving
  <1>5. Connections' /\ AnnouncedOnce'
    BY <1>2 DEF Base, Connections, AnnouncedOnce, Announced, net, client, sending, receiving
  <1>6. Queues' /\ InOrder' /\ Named' /\ (Sound => Sound')
    BY <1>2, <1>3, QuietKeeps DEF sending
  <1>7. QED
    BY <1>4, <1>5, <1>6 DEF Base

\* maintainReconnect
LEMMA ReconnectKeeps ==
    ASSUME Base, NEW p \in Peers, Reconnect(p)
    PROVE  Base' /\ (Sound => Sound')
  <1>1. PICK new \in Sockets : new = <<p, socket[p][2] + 1>>
    BY DEF Reconnect
  <1>2. /\ socket' = [socket EXCEPT ![p] = new]
        /\ wire' = [wire EXCEPT ![new] = "connecting"]
        /\ reconnectPending' = [reconnectPending EXCEPT ![p] = FALSE]
        /\ reconnectPending[p]
        /\ UNCHANGED <<up, down, server, joined, sessionActive, sending, receiving, length,
                       shown>>
    BY <1>1 DEF Reconnect
  <1>3. NetStep({})
    BY <1>2, NothingSent DEF Base, Types
  <1>4. Types'
    BY <1>2 DEF Base, Types, ServerOK, ServerTypeOK, Streams, ClientTypes, SendTypes,
                      ReceiveTypes, ShownTypes, server, sending, receiving, WireStates
  <1>5. Connections'
    <2>1. /\ \A s \in Sockets : s[1] \in Peers /\ s[2] \in Nat /\ s = <<s[1], s[2]>>
          /\ \A q \in Peers : socket[q] \in Sockets
          /\ new[1] = p /\ new[2] = socket[p][2] + 1
      BY <1>1, SocketsAre DEF Base, Types, ClientTypes
    <2>2. wire[new] = "idle" /\ wire[socket[p]] = "down" /\ new # socket[p]
      BY <1>2, <2>1 DEF Base, Connections
    <2>3. /\ socket'[p] = new /\ \A q \in Peers \ {p} : socket'[q] = socket[q]
          /\ wire'[new] = "connecting" /\ \A s \in Sockets \ {new} : wire'[s] = wire[s]
          /\ ~reconnectPending'[p]
          /\ \A q \in Peers \ {p} : reconnectPending'[q] = reconnectPending[q]
      BY <1>2 DEF Base, Types, ServerOK, ClientTypes
    <2>4. \A q \in Peers : socket'[q][1] = q
      BY <2>1, <2>3 DEF Base, Connections
    <2>5. ASSUME NEW s \in Sockets, wire'[s] \in {"up", "connecting"}
          PROVE  s = socket'[s[1]]
      BY <2>1, <2>2, <2>3, <2>5 DEF Base, Connections
    <2>6. ASSUME NEW s \in Sockets, s[2] > socket'[s[1]][2] PROVE wire'[s] = "idle"
      BY <2>1, <2>3, <2>6 DEF Base, Connections
    <2>7. ASSUME NEW s \in Sockets, Closed \in Frames(down'[s]) PROVE wire'[s] = "down"
      BY <1>2, <2>2, <2>3, <2>7 DEF Base, Connections
    <2>8. ASSUME NEW q \in Peers, reconnectPending'[q] PROVE wire'[socket'[q]] = "down"
      <3>1. q # p /\ wire[socket[q]] = "down" /\ socket[q][1] = q
        BY <2>3, <2>8 DEF Base, Connections
      <3>2. QED
        BY <2>1, <2>3, <3>1
    <2>9. QED
      BY <2>4, <2>5, <2>6, <2>7, <2>8 DEF Connections
  <1>6. AnnouncedOnce'
    BY <1>2 DEF Base, AnnouncedOnce, Announced, sending, receiving
  <1>7. Queues' /\ InOrder' /\ Named' /\ (Sound => Sound')
    BY <1>2, <1>3, QuietKeeps DEF sending
  <1>8. QED
    BY <1>4, <1>5, <1>6, <1>7 DEF Base

----------------------------------------------------------------------------
(* The sender.                                                             *)

\* Frames are sent on a stream, one after the other.
LEMMA ConcatDerived ==
    ASSUME NEW q \in Seq(Frame), NEW r \in Seq(Frame)
    PROVE  Derived(q \o r, q, Frames(r))
  <1> DEFINE w == q \o r
  <1>1. /\ w \in Seq(Frame) /\ Len(w) = Len(q) + Len(r)
        /\ \A i \in 1 .. Len(q) + Len(r) : w[i] = IF i <= Len(q) THEN q[i] ELSE r[i - Len(q)]
    BY ConcatProperties
  <1>2. /\ DOMAIN q = 1 .. Len(q) /\ DOMAIN r = 1 .. Len(r) /\ DOMAIN w = 1 .. Len(q) + Len(r)
        /\ Len(q) \in Nat /\ Len(r) \in Nat
    BY <1>1, LenProperties
  <1> HIDE DEF w
  <1>3. ASSUME NEW i \in DOMAIN w
        PROVE  \/ i \in DOMAIN q /\ w[i] = q[i]
               \/ w[i] \in Frames(r)
    <2>1. CASE i <= Len(q)
      BY <1>1, <1>2, <2>1
    <2>2. CASE ~(i <= Len(q))
      <3>1. i - Len(q) \in DOMAIN r /\ w[i] = r[i - Len(q)]
        BY <1>1, <1>2, <2>2
      <3>2. QED
        BY <3>1 DEF Frames
    <2>3. QED
      BY <2>1, <2>2
  <1>4. Frames(w) \subseteq Frames(q) \cup Frames(r)
    BY <1>3 DEF Frames
  <1>5. \A m : m \notin Frames(r) /\ Once(q, m) => Once(w, m)
    BY <1>3 DEF Once
  <1>6. QED
    BY <1>1, <1>4, <1>5 DEF Derived, w

\* An instance sends on its connection.
LEMMA FramesSent ==
    ASSUME Base, NEW p \in Peers, NEW frames \in Seq(Frame), SendFrames(p, frames),
           UNCHANGED down
    PROVE  NetStep(Frames(frames))
  <1>1. PICK s \in Sockets : s = socket[p]
    BY DEF Base, Types, ClientTypes
  <1>2. up' = [up EXCEPT ![s] = up[s] \o frames]
    BY <1>1 DEF SendFrames
  <1>3. Derived(up[s] \o frames, up[s], Frames(frames))
    BY ConcatDerived DEF Base, Types, Streams
  <1>4. \A x \in Sockets : Derived(up'[x], up[x], Frames(frames))
    BY <1>2, <1>3, SameDerived DEF Base, Types, Streams
  <1>5. up' \in [Sockets -> Seq(Frame)]
    BY <1>2, <1>3 DEF Base, Types, Streams, Derived
  <1>6. QED
    BY <1>4, <1>5, SameDerived DEF NetStep, Base, Types, Streams

\* Connections stay as they are.
LEMMA WiresStay ==
    ASSUME Base, UNCHANGED wire,
           \A s \in Sockets : Closed \in Frames(down'[s]) => Closed \in Frames(down[s])
    PROVE  WiresMove
  BY DEF WiresMove

\* What was on its way, or was received, agrees with as much of the file as a
\* later chunk makes it: all chunks but the last are full.
LEMMA MoreAgrees ==
    ASSUME Types, NEW id \in Shares, NEW c \in Nat, NEW k \in Nat, Start(c) <= k,
           Agrees(id, Start(c))
    PROVE  /\ \A s \in Sockets :
                 \A f \in Frames(up[s]) \cup Frames(down[s]) : ChunkIs(f, id, k)
           /\ \A p \in Peers : ReceivedSoFar(p, id, k)
  <1>1. PICK n \in Nat : n = Start(c) /\ n <= k
    BY Multiples
  <1>2. ChunkSize \in Nat
    BY SharesAssumption
  <1>3. ASSUME NEW i \in Nat, Start(i) < n
        PROVE  /\ Start(i) < k
               /\ Lesser(Start(i) + ChunkSize, n) = Lesser(Start(i) + ChunkSize, k)
               /\ Lesser(Start(i + 1), n) = Lesser(Start(i + 1), k)
    <2>1. Start(i) \in Nat /\ Start(i) + ChunkSize <= n /\ Start(i + 1) = Start(i) + ChunkSize
      BY <1>1, <1>3, Multiples
    <2>2. PICK a \in Nat, b \in Nat :
             a = Start(i) /\ b = Start(i) + ChunkSize /\ b = Start(i + 1) /\ a < n /\ b <= n
      BY <1>2, <1>3, <2>1
    <2>3. a < k /\ Lesser(b, n) = b /\ Lesser(b, k) = b
      BY <1>1, <2>2 DEF Lesser
    <2>4. QED
      BY <2>2, <2>3
  <1>4. ASSUME NEW f \in Frame, ChunkIs(f, id, n) PROVE ChunkIs(f, id, k)
    <2> SUFFICES ASSUME f.type = "share_chunk", f.id = id
                 PROVE  ChunkIs(f, id, k)
      BY DEF ChunkIs
    <2>1. f.index \in Nat /\ Start(f.index) < n
          /\ f.data = Units(id, Start(f.index), Lesser(Start(f.index) + ChunkSize, n))
      BY <1>4, FramesRead DEF ChunkIs
    <2>2. QED
      BY <1>3, <2>1 DEF ChunkIs
  <1>5. ASSUME NEW p \in Peers PROVE ReceivedSoFar(p, id, k)
    <2> SUFFICES ASSUME id \in Incoming(p) PROVE ReceivedSoFar(p, id, k)
      BY DEF ReceivedSoFar
    <2>1. PICK rc \in Nat : rc = incomingShares[p][id].receivedChunks
      BY DEF Types, ReceiveTypes, AnyIncoming, Incoming
    <2>2. /\ incomingShares[p][id].received = Content(id, Lesser(Start(rc), n))
          /\ rc # 0 => Start(rc - 1) < n
      BY <1>1, <2>1 DEF Agrees, ReceivedSoFar
    <2>3. CASE rc = 0
      <3>1. Lesser(Start(rc), n) = Lesser(Start(rc), k)
        BY <1>1, <2>3, Multiples DEF Lesser
      <3>2. QED
        BY <2>1, <2>2, <2>3, <3>1 DEF ReceivedSoFar
    <2>4. CASE rc # 0
      <3>1. PICK i \in Nat : i = rc - 1 /\ rc = i + 1
        BY <2>4
      <3>2. Lesser(Start(rc), n) = Lesser(Start(rc), k) /\ Start(rc - 1) < k
        BY <1>3, <2>2, <2>4, <3>1
      <3>3. QED
        BY <2>1, <2>2, <3>2 DEF ReceivedSoFar
    <2>5. QED
      BY <2>3, <2>4
  <1>6. \A s \in Sockets : \A f \in Frames(up[s]) \cup Frames(down[s]) :
           f \in Frame /\ ChunkIs(f, id, n)
    BY <1>1, SeqRead DEF Types, Streams, Agrees
  <1>7. QED
    BY <1>4, <1>5, <1>6

\* Names that are free are not in business; a name is taken by one share then.
LEMMA OnlyOneIsSent ==
    ASSUME NamesApart, Exclusive, NEW id \in Shares, Overlap \/ NameIsFree(id),
           \A x \in Shares \ {id} : InBusiness(x)' => InBusiness(x)
    PROVE  Exclusive'
  <1>1. CASE Overlap
    BY <1>1 DEF NamesApart, Exclusive
  <1>2. CASE NameIsFree(id)
    <2>1. ASSUME NEW x \in Shares \ {id}, Clash(x, id), InBusiness(x) PROVE FALSE
      <3>1. /\ outgoingShares[x] = NoShare /\ \A p \in Peers : x \notin Incoming(p)
            /\ \A s \in Sockets : \A f \in Frames(up[s]) \cup Frames(down[s]) :
                  f.type = "share_meta" => f.id # x
        BY <1>2, <2>1 DEF NameIsFree, Frames
      <3>2. ShareMeta(x).type = "share_meta" /\ ShareMeta(x).id = x
        BY DEF ShareMeta
      <3>3. ~Travels(ShareMeta(x))
        BY <3>1, <3>2 DEF Travels
      <3>4. QED
        BY <2>1, <3>1, <3>3 DEF InBusiness
    <2>2. \A x \in Shares : Clash(id, x) => Clash(x, id)
      BY DEF Clash
    <2>3. QED
      BY <2>1, <2>2 DEF Exclusive
  <1>3. QED
    BY <1>1, <1>2

\* sendSharedFile: it is here that files whose names clash would come together.
LEMMA SharedFileKeeps ==
    ASSUME Base, NEW id \in Shares, SendSharedFile(id)
    PROVE  Base' /\ (NamesApart /\ Sound => Sound')
  <1>1. PICK p \in Peers, s \in Sockets, m \in Metas :
           p = Owner[id] /\ s = socket[p] /\ m = ShareMeta(id)
    BY SharesAssumption, MetasRead DEF Base, Types, ClientTypes
  <1>2. PICK new : new = [sent |-> 0, chunkIndex |-> 0]
    OBVIOUS
  <1>3. /\ shown[p][id] = "none" /\ (Overlap \/ NameIsFree(id))
        /\ outgoingShares' = [outgoingShares EXCEPT ![id] = new]
        /\ outgoingQueue' = [outgoingQueue EXCEPT ![p] = Append(outgoingQueue[p], id)]
        /\ SendFrames(p, <<m>>)
        /\ shareSendActive' = [shareSendActive EXCEPT ![p] = TRUE]
        /\ shown' = [shown EXCEPT ![p][id] = "sending"]
        /\ UNCHANGED <<wire, down, server, client, sessionActive, receiving, length>>
    BY <1>1, <1>2 DEF SendSharedFile, Arm, Show
  <1>4. new \in OutgoingShare(id) /\ new \in [sent : Nat, chunkIndex : Nat] /\ new # NoShare
    BY <1>2, ChunksFit, SharesAssumption, MissingAssumption DEF OutgoingShare
  <1>5. \A x \in Shares : outgoingShares'[x] = IF x = id THEN new ELSE outgoingShares[x]
    BY <1>3 DEF Base, Types, SendTypes
  <1>6. \A q \in Peers : outgoingQueue'[q] = IF q = p THEN Append(outgoingQueue[p], id)
                                             ELSE outgoingQueue[q]
    BY <1>3 DEF Base, Types, SendTypes
  <1>7. \A q \in Peers, x \in Shares :
           shown'[q][x] = IF q = p /\ x = id THEN "sending" ELSE shown[q][x]
    BY <1>3 DEF Base, Types, ShownTypes
  <1>8. NetStep({m})
    <2>1. m \in Frame
      BY <1>1, MetasRead
    <2>2. <<m>> \in Seq(Frame) /\ Frames(<<m>>) = {m}
      BY <2>1 DEF Frames
    <2>3. QED
      BY <1>3, <2>2, FramesSent
  <1>9. /\ outgoingShares[id] = NoShare
        /\ \A x \in Sockets : m \notin Frames(up[x]) \cup Frames(down[x])
        /\ \A q \in Peers : savedAs[q][id] = NoFile
    <2>1. Announced(id)
      BY DEF Base, AnnouncedOnce
    <2>2. QED
      BY <1>1, <1>3, <2>1 DEF Announced
  <1>10. Append(outgoingQueue[p], id) \in Seq(Shares)
    BY DEF Base, Types, SendTypes
  <1>11. Types'
    <2>1. SendTypes'
      BY <1>3, <1>4, <1>5, <1>10 DEF Base, Types, SendTypes
    <2>2. ShownTypes'
      BY <1>3 DEF Base, Types, ShownTypes, Statuses
    <2>3. (ServerOK /\ ClientTypes /\ ReceiveTypes)'
      BY <1>3 DEF Base, Types, ServerOK, ServerTypeOK, ClientTypes, ReceiveTypes, server, client,
                  receiving
    <2>4. QED
      BY <1>8, <2>1, <2>2, <2>3 DEF Types, NetStep
  <1>12. Connections'
    BY <1>3, WiresStay, ConnectionsKept DEF Base, client
  <1>13. Queues'
    <2> SUFFICES ASSUME NEW q \in Peers, NEW x \in Frames(outgoingQueue'[q])
                 PROVE  /\ Owner[x] = q /\ outgoingShares'[x] # NoShare
                        /\ Once(outgoingQueue'[q], x)
      BY DEF Queues
    <2>1. outgoingQueue[q] \in Seq(Shares)
      BY DEF Base, Types, SendTypes
    <2>2. \A y \in Frames(outgoingQueue[q]) :
             Owner[y] = q /\ outgoingShares[y] # NoShare /\ Once(outgoingQueue[q], y)
      BY DEF Base, Queues
    <2>3. \A y \in Frames(outgoingQueue[q]) : y \in Shares /\ y # id
      BY <1>9, <2>1, <2>2, LenProperties DEF Frames
    <2>4. CASE q # p
      BY <1>5, <1>6, <2>2, <2>3, <2>4
    <2>5. CASE q = p
      <3>1. /\ Frames(outgoingQueue'[q]) = Frames(outgoingQueue[q]) \cup {id}
            /\ \A y : Once(outgoingQueue[q], y) /\ (y # id \/ y \notin Frames(outgoingQueue[q]))
                         => Once(outgoingQueue'[q], y)
        BY <1>6, <2>1, <2>5, AppendOf
      <3>2. Once(outgoingQueue[q], id)
        BY <2>3 DEF Once, Frames
      <3>3. QED
        BY <1>1, <1>4, <1>5, <2>2, <2>3, <2>5, <3>1, <3>2
    <2>6. QED
      BY <2>4, <2>5
  <1>14. InOrder'
    <2> SUFFICES ASSUME NEW x \in Shares
                 PROVE  \E n \in 0 .. Size[x] : Agrees(x, n)'
      BY DEF InOrder
    <2>1. PICK n \in 0 .. Size[x] : Agrees(x, n)
      BY DEF Base, InOrder
    <2>2. n \in Nat /\ Owner[x] \in Peers
      BY SharesAssumption
    <2>3. SentSoFar(x, n)'
      <3>1. CASE x = id
        <4>1. n = 0
          BY <1>1, <1>3, <2>1, <3>1 DEF Agrees, SentSoFar
        <4>2. QED
          BY <1>1, <1>2, <1>5, <1>7, <3>1, <4>1, Multiples DEF SentSoFar
      <3>2. CASE x # id
        BY <1>5, <1>7, <2>1, <2>2, <3>2 DEF Agrees, SentSoFar
      <3>3. QED
        BY <3>1, <3>2
    <2>4. \A q \in Peers : ReceivedSoFar(q, x, n)'
      BY <1>3, <2>1 DEF Agrees, ReceivedSoFar, Incoming, receiving
    <2>5. ChunkIs(m, x, n)
      BY <1>1 DEF ChunkIs, ShareMeta
    <2>6. QED
      BY <1>8, <2>1, <2>2, <2>3, <2>4, <2>5, AgreesKept
  <1>15. AnnouncedOnce'
    <2> SUFFICES ASSUME NEW x \in Shares PROVE Announced(x)'
      BY DEF AnnouncedOnce
    <2>1. CASE x # id
      <3>1. ShareMeta(x) \notin {m} /\ Announced(x) /\ Owner[x] \in Peers
        BY <1>1, <2>1, MetasRead, SharesAssumption DEF Base, AnnouncedOnce
      <3>2. shown'[Owner[x]][x] = "none" =>
               shown[Owner[x]][x] = "none" /\ outgoingShares'[x] = outgoingShares[x]
        BY <1>5, <1>7, <2>1, <3>1
      <3>3. \A q \in Peers : savedAs'[q][x] = savedAs[q][x]
        BY <1>3 DEF receiving
      <3>4. QED
        BY <1>8, <3>1, <3>2, <3>3, AnnouncedKept
    <2>2. CASE x = id
      <3>1. Once(up[s], m) /\ up[s] \in Seq(Frame) /\ m \in Frame
        BY <1>1, <1>9, MetasRead DEF Once, Frames, Base, Types, Streams
      <3>2. up' = [up EXCEPT ![s] = up[s] \o <<m>>]
        BY <1>1, <1>3 DEF SendFrames
      <3>3. up[s] \o <<m>> = Append(up[s], m)
        BY <3>1, AppendIsConcat
      <3>4. Once(up'[s], m)
        <4>1. up'[s] = Append(up[s], m)
          BY <3>2, <3>3 DEF Base, Types, Streams
        <4>2. m \notin Frames(up[s])
          BY <1>9
        <4>3. Once(Append(up[s], m), m)
          BY <3>1, <4>2, AppendOf
        <4>4. QED
          BY <4>1, <4>3
      <3>5. \A t \in Sockets : t # s => up'[t] = up[t]
        BY <3>2 DEF Base, Types, Streams
      <3>6. /\ \A t \in Sockets : Once(up'[t], m) /\ Once(down'[t], m)
            /\ \A t \in Sockets : m \in Frames(up'[t]) => t = s
            /\ \A t \in Sockets : m \notin Frames(down'[t])
            /\ \A q \in Peers : savedAs'[q][id] = NoFile
        BY <1>3, <1>9, <3>4, <3>5 DEF Once, Frames, receiving
      <3>7. shown'[Owner[id]][id] # "none"
        BY <1>1, <1>7
      <3>8. \A t \in Sockets : t[1] \in Peers
        BY SocketsAre
      <3>9. QED
        BY <1>1, <2>2, <3>6, <3>7, <3>8 DEF Announced, ShareMeta
    <2>3. QED
      BY <2>1, <2>2
  <1>16. \A q \in Peers, x \in Shares : shown'[q][x] = "received" => shown[q][x] = "received"
    BY <1>7
  <1>17. Named'
    BY <1>3, <1>16 DEF Base, Named, Incoming, receiving
  <1>18. ASSUME NamesApart, Sound PROVE Sound'
    <2>1. \A x \in Shares \ {id} : InBusiness(x)' => InBusiness(x)
      <3> SUFFICES ASSUME NEW x \in Shares \ {id} PROVE InBusiness(x)' => InBusiness(x)
        OBVIOUS
      <3>1. ShareMeta(x) # m /\ ShareMeta(x) \in Frame
        BY <1>1, MetasRead
      <3>2. Travels(ShareMeta(x))' => Travels(ShareMeta(x))
        BY <1>8, <3>1, TravelsKept
      <3>3. QED
        BY <1>3, <1>5, <3>2 DEF InBusiness, Incoming, receiving
    <2>2. Exclusive'
      BY <1>3, <1>18, <2>1, OnlyOneIsSent DEF Sound
    <2>3. (ReceivedIntact /\ PartFilesAreSound /\ Unfinished)'
      BY <1>3, <1>16, <1>18 DEF Sound, ReceivedIntact, PartFilesAreSound, PartFilesAreInUse,
                                PartIsBeginning, Unfinished, IsAnnounced, Temp, Incoming,
                                receiving
    <2>4. QED
      BY <1>18, <2>2, <2>3 DEF Sound
  <1>19. QED
    BY <1>11, <1>12, <1>13, <1>14, <1>15, <1>17, <1>18 DEF Base

\* What the outcomes of a send tick have in common: it sends some frames of the
\* share id, none an announcement, after which k units of it have been sent.
LEMMA SendingKeeps ==
    ASSUME Base, NEW p \in Peers, NEW id \in Shares, Owner[id] = p,
           outgoingShares[id] # NoShare,
           NEW frames \in Seq(Frame), SendFrames(p, frames),
           Frames(frames) \cap Metas = {},
           NEW k \in 0 .. Size[id], outgoingShares[id].sent <= k,
           \A f \in Frames(frames) : f.type = "share_chunk" => f.id = id /\ ChunkIs(f, id, k),
           NEW new, outgoingShares' = [outgoingShares EXCEPT ![id] = new],
           \/ new = NoShare
           \/ new \in OutgoingShare(id) /\ new.sent = k /\ k = Start(new.chunkIndex),
           UNCHANGED shown
              \/ \E status \in {"sent", "failed"} : shown' = [shown EXCEPT ![p][id] = status],
           outgoingQueue' \in [Peers -> Seq(Shares)], Queues',
           UNCHANGED <<wire, down, server, client, sessionActive, receiving, length,
                       shareSendActive>>
    PROVE  Base' /\ (Sound => Sound')
  <1>1. NetStep(Frames(frames))
    BY FramesSent
  <1>2. \A x \in Shares : outgoingShares'[x] = IF x = id THEN new ELSE outgoingShares[x]
    BY DEF Base, Types, SendTypes
  <1>3. \A q \in Peers, x \in Shares :
           \/ shown'[q][x] = shown[q][x]
           \/ q = p /\ x = id /\ shown'[q][x] \in {"sent", "failed"}
    BY DEF Base, Types, ShownTypes
  <1>4. shown[p][id] # "none" /\ shown'[p][id] # "none"
    <2>1. Announced(id)
      BY DEF Base, AnnouncedOnce
    <2>2. shown[p][id] # "none"
      BY <2>1 DEF Announced
    <2>3. QED
      BY <1>3, <2>2
  <1>5. Types'
    <2>1. new \in OutgoingShare(id) \cup {NoShare}
          /\ new \in [sent : Nat, chunkIndex : Nat] \cup {NoShare}
      <3>1. Size[id] \in Nat /\ TotalChunks(id) \in Nat
        BY SharesAssumption, ChunksFit
      <3>2. QED
        BY <3>1 DEF OutgoingShare
    <2>2. SendTypes'
      BY <1>2, <2>1 DEF Base, Types, SendTypes
    <2>3. ShownTypes'
      <3>1. CASE UNCHANGED shown
        BY <3>1 DEF Base, Types, ShownTypes
      <3>2. CASE ~(UNCHANGED shown)
        <4>1. PICK status \in {"sent", "failed"} : shown' = [shown EXCEPT ![p][id] = status]
          BY <3>2
        <4>2. QED
          BY <4>1 DEF Base, Types, ShownTypes, Statuses
      <3>3. QED
        BY <3>1, <3>2
    <2>4. (ServerOK /\ ClientTypes /\ ReceiveTypes)'
      BY DEF Base, Types, ServerOK, ServerTypeOK, ClientTypes, ReceiveTypes, server, client,
             receiving
    <2>5. QED
      BY <1>1, <2>2, <2>3, <2>4 DEF Types, NetStep
  <1>6. Connections'
    BY WiresStay, ConnectionsKept DEF Base, client
  <1>7. InOrder'
    <2> SUFFICES ASSUME NEW x \in Shares
                 PROVE  \E n \in 0 .. Size[x] : Agrees(x, n)'
      BY DEF InOrder
    <2>1. PICK n \in 0 .. Size[x] : Agrees(x, n)
      BY DEF Base, InOrder
    <2>2. n \in Nat /\ k \in Nat /\ Owner[x] \in Peers
      BY SharesAssumption
    <2>3. CASE x = id
      <3>1. PICK c \in Nat : c = outgoingShares[id].chunkIndex /\ n = Start(c) /\ n <= k
        BY <2>1, <2>3 DEF Agrees, SentSoFar, Base, Types, SendTypes
      <3>2. /\ \A s \in Sockets :
                  \A f \in Frames(up[s]) \cup Frames(down[s]) : ChunkIs(f, id, k)
            /\ \A q \in Peers : ReceivedSoFar(q, id, k)
        BY <2>1, <2>2, <2>3, <3>1, MoreAgrees DEF Base
      <3>3. \A s \in Sockets :
               \A f \in Frames(up'[s]) \cup Frames(down'[s]) : ChunkIs(f, id, k)
        <4>1. \A f \in Frames(frames) : ChunkIs(f, id, k)
          BY DEF ChunkIs
        <4>2. QED
          BY <1>1, <3>2, <4>1 DEF NetStep, Derived
      <3>4. SentSoFar(id, k)'
        BY <1>2, <1>4 DEF SentSoFar
      <3>5. \A q \in Peers : ReceivedSoFar(q, id, k)'
        BY <3>2 DEF ReceivedSoFar, Incoming, receiving
      <3>6. Agrees(id, k)'
        BY <3>3, <3>4, <3>5 DEF Agrees, ChunkIs
      <3>7. QED
        BY <2>3, <3>6
    <2>4. CASE x # id
      <3>1. SentSoFar(x, n)'
        BY <1>2, <1>3, <2>1, <2>2, <2>4 DEF Agrees, SentSoFar
      <3>2. \A q \in Peers : ReceivedSoFar(q, x, n)'
        BY <2>1 DEF Agrees, ReceivedSoFar, Incoming, receiving
      <3>3. \A f \in Frames(frames) : ChunkIs(f, x, n)
        BY <2>4 DEF ChunkIs
      <3>4. Agrees(x, n)'
        BY <1>1, <2>1, <2>2, <3>1, <3>2, <3>3, AgreesKept
      <3>5. QED
        BY <3>4
    <2>5. QED
      BY <2>3, <2>4
  <1>8. AnnouncedOnce'
    <2> SUFFICES ASSUME NEW x \in Shares PROVE Announced(x)'
      BY DEF AnnouncedOnce
    <2>1. ShareMeta(x) \notin Frames(frames) /\ Announced(x) /\ Owner[x] \in Peers
      BY MetasRead, SharesAssumption DEF Base, AnnouncedOnce
    <2>2. shown'[Owner[x]][x] = "none" =>
             shown[Owner[x]][x] = "none" /\ outgoingShares'[x] = outgoingShares[x]
      BY <1>2, <1>3, <1>4, <2>1
    <2>3. \A q \in Peers : savedAs'[q][x] = savedAs[q][x]
      BY DEF receiving
    <2>4. QED
      BY <1>1, <2>1, <2>2, <2>3, AnnouncedKept
  <1>9. \A q \in Peers, x \in Shares : shown'[q][x] = "received" => shown[q][x] = "received"
    BY <1>3
  <1>10. Named'
    BY <1>9 DEF Base, Named, Incoming, receiving
  <1>11. ASSUME Sound PROVE Sound'
    <2>1. \A x \in Shares : InBusiness(x)' => InBusiness(x)
      <3> SUFFICES ASSUME NEW x \in Shares PROVE InBusiness(x)' => InBusiness(x)
        OBVIOUS
      <3>1. ShareMeta(x) \notin Frames(frames) /\ ShareMeta(x) \in Frame
        BY MetasRead
      <3>2. Travels(ShareMeta(x))' => Travels(ShareMeta(x))
        BY <1>1, <3>1, TravelsKept
      <3>3. outgoingShares'[x] # NoShare => outgoingShares[x] # NoShare
        BY <1>2
      <3>4. QED
        BY <3>2, <3>3 DEF InBusiness, Incoming, receiving
    <2>2. Exclusive'
      BY <1>11, <2>1 DEF Sound, Exclusive
    <2>3. (ReceivedIntact /\ PartFilesAreSound /\ Unfinished)'
      BY <1>9, <1>11 DEF Sound, ReceivedIntact, PartFilesAreSound, PartFilesAreInUse,
                         PartIsBeginning, Unfinished, IsAnnounced, Temp, Incoming,
                         receiving
    <2>4. QED
      BY <1>11, <2>2, <2>3 DEF Sound
  <1>12. QED
    BY <1>5, <1>6, <1>7, <1>8, <1>10, <1>11 DEF Base

\* The queue of a sender that takes a share off its head, or moves it to the end.
LEMMA QueueAdvances ==
    ASSUME Base, NEW p \in Peers, outgoingQueue[p] # <<>>, NEW id, id = Head(outgoingQueue[p]),
           NEW new, outgoingShares' = [outgoingShares EXCEPT ![id] = new], NEW q,
           outgoingQueue' = [outgoingQueue EXCEPT ![p] = q],
           \/ q = Tail(outgoingQueue[p])
           \/ q = Append(Tail(outgoingQueue[p]), id) /\ new # NoShare
    PROVE  /\ id \in Shares /\ Owner[id] = p /\ outgoingShares[id] # NoShare
           /\ outgoingQueue' \in [Peers -> Seq(Shares)] /\ Queues'
  <1>1. PICK old \in Seq(Shares) : old = outgoingQueue[p] /\ old # <<>>
    BY DEF Base, Types, SendTypes
  <1>2. /\ Tail(old) \in Seq(Shares) /\ id \in Shares /\ id \in Frames(old)
        /\ Frames(Tail(old)) \subseteq Frames(old)
        /\ \A x : Once(old, x) => Once(Tail(old), x)
        /\ Once(old, id) => id \notin Frames(Tail(old))
    BY <1>1, TailOf
  <1>3. \A r \in Peers : \A x \in Frames(outgoingQueue[r]) :
           Owner[x] = r /\ outgoingShares[x] # NoShare /\ Once(outgoingQueue[r], x)
    BY DEF Base, Queues
  <1>4. Owner[id] = p /\ outgoingShares[id] # NoShare /\ Once(old, id)
    BY <1>1, <1>2, <1>3
  <1>5. \A x \in Shares : outgoingShares'[x] = IF x = id THEN new ELSE outgoingShares[x]
    BY DEF Base, Types, SendTypes
  <1>6. \A r \in Peers : outgoingQueue'[r] = IF r = p THEN q ELSE outgoingQueue[r]
    BY DEF Base, Types, SendTypes
  <1>7. /\ q \in Seq(Shares)
        /\ \A x \in Frames(q) : Owner[x] = p /\ outgoingShares'[x] # NoShare /\ Once(q, x)
    <2>1. \A x \in Frames(Tail(old)) :
             /\ x \in Shares /\ x # id /\ Owner[x] = p /\ outgoingShares[x] # NoShare
             /\ Once(Tail(old), x)
      <3>1. \A x \in Frames(Tail(old)) : x \in Shares
        BY <1>2, LenProperties DEF Frames
      <3>2. QED
        BY <1>1, <1>2, <1>3, <1>4, <3>1
    <2>2. CASE q = Tail(old)
      BY <1>2, <1>5, <2>1, <2>2
    <2>3. CASE q = Append(Tail(old), id) /\ new # NoShare
      <3>1. PICK rest \in Seq(Shares), last \in Shares : rest = Tail(old) /\ last = id
        BY <1>2
      <3>2. /\ Append(rest, last) \in Seq(Shares)
            /\ Frames(Append(rest, last)) = Frames(rest) \cup {last}
            /\ \A x : Once(rest, x) /\ (x # last \/ x \notin Frames(rest))
                         => Once(Append(rest, last), x)
        BY AppendOf
      <3>3. Once(rest, id) /\ id \notin Frames(rest)
        BY <1>2, <1>4, <3>1
      <3>4. q = Append(rest, id) /\ q \in Seq(Shares) /\ Frames(q) = Frames(rest) \cup {id}
            /\ \A x : Once(rest, x) /\ (x # id \/ x \notin Frames(rest)) => Once(q, x)
        BY <2>3, <3>1, <3>2
      <3>5. ASSUME NEW x \in Frames(rest)
            PROVE  Owner[x] = p /\ outgoingShares'[x] # NoShare /\ Once(q, x)
        <4>1. /\ x \in Shares /\ x # id /\ Owner[x] = p /\ outgoingShares[x] # NoShare
              /\ Once(rest, x)
          BY <2>1, <3>1
        <4>2. Once(q, x)
          BY <3>4, <4>1
        <4>3. QED
          BY <1>5, <4>1, <4>2
      <3>6. Owner[id] = p /\ outgoingShares'[id] # NoShare /\ Once(q, id)
        BY <1>2, <1>4, <1>5, <2>3, <3>3, <3>4
      <3>7. QED
        BY <3>4, <3>5, <3>6
    <2>4. QED
      BY <1>1, <2>2, <2>3
  <1>8. outgoingQueue' \in [Peers -> Seq(Shares)]
    BY <1>7 DEF Base, Types, SendTypes
  <1>9. Queues'
    <2> SUFFICES ASSUME NEW r \in Peers, NEW x \in Frames(outgoingQueue'[r])
                 PROVE  /\ Owner[x] = r /\ outgoingShares'[x] # NoShare
                        /\ Once(outgoingQueue'[r], x)
      BY DEF Queues
    <2>1. CASE r = p
      BY <1>6, <1>7, <2>1
    <2>2. CASE r # p
      <3>1. x \in Frames(outgoingQueue[r]) /\ outgoingQueue'[r] = outgoingQueue[r]
        BY <1>6, <2>2
      <3>2. x \in Shares
        BY <3>1, LenProperties DEF Frames, Base, Types, SendTypes
      <3>3. QED
        BY <1>3, <1>4, <1>5, <2>2, <3>1, <3>2
    <2>3. QED
      BY <2>1, <2>2
  <1>10. QED
    BY <1>2, <1>4, <1>8, <1>9

\* onShareSendTick with a share to send.
LEMMA SendNextKeeps ==
    ASSUME Base, NEW p \in Peers, SendNext(p),
           UNCHANGED <<wire, down, server, client, sessionActive, receiving, length>>
    PROVE  Base' /\ (Sound => Sound')
  <1>1. PICK id \in Shares, c \in Nat, n \in Nat, k \in Nat :
           /\ id = Head(outgoingQueue[p]) /\ outgoingQueue[p] # <<>>
           /\ Owner[id] = p /\ outgoingShares[id] # NoShare
           /\ c = outgoingShares[id].chunkIndex /\ n = outgoingShares[id].sent
           /\ n \in 0 .. Size[id] /\ n = Start(c)
           /\ k = IF length[id] < n + ChunkSize THEN length[id] ELSE n + ChunkSize
    <2>1. PICK id \in Shares : id = Head(outgoingQueue[p]) /\ id \in Frames(outgoingQueue[p])
      BY TailOf DEF SendNext, Base, Types, SendTypes
    <2>2. Owner[id] = p /\ outgoingShares[id] # NoShare
      BY <2>1 DEF Base, Queues
    <2>3. PICK m \in 0 .. Size[id] : Agrees(id, m)
      BY DEF Base, InOrder
    <2>4. PICK c \in Nat, n \in Nat :
             /\ c = outgoingShares[id].chunkIndex /\ n = outgoingShares[id].sent
             /\ n = m /\ n = Start(c)
      BY <2>2, <2>3 DEF Agrees, SentSoFar, Base, Types, SendTypes
    <2>5. PICK k \in Nat : k = IF length[id] < n + ChunkSize THEN length[id] ELSE n + ChunkSize
      BY SharesAssumption DEF Base, Types, SendTypes
    <2>6. QED
      BY <2>1, <2>2, <2>3, <2>4, <2>5 DEF SendNext
  <1>2. PICK cs \in Nat, z \in Nat : cs = ChunkSize /\ z = Size[id] /\ n <= z /\ k <= n + cs
    <2>1. PICK cs \in Nat, z \in Nat : cs = ChunkSize /\ z = Size[id]
      BY SharesAssumption
    <2>2. PICK l \in Nat : l = length[id]
      BY DEF Base, Types, SendTypes
    <2>3. k = IF l < n + cs THEN l ELSE n + cs
      BY <1>1, <2>1, <2>2
    <2>4. k <= n + cs
      BY <2>3
    <2>5. n <= z
      BY <1>1, <2>1
    <2>6. QED
      BY <2>1, <2>4, <2>5
  <1>3. PICK chunk : chunk = ShareChunk(id, c, Units(id, n, k))
    OBVIOUS
  <1>4. PICK last \in Plain, whole \in Plain :
           last = ShareDone(id, Content(id, n)) /\ whole = ShareDone(id, Content(id, k))
    BY ContentTyped, FramesBuilt
  <1>5. UNCHANGED shareSendActive
    BY DEF SendNext
  <1>6. \/ Finish(p, <<last>>, "sent")
        \/ Finish(p, <<>>, "failed")
        \/ n < k /\ k <= z /\ Finish(p, <<chunk, whole>>, "sent")
        \/ /\ n < k /\ k <= z /\ k = n + cs
           /\ outgoingShares' = [outgoingShares EXCEPT
                 ![id] = [sent |-> k, chunkIndex |-> c + 1]]
           /\ outgoingQueue' = [outgoingQueue EXCEPT
                 ![p] = Append(Tail(outgoingQueue[p]), id)]
           /\ SendFrames(p, <<chunk>>)
           /\ UNCHANGED shown
    <2>1. \/ Finish(p, <<ShareDone(id, Content(id, n))>>, "sent")
          \/ Finish(p, <<>>, "failed")
          \/ /\ k > n /\ ~(k > z)
             /\ Finish(p, <<ShareChunk(id, c, Units(id, n, k)),
                             ShareDone(id, Content(id, k))>>, "sent")
          \/ /\ k > n /\ ~(k > z) /\ ~(k < n + cs)
             /\ outgoingShares' = [outgoingShares EXCEPT
                   ![id] = [sent |-> k, chunkIndex |-> c + 1]]
             /\ outgoingQueue' = [outgoingQueue EXCEPT
                   ![p] = Append(Tail(outgoingQueue[p]), id)]
             /\ SendFrames(p, <<ShareChunk(id, c, Units(id, n, k))>>)
             /\ UNCHANGED shown
      BY <1>1, <1>2 DEF SendNext, Grown, QueueAfterChunk
    <2>2. /\ k > n => n < k
          /\ ~(k > z) => k <= z
          /\ ~(k < n + cs) => k = n + cs
      BY <1>2
    <2>3. QED
      BY <1>3, <1>4, <2>1, <2>2
  <1>7. ASSUME n < k
        PROVE  /\ chunk \in Frame /\ chunk \notin Metas
               /\ chunk.id = id /\ ChunkIs(chunk, id, k)
    <2>1. Units(id, n, k) \in Seq(UnitsOf)
      <3>1. n <= k
        BY <1>7
      <3>2. QED
        BY <3>1, UnitsTyped
    <2>2. /\ chunk.type = "share_chunk" /\ chunk.id = id /\ chunk.index = c
          /\ chunk.data = Units(id, n, k)
      BY <1>3 DEF ShareChunk
    <2>3. Lesser(Start(c) + ChunkSize, k) = k
      <3>1. Lesser(n + cs, k) = k
        BY <1>2 DEF Lesser
      <3>2. QED
        BY <1>1, <1>2, <3>1
    <2>4. ChunkIs(chunk, id, k)
      BY <1>1, <1>7, <2>2, <2>3 DEF ChunkIs
    <2>5. QED
      BY <1>1, <1>3, <2>1, <2>2, <2>4, FramesBuilt, MetasRead
  <1>8. ASSUME NEW frames \in Seq(Frame), NEW status \in {"sent", "failed"},
               Finish(p, frames, status), NEW m \in n .. z, Frames(frames) \cap Metas = {},
               \A f \in Frames(frames) :
                  f.type = "share_chunk" => f.id = id /\ ChunkIs(f, id, m)
        PROVE  Base' /\ (Sound => Sound')
    <2>1. /\ outgoingQueue' = [outgoingQueue EXCEPT ![p] = Tail(outgoingQueue[p])]
          /\ outgoingShares' = [outgoingShares EXCEPT ![id] = NoShare]
          /\ SendFrames(p, frames)
          /\ shown' = [shown EXCEPT ![p][id] = status]
      BY <1>1, <1>8 DEF Finish, Show
    <2>2. outgoingQueue' \in [Peers -> Seq(Shares)] /\ Queues'
      BY <1>1, <2>1, QueueAdvances
    <2>3. m \in 0 .. Size[id] /\ outgoingShares[id].sent <= m
      <3>1. m \in 0 .. z /\ n <= m
        BY <1>2
      <3>2. QED
        BY <1>1, <1>2, <3>1
    <2>4. QED
      BY <1>1, <1>5, <1>8, <2>1, <2>2, <2>3, SendingKeeps
  <1>9. CASE Finish(p, <<last>>, "sent")
    <2>1. <<last>> \in Seq(Frame) /\ Frames(<<last>>) = {last} /\ last.type # "share_chunk"
      BY DEF Frames, Plain
    <2>2. Frames(<<last>>) \cap Metas = {}
      BY <2>1, PlainIsOther
    <2>3. n \in n .. z
      BY <1>2
    <2>4. QED
      BY <1>8, <1>9, <2>1, <2>2, <2>3
  <1>10. CASE Finish(p, <<>>, "failed")
    <2>1. <<>> \in Seq(Frame) /\ Frames(<<>>) = {}
      BY DEF Frames
    <2>2. n \in n .. z
      BY <1>2
    <2>3. QED
      BY <1>8, <1>10, <2>1, <2>2
  <1>11. CASE n < k /\ k <= z /\ Finish(p, <<chunk, whole>>, "sent")
    <2>2. chunk \in Frame /\ chunk \notin Metas /\ chunk.id = id /\ ChunkIs(chunk, id, k)
      BY <1>7, <1>11
    <2>3. <<chunk, whole>> \in Seq(Frame) /\ Frames(<<chunk, whole>>) = {chunk, whole}
          /\ whole.type # "share_chunk"
      BY <2>2 DEF Frames, Plain
    <2>4. Frames(<<chunk, whole>>) \cap Metas = {}
      BY <2>2, <2>3, PlainIsOther
    <2>5. k \in n .. z
      BY <1>2, <1>11
    <2>6. \A f \in Frames(<<chunk, whole>>) :
             f.type = "share_chunk" => f.id = id /\ ChunkIs(f, id, k)
      BY <2>2, <2>3
    <2>7. QED
      BY <1>8, <1>11, <2>3, <2>4, <2>5, <2>6
  <1>12. CASE /\ n < k /\ k <= z /\ k = n + cs
              /\ outgoingShares' = [outgoingShares EXCEPT
                    ![id] = [sent |-> k, chunkIndex |-> c + 1]]
              /\ outgoingQueue' = [outgoingQueue EXCEPT
                    ![p] = Append(Tail(outgoingQueue[p]), id)]
              /\ SendFrames(p, <<chunk>>)
              /\ UNCHANGED shown
    <2>1. k \in 0 .. Size[id] /\ n <= k /\ k = n + cs /\ n < z
      <3>1. k \in 0 .. z /\ n <= k /\ k = n + cs /\ n < z
        BY <1>2, <1>12
      <3>2. QED
        BY <1>2, <3>1
    <2>2. chunk \in Frame /\ chunk \notin Metas /\ chunk.id = id /\ ChunkIs(chunk, id, k)
      BY <1>7, <1>12
    <2>3. <<chunk>> \in Seq(Frame) /\ Frames(<<chunk>>) = {chunk}
      BY <2>2 DEF Frames
    <2>4. /\ Frames(<<chunk>>) \cap Metas = {}
          /\ \A f \in Frames(<<chunk>>) :
                f.type = "share_chunk" => f.id = id /\ ChunkIs(f, id, k)
      BY <2>2, <2>3
    <2>5. PICK new : new = [sent |-> k, chunkIndex |-> c + 1]
      OBVIOUS
    <2>6. new \in OutgoingShare(id) /\ new.sent = k /\ k = Start(new.chunkIndex)
      <3>1. c + 1 \in Nat /\ k = Start(c + 1)
        <4>1. Start(c + 1) = Start(c) + ChunkSize
          BY Multiples
        <4>2. Start(c) + ChunkSize = n + cs
          BY <1>1, <1>2
        <4>3. QED
          BY <2>1, <4>1, <4>2
      <3>2. c + 1 <= TotalChunks(id) /\ TotalChunks(id) \in Nat
        <4>1. Start(c) < Size[id]
          BY <1>1, <1>2, <2>1
        <4>2. QED
          BY <4>1, ChunksFit
      <3>3. c + 1 \in 0 .. TotalChunks(id)
        BY <3>1, <3>2
      <3>4. QED
        BY <2>1, <2>5, <3>1, <3>3 DEF OutgoingShare
    <2>7. new # NoShare
      BY <2>6, MissingAssumption
    <2>8. outgoingQueue' \in [Peers -> Seq(Shares)] /\ Queues'
      BY <1>1, <1>12, <2>5, <2>7, QueueAdvances
    <2>9. outgoingShares' = [outgoingShares EXCEPT ![id] = new]
      BY <1>12, <2>5
    <2>10. outgoingShares[id].sent <= k
      BY <1>1, <2>1
    <2>11. PICK frames \in Seq(Frame) : frames = <<chunk>>
      BY <2>3
    <2>12. /\ SendFrames(p, frames) /\ UNCHANGED shown /\ Frames(frames) \cap Metas = {}
           /\ \A f \in Frames(frames) :
                 f.type = "share_chunk" => f.id = id /\ ChunkIs(f, id, k)
      BY <1>12, <2>4, <2>11
    <2>13. k \in 0 .. Size[id] /\ Owner[id] = p /\ outgoingShares[id] # NoShare
      BY <1>1, <2>1
    <2>14. QED
      BY <1>5, <2>6, <2>8, <2>9, <2>10, <2>12, <2>13, SendingKeeps
  <1>13. QED
    BY <1>6, <1>9, <1>10, <1>11, <1>12

\* onShareSendTick
LEMMA TickKeeps ==
    ASSUME Base, NEW p \in Peers, ShareSendTick(p)
    PROVE  Base' /\ (Sound => Sound')
  <1>1. CASE SendNext(p)
    BY <1>1, SendNextKeeps DEF ShareSendTick
  <1>2. CASE /\ shareSendActive' = [shareSendActive EXCEPT ![p] = FALSE]
             /\ UNCHANGED <<up, outgoingQueue, outgoingShares, shown>>
    <2>1. /\ UNCHANGED <<wire, down, server, client, sessionActive, receiving, length>>
          /\ UNCHANGED <<up, outgoingQueue, outgoingShares, shown>>
      BY <1>2 DEF ShareSendTick
    <2>2. NetStep({})
      BY <2>1, NothingSent DEF Base, Types
    <2>3. Types'
      BY <1>2, <2>1 DEF Base, Types, ServerOK, ServerTypeOK, Streams, ClientTypes, SendTypes,
                        ReceiveTypes, ShownTypes, server, client, receiving
    <2>4. Connections' /\ AnnouncedOnce'
      BY <2>1 DEF Base, Connections, AnnouncedOnce, Announced, client, receiving
    <2>5. Queues' /\ InOrder' /\ Named' /\ (Sound => Sound')
      BY <2>1, <2>2, QuietKeeps
    <2>6. QED
      BY <2>3, <2>4, <2>5 DEF Base
  <1>3. QED
    BY <1>1, <1>2 DEF ShareSendTick

\* disconnectSession
LEMMA LeaveKeeps ==
    ASSUME Base, NEW g \in Guests, LeaveSession(g)
    PROVE  Base' /\ (Sound => Sound')
  <1>1. PICK s \in Sockets : s = socket[g] /\ s[1] = g
    BY DEF Peers, Base, Types, ClientTypes, Connections
  <1>2. PICK i \in 0 .. Len(down[s]) : down' = [down EXCEPT ![s] = SubSeq(down[s], 1, i)]
    BY <1>1 DEF LeaveSession
  <1>3. /\ sessionActive' = [sessionActive EXCEPT ![g] = FALSE]
        /\ joined' = [joined EXCEPT ![g] = FALSE]
        /\ reconnectPending' = [reconnectPending EXCEPT ![g] = FALSE]
        /\ wire' = [wire EXCEPT ![s] = "down"]
        /\ up' = [up EXCEPT ![s] = Append(up[s], Closed)] \/ up' = up
        /\ outgoingQueue' = [outgoingQueue EXCEPT ![g] = <<>>]
        /\ outgoingShares' = [id \in Shares |-> IF Owner[id] = g THEN NoShare
                                                ELSE outgoingShares[id]]
        /\ incomingShares' = [incomingShares EXCEPT ![g] = [id \in Shares |-> NoShare]]
        /\ shareSendActive' = [shareSendActive EXCEPT ![g] = FALSE]
        /\ UNCHANGED <<server, socket, downloads, savedAs, cutShort, length, shown>>
    BY <1>1 DEF LeaveSession
  <1>4. g \in Peers
    BY DEF Peers
  <1>5. up[s] \in Seq(Frame) /\ down[s] \in Seq(Frame) /\ Closed \in Frame
        /\ {Closed} \subseteq Plain
    BY FramesBuilt DEF Base, Types, Streams, Plain
  <1>6. /\ Derived(SubSeq(down[s], 1, i), down[s], Plain)
        /\ Frames(SubSeq(down[s], 1, i)) \subseteq Frames(down[s])
        /\ Derived(Append(up[s], Closed), up[s], Plain)
    <2>1. Derived(SubSeq(down[s], 1, i), down[s], {})
      BY <1>5, PrefixDerived
    <2>2. QED
      BY <1>5, <2>1, DerivedWeakens, OneMore DEF Derived
  <1>7. NetStep(Plain)
    <2>1. Derived(up'[s], up[s], Plain) /\ Derived(down'[s], down[s], Plain)
      BY <1>2, <1>3, <1>5, <1>6, SameDerived DEF Base, Types, Streams
    <2>2. \A x \in Sockets \ {s} :
             Derived(up'[x], up[x], Plain) /\ Derived(down'[x], down[x], Plain)
      BY <1>2, <1>3, SameDerived DEF Base, Types, Streams
    <2>3. Streams'
      BY <1>2, <1>3, <2>1 DEF Base, Types, Streams, Derived
    <2>4. QED
      BY <2>1, <2>2, <2>3 DEF NetStep
  <1>8. Types'
    <2>1. (ServerOK /\ ClientTypes)'
      <3>1. ServerOK'
        BY <1>3 DEF Base, Types, ServerOK, ServerTypeOK, server, WireStates
      <3>2. ClientTypes'
        BY <1>3 DEF Base, Types, ClientTypes
      <3>3. QED
        BY <3>1, <3>2
    <2>2. SendTypes'
      <3>1. <<>> \in Seq(Shares)
        OBVIOUS
      <3>2. /\ shareSendActive' \in [Peers -> BOOLEAN]
            /\ outgoingQueue' \in [Peers -> Seq(Shares)] /\ length' \in [Shares -> Nat]
        BY <1>3, <3>1 DEF Base, Types, SendTypes
      <3>3. /\ outgoingShares' \in [Shares -> [sent : Nat, chunkIndex : Nat] \cup {NoShare}]
            /\ \A id \in Shares : outgoingShares'[id] \in OutgoingShare(id) \cup {NoShare}
        BY <1>3 DEF Base, Types, SendTypes
      <3>4. QED
        BY <3>2, <3>3 DEF SendTypes, OutgoingShare
    <2>3. (ReceiveTypes /\ ShownTypes)'
      BY <1>3 DEF Base, Types, ReceiveTypes, ShownTypes
    <2>4. QED
      BY <1>7, <2>1, <2>2, <2>3 DEF Types, NetStep
  <1>9. Connections'
    <2>1. WiresMove
      BY <1>1, <1>2, <1>3, <1>6 DEF WiresMove, Base, Types, Streams, ServerOK
    <2>2. \A p \in Peers : reconnectPending'[p] => reconnectPending[p]
      BY <1>3 DEF Base, Types, ClientTypes
    <2>3. QED
      BY <1>3, <2>1, <2>2, ConnectionsKept DEF Base
  <1>10. \A id \in Shares :
            outgoingShares'[id] = outgoingShares[id] \/ outgoingShares'[id] = NoShare
    BY <1>3
  <1>11. \A p \in Peers, id \in Shares :
            incomingShares'[p][id] = IF p = g THEN NoShare ELSE incomingShares[p][id]
    BY <1>3 DEF Base, Types, ReceiveTypes
  <1>12. Incoming(g)' = {} /\ \A p \in Peers \ {g} : Incoming(p)' = Incoming(p)
    BY <1>4, <1>11 DEF Incoming
  <1>13. Queues'
    <2> SUFFICES ASSUME NEW p \in Peers, NEW x \in Frames(outgoingQueue'[p])
                 PROVE  /\ Owner[x] = p /\ outgoingShares'[x] # NoShare
                        /\ Once(outgoingQueue'[p], x)
      BY DEF Queues
    <2>1. CASE p = g
      BY <1>3, <2>1 DEF Frames, Base, Types, SendTypes
    <2>2. CASE p # g
      <3>1. x \in Frames(outgoingQueue[p]) /\ outgoingQueue'[p] = outgoingQueue[p]
        BY <1>3, <2>2 DEF Base, Types, SendTypes
      <3>2. x \in Shares
        BY <3>1, LenProperties DEF Frames, Base, Types, SendTypes
      <3>3. QED
        BY <1>3, <2>2, <3>1, <3>2 DEF Base, Queues
    <2>3. QED
      BY <2>1, <2>2
  <1>14. InOrder'
    <2> SUFFICES ASSUME NEW id \in Shares
                 PROVE  \E n \in 0 .. Size[id] : Agrees(id, n)'
      BY DEF InOrder
    <2>1. PICK n \in 0 .. Size[id] : Agrees(id, n)
      BY DEF Base, InOrder
    <2>2. n \in Nat
      BY SharesAssumption
    <2>3. SentSoFar(id, n)'
      BY <1>3, <1>10, <2>1 DEF Agrees, SentSoFar
    <2>4. ASSUME NEW p \in Peers PROVE ReceivedSoFar(p, id, n)'
      BY <1>11, <1>12, <2>1 DEF Agrees, ReceivedSoFar
    <2>5. Agrees(id, n)'
      BY <1>7, <2>1, <2>2, <2>3, <2>4, PlainIsOther, OldChunks, AgreesKept
    <2>6. QED
      BY <2>5
  <1>15. AnnouncedOnce'
    <2> SUFFICES ASSUME NEW id \in Shares PROVE Announced(id)'
      BY DEF AnnouncedOnce
    <2>1. ShareMeta(id) \notin Plain /\ Announced(id)
      BY MetasRead DEF Base, AnnouncedOnce
    <2>2. QED
      BY <1>3, <1>7, <1>10, <2>1, AnnouncedKept
  <1>16. Named'
    BY <1>3, <1>11, <1>12 DEF Base, Named
  <1>17. ASSUME Sound PROVE Sound'
    <2>1. \A id \in Shares : InBusiness(id)' => InBusiness(id)
      <3> SUFFICES ASSUME NEW id \in Shares PROVE InBusiness(id)' => InBusiness(id)
        OBVIOUS
      <3>1. ShareMeta(id) \in Frame /\ ShareMeta(id) \notin Plain
        BY MetasRead
      <3>2. Travels(ShareMeta(id))' => Travels(ShareMeta(id))
        BY <1>7, <3>1, TravelsKept
      <3>3. QED
        BY <1>10, <1>12, <3>2 DEF InBusiness
    <2>2. Exclusive'
      BY <1>17, <2>1 DEF Sound, Exclusive
    <2>3. PartFilesAreInUse'
      <3>1. \A p \in Peers : sessionActive'[p] => p # g /\ sessionActive[p]
        BY <1>3 DEF Base, Types, ClientTypes
      <3>2. QED
        BY <1>3, <1>11, <1>12, <1>17, <3>1
        DEF Sound, PartFilesAreSound, PartFilesAreInUse, Temp
    <2>4. (PartIsBeginning /\ Unfinished)'
      BY <1>3, <1>11, <1>12, <1>17
      DEF Sound, PartFilesAreSound, PartIsBeginning, Unfinished, Temp
    <2>5. ReceivedIntact'
      BY <1>3, <1>17 DEF Sound, ReceivedIntact, IsAnnounced
    <2>6. QED
      BY <1>17, <2>2, <2>3, <2>4, <2>5 DEF Sound, PartFilesAreSound
  <1>18. QED
    BY <1>8, <1>9, <1>13, <1>14, <1>15, <1>16, <1>17 DEF Base

----------------------------------------------------------------------------
(* The directory of a receiver.                                            *)

\* Where the files of the transfers are.
LEMMA PathsAre ==
    /\ \A f \in FinalPaths : f \in Paths /\ PartOf[f] \in TempPaths /\ PartOf[f] \in Paths
    /\ \A f, g \in FinalPaths : PartOf[f] = PartOf[g] => f = g
    /\ \A id \in Shares : Own(id) \subseteq FinalPaths /\ Generated[id] \in FinalPaths \ TempPaths
    /\ PartsApart => \A f, g \in FinalPaths : f # PartOf[g]
  <1>1. \A id \in Shares : Generated[id] \notin TempPaths
    BY PathsAssumption
  <1>2. \A f, g \in FinalPaths : PartOf[f] = PartOf[g] => f = g
    BY PathsAssumption
  <1>3. \A id \in Shares : Own(id) \subseteq FinalPaths /\ Generated[id] \in FinalPaths
    BY DEF Own, FinalPaths
  <1>4. \A f \in FinalPaths : PartOf[f] \in TempPaths
    BY DEF TempPaths
  <1>5. QED
    BY <1>1, <1>2, <1>3, <1>4 DEF Paths, PartsApart

\* Shares that may take one path have names that clash.
LEMMA OwnApart ==
    ASSUME NEW x \in Shares, NEW y \in Shares, NEW f \in Own(x), f \in Own(y)
    PROVE  x = y \/ Clash(x, y)
  <1>1. \A z, u \in Shares : \A n \in 0 .. MaxNumber : Generated[z] # Candidate[u][n]
    BY PathsAssumption
  <1>2. x # y => Generated[x] # Generated[y]
    BY PathsAssumption
  <1>3. QED
    BY <1>1, <1>2 DEF Own, Clash

\* A made-up name belongs to one share.
LEMMA GeneratedIsOwn ==
    ASSUME NEW x \in Shares, NEW y \in Shares, Generated[x] \in Own(y)
    PROVE  x = y
  BY PathsAssumption DEF Own

\* The order of the numbers, as a relation.
LessThan == {p \in Nat \X Nat : p[1] < p[2]}

\* A nonempty set of numbers has a least one.
LEMMA SomeIsFirst ==
    ASSUME NEW T \in SUBSET Nat, T # {}
    PROVE  \E n \in T : \A m \in T : n <= m
  <1>1. IsWellFoundedOn(LessThan, Nat)
    <2>1. OpToRel(<, Nat) = LessThan
      BY DEF OpToRel, LessThan
    <2>2. QED
      BY <2>1, NatLessThanWellFounded
  <1>2. PICK n \in T : \A m \in T : <<m, n>> \notin LessThan
    BY <1>1, WFMin
  <1>3. ASSUME NEW m \in T, m < n PROVE FALSE
    <2>1. <<m, n>> \in LessThan
      BY <1>3 DEF LessThan
    <2>2. QED
      BY <1>2, <2>1
  <1>4. QED
    BY <1>3

\* resolveSharePath gives a share a path of its own, at which there is no file.
LEMMA PathIsFree ==
    ASSUME Base, NEW p \in Peers, NEW id \in Shares, savedAs[p][id] = NoFile
    PROVE  SharePath(p, id) \in Own(id) /\ downloads[p][SharePath(p, id)] = NoFile
  <1> DEFINE free == {n \in 0 .. MaxNumber : downloads[p][Candidate[id][n]] = NoFile}
  <1>1. CASE free = {}
    <2>1. SharePath(p, id) = Generated[id]
      BY <1>1 DEF SharePath
    <2>2. downloads[p][Generated[id]] = NoFile
      BY DEF Base, Named
    <2>3. QED
      BY <2>1, <2>2 DEF Own
  <1>2. CASE free # {}
    <2> DEFINE first == CHOOSE n \in free : \A m \in free : n <= m
    <2>1. free \subseteq Nat
      OBVIOUS
    <2>2. \E n \in free : \A m \in free : n <= m
      BY <1>2, <2>1, SomeIsFirst
    <2>3. first \in free
      BY <2>2
    <2>4. SharePath(p, id) = Candidate[id][first]
      BY <1>2 DEF SharePath
    <2>5. first \in 0 .. MaxNumber /\ downloads[p][Candidate[id][first]] = NoFile
      BY <2>3
    <2> HIDE DEF first
    <2>6. QED
      BY <2>4, <2>5 DEF Own
  <1>3. QED
    BY <1>1, <1>2

\* What has its name, and is written to no more, stays what it was.
LEMMA FilesStay ==
    ASSUME Base, Sound, NEW q \in Peers, cutShort \subseteq cutShort',
           \A f \in Paths \ TempPaths : downloads[q][f] # NoFile =>
              downloads'[q][f] = downloads[q][f]
    PROVE  /\ \A x \in Shares : shown[q][x] = "received" /\ savedAs'[q][x] = savedAs[q][x] =>
                 IsAnnounced(q, x)'
           /\ \A f \in Existing \ TempPaths : downloads'[q][f] = Old
  <1>1. ASSUME NEW x \in Shares, shown[q][x] = "received", savedAs'[q][x] = savedAs[q][x]
        PROVE  IsAnnounced(q, x)'
    <2>1. PICK n \in 0 .. Size[x] :
             /\ n = Size[x] \/ <<q, x>> \in cutShort
             /\ downloads[q][savedAs[q][x]] = Content(x, n)
      BY <1>1 DEF Sound, ReceivedIntact, IsAnnounced
    <2>2. savedAs[q][x] \in Paths \ TempPaths
      <3>1. savedAs[q][x] \in FinalPaths
        BY <1>1 DEF Base, Named
      <3>2. QED
        BY <3>1, PathsAre DEF Sound, PartsApart
    <2>3. Content(x, n) # NoFile
      BY ContentTyped, SharesAssumption, MissingAssumption
    <2>4. QED
      BY <1>1, <2>1, <2>2, <2>3 DEF IsAnnounced
  <1>2. ASSUME NEW f \in Existing \ TempPaths PROVE downloads'[q][f] = Old
    <2>1. f \in Paths /\ downloads[q][f] = Old
      BY DEF Paths, Sound, ReceivedIntact
    <2>2. Old \in Seq(UnitsOf)
      BY DEF Old, UnitsOf
    <2>3. QED
      BY <2>1, <2>2, MissingAssumption
  <1>3. QED
    BY <1>1, <1>2

\* Transfers that go on write to files of their own.
LEMMA TransfersApart ==
    ASSUME Base, Sound, NEW p \in Peers, NEW x \in Incoming(p), NEW y \in Incoming(p), x # y
    PROVE  /\ incomingShares[p][x].finalPath # incomingShares[p][y].finalPath
           /\ Temp(p, x) # Temp(p, y) /\ Temp(p, x) # incomingShares[p][y].finalPath
  <1>1. PICK f, g : f = incomingShares[p][x].finalPath /\ g = incomingShares[p][y].finalPath
    OBVIOUS
  <1>2. x \in Shares /\ y \in Shares /\ f \in Own(x) /\ g \in Own(y)
    BY <1>1 DEF Incoming, Base, Named
  <1>3. f # g
    <2>1. InBusiness(x) /\ InBusiness(y)
      BY DEF InBusiness
    <2>2. ~Clash(x, y)
      BY <1>2, <2>1 DEF Sound, Exclusive
    <2>3. QED
      BY <1>2, <2>2, OwnApart
  <1>4. f \in FinalPaths /\ g \in FinalPaths
    BY <1>2, PathsAre
  <1>5. QED
    BY <1>1, <1>3, <1>4, PathsAre DEF Temp, Sound

----------------------------------------------------------------------------
(* The receiver.                                                           *)

\* A callback is taken off its stream, and the transfers' senders go on.
Taken ==
    /\ NetStep({})
    /\ \A s \in Sockets : Closed \in Frames(down'[s]) => Closed \in Frames(down[s])
    /\ UNCHANGED <<wire, server, client, sessionActive, sending, length>>

\* The head of the callbacks of p is taken off its connection s.
HeadTaken(p, s) ==
    s = socket[p] /\ down[s] # <<>> /\ down' = [down EXCEPT ![s] = Tail(down[s])]

\* What is left of the streams of callbacks.
LEMMA EventTaken ==
    ASSUME Base, NEW p \in Peers, NEW s \in Sockets, HeadTaken(p, s)
    PROVE  /\ Head(down[s]) \in Frame /\ Head(down[s]) \in Frames(down[s]) /\ s[1] = p
           /\ down' \in [Sockets -> Seq(Frame)]
           /\ \A t \in Sockets : /\ Derived(down'[t], down[t], {})
                                 /\ Frames(down'[t]) \subseteq Frames(down[t])
                                 /\ t # s => down'[t] = down[t]
           /\ Once(down[s], Head(down[s])) => Head(down[s]) \notin Frames(down'[s])
  <1>1. down[s] \in Seq(Frame)
    BY DEF Base, Types, Streams
  <1>2. /\ Derived(Tail(down[s]), down[s], {})
        /\ Head(down[s]) \in Frames(down[s]) /\ Head(down[s]) \in Frame
        /\ Frames(Tail(down[s])) \subseteq Frames(down[s]) /\ Tail(down[s]) \in Seq(Frame)
        /\ Once(down[s], Head(down[s])) => Head(down[s]) \notin Frames(Tail(down[s]))
    BY <1>1, TailOf, TailDerived DEF HeadTaken
  <1>3. \A t \in Sockets : down'[t] = IF t = s THEN Tail(down[s]) ELSE down[t]
    BY DEF HeadTaken, Base, Types, Streams
  <1>4. \A t \in Sockets : t # s => Derived(down'[t], down[t], {})
    BY <1>3, SameDerived DEF Base, Types, Streams
  <1>5. QED
    BY <1>2, <1>3, <1>4 DEF HeadTaken, Base, Types, Streams, Connections

\* What the steps of a receiver have in common.
LEMMA ReceivingKeeps ==
    ASSUME Base, Taken, ReceiveTypes', ShownTypes', Named',
           \A x \in Shares : Announced(x)',
           \A q \in Peers, x \in Shares : shown'[q][x] = "none" => shown[q][x] = "none",
           \A x \in Shares, n \in Nat : Agrees(x, n) => \A q \in Peers : ReceivedSoFar(q, x, n)'
    PROVE  Base'
  <1>1. Types'
    BY DEF Base, Taken, Types, NetStep, ServerOK, ServerTypeOK, ClientTypes, SendTypes,
           server, client, sending
  <1>2. Connections'
    BY WiresStay, ConnectionsKept DEF Base, Taken, client
  <1>3. Queues'
    BY DEF Base, Queues, Taken, sending
  <1>4. InOrder'
    <2> SUFFICES ASSUME NEW x \in Shares
                 PROVE  \E n \in 0 .. Size[x] : Agrees(x, n)'
      BY DEF InOrder
    <2>1. PICK n \in 0 .. Size[x] : Agrees(x, n)
      BY DEF Base, InOrder
    <2>2. n \in Nat /\ Owner[x] \in Peers
      BY SharesAssumption
    <2>3. SentSoFar(x, n)'
      BY <2>1, <2>2 DEF Agrees, SentSoFar, Taken, sending
    <2>4. Agrees(x, n)'
      BY <2>1, <2>2, <2>3, AgreesKept DEF Taken
    <2>5. QED
      BY <2>4
  <1>5. QED
    BY <1>1, <1>2, <1>3, <1>4 DEF Base, AnnouncedOnce

\* A transfer that begins was announced: no share is in business again.
LEMMA StillExclusive ==
    ASSUME Base, Taken, Exclusive,
           \A q \in Peers : \A x \in Incoming(q)' :
              x \in Incoming(q) \/ Travels(ShareMeta(x))
    PROVE  Exclusive'
  <1>1. ASSUME NEW x \in Shares PROVE InBusiness(x)' => InBusiness(x)
    <2>1. ShareMeta(x) \in Frame
      BY MetasRead
    <2>2. Travels(ShareMeta(x))' => Travels(ShareMeta(x))
      BY <2>1, TravelsKept DEF Taken
    <2>3. QED
      BY <2>2 DEF InBusiness, Taken, sending
  <1>2. QED
    BY <1>1 DEF Exclusive

\* onShareMetaReceived, when a temporary file is made.
LEMMA MetaKeeps ==
    ASSUME Base, NEW p \in Peers, NEW s \in Sockets, HeadTaken(p, s), Taken, UNCHANGED up,
           NEW id \in Shares, Head(down[s]) = ShareMeta(id), id \notin Incoming(p),
           NEW final, final = SharePath(p, id), UNCHANGED cutShort,
           incomingShares' = [incomingShares EXCEPT
              ![p][id] = [finalPath |-> final, received |-> <<>>, receivedChunks |-> 0]],
           downloads' = [downloads EXCEPT ![p][PartOf[final]] = <<>>],
           savedAs' = [savedAs EXCEPT ![p][id] = final],
           Show(p, id, "receiving")
    PROVE  Base' /\ (Sound => Sound')
  <1>1. PICK m \in Metas : m = ShareMeta(id) /\ m = Head(down[s])
    BY MetasRead
  <1>2. /\ m \in Frames(down[s]) /\ s[1] = p
        /\ \A t \in Sockets : /\ Frames(down'[t]) \subseteq Frames(down[t])
                              /\ Derived(down'[t], down[t], {})
                              /\ t # s => down'[t] = down[t]
        /\ Once(down[s], m) => m \notin Frames(down'[s])
    <2>1. /\ Head(down[s]) \in Frames(down[s]) /\ s[1] = p
          /\ \A t \in Sockets : /\ Derived(down'[t], down[t], {})
                                /\ Frames(down'[t]) \subseteq Frames(down[t])
                                /\ t # s => down'[t] = down[t]
          /\ Once(down[s], Head(down[s])) => Head(down[s]) \notin Frames(down'[s])
      BY EventTaken
    <2>2. QED
      BY <1>1, <2>1
  <1>3. /\ shown[Owner[id]][id] # "none"
        /\ \A t \in Sockets : Once(up[t], m) /\ Once(down[t], m) /\ m \notin Frames(up[t])
        /\ \A t \in Sockets : m \in Frames(down[t]) /\ t[1] = p => t = s
        /\ \A t, u \in Sockets : m \in Frames(down[t]) =>
              /\ m \in Frames(down[u]) /\ t[1] = u[1] => t = u
              /\ savedAs[t[1]][id] = NoFile
        /\ savedAs[p][id] = NoFile
    <2>1. Announced(id)
      BY DEF Base, AnnouncedOnce
    <2>2. QED
      BY <1>1, <1>2, <2>1 DEF Announced
  <1>4. /\ final \in Own(id) /\ final \in FinalPaths /\ PartOf[final] \in Paths
        /\ downloads[p][final] = NoFile
    BY <1>3, PathIsFree, PathsAre
  <1>5. PICK new : new = [finalPath |-> final, received |-> <<>>, receivedChunks |-> 0]
    OBVIOUS
  <1>6. /\ new \in AnyIncoming /\ new # NoShare
        /\ new.finalPath = final /\ new.received = <<>> /\ new.receivedChunks = 0
    <2>1. new.finalPath = final /\ new.received = <<>> /\ new.receivedChunks = 0
      BY <1>5
    <2>2. <<>> \in Seq(UnitsOf) /\ 0 \in Nat
      OBVIOUS
    <2>3. new \in AnyIncoming
      BY <1>4, <1>5, <2>2 DEF AnyIncoming
    <2>4. QED
      BY <2>1, <2>3, MissingAssumption DEF AnyIncoming, IncomingShare
  <1>7. incomingShares' = [incomingShares EXCEPT ![p][id] = new]
    BY <1>5
  <1>8. /\ \A q \in Peers, x \in Shares :
              incomingShares'[q][x] = IF q = p /\ x = id THEN new ELSE incomingShares[q][x]
        /\ \A q \in Peers, x \in Shares :
              savedAs'[q][x] = IF q = p /\ x = id THEN final ELSE savedAs[q][x]
    BY <1>7 DEF Base, Types, ReceiveTypes
  <1>9. \A q \in Peers, x \in Shares :
           shown'[q][x] = IF q = p /\ x = id THEN "receiving" ELSE shown[q][x]
    BY DEF Show, Base, Types, ShownTypes
  <1>10. \A q \in Peers, f \in Paths :
            downloads'[q][f] = IF q = p /\ f = PartOf[final] THEN <<>> ELSE downloads[q][f]
    BY DEF Base, Types, ReceiveTypes
  <1>11. <<>> \in Seq(UnitsOf) /\ <<>> # NoFile /\ final # NoFile
    <2>1. <<>> \in Seq(UnitsOf)
      OBVIOUS
    <2>2. QED
      BY <1>4, <2>1, MissingAssumption
  <1>12. ReceiveTypes' /\ ShownTypes'
    <2>1. incomingShares' \in [Peers -> [Shares -> AnyIncoming \cup {NoShare}]]
      BY <1>6, <1>7 DEF Base, Types, ReceiveTypes
    <2>2. downloads' \in [Peers -> [Paths -> Seq(UnitsOf) \cup {NoFile}]]
      BY <1>11 DEF Base, Types, ReceiveTypes
    <2>3. savedAs' \in [Peers -> [Shares -> FinalPaths \cup {NoFile}]]
      BY <1>4 DEF Base, Types, ReceiveTypes
    <2>4. ShownTypes'
      BY DEF Show, Base, Types, ShownTypes, Statuses
    <2>5. cutShort' \subseteq Peers \X Shares
      BY DEF Base, Types, ReceiveTypes
    <2>6. QED
      BY <2>1, <2>2, <2>3, <2>4, <2>5 DEF ReceiveTypes
  <1>13. \A q \in Peers, x \in Shares :
            x \in Incoming(q)' <=> x \in Incoming(q) \/ (q = p /\ x = id)
    BY <1>6, <1>8 DEF Incoming
  <1>14. Named'
    <2>1. ASSUME NEW q \in Peers, NEW x \in Incoming(q)'
          PROVE  /\ savedAs'[q][x] = incomingShares'[q][x].finalPath /\ savedAs'[q][x] \in Own(x)
                 /\ downloads'[q][PartOf[savedAs'[q][x]]] # NoFile
      <3>1. x \in Shares
        BY DEF Incoming
      <3>2. CASE q = p /\ x = id
        BY <1>4, <1>6, <1>8, <1>10, <1>11, <3>2
      <3>3. CASE ~(q = p /\ x = id)
        <4>1. x \in Incoming(q)
          BY <1>13, <3>1, <3>3
        <4>2. /\ savedAs[q][x] = incomingShares[q][x].finalPath /\ savedAs[q][x] \in Own(x)
              /\ downloads[q][PartOf[savedAs[q][x]]] # NoFile
          BY <4>1 DEF Base, Named
        <4>3. PartOf[savedAs[q][x]] \in Paths
          BY <3>1, <4>2, PathsAre
        <4>4. QED
          BY <1>8, <1>10, <1>11, <3>1, <3>3, <4>2, <4>3
      <3>4. QED
        BY <3>2, <3>3
    <2>2. ASSUME NEW q \in Peers, NEW x \in Shares, downloads'[q][Generated[x]] # NoFile
          PROVE  savedAs'[q][x] # NoFile
      <3>1. downloads[q][Generated[x]] # NoFile
        BY <1>4, <1>10, <2>2, PathsAre
      <3>2. savedAs[q][x] # NoFile
        BY <3>1 DEF Base, Named
      <3>3. QED
        BY <1>8, <1>11, <3>2
    <2>3. ASSUME NEW q \in Peers, NEW x \in Shares, shown'[q][x] = "received"
          PROVE  savedAs'[q][x] \in FinalPaths
      BY <1>8, <1>9, <2>3 DEF Base, Named
    <2>4. QED
      BY <2>1, <2>2, <2>3 DEF Named
  <1>15. ASSUME NEW x \in Shares PROVE Announced(x)'
    <2>1. Announced(x)
      BY DEF Base, AnnouncedOnce
    <2>2. CASE x # id
      <3>1. \A q \in Peers : savedAs'[q][x] = savedAs[q][x]
        BY <1>8, <2>2
      <3>2. outgoingShares' = outgoingShares /\ NetStep({}) /\ ShareMeta(x) \notin {}
        BY DEF Taken, sending
      <3>3. shown'[Owner[x]][x] = "none" => shown[Owner[x]][x] = "none"
        BY <1>9, <2>2, SharesAssumption
      <3>4. QED
        BY <2>1, <3>1, <3>2, <3>3, AnnouncedKept
    <2>3. CASE x = id
      <3>1. \A t \in Sockets : Once(down'[t], m)
        BY <1>1, <1>2, <1>3 DEF Derived
      <3>2. \A t \in Sockets : m \in Frames(down'[t]) => m \in Frames(down[t]) /\ t[1] # p
        BY <1>2, <1>3
      <3>3. \A t \in Sockets : t[1] \in Peers
        BY SocketsAre
      <3>4. shown'[Owner[id]][id] # "none"
        BY <1>3, <1>9, SharesAssumption
      <3>5. /\ \A t \in Sockets : Once(up'[t], m) /\ Once(down'[t], m) /\ m \notin Frames(up'[t])
            /\ \A t, u \in Sockets : m \in Frames(down'[t]) =>
                  /\ m \in Frames(down'[u]) /\ t[1] = u[1] => t = u
                  /\ savedAs'[t[1]][id] = NoFile
        BY <1>3, <1>8, <3>1, <3>2, <3>3
      <3>6. QED
        BY <1>1, <2>3, <3>4, <3>5 DEF Announced, ShareMeta
    <2>4. QED
      BY <2>2, <2>3
  <1>16. ASSUME NEW x \in Shares, NEW n \in Nat, Agrees(x, n), NEW q \in Peers
         PROVE  ReceivedSoFar(q, x, n)'
    <2>1. CASE q = p /\ x = id
      <3>1. Lesser(Start(0), n) = 0
        BY Multiples DEF Lesser
      <3>2. QED
        BY <1>6, <1>8, <2>1, <3>1, ContentEmpty DEF ReceivedSoFar
    <2>2. CASE ~(q = p /\ x = id)
      BY <1>8, <1>13, <1>16, <2>2 DEF Agrees, ReceivedSoFar
    <2>3. QED
      BY <2>1, <2>2
  <1>17. Base'
    BY <1>9, <1>12, <1>14, <1>15, <1>16, ReceivingKeeps
  <1>18. ASSUME Sound PROVE Sound'
    <2>1. Travels(ShareMeta(id))
      BY <1>1, <1>2 DEF Travels
    <2>2. Exclusive'
      <3>1. \A q \in Peers : \A x \in Incoming(q)' : x \in Incoming(q) \/ Travels(ShareMeta(x))
        BY <1>13, <2>1 DEF Incoming
      <3>2. QED
        BY <1>18, <3>1, StillExclusive DEF Sound
    <2>3. \A q \in Peers, f \in Paths \ TempPaths : downloads'[q][f] = downloads[q][f]
      BY <1>4, <1>10, PathsAre
    <2>4. ReceivedIntact'
      <3>1. \A q \in Peers :
               /\ \A x \in Shares : shown[q][x] = "received" /\ savedAs'[q][x] = savedAs[q][x] =>
                     IsAnnounced(q, x)'
               /\ \A f \in Existing \ TempPaths : downloads'[q][f] = Old
        BY <1>18, <2>3, FilesStay
      <3>2. \A q \in Peers, x \in Shares : shown'[q][x] = "received" =>
               shown[q][x] = "received" /\ savedAs'[q][x] = savedAs[q][x]
        BY <1>8, <1>9
      <3>3. QED
        BY <3>1, <3>2 DEF ReceivedIntact
    <2>5. ASSUME NEW q \in Peers, NEW x \in Incoming(q)', ~(q = p /\ x = id)
          PROVE  /\ x \in Shares /\ x \in Incoming(q)
                 /\ incomingShares'[q][x] = incomingShares[q][x]
                 /\ incomingShares[q][x].finalPath \in FinalPaths
                 /\ q = p => incomingShares[q][x].finalPath # final
      <3>1. x \in Shares
        BY DEF Incoming
      <3>2. x \in Incoming(q) /\ incomingShares'[q][x] = incomingShares[q][x]
        BY <1>8, <1>13, <2>5, <3>1
      <3>3. incomingShares[q][x].finalPath \in Own(x)
        BY <3>2 DEF Base, Named
      <3>4. incomingShares[q][x].finalPath \in FinalPaths
        BY <3>1, <3>3, PathsAre
      <3>5. ASSUME q = p, incomingShares[q][x].finalPath = final PROVE FALSE
        <4>1. InBusiness(x) /\ InBusiness(id)
          BY <2>1, <3>2 DEF InBusiness
        <4>2. x # id /\ final \in Own(x)
          BY <2>5, <3>3, <3>5
        <4>3. Clash(x, id)
          BY <1>4, <3>1, <4>2, OwnApart
        <4>4. x = id
          BY <1>18, <3>1, <4>1, <4>3 DEF Sound, Exclusive
        <4>5. QED
          BY <4>2, <4>4
      <3>6. QED
        BY <3>1, <3>2, <3>4, <3>5
    <2>6. Unfinished'
      <3> SUFFICES ASSUME NEW q \in Peers, NEW x \in Incoming(q)'
                   PROVE  downloads'[q][incomingShares'[q][x].finalPath] = NoFile
        BY DEF Unfinished
      <3>1. \A f \in FinalPaths : f \in Paths \ TempPaths
        BY <1>18, PathsAre DEF Sound, PartsApart
      <3>2. CASE q = p /\ x = id
        BY <1>4, <1>6, <1>8, <2>3, <3>1, <3>2
      <3>3. CASE ~(q = p /\ x = id)
        BY <1>18, <2>3, <2>5, <3>1, <3>3 DEF Sound, Unfinished
      <3>4. QED
        BY <3>2, <3>3
    <2>7. PartIsBeginning'
      <3> SUFFICES ASSUME NEW q \in Peers, NEW x \in Incoming(q)'
                   PROVE  downloads'[q][PartOf[incomingShares'[q][x].finalPath]]
                             = Content(x, Len(incomingShares'[q][x].received))
        BY DEF PartIsBeginning, Temp
      <3>1. CASE q = p /\ x = id
        <4>1. Len(<<>>) = 0
          OBVIOUS
        <4>2. QED
          BY <1>4, <1>6, <1>8, <1>10, <3>1, <4>1, ContentEmpty
      <3>2. CASE ~(q = p /\ x = id)
        <4>1. downloads'[q][PartOf[incomingShares[q][x].finalPath]]
                 = downloads[q][PartOf[incomingShares[q][x].finalPath]]
          BY <1>4, <1>10, <2>5, <3>2, PathsAre
        <4>2. /\ x \in Incoming(q)
              /\ incomingShares'[q][x] = incomingShares[q][x]
          BY <2>5, <3>2
        <4>3. downloads[q][PartOf[incomingShares[q][x].finalPath]]
                 = Content(x, Len(incomingShares[q][x].received))
          BY <1>18, <4>2 DEF Sound, PartFilesAreSound, PartIsBeginning, Temp
        <4>4. QED
          BY <4>1, <4>2, <4>3
      <3>3. QED
        BY <3>1, <3>2
    <2>8. PartFilesAreInUse'
      <3> SUFFICES ASSUME NEW q \in Peers, sessionActive'[q], NEW f \in TempPaths \ Existing,
                          downloads'[q][f] # NoFile
                   PROVE  \E x \in Incoming(q)' : PartOf[incomingShares'[q][x].finalPath] = f
        BY DEF PartFilesAreInUse, Temp
      <3>1. CASE q = p /\ f = PartOf[final]
        <4>1. id \in Incoming(q)' /\ PartOf[incomingShares'[q][id].finalPath] = f
          BY <1>6, <1>8, <1>13, <3>1
        <4>2. QED
          BY <4>1
      <3>2. CASE ~(q = p /\ f = PartOf[final])
        <4>1. downloads[q][f] # NoFile
          BY <1>10, <3>2 DEF Paths
        <4>2. PICK x \in Incoming(q) : PartOf[incomingShares[q][x].finalPath] = f
          BY <1>18, <4>1 DEF Sound, PartFilesAreSound, PartFilesAreInUse, Taken, Temp
        <4>3. x \in Shares /\ ~(q = p /\ x = id)
          BY <4>2 DEF Incoming
        <4>4. QED
          BY <1>8, <1>13, <4>2, <4>3
      <3>3. QED
        BY <3>1, <3>2
    <2>9. QED
      BY <1>18, <2>2, <2>4, <2>6, <2>7, <2>8 DEF Sound, PartFilesAreSound
  <1>19. QED
    BY <1>17, <1>18

\* A transfer that is over leaves the map of those that go on.
LEMMA Erased ==
    ASSUME Base, NEW p \in Peers, NEW id \in Incoming(p), Erase(p, id)
    PROVE  /\ id \in Shares /\ incomingShares[p][id].finalPath \in FinalPaths
           /\ savedAs[p][id] = incomingShares[p][id].finalPath /\ savedAs[p][id] \in Own(id)
           /\ incomingShares' \in [Peers -> [Shares -> AnyIncoming \cup {NoShare}]]
           /\ \A q \in Peers : \A x \in Incoming(q)' :
                 /\ x \in Shares /\ x \in Incoming(q) /\ ~(q = p /\ x = id)
                 /\ incomingShares'[q][x] = incomingShares[q][x]
                 /\ incomingShares[q][x].finalPath \in FinalPaths
                 /\ savedAs[q][x] = incomingShares[q][x].finalPath /\ savedAs[q][x] \in Own(x)
           /\ \A q \in Peers : \A x \in Incoming(q) :
                 x \in Incoming(q)' \/ (q = p /\ x = id)
  <1>1. \A q \in Peers, x \in Shares :
           incomingShares'[q][x] = IF q = p /\ x = id THEN NoShare ELSE incomingShares[q][x]
    BY DEF Erase, Base, Types, ReceiveTypes
  <1>2. \A q \in Peers : \A x \in Incoming(q) :
           /\ x \in Shares /\ incomingShares[q][x].finalPath \in FinalPaths
           /\ savedAs[q][x] = incomingShares[q][x].finalPath /\ savedAs[q][x] \in Own(x)
    BY DEF Incoming, Base, Types, ReceiveTypes, AnyIncoming, Named
  <1>3. incomingShares' \in [Peers -> [Shares -> AnyIncoming \cup {NoShare}]]
    BY DEF Erase, Base, Types, ReceiveTypes
  <1>4. \A q \in Peers, x \in Shares :
           x \in Incoming(q)' <=> x \in Incoming(q) /\ ~(q = p /\ x = id)
    BY <1>1 DEF Incoming
  <1>5. \A q \in Peers : \A x \in Incoming(q)' : x \in Shares
    BY DEF Incoming
  <1>6. QED
    BY <1>1, <1>2, <1>3, <1>4, <1>5

\* A share that is shown otherwise was not announced by it.
LEMMA ShownKeeps ==
    ASSUME Base, Taken, UNCHANGED savedAs, NEW x \in Shares,
           \A q \in Peers : shown'[q][x] = "none" => shown[q][x] = "none"
    PROVE  Announced(x)'
  <1>1. Announced(x) /\ NetStep({}) /\ outgoingShares' = outgoingShares
    BY DEF Base, AnnouncedOnce, Taken, sending
  <1>2. shown'[Owner[x]][x] = "none" => shown[Owner[x]][x] = "none"
    BY SharesAssumption
  <1>3. ShareMeta(x) \notin {} /\ \A q \in Peers : savedAs'[q][x] = savedAs[q][x]
    OBVIOUS
  <1>4. QED
    BY <1>1, <1>2, <1>3, AnnouncedKept

\* A transfer is given up: nobody else's file is removed.
LEMMA GiveUpKeeps ==
    ASSUME Base, NEW p \in Peers, Taken, NEW id \in Incoming(p), NEW files,
           GiveUp(p, id, files), Temp(p, id) \in files,
           files \subseteq {Temp(p, id), incomingShares[p][id].finalPath}, UNCHANGED savedAs
    PROVE  Base' /\ (Sound => Sound')
  <1>1. PICK final, temp : final = incomingShares[p][id].finalPath /\ temp = PartOf[final]
    OBVIOUS
  <1>2. Erase(p, id) /\ UNCHANGED cutShort /\ temp \in files /\ files \subseteq {temp, final}
    BY <1>1 DEF GiveUp, Temp
  <1>3. /\ id \in Shares /\ final \in FinalPaths
        /\ incomingShares' \in [Peers -> [Shares -> AnyIncoming \cup {NoShare}]]
        /\ \A q \in Peers : \A x \in Incoming(q)' :
              /\ x \in Shares /\ x \in Incoming(q) /\ ~(q = p /\ x = id)
              /\ incomingShares'[q][x] = incomingShares[q][x]
              /\ incomingShares[q][x].finalPath \in FinalPaths
              /\ savedAs[q][x] = incomingShares[q][x].finalPath /\ savedAs[q][x] \in Own(x)
        /\ \A q \in Peers : \A x \in Incoming(q) :
              x \in Incoming(q)' \/ (q = p /\ x = id)
    BY <1>1, <1>2, Erased
  <1>4. \A q \in Peers, x \in Shares :
           shown'[q][x] = IF q = p /\ x = id THEN "failed" ELSE shown[q][x]
    BY <1>3 DEF GiveUp, Show, Base, Types, ShownTypes
  <1>5. downloads' = [downloads EXCEPT ![p] = Removed(p, files, id)]
    BY DEF GiveUp
  <1>6. Removed(p, files, id) \in [Paths -> Seq(UnitsOf) \cup {NoFile}]
    BY DEF Removed, Base, Types, ReceiveTypes
  <1>7. \A q \in Peers : \A f \in Paths :
           downloads'[q][f] = IF q = p /\ f \in files /\ ~Held(p, f, id) THEN NoFile
                              ELSE downloads[q][f]
    BY <1>5 DEF Removed, Base, Types, ReceiveTypes
  <1>8. \A q \in Peers : \A x \in Incoming(q)' :
           downloads'[q][PartOf[incomingShares[q][x].finalPath]]
              = downloads[q][PartOf[incomingShares[q][x].finalPath]]
    <2> SUFFICES ASSUME NEW q \in Peers, NEW x \in Incoming(q)'
                 PROVE  downloads'[q][PartOf[incomingShares[q][x].finalPath]]
                           = downloads[q][PartOf[incomingShares[q][x].finalPath]]
      OBVIOUS
    <2>1. q = p => Held(p, PartOf[incomingShares[q][x].finalPath], id)
      BY <1>3 DEF Held, Temp
    <2>2. PartOf[incomingShares[q][x].finalPath] \in Paths
      BY <1>3, PathsAre
    <2>3. QED
      BY <1>7, <2>1, <2>2
  <1>9. ReceiveTypes' /\ ShownTypes'
    <2>1. downloads' \in [Peers -> [Paths -> Seq(UnitsOf) \cup {NoFile}]]
      BY <1>5, <1>6 DEF Base, Types, ReceiveTypes
    <2>2. ShownTypes'
      BY DEF GiveUp, Show, Base, Types, ShownTypes, Statuses
    <2>3. savedAs' \in [Peers -> [Shares -> FinalPaths \cup {NoFile}]]
      BY DEF Base, Types, ReceiveTypes
    <2>4. cutShort' \subseteq Peers \X Shares
      BY <1>2 DEF Base, Types, ReceiveTypes
    <2>5. QED
      BY <1>3, <2>1, <2>2, <2>3, <2>4 DEF ReceiveTypes
  <1>10. Named'
    <2>1. \A q \in Peers : \A x \in Incoming(q)' :
             /\ savedAs'[q][x] = incomingShares'[q][x].finalPath /\ savedAs'[q][x] \in Own(x)
             /\ downloads'[q][PartOf[savedAs'[q][x]]] # NoFile
      BY <1>3, <1>8 DEF Base, Named
    <2>2. \A x \in Shares : Generated[x] \in Paths
      BY PathsAre
    <2>3. \A q \in Peers : \A x \in Shares :
             downloads'[q][Generated[x]] # NoFile => savedAs'[q][x] # NoFile
      BY <1>7, <2>2 DEF Base, Named
    <2>4. \A q \in Peers : \A x \in Shares :
             shown'[q][x] = "received" => savedAs'[q][x] \in FinalPaths
      BY <1>4 DEF Base, Named
    <2>5. QED
      BY <2>1, <2>3, <2>4 DEF Named
  <1>11. \A q \in Peers, x \in Shares : shown'[q][x] = "none" => shown[q][x] = "none"
    BY <1>4
  <1>12. \A x \in Shares : Announced(x)'
    BY <1>11, ShownKeeps
  <1>13. \A x \in Shares, n \in Nat : Agrees(x, n) => \A q \in Peers : ReceivedSoFar(q, x, n)'
    BY <1>3 DEF Agrees, ReceivedSoFar
  <1>14. Base'
    BY <1>9, <1>10, <1>11, <1>12, <1>13, ReceivingKeeps
  <1>15. ASSUME Sound PROVE Sound'
    <2>1. Exclusive'
      BY <1>3, <1>15, StillExclusive DEF Sound
    <2>2. /\ downloads[p][final] = NoFile
          /\ \A f \in FinalPaths : f \in Paths \ TempPaths
      BY <1>1, <1>15, PathsAre DEF Sound, Unfinished, PartsApart
    <2>3. \A q \in Peers, f \in Paths \ TempPaths : downloads'[q][f] = downloads[q][f]
      BY <1>2, <1>3, <1>7, <2>2, <1>1, PathsAre
    <2>4. ReceivedIntact'
      <3>1. \A q \in Peers :
               /\ \A x \in Shares : shown[q][x] = "received" /\ savedAs'[q][x] = savedAs[q][x] =>
                     IsAnnounced(q, x)'
               /\ \A f \in Existing \ TempPaths : downloads'[q][f] = Old
        BY <1>2, <1>15, <2>3, FilesStay
      <3>2. \A q \in Peers, x \in Shares : shown'[q][x] = "received" => shown[q][x] = "received"
        BY <1>4
      <3>3. QED
        BY <3>1, <3>2 DEF ReceivedIntact
    <2>5. PartIsBeginning' /\ Unfinished'
      BY <1>3, <1>8, <1>15, <2>2, <2>3
      DEF Sound, PartFilesAreSound, PartIsBeginning, Unfinished, Temp
    <2>6. PartFilesAreInUse'
      <3> SUFFICES ASSUME NEW q \in Peers, sessionActive'[q], NEW f \in TempPaths \ Existing,
                          downloads'[q][f] # NoFile
                   PROVE  \E x \in Incoming(q)' : PartOf[incomingShares'[q][x].finalPath] = f
        BY DEF PartFilesAreInUse, Temp
      <3>1. f \in Paths /\ downloads[q][f] # NoFile
        BY <1>7 DEF Paths
      <3>2. PICK x \in Incoming(q) : PartOf[incomingShares[q][x].finalPath] = f
        BY <1>15, <3>1 DEF Sound, PartFilesAreSound, PartFilesAreInUse, Taken, Temp
      <3>3. CASE q = p /\ x = id
        <4>1. f = temp /\ Held(p, f, id)
          BY <1>1, <1>2, <1>7, <3>1, <3>2, <3>3
        <4>2. PICK y \in Incoming(p) \ {id} : PartOf[incomingShares[p][y].finalPath] = f
          BY <4>1 DEF Held, Temp
        <4>3. y \in Incoming(p)' /\ incomingShares'[p][y] = incomingShares[p][y]
          BY <1>3, <4>2
        <4>4. QED
          BY <3>3, <4>2, <4>3
      <3>4. CASE ~(q = p /\ x = id)
        BY <1>3, <3>2, <3>4
      <3>5. QED
        BY <3>3, <3>4
    <2>7. QED
      BY <1>15, <2>1, <2>4, <2>5, <2>6 DEF Sound, PartFilesAreSound
  <1>16. QED
    BY <1>14, <1>15

\* failIncomingShare
LEMMA FailKeeps ==
    ASSUME Base, NEW p \in Peers, Taken, NEW id \in Incoming(p), FailIncomingShare(p, id),
           UNCHANGED savedAs
    PROVE  Base' /\ (Sound => Sound')
  BY GiveUpKeeps DEF FailIncomingShare

\* The chunk that is taken is the next piece of the file.
LEMMA ChunkFits ==
    ASSUME NEW p \in Peers, NEW id \in Incoming(p), NEW n \in Nat, Agrees(id, n),
           NEW i \in Nat, NEW data, i = incomingShares[p][id].receivedChunks,
           ChunkIs(ShareChunk(id, i, data), id, n)
    PROVE  \E a \in Nat, b \in Nat :
              /\ a = Start(i) /\ a < n /\ a <= b /\ b = Lesser(Start(i + 1), n)
              /\ incomingShares[p][id].received = Content(id, a)
              /\ data = Units(id, a, b)
  <1>1. PICK c \in Nat : c = ChunkSize /\ c > 0
    BY SharesAssumption
  <1>2. PICK a \in Nat : a = Start(i)
    BY Multiples
  <1>3. Start(i + 1) = a + c
    BY <1>1, <1>2, Multiples
  <1>4. a < n /\ data = Units(id, a, Lesser(a + c, n))
    BY <1>1, <1>2 DEF ChunkIs, ShareChunk
  <1>5. PICK b \in Nat : b = Lesser(a + c, n) /\ a <= b
    BY <1>1, <1>4 DEF Lesser
  <1>6. Lesser(a, n) = a
    BY <1>4 DEF Lesser
  <1>7. incomingShares[p][id].received = Content(id, a)
    BY <1>2, <1>6 DEF Agrees, ReceivedSoFar
  <1>8. QED
    BY <1>2, <1>3, <1>4, <1>5, <1>7

\* onShareChunkReceived, when the chunk is written.
ChunkTaken(p, id, i, data) ==
    LET share == incomingShares[p][id]
    IN  /\ i = share.receivedChunks
        /\ incomingShares' = [incomingShares EXCEPT ![p][id] =
              [finalPath |-> share.finalPath, received |-> share.received \o data,
               receivedChunks |-> i + 1]]
        /\ downloads' = [downloads EXCEPT ![p][Temp(p, id)] =
              Written(downloads[p][Temp(p, id)], Len(share.received), data)]

\* The chunk is appended, in memory and on the disk.
LEMMA ChunkKeeps ==
    ASSUME Base, NEW p \in Peers, NEW s \in Sockets, HeadTaken(p, s), Taken,
           UNCHANGED <<savedAs, cutShort, shown>>, NEW id \in Incoming(p), NEW i \in Nat,
           NEW data,
           Head(down[s]) = ShareChunk(id, i, data), ChunkTaken(p, id, i, data)
    PROVE  Base' /\ (Sound => Sound')
  <1>a. PICK final : final = incomingShares[p][id].finalPath
    OBVIOUS
  <1>b. PICK received : received = incomingShares[p][id].received
    OBVIOUS
  <1>c. PICK new :
           new = [finalPath |-> final, received |-> received \o data, receivedChunks |-> i + 1]
    OBVIOUS
  <1>d. /\ i = incomingShares[p][id].receivedChunks
        /\ incomingShares' = [incomingShares EXCEPT ![p][id] = new]
        /\ downloads' = [downloads EXCEPT ![p][PartOf[final]] =
              Written(downloads[p][PartOf[final]], Len(received), data)]
    BY <1>a, <1>b, <1>c DEF ChunkTaken, Temp
  <1>1. /\ id \in Shares /\ final \in FinalPaths /\ final = savedAs[p][id]
        /\ PartOf[final] \in Paths /\ PartOf[final] \in TempPaths
        /\ downloads[p][PartOf[final]] \in Seq(UnitsOf)
    <2>1. id \in Shares /\ final \in FinalPaths
      BY <1>a DEF Incoming, Base, Types, ReceiveTypes, AnyIncoming
    <2>2. final = savedAs[p][id] /\ downloads[p][PartOf[final]] # NoFile
      BY <1>a DEF Base, Named
    <2>3. downloads[p][PartOf[final]] \in Seq(UnitsOf) \cup {NoFile}
      BY <2>1, PathsAre DEF Base, Types, ReceiveTypes
    <2>4. QED
      BY <2>1, <2>2, <2>3, PathsAre
  <1>2. ASSUME NEW n \in Nat, Agrees(id, n)
        PROVE  \E a \in Nat, b \in Nat :
                  /\ a = Start(i) /\ a < n /\ a <= b /\ b = Lesser(Start(i + 1), n)
                  /\ incomingShares[p][id].received = Content(id, a)
                  /\ data = Units(id, a, b)
    <2>1. Head(down[s]) \in Frames(down[s])
      BY EventTaken
    <2>2. ChunkIs(ShareChunk(id, i, data), id, n)
      BY <1>2, <2>1 DEF Agrees
    <2>3. QED
      BY <1>2, <1>d, <2>2, ChunkFits
  <1>3. PICK n \in Nat : Agrees(id, n)
    <2>1. PICK n \in 0 .. Size[id] : Agrees(id, n)
      BY <1>1 DEF Base, InOrder
    <2>2. n \in Nat
      BY <1>1, SharesAssumption
    <2>3. QED
      BY <2>1, <2>2
  <1>4. PICK a \in Nat, b \in Nat :
           /\ a = Start(i) /\ a <= b
           /\ received = Content(id, a) /\ data = Units(id, a, b)
    BY <1>2, <1>3, <1>b
  <1>5. /\ new.finalPath = final /\ new.received = Content(id, b) /\ new.receivedChunks = i + 1
        /\ new \in AnyIncoming /\ new # NoShare /\ Len(new.received) = b
    <2>1. /\ new.finalPath = final /\ new.receivedChunks = i + 1
          /\ new.received = received \o data
      BY <1>c
    <2>2. Content(id, a) \o Units(id, a, b) = Content(id, b)
      BY <1>1, <1>4, ContentExtended
    <2>3. Content(id, b) \in Seq(UnitsOf) /\ Len(Content(id, b)) = b
      BY <1>1, ContentTyped
    <2>4. new.received = Content(id, b)
      BY <1>4, <2>1, <2>2
    <2>5. new \in AnyIncoming
      <3>1. new = [finalPath |-> final, received |-> Content(id, b), receivedChunks |-> i + 1]
        BY <1>4, <1>c, <2>2
      <3>2. b \in Nat /\ i + 1 \in Nat
        OBVIOUS
      <3>3. QED
        BY <1>1, <2>3, <3>1, <3>2 DEF AnyIncoming
    <2>6. new # NoShare
      BY <1>1, <2>5, MissingAssumption DEF AnyIncoming, IncomingShare
    <2>7. QED
      BY <2>1, <2>3, <2>4, <2>5, <2>6
  <1>6. PICK file : file = Written(downloads[p][PartOf[final]], a, data)
    OBVIOUS
  <1>7. Len(received) = a
    BY <1>1, <1>4, ContentTyped
  <1>8. file \in Seq(UnitsOf) /\ file # NoFile
    <2>1. data \in Seq(UnitsOf)
      BY <1>1, <1>4, UnitsTyped
    <2>2. file \in Seq(UnitsOf)
      BY <1>1, <1>6, <2>1, WrittenTyped
    <2>3. QED
      BY <2>2, MissingAssumption
  <1>9. downloads' = [downloads EXCEPT ![p][PartOf[final]] = file]
    BY <1>6, <1>7, <1>d
  <1>10. \A q \in Peers, f \in Paths :
            downloads'[q][f] = IF q = p /\ f = PartOf[final] THEN file ELSE downloads[q][f]
    BY <1>9 DEF Base, Types, ReceiveTypes
  <1>11. \A q \in Peers, x \in Shares :
            incomingShares'[q][x] = IF q = p /\ x = id THEN new ELSE incomingShares[q][x]
    BY <1>d DEF Base, Types, ReceiveTypes
  <1>12. /\ \A q \in Peers : Incoming(q)' = Incoming(q)
         /\ \A q \in Peers : \A x \in Incoming(q) :
               /\ x \in Shares /\ incomingShares'[q][x].finalPath = incomingShares[q][x].finalPath
               /\ incomingShares[q][x].finalPath \in FinalPaths
               /\ PartOf[incomingShares[q][x].finalPath] \in Paths
               /\ savedAs[q][x] = incomingShares[q][x].finalPath
    <2>1. \A q \in Peers, x \in Shares : x \in Incoming(q)' <=> x \in Incoming(q)
      BY <1>5, <1>11 DEF Incoming
    <2>2. \A q \in Peers : Incoming(q)' = Incoming(q)
      BY <2>1 DEF Incoming
    <2>3. \A q \in Peers : \A x \in Incoming(q) :
             /\ x \in Shares /\ incomingShares[q][x].finalPath \in FinalPaths
             /\ savedAs[q][x] = incomingShares[q][x].finalPath
      BY DEF Incoming, Base, Types, ReceiveTypes, AnyIncoming, Named
    <2>4. \A q \in Peers : \A x \in Incoming(q) :
             incomingShares'[q][x].finalPath = incomingShares[q][x].finalPath
      BY <1>5, <1>a, <1>11, <2>3
    <2>5. QED
      BY <2>2, <2>3, <2>4, PathsAre
  <1>13. ReceiveTypes' /\ ShownTypes'
    <2>1. incomingShares' \in [Peers -> [Shares -> AnyIncoming \cup {NoShare}]]
      BY <1>5, <1>d DEF Base, Types, ReceiveTypes
    <2>2. downloads' \in [Peers -> [Paths -> Seq(UnitsOf) \cup {NoFile}]]
      BY <1>8, <1>9 DEF Base, Types, ReceiveTypes
    <2>3. QED
      BY <2>1, <2>2 DEF Base, Types, ReceiveTypes, ShownTypes
  <1>14. \A q \in Peers, f \in Paths \ TempPaths : downloads'[q][f] = downloads[q][f]
    BY <1>1, <1>10
  <1>15. Named'
    <2>1. ASSUME NEW q \in Peers, NEW x \in Incoming(q)
          PROVE  /\ savedAs'[q][x] = incomingShares'[q][x].finalPath /\ savedAs'[q][x] \in Own(x)
                 /\ downloads'[q][PartOf[savedAs'[q][x]]] # NoFile
      BY <1>8, <1>10, <1>12 DEF Base, Named
    <2>2. \A x \in Shares : Generated[x] \in Paths \ TempPaths
      BY PathsAre
    <2>3. \A q \in Peers : \A x \in Shares :
             downloads'[q][Generated[x]] # NoFile => savedAs'[q][x] # NoFile
      BY <1>14, <2>2 DEF Base, Named
    <2>4. \A q \in Peers : \A x \in Shares :
             shown'[q][x] = "received" => savedAs'[q][x] \in FinalPaths
      BY DEF Base, Named
    <2>5. QED
      BY <1>12, <2>1, <2>3, <2>4 DEF Named
  <1>16. \A x \in Shares : Announced(x)'
    BY ShownKeeps
  <1>17. ASSUME NEW x \in Shares, NEW k \in Nat, Agrees(x, k), NEW q \in Peers
         PROVE  ReceivedSoFar(q, x, k)'
    <2>1. CASE q = p /\ x = id
      <3>1. PICK l \in Nat, m \in Nat :
               /\ l = Start(i) /\ l < k /\ l <= m /\ m = Lesser(Start(i + 1), k)
               /\ incomingShares[p][id].received = Content(id, l)
               /\ data = Units(id, l, m)
        BY <1>2, <1>17, <2>1
      <3>2. new.received = Content(id, m)
        <4>1. Content(id, l) \o Units(id, l, m) = Content(id, m)
          BY <1>1, <3>1, ContentExtended
        <4>2. QED
          BY <1>b, <1>c, <3>1, <4>1
      <3>3. incomingShares'[q][x] = new /\ (i + 1) - 1 = i
        BY <1>1, <1>11, <2>1
      <3>4. QED
        BY <1>5, <2>1, <3>1, <3>2, <3>3 DEF ReceivedSoFar
    <2>2. CASE ~(q = p /\ x = id)
      BY <1>11, <1>12, <1>17, <2>2 DEF Agrees, ReceivedSoFar
    <2>3. QED
      BY <2>1, <2>2
  <1>18. Base'
    <2>1. \A q \in Peers, x \in Shares : shown'[q][x] = "none" => shown[q][x] = "none"
      OBVIOUS
    <2>2. QED
      BY <1>13, <1>15, <1>16, <1>17, <2>1, ReceivingKeeps
  <1>19. ASSUME Sound PROVE Sound'
    <2>1. Exclusive'
      BY <1>12, <1>19, StillExclusive DEF Sound
    <2>2. ReceivedIntact'
      <3>1. \A q \in Peers :
               /\ \A x \in Shares : shown[q][x] = "received" /\ savedAs'[q][x] = savedAs[q][x] =>
                     IsAnnounced(q, x)'
               /\ \A f \in Existing \ TempPaths : downloads'[q][f] = Old
        BY <1>14, <1>19, FilesStay
      <3>2. QED
        BY <3>1 DEF ReceivedIntact
    <2>3. Unfinished'
      <3>1. \A f \in FinalPaths : f \in Paths \ TempPaths
        BY <1>19, PathsAre DEF Sound, PartsApart
      <3>2. QED
        BY <1>12, <1>14, <1>19, <3>1 DEF Sound, Unfinished
    <2>4. PartIsBeginning'
      <3> SUFFICES ASSUME NEW q \in Peers, NEW x \in Incoming(q)
                   PROVE  downloads'[q][PartOf[incomingShares'[q][x].finalPath]]
                             = Content(x, Len(incomingShares'[q][x].received))
        BY <1>12 DEF PartIsBeginning, Temp
      <3>1. CASE q = p /\ x = id
        <4>1. downloads[p][PartOf[final]] = Content(id, a)
          BY <1>a, <1>7, <1>b, <1>19 DEF Sound, PartFilesAreSound, PartIsBeginning, Temp
        <4>2. file = Content(id, b)
          BY <1>1, <1>4, <1>6, <4>1, WrittenExtends
        <4>3. incomingShares'[q][x] = new /\ downloads'[q][PartOf[final]] = file
          BY <1>1, <1>10, <1>11, <3>1
        <4>4. QED
          BY <1>5, <3>1, <4>2, <4>3
      <3>2. CASE ~(q = p /\ x = id)
        <4>1. x \in Shares /\ incomingShares'[q][x] = incomingShares[q][x]
          BY <1>11, <1>12, <3>2
        <4>2. q = p => PartOf[incomingShares[q][x].finalPath] # PartOf[final]
          BY <1>a, <1>19, <3>2, TransfersApart DEF Temp
        <4>3. downloads'[q][PartOf[incomingShares[q][x].finalPath]]
                 = downloads[q][PartOf[incomingShares[q][x].finalPath]]
          BY <1>10, <1>12, <4>2
        <4>4. QED
          BY <1>19, <4>1, <4>3 DEF Sound, PartFilesAreSound, PartIsBeginning, Temp
      <3>3. QED
        BY <3>1, <3>2
    <2>5. PartFilesAreInUse'
      <3> SUFFICES ASSUME NEW q \in Peers, sessionActive'[q], NEW f \in TempPaths \ Existing,
                          downloads'[q][f] # NoFile
                   PROVE  \E x \in Incoming(q) : PartOf[incomingShares[q][x].finalPath] = f
        BY <1>12 DEF PartFilesAreInUse, Temp
      <3>1. CASE q = p /\ f = PartOf[final]
        BY <1>a, <3>1
      <3>2. CASE ~(q = p /\ f = PartOf[final])
        <4>1. downloads[q][f] # NoFile
          BY <1>10, <3>2 DEF Paths
        <4>2. QED
          BY <1>19, <4>1 DEF Sound, PartFilesAreSound, PartFilesAreInUse, Taken, Temp
      <3>3. QED
        BY <3>1, <3>2
    <2>6. QED
      BY <1>19, <2>1, <2>2, <2>3, <2>4, <2>5 DEF Sound, PartFilesAreSound
  <1>20. QED
    BY <1>18, <1>19

\* onShareDoneReceived, when the first n units of the file get its name.
Renamed(p, id, n) ==
    LET file == downloads[p][Temp(p, id)]
    IN  /\ downloads' = [downloads EXCEPT
              ![p][incomingShares[p][id].finalPath] = SubSeq(file, 1, n),
              ![p][Temp(p, id)] = NoFile]
        /\ cutShort' = IF n < Len(file) THEN cutShort \cup {<<p, id>>} ELSE cutShort

\* The file gets its name: it is whole, or was cut short, and nothing had that name.
LEMMA DoneKeeps ==
    ASSUME Base, NEW p \in Peers, Taken, UNCHANGED savedAs, NEW id \in Incoming(p),
           ~Held(p, Temp(p, id), id), ~Held(p, incomingShares[p][id].finalPath, id),
           Len(incomingShares[p][id].received) = Size[id],
           NEW n \in 0 .. Len(downloads[p][Temp(p, id)]),
           Erase(p, id), Show(p, id, "received"), Renamed(p, id, n)
    PROVE  Base' /\ (Sound => Sound')
  <1>0. PICK final, temp :
           final = incomingShares[p][id].finalPath /\ temp = PartOf[final] /\ temp = Temp(p, id)
    BY DEF Temp
  <1>1. /\ id \in Shares /\ final \in FinalPaths /\ savedAs[p][id] = final /\ final \in Own(id)
        /\ incomingShares' \in [Peers -> [Shares -> AnyIncoming \cup {NoShare}]]
        /\ \A q \in Peers : \A x \in Incoming(q)' :
              /\ x \in Shares /\ x \in Incoming(q) /\ ~(q = p /\ x = id)
              /\ incomingShares'[q][x] = incomingShares[q][x]
              /\ incomingShares[q][x].finalPath \in FinalPaths
              /\ savedAs[q][x] = incomingShares[q][x].finalPath /\ savedAs[q][x] \in Own(x)
        /\ \A q \in Peers : \A x \in Incoming(q) :
              x \in Incoming(q)' \/ (q = p /\ x = id)
    BY <1>0, Erased
  <1>2. \A q \in Peers, x \in Shares :
           shown'[q][x] = IF q = p /\ x = id THEN "received" ELSE shown[q][x]
    BY <1>1 DEF Show, Base, Types, ShownTypes
  <1>3. /\ final \in Paths /\ temp \in Paths /\ temp \in TempPaths
        /\ downloads[p][temp] \in Seq(UnitsOf)
    <2>1. final \in Paths /\ temp \in Paths /\ temp \in TempPaths
      <3>1. final \in FinalPaths /\ temp = PartOf[final]
        BY <1>0, <1>1
      <3>2. QED
        BY <3>1, PathsAre
    <2>2. downloads[p][temp] # NoFile
      <3>1. savedAs[p][id] = final /\ temp = PartOf[final]
        BY <1>0, <1>1
      <3>2. downloads[p][PartOf[savedAs[p][id]]] # NoFile
        BY DEF Base, Named
      <3>3. QED
        BY <3>1, <3>2
    <2>3. downloads[p][temp] \in Seq(UnitsOf) \cup {NoFile}
      BY <2>1 DEF Base, Types, ReceiveTypes
    <2>4. QED
      BY <2>1, <2>2, <2>3
  <1>4. PICK file \in Seq(UnitsOf) : file = SubSeq(downloads[p][temp], 1, n)
    <2>1. SubSeq(downloads[p][temp], 1, n) \in Seq(UnitsOf)
      BY <1>0, <1>3, SubSeqProperties
    <2>2. QED
      BY <2>1
  <1>5. /\ downloads' = [downloads EXCEPT ![p][final] = file, ![p][temp] = NoFile]
        /\ cutShort \subseteq cutShort' /\ cutShort' \subseteq cutShort \cup {<<p, id>>}
        /\ n < Len(downloads[p][temp]) => <<p, id>> \in cutShort'
    BY <1>0, <1>4 DEF Renamed
  <1>6. \A q \in Peers, f \in Paths :
           downloads'[q][f] = IF q = p /\ f = temp THEN NoFile
                              ELSE IF q = p /\ f = final THEN file
                              ELSE downloads[q][f]
    BY <1>3, <1>5 DEF Base, Types, ReceiveTypes
  <1>7. \A q \in Peers : \A x \in Incoming(q)' :
           /\ PartOf[incomingShares[q][x].finalPath] \in Paths
           /\ downloads'[q][PartOf[incomingShares[q][x].finalPath]]
                 = downloads[q][PartOf[incomingShares[q][x].finalPath]]
    <2> SUFFICES ASSUME NEW q \in Peers, NEW x \in Incoming(q)'
                 PROVE  /\ PartOf[incomingShares[q][x].finalPath] \in Paths
                        /\ downloads'[q][PartOf[incomingShares[q][x].finalPath]]
                              = downloads[q][PartOf[incomingShares[q][x].finalPath]]
      OBVIOUS
    <2>1. q = p => /\ PartOf[incomingShares[q][x].finalPath] # temp
                   /\ PartOf[incomingShares[q][x].finalPath] # final
      BY <1>0, <1>1 DEF Held, Temp
    <2>2. PartOf[incomingShares[q][x].finalPath] \in Paths
      BY <1>1, PathsAre
    <2>3. QED
      BY <1>6, <2>1, <2>2
  <1>8. ReceiveTypes' /\ ShownTypes'
    <2>1. downloads' \in [Peers -> [Paths -> Seq(UnitsOf) \cup {NoFile}]]
      BY <1>4, <1>5 DEF Base, Types, ReceiveTypes
    <2>2. ShownTypes'
      BY DEF Show, Base, Types, ShownTypes, Statuses
    <2>3. savedAs' \in [Peers -> [Shares -> FinalPaths \cup {NoFile}]]
      BY DEF Base, Types, ReceiveTypes
    <2>4. cutShort' \subseteq Peers \X Shares
      BY <1>1, <1>5 DEF Base, Types, ReceiveTypes
    <2>5. QED
      BY <1>1, <2>1, <2>2, <2>3, <2>4 DEF ReceiveTypes
  <1>9. Named'
    <2>1. \A q \in Peers : \A x \in Incoming(q)' :
             /\ savedAs'[q][x] = incomingShares'[q][x].finalPath /\ savedAs'[q][x] \in Own(x)
             /\ downloads'[q][PartOf[savedAs'[q][x]]] # NoFile
      BY <1>1, <1>7 DEF Base, Named
    <2>2. ASSUME NEW q \in Peers, NEW x \in Shares, downloads'[q][Generated[x]] # NoFile
          PROVE  savedAs'[q][x] # NoFile
      <3>1. CASE q = p /\ final = Generated[x]
        <4>1. x = id
          BY <1>1, <3>1, GeneratedIsOwn
        <4>2. QED
          BY <1>1, <3>1, <4>1, MissingAssumption
      <3>2. CASE ~(q = p /\ final = Generated[x])
        <4>1. downloads[q][Generated[x]] # NoFile
          BY <1>6, <2>2, <3>2, PathsAre
        <4>2. QED
          BY <4>1 DEF Base, Named
      <3>3. QED
        BY <3>1, <3>2
    <2>3. \A q \in Peers : \A x \in Shares :
             shown'[q][x] = "received" => savedAs'[q][x] \in FinalPaths
      BY <1>1, <1>2 DEF Base, Named
    <2>4. QED
      BY <2>1, <2>2, <2>3 DEF Named
  <1>10. \A q \in Peers, x \in Shares : shown'[q][x] = "none" => shown[q][x] = "none"
    BY <1>2
  <1>11. \A x \in Shares : Announced(x)'
    BY <1>10, ShownKeeps
  <1>12. \A x \in Shares, k \in Nat : Agrees(x, k) => \A q \in Peers : ReceivedSoFar(q, x, k)'
    BY <1>1 DEF Agrees, ReceivedSoFar
  <1>13. Base'
    BY <1>8, <1>9, <1>10, <1>11, <1>12, ReceivingKeeps
  <1>14. ASSUME Sound PROVE Sound'
    <2>1. Exclusive'
      BY <1>1, <1>14, StillExclusive DEF Sound
    <2>2. /\ downloads[p][final] = NoFile /\ final # temp
          /\ \A f \in FinalPaths : f \in Paths \ TempPaths
      <3>1. downloads[p][final] = NoFile
        BY <1>0, <1>14 DEF Sound, Unfinished
      <3>2. \A f \in FinalPaths : f \in Paths \ TempPaths
        BY <1>14, PathsAre DEF Sound, PartsApart
      <3>3. final \in FinalPaths
        BY <1>1
      <3>4. QED
        BY <1>3, <3>1, <3>2, <3>3
    <2>3. ReceivedIntact'
      <3>1. \A q \in Peers, f \in Paths \ TempPaths : downloads[q][f] # NoFile =>
               downloads'[q][f] = downloads[q][f]
        BY <1>3, <1>6, <2>2
      <3>2. \A q \in Peers :
               /\ \A x \in Shares : shown[q][x] = "received" /\ savedAs'[q][x] = savedAs[q][x] =>
                     IsAnnounced(q, x)'
               /\ \A f \in Existing \ TempPaths : downloads'[q][f] = Old
        BY <1>5, <1>14, <3>1, FilesStay
      <3>3. IsAnnounced(p, id)'
        <4>1. PICK z \in Nat : z = Size[id]
          BY <1>1, SharesAssumption
        <4>2. downloads[p][temp] = Content(id, z)
          BY <1>0, <1>14, <4>1 DEF Sound, PartFilesAreSound, PartIsBeginning
        <4>3. n \in 0 .. z /\ Len(downloads[p][temp]) = z
          BY <1>0, <1>1, <4>1, <4>2, ContentTyped
        <4>4. file = Content(id, n)
          BY <1>1, <1>4, <4>2, <4>3, ContentCut
        <4>5. downloads'[p][savedAs'[p][id]] = Content(id, n)
          BY <1>1, <1>6, <2>2, <4>4
        <4>6. n = z \/ <<p, id>> \in cutShort'
          BY <1>5, <4>3
        <4>7. QED
          BY <4>1, <4>3, <4>5, <4>6 DEF IsAnnounced
      <3>4. \A q \in Peers, x \in Shares : shown'[q][x] = "received" =>
               shown[q][x] = "received" \/ (q = p /\ x = id)
        BY <1>2
      <3>5. QED
        BY <3>2, <3>3, <3>4 DEF ReceivedIntact
    <2>4. PartIsBeginning'
      BY <1>1, <1>7, <1>14 DEF Sound, PartFilesAreSound, PartIsBeginning, Temp
    <2>5. Unfinished'
      <3> SUFFICES ASSUME NEW q \in Peers, NEW x \in Incoming(q)'
                   PROVE  downloads'[q][incomingShares[q][x].finalPath] = NoFile
        BY <1>1 DEF Unfinished
      <3>1. x \in Incoming(q) /\ ~(q = p /\ x = id)
        BY <1>1
      <3>2. q = p => incomingShares[q][x].finalPath # final
        BY <1>0, <1>14, <3>1, TransfersApart
      <3>3. downloads[q][incomingShares[q][x].finalPath] = NoFile
        BY <1>14, <3>1 DEF Sound, Unfinished
      <3>4. QED
        BY <1>1, <1>6, <2>2, <3>2, <3>3
    <2>6. PartFilesAreInUse'
      <3> SUFFICES ASSUME NEW q \in Peers, sessionActive'[q], NEW f \in TempPaths \ Existing,
                          downloads'[q][f] # NoFile
                   PROVE  \E x \in Incoming(q)' : PartOf[incomingShares'[q][x].finalPath] = f
        BY DEF PartFilesAreInUse, Temp
      <3>1. ~(q = p /\ f = temp) /\ downloads[q][f] # NoFile
        BY <1>1, <1>6, <2>2 DEF Paths
      <3>2. PICK x \in Incoming(q) : PartOf[incomingShares[q][x].finalPath] = f
        BY <1>14, <3>1 DEF Sound, PartFilesAreSound, PartFilesAreInUse, Taken, Temp
      <3>3. x \in Incoming(q)'
        BY <1>0, <1>1, <3>1, <3>2
      <3>4. QED
        BY <1>1, <3>2, <3>3
    <2>7. QED
      BY <1>14, <2>1, <2>3, <2>4, <2>5, <2>6 DEF Sound, PartFilesAreSound
  <1>15. QED
    BY <1>13, <1>14

----------------------------------------------------------------------------
(* The callbacks of an instance, and the theorems.                         *)

\* What a callback about the connection does, or one that is ignored.
LEMMA QuietEventKeeps ==
    ASSUME Base, NEW p \in Peers, NEW s \in Sockets, HeadTaken(p, s), NetStep(Plain),
           UNCHANGED <<wire, server, socket, sessionActive, sending, length, receiving, shown>>,
           joined' \in [Peers -> BOOLEAN], reconnectPending' \in [Peers -> BOOLEAN],
           \A q \in Peers : reconnectPending'[q] =>
              reconnectPending[q] \/ wire[socket[q]] = "down"
    PROVE  Base' /\ (Sound => Sound')
  <1>1. Types'
    BY DEF Base, Types, NetStep, ServerOK, ServerTypeOK, ClientTypes, SendTypes, ReceiveTypes,
           ShownTypes, server, sending, receiving
  <1>2. \A x \in Sockets : Closed \in Frames(down'[x]) => Closed \in Frames(down[x])
    BY EventTaken
  <1>3. Connections'
    BY <1>2, WiresStay, ConnectionsKept DEF Base
  <1>4. Queues' /\ InOrder' /\ Named' /\ (Sound => Sound')
    BY QuietKeeps, PlainIsOther DEF sending
  <1>5. AnnouncedOnce'
    BY StillAnnounced, PlainIsOther DEF Base, sending, receiving
  <1>6. QED
    BY <1>1, <1>3, <1>4, <1>5 DEF Base

\* The head of a stream of callbacks, with what every handler leaves alone.
Handled(p, s) ==
    HeadTaken(p, s) /\ UNCHANGED <<wire, server, sessionActive, sending, length>>

\* A callback that sends nothing.
LEMMA StreamAdvances ==
    ASSUME Base, NEW p \in Peers, NEW s \in Sockets, Handled(p, s), UNCHANGED up
    PROVE  NetStep({}) /\ NetStep(Plain)
  <1>1. /\ down' \in [Sockets -> Seq(Frame)]
        /\ \A x \in Sockets : Derived(down'[x], down[x], {})
    BY EventTaken DEF Handled
  <1>2. NetStep({})
    BY <1>1, SameDerived DEF NetStep, Base, Types, Streams
  <1>3. QED
    BY <1>2, DerivedWeakens DEF NetStep

\* A callback of the transfers takes its frame off the stream.
LEMMA HandlerTakes ==
    ASSUME Base, NEW p \in Peers, NEW s \in Sockets, Handled(p, s), UNCHANGED <<up, client>>
    PROVE  Taken
  <1>1. NetStep({})
    BY StreamAdvances
  <1>2. \A x \in Sockets : Closed \in Frames(down'[x]) => Closed \in Frames(down[x])
    BY EventTaken DEF Handled
  <1>3. QED
    BY <1>1, <1>2 DEF Taken, Handled

\* A callback that changes nothing.
LEMMA IgnoredKeeps ==
    ASSUME Base, NEW p \in Peers, NEW s \in Sockets, Handled(p, s),
           UNCHANGED <<up, client, receiving, shown>>
    PROVE  Base' /\ (Sound => Sound')
  <1>1. NetStep(Plain)
    BY StreamAdvances
  <1>2. joined' \in [Peers -> BOOLEAN] /\ reconnectPending' \in [Peers -> BOOLEAN]
    BY DEF client, Base, Types, ClientTypes
  <1>3. QED
    BY <1>1, <1>2, QuietEventKeeps DEF Handled, client

\* onShareMetaReceived
LEMMA OnShareMetaKeeps ==
    ASSUME Base, NEW p \in Peers, NEW s \in Sockets, Handled(p, s), OnShareMeta(p)
    PROVE  Base' /\ (Sound => Sound')
  <1>1. s = socket[p] /\ Head(down[s]) \in Frame
    BY EventTaken DEF Handled, HeadTaken
  <1>2. PICK id \in Shares : id = Head(down[s]).id /\ Head(down[s]) = ShareMeta(id)
    BY <1>1, FramesRead DEF OnShareMeta
  <1>3. UNCHANGED <<up, client>>
    BY DEF OnShareMeta
  <1>4. CASE UNCHANGED <<receiving, shown>>
    BY <1>3, <1>4, IgnoredKeeps
  <1>5. CASE ~UNCHANGED <<receiving, shown>>
    <2>1. PICK final : final = SharePath(p, id)
      OBVIOUS
    <2>2. /\ id \notin Incoming(p)
          /\ incomingShares' = [incomingShares EXCEPT
                ![p][id] = [finalPath |-> final, received |-> <<>>, receivedChunks |-> 0]]
          /\ downloads' = [downloads EXCEPT ![p][PartOf[final]] = <<>>]
          /\ savedAs' = [savedAs EXCEPT ![p][id] = final]
          /\ Show(p, id, "receiving") /\ UNCHANGED cutShort
      BY <1>1, <1>2, <1>5, <2>1 DEF OnShareMeta
    <2>3. HeadTaken(p, s) /\ UNCHANGED up
      BY <1>3 DEF Handled
    <2>4. Taken
      BY <1>3, HandlerTakes
    <2>5. QED
      BY <1>2, <2>1, <2>2, <2>3, <2>4, MetaKeeps
  <1>6. QED
    BY <1>4, <1>5

\* Both fields of a transfer, in one record.
LEMMA FieldsTogether ==
    ASSUME NEW share \in AnyIncoming, NEW data
    PROVE  [[share EXCEPT !.received = share.received \o data]
               EXCEPT !.receivedChunks = share.receivedChunks + 1]
              = [finalPath |-> share.finalPath, received |-> share.received \o data,
                 receivedChunks |-> share.receivedChunks + 1]
  <1>1. PICK r : r = share.received \o data
    OBVIOUS
  <1>2. PICK k : k = share.receivedChunks + 1
    OBVIOUS
  <1>3. [[share EXCEPT !.received = r] EXCEPT !.receivedChunks = k]
           = [finalPath |-> share.finalPath, received |-> r, receivedChunks |-> k]
    <2>1. PICK a \in FinalPaths, b \in Seq(UnitsOf), c \in Nat :
             share = [finalPath |-> a, received |-> b, receivedChunks |-> c]
      BY DEF AnyIncoming
    <2>2. PICK t : t = [share EXCEPT !.received = r]
      OBVIOUS
    <2>3. t = [finalPath |-> a, received |-> r, receivedChunks |-> c]
      BY <2>1, <2>2
    <2>4. [t EXCEPT !.receivedChunks = k] = [finalPath |-> a, received |-> r, receivedChunks |-> k]
      BY <2>3
    <2>5. share.finalPath = a
      BY <2>1
    <2>6. QED
      BY <2>2, <2>4, <2>5
  <1>4. QED
    BY <1>1, <1>2, <1>3

\* Both fields of a transfer change at once.
Advances(p, id, data) ==
    incomingShares' = [incomingShares EXCEPT
       ![p][id].received = @ \o data, ![p][id].receivedChunks = @ + 1]

\* It is one change of the whole record.
LEMMA TransferAdvances ==
    ASSUME Base, NEW p \in Peers, NEW id \in Shares, incomingShares[p][id] \in AnyIncoming,
           NEW data, Advances(p, id, data)
    PROVE  incomingShares' = [incomingShares EXCEPT
              ![p][id] = [finalPath |-> incomingShares[p][id].finalPath,
                          received |-> incomingShares[p][id].received \o data,
                          receivedChunks |-> incomingShares[p][id].receivedChunks + 1]]
  <1>0. PICK share : share = incomingShares[p][id]
    OBVIOUS
  <1>1. PICK new : new = [finalPath |-> share.finalPath, received |-> share.received \o data,
                          receivedChunks |-> share.receivedChunks + 1]
    OBVIOUS
  <1>2. PICK r : r = share.received \o data
    OBVIOUS
  <1>3. PICK k : k = share.receivedChunks + 1
    OBVIOUS
  <1>4. [[share EXCEPT !.received = r] EXCEPT !.receivedChunks = k] = new
    BY <1>0, <1>1, <1>2, <1>3, FieldsTogether
  <1>5. PICK between : between = [incomingShares EXCEPT ![p][id].received = r]
    OBVIOUS
  <1>6. /\ between = [incomingShares EXCEPT ![p][id] = [share EXCEPT !.received = r]]
        /\ between[p][id] = [share EXCEPT !.received = r]
    BY <1>0, <1>5 DEF Base, Types, ReceiveTypes
  <1>7. between[p][id].receivedChunks = share.receivedChunks
    BY <1>0, <1>6 DEF AnyIncoming
  <1>8. incomingShares' = [between EXCEPT ![p][id].receivedChunks = k]
    <2>1. incomingShares' = [between EXCEPT ![p][id].receivedChunks = @ + 1]
      BY <1>0, <1>2, <1>5 DEF Advances
    <2>2. QED
      BY <1>3, <1>7, <2>1
  <1>9. incomingShares' = [incomingShares EXCEPT ![p][id] = new]
    <2>1. PICK half : half = [share EXCEPT !.received = r]
      OBVIOUS
    <2>2. PICK all : all = incomingShares[p]
      OBVIOUS
    <2>3. between = [incomingShares EXCEPT ![p] = [all EXCEPT ![id] = half]]
      BY <1>6, <2>1, <2>2
    <2>4. between[p] = [all EXCEPT ![id] = half] /\ between[p][id] = half
      BY <2>2, <2>3 DEF Base, Types, ReceiveTypes
    <2>5. incomingShares' = [between EXCEPT
             ![p] = [between[p] EXCEPT ![id] = [half EXCEPT !.receivedChunks = k]]]
      BY <1>8, <2>4
    <2>6. [half EXCEPT !.receivedChunks = k] = new
      BY <1>4, <2>1
    <2>7. [[all EXCEPT ![id] = half] EXCEPT ![id] = new] = [all EXCEPT ![id] = new]
      BY <2>2 DEF Base, Types, ReceiveTypes
    <2>8. incomingShares' = [between EXCEPT ![p] = [all EXCEPT ![id] = new]]
      BY <2>4, <2>5, <2>6, <2>7
    <2>9. incomingShares' = [incomingShares EXCEPT ![p] = [all EXCEPT ![id] = new]]
      BY <2>3, <2>8 DEF Base, Types, ReceiveTypes
    <2>10. QED
      BY <2>2, <2>9
  <1>10. QED
    BY <1>0, <1>1, <1>9

\* onShareChunkReceived
LEMMA OnShareChunkKeeps ==
    ASSUME Base, NEW p \in Peers, NEW s \in Sockets, Handled(p, s), OnShareChunk(p)
    PROVE  Base' /\ (Sound => Sound')
  <1>1. s = socket[p] /\ Head(down[s]) \in Frame /\ Head(down[s]).type = "share_chunk"
    BY EventTaken DEF Handled, HeadTaken, OnShareChunk
  <1>2. PICK id \in Shares, i \in Nat, data \in Seq(UnitsOf) :
           /\ id = Head(down[s]).id /\ i = Head(down[s]).index /\ data = Head(down[s]).data
           /\ Head(down[s]) = ShareChunk(id, i, data)
    <2>1. PICK f \in Frame : f = Head(down[s])
      BY <1>1
    <2>2. f \in [type : {"share_chunk"}, id : Shares, index : Nat, data : Seq(UnitsOf)]
      BY <1>1, <2>1 DEF Frame, Accepted, Opened, Closed
    <2>3. f = ShareChunk(f.id, f.index, f.data)
      BY <2>2 DEF ShareChunk
    <2>4. QED
      BY <2>1, <2>2, <2>3
  <1>3. UNCHANGED <<up, client, savedAs>> /\ Taken
    BY HandlerTakes DEF OnShareChunk
  <1>4. CASE UNCHANGED <<incomingShares, downloads, cutShort, shown>>
    BY <1>3, <1>4, IgnoredKeeps DEF receiving
  <1>5. CASE id \in Incoming(p) /\ FailIncomingShare(p, id)
    BY <1>3, <1>5, FailKeeps
  <1>6. PICK share : share = incomingShares[p][id]
    OBVIOUS
  <1>7. ASSUME id \in Incoming(p), Acceptable(id, share, i, data),
               incomingShares' = [incomingShares EXCEPT
                  ![p][id].received = @ \o data, ![p][id].receivedChunks = @ + 1],
               downloads' = [downloads EXCEPT
                  ![p][Temp(p, id)] = Written(@, Len(share.received), data)],
               UNCHANGED <<cutShort, shown>>
        PROVE  Base' /\ (Sound => Sound')
    <2>1. share \in AnyIncoming
      BY <1>6, <1>7 DEF Base, Types, ReceiveTypes, Incoming
    <2>2. PICK new : new = [finalPath |-> share.finalPath, received |-> share.received \o data,
                            receivedChunks |-> share.receivedChunks + 1]
      OBVIOUS
    <2>3. incomingShares' = [incomingShares EXCEPT ![p][id] = new]
      <3>1. Advances(p, id, data) /\ incomingShares[p][id] \in AnyIncoming
        BY <1>6, <1>7, <2>1 DEF Advances
      <3>2. incomingShares' = [incomingShares EXCEPT
               ![p][id] = [finalPath |-> incomingShares[p][id].finalPath,
                           received |-> incomingShares[p][id].received \o data,
                           receivedChunks |-> incomingShares[p][id].receivedChunks + 1]]
        BY <3>1, TransferAdvances
      <3>3. QED
        BY <1>6, <2>2, <3>2
    <2>4. ChunkTaken(p, id, i, data)
      BY <1>6, <1>7, <2>2, <2>3 DEF ChunkTaken, Acceptable
    <2>5. HeadTaken(p, s) /\ UNCHANGED <<savedAs, cutShort, shown>>
      BY <1>3, <1>7 DEF Handled
    <2>6. QED
      BY <1>2, <1>3, <1>7, <2>4, <2>5, ChunkKeeps
  <1>8. QED
    BY <1>1, <1>2, <1>4, <1>5, <1>6, <1>7 DEF OnShareChunk

\* onShareDoneReceived
LEMMA OnShareDoneKeeps ==
    ASSUME Base, NEW p \in Peers, NEW s \in Sockets, Handled(p, s), OnShareDone(p)
    PROVE  Base' /\ (Sound => Sound')
  <1>1. s = socket[p] /\ Head(down[s]) \in Frame /\ Head(down[s]).type = "share_done"
    BY EventTaken DEF Handled, HeadTaken, OnShareDone
  <1>2. PICK id \in Shares : id = Head(down[s]).id
    BY <1>1, FramesRead
  <1>3. UNCHANGED <<up, client, savedAs>> /\ Taken
    BY HandlerTakes DEF OnShareDone
  <1>4. CASE UNCHANGED <<incomingShares, downloads, cutShort, shown>>
    BY <1>3, <1>4, IgnoredKeeps DEF receiving
  <1>5. CASE id \in Incoming(p) /\ FailIncomingShare(p, id)
    BY <1>3, <1>5, FailKeeps
  <1>6. CASE id \in Incoming(p) /\ GiveUp(p, id, {Temp(p, id), incomingShares[p][id].finalPath})
    BY <1>3, <1>6, GiveUpKeeps
  <1>7. ASSUME id \in Incoming(p), ~Held(p, Temp(p, id), id),
               ~Held(p, incomingShares[p][id].finalPath, id),
               Len(incomingShares[p][id].received) = Size[id],
               NEW n \in 0 .. Len(downloads[p][Temp(p, id)]),
               Erase(p, id), Show(p, id, "received"), Renamed(p, id, n)
        PROVE  Base' /\ (Sound => Sound')
    BY <1>3, <1>7, DoneKeeps
  <1>8. QED
    BY <1>1, <1>2, <1>4, <1>5, <1>6, <1>7 DEF OnShareDone, Complete, Renamed

\* onConnected
LEMMA OnConnectedKeeps ==
    ASSUME Base, NEW p \in Peers, NEW s \in Sockets, Handled(p, s), OnConnected(p)
    PROVE  Base' /\ (Sound => Sound')
  <1>1. s = socket[p]
    BY DEF Handled, HeadTaken
  <1>2. UNCHANGED <<socket, reconnectPending, receiving, shown>>
    BY DEF OnConnected
  <1>3. CASE UNCHANGED <<joined, up>>
    BY <1>2, <1>3, IgnoredKeeps DEF client
  <1>4. ASSUME joined' = [joined EXCEPT ![p] = TRUE], SendFrames(p, <<JoinFrame(p)>>)
        PROVE  Base' /\ (Sound => Sound')
    <2>1. PICK j \in Plain : j = JoinFrame(p) /\ j \in Frame
      BY FramesBuilt DEF Plain
    <2>2. <<j>> \in Seq(Frame) /\ Frames(<<j>>) \subseteq Plain
      BY <2>1 DEF Frames
    <2>3. up' = [up EXCEPT ![s] = up[s] \o <<j>>]
      BY <1>1, <1>4, <2>1 DEF SendFrames
    <2>4. up[s] \in Seq(Frame)
      BY DEF Base, Types, Streams
    <2>5. Derived(up[s] \o <<j>>, up[s], Plain)
      BY <2>2, <2>4, ConcatDerived, DerivedWeakens
    <2>6. \A x \in Sockets : Derived(up'[x], up[x], Plain)
      BY <2>3, <2>5, SameDerived DEF Base, Types, Streams
    <2>7. up' \in [Sockets -> Seq(Frame)]
      BY <2>3, <2>5 DEF Base, Types, Streams, Derived
    <2>8. /\ down' \in [Sockets -> Seq(Frame)]
          /\ \A x \in Sockets : Derived(down'[x], down[x], {})
      BY EventTaken DEF Handled
    <2>9. NetStep(Plain)
      BY <2>6, <2>7, <2>8, DerivedWeakens DEF NetStep, Streams
    <2>10. joined' \in [Peers -> BOOLEAN] /\ reconnectPending' \in [Peers -> BOOLEAN]
      BY <1>2, <1>4 DEF Base, Types, ClientTypes
    <2>11. QED
      BY <1>2, <2>9, <2>10, QuietEventKeeps DEF Handled
  <1>5. QED
    BY <1>3, <1>4 DEF OnConnected

\* onDisconnected
LEMMA OnDisconnectedKeeps ==
    ASSUME Base, NEW p \in Peers, NEW s \in Sockets, Handled(p, s), OnDisconnected(p)
    PROVE  Base' /\ (Sound => Sound')
  <1>1. s = socket[p] /\ Head(down[s]) \in Frame /\ Head(down[s]) \in Frames(down[s])
    BY EventTaken DEF Handled, HeadTaken
  <1>2. /\ Head(down[s]).type = "closed" /\ joined' = [joined EXCEPT ![p] = FALSE]
        /\ reconnectPending' = [reconnectPending EXCEPT ![p] = sessionActive[p]]
        /\ UNCHANGED <<up, socket, receiving, shown>>
    BY <1>1 DEF OnDisconnected
  <1>3. Head(down[s]) = Closed
    <2>1. PICK f \in Frame : f = Head(down[s]) /\ f.type = "closed"
      BY <1>1, <1>2
    <2>2. f = Closed
      BY <2>1 DEF Frame, Accepted, Opened, Closed
    <2>3. QED
      BY <2>1, <2>2
  <1>4. wire[socket[p]] = "down"
    BY <1>1, <1>3 DEF Base, Connections
  <1>5. /\ joined' \in [Peers -> BOOLEAN] /\ reconnectPending' \in [Peers -> BOOLEAN]
        /\ \A q \in Peers : reconnectPending'[q] =>
              reconnectPending[q] \/ wire[socket[q]] = "down"
    BY <1>2, <1>4 DEF Base, Types, ClientTypes
  <1>6. NetStep(Plain)
    BY <1>2, StreamAdvances
  <1>7. QED
    BY <1>2, <1>5, <1>6, QuietEventKeeps DEF Handled

\* Whatever callback is next.
LEMMA HandleKeeps ==
    ASSUME Base, NEW p \in Peers, HandleEvent(p)
    PROVE  Base' /\ (Sound => Sound')
  <1>1. PICK s \in Sockets : s = socket[p]
    BY DEF Base, Types, ClientTypes
  <1>2. Handled(p, s)
    BY <1>1 DEF Handled, HeadTaken, HandleEvent
  <1>3. CASE OnShareMeta(p)
    BY <1>2, <1>3, OnShareMetaKeeps
  <1>4. CASE OnShareChunk(p)
    BY <1>2, <1>4, OnShareChunkKeeps
  <1>5. CASE OnShareDone(p)
    BY <1>2, <1>5, OnShareDoneKeeps
  <1>6. CASE OnConnected(p)
    BY <1>2, <1>6, OnConnectedKeeps
  <1>7. CASE OnDisconnected(p)
    BY <1>2, <1>7, OnDisconnectedKeeps
  <1>8. CASE OnPeerUpdate(p)
    BY <1>2, <1>8, IgnoredKeeps DEF OnPeerUpdate
  <1>9. QED
    BY <1>3, <1>4, <1>5, <1>6, <1>7, <1>8 DEF HandleEvent

\* Nothing happens.
LEMMA Stutter ==
    ASSUME Base, UNCHANGED vars
    PROVE  Base' /\ (Sound => Sound')
  <1>1. NetStep({})
    BY NothingSent DEF Base, Types, vars, net
  <1>2. Types'
    BY DEF Base, Types, ServerOK, ServerTypeOK, Streams, ClientTypes, SendTypes, ReceiveTypes,
           ShownTypes, vars, net, server, client, sending, receiving
  <1>3. Connections' /\ AnnouncedOnce'
    BY DEF Base, Connections, AnnouncedOnce, Announced, vars, net, client, sending, receiving
  <1>4. Queues' /\ InOrder' /\ Named' /\ (Sound => Sound')
    BY <1>1, QuietKeeps DEF vars, sending
  <1>5. QED
    BY <1>2, <1>3, <1>4 DEF Base

\* Every step keeps both halves of the invariant.
LEMMA StepKeeps ==
    ASSUME Base, [Next]_vars
    PROVE  Base' /\ (NamesApart /\ Sound => Sound')
  <1>1. ASSUME NEW id \in Shares, SendSharedFile(id)
        PROVE  Base' /\ (NamesApart /\ Sound => Sound')
    BY <1>1, SharedFileKeeps
  <1>2. ASSUME NEW id \in Shares, ChangeFile(id) PROVE Base' /\ (Sound => Sound')
    BY <1>2, ChangeFileKeeps
  <1>3. ASSUME NEW p \in Peers, ShareSendTick(p) PROVE Base' /\ (Sound => Sound')
    BY <1>3, TickKeeps
  <1>4. ASSUME NEW p \in Peers, HandleEvent(p) PROVE Base' /\ (Sound => Sound')
    BY <1>4, HandleKeeps
  <1>5. ASSUME NEW p \in Peers, Reconnect(p) PROVE Base' /\ (Sound => Sound')
    BY <1>5, ReconnectKeeps
  <1>6. ASSUME NEW g \in Guests, LeaveSession(g) PROVE Base' /\ (Sound => Sound')
    BY <1>6, LeaveKeeps
  <1>7. ASSUME NEW s \in Sockets, ServerStep(s) PROVE Base' /\ (Sound => Sound')
    BY <1>7, ServerKeeps
  <1>8. ASSUME NEW s \in Sockets, Open(s) PROVE Base' /\ (Sound => Sound')
    BY <1>8, OpenKeeps
  <1>9. ASSUME NEW s \in Sockets, Drop(s) PROVE Base' /\ (Sound => Sound')
    BY <1>9, DropKeeps
  <1>10. CASE UNCHANGED vars
    BY <1>10, Stutter
  <1>11. QED
    BY <1>1, <1>2, <1>3, <1>4, <1>5, <1>6, <1>7, <1>8, <1>9, <1>10 DEF Next

\* Both hold at the start.
LEMMA Initially == Init => Base /\ (PartsApart => Sound)
  <1> SUFFICES ASSUME Init PROVE Base /\ (PartsApart => Sound)
    OBVIOUS
  <1>1. Frames(<<>>) = {} /\ \A m : Once(<<>>, m)
    BY DEF Frames, Once
  <1>2. /\ \A s \in Sockets : up[s] = <<>> /\ down[s] = <<>>
        /\ \A s \in Sockets : wire[s] = IF s[2] = 1 THEN "up" ELSE "idle"
        /\ \A p \in Peers : socket[p] = First(p) /\ ~reconnectPending[p]
        /\ \A p \in Peers : outgoingQueue[p] = <<>>
        /\ \A id \in Shares : outgoingShares[id] = NoShare
        /\ \A p \in Peers : \A id \in Shares : incomingShares[p][id] = NoShare
        /\ \A p \in Peers : \A f \in Paths :
              downloads[p][f] = IF f \in Existing THEN Old ELSE NoFile
        /\ \A p \in Peers : \A id \in Shares : shown[p][id] = "none" /\ savedAs[p][id] = NoFile
    BY DEF Init
  <1>3. \A p \in Peers : Incoming(p) = {}
    BY <1>2 DEF Incoming
  <1>4. Types
    <2>1. First(Host) \in Sockets /\ \A g \in Guests : First(g) \in Sockets
      BY SocketsAre DEF Peers
    <2>2. ServerTypeOK
      BY <2>1, SharesAssumption DEF Init, ServerTypeOK, PeerInfo, Absent
    <2>3. ServerOK
      BY <2>2 DEF ServerOK, Init, WireStates
    <2>4. Streams
      BY DEF Streams, Init
    <2>5. ClientTypes
      BY SocketsAre DEF ClientTypes, Init
    <2>6. SendTypes
      BY SharesAssumption DEF SendTypes, Init
    <2>7. Old \in Seq(UnitsOf)
      BY DEF Old, UnitsOf
    <2>8. ReceiveTypes /\ ShownTypes
      BY <2>7 DEF ReceiveTypes, ShownTypes, Statuses, Init
    <2>9. QED
      BY <2>3, <2>4, <2>5, <2>6, <2>8 DEF Types
  <1>5. Connections
    <2>1. \A s \in Sockets : s[1] \in Peers /\ s[2] \in Nat \ {0} /\ s = <<s[1], s[2]>>
      BY SocketsAre
    <2>2. \A p \in Peers : socket[p][1] = p /\ socket[p][2] = 1
      BY <1>2 DEF First
    <2>3. \A s \in Sockets : wire[s] \in {"up", "connecting"} => s = socket[s[1]]
      BY <1>2, <2>1 DEF First
    <2>4. \A s \in Sockets : s[2] > socket[s[1]][2] => wire[s] = "idle"
      BY <1>2, <2>1, <2>2
    <2>5. QED
      BY <1>1, <1>2, <2>2, <2>3, <2>4 DEF Connections
  <1>6. Queues
    BY <1>1, <1>2 DEF Queues
  <1>7. InOrder
    <2> SUFFICES ASSUME NEW id \in Shares PROVE \E n \in 0 .. Size[id] : Agrees(id, n)
      BY DEF InOrder
    <2>1. 0 \in 0 .. Size[id]
      BY SharesAssumption
    <2>2. Agrees(id, 0)
      BY <1>1, <1>2, <1>3 DEF Agrees, SentSoFar, ReceivedSoFar
    <2>3. QED
      BY <2>1, <2>2
  <1>8. AnnouncedOnce
    <2>1. \A s \in Sockets : s[1] \in Peers
      BY SocketsAre
    <2>2. QED
      BY <1>1, <1>2, <2>1 DEF AnnouncedOnce, Announced
  <1>9. Named
    <2>1. \A id \in Shares : Generated[id] \in Paths \ Existing
      BY PathsAre, PathsAssumption
    <2>2. QED
      BY <1>2, <1>3, <2>1 DEF Named
  <1>10. ASSUME PartsApart PROVE Sound
    <2>1. \A id \in Shares : ~InBusiness(id)
      BY <1>1, <1>2, <1>3 DEF InBusiness, Travels
    <2>2. Exclusive /\ ReceivedIntact /\ Unfinished
      BY <1>2, <1>3, <2>1 DEF Exclusive, ReceivedIntact, Unfinished, Paths
    <2>3. PartFilesAreSound
      BY <1>2, <1>3 DEF PartFilesAreSound, PartFilesAreInUse, PartIsBeginning, Paths
    <2>4. QED
      BY <1>10, <2>2, <2>3 DEF Sound
  <1>11. QED
    BY <1>4, <1>5, <1>6, <1>7, <1>8, <1>9, <1>10 DEF Base

\* Every variable has its type, and no sender is past the size it announced:
\* onShareSendTick reads what is left of the file, however the file changes.
THEOREM SharesTyped == Spec => []TypeOK
  <1>1. Init => Base
    BY Initially
  <1>2. Base /\ [Next]_vars => Base'
    BY StepKeeps
  <1>3. Base => TypeOK
    BY TypesImply DEF Base
  <1>4. QED
    BY <1>1, <1>2, <1>3, PTL DEF Spec

\* The invariant holds in every state.
LEMMA AlwaysSound == NamesApart /\ Spec => [](Base /\ Sound)
  <1> SUFFICES ASSUME NamesApart PROVE Spec => [](Base /\ Sound)
    OBVIOUS
  <1>1. Init => Base /\ Sound
    BY Initially DEF NamesApart
  <1>2. (Base /\ Sound) /\ [Next]_vars => (Base /\ Sound)'
    BY StepKeeps
  <1>3. QED
    BY <1>1, <1>2, PTL DEF Spec

\* A file that the chat shows as received is the file that was announced, or what
\* was left of it when closing it failed, and stays it; and no file that was in
\* Downloads before, but for temporary ones, is ever touched.
THEOREM ReceivedFilesIntact == NamesApart /\ Spec => []ReceivedIntact
  <1>1. Base /\ Sound => ReceivedIntact
    BY DEF Sound
  <1>2. QED
    BY <1>1, AlwaysSound, PTL

\* A temporary file belongs to one transfer that goes on, and what is written to it
\* is a beginning of the announced file.
THEOREM PartFilesSound == NamesApart /\ Spec => []PartFilesAreSound
  <1>1. Base /\ Sound => PartFilesAreSound
    BY DEF Sound
  <1>2. QED
    BY <1>1, AlwaysSound, PTL

----------------------------------------------------------------------------
(* Every file arrives.  While no connection breaks and no file changes,    *)
(* the frames of a share are, for each receiver, a stream of their own:    *)
(* the announcement, the chunks, the end.  The receiver has handled the    *)
(* first of them, and the rest of what was sent is on its way to it, in    *)
(* order, a part of it still above the server.                             *)

\* A frame of a share with what it should carry, and its place in the order.
IsPiece(f) ==
    /\ f.type \in {"share_meta", "share_chunk", "share_done"}
    /\ f.type = "share_chunk" =>
          /\ f.index < TotalChunks(f.id)
          /\ f.data = Units(f.id, Start(f.index), Lesser(Start(f.index) + ChunkSize, Size[f.id]))
    /\ f.type = "share_done" => f.sha1 = Content(f.id, Size[f.id])
Number(f) ==
    IF f.type = "share_meta" THEN 1
    ELSE IF f.type = "share_chunk" THEN f.index + 2 ELSE TotalChunks(f.id) + 2
Ordered(q) ==
    \A i, j \in DOMAIN q : i < j /\ q[i].id = q[j].id => Number(q[i]) < Number(q[j])

\* How many frames of a share were sent, and how many p has handled.
SentCount(id) ==
    IF shown[Owner[id]][id] = "none" THEN 0
    ELSE IF outgoingShares[id] = NoShare THEN TotalChunks(id) + 2
    ELSE outgoingShares[id].chunkIndex + 1
TakenCount(p, id) ==
    IF id \in Incoming(p) THEN incomingShares[p][id].receivedChunks + 1
    ELSE IF shown[p][id] = "received" THEN TotalChunks(id) + 2 ELSE 0

\* Of a share, the frames above and below the server are those after the first n,
\* up to number m, and what is below goes before what is above.
Between(above, below, id, n, m) ==
    /\ \A f \in above \cup below : f.id = id => Number(f) \in n + 1 .. m
    /\ \A k \in n + 1 .. m : \E f \in above \cup below : f.id = id /\ Number(f) = k
    /\ \A e \in above, f \in below : e.id = id /\ f.id = id => Number(f) < Number(e)

\* The server has everybody in the session, on the connections of the start.
Seated ==
    /\ \A p \in Peers : peers[First(p)] =
          [code |-> SessionCode, role |-> IF p = Host THEN "host" ELSE "guest"]
    /\ sessionOf[SessionCode] = SessionCode /\ host[SessionCode] = First(Host)
    /\ guests[SessionCode] = {First(g) : g \in Guests}
    /\ \A s \in Sockets : s # First(s[1]) => wire[s] = "idle" /\ up[s] = <<>> /\ down[s] = <<>>

\* A share is not sent yet, is being sent or was sent, and none of it failed.
SendingGoesOn(id) ==
    \/ shown[Owner[id]][id] = "none" /\ outgoingShares[id] = NoShare
    \/ shown[Owner[id]][id] = "sending" /\ outgoingShares[id] # NoShare
    \/ shown[Owner[id]][id] = "sent" /\ outgoingShares[id] = NoShare
ReceivingGoesOn(p, id) ==
    LET share == incomingShares[p][id]
    IN  id \in Incoming(p) =>
           /\ share.receivedChunks <= TotalChunks(id)
           /\ share.received = Content(id, Lesser(Start(share.receivedChunks), Size[id]))

\* What p has not handled of a share is on its way to it.
OnTheWay(p, id) ==
    /\ TakenCount(p, id) <= SentCount(id)
    /\ Between(Frames(up[First(Owner[id])]), Frames(down[First(p)]), id,
               TakenCount(p, id), SentCount(id))

\* What is on the connection of p: pieces of its own shares on the way up, of the
\* others' on the way down.
Carried(p) ==
    /\ \A f \in Frames(up[First(p)]) :
          IsPiece(f) /\ Owner[f.id] = p /\ Number(f) <= SentCount(f.id)
    /\ \A f \in Frames(down[First(p)]) : IsPiece(f) /\ Owner[f.id] # p
    /\ Ordered(up[First(p)]) /\ Ordered(down[First(p)])

InTransit ==
    /\ Seated
    /\ \A id \in Shares : SendingGoesOn(id)
    /\ \A p \in Peers : Carried(p)
    /\ \A p \in Peers, id \in Shares :
          Owner[id] # p => ReceivingGoesOn(p, id) /\ OnTheWay(p, id)

\* A connection of the start was never made anew.
Arriving ==
    /\ \A p \in Peers : wire[First(p)] # "connecting"
    /\ Untroubled => InTransit

\* A share has as many chunks as it takes, and no more.
LEMMA ChunksCount ==
    ASSUME NEW id \in Shares
    PROVE  /\ TotalChunks(id) \in Nat
           /\ \A j \in Nat : Start(j) < Size[id] <=> j < TotalChunks(id)
           /\ Start(TotalChunks(id)) >= Size[id]
  <1>1. PICK c \in Nat : c = ChunkSize /\ c > 0
    BY SharesAssumption
  <1>2. PICK n \in Nat : n = Size[id]
    BY SharesAssumption
  <1>3. PICK a \in Nat : a = n + c - 1
    BY <1>1, <1>2
  <1>4. PICK q \in Nat : q = a \div c /\ q * c <= a
    BY <1>1, <1>3
  <1>5. TotalChunks(id) = q
    BY <1>1, <1>2, <1>3, <1>4 DEF TotalChunks
  <1>6. ASSUME NEW j \in Nat, j < q PROVE j * c < n
    <2>1. PICK k \in Nat : q = (j + 1) + k
      <3>1. q - (j + 1) \in Nat /\ q = (j + 1) + (q - (j + 1))
        BY <1>6
      <3>2. QED
        BY <3>1
    <2>2. q * c = j * c + c + k * c /\ k * c \in Nat /\ j * c \in Nat
      BY <1>1, <2>1
    <2>3. QED
      BY <1>1, <1>3, <1>4, <2>2
  <1>7. ASSUME NEW j \in Nat, Start(j) < Size[id] PROVE j < q
    <2>1. j + 1 <= q
      BY <1>5, <1>7, ChunksFit
    <2>2. QED
      BY <2>1
  <1>8. Start(q) >= Size[id]
    <2>1. ~(Start(q) < Size[id])
      BY <1>7
    <2>2. Start(q) \in Nat
      BY Multiples
    <2>3. QED
      BY <1>2, <2>1, <2>2
  <1>9. QED
    BY <1>1, <1>2, <1>5, <1>6, <1>7, <1>8 DEF Start

\* A piece has a number, and what it is can be told from it.
LEMMA PieceRead ==
    ASSUME NEW f \in Frame, IsPiece(f)
    PROVE  /\ f.id \in Shares /\ Number(f) \in Nat
           /\ f.type = "share_meta" => Number(f) = 1 /\ f = ShareMeta(f.id)
           /\ f.type = "share_chunk" => /\ Number(f) = f.index + 2 /\ f.index \in Nat
                                        /\ f.index < TotalChunks(f.id)
           /\ f.type = "share_done" => Number(f) = TotalChunks(f.id) + 2
           /\ TotalChunks(f.id) \in Nat
  <1>1. /\ f.type = "share_meta" => f.id \in Shares /\ f = ShareMeta(f.id)
        /\ f.type = "share_chunk" => f.id \in Shares /\ f.index \in Nat
        /\ f.type = "share_done" => f.id \in Shares
    BY FramesRead
  <1>2. f.id \in Shares
    BY <1>1 DEF IsPiece
  <1>3. TotalChunks(f.id) \in Nat
    BY <1>2, ChunksCount
  <1>4. QED
    BY <1>1, <1>2, <1>3 DEF IsPiece, Number

\* The head of an ordered stream goes before what follows.
LEMMA TailOrdered ==
    ASSUME NEW q \in Seq(Frame), q # <<>>, Ordered(q)
    PROVE  /\ Ordered(Tail(q)) /\ Frames(q) = Frames(Tail(q)) \cup {Head(q)}
           /\ \A f \in Frames(Tail(q)) : f.id = Head(q).id => Number(Head(q)) < Number(f)
  <1>1. /\ Tail(q) \in Seq(Frame) /\ Head(q) = q[1] /\ Len(q) \in Nat \ {0}
        /\ Len(Tail(q)) = Len(q) - 1
        /\ \A i \in 1 .. Len(Tail(q)) : Tail(q)[i] = q[i + 1]
        /\ DOMAIN q = 1 .. Len(q) /\ DOMAIN Tail(q) = 1 .. Len(Tail(q))
    BY HeadTailProperties, LenProperties, EmptySeq
  <1>2. PICK r \in Seq(Frame), n \in Nat : r = Tail(q) /\ n = Len(r) /\ Len(q) = n + 1
    <2>1. Len(q) - 1 \in Nat /\ Len(q) = (Len(q) - 1) + 1
      BY <1>1
    <2>2. QED
      BY <1>1, <2>1
  <1>3. /\ DOMAIN q = 1 .. n + 1 /\ DOMAIN r = 1 .. n
        /\ \A i \in 1 .. n : r[i] = q[i + 1]
    BY <1>1, <1>2
  <1>4. \A i \in 1 .. n : i + 1 \in DOMAIN q /\ 1 \in DOMAIN q /\ 1 < i + 1
    BY <1>3
  <1>5. Ordered(r)
    <2> SUFFICES ASSUME NEW i \in DOMAIN r, NEW j \in DOMAIN r, i < j, r[i].id = r[j].id
                 PROVE  Number(r[i]) < Number(r[j])
      BY DEF Ordered
    <2>1. i + 1 \in DOMAIN q /\ j + 1 \in DOMAIN q /\ i + 1 < j + 1
      BY <1>3, <1>4
    <2>2. QED
      BY <1>3, <2>1 DEF Ordered
  <1>6. ASSUME NEW f \in Frames(r), f.id = Head(q).id PROVE Number(Head(q)) < Number(f)
    <2>1. PICK i \in DOMAIN r : f = r[i]
      BY DEF Frames
    <2>2. f = q[i + 1] /\ i + 1 \in DOMAIN q /\ 1 \in DOMAIN q /\ 1 < i + 1
      BY <1>3, <1>4, <2>1
    <2>3. QED
      BY <1>1, <1>6, <2>2 DEF Ordered
  <1>7. Frames(q) = Frames(r) \cup {Head(q)}
    <2>1. \A i \in DOMAIN q : i = 1 \/ (i - 1 \in 1 .. n /\ q[i] = r[i - 1])
      BY <1>3
    <2>2. 1 \in DOMAIN q
      BY <1>3
    <2>3. Frames(q) \subseteq Frames(r) \cup {Head(q)}
      BY <1>1, <1>3, <2>1 DEF Frames
    <2>4. Frames(r) \cup {Head(q)} \subseteq Frames(q)
      BY <1>1, <1>3, <1>4, <2>2 DEF Frames
    <2>5. QED
      BY <2>3, <2>4
  <1>8. QED
    BY <1>2, <1>5, <1>6, <1>7

\* A frame that comes after those of its share is sent on an ordered stream.
LEMMA AppendOrdered ==
    ASSUME NEW q \in Seq(Frame), NEW f \in Frame, Ordered(q),
           \A e \in Frames(q) : e.id = f.id => Number(e) < Number(f)
    PROVE  Ordered(Append(q, f))
  <1> DEFINE r == Append(q, f)
  <1>1. /\ r \in Seq(Frame) /\ Len(r) = Len(q) + 1 /\ r[Len(q) + 1] = f
        /\ \A i \in 1 .. Len(q) : r[i] = q[i]
        /\ Len(q) \in Nat
        /\ DOMAIN q = 1 .. Len(q) /\ DOMAIN r = 1 .. Len(r)
    BY AppendProperties, LenProperties
  <1> HIDE DEF r
  <1> SUFFICES ASSUME NEW i \in DOMAIN r, NEW j \in DOMAIN r, i < j, r[i].id = r[j].id
               PROVE  Number(r[i]) < Number(r[j])
    BY DEF Ordered, r
  <1>2. i \in DOMAIN q /\ r[i] = q[i]
    BY <1>1
  <1>3. CASE j \in DOMAIN q
    BY <1>1, <1>2, <1>3 DEF Ordered
  <1>4. CASE j \notin DOMAIN q
    <2>1. r[j] = f
      BY <1>1, <1>4
    <2>2. q[i] \in Frames(q)
      BY <1>2 DEF Frames
    <2>3. QED
      BY <1>2, <2>1, <2>2
  <1>5. QED
    BY <1>3, <1>4

\* One more frame of the share is sent, or a frame of another.
LEMMA BetweenSent ==
    ASSUME NEW above, NEW below, NEW id, NEW n \in Nat, NEW m \in Nat, n <= m,
           Between(above, below, id, n, m), NEW f
    PROVE  /\ f.id = id /\ Number(f) = m + 1 => Between(above \cup {f}, below, id, n, m + 1)
           /\ f.id # id => Between(above \cup {f}, below, id, n, m)
  <1>1. ASSUME f.id = id, Number(f) = m + 1
        PROVE  Between(above \cup {f}, below, id, n, m + 1)
    <2>1. /\ m + 1 \in n + 1 .. m + 1
          /\ \A k \in n + 1 .. m + 1 : k = m + 1 \/ k \in n + 1 .. m
          /\ \A k \in n + 1 .. m : k \in n + 1 .. m + 1 /\ k < m + 1
      OBVIOUS
    <2>2. \A e \in (above \cup {f}) \cup below : e.id = id => Number(e) \in n + 1 .. m + 1
      BY <1>1, <2>1 DEF Between
    <2>3. \A k \in n + 1 .. m + 1 :
             \E e \in (above \cup {f}) \cup below : e.id = id /\ Number(e) = k
      BY <1>1, <2>1 DEF Between
    <2>4. \A e \in above \cup {f}, g \in below : e.id = id /\ g.id = id =>
             Number(g) < Number(e)
      BY <1>1, <2>1 DEF Between
    <2>5. QED
      BY <2>2, <2>3, <2>4 DEF Between
  <1>2. f.id # id => Between(above \cup {f}, below, id, n, m)
    BY DEF Between
  <1>3. QED
    BY <1>1, <1>2

\* The first frame above goes below, or a frame of another share.
LEMMA BetweenRelayed ==
    ASSUME NEW above, NEW below, NEW rest, NEW id, NEW n, NEW m,
           Between(above, below, id, n, m), NEW f, above = rest \cup {f}, f.id = id,
           \A e \in rest : e.id = f.id => Number(f) < Number(e)
    PROVE  Between(rest, below \cup {f}, id, n, m)
  BY DEF Between

\* A frame of another share comes or goes.
LEMMA BetweenUntouched ==
    ASSUME NEW above, NEW below, NEW id, NEW n, NEW m, Between(above, below, id, n, m),
           NEW f, f.id # id
    PROVE  /\ Between(above, below \cup {f}, id, n, m)
           /\ \A rest : above = rest \cup {f} => Between(rest, below, id, n, m)
           /\ \A rest : below = rest \cup {f} => Between(above, rest, id, n, m)
  BY DEF Between

\* The first frame below is handled: it is the next.
LEMMA BetweenTaken ==
    ASSUME NEW above, NEW rest, NEW f, NEW n \in Nat, NEW m \in Nat,
           Between(above, rest \cup {f}, f.id, n, m),
           \A e \in rest : e.id = f.id => Number(f) < Number(e)
    PROVE  /\ Number(f) \in {n + 1} /\ n + 1 <= m
           /\ Between(above, rest, f.id, n + 1, m)
  <1>1. Number(f) \in n + 1 .. m
    BY DEF Between
  <1>2. n + 1 <= m /\ n + 1 \in n + 1 .. m
    BY <1>1
  <1>3. PICK g \in above \cup (rest \cup {f}) : g.id = f.id /\ Number(g) = n + 1
    BY <1>2 DEF Between
  <1>4. g = f \/ Number(f) < Number(g)
    BY <1>3 DEF Between
  <1>5. Number(f) = n + 1
    BY <1>1, <1>3, <1>4
  <1>6. ASSUME NEW e \in above \cup rest, e.id = f.id PROVE Number(e) \in (n + 1) + 1 .. m
    <2>1. Number(e) \in n + 1 .. m /\ n + 1 < Number(e)
      BY <1>5, <1>6 DEF Between
    <2>2. QED
      BY <2>1
  <1>7. ASSUME NEW k \in (n + 1) + 1 .. m
        PROVE  \E e \in above \cup rest : e.id = f.id /\ Number(e) = k
    <2>1. k \in n + 1 .. m /\ k # n + 1
      OBVIOUS
    <2>2. PICK e \in above \cup (rest \cup {f}) : e.id = f.id /\ Number(e) = k
      BY <2>1 DEF Between
    <2>3. e # f
      BY <1>5, <2>1, <2>2
    <2>4. QED
      BY <2>2, <2>3
  <1>8. QED
    BY <1>2, <1>5, <1>6, <1>7 DEF Between

\* What the streams and the counts are made of.
LEMMA CountsTyped ==
    ASSUME Base
    PROVE  /\ \A s \in Sockets : /\ up[s] \in Seq(Frame) /\ down[s] \in Seq(Frame)
                                 /\ Frames(up[s]) \subseteq Frame
                                 /\ Frames(down[s]) \subseteq Frame
           /\ \A id \in Shares : SentCount(id) \in Nat
           /\ \A p \in Peers, id \in Shares : TakenCount(p, id) \in Nat
  <1>1. \A s \in Sockets : up[s] \in Seq(Frame) /\ down[s] \in Seq(Frame)
    BY DEF Base, Types, Streams
  <1>2. ASSUME NEW id \in Shares
        PROVE  SentCount(id) \in Nat /\ \A p \in Peers : TakenCount(p, id) \in Nat
    <2>1. TotalChunks(id) \in Nat
      BY ChunksCount
    <2>2. outgoingShares[id] # NoShare => outgoingShares[id].chunkIndex \in Nat
      BY DEF Base, Types, SendTypes
    <2>3. \A p \in Peers : id \in Incoming(p) => incomingShares[p][id].receivedChunks \in Nat
      BY DEF Base, Types, ReceiveTypes, Incoming, AnyIncoming
    <2>4. QED
      BY <2>1, <2>2, <2>3 DEF SentCount, TakenCount
  <1>3. QED
    BY <1>1, <1>2, SeqRead

\* What p may have on its way up when it has sent m frames of share id.
Upward(p, q, id, m) ==
    /\ q \in Seq(Frame) /\ Ordered(q)
    /\ \A f \in Frames(q) :
          /\ IsPiece(f) /\ Owner[f.id] = p
          /\ Number(f) <= IF f.id = id THEN m ELSE SentCount(f.id)
    /\ \A r \in Peers \ {p}, x \in Shares : Owner[x] = p =>
          LET sent == IF x = id THEN m ELSE SentCount(x)
          IN  /\ TakenCount(r, x) <= sent
              /\ Between(Frames(q), Frames(down[First(r)]), x, TakenCount(r, x), sent)

\* It is what p has on its way.
LEMMA UpwardFirst ==
    ASSUME Base, InTransit, NEW p \in Peers, NEW id \in Shares
    PROVE  Upward(p, up[First(p)], id, SentCount(id))
  <1>1. Carried(p) /\ up[First(p)] \in Seq(Frame)
    BY SocketsAre, CountsTyped DEF InTransit
  <1>2. \A f \in Frames(up[First(p)]) : Number(f) <= SentCount(f.id)
    BY <1>1 DEF Carried
  <1>3. \A r \in Peers \ {p}, x \in Shares : Owner[x] = p =>
           /\ TakenCount(r, x) <= SentCount(x)
           /\ Between(Frames(up[First(p)]), Frames(down[First(r)]), x, TakenCount(r, x),
                      SentCount(x))
    <2> SUFFICES ASSUME NEW r \in Peers \ {p}, NEW x \in Shares, Owner[x] = p
                 PROVE  /\ TakenCount(r, x) <= SentCount(x)
                        /\ Between(Frames(up[First(p)]), Frames(down[First(r)]), x,
                                   TakenCount(r, x), SentCount(x))
      OBVIOUS
    <2>1. OnTheWay(r, x)
      BY DEF InTransit
    <2>2. QED
      BY <2>1 DEF OnTheWay
  <1>4. QED
    BY <1>1, <1>2, <1>3 DEF Upward, Carried

\* Frames of a share are sent in the order of their numbers.
LEMMA UpwardMore ==
    ASSUME Base, NEW p \in Peers, NEW id \in Shares, Owner[id] = p, NEW m \in Nat, NEW q,
           Upward(p, q, id, m), NEW f \in Frame, IsPiece(f), f.id = id, Number(f) = m + 1,
           \A r \in Peers : \A g \in Frames(down[First(r)]) : IsPiece(g)
    PROVE  Upward(p, Append(q, f), id, m + 1)
  <1>1. q \in Seq(Frame) /\ Ordered(q) /\ Frames(q) \subseteq Frame
    BY SeqRead DEF Upward
  <1>2. \A e \in Frames(q) : e.id = id => Number(e) <= m /\ Number(e) \in Nat
    BY <1>1, PieceRead DEF Upward
  <1>3. Append(q, f) \in Seq(Frame) /\ Frames(Append(q, f)) = Frames(q) \cup {f}
    BY <1>1, AppendOf
  <1>4. Ordered(Append(q, f))
    <2>1. \A e \in Frames(q) : e.id = f.id => Number(e) < Number(f)
      BY <1>2
    <2>2. QED
      BY <1>1, <2>1, AppendOrdered
  <1>5. \A g \in Frames(Append(q, f)) :
           /\ IsPiece(g) /\ Owner[g.id] = p
           /\ Number(g) <= IF g.id = id THEN m + 1 ELSE SentCount(g.id)
    <2>1. \A g \in Frames(q) :
             /\ IsPiece(g) /\ Owner[g.id] = p
             /\ Number(g) <= IF g.id = id THEN m ELSE SentCount(g.id)
      BY DEF Upward
    <2>2. QED
      BY <1>2, <1>3, <2>1
  <1>6. ASSUME NEW r \in Peers \ {p}, NEW x \in Shares, Owner[x] = p
        PROVE  LET sent == IF x = id THEN m + 1 ELSE SentCount(x)
               IN  /\ TakenCount(r, x) <= sent
                   /\ Between(Frames(q) \cup {f}, Frames(down[First(r)]), x, TakenCount(r, x),
                              sent)
    <2>1. PICK n \in Nat, sent \in Nat :
             n = TakenCount(r, x) /\ sent = IF x = id THEN m ELSE SentCount(x)
      BY CountsTyped
    <2>2. n <= sent /\ Between(Frames(q), Frames(down[First(r)]), x, n, sent)
      BY <1>6, <2>1 DEF Upward
    <2>3. /\ f.id = x /\ Number(f) = sent + 1 =>
                Between(Frames(q) \cup {f}, Frames(down[First(r)]), x, n, sent + 1)
          /\ f.id # x => Between(Frames(q) \cup {f}, Frames(down[First(r)]), x, n, sent)
      BY <2>2, BetweenSent
    <2>4. n <= sent + 1
      BY <2>2
    <2>5. QED
      BY <2>1, <2>2, <2>3, <2>4
  <1>7. QED
    BY <1>3, <1>4, <1>5, <1>6 DEF Upward

\* What is on the connection of p after a step.
LEMMA CarriedNext ==
    ASSUME NEW p \in Peers,
           \A f \in Frames(up'[First(p)]) :
              IsPiece(f) /\ Owner[f.id] = p /\ Number(f) <= SentCount(f.id)',
           \A f \in Frames(down'[First(p)]) : IsPiece(f) /\ Owner[f.id] # p,
           Ordered(up'[First(p)]), Ordered(down'[First(p)])
    PROVE  Carried(p)'
  BY DEF Carried, Ordered, Number, IsPiece

\* A step that sends on the connection of p, and lets nobody receive.
LEMMA SendArrives ==
    ASSUME Base, InTransit, NEW p \in Peers, NEW id \in Shares, Owner[id] = p, NEW q, NEW m,
           Upward(p, q, id, m), up' = [up EXCEPT ![First(p)] = q],
           SentCount(id)' = m, \A x \in Shares \ {id} : SentCount(x)' = SentCount(x),
           \A x \in Shares : SendingGoesOn(x)',
           \A r \in Peers, x \in Shares : Owner[x] # r => shown'[r][x] = shown[r][x],
           UNCHANGED <<wire, down, server, receiving>>
    PROVE  InTransit'
  <1>1. \A s \in Sockets : up'[s] = IF s = First(p) THEN q ELSE up[s]
    BY DEF Base, Types, Streams
  <1>2. \A r \in Peers : /\ First(r) \in Sockets /\ First(r)[1] = r
                         /\ up'[First(r)] = IF r = p THEN q ELSE up[First(r)]
    BY <1>1, SocketsAre DEF First
  <1>3. Seated'
    <2>1. \A s \in Sockets : s # First(s[1]) => s # First(p)
      BY <1>2
    <2>2. QED
      BY <1>1, <2>1 DEF InTransit, Seated, server
  <1>4. \A x \in Shares : SentCount(x)' = IF x = id THEN m ELSE SentCount(x)
    OBVIOUS
  <1>5. \A r \in Peers, x \in Shares : Owner[x] # r => TakenCount(r, x)' = TakenCount(r, x)
    BY DEF TakenCount, Incoming, receiving
  <1>6. ASSUME NEW r \in Peers PROVE Carried(r)'
    <2>1. Carried(r)
      BY DEF InTransit
    <2>2. \A f \in Frames(up'[First(r)]) :
             /\ IsPiece(f) /\ Owner[f.id] = r /\ f.id \in Shares
             /\ Number(f) <= SentCount(f.id)'
      <3>1. CASE r = p
        <4>1. \A f \in Frames(q) :
                 /\ IsPiece(f) /\ Owner[f.id] = p /\ f \in Frame
                 /\ Number(f) <= IF f.id = id THEN m ELSE SentCount(f.id)
          BY SeqRead DEF Upward
        <4>2. QED
          BY <1>2, <1>4, <3>1, <4>1, PieceRead
      <3>2. CASE r # p
        <4>1. \A f \in Frames(up[First(r)]) :
                 /\ IsPiece(f) /\ Owner[f.id] = r /\ f \in Frame
                 /\ Number(f) <= SentCount(f.id)
          BY <1>2, <2>1, CountsTyped DEF Carried
        <4>2. QED
          BY <1>2, <1>4, <3>2, <4>1, PieceRead
      <3>3. QED
        BY <3>1, <3>2
    <2>3. Ordered(up'[First(r)])
      BY <1>2, <2>1 DEF Carried, Upward
    <2>4. \A f \in Frames(down'[First(r)]) : IsPiece(f) /\ Owner[f.id] # r
      BY <2>1 DEF Carried
    <2>5. Ordered(down'[First(r)])
      BY <2>1 DEF Carried
    <2>6. QED
      BY <2>2, <2>3, <2>4, <2>5, CarriedNext
  <1>7. ASSUME NEW r \in Peers, NEW x \in Shares, Owner[x] # r
        PROVE  ReceivingGoesOn(r, x)' /\ OnTheWay(r, x)'
    <2>1. ReceivingGoesOn(r, x)'
      BY <1>7 DEF InTransit, ReceivingGoesOn, Incoming, receiving
    <2>2. PICK o \in Peers : o = Owner[x]
      BY SharesAssumption
    <2>3. CASE o = p
      <3>1. /\ TakenCount(r, x) <= SentCount(x)'
            /\ Between(Frames(q), Frames(down[First(r)]), x, TakenCount(r, x), SentCount(x)')
        <4>1. PICK sent : sent = IF x = id THEN m ELSE SentCount(x)
          OBVIOUS
        <4>2. /\ TakenCount(r, x) <= sent
              /\ Between(Frames(q), Frames(down[First(r)]), x, TakenCount(r, x), sent)
          BY <1>7, <2>2, <2>3, <4>1 DEF Upward
        <4>3. sent = SentCount(x)'
          BY <1>4, <4>1
        <4>4. QED
          BY <4>2, <4>3
      <3>2. /\ Frames(up'[First(o)]) = Frames(q)
            /\ Frames(down'[First(r)]) = Frames(down[First(r)])
            /\ TakenCount(r, x)' = TakenCount(r, x)
        BY <1>2, <1>5, <1>7, <2>3
      <3>3. OnTheWay(r, x)'
        BY <2>2, <3>1, <3>2 DEF OnTheWay, Between
      <3>4. QED
        BY <2>1, <3>3
    <2>4. CASE o # p
      <3>1. OnTheWay(r, x) /\ SentCount(x)' = SentCount(x)
        BY <1>7, <2>2, <2>4 DEF InTransit
      <3>2. QED
        BY <1>2, <1>5, <1>7, <2>1, <2>2, <2>4, <3>1 DEF OnTheWay, Between
    <2>5. QED
      BY <2>3, <2>4
  <1>8. QED
    BY <1>3, <1>6, <1>7 DEF InTransit

\* One frame is sent.
LEMMA ConcatOne ==
    ASSUME NEW q \in Seq(Frame), NEW f \in Frame
    PROVE  q \o <<f>> = Append(q, f)
  BY AppendIsConcat

\* Two frames are sent.
LEMMA ConcatTwo ==
    ASSUME NEW q \in Seq(Frame), NEW f \in Frame, NEW g \in Frame
    PROVE  q \o <<f, g>> = Append(Append(q, f), g)
  <1>1. PICK r \in Seq(Frame) : r = Append(q, f)
    BY AppendOf
  <1>2. /\ Len(r) = Len(q) + 1 /\ r[Len(q) + 1] = f /\ \A i \in 1 .. Len(q) : r[i] = q[i]
        /\ Len(q) \in Nat
    BY <1>1, AppendProperties, LenProperties
  <1>3. PICK w \in Seq(Frame) : w = Append(r, g)
    BY AppendOf
  <1>4. Len(w) = Len(r) + 1 /\ w[Len(r) + 1] = g /\ \A i \in 1 .. Len(r) : w[i] = r[i]
    BY <1>3, AppendProperties
  <1>5. PICK two \in Seq(Frame) : two = <<f, g>> /\ Len(two) = 2 /\ two[1] = f /\ two[2] = g
    <2>1. <<f, g>> \in Seq(Frame)
      OBVIOUS
    <2>2. Len(<<f, g>>) = 2 /\ <<f, g>>[1] = f /\ <<f, g>>[2] = g
      OBVIOUS
    <2>3. QED
      BY <2>1, <2>2
  <1>6. PICK z \in Seq(Frame) : z = q \o two
    BY ConcatProperties
  <1>7. /\ Len(z) = Len(q) + 2
        /\ \A i \in 1 .. Len(q) + 2 : z[i] = IF i <= Len(q) THEN q[i] ELSE two[i - Len(q)]
    BY <1>5, <1>6, ConcatProperties
  <1>8. PICK n \in Nat : n = Len(q)
    BY <1>2
  <1>9. ASSUME NEW i \in 1 .. n + 2 PROVE z[i] = w[i]
    <2>1. i \in 1 .. n \/ i = n + 1 \/ i = n + 2
      OBVIOUS
    <2>2. QED
      BY <1>2, <1>4, <1>5, <1>7, <1>8, <2>1
  <1>10. z = w
    BY <1>2, <1>4, <1>7, <1>8, <1>9, SeqEqual
  <1>11. QED
    BY <1>1, <1>3, <1>5, <1>6, <1>10

\* While nothing breaks, everybody sends on the first connection.
LEMMA FirstSends ==
    ASSUME Base, Untroubled, NEW p \in Peers, NEW frames, SendFrames(p, frames)
    PROVE  up' = [up EXCEPT ![First(p)] = up[First(p)] \o frames]
  BY DEF Untroubled, SendFrames

\* sendSharedFile
LEMMA SharedFileArrives ==
    ASSUME Base, Untroubled, InTransit, NEW id \in Shares, SendSharedFile(id)
    PROVE  InTransit'
  <1>1. PICK p \in Peers, m \in Frame : p = Owner[id] /\ m = ShareMeta(id)
    BY SharesAssumption, MetasRead
  <1>2. PICK new : new = [sent |-> 0, chunkIndex |-> 0]
    OBVIOUS
  <1>3. /\ shown[p][id] = "none" /\ SendFrames(p, <<m>>)
        /\ outgoingShares' = [outgoingShares EXCEPT ![id] = new]
        /\ shown' = [shown EXCEPT ![p][id] = "sending"]
        /\ UNCHANGED <<wire, down, server, receiving>>
    BY <1>1, <1>2 DEF SendSharedFile, Show
  <1>4. new.chunkIndex = 0 /\ new # NoShare
    <2>1. new \in OutgoingShare(id)
      BY <1>2, ChunksFit, SharesAssumption DEF OutgoingShare
    <2>2. QED
      BY <1>2, <2>1, MissingAssumption
  <1>5. \A x \in Shares : outgoingShares'[x] = IF x = id THEN new ELSE outgoingShares[x]
    BY <1>3 DEF Base, Types, SendTypes
  <1>6. \A r \in Peers, x \in Shares :
           shown'[r][x] = IF r = p /\ x = id THEN "sending" ELSE shown[r][x]
    BY <1>3 DEF Base, Types, ShownTypes
  <1>7. \A x \in Shares : Owner[x] \in Peers
    BY SharesAssumption
  <1>8. SentCount(id) = 0 /\ SentCount(id)' = 1
    BY <1>1, <1>3, <1>4, <1>5, <1>6 DEF SentCount
  <1>9. \A x \in Shares \ {id} : SentCount(x)' = SentCount(x)
    BY <1>5, <1>6, <1>7 DEF SentCount
  <1>10. ASSUME NEW x \in Shares PROVE SendingGoesOn(x)'
    <2>1. SendingGoesOn(x)
      BY DEF InTransit
    <2>2. CASE x = id
      BY <1>1, <1>4, <1>5, <1>6, <2>2 DEF SendingGoesOn
    <2>3. CASE x # id
      BY <1>5, <1>6, <1>7, <2>1, <2>3 DEF SendingGoesOn
    <2>4. QED
      BY <2>2, <2>3
  <1>11. IsPiece(m) /\ m.id = id /\ Number(m) = 1
    BY <1>1 DEF IsPiece, Number, ShareMeta
  <1>12. up[First(p)] \in Seq(Frame)
    BY SocketsAre, CountsTyped
  <1>13. Upward(p, Append(up[First(p)], m), id, 1)
    <2>1. Upward(p, up[First(p)], id, 0)
      BY <1>8, UpwardFirst
    <2>2. \A r \in Peers : \A g \in Frames(down[First(r)]) : IsPiece(g)
      BY DEF InTransit, Carried
    <2>3. 0 \in Nat /\ 0 + 1 = 1
      OBVIOUS
    <2>4. QED
      BY <1>1, <1>11, <2>1, <2>2, <2>3, UpwardMore
  <1>14. up' = [up EXCEPT ![First(p)] = Append(up[First(p)], m)]
    BY <1>3, <1>12, FirstSends, ConcatOne
  <1>15. \A r \in Peers, x \in Shares : Owner[x] # r => shown'[r][x] = shown[r][x]
    BY <1>1, <1>6
  <1>16. QED
    BY <1>1, <1>3, <1>8, <1>9, <1>10, <1>13, <1>14, <1>15, SendArrives

\* The chunks of a share, and the frame after the last of them.
NthChunk(id, c) ==
    ShareChunk(id, c, Units(id, Start(c), Lesser(Start(c) + ChunkSize, Size[id])))
LastFrame(id) == ShareDone(id, Content(id, Size[id]))

\* What the sender does with the share at the head of its queue while the file is
\* as long as announced: nothing can fail.
LEMMA NextGoesOut ==
    ASSUME Base, Untroubled, NEW p \in Peers, SendNext(p)
    PROVE  \E id \in Shares, c \in Nat :
              /\ Owner[id] = p /\ outgoingShares[id] # NoShare
              /\ c = outgoingShares[id].chunkIndex /\ id = Head(outgoingQueue[p])
              /\ \/ c = TotalChunks(id) /\ Finish(p, <<LastFrame(id)>>, "sent")
                 \/ c + 1 = TotalChunks(id) /\ Finish(p, <<NthChunk(id, c), LastFrame(id)>>, "sent")
                 \/ /\ c < TotalChunks(id)
                    /\ SendFrames(p, <<NthChunk(id, c)>>) /\ UNCHANGED shown
                    /\ \E new : /\ new # NoShare /\ new.chunkIndex = c + 1
                                /\ outgoingShares' = [outgoingShares EXCEPT ![id] = new]
  <1>1. PICK id \in Shares, c \in Nat, n \in Nat :
           /\ id = Head(outgoingQueue[p]) /\ outgoingQueue[p] # <<>>
           /\ Owner[id] = p /\ outgoingShares[id] # NoShare
           /\ c = outgoingShares[id].chunkIndex /\ n = outgoingShares[id].sent
           /\ n = Start(c) /\ c \in 0 .. TotalChunks(id) /\ n \in 0 .. Size[id]
    <2>1. PICK id \in Shares : id = Head(outgoingQueue[p]) /\ id \in Frames(outgoingQueue[p])
      BY TailOf DEF SendNext, Base, Types, SendTypes
    <2>2. Owner[id] = p /\ outgoingShares[id] # NoShare
      BY <2>1 DEF Base, Queues
    <2>3. PICK m \in 0 .. Size[id] : Agrees(id, m)
      BY DEF Base, InOrder
    <2>4. outgoingShares[id] \in OutgoingShare(id)
      BY <2>2 DEF Base, Types, SendTypes
    <2>5. PICK c \in Nat, n \in Nat :
             /\ c = outgoingShares[id].chunkIndex /\ n = outgoingShares[id].sent
             /\ c \in 0 .. TotalChunks(id) /\ n \in 0 .. Size[id]
      BY <2>4, SharesAssumption, ChunksCount DEF OutgoingShare
    <2>6. n = Start(c)
      BY <2>2, <2>3, <2>5 DEF Agrees, SentSoFar
    <2>7. QED
      BY <2>1, <2>2, <2>5, <2>6 DEF SendNext
  <1>2. PICK cs \in Nat, z \in Nat, t \in Nat :
           cs = ChunkSize /\ cs > 0 /\ z = Size[id] /\ t = TotalChunks(id) /\ length[id] = z
    BY SharesAssumption, ChunksCount DEF Untroubled
  <1>3. PICK k \in Nat : k = IF z < n + cs THEN z ELSE n + cs
    OBVIOUS
  <1>4. n <= z /\ c <= t /\ k = Lesser(n + cs, z)
    <2>1. n <= z /\ c <= t
      BY <1>1, <1>2
    <2>2. QED
      BY <1>3, <2>1 DEF Lesser
  <1>5. PICK chunk, last, whole :
           /\ chunk = ShareChunk(id, c, Units(id, n, k))
           /\ last = ShareDone(id, Content(id, n)) /\ whole = ShareDone(id, Content(id, k))
    OBVIOUS
  <1>6. PICK new : new = [sent |-> k, chunkIndex |-> c + 1]
    OBVIOUS
  <1>7. \/ n >= z /\ Finish(p, <<last>>, "sent")
        \/ n < z /\ (k <= n \/ k > z) /\ Finish(p, <<>>, "failed")
        \/ n < z /\ k > n /\ k < n + cs /\ Finish(p, <<chunk, whole>>, "sent")
        \/ /\ n < z /\ k > n /\ ~(k > z) /\ ~(k < n + cs)
           /\ outgoingShares' = [outgoingShares EXCEPT ![id] = new]
           /\ SendFrames(p, <<chunk>>)
           /\ UNCHANGED shown
    BY <1>1, <1>2, <1>3, <1>5, <1>6 DEF SendNext, Grown
  <1>8. c < t <=> n < z
    BY <1>1, <1>2, ChunksCount
  <1>9. CASE n >= z /\ Finish(p, <<last>>, "sent")
    <2>1. n = z /\ c = t
      BY <1>4, <1>8, <1>9
    <2>2. last = LastFrame(id)
      BY <1>2, <1>5, <2>1 DEF LastFrame
    <2>3. QED
      BY <1>1, <1>2, <1>9, <2>1, <2>2
  <1>10. ~(n < z /\ (k <= n \/ k > z))
    BY <1>2, <1>3
  <1>11. CASE n < z /\ k > n /\ k < n + cs /\ Finish(p, <<chunk, whole>>, "sent")
    <2>1. k = z /\ c < t
      BY <1>3, <1>8, <1>11
    <2>2. ~(c + 1 < t)
      <3>1. Start(c + 1) = n + cs
        BY <1>1, <1>2, Multiples
      <3>2. ~(n + cs < z)
        BY <1>3, <1>11, <2>1
      <3>3. c + 1 \in Nat
        OBVIOUS
      <3>4. QED
        BY <1>2, <3>1, <3>2, <3>3, ChunksCount
    <2>3. c + 1 = t
      BY <2>1, <2>2
    <2>4. chunk = NthChunk(id, c) /\ whole = LastFrame(id)
      BY <1>1, <1>2, <1>4, <1>5, <2>1 DEF NthChunk, LastFrame
    <2>5. QED
      BY <1>1, <1>2, <1>11, <2>3, <2>4
  <1>12. CASE /\ n < z /\ k > n /\ ~(k > z) /\ ~(k < n + cs)
              /\ outgoingShares' = [outgoingShares EXCEPT ![id] = new]
              /\ SendFrames(p, <<chunk>>)
              /\ UNCHANGED shown
    <2>1. new \in OutgoingShare(id)
      <3>1. k \in 0 .. Size[id]
        BY <1>2, <1>12
      <3>2. c + 1 \in 0 .. TotalChunks(id)
        BY <1>2, <1>8, <1>12
      <3>3. QED
        BY <1>6, <3>1, <3>2 DEF OutgoingShare
    <2>2. new # NoShare /\ new.chunkIndex = c + 1
      BY <1>6, <2>1, MissingAssumption
    <2>3. c < TotalChunks(id)
      BY <1>2, <1>8, <1>12
    <2>4. chunk = NthChunk(id, c)
      BY <1>1, <1>2, <1>4, <1>5 DEF NthChunk
    <2>5. QED
      BY <1>1, <1>12, <2>2, <2>3, <2>4
  <1>13. QED
    BY <1>7, <1>9, <1>10, <1>11, <1>12

\* onShareSendTick: a chunk, or the end, or both.
LEMMA SendNextArrives ==
    ASSUME Base, Untroubled, InTransit, NEW p \in Peers, SendNext(p),
           UNCHANGED <<wire, down, server, receiving>>
    PROVE  InTransit'
  <1>1. PICK id \in Shares, c \in Nat :
           /\ Owner[id] = p /\ outgoingShares[id] # NoShare
           /\ c = outgoingShares[id].chunkIndex /\ id = Head(outgoingQueue[p])
           /\ \/ c = TotalChunks(id) /\ Finish(p, <<LastFrame(id)>>, "sent")
              \/ c + 1 = TotalChunks(id) /\ Finish(p, <<NthChunk(id, c), LastFrame(id)>>, "sent")
              \/ /\ c < TotalChunks(id)
                 /\ SendFrames(p, <<NthChunk(id, c)>>) /\ UNCHANGED shown
                 /\ \E new : /\ new # NoShare /\ new.chunkIndex = c + 1
                             /\ outgoingShares' = [outgoingShares EXCEPT ![id] = new]
    BY NextGoesOut
  <1>2. PICK t \in Nat, q \in Seq(Frame) : t = TotalChunks(id) /\ q = up[First(p)]
    BY ChunksCount, SocketsAre, CountsTyped
  <1> DEFINE chunk == NthChunk(id, c)
             done  == LastFrame(id)
  <1> HIDE DEF chunk, done
  <1>3. /\ shown[p][id] = "sending" /\ SentCount(id) = c + 1
        /\ \A x \in Shares : SendingGoesOn(x) /\ Owner[x] \in Peers
    BY <1>1, SharesAssumption DEF InTransit, SendingGoesOn, SentCount
  <1>4. Upward(p, q, id, c + 1)
    BY <1>2, <1>3, UpwardFirst
  <1>5. \A r \in Peers : \A g \in Frames(down[First(r)]) : IsPiece(g)
    BY DEF InTransit, Carried
  <1>6. done \in Frame /\ IsPiece(done) /\ done.id = id /\ Number(done) = t + 2
    <2>1. Size[id] \in Nat
      BY SharesAssumption
    <2>2. done \in Plain
      BY <2>1, ContentTyped, FramesBuilt DEF done, LastFrame
    <2>3. done.type = "share_done" /\ done.id = id /\ done.sha1 = Content(id, Size[id])
      BY DEF done, LastFrame, ShareDone
    <2>4. QED
      BY <1>2, <2>2, <2>3 DEF Plain, IsPiece, Number
  <1>7. ASSUME c < t
        PROVE  /\ chunk \in Frame /\ IsPiece(chunk) /\ chunk.id = id
               /\ Number(chunk) = (c + 1) + 1
    <2>1. PICK from \in Nat, to \in Nat :
             /\ from = Start(c) /\ to = Lesser(Start(c) + ChunkSize, Size[id]) /\ from <= to
      <3>1. Start(c) \in Nat /\ Start(c) < Size[id]
        BY <1>2, <1>7, Multiples, ChunksCount
      <3>2. ChunkSize \in Nat /\ Size[id] \in Nat
        BY SharesAssumption
      <3>3. PICK a \in Nat, b \in Nat, z \in Nat :
               a = Start(c) /\ b = ChunkSize /\ z = Size[id] /\ a < z
        BY <3>1, <3>2
      <3>4. Lesser(a + b, z) \in Nat /\ a <= Lesser(a + b, z)
        BY <3>3 DEF Lesser
      <3>5. QED
        BY <3>3, <3>4
    <2>2. Units(id, from, to) \in Seq(UnitsOf)
      BY <2>1, UnitsTyped
    <2>3. /\ chunk.type = "share_chunk" /\ chunk.id = id /\ chunk.index = c
          /\ chunk.data = Units(id, from, to)
      BY <2>1 DEF chunk, NthChunk, ShareChunk
    <2>4. chunk \in Frame
      BY <2>1, <2>2, FramesBuilt DEF chunk, NthChunk
    <2>5. QED
      BY <1>2, <1>7, <2>1, <2>3, <2>4 DEF IsPiece, Number
  <1>8. ASSUME NEW frames, Finish(p, frames, "sent"), NEW r,
               Upward(p, r, id, t + 2), q \o frames = r
        PROVE  InTransit'
    <2>1. /\ outgoingShares' = [outgoingShares EXCEPT ![id] = NoShare]
          /\ SendFrames(p, frames) /\ shown' = [shown EXCEPT ![p][id] = "sent"]
      BY <1>1, <1>8 DEF Finish, Show
    <2>2. \A x \in Shares : outgoingShares'[x] = IF x = id THEN NoShare ELSE outgoingShares[x]
      BY <2>1 DEF Base, Types, SendTypes
    <2>3. \A s \in Peers, x \in Shares :
             shown'[s][x] = IF s = p /\ x = id THEN "sent" ELSE shown[s][x]
      BY <2>1 DEF Base, Types, ShownTypes
    <2>4. SentCount(id)' = t + 2
      BY <1>1, <1>2, <2>2, <2>3 DEF SentCount
    <2>5. \A x \in Shares \ {id} : SentCount(x)' = SentCount(x)
      BY <1>3, <2>2, <2>3 DEF SentCount
    <2>6. \A x \in Shares : SendingGoesOn(x)'
      BY <1>1, <1>3, <2>2, <2>3 DEF SendingGoesOn
    <2>7. \A s \in Peers, x \in Shares : Owner[x] # s => shown'[s][x] = shown[s][x]
      BY <1>1, <2>3
    <2>8. up' = [up EXCEPT ![First(p)] = r]
      BY <1>2, <1>8, <2>1, FirstSends
    <2>9. QED
      BY <1>1, <1>8, <2>4, <2>5, <2>6, <2>7, <2>8, SendArrives
  <1>9. CASE c = t /\ Finish(p, <<done>>, "sent")
    <2>1. Upward(p, Append(q, done), id, (c + 1) + 1)
      <3>1. c + 1 \in Nat /\ Number(done) = (c + 1) + 1
        BY <1>6, <1>9
      <3>2. QED
        BY <1>1, <1>4, <1>5, <1>6, <3>1, UpwardMore
    <2>2. (c + 1) + 1 = t + 2
      BY <1>9
    <2>3. QED
      BY <1>6, <1>8, <1>9, <2>1, <2>2, ConcatOne
  <1>10. CASE c + 1 = t /\ Finish(p, <<chunk, done>>, "sent")
    <2>1. /\ chunk \in Frame /\ IsPiece(chunk) /\ chunk.id = id
          /\ Number(chunk) = (c + 1) + 1
      BY <1>7, <1>10
    <2>2. c + 1 \in Nat /\ (c + 1) + 1 \in Nat /\ Number(done) = ((c + 1) + 1) + 1
      BY <1>6, <1>10
    <2>3. Upward(p, Append(q, chunk), id, (c + 1) + 1)
      BY <1>1, <1>4, <1>5, <2>1, <2>2, UpwardMore
    <2>4. Upward(p, Append(Append(q, chunk), done), id, ((c + 1) + 1) + 1)
      BY <1>1, <1>5, <1>6, <2>2, <2>3, UpwardMore
    <2>5. ((c + 1) + 1) + 1 = t + 2
      BY <1>10
    <2>6. QED
      BY <1>6, <1>8, <1>10, <2>1, <2>4, <2>5, ConcatTwo
  <1>11. CASE /\ c < t /\ SendFrames(p, <<chunk>>) /\ UNCHANGED shown
              /\ \E new : /\ new # NoShare /\ new.chunkIndex = c + 1
                          /\ outgoingShares' = [outgoingShares EXCEPT ![id] = new]
    <2>1. PICK new : /\ new # NoShare /\ new.chunkIndex = c + 1
                     /\ outgoingShares' = [outgoingShares EXCEPT ![id] = new]
      BY <1>11
    <2>2. /\ chunk \in Frame /\ IsPiece(chunk) /\ chunk.id = id
          /\ Number(chunk) = (c + 1) + 1
      BY <1>7, <1>11
    <2>3. \A x \in Shares : outgoingShares'[x] = IF x = id THEN new ELSE outgoingShares[x]
      BY <2>1 DEF Base, Types, SendTypes
    <2>4. SentCount(id)' = (c + 1) + 1
      BY <1>1, <1>3, <1>11, <2>1, <2>3 DEF SentCount
    <2>5. \A x \in Shares \ {id} : SentCount(x)' = SentCount(x)
      BY <1>3, <1>11, <2>3 DEF SentCount
    <2>6. ASSUME NEW x \in Shares PROVE SendingGoesOn(x)'
      <3>1. CASE x = id
        <4>1. shown'[Owner[id]][id] = "sending" /\ outgoingShares'[id] # NoShare
          BY <1>1, <1>3, <1>11, <2>1, <2>3
        <4>2. QED
          BY <3>1, <4>1 DEF SendingGoesOn
      <3>2. CASE x # id
        BY <1>3, <1>11, <2>3, <3>2 DEF SendingGoesOn
      <3>3. QED
        BY <3>1, <3>2
    <2>7. c + 1 \in Nat
      OBVIOUS
    <2>8. Upward(p, Append(q, chunk), id, (c + 1) + 1)
      BY <1>1, <1>4, <1>5, <2>2, <2>7, UpwardMore
    <2>9. up' = [up EXCEPT ![First(p)] = Append(q, chunk)]
      <3>1. up' = [up EXCEPT ![First(p)] = up[First(p)] \o <<chunk>>]
        BY <1>11, FirstSends
      <3>2. q \o <<chunk>> = Append(q, chunk)
        BY <2>2, ConcatOne
      <3>3. QED
        BY <1>2, <3>1, <3>2
    <2>10. UNCHANGED shown
      BY <1>11
    <2>11. QED
      BY <2>10, <1>1, <1>11, <2>4, <2>5, <2>6, <2>8, <2>9, SendArrives
  <1>12. QED
    BY <1>1, <1>2, <1>9, <1>10, <1>11 DEF chunk, done

\* A step that leaves the files, the connections and the server alone.
LEMMA ArrivesQuietly ==
    ASSUME InTransit, UNCHANGED <<net, server, outgoingShares, receiving, shown>>
    PROVE  InTransit'
  <1>1. UNCHANGED <<wire, up, down, server, outgoingShares, incomingShares, shown>>
    BY DEF net, receiving
  <1>2. Seated'
    BY <1>1 DEF InTransit, Seated, server
  <1>3. \A id \in Shares : SendingGoesOn(id)' /\ SentCount(id)' = SentCount(id)
    BY <1>1 DEF InTransit, SendingGoesOn, SentCount
  <1>4. \A p \in Peers, id \in Shares : TakenCount(p, id)' = TakenCount(p, id)
    BY <1>1 DEF TakenCount, Incoming
  <1>5. ASSUME NEW p \in Peers PROVE Carried(p)'
    <2>1. Carried(p)
      BY DEF InTransit
    <2>2. \A f \in Frames(up[First(p)]) : SentCount(f.id)' = SentCount(f.id)
      BY <1>1 DEF SentCount
    <2>3. /\ \A f \in Frames(up'[First(p)]) :
                IsPiece(f) /\ Owner[f.id] = p /\ Number(f) <= SentCount(f.id)'
          /\ \A f \in Frames(down'[First(p)]) : IsPiece(f) /\ Owner[f.id] # p
          /\ Ordered(up'[First(p)]) /\ Ordered(down'[First(p)])
      BY <1>1, <2>1, <2>2 DEF Carried
    <2>4. QED
      BY <2>3, CarriedNext
  <1>6. ASSUME NEW p \in Peers, NEW id \in Shares, Owner[id] # p
        PROVE  ReceivingGoesOn(p, id)' /\ OnTheWay(p, id)'
    <2>1. ReceivingGoesOn(p, id) /\ OnTheWay(p, id)
      BY <1>6 DEF InTransit
    <2>2. QED
      BY <1>1, <1>3, <1>4, <2>1 DEF ReceivingGoesOn, Incoming, OnTheWay, Between
  <1>7. QED
    BY <1>2, <1>3, <1>5, <1>6 DEF InTransit

\* onShareSendTick
LEMMA TickArrives ==
    ASSUME Base, Untroubled, InTransit, NEW p \in Peers, ShareSendTick(p)
    PROVE  InTransit'
  <1>1. UNCHANGED <<wire, down, server, receiving>>
    BY DEF ShareSendTick
  <1>2. CASE SendNext(p)
    BY <1>1, <1>2, SendNextArrives
  <1>3. CASE ~SendNext(p)
    <2>1. UNCHANGED <<net, server, outgoingShares, receiving, shown>>
      BY <1>1, <1>3 DEF ShareSendTick, net
    <2>2. QED
      BY <2>1, ArrivesQuietly
  <1>4. QED
    BY <1>2, <1>3

\* Everybody but the sender is forwarded what the sender shares.
LEMMA EverybodyElse ==
    ASSUME InTransit, NEW p \in Peers, NEW type \in {"share_meta", "share_chunk", "share_done"}
    PROVE  Recipients(First(p), type) = {First(r) : r \in Peers \ {p}}
  <1>1. /\ peers[First(p)] = [code |-> SessionCode, role |-> IF p = Host THEN "host" ELSE "guest"]
        /\ sessionOf[SessionCode] = SessionCode /\ host[SessionCode] = First(Host)
        /\ guests[SessionCode] = {First(g) : g \in Guests}
    BY DEF InTransit, Seated
  <1>2. SessionCode # NoCode
    BY CodesAssumption, SharesAssumption
  <1>3. SessionOfPeer(First(p)) = SessionCode
    BY <1>1, <1>2 DEF SessionOfPeer
  <1>4. \A r, t \in Peers : First(r) \in Sockets /\ (First(r) = First(t) => r = t)
    BY SocketsAre DEF First
  <1>5. First(Host) # NoSocket
    BY <1>4, SocketsAssumption DEF Peers
  <1>6. type \notin HostOnlyFrames /\ type \in PublicFrames
    BY DEF HostOnlyFrames, PublicFrames
  <1>7. Recipients(First(p), type) =
           IF p = Host THEN guests[SessionCode] ELSE Others(First(p), SessionCode)
    <2>1. peers[First(p)].role = "host" <=> p = Host
      BY <1>1
    <2>2. type # "intent" /\ type \notin VoiceFrames
      BY DEF VoiceFrames
    <2>3. QED
      BY <1>2, <1>3, <1>6, <2>1, <2>2 DEF Recipients
  <1>8. CASE p = Host
    <2>1. Peers \ {p} = Guests
      BY <1>8, PeersAssumption DEF Peers
    <2>2. QED
      BY <1>1, <1>7, <1>8, <2>1
  <1>9. CASE p # Host
    <2>1. Others(First(p), SessionCode)
             = ({First(g) : g \in Guests} \cup {First(Host)}) \ {First(p), NoSocket}
      BY <1>1 DEF Others
    <2>2. \A r \in Peers : First(r) # NoSocket
      BY <1>4, SocketsAssumption
    <2>3. QED
      BY <1>4, <1>7, <1>9, <2>1, <2>2 DEF Peers
  <1>10. QED
    BY <1>8, <1>9

\* The server forwards the first frame of p to everybody else.
LEMMA Forwarded ==
    ASSUME Base, Untroubled, InTransit, NEW s \in Sockets, ServerTask(s)
    PROVE  \E p \in Peers :
              /\ s = First(p) /\ up[s] # <<>>
              /\ up' = [up EXCEPT ![s] = Tail(up[s])]
              /\ down' = [x \in Sockets |->
                    IF \E r \in Peers \ {p} : x = First(r) THEN Append(down[x], Head(up[s]))
                    ELSE down[x]]
              /\ UNCHANGED <<wire, server>>
  <1>1. up[s] # <<>>
    BY DEF ServerTask, OnTextMessage, OnClientConnected, OnSocketDisconnected, OnJoin, OnPing,
           OnRelay, HeadIs
  <1>2. PICK p \in Peers : s = First(p)
    BY <1>1, SocketsAre DEF InTransit, Seated
  <1>3. Head(up[s]) \in Frames(up[s])
    BY <1>1, CountsTyped, TailOf
  <1>4. PICK type \in {"share_meta", "share_chunk", "share_done"} : type = Head(up[s]).type
    BY <1>2, <1>3 DEF InTransit, Carried, IsPiece
  <1>5. OnRelay(s)
    BY <1>4 DEF ServerTask, OnTextMessage, OnClientConnected, OnSocketDisconnected, OnJoin,
                OnPing, HeadIs
  <1>6. /\ up' = Consume(s) /\ UNCHANGED <<wire, server>>
        /\ down' = SentTo({First(r) : r \in Peers \ {p}}, Head(up[s]))
    BY <1>2, <1>4, <1>5, EverybodyElse DEF OnRelay
  <1>7. down' = [x \in Sockets |->
           IF \E r \in Peers \ {p} : x = First(r) THEN Append(down[x], Head(up[s])) ELSE down[x]]
    <2>1. \A x \in Sockets : x \in {First(r) : r \in Peers \ {p}} /\ Live(x)
                                <=> \E r \in Peers \ {p} : x = First(r)
      BY DEF Untroubled
    <2>2. QED
      BY <1>6, <2>1 DEF SentTo
  <1>8. QED
    BY <1>1, <1>2, <1>6, <1>7 DEF Consume

\* A task of the server.
LEMMA RelayArrives ==
    ASSUME Base, Untroubled, InTransit, NEW s \in Sockets, ServerStep(s)
    PROVE  InTransit'
  <1>1. PICK p \in Peers :
           /\ s = First(p) /\ up[s] # <<>>
           /\ up' = [up EXCEPT ![s] = Tail(up[s])]
           /\ down' = [x \in Sockets |->
                 IF \E r \in Peers \ {p} : x = First(r) THEN Append(down[x], Head(up[s]))
                 ELSE down[x]]
           /\ UNCHANGED <<wire, server>>
    BY Forwarded DEF ServerStep
  <1>2. UNCHANGED <<outgoingShares, incomingShares, shown>>
    BY DEF ServerStep, sending, receiving
  <1>3. /\ \A r \in Peers : First(r) \in Sockets /\ First(r)[1] = r
        /\ \A r, t \in Peers : First(r) = First(t) => r = t
    BY SocketsAre DEF First
  <1>4. PICK f \in Frame, q \in Seq(Frame) :
           /\ f = Head(up[s]) /\ q = Tail(up[s]) /\ Ordered(q)
           /\ Frames(up[s]) = Frames(q) \cup {f}
           /\ \A e \in Frames(q) : e.id = f.id => Number(f) < Number(e)
    <2>1. Ordered(up[s]) /\ up[s] \in Seq(Frame)
      BY <1>1, CountsTyped DEF InTransit, Carried
    <2>2. QED
      BY <1>1, <2>1, TailOf, TailOrdered
  <1>5. /\ \A r \in Peers : up'[First(r)] = IF r = p THEN q ELSE up[First(r)]
        /\ \A r \in Peers : down'[First(r)] = IF r = p THEN down[First(r)]
                                              ELSE Append(down[First(r)], f)
    BY <1>1, <1>3, <1>4 DEF Base, Types, Streams
  <1>6. IsPiece(f) /\ Owner[f.id] = p
    BY <1>1, <1>4 DEF InTransit, Carried
  <1>7. /\ \A r \in Peers : down[First(r)] \in Seq(Frame)
        /\ \A r \in Peers : Frames(down'[First(r)]) = IF r = p THEN Frames(down[First(r)])
                                                      ELSE Frames(down[First(r)]) \cup {f}
    <2>1. \A r \in Peers : down[First(r)] \in Seq(Frame)
      BY <1>3, CountsTyped
    <2>2. \A r \in Peers : Frames(Append(down[First(r)], f)) = Frames(down[First(r)]) \cup {f}
      BY <2>1, FramesAppended
    <2>3. QED
      BY <1>5, <2>1, <2>2
  <1>8. Seated'
    <2>1. ASSUME NEW x \in Sockets, x # First(x[1])
          PROVE  up'[x] = up[x] /\ down'[x] = down[x]
      <3>1. x # s /\ \A r \in Peers : x # First(r)
        BY <1>1, <1>3, <2>1
      <3>2. QED
        BY <1>1, <3>1 DEF Base, Types, Streams
    <2>2. QED
      BY <1>1, <2>1 DEF InTransit, Seated, server
  <1>9. /\ \A id \in Shares : SendingGoesOn(id)'
        /\ \A id : SentCount(id)' = SentCount(id)
        /\ \A r \in Peers, id \in Shares : TakenCount(r, id)' = TakenCount(r, id)
    BY <1>2 DEF InTransit, SendingGoesOn, SentCount, TakenCount, Incoming
  <1>10. ASSUME NEW r \in Peers PROVE Carried(r)'
    <2>1. Carried(r)
      BY DEF InTransit
    <2>2. \A e \in Frames(up'[First(r)]) :
             IsPiece(e) /\ Owner[e.id] = r /\ Number(e) <= SentCount(e.id)'
      <3>1. Frames(up'[First(r)]) \subseteq Frames(up[First(r)])
        BY <1>1, <1>4, <1>5
      <3>2. QED
        BY <1>9, <2>1, <3>1 DEF Carried
    <2>3. \A e \in Frames(down'[First(r)]) : IsPiece(e) /\ Owner[e.id] # r
      BY <1>6, <1>7, <2>1 DEF Carried
    <2>4. Ordered(up'[First(r)])
      BY <1>4, <1>5, <2>1 DEF Carried
    <2>5. Ordered(down'[First(r)])
      <3>1. CASE r = p
        BY <1>5, <2>1, <3>1 DEF Carried
      <3>2. CASE r # p
        <4>1. f.id \in Shares
          BY <1>6, PieceRead
        <4>2. OnTheWay(r, f.id)
          BY <1>6, <3>2, <4>1 DEF InTransit
        <4>3. \A e \in Frames(down[First(r)]) : e.id = f.id => Number(e) < Number(f)
          BY <1>1, <1>4, <1>6, <4>2 DEF OnTheWay, Between
        <4>4. QED
          BY <1>5, <1>7, <2>1, <3>2, <4>3, AppendOrdered DEF Carried
      <3>3. QED
        BY <3>1, <3>2
    <2>6. QED
      BY <2>2, <2>3, <2>4, <2>5, CarriedNext
  <1>11. ASSUME NEW r \in Peers, NEW id \in Shares, Owner[id] # r
         PROVE  ReceivingGoesOn(r, id)' /\ OnTheWay(r, id)'
    <2>1. ReceivingGoesOn(r, id) /\ OnTheWay(r, id)
      BY <1>11 DEF InTransit
    <2>2. ReceivingGoesOn(r, id)'
      BY <1>2, <2>1 DEF ReceivingGoesOn, Incoming
    <2>3. PICK o \in Peers : o = Owner[id]
      BY SharesAssumption
    <2>4. PICK above, below, n, m :
             /\ above = Frames(up[First(o)]) /\ below = Frames(down[First(r)])
             /\ n = TakenCount(r, id) /\ m = SentCount(id) /\ Between(above, below, id, n, m)
      BY <2>1, <2>3 DEF OnTheWay
    <2>5. Between(Frames(up'[First(o)]), Frames(down'[First(r)]), id, n, m)
      <3>1. CASE f.id = id
        <4>1. o = p /\ r # p
          BY <1>6, <1>11, <2>3, <3>1
        <4>2. above = Frames(q) \cup {f}
          BY <1>1, <1>4, <2>4, <4>1
        <4>3. Between(Frames(q), below \cup {f}, id, n, m)
          BY <1>4, <2>4, <3>1, <4>2, BetweenRelayed
        <4>4. QED
          BY <1>5, <1>7, <2>4, <4>1, <4>3
      <3>2. CASE f.id # id
        <4>1. Between(Frames(up'[First(o)]), below, id, n, m)
          <5>1. CASE o = p
            <6>1. above = Frames(q) \cup {f} /\ Frames(up'[First(o)]) = Frames(q)
              BY <1>1, <1>4, <1>5, <2>4, <5>1
            <6>2. Between(Frames(q), below, id, n, m)
              BY <2>4, <3>2, <6>1, BetweenUntouched
            <6>3. QED
              BY <6>1, <6>2
          <5>2. CASE o # p
            BY <1>5, <2>4, <5>2
          <5>3. QED
            BY <5>1, <5>2
        <4>2. Between(Frames(up'[First(o)]), below \cup {f}, id, n, m)
          BY <3>2, <4>1, BetweenUntouched
        <4>3. QED
          BY <1>7, <2>4, <4>1, <4>2
      <3>3. QED
        BY <3>1, <3>2
    <2>6. TakenCount(r, id)' = n /\ SentCount(id)' = m /\ n <= m
      BY <1>9, <2>1, <2>4 DEF OnTheWay
    <2>7. OnTheWay(r, id)'
      BY <2>3, <2>5, <2>6 DEF OnTheWay, Between
    <2>8. QED
      BY <2>2, <2>7
  <1>12. QED
    BY <1>8, <1>9, <1>10, <1>11 DEF InTransit

\* What p handles next of a share is the first frame that it has not handled.
LEMMA NextHandled ==
    ASSUME Base, InTransit, NEW p \in Peers, down[First(p)] # <<>>
    PROVE  \E f \in Frame, q \in Seq(Frame), id \in Shares :
              /\ f = Head(down[First(p)]) /\ q = Tail(down[First(p)]) /\ id = f.id
              /\ IsPiece(f) /\ Owner[id] # p
              /\ Frames(q) \subseteq Frames(down[First(p)]) /\ Ordered(q)
              /\ Number(f) = TakenCount(p, id) + 1 /\ TakenCount(p, id) + 1 <= SentCount(id)
              /\ \A x \in Shares : Owner[x] # p =>
                    Between(Frames(up[First(Owner[x])]), Frames(q), x,
                            IF x = id THEN TakenCount(p, id) + 1 ELSE TakenCount(p, x),
                            SentCount(x))
  <1>1. down[First(p)] \in Seq(Frame) /\ Carried(p)
    BY SocketsAre, CountsTyped DEF InTransit
  <1>2. PICK f \in Frame, q \in Seq(Frame) :
           /\ f = Head(down[First(p)]) /\ q = Tail(down[First(p)]) /\ Ordered(q)
           /\ Frames(down[First(p)]) = Frames(q) \cup {f}
           /\ \A e \in Frames(q) : e.id = f.id => Number(f) < Number(e)
    <2>1. Ordered(down[First(p)])
      BY <1>1 DEF Carried
    <2>2. QED
      BY <1>1, <2>1, TailOf, TailOrdered
  <1>3. IsPiece(f) /\ Owner[f.id] # p
    BY <1>1, <1>2 DEF Carried
  <1>4. PICK id \in Shares : id = f.id
    BY <1>3, PieceRead
  <1>5. ASSUME NEW x \in Shares, Owner[x] # p
        PROVE  /\ x = id => /\ Number(f) = TakenCount(p, id) + 1
                            /\ TakenCount(p, id) + 1 <= SentCount(id)
               /\ Between(Frames(up[First(Owner[x])]), Frames(q), x,
                          IF x = id THEN TakenCount(p, id) + 1 ELSE TakenCount(p, x),
                          SentCount(x))
    <2>1. PICK o \in Peers, n \in Nat, m \in Nat :
             o = Owner[x] /\ n = TakenCount(p, x) /\ m = SentCount(x)
      BY SharesAssumption, CountsTyped
    <2>2. PICK above, below : /\ above = Frames(up[First(o)]) /\ below = Frames(down[First(p)])
                              /\ Between(above, below, x, n, m)
      <3>1. OnTheWay(p, x)
        BY <1>5 DEF InTransit
      <3>2. QED
        BY <2>1, <3>1 DEF OnTheWay
    <2>3. PICK rest : /\ rest = Frames(q) /\ below = rest \cup {f}
                      /\ \A e \in rest : e.id = f.id => Number(f) < Number(e)
      BY <1>2, <2>2
    <2>4. /\ f.id = x => Number(f) = n + 1 /\ n + 1 <= m /\ Between(above, rest, x, n + 1, m)
          /\ f.id # x => Between(above, rest, x, n, m)
      <3>1. CASE f.id = x
        <4>1. Between(above, rest \cup {f}, f.id, n, m)
          BY <2>2, <2>3, <3>1
        <4>2. Number(f) \in {n + 1} /\ n + 1 <= m /\ Between(above, rest, f.id, n + 1, m)
          BY <2>3, <4>1, BetweenTaken
        <4>3. QED
          BY <3>1, <4>2
      <3>2. CASE f.id # x
        BY <2>2, <2>3, <3>2, BetweenUntouched
      <3>3. QED
        BY <3>1, <3>2
    <2>5. QED
      BY <1>4, <2>1, <2>2, <2>3, <2>4
  <1>6. QED
    BY <1>2, <1>3, <1>4, <1>5

\* A handler that takes one more frame of a share.
LEMMA TakeArrives ==
    ASSUME Base, InTransit, NEW p \in Peers, down[First(p)] # <<>>,
           down' = [down EXCEPT ![First(p)] = Tail(down[First(p)])],
           NEW id \in Shares, id = Head(down[First(p)]).id,
           TakenCount(p, id)' = TakenCount(p, id) + 1, ReceivingGoesOn(p, id)',
           \A r \in Peers, x \in Shares : <<r, x>> # <<p, id>> =>
              incomingShares'[r][x] = incomingShares[r][x] /\ shown'[r][x] = shown[r][x],
           UNCHANGED <<wire, up, server, outgoingShares>>
    PROVE  InTransit'
  <1>0. PICK f \in Frame, q \in Seq(Frame), y \in Shares :
           /\ f = Head(down[First(p)]) /\ q = Tail(down[First(p)]) /\ y = f.id
           /\ IsPiece(f) /\ Owner[y] # p
           /\ Frames(q) \subseteq Frames(down[First(p)]) /\ Ordered(q)
           /\ Number(f) = TakenCount(p, y) + 1 /\ TakenCount(p, y) + 1 <= SentCount(y)
           /\ \A x \in Shares : Owner[x] # p =>
                 Between(Frames(up[First(Owner[x])]), Frames(q), x,
                         IF x = y THEN TakenCount(p, y) + 1 ELSE TakenCount(p, x),
                         SentCount(x))
    BY NextHandled
  <1>1. /\ q = Tail(down[First(p)]) /\ Owner[id] # p
        /\ Frames(q) \subseteq Frames(down[First(p)]) /\ Ordered(q)
        /\ TakenCount(p, id) + 1 <= SentCount(id)
        /\ \A x \in Shares : Owner[x] # p =>
              Between(Frames(up[First(Owner[x])]), Frames(q), x,
                      IF x = id THEN TakenCount(p, id) + 1 ELSE TakenCount(p, x),
                      SentCount(x))
    <2>1. y = id
      BY <1>0
    <2>2. QED
      BY <1>0, <2>1
  <1>2. /\ \A r \in Peers : First(r) \in Sockets /\ First(r)[1] = r
        /\ \A r, t \in Peers : First(r) = First(t) => r = t
    BY SocketsAre DEF First
  <1>3. \A s \in Sockets : down'[s] = IF s = First(p) THEN q ELSE down[s]
    BY <1>1 DEF Base, Types, Streams
  <1>4. \A r \in Peers : down'[First(r)] = IF r = p THEN q ELSE down[First(r)]
    BY <1>2, <1>3
  <1>5. \A x \in Shares : SendingGoesOn(x)' /\ SentCount(x)' = SentCount(x)
    <2>1. \A x \in Shares : Owner[x] \in Peers /\ shown'[Owner[x]][x] = shown[Owner[x]][x]
      BY <1>1, SharesAssumption
    <2>2. QED
      BY <2>1 DEF InTransit, SendingGoesOn, SentCount
  <1>6. \A r \in Peers, x \in Shares : <<r, x>> # <<p, id>> =>
           /\ TakenCount(r, x)' = TakenCount(r, x)
           /\ ReceivingGoesOn(r, x) => ReceivingGoesOn(r, x)'
    BY DEF TakenCount, Incoming, ReceivingGoesOn
  <1>7. Seated'
    <2>1. \A s \in Sockets : s # First(s[1]) => s # First(p)
      BY <1>2
    <2>2. QED
      BY <1>3, <2>1 DEF InTransit, Seated, server
  <1>8. ASSUME NEW r \in Peers PROVE Carried(r)'
    <2>1. Carried(r)
      BY DEF InTransit
    <2>2. \A e \in Frames(up'[First(r)]) :
             IsPiece(e) /\ Owner[e.id] = r /\ Number(e) <= SentCount(e.id)'
      <3>1. \A e \in Frames(up[First(r)]) : IsPiece(e) /\ e \in Frame
        BY <1>2, <2>1, CountsTyped DEF Carried
      <3>2. \A e \in Frames(up[First(r)]) : e.id \in Shares
        BY <3>1, PieceRead
      <3>3. QED
        BY <1>5, <2>1, <3>2 DEF Carried
    <2>3. \A e \in Frames(down'[First(r)]) : IsPiece(e) /\ Owner[e.id] # r
      BY <1>1, <1>4, <2>1 DEF Carried
    <2>4. Ordered(up'[First(r)]) /\ Ordered(down'[First(r)])
      BY <1>1, <1>4, <2>1 DEF Carried
    <2>5. QED
      BY <2>2, <2>3, <2>4, CarriedNext
  <1>9. ASSUME NEW r \in Peers, NEW x \in Shares, Owner[x] # r
        PROVE  ReceivingGoesOn(r, x)' /\ OnTheWay(r, x)'
    <2>1. ReceivingGoesOn(r, x) /\ OnTheWay(r, x)
      BY <1>9 DEF InTransit
    <2>2. ReceivingGoesOn(r, x)'
      BY <1>6, <2>1
    <2>3. PICK n, above :
             /\ n = (IF <<r, x>> = <<p, id>> THEN TakenCount(p, id) + 1 ELSE TakenCount(r, x))
             /\ above = Frames(up[First(Owner[x])])
      OBVIOUS
    <2>4. n = TakenCount(r, x)' /\ SentCount(x)' = SentCount(x)
      BY <1>5, <1>6, <2>3
    <2>5. n <= SentCount(x)
      BY <1>1, <2>1, <2>3 DEF OnTheWay
    <2>6. Between(above, Frames(down'[First(r)]), x, n, SentCount(x))
      <3>1. CASE r = p
        <4>1. n = IF x = id THEN TakenCount(p, id) + 1 ELSE TakenCount(p, x)
          BY <2>3, <3>1
        <4>2. Between(above, Frames(q), x, n, SentCount(x))
          BY <1>1, <1>9, <2>3, <3>1, <4>1
        <4>3. QED
          BY <1>4, <3>1, <4>2
      <3>2. CASE r # p
        BY <1>4, <2>1, <2>3, <3>2 DEF OnTheWay
      <3>3. QED
        BY <3>1, <3>2
    <2>7. OnTheWay(r, x)'
      BY <2>3, <2>4, <2>5, <2>6 DEF OnTheWay, Between
    <2>8. QED
      BY <2>2, <2>7
  <1>10. QED
    BY <1>5, <1>7, <1>8, <1>9 DEF InTransit

\* The frame that p handles now, and how far its share has got.
LEMMA HeadIsNext ==
    ASSUME Base, Untroubled, InTransit, NEW p \in Peers, down[socket[p]] # <<>>
    PROVE  \E f \in Frame, id \in Shares, n \in Nat, t \in Nat :
              /\ f = Head(down[socket[p]]) /\ socket[p] = First(p)
              /\ id = f.id /\ IsPiece(f) /\ Owner[id] # p /\ ReceivingGoesOn(p, id)
              /\ n = TakenCount(p, id) /\ t = TotalChunks(id) /\ Number(f) = n + 1
  <1>1. socket[p] = First(p)
    BY DEF Untroubled
  <1>2. PICK f \in Frame, q \in Seq(Frame), id \in Shares :
           /\ f = Head(down[First(p)]) /\ q = Tail(down[First(p)]) /\ id = f.id
           /\ IsPiece(f) /\ Owner[id] # p
           /\ Frames(q) \subseteq Frames(down[First(p)]) /\ Ordered(q)
           /\ Number(f) = TakenCount(p, id) + 1 /\ TakenCount(p, id) + 1 <= SentCount(id)
           /\ \A x \in Shares : Owner[x] # p =>
                 Between(Frames(up[First(Owner[x])]), Frames(q), x,
                         IF x = id THEN TakenCount(p, id) + 1 ELSE TakenCount(p, x),
                         SentCount(x))
    BY <1>1, NextHandled
  <1>3. PICK n \in Nat, t \in Nat : n = TakenCount(p, id) /\ t = TotalChunks(id)
    BY CountsTyped, ChunksCount
  <1>4. ReceivingGoesOn(p, id)
    BY <1>2 DEF InTransit
  <1>5. QED
    BY <1>1, <1>2, <1>3, <1>4

\* What the handlers of p have in common.
HandlesHead(p) ==
    /\ down[socket[p]] # <<>> /\ down' = [down EXCEPT ![socket[p]] = Tail(down[socket[p]])]
    /\ UNCHANGED <<wire, server, outgoingShares>>

\* onShareMetaReceived
LEMMA MetaArrives ==
    ASSUME Base, Untroubled, InTransit, ~DiskMayFail, NEW p \in Peers, HandlesHead(p),
           OnShareMeta(p)
    PROVE  InTransit'
  <1>1. PICK f \in Frame, id \in Shares, n \in Nat, t \in Nat :
           /\ f = Head(down[socket[p]]) /\ socket[p] = First(p)
           /\ id = f.id /\ IsPiece(f) /\ Owner[id] # p /\ ReceivingGoesOn(p, id)
           /\ n = TakenCount(p, id) /\ t = TotalChunks(id) /\ Number(f) = n + 1
    BY HeadIsNext DEF HandlesHead
  <1>2. f.type = "share_meta" /\ n + 1 = 1
    <2>1. f.type = "share_meta"
      BY <1>1 DEF OnShareMeta
    <2>2. QED
      BY <1>1, <2>1 DEF Number
  <1>3. n = 0 /\ id \notin Incoming(p)
    <2>1. n = 0
      BY <1>2
    <2>2. ASSUME id \in Incoming(p) PROVE FALSE
      <3>1. PICK a \in Nat : a = incomingShares[p][id].receivedChunks
        BY <2>2 DEF Base, Types, ReceiveTypes, Incoming, AnyIncoming
      <3>2. a + 1 = 0
        BY <1>1, <2>1, <2>2, <3>1 DEF TakenCount
      <3>3. QED
        BY <3>2
    <2>3. QED
      BY <2>1, <2>2
  <1>4. PICK final \in FinalPaths : final = SharePath(p, id)
    <2>1. savedAs[p][id] = NoFile
      <3>1. PICK s \in Sockets : s = socket[p] /\ s[1] = p
        BY DEF Base, Types, ClientTypes, Connections
      <3>2. f = ShareMeta(id) /\ f \in Frames(down[s])
        BY <1>1, <1>2, <3>1, FramesRead, TailOf DEF HandlesHead, Base, Types, Streams
      <3>3. QED
        BY <3>1, <3>2 DEF Base, AnnouncedOnce, Announced
    <2>2. SharePath(p, id) \in FinalPaths
      BY <2>1, PathIsFree, PathsAre
    <2>3. QED
      BY <2>2
  <1>5. PICK new : new = [finalPath |-> final, received |-> <<>>, receivedChunks |-> 0]
    OBVIOUS
  <1>6. /\ incomingShares' = [incomingShares EXCEPT ![p][id] = new]
        /\ shown' = [shown EXCEPT ![p][id] = "receiving"]
        /\ UNCHANGED up
    BY <1>1, <1>3, <1>4, <1>5 DEF OnShareMeta, Show
  <1>7. new # NoShare /\ new.received = <<>> /\ new.receivedChunks = 0
    <2>1. new \in IncomingShare(id)
      BY <1>5 DEF IncomingShare
    <2>2. QED
      BY <1>5, <2>1, MissingAssumption
  <1>8. \A r \in Peers, x \in Shares :
           /\ incomingShares'[r][x] = IF r = p /\ x = id THEN new ELSE incomingShares[r][x]
           /\ shown'[r][x] = IF r = p /\ x = id THEN "receiving" ELSE shown[r][x]
    BY <1>6 DEF Base, Types, ReceiveTypes, ShownTypes
  <1>9. TakenCount(p, id)' = TakenCount(p, id) + 1
    BY <1>1, <1>3, <1>7, <1>8 DEF TakenCount, Incoming
  <1>10. ReceivingGoesOn(p, id)'
    <2>1. Lesser(Start(0), Size[id]) = 0
      BY SharesAssumption, Multiples DEF Lesser
    <2>2. Content(id, 0) = <<>>
      BY ContentEmpty
    <2>3. t >= 0
      OBVIOUS
    <2>4. QED
      BY <1>1, <1>7, <1>8, <2>1, <2>2, <2>3 DEF ReceivingGoesOn
  <1>11. \A r \in Peers, x \in Shares : <<r, x>> # <<p, id>> =>
            incomingShares'[r][x] = incomingShares[r][x] /\ shown'[r][x] = shown[r][x]
    BY <1>8
  <1>12. QED
    <2>1. /\ down[First(p)] # <<>> /\ id = Head(down[First(p)]).id
          /\ down' = [down EXCEPT ![First(p)] = Tail(down[First(p)])]
          /\ UNCHANGED <<wire, up, server, outgoingShares>>
      BY <1>1, <1>6 DEF HandlesHead
    <2>2. QED
      BY <1>9, <1>10, <1>11, <2>1, TakeArrives

\* A transfer of which everything but its end was handled goes on.
LEMMA StillIncoming ==
    ASSUME NEW p \in Peers, NEW id \in Shares, NEW n \in Nat, NEW t \in Nat,
           n = TakenCount(p, id), t = TotalChunks(id), n # 0, n <= t + 1,
           ReceivingGoesOn(p, id), Base
    PROVE  /\ id \in Incoming(p) /\ incomingShares[p][id] \in AnyIncoming
           /\ incomingShares[p][id].receivedChunks + 1 = n
           /\ incomingShares[p][id].received
                 = Content(id, Lesser(Start(incomingShares[p][id].receivedChunks), Size[id]))
  <1>1. n # t + 2
    OBVIOUS
  <1>2. id \in Incoming(p)
    BY <1>1 DEF TakenCount
  <1>3. incomingShares[p][id] \in AnyIncoming
    BY <1>2 DEF Base, Types, ReceiveTypes, Incoming
  <1>4. QED
    BY <1>2, <1>3 DEF TakenCount, ReceivingGoesOn

\* onShareChunkReceived
LEMMA ChunkArrives ==
    ASSUME Base, Untroubled, InTransit, ~DiskMayFail, NEW p \in Peers, HandlesHead(p),
           OnShareChunk(p)
    PROVE  InTransit'
  <1>1. PICK f \in Frame, id \in Shares, n \in Nat, t \in Nat :
           /\ f = Head(down[socket[p]]) /\ socket[p] = First(p)
           /\ id = f.id /\ IsPiece(f) /\ Owner[id] # p /\ ReceivingGoesOn(p, id)
           /\ n = TakenCount(p, id) /\ t = TotalChunks(id) /\ Number(f) = n + 1
    BY HeadIsNext DEF HandlesHead
  <1>2. PICK i \in Nat : /\ i = f.index /\ f.type = "share_chunk" /\ i < t /\ i + 2 = n + 1
                         /\ f.data = Units(id, Start(i), Lesser(Start(i) + ChunkSize, Size[id]))
    <2>1. f.type = "share_chunk"
      BY <1>1 DEF OnShareChunk
    <2>2. f.index \in Nat /\ f.index < t /\ Number(f) = f.index + 2
      BY <1>1, <2>1, PieceRead
    <2>3. QED
      BY <1>1, <2>1, <2>2 DEF IsPiece
  <1>3. PICK share \in AnyIncoming :
           /\ share = incomingShares[p][id] /\ id \in Incoming(p) /\ share.receivedChunks = i
           /\ share.received = Content(id, Lesser(Start(i), Size[id]))
    <2>1. n = i + 1 /\ n # 0 /\ n <= t + 1
      BY <1>2
    <2>2. /\ id \in Incoming(p) /\ incomingShares[p][id] \in AnyIncoming
          /\ incomingShares[p][id].receivedChunks + 1 = n
          /\ incomingShares[p][id].received
                = Content(id, Lesser(Start(incomingShares[p][id].receivedChunks), Size[id]))
      BY <1>1, <2>1, StillIncoming
    <2>3. incomingShares[p][id].receivedChunks = i
      BY <2>1, <2>2 DEF AnyIncoming
    <2>4. QED
      BY <2>2, <2>3
  <1>4. PICK a \in Nat, b \in Nat, z \in Nat, c \in Nat :
           /\ a = Start(i) /\ b = Lesser(Start(i) + ChunkSize, Size[id]) /\ z = Size[id]
           /\ c = Start(i + 1) /\ a < z /\ a <= b /\ b <= z
           /\ b = Lesser(c, z) /\ a = Lesser(a, z)
    <2>1. PICK a \in Nat, z \in Nat, s \in Nat : a = Start(i) /\ z = Size[id] /\ s = ChunkSize
      BY SharesAssumption, Multiples
    <2>2. a < z
      BY <1>1, <1>2, <2>1, ChunksCount
    <2>3. Start(i + 1) = a + s
      BY <2>1, Multiples
    <2>4. PICK b \in Nat : b = Lesser(a + s, z) /\ a <= b /\ b <= z /\ a = Lesser(a, z)
      BY <2>2 DEF Lesser
    <2>5. QED
      BY <2>1, <2>2, <2>3, <2>4
  <1>5. /\ share.received = Content(id, a) /\ f.data = Units(id, a, b)
        /\ share.received \in Seq(UnitsOf) /\ Len(share.received) = a
        /\ f.data \in Seq(UnitsOf) /\ Len(f.data) = b - a
        /\ share.received \o f.data = Content(id, b)
    <2>1. /\ share.received = Content(id, a) /\ Content(id, a) \in Seq(UnitsOf)
          /\ Len(Content(id, a)) = a
      BY <1>3, <1>4, ContentTyped
    <2>2. f.data = Units(id, a, b)
      BY <1>2, <1>4
    <2>3. Units(id, a, b) \in Seq(UnitsOf) /\ Len(Units(id, a, b)) = b - a
      BY <1>4, UnitsTyped
    <2>4. Content(id, a) \o Units(id, a, b) = Content(id, b)
      BY <1>4, ContentExtended
    <2>5. QED
      BY <2>1, <2>2, <2>3, <2>4
  <1>6. Acceptable(id, share, i, f.data)
    <2>1. a + (b - a) <= z
      BY <1>4
    <2>2. QED
      BY <1>1, <1>2, <1>3, <1>4, <1>5, <2>1 DEF Acceptable
  <1>7. /\ incomingShares' = [incomingShares EXCEPT
              ![p][id].received = @ \o f.data, ![p][id].receivedChunks = @ + 1]
        /\ UNCHANGED <<up, shown>>
    BY <1>1, <1>2, <1>3, <1>6 DEF OnShareChunk
  <1>8. PICK new : new = [finalPath |-> share.finalPath, received |-> share.received \o f.data,
                          receivedChunks |-> share.receivedChunks + 1]
    OBVIOUS
  <1>9. incomingShares' = [incomingShares EXCEPT ![p][id] = new]
    <2>1. share \in AnyIncoming /\ share = incomingShares[p][id]
      BY <1>3
    <2>2. PICK data : data = f.data
      OBVIOUS
    <2>3. Advances(p, id, data)
      BY <1>7, <2>2 DEF Advances
    <2>4. incomingShares' = [incomingShares EXCEPT
             ![p][id] = [finalPath |-> incomingShares[p][id].finalPath,
                         received |-> incomingShares[p][id].received \o data,
                         receivedChunks |-> incomingShares[p][id].receivedChunks + 1]]
      BY <2>1, <2>3, TransferAdvances
    <2>5. QED
      BY <1>8, <2>1, <2>2, <2>4
  <1>10. new # NoShare /\ new.received = Content(id, b) /\ new.receivedChunks = i + 1
    <2>1. share.finalPath \in FinalPaths /\ i + 1 \in Nat /\ Content(id, b) \in Seq(UnitsOf)
      BY <1>3, ContentTyped DEF AnyIncoming
    <2>2. new = [finalPath |-> share.finalPath, received |-> Content(id, b),
                 receivedChunks |-> i + 1]
      BY <1>3, <1>5, <1>8
    <2>3. new \in IncomingShare(id)
      BY <2>1, <2>2 DEF IncomingShare
    <2>4. QED
      BY <2>2, <2>3, MissingAssumption
  <1>11. \A r \in Peers, x \in Shares :
            incomingShares'[r][x] = IF r = p /\ x = id THEN new ELSE incomingShares[r][x]
    BY <1>9 DEF Base, Types, ReceiveTypes
  <1>12. TakenCount(p, id)' = TakenCount(p, id) + 1
    BY <1>3, <1>10, <1>11 DEF TakenCount, Incoming
  <1>13. ReceivingGoesOn(p, id)'
    <2>1. i + 1 <= t
      BY <1>2
    <2>2. incomingShares'[p][id] = new
      BY <1>11
    <2>3. b = Lesser(Start(i + 1), Size[id])
      BY <1>4
    <2>4. QED
      BY <1>1, <1>10, <2>1, <2>2, <2>3 DEF ReceivingGoesOn
  <1>14. \A r \in Peers, x \in Shares : <<r, x>> # <<p, id>> =>
            incomingShares'[r][x] = incomingShares[r][x] /\ shown'[r][x] = shown[r][x]
    <2>1. shown' = shown
      BY <1>7
    <2>2. QED
      BY <1>11, <2>1
  <1>15. QED
    <2>1. /\ down[First(p)] # <<>> /\ id = Head(down[First(p)]).id
          /\ down' = [down EXCEPT ![First(p)] = Tail(down[First(p)])]
          /\ UNCHANGED <<wire, up, server, outgoingShares>>
      BY <1>1, <1>7 DEF HandlesHead
    <2>2. QED
      BY <1>12, <1>13, <1>14, <2>1, TakeArrives

\* onShareDoneReceived: everything is there, and nobody has the file open.
LEMMA DoneArrives ==
    ASSUME Base, Sound, Untroubled, InTransit, ~DiskMayFail, NEW p \in Peers, HandlesHead(p),
           OnShareDone(p)
    PROVE  InTransit'
  <1>1. PICK f \in Frame, id \in Shares, n \in Nat, t \in Nat :
           /\ f = Head(down[socket[p]]) /\ socket[p] = First(p)
           /\ id = f.id /\ IsPiece(f) /\ Owner[id] # p /\ ReceivingGoesOn(p, id)
           /\ n = TakenCount(p, id) /\ t = TotalChunks(id) /\ Number(f) = n + 1
    BY HeadIsNext DEF HandlesHead
  <1>2. f.type = "share_done" /\ n = t + 1 /\ f.sha1 = Content(id, Size[id])
    <2>1. f.type = "share_done"
      BY <1>1 DEF OnShareDone
    <2>2. t + 2 = n + 1
      BY <1>1, <2>1 DEF Number
    <2>3. QED
      BY <1>1, <2>1, <2>2 DEF IsPiece
  <1>3. PICK share \in AnyIncoming :
           /\ share = incomingShares[p][id] /\ id \in Incoming(p) /\ share.receivedChunks = t
           /\ share.received = Content(id, Lesser(Start(t), Size[id]))
    <2>1. n # 0 /\ n <= t + 1 /\ t + 1 = n
      BY <1>2
    <2>2. /\ id \in Incoming(p) /\ incomingShares[p][id] \in AnyIncoming
          /\ incomingShares[p][id].receivedChunks + 1 = n
          /\ incomingShares[p][id].received
                = Content(id, Lesser(Start(incomingShares[p][id].receivedChunks), Size[id]))
      BY <1>1, <2>1, StillIncoming
    <2>3. incomingShares[p][id].receivedChunks = t
      <3>1. PICK k \in Nat : k = incomingShares[p][id].receivedChunks
        BY <2>2 DEF AnyIncoming
      <3>2. k + 1 = t + 1
        BY <1>2, <2>2, <3>1
      <3>3. QED
        BY <3>1, <3>2
    <2>4. QED
      BY <2>2, <2>3
  <1>4. share.received = Content(id, Size[id]) /\ Len(share.received) = Size[id]
    <2>1. Lesser(Start(t), Size[id]) = Size[id]
      <3>1. PICK a \in Nat, z \in Nat : a = Start(t) /\ z = Size[id] /\ a >= z
        BY <1>1, SharesAssumption, Multiples, ChunksCount
      <3>2. QED
        BY <3>1 DEF Lesser
    <2>2. Size[id] \in Nat
      BY SharesAssumption
    <2>3. QED
      BY <1>3, <2>1, <2>2, ContentTyped
  <1>5. ~Held(p, Temp(p, id), id) /\ ~Held(p, share.finalPath, id)
    BY <1>3, TransfersApart DEF Held
  <1>6. Erase(p, id) /\ Show(p, id, "received") /\ UNCHANGED up
    BY <1>1, <1>2, <1>3, <1>4, <1>5 DEF OnShareDone, Complete
  <1>7. \A r \in Peers, x \in Shares :
           /\ incomingShares'[r][x] = IF r = p /\ x = id THEN NoShare ELSE incomingShares[r][x]
           /\ shown'[r][x] = IF r = p /\ x = id THEN "received" ELSE shown[r][x]
    BY <1>6 DEF Erase, Show, Base, Types, ReceiveTypes, ShownTypes
  <1>8. TakenCount(p, id)' = t + 2
    BY <1>1, <1>7 DEF TakenCount, Incoming
  <1>9. TakenCount(p, id)' = TakenCount(p, id) + 1
    BY <1>1, <1>2, <1>8
  <1>10. ReceivingGoesOn(p, id)'
    BY <1>7 DEF ReceivingGoesOn, Incoming
  <1>11. \A r \in Peers, x \in Shares : <<r, x>> # <<p, id>> =>
            incomingShares'[r][x] = incomingShares[r][x] /\ shown'[r][x] = shown[r][x]
    BY <1>7
  <1>12. QED
    <2>1. /\ down[First(p)] # <<>> /\ id = Head(down[First(p)]).id
          /\ down' = [down EXCEPT ![First(p)] = Tail(down[First(p)])]
          /\ UNCHANGED <<wire, up, server, outgoingShares>>
      BY <1>1, <1>6 DEF HandlesHead
    <2>2. QED
      BY <1>9, <1>10, <1>11, <2>1, TakeArrives

\* A queued callback.
LEMMA HandleArrives ==
    ASSUME Base, Sound, Untroubled, InTransit, ~DiskMayFail, NEW p \in Peers, HandleEvent(p)
    PROVE  InTransit'
  <1>1. HandlesHead(p)
    BY DEF HandleEvent, HandlesHead, sending
  <1>2. Head(down[socket[p]]).type \in {"share_meta", "share_chunk", "share_done"}
    <2>1. PICK f \in Frame, id \in Shares, n \in Nat, t \in Nat :
             /\ f = Head(down[socket[p]]) /\ socket[p] = First(p)
             /\ id = f.id /\ IsPiece(f) /\ Owner[id] # p /\ ReceivingGoesOn(p, id)
             /\ n = TakenCount(p, id) /\ t = TotalChunks(id) /\ Number(f) = n + 1
      BY <1>1, HeadIsNext DEF HandlesHead
    <2>2. QED
      BY <2>1 DEF IsPiece
  <1>3. OnShareMeta(p) \/ OnShareChunk(p) \/ OnShareDone(p)
    BY <1>2 DEF HandleEvent, OnConnected, OnDisconnected, OnPeerUpdate
  <1>4. QED
    BY <1>1, <1>3, MetaArrives, ChunkArrives, DoneArrives

\* The server opens no connection: it may only close one.
LEMMA ServerWires ==
    ASSUME NEW s \in Sockets, ServerStep(s), NEW x \in Sockets
    PROVE  wire'[x] \in {wire[x], "down"}
  <1>1. CASE OnJoin(s)
    BY <1>1 DEF OnJoin
  <1>2. CASE ~OnJoin(s)
    BY <1>2 DEF ServerStep, ServerTask, OnClientConnected, OnSocketDisconnected, OnTextMessage,
                OnPing, OnRelay
  <1>3. QED
    BY <1>1, <1>2

\* Nobody goes back to connect what was connected at the start.
LEMMA NeverAnew ==
    ASSUME Base, [Next]_vars, NEW p \in Peers, wire[First(p)] # "connecting"
    PROVE  wire'[First(p)] # "connecting"
  <1>1. First(p) \in Sockets /\ wire \in [Sockets -> WireStates]
    BY SocketsAre DEF Base, Types, ServerOK
  <1>2. CASE wire' = wire
    BY <1>2
  <1>3. ASSUME NEW s \in Sockets, ServerStep(s) PROVE wire'[First(p)] # "connecting"
    <2>1. wire'[First(p)] \in {wire[First(p)], "down"}
      BY <1>1, <1>3, ServerWires
    <2>2. QED
      BY <2>1
  <1>4. ASSUME NEW r \in Peers, Reconnect(r) PROVE wire'[First(p)] # "connecting"
    <2>1. wire' = [wire EXCEPT ![<<r, socket[r][2] + 1>>] = "connecting"]
      BY <1>4 DEF Reconnect
    <2>2. PICK n \in Nat \ {0} : n = socket[r][2]
      BY SocketsAre DEF Base, Types, ClientTypes
    <2>3. <<r, n + 1>> # First(p)
      BY DEF First
    <2>4. QED
      BY <1>1, <2>1, <2>2, <2>3
  <1>5. ASSUME NEW g \in Guests, LeaveSession(g) PROVE wire'[First(p)] # "connecting"
    BY <1>1, <1>5 DEF LeaveSession
  <1>6. ASSUME NEW s \in Sockets, Open(s) PROVE wire'[First(p)] # "connecting"
    BY <1>1, <1>6 DEF Open, WireOpen
  <1>7. ASSUME NEW s \in Sockets, Drop(s) PROVE wire'[First(p)] # "connecting"
    BY <1>1, <1>7 DEF Drop, WireDrop
  <1>8. ASSUME NEW id \in Shares, SendSharedFile(id) \/ ChangeFile(id) PROVE wire' = wire
    BY <1>8 DEF SendSharedFile, ChangeFile, net
  <1>9. ASSUME NEW r \in Peers, ShareSendTick(r) \/ HandleEvent(r) PROVE wire' = wire
    BY <1>9 DEF ShareSendTick, HandleEvent
  <1>10. CASE UNCHANGED vars
    BY <1>10 DEF vars, net
  <1>11. QED
    BY <1>2, <1>3, <1>4, <1>5, <1>6, <1>7, <1>8, <1>9, <1>10 DEF Next

\* Every step that leaves the connections and the files alone keeps what is in transit
\* in transit.
LEMMA StepArrives ==
    ASSUME Base, Sound, ~DiskMayFail, Arriving, [Next]_vars
    PROVE  Arriving'
  <1>1. \A p \in Peers : wire'[First(p)] # "connecting"
    BY NeverAnew DEF Arriving
  <1> SUFFICES ASSUME Untroubled' PROVE InTransit'
    BY <1>1 DEF Arriving
  <1>2. /\ \A p \in Peers : /\ sessionActive'[p] /\ socket'[p] = First(p)
                            /\ wire'[First(p)] = "up"
        /\ length' = Size
    BY DEF Untroubled, Live
  <1>3. ASSUME UNCHANGED <<wire, socket, sessionActive, length>>
        PROVE  Untroubled /\ InTransit
    BY <1>2, <1>3 DEF Arriving, Untroubled, Live
  <1>4. ASSUME NEW id \in Shares, SendSharedFile(id) PROVE InTransit'
    <2>1. UNCHANGED <<wire, socket, sessionActive, length>>
      BY <1>4 DEF SendSharedFile, client
    <2>2. QED
      BY <1>3, <1>4, <2>1, SharedFileArrives
  <1>5. ASSUME NEW p \in Peers, ShareSendTick(p) PROVE InTransit'
    <2>1. UNCHANGED <<wire, socket, sessionActive, length>>
      BY <1>5 DEF ShareSendTick, client
    <2>2. QED
      BY <1>3, <1>5, <2>1, TickArrives
  <1>6. ASSUME NEW p \in Peers, HandleEvent(p) PROVE InTransit'
    <2>1. UNCHANGED <<wire, socket, sessionActive, length>>
      BY <1>6 DEF HandleEvent, OnShareMeta, OnShareChunk, OnShareDone, OnConnected,
                  OnDisconnected, OnPeerUpdate, client
    <2>2. QED
      BY <1>3, <1>6, <2>1, HandleArrives
  <1>7. ASSUME NEW s \in Sockets, ServerStep(s) PROVE InTransit'
    <2>1. UNCHANGED <<socket, sessionActive, length>>
      BY <1>7 DEF ServerStep, client
    <2>2. \A p \in Peers : wire[First(p)] = "up"
      <3>1. \A p \in Peers : wire'[First(p)] \in {wire[First(p)], "down"}
        BY <1>7, SocketsAre, ServerWires
      <3>2. QED
        BY <1>2, <3>1
    <2>3. Untroubled /\ InTransit
      BY <1>2, <2>1, <2>2 DEF Arriving, Untroubled, Live
    <2>4. QED
      BY <1>7, <2>3, RelayArrives
  <1>8. ASSUME NEW id \in Shares, ChangeFile(id) PROVE FALSE
    <2>1. PICK n \in (0 .. Size[id] + 1) \ {Size[id]} : length' = [length EXCEPT ![id] = n]
      BY <1>8 DEF ChangeFile
    <2>2. length'[id] = n
      BY <2>1 DEF Base, Types, SendTypes
    <2>3. QED
      BY <1>2, <2>1, <2>2
  <1>9. ASSUME NEW p \in Peers, Reconnect(p) PROVE FALSE
    <2>1. socket'[p] = <<p, socket[p][2] + 1>>
      BY <1>9 DEF Reconnect, Base, Types, ClientTypes
    <2>2. PICK n \in Nat \ {0} : n = socket[p][2]
      BY SocketsAre DEF Base, Types, ClientTypes
    <2>3. <<p, n + 1>> # First(p)
      BY DEF First
    <2>4. QED
      BY <1>2, <2>1, <2>2, <2>3
  <1>10. ASSUME NEW g \in Guests, LeaveSession(g) PROVE FALSE
    BY <1>2, <1>10 DEF LeaveSession, Base, Types, ClientTypes, Peers
  <1>11. ASSUME NEW s \in Sockets, Open(s) \/ Drop(s) PROVE FALSE
    <2>1. /\ wire[s] \in {"connecting", "up"} /\ wire[s] # wire'[s]
          /\ wire'[s] \in {"up", "down"} /\ (wire'[s] = "up" => wire[s] = "connecting")
          /\ \A x \in Sockets \ {s} : wire'[x] = wire[x]
          /\ UNCHANGED <<socket, sessionActive, length>>
      BY <1>11 DEF Open, Drop, WireOpen, WireDrop, Live, client, Base, Types, ServerOK
    <2>2. \A p \in Peers : s # First(p)
      BY <1>2, <2>1 DEF Arriving
    <2>3. Untroubled
      BY <1>2, <2>1, <2>2, SocketsAre DEF Untroubled, Live
    <2>4. wire[s] = "idle"
      BY <2>2, <2>3, SocketsAre DEF Arriving, InTransit, Seated
    <2>5. QED
      BY <2>1, <2>4
  <1>12. ASSUME UNCHANGED vars PROVE InTransit'
    <2>1. UNCHANGED <<net, server, outgoingShares, receiving, shown>>
      BY <1>12 DEF vars, sending
    <2>2. UNCHANGED <<wire, socket, sessionActive, length>>
      BY <1>12 DEF vars, net, client
    <2>3. QED
      BY <1>3, <2>1, <2>2, ArrivesQuietly
  <1>13. QED
    BY <1>4, <1>5, <1>6, <1>7, <1>8, <1>9, <1>10, <1>11, <1>12 DEF Next

\* At the start nothing is on its way.
LEMMA ArrivingInitially == Init => Arriving
  <1> SUFFICES ASSUME Init PROVE Arriving
    OBVIOUS
  <1>1. /\ \A s \in Sockets : up[s] = <<>> /\ down[s] = <<>>
        /\ \A s \in Sockets : wire[s] = IF s[2] = 1 THEN "up" ELSE "idle"
        /\ \A id \in Shares : outgoingShares[id] = NoShare
        /\ \A p \in Peers : \A id \in Shares : incomingShares[p][id] = NoShare
        /\ \A p \in Peers : \A id \in Shares : shown[p][id] = "none"
    BY DEF Init
  <1>2. \A p \in Peers : First(p) \in Sockets /\ First(p)[1] = p /\ First(p)[2] = 1
    BY SocketsAre DEF First
  <1>3. \A id \in Shares : Owner[id] \in Peers
    BY SharesAssumption
  <1>4. Seated
    <2>1. \A s \in Sockets : s # First(s[1]) => s[2] # 1
      BY SocketsAre DEF First
    <2>2. \A p \in Peers : peers[First(p)] =
             [code |-> SessionCode, role |-> IF p = Host THEN "host" ELSE "guest"]
      BY <1>2 DEF Init
    <2>3. /\ sessionOf[SessionCode] = SessionCode /\ host[SessionCode] = First(Host)
          /\ guests[SessionCode] = {First(g) : g \in Guests}
      BY SharesAssumption DEF Init
    <2>4. QED
      BY <1>1, <2>1, <2>2, <2>3 DEF Seated
  <1>5. \A id \in Shares : SendingGoesOn(id)
    BY <1>1, <1>3 DEF SendingGoesOn
  <1>6. \A p \in Peers : Carried(p)
    BY <1>1, <1>2 DEF Carried, Frames, Ordered
  <1>7. ASSUME NEW p \in Peers, NEW id \in Shares PROVE ReceivingGoesOn(p, id) /\ OnTheWay(p, id)
    <2>1. id \notin Incoming(p) /\ TakenCount(p, id) = 0 /\ SentCount(id) = 0
      BY <1>1, <1>3 DEF Incoming, TakenCount, SentCount
    <2>2. Frames(up[First(Owner[id])]) = {} /\ Frames(down[First(p)]) = {}
      BY <1>1, <1>2, <1>3 DEF Frames
    <2>3. 0 + 1 .. 0 = {} /\ 0 <= 0
      OBVIOUS
    <2>4. Between({}, {}, id, 0, 0)
      BY <2>3 DEF Between
    <2>5. QED
      BY <2>1, <2>2, <2>3, <2>4 DEF ReceivingGoesOn, OnTheWay
  <1>8. QED
    BY <1>1, <1>2, <1>4, <1>5, <1>6, <1>7 DEF Arriving, InTransit

\* When nothing is on its way, everybody has what was sent.
LEMMA ArrivedWhenQuiet ==
    ASSUME Base, Arriving
    PROVE  FilesArrive
  <1> SUFFICES ASSUME Untroubled, \A s \in Sockets : up[s] = <<>> /\ down[s] = <<>>,
                      NEW id \in Shares, shown[Owner[id]][id] \in {"sent", "failed"},
                      NEW p \in Peers \ {Owner[id]}
               PROVE  shown[p][id] = "received"
    BY DEF FilesArrive
  <1>1. InTransit
    BY DEF Arriving
  <1>2. PICK t \in Nat, n \in Nat : t = TotalChunks(id) /\ n = TakenCount(p, id)
    BY ChunksCount, CountsTyped
  <1>3. SentCount(id) = t + 2
    BY <1>1, <1>2 DEF InTransit, SendingGoesOn, SentCount
  <1>4. ReceivingGoesOn(p, id) /\ OnTheWay(p, id)
    BY <1>1 DEF InTransit
  <1>5. Frames(up[First(Owner[id])]) = {} /\ Frames(down[First(p)]) = {}
    BY SocketsAre, SharesAssumption DEF Frames
  <1>6. n <= t + 2 /\ Between({}, {}, id, n, t + 2)
    BY <1>2, <1>3, <1>4, <1>5 DEF OnTheWay
  <1>7. n = t + 2
    <2>1. n + 1 .. t + 2 = {}
      BY <1>6 DEF Between
    <2>2. ~(n < t + 2)
      <3>1. ASSUME n < t + 2 PROVE n + 1 \in n + 1 .. t + 2
        BY <3>1
      <3>2. QED
        BY <2>1, <3>1
    <2>3. QED
      BY <1>6, <2>2
  <1>8. id \notin Incoming(p)
    <2> SUFFICES ASSUME id \in Incoming(p) PROVE FALSE
      OBVIOUS
    <2>1. PICK k \in Nat : k = incomingShares[p][id].receivedChunks
      BY DEF Base, Types, ReceiveTypes, Incoming, AnyIncoming
    <2>2. k <= t /\ k + 1 = n
      BY <1>2, <1>4, <2>1 DEF ReceivingGoesOn, TakenCount
    <2>3. QED
      BY <1>7, <2>2
  <1>9. QED
    BY <1>2, <1>7, <1>8 DEF TakenCount

\* If no connection ever broke, no file changed and no disk failed, a file whose
\* transfer has ended at its sender is received everywhere as soon as nothing is
\* on its way: what onShareSendTick sends reaches everybody over RelayToPeers, in
\* order, and the handlers refuse none of it.
THEOREM SharedFilesArrive == NamesApart /\ ~DiskMayFail /\ Spec => []FilesArrive
  <1> SUFFICES ASSUME NamesApart, ~DiskMayFail PROVE Spec => []FilesArrive
    OBVIOUS
  <1>1. Init => Arriving
    BY ArrivingInitially
  <1>2. Base /\ Sound /\ Arriving /\ [Next]_vars => Arriving'
    BY StepArrives
  <1>3. Base /\ Arriving => FilesArrive
    BY ArrivedWhenQuiet
  <1>4. Spec => [](Base /\ Sound)
    BY AlwaysSound
  <1>5. QED
    BY <1>1, <1>2, <1>3, <1>4, PTL DEF Spec

=============================================================================
