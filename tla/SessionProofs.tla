---------------------------- MODULE SessionProofs ----------------------------
(***************************************************************************)
(* Proofs about Session, for every set of clients, every amount of output  *)
(* and input and every number of faults: what the threads of a session     *)
(* keep of the client list, the transcript and the fan-out.                *)
(***************************************************************************)
EXTENDS Session, SequenceTheorems, TLAPS

-----------------------------------------------------------------------------
(* Lists that hold nobody twice.                                            *)

(* Who is on a list. *)
LEMMA MembersOf ==
  /\ \A S : \A s \in Seq(S) : Members(s) \subseteq S
  /\ Members(<< >>) = {}
BY DEF Members

(* What is appended comes last. *)
LEMMA Appended ==
  ASSUME NEW S, NEW s \in Seq(S), NEW x \in S
  PROVE  /\ Append(s, x) \in Seq(S) /\ Append(s, x) # << >>
         /\ Len(Append(s, x)) = Len(s) + 1 /\ Append(s, x)[Len(s) + 1] = x
         /\ \A i \in 1 .. Len(s) : Append(s, x)[i] = s[i]
OBVIOUS

(* list.append of somebody new. *)
LEMMA AppendDoes ==
  ASSUME NEW S, NEW s \in Seq(S), Once(s), NEW c \in S, c \notin Members(s)
  PROVE  /\ Append(s, c) \in Seq(S) /\ Once(Append(s, c))
         /\ Members(Append(s, c)) = Members(s) \cup {c}
<1> DEFINE t == Append(s, c)
<1>1. /\ t \in Seq(S) /\ Len(t) = Len(s) + 1 /\ t[Len(s) + 1] = c /\ Len(s) \in Nat
      /\ \A i \in 1 .. Len(s) : t[i] = s[i]
  OBVIOUS
<1> HIDE DEF t
<1>2. Once(t)
  BY <1>1 DEF Once, Members
<1>3. Members(t) = Members(s) \cup {c}
  BY <1>1 DEF Members
<1> QED BY <1>1, <1>2, <1>3 DEF t

(* The rest of a list. *)
LEMMA TailDoes ==
  ASSUME NEW S, NEW s \in Seq(S), Once(s), s # << >>
  PROVE  /\ Head(s) \in S /\ Head(s) \in Members(s)
         /\ Tail(s) \in Seq(S) /\ Once(Tail(s))
         /\ Members(Tail(s)) = Members(s) \ {Head(s)}
<1> DEFINE t == Tail(s)
<1>1. /\ Len(s) \in Nat /\ Len(s) > 0 /\ Head(s) = s[1]
      /\ t \in Seq(S) /\ Len(t) = Len(s) - 1 /\ \A i \in 1 .. Len(t) : t[i] = s[i + 1]
  OBVIOUS
<1> HIDE DEF t
<1>2. Once(t)
  BY <1>1 DEF Once
<1>3. Head(s) \in Members(s)
  BY <1>1 DEF Members
<1>4. Members(t) \subseteq Members(s) \ {Head(s)}
  BY <1>1 DEF Members, Once
<1>5. ASSUME NEW d \in Members(s), d # Head(s) PROVE d \in Members(t)
  <2>1. PICK i \in 1 .. Len(s) : d = s[i]
    BY DEF Members
  <2>2. i - 1 \in 1 .. Len(t) /\ t[i - 1] = s[i]
    BY <1>1, <1>5, <2>1
  <2> QED BY <2>1, <2>2 DEF Members
<1> QED BY <1>1, <1>2, <1>3, <1>4, <1>5 DEF t

(* list.remove takes somebody off, wherever it stands, and leaves the list  *)
(* alone when it is not there.                                              *)
LEMMA WithoutDoes ==
  ASSUME NEW S, NEW s \in Seq(S), Once(s), NEW c
  PROVE  /\ Without(s, c) \in Seq(S) /\ Once(Without(s, c))
         /\ Members(Without(s, c)) = Members(s) \ {c}
<1>1. CASE c \notin Members(s)
  <2>1. Without(s, c) = s
    BY <1>1 DEF Members, Without, Seqs!RemoveFirst
  <2> QED BY <1>1, <2>1
<1>2. CASE c \in Members(s)
  <2> DEFINE I == {i \in 1 .. Len(s) : s[i] = c}
  <2>1. PICK k \in 1 .. Len(s) : s[k] = c
    BY <1>2 DEF Members
  <2>2. I = {k}
    BY <2>1 DEF Once
  <2>3. Seqs!Min(I) = k
    BY <2>1, <2>2 DEF Seqs!Min
  <2>4. Without(s, c) = Seqs!RemoveAt(s, k)
    BY <2>1, <2>2, <2>3 DEF Without, Seqs!RemoveFirst, Seqs!SelectInSeq
  <2> DEFINE t == Without(s, c)
  <2>5. t = SubSeq(s, 1, k - 1) \o SubSeq(s, k + 1, Len(s))
    BY <2>4 DEF Seqs!RemoveAt
  <2>6. /\ t \in Seq(S) /\ Len(t) = Len(s) - 1 /\ Len(s) \in Nat
        /\ \A i \in 1 .. Len(t) : t[i] = IF i < k THEN s[i] ELSE s[i + 1]
    <3> DEFINE A == SubSeq(s, 1, k - 1)
               B == SubSeq(s, k + 1, Len(s))
    <3>1. Len(s) \in Nat /\ k \in Nat /\ 0 < k /\ k <= Len(s)
      BY <2>1
    <3>2. A \in Seq(S) /\ Len(A) = k - 1 /\ \A i \in 1 .. Len(A) : A[i] = s[i]
      BY <3>1
    <3>3. B \in Seq(S) /\ Len(B) = Len(s) - k /\ \A i \in 1 .. Len(B) : B[i] = s[k + i]
      BY <3>1
    <3>4. t = A \o B
      BY <2>5
    <3> HIDE DEF t, A, B
    <3>5. /\ t \in Seq(S) /\ Len(t) = Len(A) + Len(B)
          /\ \A i \in 1 .. Len(t) : t[i] = IF i <= Len(A) THEN A[i] ELSE B[i - Len(A)]
      <4>1. Len(A) + Len(B) = Len(t) /\ t \in Seq(S)
        BY <3>2, <3>3, <3>4, ConcatProperties
      <4> QED BY <3>2, <3>3, <3>4, <4>1, ConcatProperties
    <3>6. ASSUME NEW i \in 1 .. Len(t) PROVE t[i] = IF i < k THEN s[i] ELSE s[i + 1]
      <4>1. CASE i < k
        <5>1. i \in 1 .. Len(A)
          BY <3>1, <3>2, <4>1
        <5>2. t[i] = A[i]
          BY <3>2, <3>5, <5>1
        <5> QED BY <3>2, <4>1, <5>1, <5>2
      <4>2. CASE ~ (i < k)
        <5>1. i - Len(A) \in 1 .. Len(B) /\ k + (i - Len(A)) = i + 1
          BY <3>1, <3>2, <3>3, <3>5, <4>2
        <5>2. t[i] = B[i - Len(A)]
          BY <3>1, <3>2, <3>5, <4>2
        <5> QED BY <3>3, <4>2, <5>1, <5>2
      <4> QED BY <4>1, <4>2
    <3> QED BY <3>1, <3>2, <3>3, <3>5, <3>6
  <2> HIDE DEF t
  <2>7. Once(t)
    BY <2>1, <2>6 DEF Once
  <2>8. Members(t) \subseteq Members(s) \ {c}
    BY <2>1, <2>6 DEF Once, Members
  <2>9. ASSUME NEW d \in Members(s), d # c PROVE d \in Members(t)
    <3>1. PICK i \in 1 .. Len(s) : d = s[i]
      BY DEF Members
    <3>2. CASE i < k
      BY <2>1, <2>6, <3>1, <3>2 DEF Members
    <3>3. CASE i > k
      <4>1. i - 1 \in 1 .. Len(t) /\ t[i - 1] = s[i]
        BY <2>1, <2>6, <3>1, <3>3
      <4> QED BY <3>1, <4>1 DEF Members
    <3> QED BY <2>1, <2>9, <3>1, <3>2, <3>3
  <2> QED BY <2>6, <2>7, <2>8, <2>9 DEF t
<1> QED BY <1>1, <1>2

-----------------------------------------------------------------------------
(* The accept thread has taken c. *)
Accepted(c) == acceptor.client = c \/ pump[c] # "none"

(* A client is accepted once, and belongs to the accept thread until its    *)
(* own thread starts.                                                       *)
AcceptsOnce ==
  /\ main \in {"new", "reading"} => acceptor.at = "off"
  /\ acceptor.at = "spawn" <=> acceptor.client # Nobody
  /\ acceptor.client # Nobody => pump[acceptor.client] = "none"
  /\ \A c \in Clients : conn[c] \in {"away", "waiting"} => ~ Accepted(c)
  /\ \A c \in Clients : conn[c] = "open" => Accepted(c)

(* Only accepted clients are on the list, a removed one is closed and never *)
(* comes back, and the reader's copy of the list holds nobody else.         *)
Listed ==
  /\ \A c \in Members(clients) : Accepted(c) /\ c \notin closed
  /\ \A c \in closed : Accepted(c)
  /\ \A c \in Members(reader.left) : c \in Members(clients) \/ c \in closed
  /\ \A c \in Clients : pump[c] = "done" => c \in closed

(* The reader has a copy of the list only while it sends a chunk.           *)
ReaderAt ==
  /\ main = "new" => reader.at = "off"
  /\ reader.at # "send" => reader.left = << >>
  /\ reader.at = "send" => reader.chunk > 0
  /\ reader.chunk <= out

(* The transcript holds the chunks of each origin from the first to the     *)
(* last, as far as its thread has got, and what the guest has received.     *)
Transcript ==
  /\ Len(log[Nobody]) = reader.chunk
  /\ \A c \in Clients :
       pump[c] \in {"none", "recv", "send"} => Len(log[c]) = taken[c]
  /\ \A c \in Clients : pump[c] = "send" => taken[c] > 0
  /\ \A c \in Clients \cup {Nobody} : \A i \in 1 .. Len(log[c]) : log[c][i] = i
  /\ \A i \in 1 .. Len(guestIn) : guestIn[i][2] \in 1 .. Len(log[guestIn[i][1]])

(* The last chunk of a client on the list is the reader's, or the one       *)
(* before if its turn is still to come.                                     *)
UpToDate ==
  /\ \A c \in Clients : got[c] # << >> => Accepted(c)
  /\ \A c \in Clients : \A i \in 1 .. Len(got[c]) : got[c][i] \in 1 .. reader.chunk
  /\ \A c \in Members(clients) : got[c] # << >> =>
       got[c][Len(got[c])] =
         IF c \in Members(reader.left) THEN reader.chunk - 1 ELSE reader.chunk

SessionInv == TypeOK /\ AcceptsOnce /\ Listed /\ ReaderAt /\ Transcript /\ UpToDate /\ Gapless

(* Before start() nothing is attached and nothing recorded. *)
LEMMA SessionInvInit == Init => SessionInv
<1> SUFFICES ASSUME Init PROVE SessionInv
  OBVIOUS
<1> USE SessionAssumption DEF SessionAssumption
<1>1. Members(<< >>) = {} /\ Once(<< >>)
  BY DEF Members, Once
<1>2. TypeOK
  <2>1. /\ main \in {"new", "reading", "open", "stopping", "closed"}
        /\ out \in 0 .. MaxOut /\ guest \in BOOLEAN
    BY DEF Init
  <2>8. deaf \in BOOLEAN
    BY DEF Init
  <2>2. /\ reader \in [at : {"off", "recv", "send", "done"}, chunk : 0 .. MaxOut,
                       left : Seq(Clients)]
        /\ Once(reader.left)
    BY <1>1 DEF Init
  <2>3. /\ acceptor \in [at : {"off", "accept", "spawn", "done"},
                         client : Clients \cup {Nobody}]
        /\ clients \in Seq(Clients) /\ Once(clients)
    BY <1>1 DEF Init
  <2>4. /\ conn \in [Clients -> {"away", "waiting", "open", "hungup"}]
        /\ pump \in [Clients -> {"none", "recv", "send", "blocked", "remove", "done"}]
    BY DEF Init
  <2>5. /\ typed \in [Clients -> Nat] /\ taken \in [Clients -> Nat]
        /\ \A c \in Clients : taken[c] <= typed[c]
    BY DEF Init
  <2>6. log \in [Clients \cup {Nobody} -> Seq(Nat)] /\ got \in [Clients -> Seq(1 .. MaxOut)]
    BY DEF Init
  <2>7. /\ guestIn \in Seq(Clients \X Nat)
        /\ closed \subseteq Clients /\ stalled \subseteq Clients
        /\ unwritten \subseteq Clients \cup {Nobody}
    BY DEF Init
  <2> QED BY <2>1, <2>2, <2>3, <2>4, <2>5, <2>6, <2>7, <2>8 DEF TypeOK
<1>3. AcceptsOnce
  BY DEF Init, AcceptsOnce, Accepted
<1>4. Listed
  BY <1>1 DEF Init, Listed
<1>5. ReaderAt
  BY DEF Init, ReaderAt
<1>6. Transcript
  BY DEF Init, Transcript
<1>7. UpToDate /\ Gapless
  BY <1>1 DEF Init, UpToDate, Gapless
<1> QED BY <1>2, <1>3, <1>4, <1>5, <1>6, <1>7 DEF SessionInv

(* Every step of a thread, the guest, a client or the owner preserves it. *)
LEMMA SessionInvStep == SessionInv /\ [Next]_vars => SessionInv'
<1> SUFFICES ASSUME SessionInv, [Next]_vars PROVE SessionInv'
  OBVIOUS
<1> USE SessionAssumption DEF SessionAssumption
<1>0. /\ TypeOK /\ AcceptsOnce /\ Listed /\ ReaderAt /\ Transcript /\ UpToDate /\ Gapless
  BY DEF SessionInv
<1>m. /\ main \in {"new", "reading", "open", "stopping", "closed"}
      /\ out \in 0 .. MaxOut /\ out \in Nat /\ guest \in BOOLEAN /\ stalled \subseteq Clients
      /\ deaf \in BOOLEAN
  BY <1>0 DEF TypeOK
<1>r. /\ reader \in [at : {"off", "recv", "send", "done"}, chunk : 0 .. MaxOut,
                     left : Seq(Clients)]
      /\ reader.left \in Seq(Clients) /\ Once(reader.left)
      /\ reader.chunk \in 0 .. MaxOut /\ reader.chunk \in Nat
  BY <1>0 DEF TypeOK
<1>a. acceptor \in [at : {"off", "accept", "spawn", "done"},
                    client : Clients \cup {Nobody}]
  BY <1>0 DEF TypeOK
<1>l. /\ clients \in Seq(Clients) /\ Once(clients) /\ Members(clients) \subseteq Clients
      /\ closed \subseteq Clients
  BY <1>0, MembersOf DEF TypeOK
<1>c. conn \in [Clients -> {"away", "waiting", "open", "hungup"}]
  BY <1>0 DEF TypeOK
<1>p. pump \in [Clients -> {"none", "recv", "send", "blocked", "remove", "done"}]
  BY <1>0 DEF TypeOK
<1>t. /\ typed \in [Clients -> Nat] /\ taken \in [Clients -> Nat]
      /\ \A d \in Clients : taken[d] <= typed[d]
  BY <1>0 DEF TypeOK
<1>w. /\ log \in [Clients \cup {Nobody} -> Seq(Nat)]
      /\ \A d \in Clients \cup {Nobody} : log[d] \in Seq(Nat) /\ Len(log[d]) \in Nat
      /\ unwritten \subseteq Clients \cup {Nobody}
  <2>1. log \in [Clients \cup {Nobody} -> Seq(Nat)]
    BY <1>0 DEF TypeOK
  <2>2. unwritten \subseteq Clients \cup {Nobody}
    BY <1>0 DEF TypeOK
  <2> QED BY <2>1, <2>2, LenProperties
<1>g. /\ got \in [Clients -> Seq(1 .. MaxOut)]
      /\ \A d \in Clients : got[d] \in Seq(1 .. MaxOut) /\ Len(got[d]) \in Nat
  BY <1>0 DEF TypeOK
<1>i. guestIn \in Seq(Clients \X Nat)
  BY <1>0 DEF TypeOK
<1>1. CASE StartReader
  <2>1. UNCHANGED <<out, guest, deaf, acceptor, clients, conn, closed, stalled, pump,
                    typed, taken, log, unwritten, got, guestIn>>
    BY <1>1 DEF StartReader, threads, peers, data, file
  <2>2. /\ main = "new" /\ main' = "reading" /\ reader.at = "off"
        /\ reader'.at = "recv" /\ reader'.chunk = reader.chunk /\ reader'.left = reader.left
        /\ reader' \in [at : {"off", "recv", "send", "done"}, chunk : 0 .. MaxOut,
                        left : Seq(Clients)]
    BY <1>1, <1>0, <1>r DEF StartReader, ReaderAt
  <2>3. TypeOK'
    <3>1. main' \in {"new", "reading", "open", "stopping", "closed"}
      BY <1>m, <1>r, <2>1, <2>2
    <3>2. reader' \in [at : {"off", "recv", "send", "done"}, chunk : 0 .. MaxOut,
                       left : Seq(Clients)] /\ Once(reader'.left)
      BY <1>m, <1>r, <2>1, <2>2
    <3> QED BY <1>0, <2>1, <3>1, <3>2 DEF TypeOK
  <2>4. AcceptsOnce'
    BY <1>0, <1>a, <1>c, <1>m, <1>p, <1>r, <2>1, <2>2 DEF AcceptsOnce, Accepted
  <2>5. Listed'
    BY <1>0, <1>a, <1>l, <1>m, <1>p, <1>r, <2>1, <2>2 DEF Listed, Accepted
  <2>6. ReaderAt'
    BY <1>0, <1>m, <1>r, <2>1, <2>2 DEF ReaderAt
  <2>7. Transcript'
    BY <1>0, <1>i, <1>m, <1>p, <1>r, <1>t, <1>w, <2>1, <2>2 DEF Transcript
  <2>8. UpToDate'
    BY <1>0, <1>a, <1>g, <1>l, <1>m, <1>p, <1>r, <2>1, <2>2 DEF UpToDate, Accepted
  <2>9. Gapless'
    BY <1>0, <2>1 DEF Gapless
  <2> QED BY <2>3, <2>4, <2>5, <2>6, <2>7, <2>8, <2>9 DEF SessionInv
<1>2. CASE StartListener
  <2>1. UNCHANGED <<out, guest, deaf, reader, clients, conn, closed, stalled, pump, typed,
                    taken, log, unwritten, got, guestIn>>
    BY <1>2 DEF StartListener, threads, peers, data, file
  <2>2. /\ main = "reading" /\ main' = "open" /\ acceptor.at = "off"
        /\ acceptor'.at = "accept" /\ acceptor'.client = acceptor.client
        /\ acceptor' \in [at : {"off", "accept", "spawn", "done"},
                          client : Clients \cup {Nobody}]
    BY <1>2, <1>0, <1>a DEF StartListener, AcceptsOnce
  <2>3. TypeOK'
    <3>1. main' \in {"new", "reading", "open", "stopping", "closed"}
      BY <1>a, <1>m, <2>1, <2>2
    <3>2. acceptor' \in [at : {"off", "accept", "spawn", "done"},
                         client : Clients \cup {Nobody}]
      BY <1>a, <1>m, <2>1, <2>2
    <3> QED BY <1>0, <2>1, <3>1, <3>2 DEF TypeOK
  <2>4. AcceptsOnce'
    BY <1>0, <1>a, <1>c, <1>m, <1>p, <2>1, <2>2 DEF AcceptsOnce, Accepted
  <2>5. Listed'
    BY <1>0, <1>a, <1>l, <1>m, <1>p, <1>r, <2>1, <2>2 DEF Listed, Accepted
  <2>6. ReaderAt'
    BY <1>0, <1>a, <1>m, <1>r, <2>1, <2>2 DEF ReaderAt
  <2>7. Transcript'
    BY <1>0, <2>1 DEF Transcript
  <2>8. UpToDate'
    BY <1>0, <1>a, <1>g, <1>l, <1>m, <1>p, <1>r, <2>1, <2>2 DEF UpToDate, Accepted
  <2>9. Gapless'
    BY <1>0, <2>1 DEF Gapless
  <2> QED BY <2>3, <2>4, <2>5, <2>6, <2>7, <2>8, <2>9 DEF SessionInv
<1>3. CASE Close
  <2>1. UNCHANGED <<out, guest, deaf, reader, acceptor, clients, conn, closed, stalled,
                    pump, typed, taken, log, unwritten, got, guestIn>>
    BY <1>3 DEF Close, threads, peers, data, file
  <2>2. TypeOK'
    <3>1. main' \in {"new", "reading", "open", "stopping", "closed"}
      BY <1>3, <1>m, <2>1 DEF Close
    <3> QED BY <1>0, <2>1, <3>1 DEF TypeOK
  <2>3. AcceptsOnce'
    BY <1>3, <1>0, <1>a, <1>c, <1>m, <1>p, <2>1 DEF AcceptsOnce, Accepted, Close
  <2>4. Listed'
    BY <1>0, <2>1 DEF Listed, Accepted
  <2>5. ReaderAt'
    BY <1>3, <1>0, <1>m, <1>r, <2>1 DEF ReaderAt, Close
  <2>6. Transcript'
    BY <1>0, <2>1 DEF Transcript
  <2>7. UpToDate'
    BY <1>0, <2>1 DEF UpToDate, Accepted
  <2>8. Gapless'
    BY <1>0, <2>1 DEF Gapless
  <2> QED BY <2>2, <2>3, <2>4, <2>5, <2>6, <2>7, <2>8 DEF SessionInv
<1>4. CASE GuestWrites
  <2>1. UNCHANGED <<main, guest, deaf, reader, acceptor, clients, conn, closed, stalled,
                    pump, typed, taken, log, unwritten, got, guestIn>>
    BY <1>4 DEF GuestWrites, threads, peers, data, file
  <2>2. TypeOK'
    <3>1. out' \in 0 .. MaxOut
      BY <1>4, <1>m, <2>1 DEF GuestWrites
    <3> QED BY <1>0, <2>1, <3>1 DEF TypeOK
  <2>3. AcceptsOnce'
    BY <1>0, <2>1 DEF AcceptsOnce, Accepted
  <2>4. Listed'
    BY <1>0, <2>1 DEF Listed, Accepted
  <2>5. ReaderAt'
    BY <1>4, <1>0, <1>m, <1>r, <2>1 DEF ReaderAt, GuestWrites
  <2>6. Transcript'
    BY <1>0, <2>1 DEF Transcript
  <2>7. UpToDate'
    BY <1>0, <2>1 DEF UpToDate, Accepted
  <2>8. Gapless'
    BY <1>0, <2>1 DEF Gapless
  <2> QED BY <2>2, <2>3, <2>4, <2>5, <2>6, <2>7, <2>8 DEF SessionInv
<1>5. CASE GuestExits
  <2>1. UNCHANGED <<main, out, deaf, reader, acceptor, clients, conn, closed, stalled,
                    pump, typed, taken, log, unwritten, got, guestIn>>
    BY <1>5 DEF GuestExits, threads, peers, data, file
  <2>2. TypeOK'
    <3>1. guest' \in BOOLEAN
      BY <1>5, <1>m, <2>1 DEF GuestExits
    <3> QED BY <1>0, <2>1, <3>1 DEF TypeOK
  <2>3. AcceptsOnce'
    BY <1>0, <2>1 DEF AcceptsOnce, Accepted
  <2>4. Listed'
    BY <1>0, <2>1 DEF Listed, Accepted
  <2>5. ReaderAt'
    BY <1>0, <2>1 DEF ReaderAt
  <2>6. Transcript'
    BY <1>0, <2>1 DEF Transcript
  <2>7. UpToDate'
    BY <1>0, <2>1 DEF UpToDate, Accepted
  <2>8. Gapless'
    BY <1>0, <2>1 DEF Gapless
  <2> QED BY <2>2, <2>3, <2>4, <2>5, <2>6, <2>7, <2>8 DEF SessionInv
<1>s. CASE GuestStalls
  <2>1. UNCHANGED <<main, out, guest, reader, acceptor, clients, conn, closed, stalled,
                    pump, typed, taken, log, unwritten, got, guestIn>>
    BY <1>s DEF GuestStalls, threads, peers, data, file
  <2>2. TypeOK'
    <3>1. deaf' \in BOOLEAN
      BY <1>s, <1>m, <2>1 DEF GuestStalls
    <3> QED BY <1>0, <2>1, <3>1 DEF TypeOK
  <2>3. AcceptsOnce'
    BY <1>0, <2>1 DEF AcceptsOnce, Accepted
  <2>4. Listed'
    BY <1>0, <2>1 DEF Listed, Accepted
  <2>5. ReaderAt'
    BY <1>0, <2>1 DEF ReaderAt
  <2>6. Transcript'
    BY <1>0, <2>1 DEF Transcript
  <2>7. UpToDate'
    BY <1>0, <2>1 DEF UpToDate, Accepted
  <2>8. Gapless'
    BY <1>0, <2>1 DEF Gapless
  <2> QED BY <2>2, <2>3, <2>4, <2>5, <2>6, <2>7, <2>8 DEF SessionInv
<1>6. ASSUME NEW c \in Clients, Connect(c) PROVE SessionInv'
  <2>1. UNCHANGED <<main, out, guest, deaf, reader, acceptor, clients, closed, stalled,
                    pump, typed, taken, log, unwritten, got, guestIn>>
    BY <1>6 DEF Connect, threads, peers, data, file
  <2>2. TypeOK'
    <3>1. conn' \in [Clients -> {"away", "waiting", "open", "hungup"}]
      BY <1>6, <1>c, <2>1 DEF Connect
    <3> QED BY <1>0, <2>1, <3>1 DEF TypeOK
  <2>3. AcceptsOnce'
    BY <1>6, <1>0, <1>a, <1>c, <1>m, <1>p, <2>1 DEF AcceptsOnce, Accepted, Connect
  <2>4. Listed'
    BY <1>0, <2>1 DEF Listed, Accepted
  <2>5. ReaderAt'
    BY <1>0, <2>1 DEF ReaderAt
  <2>6. Transcript'
    BY <1>0, <2>1 DEF Transcript
  <2>7. UpToDate'
    BY <1>0, <2>1 DEF UpToDate, Accepted
  <2>8. Gapless'
    BY <1>0, <2>1 DEF Gapless
  <2> QED BY <2>2, <2>3, <2>4, <2>5, <2>6, <2>7, <2>8 DEF SessionInv
<1>7. ASSUME NEW c \in Clients, Type(c) PROVE SessionInv'
  <2>1. UNCHANGED <<main, out, guest, deaf, reader, acceptor, clients, conn, closed,
                    stalled, pump, taken, log, unwritten, got, guestIn>>
    BY <1>7 DEF Type, threads, peers, data, file
  <2>2. typed' \in [Clients -> Nat] /\ \A d \in Clients : typed[d] <= typed'[d]
    <3>1. typed' = [typed EXCEPT ![c] = typed[c] + 1]
      BY <1>7, Zenon DEF Type
    <3> QED BY <1>t, <3>1
  <2>3. TypeOK'
    <3>1. typed' \in [Clients -> Nat]
      BY <1>t, <2>1, <2>2
    <3>2. taken' \in [Clients -> Nat] /\ \A d \in Clients : taken'[d] <= typed'[d]
      <4>1. taken' = taken /\ \A d \in Clients : /\ taken[d] \in Nat /\ typed[d] \in Nat
                                                /\ typed'[d] \in Nat
        BY <1>t, <2>1, <2>2
      <4> QED BY <1>t, <2>2, <4>1
    <3> QED BY <1>0, <2>1, <3>1, <3>2 DEF TypeOK
  <2>4. AcceptsOnce'
    BY <1>0, <2>1 DEF AcceptsOnce, Accepted
  <2>5. Listed'
    BY <1>0, <2>1 DEF Listed, Accepted
  <2>6. ReaderAt'
    BY <1>0, <2>1 DEF ReaderAt
  <2>7. Transcript'
    BY <1>0, <2>1 DEF Transcript
  <2>8. UpToDate'
    BY <1>0, <2>1 DEF UpToDate, Accepted
  <2>9. Gapless'
    BY <1>0, <2>1 DEF Gapless
  <2> QED BY <2>3, <2>4, <2>5, <2>6, <2>7, <2>8, <2>9 DEF SessionInv
<1>8. ASSUME NEW c \in Clients, HangUp(c) PROVE SessionInv'
  <2>1. UNCHANGED <<main, out, guest, deaf, reader, acceptor, clients, closed, stalled,
                    pump, typed, taken, log, unwritten, got, guestIn>>
    BY <1>8 DEF HangUp, threads, peers, data, file
  <2>2. TypeOK'
    <3>1. conn' \in [Clients -> {"away", "waiting", "open", "hungup"}]
      BY <1>8, <1>c, <2>1 DEF HangUp
    <3> QED BY <1>0, <2>1, <3>1 DEF TypeOK
  <2>3. AcceptsOnce'
    BY <1>8, <1>0, <1>a, <1>c, <1>m, <1>p, <2>1 DEF AcceptsOnce, Accepted, HangUp
  <2>4. Listed'
    BY <1>0, <2>1 DEF Listed, Accepted
  <2>5. ReaderAt'
    BY <1>0, <2>1 DEF ReaderAt
  <2>6. Transcript'
    BY <1>0, <2>1 DEF Transcript
  <2>7. UpToDate'
    BY <1>0, <2>1 DEF UpToDate, Accepted
  <2>8. Gapless'
    BY <1>0, <2>1 DEF Gapless
  <2> QED BY <2>2, <2>3, <2>4, <2>5, <2>6, <2>7, <2>8 DEF SessionInv
<1>9. ASSUME NEW c \in Clients, Stall(c) PROVE SessionInv'
  <2>1. UNCHANGED <<main, out, guest, deaf, reader, acceptor, clients, conn, closed, pump,
                    typed, taken, log, unwritten, got, guestIn>>
    BY <1>9 DEF Stall, threads, peers, data, file
  <2>2. TypeOK'
    <3>1. stalled' \subseteq Clients
      BY <1>9, <1>m, <2>1 DEF Stall
    <3> QED BY <1>0, <2>1, <3>1 DEF TypeOK
  <2>3. AcceptsOnce'
    BY <1>0, <2>1 DEF AcceptsOnce, Accepted
  <2>4. Listed'
    BY <1>0, <2>1 DEF Listed, Accepted
  <2>5. ReaderAt'
    BY <1>0, <2>1 DEF ReaderAt
  <2>6. Transcript'
    BY <1>0, <2>1 DEF Transcript
  <2>7. UpToDate'
    BY <1>0, <2>1 DEF UpToDate, Accepted
  <2>8. Gapless'
    BY <1>0, <2>1 DEF Gapless
  <2> QED BY <2>2, <2>3, <2>4, <2>5, <2>6, <2>7, <2>8 DEF SessionInv
<1>10. CASE ReaderRecv
  <2>1. UNCHANGED <<main, out, guest, deaf, acceptor, clients, conn, closed, stalled, pump,
                    typed, taken, got, guestIn>>
    BY <1>10 DEF ReaderRecv, ReaderEnds, record, RecordFails, threads, peers, data, file
  <2>2. /\ reader.at = "recv" /\ reader.left = << >> /\ main # "new"
        /\ Members(reader.left) = {}
    BY <1>10, <1>0, MembersOf DEF ReaderRecv, ReaderAt
  <2>3. \/ /\ reader.chunk < out
           /\ reader' = [at |-> "send", chunk |-> reader.chunk + 1, left |-> clients]
           /\ log' = [log EXCEPT ![Nobody] = Append(log[Nobody], reader.chunk + 1)]
           /\ unwritten' = unwritten
        \/ /\ reader' = [reader EXCEPT !.at = "done"] /\ log' = log
           /\ unwritten' \in {unwritten, unwritten \cup {Nobody}}
    BY <1>10 DEF ReaderRecv, ReaderEnds, record, RecordFails, file
  <2>4. \/ /\ reader.chunk < out
           /\ reader'.at = "send" /\ reader'.chunk = reader.chunk + 1 /\ reader'.left = clients
           /\ log'[Nobody] = Append(log[Nobody], reader.chunk + 1)
           /\ \A d \in Clients : log'[d] = log[d]
        \/ /\ reader'.at = "done" /\ reader'.chunk = reader.chunk
           /\ reader'.left = reader.left /\ log' = log
    <3>1. CASE reader' = [reader EXCEPT !.at = "done"] /\ log' = log
      BY <1>r, <3>1
    <3>2. CASE /\ reader.chunk < out
               /\ reader' = [at |-> "send", chunk |-> reader.chunk + 1, left |-> clients]
               /\ log' = [log EXCEPT ![Nobody] = Append(log[Nobody], reader.chunk + 1)]
      <4>1. log'[Nobody] = Append(log[Nobody], reader.chunk + 1)
        BY <1>w, <3>2
      <4>2. \A d \in Clients : log'[d] = log[d]
        BY <1>w, <3>2
      <4> QED BY <3>2, <4>1, <4>2
    <3> QED BY <2>3, <3>1, <3>2
  <2>5. TypeOK'
    <3>1. reader' \in [at : {"off", "recv", "send", "done"}, chunk : 0 .. MaxOut,
                       left : Seq(Clients)] /\ Once(reader'.left)
      <4>1. CASE reader' = [at |-> "send", chunk |-> reader.chunk + 1, left |-> clients]
                 /\ reader.chunk < out
        BY <1>m, <1>r, <1>l, <4>1
      <4>2. CASE reader' = [reader EXCEPT !.at = "done"]
        BY <1>r, <4>2
      <4> QED BY <2>3, <4>1, <4>2
    <3>2. log' \in [Clients \cup {Nobody} -> Seq(Nat)]
      <4>1. Append(log[Nobody], reader.chunk + 1) \in Seq(Nat)
        BY <1>r, <1>w
      <4> QED BY <1>w, <2>3, <4>1
    <3>3. unwritten' \subseteq Clients \cup {Nobody}
      BY <1>w, <2>3
    <3> QED BY <1>0, <2>1, <3>1, <3>2, <3>3 DEF TypeOK
  <2>6. AcceptsOnce'
    BY <1>0, <2>1 DEF AcceptsOnce, Accepted
  <2>7. Listed'
    BY <1>0, <1>l, <2>1, <2>2, <2>4 DEF Listed, Accepted
  <2>8. ReaderAt'
    BY <1>0, <1>m, <1>r, <1>w, <2>1, <2>2, <2>3, <2>4 DEF ReaderAt
  <2>9. Transcript'
    <3>1. CASE log' = log /\ reader'.chunk = reader.chunk
      BY <1>0, <2>1, <3>1 DEF Transcript
    <3>2. CASE /\ reader'.chunk = reader.chunk + 1
               /\ log'[Nobody] = Append(log[Nobody], reader.chunk + 1)
               /\ \A d \in Clients : log'[d] = log[d]
      <4>1. /\ Len(log'[Nobody]) = reader'.chunk
            /\ \A i \in 1 .. Len(log'[Nobody]) : log'[Nobody][i] = i
        BY <1>0, <1>r, <1>w, <3>2, Appended DEF Transcript
      <4>2. \A i \in 1 .. Len(guestIn) : log'[guestIn[i][1]] = log[guestIn[i][1]]
        BY <1>i, <3>2
      <4> QED BY <1>0, <2>1, <3>2, <4>1, <4>2 DEF Transcript
    <3> QED BY <2>4, <3>1, <3>2
  <2>10. UpToDate'
    <3>1. CASE reader'.left = reader.left /\ reader'.chunk = reader.chunk
      BY <1>0, <2>1, <3>1 DEF UpToDate, Accepted
    <3>2. CASE reader'.left = clients /\ reader'.chunk = reader.chunk + 1
      <4>1. \A i \in 1 .. reader.chunk : i \in 1 .. reader'.chunk
        BY <1>r, <3>2
      <4>2. \A d \in Members(clients) : got[d] # << >> => got[d][Len(got[d])] = reader'.chunk - 1
        BY <1>0, <1>r, <2>2, <3>2 DEF UpToDate
      <4> QED BY <1>0, <1>l, <2>1, <3>2, <4>1, <4>2 DEF UpToDate, Accepted
    <3> QED BY <2>4, <3>1, <3>2
  <2>11. Gapless'
    BY <1>0, <2>1 DEF Gapless
  <2> QED BY <2>5, <2>6, <2>7, <2>8, <2>9, <2>10, <2>11 DEF SessionInv
<1>11. CASE ReaderSend
  <2>1. UNCHANGED <<main, out, guest, deaf, acceptor, conn, stalled, pump, typed, taken,
                    log, unwritten, guestIn>>
    BY <1>11 DEF ReaderSend, Remove, threads, peers, data, file
  <2>2. reader.at = "send" /\ reader.chunk > 0 /\ main # "new"
    BY <1>11, <1>0 DEF ReaderSend, ReaderAt
  <2> DEFINE h == Head(reader.left)
             Ends  == /\ reader.left = << >> /\ reader'.at = "recv"
                      /\ reader'.chunk = reader.chunk /\ reader'.left = reader.left
                      /\ clients' = clients /\ closed' = closed /\ got' = got
             Turn  == /\ reader.left # << >> /\ reader'.at = "send"
                      /\ reader'.chunk = reader.chunk /\ reader'.left = Tail(reader.left)
             Dropped == /\ clients' = Without(clients, h) /\ closed' = closed \cup {h}
                        /\ got' = got
             Sent  == /\ h \notin closed /\ got' = [got EXCEPT ![h] = Append(got[h], reader.chunk)]
                      /\ clients' = clients /\ closed' = closed
  <2>3. /\ Ends \/ (Turn /\ (Dropped \/ Sent))
        /\ reader' \in [at : {"off", "recv", "send", "done"}, chunk : 0 .. MaxOut,
                        left : Seq(Clients)]
    <3>1. CASE reader.left = << >>
      BY <1>11, <1>r, <3>1 DEF ReaderSend
    <3>2. CASE reader.left # << >>
      <4>1. /\ reader' = [reader EXCEPT !.left = Tail(reader.left)]
            /\ Dropped \/ Sent
        BY <1>11, <3>2 DEF ReaderSend, Remove
      <4>2. Tail(reader.left) \in Seq(Clients)
        BY <1>r, <3>2
      <4> HIDE DEF Dropped, Sent
      <4> QED BY <1>r, <2>2, <3>2, <4>1, <4>2
    <3> QED BY <3>1, <3>2
  <2>4. ASSUME Turn
        PROVE  /\ h \in Clients /\ h \in Members(reader.left)
               /\ reader'.left \in Seq(Clients) /\ Once(reader'.left)
               /\ Members(reader'.left) = Members(reader.left) \ {h}
    BY <1>r, <2>4, TailDoes
  <2>5. ASSUME Turn, Dropped
        PROVE  /\ clients' \in Seq(Clients) /\ Once(clients')
               /\ Members(clients') = Members(clients) \ {h} /\ Members(clients') \subseteq Clients
    BY <1>l, <2>5, WithoutDoes
  <2>6. ASSUME Turn, Sent
        PROVE  /\ got' \in [Clients -> Seq(1 .. MaxOut)]
               /\ \A d \in Clients : d # h => got'[d] = got[d]
               /\ Len(got'[h]) = Len(got[h]) + 1 /\ got'[h][Len(got[h]) + 1] = reader.chunk
               /\ \A i \in 1 .. Len(got[h]) : got'[h][i] = got[h][i]
               /\ h \in Members(clients)
               /\ got[h] # << >> => got[h][Len(got[h])] = reader.chunk - 1
    <3>1. h \in Clients /\ h \in Members(reader.left)
      BY <2>4, <2>6
    <3>2. h \in Members(clients)
      BY <1>0, <2>6, <3>1 DEF Listed
    <3>3. reader.chunk \in 1 .. MaxOut
      BY <1>r, <2>2
    <3>4. got'[h] = Append(got[h], reader.chunk) /\ \A d \in Clients : d # h => got'[d] = got[d]
      BY <1>g, <2>6, <3>1
    <3>5. got[h] \in Seq(1 .. MaxOut)
      BY <1>g, <3>1
    <3>6. /\ Append(got[h], reader.chunk) \in Seq(1 .. MaxOut)
          /\ Len(got'[h]) = Len(got[h]) + 1 /\ got'[h][Len(got[h]) + 1] = reader.chunk
          /\ \A i \in 1 .. Len(got[h]) : got'[h][i] = got[h][i]
      BY <3>3, <3>4, <3>5, Appended
    <3>7. got' \in [Clients -> Seq(1 .. MaxOut)]
      BY <1>g, <2>6, <3>6
    <3>8. got[h] # << >> => got[h][Len(got[h])] = reader.chunk - 1
      BY <1>0, <3>1, <3>2 DEF UpToDate
    <3> QED BY <3>2, <3>4, <3>6, <3>7, <3>8
  <2> HIDE DEF h, Ends, Turn, Dropped, Sent
  <2>7. TypeOK'
    <3>1. reader' \in [at : {"off", "recv", "send", "done"}, chunk : 0 .. MaxOut,
                       left : Seq(Clients)] /\ Once(reader'.left)
      BY <1>r, <2>3, <2>4 DEF Ends
    <3>2. clients' \in Seq(Clients) /\ Once(clients')
      BY <1>l, <2>3, <2>5 DEF Ends, Sent
    <3>3. closed' \subseteq Clients
      BY <1>l, <2>3, <2>4 DEF Ends, Dropped, Sent
    <3>4. got' \in [Clients -> Seq(1 .. MaxOut)]
      BY <1>g, <2>3, <2>6 DEF Ends, Dropped
    <3> QED BY <1>0, <2>1, <3>1, <3>2, <3>3, <3>4 DEF TypeOK
  <2>8. AcceptsOnce'
    BY <1>0, <2>1 DEF AcceptsOnce, Accepted
  <2>9. Listed'
    <3>1. CASE Ends
      BY <1>0, <2>1, <3>1 DEF Listed, Accepted, Ends
    <3>2. CASE Turn /\ Sent
      BY <1>0, <2>1, <2>4, <3>2 DEF Listed, Accepted, Sent
    <3>3. CASE Turn /\ Dropped
      <4>1. Accepted(h)
        BY <1>0, <2>4, <3>3 DEF Listed
      <4> QED BY <1>0, <2>1, <2>4, <2>5, <3>3, <4>1 DEF Listed, Accepted, Dropped
    <3> QED BY <2>3, <3>1, <3>2, <3>3
  <2>10. ReaderAt'
    BY <1>0, <2>1, <2>2, <2>3 DEF ReaderAt, Ends, Turn
  <2>11. Transcript'
    <3>1. reader'.chunk = reader.chunk
      BY <2>3 DEF Ends, Turn
    <3> QED BY <1>0, <2>1, <3>1 DEF Transcript
  <2>12. UpToDate'
    <3>1. CASE Ends
      BY <1>0, <2>1, <3>1 DEF UpToDate, Accepted, Ends
    <3>2. CASE Turn /\ Dropped
      <4>1. reader'.chunk = reader.chunk /\ got' = got
        BY <3>2 DEF Turn, Dropped
      <4> QED BY <1>0, <2>1, <2>4, <2>5, <3>2, <4>1 DEF UpToDate, Accepted
    <3>3. CASE Turn /\ Sent
      <4>1. reader'.chunk = reader.chunk /\ clients' = clients
        BY <3>3 DEF Turn, Sent
      <4>2. h \in Clients /\ Accepted(h) /\ h \notin Members(reader'.left)
        BY <1>0, <2>4, <2>6, <3>3 DEF Listed
      <4>3. ASSUME NEW d \in Clients, got'[d] # << >> PROVE Accepted(d)'
        <5>1. Accepted(d)
          BY <1>0, <2>6, <3>3, <4>2, <4>3 DEF UpToDate
        <5> QED BY <2>1, <5>1 DEF Accepted
      <4>4. \A i \in 1 .. Len(got'[h]) : got'[h][i] \in 1 .. reader'.chunk
        <5> SUFFICES ASSUME NEW i \in 1 .. Len(got'[h]) PROVE got'[h][i] \in 1 .. reader.chunk
          BY <4>1
        <5>1. /\ Len(got[h]) \in Nat /\ Len(got'[h]) = Len(got[h]) + 1
              /\ got'[h][Len(got[h]) + 1] = reader.chunk
              /\ \A j \in 1 .. Len(got[h]) : got'[h][j] = got[h][j]
          BY <1>g, <2>6, <3>3, <4>2
        <5>2. CASE i = Len(got[h]) + 1
          BY <1>r, <2>2, <5>1, <5>2
        <5>3. CASE i # Len(got[h]) + 1
          <6>1. i \in 1 .. Len(got[h])
            BY <5>1, <5>3
          <6> QED BY <1>0, <4>2, <5>1, <6>1 DEF UpToDate
        <5> QED BY <5>2, <5>3
      <4>5. \A d \in Clients : \A i \in 1 .. Len(got'[d]) : got'[d][i] \in 1 .. reader'.chunk
        BY <1>0, <2>6, <3>3, <4>1, <4>4 DEF UpToDate
      <4>6. ASSUME NEW d \in Members(clients'), got'[d] # << >>
            PROVE  got'[d][Len(got'[d])] =
                     IF d \in Members(reader'.left) THEN reader'.chunk - 1 ELSE reader'.chunk
        <5>1. CASE d = h
          BY <2>6, <3>3, <4>1, <4>2, <5>1
        <5>2. CASE d # h
          <6>1. d \in Clients /\ d \in Members(clients) /\ got'[d] = got[d]
            BY <1>l, <2>6, <3>3, <4>1, <4>6, <5>2
          <6>2. d \in Members(reader'.left) <=> d \in Members(reader.left)
            BY <2>4, <3>3, <5>2
          <6> QED BY <1>0, <4>1, <4>6, <6>1, <6>2 DEF UpToDate
        <5> QED BY <5>1, <5>2
      <4> QED BY <4>3, <4>5, <4>6 DEF UpToDate
    <3> QED BY <2>3, <3>1, <3>2, <3>3
  <2>13. Gapless'
    <3>1. CASE got' = got
      BY <1>0, <3>1 DEF Gapless
    <3>2. CASE Turn /\ Sent
      <4>1. h \in Clients /\ Len(got[h]) \in Nat /\ got[h] \in Seq(1 .. MaxOut)
        BY <1>g, <2>4, <3>2
      <4>2. /\ Len(got'[h]) = Len(got[h]) + 1
            /\ got'[h][Len(got[h]) + 1] = reader.chunk
            /\ \A j \in 1 .. Len(got[h]) : got'[h][j] = got[h][j]
            /\ got[h] # << >> => got[h][Len(got[h])] = reader.chunk - 1
        BY <2>6, <3>2
      <4>3. ASSUME NEW i \in 1 .. Len(got'[h]) - 1 PROVE got'[h][i + 1] = got'[h][i] + 1
        <5>1. CASE i = Len(got[h])
          <6>1. i \in 1 .. Len(got[h]) /\ got[h] # << >>
            BY <4>1, <4>2, <4>3, <5>1
          <6>2. got'[h][i] = reader.chunk - 1 /\ got'[h][i + 1] = reader.chunk
            BY <4>2, <5>1, <6>1
          <6> QED BY <1>r, <6>2
        <5>2. CASE i # Len(got[h])
          <6>1. i \in 1 .. Len(got[h]) - 1 /\ i \in 1 .. Len(got[h]) /\ i + 1 \in 1 .. Len(got[h])
            BY <4>1, <4>2, <4>3, <5>2
          <6> QED BY <1>0, <4>1, <4>2, <6>1 DEF Gapless
        <5> QED BY <5>1, <5>2
      <4> QED BY <1>0, <2>6, <3>2, <4>3 DEF Gapless
    <3> QED BY <2>3, <3>1, <3>2 DEF Ends, Dropped
  <2> QED BY <2>7, <2>8, <2>9, <2>10, <2>11, <2>12, <2>13 DEF SessionInv
<1>12. CASE Accept
  <2>1. UNCHANGED <<main, out, guest, deaf, reader, closed, stalled, pump, typed, taken,
                    log, unwritten, got, guestIn>>
    BY <1>12 DEF Accept, threads, peers, data, file
  <2> DEFINE New(d) == /\ d \in Clients /\ ~ Accepted(d)
                       /\ acceptor' = [at |-> "spawn", client |-> d]
                       /\ clients' = Append(clients, d)
                       /\ conn'[d] \in {"open", "hungup"}
                       /\ \A e \in Clients : e # d => conn'[e] = conn[e]
             None == /\ acceptor'.at = "done" /\ acceptor'.client = acceptor.client
                     /\ conn' = conn /\ clients' = clients
  <2>2. /\ acceptor.at = "accept" /\ acceptor.client = Nobody
        /\ main \notin {"new", "reading"}
        /\ conn' \in [Clients -> {"away", "waiting", "open", "hungup"}]
        /\ acceptor' \in [at : {"off", "accept", "spawn", "done"},
                          client : Clients \cup {Nobody}]
        /\ None \/ \E d \in Clients : New(d)
    <3>1. acceptor.at = "accept" /\ acceptor.client = Nobody /\ main \notin {"new", "reading"}
      BY <1>12, <1>0, <1>a DEF Accept, AcceptsOnce
    <3>2. CASE acceptor' = [acceptor EXCEPT !.at = "done"] /\ UNCHANGED <<conn,
                                                                          clients>>
      BY <1>a, <1>c, <3>1, <3>2
    <3>3. ASSUME NEW d \in Clients,
                 conn[d] = "waiting" \/ (conn[d] = "hungup" /\ pump[d] = "none"),
                 conn' = [conn EXCEPT ![d] = IF conn[d] = "waiting" THEN "open" ELSE conn[d]],
                 acceptor' = [at |-> "spawn", client |-> d], clients' = Append(clients, d)
          PROVE  /\ conn' \in [Clients -> {"away", "waiting", "open", "hungup"}]
                 /\ acceptor' \in [at : {"off", "accept", "spawn", "done"},
                                   client : Clients \cup {Nobody}]
                 /\ New(d)
      <4>1. ~ Accepted(d)
        BY <1>0, <3>1, <3>3 DEF AcceptsOnce, Accepted
      <4> QED BY <1>c, <3>3, <4>1
    <3> QED BY <1>12, <3>1, <3>2, <3>3 DEF Accept
  <2>3. ASSUME NEW d, New(d)
        PROVE  /\ d \notin Members(clients) /\ d \notin closed
               /\ d \notin Members(reader.left) /\ got[d] = << >>
               /\ clients' \in Seq(Clients) /\ Once(clients')
               /\ Members(clients') = Members(clients) \cup {d}
               /\ acceptor'.at = "spawn" /\ acceptor'.client = d /\ d # Nobody /\ pump[d] = "none"
               /\ \A e \in Clients : Accepted(e) => e # d /\ pump[e] # "none"
    <3>1. d \notin Members(clients) /\ d \notin closed /\ d \notin Members(reader.left)
      BY <1>0, <2>3 DEF Listed
    <3>2. got[d] = << >> /\ pump[d] = "none" /\ d # Nobody
      BY <1>0, <2>3 DEF UpToDate, Accepted
    <3>3. clients' \in Seq(Clients) /\ Once(clients') /\ Members(clients') = Members(clients) \cup {d}
      BY <1>l, <2>3, <3>1, AppendDoes
    <3>4. \A e \in Clients : Accepted(e) => e # d /\ pump[e] # "none"
      BY <2>2, <2>3 DEF Accepted
    <3> QED BY <2>3, <3>1, <3>2, <3>3, <3>4
  <2>4. ASSUME NEW e, e \in Clients, Accepted(e) PROVE Accepted(e)'
    BY <2>1, <2>2, <2>4 DEF Accepted
  <2> HIDE DEF New, None
  <2>5. TypeOK'
    <3>1. conn' \in [Clients -> {"away", "waiting", "open", "hungup"}]
      BY <2>2
    <3>2. acceptor' \in [at : {"off", "accept", "spawn", "done"},
                         client : Clients \cup {Nobody}]
      BY <2>2
    <3>3. clients' \in Seq(Clients) /\ Once(clients')
      BY <1>l, <2>2, <2>3 DEF None
    <3> QED BY <1>0, <2>1, <3>1, <3>2, <3>3 DEF TypeOK
  <2>6. AcceptsOnce'
    <3>1. CASE None
      BY <1>0, <2>1, <2>2, <3>1 DEF AcceptsOnce, Accepted, None
    <3>2. ASSUME NEW d \in Clients, New(d) PROVE AcceptsOnce'
      <4>1. \A e \in Clients : e # d => conn'[e] = conn[e] /\ (Accepted(e)' <=> Accepted(e))
        BY <2>1, <2>2, <2>3, <3>2 DEF New, Accepted
      <4>2. Accepted(d)' /\ conn'[d] \in {"open", "hungup"}
        BY <2>3, <3>2 DEF New, Accepted
      <4> QED BY <1>0, <2>1, <2>2, <2>3, <3>2, <4>1, <4>2 DEF AcceptsOnce
    <3> QED BY <2>2, <3>1, <3>2
  <2>7. Listed'
    <3>1. CASE None
      BY <1>0, <2>1, <2>2, <3>1 DEF Listed, Accepted, None
    <3>2. ASSUME NEW d \in Clients, New(d) PROVE Listed'
      <4>1. Accepted(d)'
        BY <2>3, <3>2 DEF Accepted
      <4>2. Members(clients') = Members(clients) \cup {d} /\ d \notin closed
        BY <2>3, <3>2
      <4>3. \A e \in Members(clients') : Accepted(e)' /\ e \notin closed'
        BY <1>0, <1>l, <2>1, <2>4, <4>1, <4>2 DEF Listed
      <4>4. \A e \in closed' : Accepted(e)'
        BY <1>0, <1>l, <2>1, <2>4 DEF Listed
      <4> QED BY <1>0, <2>1, <4>2, <4>3, <4>4 DEF Listed
    <3> QED BY <2>2, <3>1, <3>2
  <2>8. ReaderAt'
    BY <1>0, <2>1 DEF ReaderAt
  <2>9. Transcript'
    BY <1>0, <2>1 DEF Transcript
  <2>10. UpToDate'
    <3>1. CASE None
      BY <1>0, <2>1, <2>2, <3>1 DEF UpToDate, Accepted, None
    <3>2. ASSUME NEW d \in Clients, New(d) PROVE UpToDate'
      <4>1. /\ Members(clients') = Members(clients) \cup {d}
            /\ got[d] = << >> /\ Members(clients) \subseteq Clients
        BY <1>l, <2>3, <3>2
      <4>2. \A e \in Clients : got'[e] # << >> => Accepted(e)'
        BY <1>0, <2>1, <2>4 DEF UpToDate
      <4> QED BY <1>0, <2>1, <4>1, <4>2 DEF UpToDate
    <3> QED BY <2>2, <3>1, <3>2
  <2>11. Gapless'
    BY <1>0, <2>1 DEF Gapless
  <2> QED BY <2>5, <2>6, <2>7, <2>8, <2>9, <2>10, <2>11 DEF SessionInv
<1>13. CASE Spawn
  <2>1. UNCHANGED <<main, out, guest, deaf, reader, clients, conn, closed, stalled, typed,
                    taken, log, unwritten, got, guestIn>>
    BY <1>13 DEF Spawn, threads, peers, data, file
  <2>2. /\ acceptor.at = "spawn" /\ acceptor.client \in Clients /\ acceptor.client # Nobody
        /\ pump[acceptor.client] = "none" /\ main \notin {"new", "reading"}
        /\ acceptor'.at = "accept" /\ acceptor'.client = Nobody
        /\ acceptor' \in [at : {"off", "accept", "spawn", "done"},
                          client : Clients \cup {Nobody}]
        /\ pump' \in [Clients -> {"none", "recv", "send", "blocked", "remove", "done"}]
        /\ pump'[acceptor.client] = "recv"
        /\ \A d \in Clients : d # acceptor.client => pump'[d] = pump[d]
    <3>1. /\ acceptor.at = "spawn" /\ acceptor.client \in Clients /\ acceptor.client # Nobody
          /\ pump[acceptor.client] = "none" /\ main \notin {"new", "reading"}
      BY <1>13, <1>0, <1>a DEF Spawn, AcceptsOnce
    <3> QED BY <1>13, <1>p, <3>1 DEF Spawn
  <2>3. \A d \in Clients : Accepted(d)' <=> Accepted(d)
    BY <2>2 DEF Accepted
  <2>4. TypeOK'
    <3>1. pump' \in [Clients -> {"none", "recv", "send", "blocked", "remove", "done"}]
      BY <2>2
    <3>2. acceptor' \in [at : {"off", "accept", "spawn", "done"},
                         client : Clients \cup {Nobody}]
      BY <2>2
    <3> QED BY <1>0, <2>1, <3>1, <3>2 DEF TypeOK
  <2>5. AcceptsOnce'
    BY <1>0, <2>1, <2>2, <2>3 DEF AcceptsOnce
  <2>6. Listed'
    BY <1>0, <1>l, <2>1, <2>2, <2>3 DEF Listed
  <2>7. ReaderAt'
    BY <1>0, <2>1 DEF ReaderAt
  <2>8. Transcript'
    BY <1>0, <2>1, <2>2 DEF Transcript
  <2>9. UpToDate'
    BY <1>0, <1>l, <2>1, <2>3 DEF UpToDate
  <2>10. Gapless'
    BY <1>0, <2>1 DEF Gapless
  <2> QED BY <2>4, <2>5, <2>6, <2>7, <2>8, <2>9, <2>10 DEF SessionInv
<1>14. ASSUME NEW c \in Clients, PumpRecv(c) PROVE SessionInv'
  <2>1. UNCHANGED <<main, out, guest, deaf, reader, acceptor, clients, conn, closed,
                    stalled, typed, got, guestIn>>
    BY <1>14 DEF PumpRecv, PumpEnds, PumpGoto, record, RecordFails, threads, peers,
       data, file
  <2>2. /\ pump[c] = "recv" /\ pump'[c] \in {"send", "remove"}
        /\ \A d \in Clients : d # c => pump'[d] = pump[d]
        /\ pump' \in [Clients -> {"none", "recv", "send", "blocked", "remove", "done"}]
    BY <1>14, <1>p DEF PumpRecv, PumpEnds, PumpGoto
  <2>3. \A d \in Clients : Accepted(d)' <=> Accepted(d)
    BY <2>1, <2>2 DEF Accepted
  <2>4. /\ \/ taken' = taken
           \/ taken[c] < typed[c] /\ taken' = [taken EXCEPT ![c] = taken[c] + 1]
        /\ \/ /\ pump'[c] = "send" /\ taken[c] < typed[c]
              /\ taken' = [taken EXCEPT ![c] = taken[c] + 1]
              /\ log' = [log EXCEPT ![c] = Append(log[c], taken[c] + 1)]
           \/ pump'[c] = "remove" /\ log' = log
        /\ unwritten' \in {unwritten, unwritten \cup {c}}
    <3>1. CASE PumpEnds(c)
      BY <1>p, <3>1 DEF PumpEnds, PumpGoto, file
    <3>2. CASE /\ taken[c] < typed[c] /\ taken' = [taken EXCEPT ![c] = taken[c] + 1]
               /\ record(c, taken'[c]) /\ PumpGoto(c, "recv", "send")
      <4>1. taken'[c] = taken[c] + 1
        BY <1>t, <3>2
      <4> QED BY <1>p, <3>2, <4>1 DEF PumpGoto, record
    <3>3. CASE /\ taken[c] < typed[c] /\ taken' = [taken EXCEPT ![c] = taken[c] + 1]
               /\ RecordFails(c) /\ PumpGoto(c, "recv", "remove")
      BY <1>p, <3>3 DEF PumpGoto, RecordFails
    <3> QED BY <1>14, <3>1, <3>2, <3>3 DEF PumpRecv
  <2>5. TypeOK'
    <3>1. taken' \in [Clients -> Nat] /\ \A d \in Clients : taken'[d] <= typed'[d]
      BY <1>t, <2>1, <2>4
    <3>2. pump' \in [Clients -> {"none", "recv", "send", "blocked", "remove", "done"}]
      BY <2>2
    <3>3. log' \in [Clients \cup {Nobody} -> Seq(Nat)]
      <4>1. Append(log[c], taken[c] + 1) \in Seq(Nat)
        BY <1>t, <1>w
      <4> QED BY <1>w, <2>4, <4>1
    <3>4. unwritten' \subseteq Clients \cup {Nobody}
      BY <1>w, <2>4
    <3> QED BY <1>0, <2>1, <3>1, <3>2, <3>3, <3>4 DEF TypeOK
  <2>6. AcceptsOnce'
    <3>1. acceptor.client # c
      BY <1>0, <2>2 DEF AcceptsOnce
    <3> QED BY <1>0, <1>a, <2>1, <2>2, <2>3, <3>1 DEF AcceptsOnce
  <2>7. Listed'
    BY <1>0, <1>l, <2>1, <2>2, <2>3 DEF Listed
  <2>8. ReaderAt'
    BY <1>0, <2>1 DEF ReaderAt
  <2>9. Transcript'
    <3>0. c # Nobody /\ \A d \in Clients \cup {Nobody} : d # c => log'[d] = log[d]
      BY <1>w, <2>4
    <3>1. \A d \in Clients : d # c => taken'[d] = taken[d]
      BY <1>t, <2>4
    <3>2. CASE pump'[c] = "remove" /\ log' = log
      BY <1>0, <2>1, <2>2, <3>1, <3>2 DEF Transcript
    <3>3. CASE /\ pump'[c] = "send" /\ taken' = [taken EXCEPT ![c] = taken[c] + 1]
               /\ log' = [log EXCEPT ![c] = Append(log[c], taken[c] + 1)]
      <4>1. /\ taken'[c] = taken[c] + 1 /\ taken[c] \in Nat
            /\ log'[c] = Append(log[c], taken[c] + 1) /\ log[c] \in Seq(Nat)
        BY <1>t, <1>w, <3>3
      <4>2. Len(log[c]) = taken[c]
        BY <1>0, <2>2 DEF Transcript
      <4>3. /\ Len(log'[c]) = taken[c] + 1 /\ log'[c][taken[c] + 1] = taken[c] + 1
            /\ \A i \in 1 .. taken[c] : log'[c][i] = log[c][i]
        BY <4>1, <4>2, Appended
      <4>4. \A i \in 1 .. Len(log'[c]) : log'[c][i] = i
        <5> SUFFICES ASSUME NEW i \in 1 .. Len(log'[c]) PROVE log'[c][i] = i
          OBVIOUS
        <5>1. i = taken[c] + 1 \/ i \in 1 .. taken[c]
          BY <4>1, <4>3
        <5> QED BY <1>0, <4>2, <4>3, <5>1 DEF Transcript
      <4>5. Len(log'[Nobody]) = reader'.chunk
        BY <1>0, <2>1, <3>0 DEF Transcript
      <4>6. \A d \in Clients : pump'[d] \in {"none", "recv", "send"} => Len(log'[d]) = taken'[d]
        BY <1>0, <2>2, <3>0, <3>1, <4>1, <4>3 DEF Transcript
      <4>7. \A d \in Clients : pump'[d] = "send" => taken'[d] > 0
        BY <1>0, <2>2, <3>1, <4>1 DEF Transcript
      <4>8. \A d \in Clients \cup {Nobody} : \A i \in 1 .. Len(log'[d]) : log'[d][i] = i
        BY <1>0, <3>0, <4>4 DEF Transcript
      <4>9. ASSUME NEW i \in 1 .. Len(guestIn)
            PROVE  guestIn[i][2] \in 1 .. Len(log'[guestIn[i][1]])
        <5>1. guestIn[i][1] \in Clients /\ guestIn[i][2] \in 1 .. Len(log[guestIn[i][1]])
          BY <1>0, <1>i DEF Transcript
        <5>2. CASE guestIn[i][1] = c
          BY <4>1, <4>2, <4>3, <5>1, <5>2
        <5>3. CASE guestIn[i][1] # c
          BY <3>0, <5>1, <5>3
        <5> QED BY <5>2, <5>3
      <4> QED BY <2>1, <4>5, <4>6, <4>7, <4>8, <4>9 DEF Transcript
    <3> QED BY <2>4, <3>2, <3>3
  <2>10. UpToDate'
    BY <1>0, <1>l, <2>1, <2>3 DEF UpToDate
  <2>11. Gapless'
    BY <1>0, <2>1 DEF Gapless
  <2> QED BY <2>5, <2>6, <2>7, <2>8, <2>9, <2>10, <2>11 DEF SessionInv
<1>15. ASSUME NEW c \in Clients, PumpSend(c) PROVE SessionInv'
  <2>1. UNCHANGED <<main, out, guest, deaf, reader, acceptor, clients, conn, closed,
                    stalled, typed, taken, log, unwritten, got>>
    BY <1>15 DEF PumpSend, PumpGoto, threads, peers, data, file
  <2>2. /\ pump[c] \in {"send", "blocked"} /\ pump'[c] \in {"recv", "blocked", "remove"}
        /\ pump'[c] = "recv" => pump[c] = "send"
        /\ \A d \in Clients : d # c => pump'[d] = pump[d]
        /\ pump' \in [Clients -> {"none", "recv", "send", "blocked", "remove", "done"}]
    BY <1>15, <1>p DEF PumpSend, PumpGoto
  <2>3. \A d \in Clients : Accepted(d)' <=> Accepted(d)
    BY <2>1, <2>2 DEF Accepted
  <2>4. \/ guestIn' = guestIn
        \/ guestIn' = Append(guestIn, <<c, taken[c]>>) /\ pump[c] = "send"
    BY <1>15 DEF PumpSend, PumpGoto
  <2>5. TypeOK'
    <3>1. pump' \in [Clients -> {"none", "recv", "send", "blocked", "remove", "done"}]
      BY <2>2
    <3>2. guestIn' \in Seq(Clients \X Nat)
      <4>1. <<c, taken[c]>> \in Clients \X Nat
        BY <1>t
      <4>2. Append(guestIn, <<c, taken[c]>>) \in Seq(Clients \X Nat)
        BY <1>i, <4>1, Appended
      <4> QED BY <1>i, <2>4, <4>2
    <3> QED BY <1>0, <2>1, <3>1, <3>2 DEF TypeOK
  <2>6. AcceptsOnce'
    <3>1. acceptor.client # c
      BY <1>0, <2>2 DEF AcceptsOnce
    <3> QED BY <1>0, <1>a, <2>1, <2>2, <2>3, <3>1 DEF AcceptsOnce
  <2>7. Listed'
    BY <1>0, <1>l, <2>1, <2>2, <2>3 DEF Listed
  <2>8. ReaderAt'
    BY <1>0, <2>1 DEF ReaderAt
  <2>9. Transcript'
    <3>1. \A i \in 1 .. Len(guestIn') : guestIn'[i][2] \in 1 .. Len(log[guestIn'[i][1]])
      <4>1. CASE guestIn' = guestIn
        BY <1>0, <4>1 DEF Transcript
      <4>2. CASE guestIn' = Append(guestIn, <<c, taken[c]>>) /\ pump[c] = "send"
        <5>1. /\ Len(guestIn) \in Nat /\ Len(guestIn') = Len(guestIn) + 1
              /\ guestIn'[Len(guestIn) + 1] = <<c, taken[c]>>
              /\ \A i \in 1 .. Len(guestIn) : guestIn'[i] = guestIn[i]
          BY <1>i, <1>t, <4>2, Appended
        <5>2. taken[c] \in 1 .. Len(log[c])
          BY <1>0, <1>t, <4>2 DEF Transcript
        <5> SUFFICES ASSUME NEW i \in 1 .. Len(guestIn')
                     PROVE  guestIn'[i][2] \in 1 .. Len(log[guestIn'[i][1]])
          OBVIOUS
        <5>3. i = Len(guestIn) + 1 \/ i \in 1 .. Len(guestIn)
          BY <5>1
        <5> QED BY <1>0, <5>1, <5>2, <5>3 DEF Transcript
      <4> QED BY <2>4, <4>1, <4>2
    <3> QED BY <1>0, <2>1, <2>2, <3>1 DEF Transcript
  <2>10. UpToDate'
    BY <1>0, <1>l, <2>1, <2>3 DEF UpToDate
  <2>11. Gapless'
    BY <1>0, <2>1 DEF Gapless
  <2> QED BY <2>5, <2>6, <2>7, <2>8, <2>9, <2>10, <2>11 DEF SessionInv
<1>16. ASSUME NEW c \in Clients, PumpRemove(c) PROVE SessionInv'
  <2>1. UNCHANGED <<main, out, guest, deaf, reader, acceptor, conn, stalled, typed, taken,
                    log, unwritten, got, guestIn>>
    BY <1>16 DEF PumpRemove, PumpGoto, Remove, threads, peers, data, file
  <2>2. /\ pump[c] = "remove" /\ pump'[c] = "done"
        /\ \A d \in Clients : d # c => pump'[d] = pump[d]
        /\ pump' \in [Clients -> {"none", "recv", "send", "blocked", "remove", "done"}]
    BY <1>16, <1>p DEF PumpRemove, PumpGoto
  <2>3. \A d \in Clients : Accepted(d)' <=> Accepted(d)
    BY <2>1, <2>2 DEF Accepted
  <2>4. /\ closed' = closed \cup {c} /\ Accepted(c)
        /\ clients' \in Seq(Clients) /\ Once(clients') /\ Members(clients') = Members(clients) \ {c}
    BY <1>16, <1>l, <2>2, WithoutDoes DEF PumpRemove, Remove, Accepted
  <2>5. TypeOK'
    <3>1. pump' \in [Clients -> {"none", "recv", "send", "blocked", "remove", "done"}]
      BY <2>2
    <3>2. clients' \in Seq(Clients) /\ Once(clients')
      BY <2>4
    <3>3. closed' \subseteq Clients
      BY <1>l, <2>4
    <3> QED BY <1>0, <2>1, <3>1, <3>2, <3>3 DEF TypeOK
  <2>6. AcceptsOnce'
    <3>1. acceptor.client # c
      BY <1>0, <2>2 DEF AcceptsOnce
    <3> QED BY <1>0, <1>a, <2>1, <2>2, <2>3, <3>1 DEF AcceptsOnce
  <2>7. Listed'
    BY <1>0, <1>l, <2>1, <2>2, <2>3, <2>4 DEF Listed
  <2>8. ReaderAt'
    BY <1>0, <2>1 DEF ReaderAt
  <2>9. Transcript'
    BY <1>0, <2>1, <2>2 DEF Transcript
  <2>10. UpToDate'
    BY <1>0, <1>l, <2>1, <2>3, <2>4 DEF UpToDate
  <2>11. Gapless'
    BY <1>0, <2>1 DEF Gapless
  <2> QED BY <2>5, <2>6, <2>7, <2>8, <2>9, <2>10, <2>11 DEF SessionInv
<1>17. CASE UNCHANGED vars
  <2>1. UNCHANGED <<main, out, guest, deaf, reader, acceptor, clients, conn, closed,
                    stalled, pump, typed, taken, log, unwritten, got, guestIn>>
    BY <1>17 DEF vars, threads, peers, data, file
  <2> QED
    BY <1>0, <2>1 DEF SessionInv, TypeOK, AcceptsOnce, Listed, ReaderAt, Transcript,
       UpToDate,
                      Gapless, Accepted
<1> QED
  BY <1>1, <1>2, <1>3, <1>4, <1>5, <1>s, <1>6, <1>7, <1>8, <1>9, <1>10, <1>11, <1>12,
     <1>13, <1>14, <1>15, <1>16, <1>17
  DEF Next, Reader, Acceptor, Pump, Environment

(* SessionInv holds in every reachable state. *)
LEMMA SessionInvHolds == Spec => []SessionInv
BY SessionInvInit, SessionInvStep, PTL DEF Spec

(* Every variable keeps to its type, the list names nobody twice, and no    *)
(* thread receives more than its client sent.                               *)
THEOREM Typed == Spec => []TypeOK
<1>1. SessionInv => TypeOK
  BY DEF SessionInv
<1> QED BY <1>1, SessionInvHolds, PTL

(* Whatever a client or the guest has received was recorded before it, in   *)
(* order (session_manager.py:3).                                            *)
THEOREM Recorded == Spec => []TranscriptFirst
<1>1. SessionInv => TranscriptFirst
  <2> SUFFICES ASSUME SessionInv PROVE TranscriptFirst
    OBVIOUS
  <2>0. TypeOK /\ Transcript /\ UpToDate
    BY DEF SessionInv
  <2>1. ASSUME NEW d, d \in Clients \cup {Nobody}, NEW n, n \in 1 .. Len(log[d])
        PROVE  n \in Members(log[d])
    <3>1. log[d][n] = n
      BY <2>0, <2>1 DEF Transcript
    <3> QED BY <2>1, <3>1 DEF Members
  <2>2. ASSUME NEW c \in Clients, NEW x \in Members(got[c]) PROVE x \in Members(log[Nobody])
    <3>1. x \in 1 .. Len(log[Nobody])
      BY <2>0 DEF UpToDate, Transcript, Members
    <3> QED BY <2>1, <3>1
  <2>3. ASSUME NEW m \in Members(guestIn) PROVE m[2] \in Members(log[m[1]])
    <3>1. PICK i \in 1 .. Len(guestIn) : m = guestIn[i]
      BY DEF Members
    <3>2. guestIn \in Seq(Clients \X Nat)
      BY <2>0 DEF TypeOK
    <3>3. m[1] \in Clients
      BY <3>2, MembersOf
    <3> QED BY <2>0, <2>1, <3>1, <3>3 DEF Transcript
  <2> QED BY <2>0, <2>2, <2>3 DEF Transcript, TranscriptFirst
<1> QED BY <1>1, SessionInvHolds, PTL

(* Clients that come, hang up and are removed while a chunk is being sent   *)
(* leave no gap and no double in what the others see                        *)
(* (session_manager.py:67-71).                                              *)
THEOREM NoGap == Spec => []Gapless
<1>1. SessionInv => Gapless
  BY DEF SessionInv
<1> QED BY <1>1, SessionInvHolds, PTL

(* When the thread of a client has ended, the client is off the list and    *)
(* its socket is closed (session_manager.py:121-132).                       *)
THEOREM NobodyLeftBehind == Spec => []NoGhost
<1>1. SessionInv => NoGhost
  BY DEF SessionInv, Listed, NoGhost
<1> QED BY <1>1, SessionInvHolds, PTL
=============================================================================
