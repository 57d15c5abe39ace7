----------------------------- MODULE GuardProofs -----------------------------
(***************************************************************************)
(* Proofs about Guard, for every policy of well-formed entries in any      *)
(* order, every set of names and ports a guest may write and every         *)
(* sequence of flows.                                                      *)
(***************************************************************************)
EXTENDS Guard, FiniteSetTheorems, SequenceTheorems, WellFoundedInduction, TLAPS

(* A set of naturals that is not empty has a least element: what induction  *)
(* on a number comes down to, without a predicate as a parameter.           *)
LEMMA LeastNatural ==
  ASSUME NEW T, T \subseteq Nat, T # {}
  PROVE  \E x \in T : \A y \in T : x <= y
<1> DEFINE Less == {pair \in Nat \X Nat : pair[1] < pair[2]}
<1>1. IsWellFoundedOn(Less, Nat)
  BY NatLessThanWellFounded DEF OpToRel
<1>2. ASSUME NEW x \in Nat, NEW y \in Nat, y < x PROVE <<y, x>> \in Less
  BY <1>2
<1> HIDE DEF Less
<1>3. PICK x \in T : \A y \in T : <<y, x>> \notin Less
  BY <1>1, WFMin
<1>4. \A y \in T : x <= y
  <2> TAKE y \in T
  <2>1. x \in Nat /\ y \in Nat
    OBVIOUS
  <2>2. ~ (y < x)
    BY <2>1, <1>2, <1>3
  <2> QED BY <2>1, <2>2
<1> QED BY <1>4

(* A strict order on a finite set that is not empty has a first element.    *)
LEMMA FirstOfOrder ==
  ASSUME NEW S, IsFiniteSet(S), S # {}, NEW R,
         \A i \in S : <<i, i>> \notin R,
         \A i, j, k \in S : <<i, j>> \in R /\ <<j, k>> \in R => <<i, k>> \in R
  PROVE  \E i \in S : \A j \in S : <<j, i>> \notin R
<1> DEFINE Before(i) == {j \in S : <<j, i>> \in R}
           Sizes     == {Cardinality(Before(i)) : i \in S}
<1>1. \A i \in S : IsFiniteSet(Before(i)) /\ Cardinality(Before(i)) \in Nat
  <2> TAKE i \in S
  <2>1. Before(i) \in SUBSET S
    OBVIOUS
  <2>2. IsFiniteSet(Before(i))
    BY <2>1, FS_Subset
  <2> QED BY <2>2, FS_CardinalityType
<1>2. PICK least \in Sizes : \A n \in Sizes : least <= n
  <2> HIDE DEF Before
  <2>1. Sizes \subseteq Nat
    BY <1>1
  <2>2. Sizes # {}
    OBVIOUS
  <2> QED BY <2>1, <2>2, LeastNatural
<1>3. PICK i \in S : least = Cardinality(Before(i))
  BY <1>2
<1>4. ASSUME NEW j \in S, <<j, i>> \in R PROVE FALSE
  <2>1. Before(j) \in SUBSET Before(i) /\ j \in Before(i) /\ j \notin Before(j)
    BY <1>4
  <2> HIDE DEF Before
  <2>2. /\ Cardinality(Before(j)) <= Cardinality(Before(i))
        /\ Cardinality(Before(i)) = Cardinality(Before(j)) => Before(i) = Before(j)
    BY <2>1, <1>1, FS_Subset
  <2>3. Cardinality(Before(j)) \in Sizes
    OBVIOUS
  <2>4. Cardinality(Before(i)) <= Cardinality(Before(j))
    BY <1>2, <1>3, <2>3
  <2> QED BY <1>1, <2>1, <2>2, <2>4
<1> QED BY <1>4

(* A function over the indices of a sequence is a sequence of its length.   *)
LEMMA MapSeq ==
  ASSUME NEW S, NEW T, NEW s \in Seq(S), NEW f \in [S -> T],
         NEW g, g = [i \in DOMAIN s |-> f[s[i]]]
  PROVE  g \in Seq(T) /\ Len(g) = Len(s)
<1>1. DOMAIN s = 1 .. Len(s) /\ Len(s) \in Nat
  BY LenProperties
<1>2. \A i \in 1 .. Len(s) : f[s[i]] \in T
  BY <1>1, ElementOfSeq
<1> QED BY <1>1, <1>2
-----------------------------------------------------------------------------

Label == DOMAIN Fold

(* The assumptions on names and policies, for the proofs to cite. *)
LEMMA NamesAreSequences ==
  /\ Names \subseteq Seq(Label) \ {<< >>}
  /\ Fold \in [Label -> Label]
  /\ Policies \subseteq Seq(Entry)
BY GuardAssumption DEF GuardAssumption, Label

(* What is matched is a name again: lower case and the trailing dot do not  *)
(* empty it.                                                                *)
LEMMA Normalized ==
  ASSUME NEW h \in Names
  PROVE  normalize_host(h) \in Seq(Label) \ {<< >>}
<1> DEFINE lower == [i \in DOMAIN h |-> Fold[h[i]]]
<1>1. h \in Seq(Label) /\ h # << >> /\ Fold \in [Label -> Label]
  BY NamesAreSequences
<1>2. lower \in Seq(Label) /\ Len(lower) = Len(h)
  <2>1. lower = [i \in DOMAIN h |-> Fold[h[i]]]
    OBVIOUS
  <2> HIDE DEF lower
  <2> QED BY <1>1, <2>1, MapSeq
<1>3. Len(h) \in Nat \ {0}
  BY <1>1, EmptySeq
<1> HIDE DEF lower
<1>4. CASE Len(lower) > 1 /\ lower[Len(lower)] = Empty
  <2>1. \A i \in 1 .. Len(lower) - 1 : lower[i] \in Label
    BY <1>2, <1>3, ElementOfSeq
  <2>2. /\ SubSeq(lower, 1, Len(lower) - 1) \in Seq(Label)
        /\ Len(SubSeq(lower, 1, Len(lower) - 1)) = Len(lower) - 1
    BY <1>2, <1>3, <1>4, <2>1, SubSeqProperties
  <2>3. SubSeq(lower, 1, Len(lower) - 1) # << >>
    <3>1. Len(SubSeq(lower, 1, Len(lower) - 1)) # 0
      BY <1>2, <1>3, <1>4, <2>2
    <3> QED BY <3>1, EmptySeq
  <2>4. normalize_host(h) = SubSeq(lower, 1, Len(lower) - 1)
    BY <1>4 DEF normalize_host, lower
  <2> QED BY <2>2, <2>3, <2>4
<1>5. CASE ~ (Len(lower) > 1 /\ lower[Len(lower)] = Empty)
  <2>1. normalize_host(h) = lower
    BY <1>5 DEF normalize_host, lower
  <2>2. lower # << >>
    BY <1>2, <1>3, EmptySeq
  <2> QED BY <1>2, <2>1, <2>2
<1> QED BY <1>4, <1>5

(* The comparison of str.endswith with the dot before the entry's name finds *)
(* exactly the names below it, which are longer.                             *)
LEMMA SuffixIsBelow ==
  ASSUME NEW S, NEW name \in Seq(S), NEW host \in Seq(S), host # << >>
  PROVE  /\ EndsWith(name, host) <=> IsBelow(name, host)
         /\ IsBelow(name, host) => Len(name) > Len(host)
<1>1. Len(name) \in Nat /\ Len(host) \in Nat \ {0}
  BY EmptySeq, LenProperties
<1>2. \A k \in 1 .. Len(name) - 1 :
        Len(SubSeq(name, k + 1, Len(name))) = Len(name) - k
  <2> TAKE k \in 1 .. Len(name) - 1
  <2>1. \A i \in k + 1 .. Len(name) : name[i] \in S
    BY <1>1, ElementOfSeq
  <2> QED BY <1>1, <2>1, SubSeqProperties
<1>3. ASSUME EndsWith(name, host) PROVE IsBelow(name, host)
  <2>1. Len(name) - Len(host) \in 1 .. Len(name) - 1
    BY <1>1, <1>3 DEF EndsWith
  <2>2. SubSeq(name, (Len(name) - Len(host)) + 1, Len(name)) = host
    BY <1>3 DEF EndsWith
  <2> QED BY <2>1, <2>2 DEF IsBelow
<1>4. ASSUME IsBelow(name, host) PROVE EndsWith(name, host) /\ Len(name) > Len(host)
  <2>1. PICK k \in 1 .. Len(name) - 1 : SubSeq(name, k + 1, Len(name)) = host
    BY <1>4 DEF IsBelow
  <2>2. k = Len(name) - Len(host)
    BY <1>1, <1>2, <2>1
  <2> QED BY <1>1, <2>1, <2>2 DEF EndsWith
<1> QED BY <1>3, <1>4

(* What is known of the parts of an entry. *)
LEMMA EntryParts ==
  ASSUME NEW e \in Entry
  PROVE  /\ e.host \in Seq(Label) /\ e.host # << >>
         /\ e.wildcard \in {"exact", "*.", "."}
         /\ e.port \in Nat \cup {None}
         /\ e.inject \in [Headers -> Credentials \cup {None}]
         /\ Len(e.host) \in Nat
<1>1. e.host \in Seq(Label) \ {<< >>}
  BY DEF Entry, Label
<1>2. Len(e.host) \in Nat
  BY <1>1, LenProperties
<1> QED BY <1>1, <1>2 DEF Entry, Wildcards

(* An entry matches exactly the names and ports that its syntax stands for. *)
LEMMA MatchesWhatItCovers ==
  ASSUME NEW e \in Entry, NEW name \in Seq(Label), NEW port
  PROVE  matches(e, name, port) <=> Covers(e, name) /\ CoversPort(e, port)
<1>1. /\ EndsWith(name, e.host) <=> IsBelow(name, e.host)
      /\ IsBelow(name, e.host) => Len(name) > Len(e.host)
  BY EntryParts, SuffixIsBelow
<1>2. name = e.host => ~ IsBelow(name, e.host)
  BY <1>1, EntryParts
<1>3. e.wildcard \in {"exact", "*.", "."}
  BY EntryParts
<1> QED BY <1>1, <1>2, <1>3 DEF matches, Covers, CoversPort

(* An entry that is more specific than another outranks it. *)
LEMMA SpecificOutranks ==
  ASSUME NEW e \in Entry, NEW f \in Entry, MoreSpecific(e, f)
  PROVE  Outranks(e, f)
<1>1. e.host \in Seq(Label) /\ f.host \in Seq(Label) /\ f.host # << >>
  BY EntryParts
<1>2. IsBelow(e.host, f.host) => Len(e.host) > Len(f.host)
  BY <1>1, SuffixIsBelow
<1> QED BY <1>2, EntryParts DEF MoreSpecific, Outranks

(* Rank compares entries as a strict order whose ties are an equivalence.   *)
LEMMA RankOrder ==
  ASSUME NEW e \in Entry, NEW f \in Entry, NEW g \in Entry
  PROVE  /\ ~ Outranks(e, e)
         /\ Outranks(e, f) /\ Outranks(f, g) => Outranks(e, g)
         /\ ~ Outranks(e, f) /\ ~ Outranks(f, g) => ~ Outranks(e, g)
<1>1. Len(e.host) \in Nat /\ Len(f.host) \in Nat /\ Len(g.host) \in Nat
  BY EntryParts
<1> QED BY <1>1 DEF Outranks

(* Of the entries that match, one is the first of the highest rank. *)
LEMMA FirstOfHighestRank ==
  ASSUME policy \in Seq(Entry), NEW found, found \subseteq DOMAIN policy, found # {}
  PROVE  \E i \in found : \A j \in found :
           /\ ~ Outranks(policy[j], policy[i])
           /\ j < i => Outranks(policy[i], policy[j])
<1> DEFINE R == {pair \in found \X found :
                   \/ Outranks(policy[pair[1]], policy[pair[2]])
                   \/ ~ Outranks(policy[pair[2]], policy[pair[1]]) /\ pair[1] < pair[2]}
<1>1. found \subseteq Int /\ \A i \in found : policy[i] \in Entry
  BY LenProperties, ElementOfSeq
<1>2. IsFiniteSet(found)
  <2>1. DOMAIN policy = 1 .. Len(policy) /\ Len(policy) \in Nat
    BY LenProperties
  <2>2. IsFiniteSet(1 .. Len(policy))
    BY <2>1, FS_Interval
  <2> QED BY <2>1, <2>2, FS_Subset
<1>3. \A i, j \in found : <<i, j>> \in R <=>
        \/ Outranks(policy[i], policy[j])
        \/ ~ Outranks(policy[j], policy[i]) /\ i < j
  OBVIOUS
<1>4. \A i, j, k \in found :
        /\ ~ Outranks(policy[i], policy[i])
        /\ Outranks(policy[i], policy[j]) /\ Outranks(policy[j], policy[k])
             => Outranks(policy[i], policy[k])
        /\ ~ Outranks(policy[i], policy[j]) /\ ~ Outranks(policy[j], policy[k])
             => ~ Outranks(policy[i], policy[k])
  BY <1>1, RankOrder
<1> HIDE DEF R
<1>5. \A i \in found : <<i, i>> \notin R
  BY <1>1, <1>3, <1>4
<1>6. ASSUME NEW i \in found, NEW j \in found, NEW k \in found,
             <<i, j>> \in R, <<j, k>> \in R
      PROVE  <<i, k>> \in R
  BY <1>1, <1>3, <1>4, <1>6
<1>7. PICK i \in found : \A j \in found : <<j, i>> \notin R
  BY <1>2, <1>5, <1>6, FirstOfOrder
<1> QED BY <1>1, <1>3, <1>7

(* lookup returns the first of the highest rank among the entries that      *)
(* cover the name and the port, and nothing when there is none or the name  *)
(* is an address.                                                           *)
LEMMA LookupDecides ==
  ASSUME policy \in Seq(Entry), NEW h \in Names, NEW p \in Ports
  PROVE  IF Covering(h, p) = {} \/ is_ip_literal(normalize_host(h))
         THEN lookup(h, p) = None
         ELSE \E i \in Covering(h, p) :
                /\ lookup(h, p) = policy[i] /\ policy[i] \in Entry
                /\ \A j \in Covering(h, p) : ~ MoreSpecific(policy[j], policy[i])
<1> DEFINE name  == normalize_host(h)
           found == {i \in DOMAIN policy : matches(policy[i], name, p)}
           Best(i) == \A j \in found : /\ ~ Outranks(policy[j], policy[i])
                                       /\ j < i => Outranks(policy[i], policy[j])
<1>1. \A i \in DOMAIN policy : policy[i] \in Entry
  BY LenProperties, ElementOfSeq
<1>2. name \in Seq(Label)
  BY Normalized
<1>3. lookup(h, p) = IF is_ip_literal(name) \/ found = {} THEN None
                     ELSE policy[CHOOSE i \in found : Best(i)]
  BY DEF lookup
<1> HIDE DEF name
<1>4. found = Covering(h, p)
  BY <1>1, <1>2, MatchesWhatItCovers DEF Covering, name
<1>5. CASE found = {} \/ is_ip_literal(name)
  BY <1>3, <1>4, <1>5 DEF name
<1>6. CASE found # {} /\ ~ is_ip_literal(name)
  <2>1. \E i \in found : Best(i)
    BY <1>6, FirstOfHighestRank
  <2> DEFINE best == CHOOSE i \in found : Best(i)
  <2>2. best \in found /\ Best(best)
    BY <2>1
  <2>3. lookup(h, p) = policy[best]
    BY <1>3, <1>6
  <2> HIDE DEF best
  <2>4. policy[best] \in Entry
    BY <1>1, <2>2
  <2>5. ASSUME NEW j \in found PROVE ~ MoreSpecific(policy[j], policy[best])
    BY <1>1, <2>2, <2>4, SpecificOutranks
  <2> QED BY <1>4, <1>6, <2>2, <2>3, <2>4, <2>5 DEF name
<1> QED BY <1>5, <1>6
-----------------------------------------------------------------------------
Metas == [blocked : BOOLEAN, logged : BOOLEAN, injected : BOOLEAN]
Line  == [decision : {"allowed", "blocked"}, injected : BOOLEAN]

(* The line tells the flags of the flow. *)
Tells(ls, m) == /\ Len(ls) = 1
                /\ ls[1].decision = "blocked" <=> m.blocked
                /\ ls[1].injected = m.injected

(* The credentials that a started proxy may need are all there. *)
Loaded == phase \notin {"starting", "failed"} => CredentialsOf \subseteq readable

(* What has been sent of a request that is not streamed is what an entry    *)
(* makes of the guest's headers, the entry covers the destination as no     *)
(* other does better, and the Host header names a destination that is       *)
(* covered too.                                                             *)
Meant ==
  sent # None /\ ~ flow.streamed =>
    /\ ~ is_ip_literal(normalize_host(flow.host))
    /\ Covering(flow.pretty_host, flow.port) # {}
    /\ \E i \in Covering(flow.host, flow.port) :
         /\ \E own \in SUBSET Headers : sent = Forwarded(policy[i], own)
         /\ policy[i] \in Entry
         /\ \A j \in Covering(flow.host, flow.port) : ~ MoreSpecific(policy[j], policy[i])

Injecting == sent # None /\ \E x \in Headers : sent[x] \in Credentials

(* What has been sent of a streamed request has no credential; in a tunnel  *)
(* it went to the tunnel's destination.                                     *)
Streamed ==
  sent # None /\ flow.streamed =>
    /\ \A x \in Headers : sent[x] \notin Credentials
    /\ flow.host \in Names /\ flow.port \in Ports
    /\ tunnel # None => tunnel = <<flow.host, flow.port>>

(* A tunnel leads where an entry allows. *)
Tunneled == \A h \in Names, p \in Ports :
              tunnel = <<h, p>> /\ tunnel # None => lookup(h, p) # None

(* The flags and the line of the flow: no line before a_box_logged is set,  *)
(* and one from then on; the flags are true and the line tells them unless  *)
(* the flow is streamed.                                                    *)
Logged ==
  phase \in {"streaming", "forwarded", "blocked", "done"} =>
    /\ ~ flow.streamed => /\ meta.blocked <=> sent = None
                          /\ meta.injected <=> Injecting
                          /\ meta.logged => Tells(lines, meta)
    /\ phase \in {"blocked", "done"} => meta.logged
    /\ phase = "streaming" => flow.streamed
    /\ IF meta.logged THEN Len(lines) = 1 ELSE lines = << >>

GuardInv == TypeOK /\ Loaded /\ Meant /\ Streamed /\ Tunneled /\ Logged

(* Forwarded sets every header, and to a credential exactly where the entry *)
(* injects one.                                                             *)
LEMMA ForwardedHeaders ==
  ASSUME NEW e \in Entry, NEW own \in SUBSET Headers
  PROVE  /\ Forwarded(e, own) \in [Headers -> Origins]
         /\ Forwarded(e, own) # None
         /\ \A x \in Headers :
              /\ Forwarded(e, own)[x] \in Credentials <=> e.inject[x] # None
              /\ Forwarded(e, own)[x] \in Credentials => Forwarded(e, own)[x] = e.inject[x]
              /\ e.inject[x] # None => Forwarded(e, own)[x] \in Credentials
              /\ x \in HopByHop => Forwarded(e, own)[x] # "guest"
         /\ (\E x \in Headers : Forwarded(e, own)[x] \in Credentials) <=> Named(e) # {}
<1>1. e.inject \in [Headers -> Credentials \cup {None}]
  BY EntryParts
<1>2. /\ Credentials \cap {"guest", "unset"} = {}
      /\ None \notin Credentials
      /\ None \notin [Headers -> Credentials \cup {"guest", "unset"}]
  BY GuardAssumption DEF GuardAssumption
<1>3. Forwarded(e, own) \in [Headers -> Origins]
  BY <1>1 DEF Forwarded, Origins
<1>4. Forwarded(e, own) # None
  BY <1>2, <1>3 DEF Origins
<1>5. ASSUME NEW x \in Headers
      PROVE  /\ Forwarded(e, own)[x] \in Credentials <=> e.inject[x] # None
             /\ Forwarded(e, own)[x] \in Credentials => Forwarded(e, own)[x] = e.inject[x]
             /\ e.inject[x] # None => Forwarded(e, own)[x] \in Credentials
             /\ x \in HopByHop => Forwarded(e, own)[x] # "guest"
  BY <1>1, <1>2 DEF Forwarded
<1>6. Named(e) # {} <=> \E x \in Headers : e.inject[x] # None
  BY DEF Named
<1> QED BY <1>3, <1>4, <1>5, <1>6

(* A line of the log. *)
LEMMA OneLine ==
  ASSUME NEW S, NEW x \in S
  PROVE  /\ Append(<< >>, x) \in Seq(S)
         /\ Len(Append(<< >>, x)) = 1
         /\ Append(<< >>, x)[1] = x
BY EmptySeq, AppendProperties

(* access leaves one line, whether it writes it or has written it before;   *)
(* it tells the flags unless they have changed since.                       *)
LEMMA AccessTells ==
  ASSUME NEW m \in Metas, NEW ls \in Seq(Line),
         IF m.logged THEN Len(ls) = 1 ELSE ls = << >>
  PROVE  /\ access(m, ls) \in Seq(Line) /\ Len(access(m, ls)) = 1
         /\ m.logged => access(m, ls) = ls
         /\ (m.logged => Tells(ls, m)) => Tells(access(m, ls), m)
<1> DEFINE line == [decision |-> IF m.blocked THEN "blocked" ELSE "allowed",
                    injected |-> m.injected]
<1>1. /\ line \in Line
      /\ line.decision = "blocked" <=> m.blocked
      /\ line.injected = m.injected
  BY DEF Line, Metas
<1>2. access(m, ls) = IF m.logged THEN ls ELSE Append(ls, line)
  BY DEF access
<1> HIDE DEF line
<1>3. CASE m.logged
  BY <1>2, <1>3
<1>4. CASE ~ m.logged
  <2>1. access(m, ls) = Append(<< >>, line)
    BY <1>2, <1>4
  <2> QED BY <1>1, <1>4, <2>1, OneLine DEF Tells
<1> QED BY <1>3, <1>4

(* Before the proxy has started it has answered nothing. *)
LEMMA GuardInvInit == Init => GuardInv
<1> SUFFICES ASSUME Init PROVE GuardInv
  OBVIOUS
<1>1. MaxFlows \in Nat
  BY GuardAssumption DEF GuardAssumption
<1>2. TypeOK
  <2>1. lines \in Seq([decision : {"allowed", "blocked"}, injected : BOOLEAN])
    BY EmptySeq DEF Init
  <2>2. flows \in 0 .. MaxFlows
    BY <1>1 DEF Init
  <2>3. meta \in [blocked : BOOLEAN, logged : BOOLEAN, injected : BOOLEAN]
    BY DEF Init, NoMeta
  <2> QED BY <2>1, <2>2, <2>3 DEF Init, TypeOK
<1> QED BY <1>2 DEF Init, GuardInv, Loaded, Meant, Streamed, Tunneled, Logged

(* Blocking sets the flag and leaves one line. *)
LEMMA BlockKeeps ==
  ASSUME NEW m \in Metas, NEW ls \in Seq(Line),
         IF m.logged THEN Len(ls) = 1 ELSE ls = << >>,
         Block(m, ls)
  PROVE  /\ meta' \in Metas /\ meta'.blocked = TRUE /\ meta'.logged = TRUE
         /\ meta'.injected = m.injected
         /\ lines' \in Seq(Line) /\ Len(lines') = 1
         /\ ~ m.logged => Tells(lines', meta')
<1> DEFINE blocked == [m EXCEPT !.blocked = TRUE]
<1>1. /\ blocked \in Metas /\ blocked.blocked = TRUE /\ blocked.logged = m.logged
      /\ blocked.injected = m.injected
      /\ meta' = [blocked EXCEPT !.logged = TRUE] /\ lines' = access(blocked, ls)
  BY DEF Block, Metas
<1> HIDE DEF blocked
<1>2. /\ meta' \in Metas /\ meta'.blocked = TRUE /\ meta'.logged = TRUE
      /\ meta'.injected = m.injected
  BY <1>1 DEF Metas
<1>3. /\ lines' \in Seq(Line) /\ Len(lines') = 1
      /\ ~ m.logged => Tells(lines', blocked)
  BY <1>1, AccessTells
<1> QED BY <1>1, <1>2, <1>3 DEF Tells

(* A refused flow has its line, and nothing of it has been sent. *)
LEMMA RefuseKeeps ==
  ASSUME Refuse, flow'.streamed = FALSE
  PROVE  /\ meta' \in Metas /\ lines' \in Seq(Line) /\ sent' = None
         /\ phase' = "blocked" /\ Meant' /\ Streamed' /\ Logged'
<1>1. /\ NoMeta \in Metas /\ NoMeta.logged = FALSE /\ NoMeta.injected = FALSE
      /\ << >> \in Seq(Line)
  BY EmptySeq DEF NoMeta, Metas
<1>2. Block(NoMeta, << >>) /\ sent' = None /\ phase' = "blocked"
  BY DEF Refuse
<1>3. /\ meta' \in Metas /\ meta'.blocked = TRUE /\ meta'.logged = TRUE
      /\ meta'.injected = FALSE
      /\ lines' \in Seq(Line) /\ Len(lines') = 1 /\ Tells(lines', meta')
  BY <1>1, <1>2, BlockKeeps
<1>4. Meant' /\ Streamed'
  BY <1>2 DEF Meant, Streamed
<1>5. Logged'
  BY <1>2, <1>3 DEF Logged, Injecting
<1> QED BY <1>2, <1>3, <1>4, <1>5

(* lookup depends on the policy only. *)
LEMMA LookupKept ==
  ASSUME policy' = policy, NEW h, NEW p
  PROVE  lookup(h, p)' = lookup(h, p)
BY DEF lookup

(* A tunnel that stays, goes, or is opened where lookup allows it. *)
LEMMA TunneledKept ==
  ASSUME policy' = policy, Tunneled,
         \/ tunnel' \in {None, tunnel}
         \/ \E h \in Names, p \in Ports : tunnel' = <<h, p>> /\ lookup(h, p) # None
  PROVE  Tunneled'
<1>1. ASSUME NEW h \in Names, NEW p \in Ports, tunnel' = <<h, p>>, tunnel' # None
      PROVE  lookup(h, p)' # None
  BY <1>1, LookupKept DEF Tunneled
<1> QED BY <1>1 DEF Tunneled

(* What was meant and what was streamed depends on the policy, the flow,    *)
(* the tunnel and what was sent only.                                       *)
LEMMA SentKept ==
  ASSUME UNCHANGED <<policy, flow, sent, tunnel>>
  PROVE  /\ Meant => Meant'
         /\ Streamed => Streamed'
         /\ Tunneled => Tunneled'
<1>1. (Meant => Meant') /\ (Streamed => Streamed')
  BY DEF Meant, Streamed, Covering
<1> QED BY <1>1, TunneledKept

(* Every hook preserves the invariant. *)
LEMMA GuardInvStep == GuardInv /\ [Next]_vars => GuardInv'
<1> SUFFICES ASSUME GuardInv, [Next]_vars PROVE GuardInv'
  OBVIOUS
<1>1. /\ TypeOK /\ Loaded /\ Meant /\ Streamed /\ Tunneled /\ Logged
      /\ policy \in Seq(Entry) /\ policy \in Policies
      /\ meta \in Metas /\ lines \in Seq(Line) /\ flows \in 0 .. MaxFlows
  BY NamesAreSequences DEF GuardInv, TypeOK, Metas, Line
<1>0. MaxFlows \in Nat
  BY GuardAssumption DEF GuardAssumption
<1>2. CASE Start
  <2>1. TypeOK'
    BY <1>1, <1>2 DEF Start, TypeOK
  <2>2. Loaded'
    BY <1>2 DEF Start, Loaded, CredentialsOf
  <2>3. Meant' /\ Streamed' /\ Tunneled'
    BY <1>1, <1>2, SentKept DEF Start
  <2>4. Logged'
    BY <1>2 DEF Start, Logged
  <2> QED BY <2>1, <2>2, <2>3, <2>4 DEF GuardInv
<1>3. CASE http_connect
  <2>1. PICK h \in Names, p \in Ports :
          /\ NewFlow([kind |-> "connect", host |-> h, port |-> p,
                      pretty_host |-> h, streamed |-> FALSE])
          /\ \/ /\ lookup(h, p) # None
                /\ tunnel' = <<h, p>> /\ phase' = "idle"
                /\ meta' = NoMeta /\ lines' = << >> /\ sent' = None
             \/ tunnel' = tunnel /\ Refuse
    BY <1>3 DEF http_connect
  <2>2. /\ flow' = [kind |-> "connect", host |-> h, port |-> p,
                    pretty_host |-> h, streamed |-> FALSE]
        /\ flows' \in 0 .. MaxFlows /\ policy' = policy /\ readable' = readable
        /\ phase = "idle"
    BY <1>0, <1>1, <2>1 DEF NewFlow
  <2>3. /\ flow'.kind = "connect" /\ flow'.host = h /\ flow'.port = p
        /\ flow'.pretty_host = h /\ flow'.streamed = FALSE
    BY <2>2
  <2>4. Loaded'
    BY <1>1, <2>1, <2>2 DEF Loaded, CredentialsOf
  <2>5. tunnel' = None \/ tunnel' \in Names \X Ports
    BY <1>1, <2>1 DEF TypeOK
  <2>6. Tunneled'
    BY <1>1, <2>1, <2>2, TunneledKept
  <2>7. CASE /\ phase' = "idle"
             /\ meta' = NoMeta /\ lines' = << >> /\ sent' = None
    <3>1. meta' \in Metas /\ lines' \in Seq(Line)
      BY <2>7, EmptySeq DEF NoMeta, Metas
    <3>2. TypeOK'
      BY <1>1, <2>2, <2>3, <2>5, <2>7, <3>1 DEF TypeOK, Metas, Line
    <3> QED BY <2>4, <2>6, <2>7, <3>2 DEF GuardInv, Meant, Streamed, Logged
  <2>8. CASE Refuse
    <3>1. TypeOK'
      BY <1>1, <2>2, <2>3, <2>5, <2>8, RefuseKeeps DEF TypeOK, Metas, Line
    <3> QED BY <2>3, <2>4, <2>6, <2>8, <3>1, RefuseKeeps DEF GuardInv
  <2> QED BY <2>1, <2>7, <2>8
<1>4. ASSUME NEW h \in Names, NEW p \in Ports, NEW hh \in Names, NEW streamed \in BOOLEAN,
             NewRequest(h, p, hh, streamed), phase' \in {"streaming", "forwarded", "blocked"}
      PROVE  /\ flow'.kind = "request" /\ flow'.host = h /\ flow'.port = p
             /\ flow'.pretty_host = hh /\ flow'.streamed = streamed
             /\ flows' \in 0 .. MaxFlows /\ policy' = policy /\ readable' = readable
             /\ tunnel' = tunnel /\ (tunnel # None => tunnel = <<h, p>>)
             /\ tunnel' = None \/ tunnel' \in Names \X Ports
             /\ Loaded' /\ Tunneled'
             /\ TypeOK' <=> /\ meta' \in Metas /\ lines' \in Seq(Line)
                            /\ sent' = None \/ sent' \in [Headers -> Origins]
  <2>1. /\ flow' = [kind |-> "request", host |-> h, port |-> p,
                    pretty_host |-> hh, streamed |-> streamed]
        /\ flows' \in 0 .. MaxFlows /\ policy' = policy /\ readable' = readable
        /\ tunnel' = tunnel /\ (tunnel # None => tunnel = <<h, p>>)
        /\ phase = "idle"
    BY <1>0, <1>1, <1>4 DEF NewRequest, NewFlow
  <2>2. /\ flow'.kind = "request" /\ flow'.host = h /\ flow'.port = p
        /\ flow'.pretty_host = hh /\ flow'.streamed = streamed
    BY <2>1
  <2>3. tunnel' = None \/ tunnel' \in Names \X Ports
    BY <1>1, <2>1 DEF TypeOK
  <2>4. Loaded'
    BY <1>1, <2>1 DEF Loaded, CredentialsOf
  <2>5. Tunneled'
    BY <1>1, <2>1, TunneledKept
  <2>6. TypeOK' <=> /\ meta' \in Metas /\ lines' \in Seq(Line)
                    /\ sent' = None \/ sent' \in [Headers -> Origins]
    BY <1>1, <1>4, <2>1, <2>2, <2>3 DEF TypeOK, Metas, Line
  <2> QED BY <2>1, <2>2, <2>3, <2>4, <2>5, <2>6
<1>5. CASE request
  <2>1. PICK h \in Names, p \in Ports, hh \in Names, own \in SUBSET Headers :
          /\ NewRequest(h, p, hh, FALSE)
          /\ \/ /\ ~ Refused(flow')
                /\ LET e == lookup(h, p) IN
                     /\ Named(e) \subseteq readable
                     /\ sent' = Forwarded(e, own)
                     /\ meta' = [NoMeta EXCEPT !.injected = Named(e) # {}]
                /\ phase' = "forwarded" /\ lines' = << >>
             \/ Refuse
    BY <1>5 DEF request
  <2>2. CASE Refuse
    <3>1. phase' = "blocked"
      BY <2>2 DEF Refuse
    <3>2. flow'.streamed = FALSE /\ Loaded' /\ Tunneled'
      BY <1>4, <2>1, <3>1
    <3>3. TypeOK'
      BY <1>4, <2>1, <2>2, <3>1, <3>2, RefuseKeeps
    <3> QED BY <2>2, <3>2, <3>3, RefuseKeeps DEF GuardInv
  <2>3. CASE ~ Refuse
    <3> DEFINE e == lookup(h, p)
    <3>1. /\ ~ Refused(flow') /\ Named(e) \subseteq readable
          /\ sent' = Forwarded(e, own)
          /\ meta' = [NoMeta EXCEPT !.injected = Named(e) # {}]
          /\ phase' = "forwarded" /\ lines' = << >>
      BY <2>1, <2>3
    <3>2. /\ flow'.host = h /\ flow'.port = p /\ flow'.pretty_host = hh
          /\ flow'.streamed = FALSE /\ policy' = policy
          /\ Loaded' /\ Tunneled'
      BY <1>4, <2>1, <3>1
    <3>3. e # None /\ normalize_host(hh) = normalize_host(h)
      BY <3>1, <3>2 DEF Refused
    <3>4. /\ ~ is_ip_literal(normalize_host(h))
          /\ \E i \in Covering(h, p) :
               /\ e = policy[i] /\ policy[i] \in Entry
               /\ \A j \in Covering(h, p) : ~ MoreSpecific(policy[j], policy[i])
      BY <1>1, <3>3, LookupDecides
    <3>5. PICK i \in Covering(h, p) :
            /\ e = policy[i] /\ policy[i] \in Entry
            /\ \A j \in Covering(h, p) : ~ MoreSpecific(policy[j], policy[i])
      BY <3>4
    <3> HIDE DEF e
    <3>6. Covering(hh, p) # {}
      BY <3>3, <3>5 DEF Covering
    <3>7. /\ sent' \in [Headers -> Origins] /\ sent' # None
          /\ (\E x \in Headers : sent'[x] \in Credentials) <=> Named(e) # {}
      BY <3>1, <3>5, ForwardedHeaders
    <3>8. /\ meta' \in Metas /\ meta'.blocked = FALSE /\ meta'.logged = FALSE
          /\ meta'.injected <=> Named(e) # {}
      BY <3>1 DEF NoMeta, Metas
    <3>9. TypeOK'
      BY <1>4, <2>1, <3>1, <3>7, <3>8, EmptySeq
    <3>10. Meant'
      <4>1. /\ Covering(flow.host, flow.port)' = Covering(h, p)
            /\ Covering(flow.pretty_host, flow.port)' = Covering(hh, p)
        BY <3>2 DEF Covering
      <4>2. \E o \in SUBSET Headers : sent' = Forwarded(policy[i], o)
        BY <3>1, <3>5
      <4> QED BY <3>2, <3>4, <3>5, <3>6, <4>1, <4>2 DEF Meant
    <3>11. Streamed'
      BY <3>2 DEF Streamed
    <3>12. Logged'
      BY <3>1, <3>7, <3>8 DEF Logged, Injecting
    <3> QED BY <3>2, <3>9, <3>10, <3>11, <3>12 DEF GuardInv
  <2> QED BY <2>2, <2>3
<1>6. CASE Stream
  <2>1. PICK h \in Names, p \in Ports, hh \in Names, own \in SUBSET Headers :
          /\ NewRequest(h, p, hh, TRUE)
          /\ sent' = [x \in Headers |-> IF x \in own THEN "guest" ELSE "unset"]
          /\ phase' = "streaming" /\ meta' = NoMeta /\ lines' = << >>
    BY <1>6 DEF Stream
  <2>2. /\ flow'.host = h /\ flow'.port = p /\ flow'.streamed = TRUE
        /\ tunnel' = tunnel /\ (tunnel # None => tunnel = <<h, p>>)
        /\ Loaded' /\ Tunneled'
    BY <1>4, <2>1
  <2>3. /\ meta' \in Metas /\ meta'.logged = FALSE /\ lines' \in Seq(Line)
        /\ sent' \in [Headers -> Origins]
    BY <2>1, EmptySeq DEF NoMeta, Metas, Origins
  <2>4. TypeOK'
    BY <1>4, <2>1, <2>3
  <2>5. \A x \in Headers : sent'[x] \notin Credentials
    BY <2>1, GuardAssumption DEF GuardAssumption
  <2>6. Meant' /\ Streamed'
    BY <2>2, <2>5 DEF Meant, Streamed
  <2>7. Logged'
    BY <2>1, <2>2, <2>3 DEF Logged
  <2> QED BY <2>2, <2>4, <2>6, <2>7 DEF GuardInv
<1>7. CASE request_AfterBody
  <2>1. /\ phase = "streaming" /\ phase' = "forwarded"
        /\ UNCHANGED <<policy, readable, tunnel, flow, sent, flows>>
        /\ \/ /\ meta' = [meta EXCEPT !.injected = Named(lookup(flow.host, flow.port)) # {}]
              /\ UNCHANGED lines
           \/ Block(meta, lines)
    BY <1>7 DEF request_AfterBody
  <2>2. /\ flow.streamed
        /\ IF meta.logged THEN Len(lines) = 1 ELSE lines = << >>
    BY <1>1, <2>1 DEF Logged
  <2>3. /\ meta' \in Metas /\ lines' \in Seq(Line)
        /\ IF meta'.logged THEN Len(lines') = 1 ELSE lines' = << >>
    <3>1. CASE /\ meta' = [meta EXCEPT !.injected = Named(lookup(flow.host, flow.port)) # {}]
               /\ UNCHANGED lines
      <4>1. meta' \in Metas /\ meta'.logged = meta.logged
        BY <1>1, <3>1 DEF Metas
      <4> QED BY <1>1, <2>2, <3>1, <4>1
    <3>2. CASE Block(meta, lines)
      BY <1>1, <2>2, <3>2, BlockKeeps
    <3> QED BY <2>1, <3>1, <3>2
  <2>4. TypeOK'
    BY <1>1, <2>1, <2>3 DEF TypeOK, Metas, Line
  <2>5. Loaded'
    BY <1>1, <2>1 DEF Loaded, CredentialsOf
  <2>6. Meant' /\ Streamed' /\ Tunneled'
    BY <1>1, <2>1, SentKept
  <2>7. Logged'
    BY <2>1, <2>2, <2>3 DEF Logged
  <2> QED BY <2>4, <2>5, <2>6, <2>7 DEF GuardInv
<1>8. CASE LogFlow
  <2>1. /\ phase \in {"streaming", "forwarded", "blocked", "done"}
        /\ phase' = "done" \/ (phase = "streaming" /\ phase' = phase)
        /\ lines' = access(meta, lines) /\ meta' = [meta EXCEPT !.logged = TRUE]
        /\ UNCHANGED <<policy, readable, tunnel, flow, sent, flows>>
    BY <1>8 DEF LogFlow
  <2>2. /\ meta' \in Metas /\ meta'.blocked = meta.blocked /\ meta'.logged = TRUE
        /\ meta'.injected = meta.injected
    BY <1>1, <2>1 DEF Metas
  <2>3. /\ lines' \in Seq(Line) /\ Len(lines') = 1
        /\ (meta.logged => Tells(lines, meta)) => Tells(lines', meta)
    BY <1>1, <2>1, AccessTells DEF Logged
  <2>4. TypeOK'
    BY <1>1, <2>1, <2>2, <2>3 DEF TypeOK, Metas, Line
  <2>5. Loaded'
    BY <1>1, <2>1 DEF Loaded, CredentialsOf
  <2>6. Meant' /\ Streamed' /\ Tunneled'
    BY <1>1, <2>1, SentKept
  <2>7. Logged'
    BY <1>1, <2>1, <2>2, <2>3 DEF Logged, Injecting, Tells
  <2> QED BY <2>4, <2>5, <2>6, <2>7 DEF GuardInv
<1>9. CASE NextFlow
  <2>1. /\ phase = "done" /\ phase' = "idle" /\ flow' = NoFlow /\ meta' = NoMeta
        /\ sent' = None /\ lines' = << >> /\ tunnel' \in {None, tunnel}
        /\ UNCHANGED <<policy, readable, flows>>
    BY <1>9 DEF NextFlow
  <2>2. meta' \in Metas /\ lines' \in Seq(Line)
    BY <2>1, EmptySeq DEF NoMeta, Metas
  <2>3. TypeOK'
    BY <1>1, <2>1, <2>2 DEF TypeOK, Metas, Line
  <2>4. Loaded'
    BY <1>1, <2>1 DEF Loaded, CredentialsOf
  <2>5. Tunneled'
    BY <1>1, <2>1, TunneledKept
  <2> QED BY <2>1, <2>3, <2>4, <2>5 DEF GuardInv, Meant, Streamed, Logged
<1>10. CASE UNCHANGED vars
  <2>1. UNCHANGED <<policy, readable, phase, tunnel, flow, meta, sent, lines, flows>>
    BY <1>10 DEF vars
  <2>2. TypeOK'
    BY <1>1, <2>1 DEF TypeOK
  <2>3. Loaded' /\ Logged'
    BY <1>1, <2>1 DEF Loaded, CredentialsOf, Logged, Injecting
  <2>4. Meant' /\ Streamed' /\ Tunneled'
    BY <1>1, <2>1, SentKept
  <2> QED BY <2>2, <2>3, <2>4 DEF GuardInv
<1> QED
  BY <1>2, <1>3, <1>5, <1>6, <1>7, <1>8, <1>9, <1>10 DEF Next

(* GuardInv holds in every reachable state. *)
LEMMA GuardInvHolds == Spec => []GuardInv
BY GuardInvInit, GuardInvStep, PTL DEF Spec

(* The state of a flow stays well typed, through every hook. *)
THEOREM Typed == Spec => []TypeOK
<1>1. GuardInv => TypeOK
  BY DEF GuardInv
<1> QED BY <1>1, GuardInvHolds, PTL

(* Whatever the policy says and in whichever order, lookup decides by the   *)
(* most specific of the entries that cover a name and a port, and refuses   *)
(* when there is none or the name is an address.                            *)
THEOREM MostSpecific == Spec => []MostSpecificDecides
<1>1. ASSUME GuardInv, NEW h \in Names, NEW p \in Ports
      PROVE  LET e == lookup(h, p)
                 C == {policy[i] : i \in Covering(h, p)}
             IN IF C = {} \/ is_ip_literal(normalize_host(h)) THEN e = None
                ELSE e \in C /\ \A f \in C : ~ MoreSpecific(f, e)
  <2>1. policy \in Seq(Entry)
    BY <1>1, NamesAreSequences DEF GuardInv, TypeOK
  <2>2. IF Covering(h, p) = {} \/ is_ip_literal(normalize_host(h))
        THEN lookup(h, p) = None
        ELSE \E i \in Covering(h, p) :
               /\ lookup(h, p) = policy[i] /\ policy[i] \in Entry
               /\ \A j \in Covering(h, p) : ~ MoreSpecific(policy[j], policy[i])
    BY <2>1, LookupDecides
  <2> QED BY <2>2
<1>2. GuardInv => MostSpecificDecides
  BY <1>1 DEF MostSpecificDecides
<1> QED BY <1>2, GuardInvHolds, PTL

(* What reaches a server of a request that is not streamed was covered by   *)
(* an entry, by its destination and by its Host header, in and outside a    *)
(* tunnel, and never went to an address; a streamed one in a tunnel was     *)
(* covered by its destination.                                              *)
THEOREM NothingElseAllowed == Spec => []OnlyAllowed
<1>1. ASSUME GuardInv, sent # None, ~ flow.streamed
      PROVE  /\ Covering(flow.host, flow.port) # {}
             /\ ~ is_ip_literal(normalize_host(flow.host))
             /\ Covering(flow.pretty_host, flow.port) # {}
  BY <1>1 DEF GuardInv, Meant
<1>2. ASSUME GuardInv, sent # None, flow.streamed, tunnel # None
      PROVE  /\ Covering(flow.host, flow.port) # {}
             /\ ~ is_ip_literal(normalize_host(flow.host))
  <2>1. /\ flow.host \in Names /\ flow.port \in Ports
        /\ lookup(flow.host, flow.port) # None /\ policy \in Seq(Entry)
    BY <1>2, NamesAreSequences DEF GuardInv, TypeOK, Streamed, Tunneled
  <2> QED BY <2>1, LookupDecides
<1>3. GuardInv => OnlyAllowed
  BY <1>1, <1>2 DEF OnlyAllowed
<1> QED BY <1>3, GuardInvHolds, PTL

(* A started proxy has every credential that lookup may ask for; a          *)
(* credential travels only in a header in which the entry that decides      *)
(* injects it, and there in place of what the guest has written, unless the *)
(* request is streamed: that one gets none.                                 *)
THEOREM CredentialsStay == Spec => []CredentialsInPlace
<1>1. ASSUME GuardInv, phase = "idle", NEW h \in Names, NEW p \in Ports, lookup(h, p) # None
      PROVE  Named(lookup(h, p)) \subseteq readable
  <2>1. policy \in Seq(Entry) /\ CredentialsOf \subseteq readable
    BY <1>1, NamesAreSequences DEF GuardInv, TypeOK, Loaded
  <2>2. PICK i \in Covering(h, p) : lookup(h, p) = policy[i]
    BY <1>1, <2>1, LookupDecides
  <2>3. Named(policy[i]) \subseteq CredentialsOf
    BY DEF CredentialsOf, Covering
  <2> QED BY <2>1, <2>2, <2>3
<1>2. ASSUME GuardInv, sent # None, ~ flow.streamed
      PROVE  \E i \in Covering(flow.host, flow.port) : \A x \in Headers :
               /\ sent[x] \in Credentials => sent[x] = policy[i].inject[x]
               /\ policy[i].inject[x] # None => sent[x] # "guest" /\ sent[x] # "unset"
               /\ x \in HopByHop => sent[x] # "guest"
               /\ \A j \in Covering(flow.host, flow.port) : ~ MoreSpecific(policy[j], policy[i])
  <2>1. PICK i \in Covering(flow.host, flow.port) :
          /\ \E own \in SUBSET Headers : sent = Forwarded(policy[i], own)
          /\ policy[i] \in Entry
          /\ \A j \in Covering(flow.host, flow.port) : ~ MoreSpecific(policy[j], policy[i])
    BY <1>2 DEF GuardInv, Meant
  <2>2. PICK own \in SUBSET Headers : sent = Forwarded(policy[i], own)
    BY <2>1
  <2>3. Credentials \cap {"guest", "unset"} = {}
    BY GuardAssumption DEF GuardAssumption
  <2>4. ASSUME NEW x \in Headers
        PROVE  /\ sent[x] \in Credentials => sent[x] = policy[i].inject[x]
               /\ policy[i].inject[x] # None => sent[x] # "guest" /\ sent[x] # "unset"
               /\ x \in HopByHop => sent[x] # "guest"
    BY <2>1, <2>2, <2>3, ForwardedHeaders
  <2> QED BY <2>1, <2>4
<1>3. GuardInv /\ sent # None /\ flow.streamed => \A x \in Headers : sent[x] \notin Credentials
  BY DEF GuardInv, Streamed
<1>4. GuardInv => CredentialsInPlace
  BY <1>1, <1>2, <1>3 DEF CredentialsInPlace
<1> QED BY <1>4, GuardInvHolds, PTL

(* A finished flow has one line, however often response and error have run  *)
(* and wherever they came among the hooks of a streamed request; of one     *)
(* that was not streamed the line is true.                                  *)
THEOREM OneLinePerFlow == Spec => []OneTrueLine
<1>1. ASSUME GuardInv, phase = "done"
      PROVE  Len(lines) = 1
  BY <1>1 DEF GuardInv, Logged
<1>2. ASSUME GuardInv, phase = "done", ~ flow.streamed
      PROVE  /\ lines[1].decision = "blocked" <=> sent = None
             /\ lines[1].injected = (sent # None /\ \E x \in Headers : sent[x] \in Credentials)
  <2>1. /\ lines[1].decision = "blocked" <=> sent = None
        /\ lines[1].injected = meta.injected
        /\ meta.injected <=> Injecting
    BY <1>2 DEF GuardInv, Logged, Tells
  <2>2. meta.injected \in BOOLEAN
    BY <1>2 DEF GuardInv, TypeOK
  <2> QED BY <2>1, <2>2, Zenon DEF Injecting
<1>3. GuardInv => OneTrueLine
  BY <1>1, <1>2 DEF OneTrueLine
<1> QED BY <1>3, GuardInvHolds, PTL
=============================================================================
