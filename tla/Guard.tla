------------------------------- MODULE Guard -------------------------------
(***************************************************************************)
(* The guard of one guest's proxy (modules/guest-proxy/guard.py, addon.py):*)
(* the allowlist, the injected credentials and the access log, as hooks    *)
(* that mitmproxy calls on the flows of a client connection, one at a      *)
(* time.  A request whose body is large is streamed: mitmproxy sends its   *)
(* headers and body on as they come and calls the request hook at its end  *)
(* (stream_large_bodies, guest-proxy/default.nix:318).  A name is the      *)
(* sequence of its labels; the last one is empty when it is written with a *)
(* trailing dot.                                                           *)
(***************************************************************************)
EXTENDS Integers, Sequences

CONSTANTS
  Names,        \* host names a guest may write
  Ports,        \* destination ports
  DefaultPorts, \* DEFAULT_PORTS
  Fold,         \* Fold[l]: the label l in lower case
  Empty,        \* the label of a trailing dot
  Numeric,      \* labels that are numbers
  Bracketed,    \* labels of IPv6 addresses
  Policies,     \* policy files: sequences of entries
  Credentials,  \* names of credential files
  Headers,      \* headers: what entries may inject, and
  HopByHop,     \* HOP_BY_HOP
  None,
  MaxFlows      \* bound: requests on a connection

Wildcards == {"exact", "*.", "."}

Entry == [host : Seq(DOMAIN Fold) \ {<< >>}, wildcard : Wildcards,
          port : Nat \cup {None}, inject : [Headers -> Credentials \cup {None}],
          fullmatch : BOOLEAN]

ASSUME GuardAssumption ==
  /\ Names \subseteq Seq(DOMAIN Fold) \ {<< >>}
  /\ Fold \in [DOMAIN Fold -> DOMAIN Fold]
  /\ Policies \subseteq Seq(Entry)
  /\ DefaultPorts \subseteq Ports /\ \A p \in Ports : p \in Nat /\ 0 < p /\ p < 65536
  /\ None \notin Nat \cup Credentials /\ HopByHop \subseteq Headers
  /\ Credentials \cap {"guest", "unset"} = {}
  /\ None \notin [Headers -> Credentials \cup {"guest", "unset"}]
  /\ MaxFlows \in Nat

VARIABLES
  policy,    \* the policy file
  readable,  \* credential files that exist and hold a header value
  phase,     \* where the proxy is with the flow
  tunnel,    \* <<host, port>> of an accepted CONNECT, or None
  flow,      \* the request: kind, host, port, Host header, is it streamed?
  meta,      \* flow.metadata: blocked, logged, injected
  sent,      \* what the server got: None or header -> origin of its value
  lines,     \* access log lines of the flow
  flows      \* how many flows there were

vars == <<policy, readable, phase, tunnel, flow, meta, sent, lines, flows>>

NoFlow == [kind |-> "none", host |-> << >>, port |-> None,
           pretty_host |-> << >>, streamed |-> FALSE]

NoMeta == [blocked |-> FALSE, logged |-> FALSE, injected |-> FALSE]

Origins == Credentials \cup {"guest", "unset"}

TypeOK ==
  /\ policy \in Policies /\ readable \subseteq Credentials
  /\ phase \in {"starting", "failed", "idle", "streaming", "forwarded", "blocked", "done"}
  /\ tunnel = None \/ (tunnel \in Names \X Ports)
  /\ flow = NoFlow \/ /\ flow.kind \in {"connect", "request"}
                      /\ flow.host \in Names /\ flow.pretty_host \in Names
                      /\ flow.port \in Ports /\ flow.streamed \in BOOLEAN
  /\ meta \in [blocked : BOOLEAN, logged : BOOLEAN, injected : BOOLEAN]
  /\ sent = None \/ sent \in [Headers -> Origins]
  /\ lines \in Seq([decision : {"allowed", "blocked"}, injected : BOOLEAN])
  /\ flows \in 0 .. MaxFlows

Init ==
  /\ policy \in Policies /\ readable \in SUBSET Credentials
  /\ phase = "starting" /\ tunnel = None /\ flow = NoFlow
  /\ meta = NoMeta /\ sent = None /\ lines = << >> /\ flows = 0

-----------------------------------------------------------------------------
(* Policy lookup. *)

normalize_host(host) ==
  LET h == [i \in DOMAIN host |-> Fold[host[i]]]
  IN IF Len(h) > 1 /\ h[Len(h)] = Empty THEN SubSeq(h, 1, Len(h) - 1) ELSE h

is_ip_literal(host) == \/ \E i \in DOMAIN host : host[i] \in Bracketed
                       \/ host[Len(host)] \in Numeric

EndsWith(host, suffix) ==
  /\ Len(host) > Len(suffix)
  /\ SubSeq(host, Len(host) - Len(suffix) + 1, Len(host)) = suffix

matches(e, host, port) ==
  /\ port \in (IF e.port # None THEN {e.port} ELSE DefaultPorts)
  /\ IF host = e.host THEN e.wildcard # "*."
     ELSE e.wildcard # "exact" /\ EndsWith(host, e.host)

\* mutant: a port counts for more than a longer name
Outranks_PortFirst(e, f) ==
  \/ e.wildcard = "exact" /\ f.wildcard # "exact"
  \/ /\ (e.wildcard = "exact" <=> f.wildcard = "exact")
     /\ \/ e.port # None /\ f.port = None
        \/ (e.port # None <=> f.port # None) /\ Len(e.host) > Len(f.host)

(* The order of rank: exact, then length, then port. *)
Outranks(e, f) ==
  \/ e.wildcard = "exact" /\ f.wildcard # "exact"
  \/ /\ (e.wildcard = "exact" <=> f.wildcard = "exact")
     /\ \/ Len(e.host) > Len(f.host)
        \/ Len(e.host) = Len(f.host) /\ e.port # None /\ f.port = None

(* max returns the first of the highest rank. *)
lookup(host, port) ==
  LET h     == normalize_host(host)
      found == {i \in DOMAIN policy : matches(policy[i], h, port)}
  IN IF is_ip_literal(h) \/ found = {} THEN None
     ELSE policy[CHOOSE i \in found : \A j \in found :
                   /\ ~ Outranks(policy[j], policy[i])
                   /\ j < i => Outranks(policy[i], policy[j])]

-----------------------------------------------------------------------------
Named(e) == {e.inject[x] : x \in Headers} \ {None}

CredentialsOf == UNION {Named(policy[i]) : i \in DOMAIN policy}

(* parse_entry accepts the key: it matches ENTRY, and its port is a port.   *)
parse_entry(e) == e.fullmatch /\ (e.port # None => 0 < e.port /\ e.port < 65536)

(* from_environment: an invalid entry or a missing credential stops the     *)
(* proxy before it listens.                                                 *)
Start ==
  /\ phase = "starting"
  /\ phase' = IF /\ \A i \in DOMAIN policy : parse_entry(policy[i])
                 /\ CredentialsOf \subseteq readable
              THEN "idle" ELSE "failed"
  /\ UNCHANGED <<policy, readable, tunnel, flow, meta, sent, lines, flows>>

\* mutant: the flag a_box_logged is not looked at
access_Always(m, ls) ==
  Append(ls, [decision |-> IF m.blocked THEN "blocked" ELSE "allowed",
              injected |-> m.injected])

access(m, ls) ==
  IF m.logged THEN ls
  ELSE Append(ls, [decision |-> IF m.blocked THEN "blocked" ELSE "allowed",
                   injected |-> m.injected])

(* guarded: a reason blocks the flow, which is answered and logged. *)
Block(m, ls) == LET blocked == [m EXCEPT !.blocked = TRUE] IN
  /\ meta' = [blocked EXCEPT !.logged = TRUE]
  /\ lines' = access(blocked, ls)

Refuse == Block(NoMeta, << >>) /\ sent' = None /\ phase' = "blocked"

NewFlow(f) == /\ phase = "idle" /\ flows < MaxFlows
              /\ flows' = flows + 1 /\ flow' = f
              /\ UNCHANGED <<policy, readable>>

(* http_connect: the tunnel is accepted, or blocked.  Any exception in a   *)
(* check also blocks.                                                      *)
http_connect ==
  /\ tunnel = None
  /\ \E h \in Names, p \in Ports :
       /\ NewFlow([kind |-> "connect", host |-> h, port |-> p,
                   pretty_host |-> h, streamed |-> FALSE])
       /\ \/ /\ lookup(h, p) # None
             /\ tunnel' = <<h, p>> /\ phase' = "idle"
             /\ meta' = NoMeta /\ lines' = << >> /\ sent' = None
          \/ tunnel' = tunnel /\ Refuse

(* The headers that travel on: the guest's own without those meant for the  *)
(* proxy, then the injected ones, which replace the guest's.                *)
\* mutant: the guest's own header wins
Forwarded_GuestFirst(e, own) ==
  [x \in Headers |-> IF x \in own THEN "guest"
                     ELSE IF e.inject[x] = None THEN "unset" ELSE e.inject[x]]

\* mutant: every header is set, also where the entry injects nothing
Forwarded_Blindly(e, own) == e.inject

Forwarded(e, own) ==
  [x \in Headers |-> IF e.inject[x] # None THEN e.inject[x]
                     ELSE IF x \in own \ HopByHop THEN "guest" ELSE "unset"]

\* mutant: the Host header is not compared
Refused_AnyHostHeader(f) == lookup(f.host, f.port) = None

Refused(f) == \/ lookup(f.host, f.port) = None
              \/ normalize_host(f.pretty_host) # normalize_host(f.host)

(* A request of the guest: in a tunnel the destination is the tunnel's.     *)
NewRequest(h, p, hh, streamed) ==
  /\ tunnel # None => tunnel = <<h, p>>
  /\ NewFlow([kind |-> "request", host |-> h, port |-> p, pretty_host |-> hh,
              streamed |-> streamed])
  /\ UNCHANGED tunnel

(* request, of a request that is buffered: it comes before anything is sent.*)
(* A credential that is not there raises, and an exception blocks.          *)
request ==
  \E h \in Names, p \in Ports, hh \in Names, own \in SUBSET Headers :
    /\ NewRequest(h, p, hh, FALSE)
    /\ \/ /\ ~ Refused(flow')
          /\ LET e == lookup(h, p) IN
               /\ Named(e) \subseteq readable
               /\ sent' = Forwarded(e, own)
               /\ meta' = [NoMeta EXCEPT !.injected = Named(e) # {}]
          /\ phase' = "forwarded" /\ lines' = << >>
       \/ Refuse

(* A large request: it goes to its server as the guest wrote it.            *)
Stream ==
  \E h \in Names, p \in Ports, hh \in Names, own \in SUBSET Headers :
    /\ NewRequest(h, p, hh, TRUE)
    /\ sent' = [x \in Headers |-> IF x \in own THEN "guest" ELSE "unset"]
    /\ phase' = "streaming" /\ meta' = NoMeta /\ lines' = << >>

(* request, at the end of one that was streamed: what it changes is sent no *)
(* more, and its 403 gives way to the server's answer.                      *)
request_AfterBody ==
  /\ phase = "streaming" /\ phase' = "forwarded"
  /\ \/ /\ ~ Refused(flow) /\ Named(lookup(flow.host, flow.port)) \subseteq readable
        /\ meta' = [meta EXCEPT !.injected = Named(lookup(flow.host, flow.port)) # {}]
        /\ UNCHANGED lines
     \/ Block(meta, lines)
  /\ UNCHANGED <<policy, readable, tunnel, flow, sent, flows>>

(* response, error: mitmproxy calls one or both, also for the answer of a   *)
(* blocked flow.  A server may answer before a streamed request is at its   *)
(* end; an error ends it there.  (responseheaders only decides how a body   *)
(* is passed on.)                                                           *)
LogFlow ==
  /\ phase \in {"streaming", "forwarded", "blocked", "done"}
  /\ lines' = access(meta, lines)
  /\ meta' = [meta EXCEPT !.logged = TRUE]
  /\ phase' = "done" \/ (phase = "streaming" /\ phase' = phase)
  /\ UNCHANGED <<policy, readable, tunnel, flow, sent, flows>>

(* The next request; the 403 of a block closes the connection, and others   *)
(* may be closed.                                                           *)
NextFlow ==
  /\ phase = "done"
  /\ phase' = "idle"
  /\ tunnel' \in IF meta.blocked /\ ~ flow.streamed THEN {None} ELSE {None, tunnel}
  /\ flow' = NoFlow /\ meta' = NoMeta /\ sent' = None /\ lines' = << >>
  /\ UNCHANGED <<policy, readable, flows>>

Next == \/ Start \/ http_connect \/ request \/ Stream \/ request_AfterBody
        \/ LogFlow \/ NextFlow

Spec == Init /\ [][Next]_vars

-----------------------------------------------------------------------------
(***************************************************************************)
(* What the entry syntax means (guard.py:7-9).                             *)
(***************************************************************************)
IsBelow(name, host) ==
  \E k \in 1 .. Len(name) - 1 : SubSeq(name, k + 1, Len(name)) = host

Covers(e, name) == \/ e.wildcard \in {"exact", "."} /\ name = e.host
                   \/ e.wildcard \in {"*.", "."} /\ IsBelow(name, e.host)

CoversPort(e, port) == IF e.port = None THEN port \in DefaultPorts ELSE port = e.port

MoreSpecific(e, f) ==
  \/ e.wildcard = "exact" /\ f.wildcard # "exact"
  \/ (e.wildcard = "exact" <=> f.wildcard = "exact") /\ IsBelow(e.host, f.host)
  \/ (e.wildcard = "exact" <=> f.wildcard = "exact") /\ e.host = f.host
       /\ e.port # None /\ f.port = None

Covering(host, port) ==
  {i \in DOMAIN policy : /\ Covers(policy[i], normalize_host(host))
                         /\ CoversPort(policy[i], port)}

(* "When several entries match, the most specific one decides"             *)
(* (guard.py:8): for every name and port, lookup returns an entry that     *)
(* covers them and than which no covering entry is more specific, and      *)
(* nothing exactly when no entry covers them or the name is an address.    *)
MostSpecificDecides ==
  phase = "idle" /\ flows = 0 =>
    \A h \in Names, p \in Ports :
      LET e == lookup(h, p)
          C == {policy[i] : i \in Covering(h, p)}
      IN IF C = {} \/ is_ip_literal(normalize_host(h)) THEN e = None
         ELSE e \in C /\ \A f \in C : ~ MoreSpecific(f, e)

(* "Everything not matched is answered 403 and logged" (guard.py:11), as   *)
(* far as it goes: what reaches a server was meant for it, by destination   *)
(* and by Host header, and some entry covers it, for every request in a     *)
(* tunnel too.  Streamed requests are an exception: their Host header, and  *)
(* outside of a tunnel their destination, is looked at when it is too late. *)
OnlyAllowed ==
  sent # None =>
    /\ ~ flow.streamed \/ tunnel # None =>
         /\ Covering(flow.host, flow.port) # {}
         /\ ~ is_ip_literal(normalize_host(flow.host))
    /\ ~ flow.streamed => Covering(flow.pretty_host, flow.port) # {}

(* The same without the exception, as the comment has it (guard.py:11).    *)
NothingElseSent == sent # None => Covering(flow.host, flow.port) # {}

(* A credential goes where an entry that covers the destination injects it *)
(* and nowhere else; where one is due the guest's own header never goes    *)
(* through, and neither does one meant for the proxy (guard.py:184-189):   *)
(* of requests that are not streamed, while streamed ones get no credential.*)
(* A proxy that has started has every credential that a request may need   *)
(* (guard.py:217-224).                                                     *)
CredentialsInPlace ==
  /\ phase = "idle" => \A h \in Names, p \in Ports :
       lookup(h, p) # None => Named(lookup(h, p)) \subseteq readable
  /\ sent # None /\ flow.streamed => \A x \in Headers : sent[x] \notin Credentials
  /\ sent # None /\ ~ flow.streamed =>
    \E i \in Covering(flow.host, flow.port) : \A x \in Headers :
      /\ sent[x] \in Credentials => sent[x] = policy[i].inject[x]
      /\ policy[i].inject[x] # None => sent[x] # "guest" /\ sent[x] # "unset"
      /\ x \in HopByHop => sent[x] # "guest"
      /\ \A j \in Covering(flow.host, flow.port) : ~ MoreSpecific(policy[j], policy[i])

(* "The guest's own copy of an injected header is replaced, never          *)
(* forwarded" (guard.py:187), of requests that are allowed and streamed too.*)
GuestCopyReplaced ==
  LET e == lookup(flow.host, flow.port) IN
    sent # None /\ ~ Refused(flow) =>
      \A x \in Headers : e.inject[x] # None => sent[x] # "guest"

(* "One line per flow" (guard.py:197), whichever hooks run, in whichever    *)
(* order and however often: a finished flow has one line, and it says what  *)
(* happened unless the flow was streamed, whose line tells what a check     *)
(* that came too late, or never, has found.                                 *)
OneTrueLine ==
  phase = "done" =>
    /\ Len(lines) = 1
    /\ ~ flow.streamed =>
         /\ lines[1].decision = "blocked" <=> sent = None
         /\ lines[1].injected = (sent # None /\ \E x \in Headers : sent[x] \in Credentials)
=============================================================================
