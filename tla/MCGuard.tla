------------------------------ MODULE MCGuard ------------------------------
(* Policies of up to two entries in any order, and some of three, over two  *)
(* nested host names; names in other spellings, addresses and near misses.  *)
EXTENDS Guard

CONSTANTS c1, c2, auth, proxyauth

LowerCase == [l \in {"a", "x", "X", "y", "xa", "1", "::1", "."} |->
                IF l = "X" THEN "x" ELSE l]

GuestNames == {<<"a">>, <<"x", "a">>, <<"X", "a", ".">>, <<"y", "x", "a">>,
               <<"xa">>, <<"x", "a", ".", ".">>, <<"a", "1">>, <<"::1">>}

HostOf(deep) == IF deep THEN <<"x", "a">> ELSE <<"a">>

CredentialFor(wildcard) ==
  CASE wildcard = "exact" -> c1 [] wildcard = "*." -> c2 [] wildcard = "." -> None

Pool == {[host |-> HostOf(deep), wildcard |-> w, port |-> p,
          inject |-> [h \in Headers |-> IF h = auth THEN CredentialFor(w) ELSE None],
          fullmatch |-> TRUE] :
           deep \in BOOLEAN, w \in Wildcards, p \in {None, 80}}

(* Two entries for a port of their own. *)
OtherPort == {[e EXCEPT !.port = 8443] : e \in {q \in Pool : q.wildcard = "."}}

Numbered == [host |-> <<"1">>, wildcard |-> ".", port |-> None,
             inject |-> [h \in Headers |-> None], fullmatch |-> TRUE]

Invalid == {[Numbered EXCEPT !.fullmatch = FALSE], [Numbered EXCEPT !.port = 0],
            [Numbered EXCEPT !.port = 65536]}

SomePolicies ==
  {<< >>, <<Numbered>>} \cup {<<e>> : e \in Invalid} \cup {<<e>> : e \in Pool}
  \cup {<<e, f>> : e \in Pool \cup OtherPort, f \in Pool \cup OtherPort}
  \cup {<<e, f, Numbered>> : e \in {q \in Pool : q.wildcard = "exact"},
                             f \in {q \in Pool : q.wildcard = "."}}

(* For the flows: a policy that is refused, none, entries for all below a   *)
(* name, and beside them one for a name that injects or a port of its own.  *)
Wide == {e \in Pool : e.host = HostOf(FALSE) /\ e.wildcard # "exact" /\ e.port = None}

FewPolicies ==
  {<< >>} \cup {<<e>> : e \in {q \in Invalid : q.port = 0} \cup Wide}
  \cup {<<e, f>> : e \in Wide, f \in {q \in Pool \cup OtherPort :
                                        q.wildcard = "exact" <=> q.port # 8443}}

(* Bound: flows are followed under these policies only; under the others    *)
(* the proxy starts.                                                        *)
FollowedPolicies == phase = "starting" \/ policy \in FewPolicies

AllCredentials == {c1, c2}
TwoHeaders == {auth, proxyauth}
ProxyHeaders == {proxyauth}
=============================================================================
