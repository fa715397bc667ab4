---------------------------- MODULE MCCredentials ----------------------------
(***************************************************************************)
(* Orders for Credentials: runs that follow one another in a loop with and *)
(* without secrets of the same name, a request beside them, plug-ins that  *)
(* do not load, are not installed, share a kind or are replaced.           *)
(***************************************************************************)
EXTENDS Credentials

EnvPoint == [kind |-> "env", factory |-> "env", loads |-> TRUE]
ClusterPoint == [kind |-> "kubernetes", factory |-> "cluster", loads |-> TRUE]
Shipped == <<EnvPoint, ClusterPoint>>
RefTo(name, kind, at) == [name |-> name, kind |-> kind, at |-> at]
OrderBy(way, refs, wants) == [way |-> way, refs |-> refs, wants |-> wants]
Deployment(orders, points, registered, rotating) ==
  [orders |-> orders, points |-> points, registered |-> registered, rotating |-> rotating]

KeyA(at) == <<RefTo("a", "env", at)>>
InOneLoop ==
  {Deployment(<<OrderBy("worker", KeyA(1), <<"a", "">>), OrderBy("worker", refs, <<"a">>),
                OrderBy("request", KeyA(2), <<"a">>)>>, Shipped, <<>>, {}) :
     refs \in {<<>>, KeyA(2), <<RefTo("b", "env", 1)>>}}
Replaced ==
  {Deployment(<<OrderBy("worker", KeyA(1), <<"a">>),
                OrderBy("worker", KeyA(1) \o <<RefTo("b", "env", 2)>>, <<"b", "a">>)>>,
              Shipped, <<>>, {<<"env", 1>>})}
Plugged ==
  {Deployment(<<OrderBy(way, <<RefTo("a", kind, at)>>, <<"a">>)>>, points, registered, rotating) :
     way \in {"worker", "request"}, kind \in {"", "env", "kubernetes", "vault"}, at \in {0, 1},
     points \in {Shipped, <<[EnvPoint EXCEPT !.loads = FALSE, !.factory = "uninstalled"], EnvPoint>>,
                 <<[ClusterPoint EXCEPT !.factory = "uninstalled"], EnvPoint>>,
                 <<[ClusterPoint EXCEPT !.loads = FALSE], EnvPoint, ClusterPoint, [EnvPoint EXCEPT !.factory = "host"]>>},
     registered \in {<<>>, [k \in {"env"} |-> "host"], [k \in {"vault"} |-> "host"]},
     rotating \in {{}, {<<"env", 1>>}}}
MCCredentialCases == InOneLoop \union Replaced \union Plugged
=============================================================================
