----------------------------- MODULE Credentials -----------------------------
(***************************************************************************)
(* The secrets judges authenticate with (resolvers/): a request names them *)
(* by reference, every reference is resolved before anything is evaluated, *)
(* and the values live in a context variable of the task that evaluates,   *)
(* of which every evaluator task has a copy.  A worker loop is one task    *)
(* for all its runs; a request over HTTP or RPC has a task of its own.     *)
(*                                                                         *)
(* A case is [orders, points, registered, rotating]: orders a sequence of  *)
(* [way, refs, wants], refs [name, kind, at], wants the names the judges   *)
(* ask for, "" for none; points the installed entry points [kind, factory, *)
(* loads]; registered the factories the host set by hand; rotating the     *)
(* places whose secret is replaced.  A place is a factory and a locator (0 *)
(* for none), a secret a place and a version; a secret being replaced is   *)
(* missing for a while (version 1).                                        *)
(***************************************************************************)
EXTENDS Integers, Sequences, FiniteSets, SequencesExt

CONSTANT CredentialCases

VARIABLES
  asked,      \* the case
  vault,      \* version of the secret at each place
  idle,       \* the worker loop waits for a run
  context,    \* what the context variable holds: of the loop, of the task of an
              \* order, of its judges
  token,      \* <<what to go back to>> once an order has set the variable
  phase,      \* of each order: "waiting", "resolving", "resolved", "scoped",
              \* "judging", "over" or "refused"
  resolved,   \* the values so far
  judge,      \* of each order: "none", "ready", "used", "unprovided", "done",
              \* "raised" or "gone"
  used,       \* the secret each judge authenticates with, <<>> for none
  told,       \* what became of a refused order
  before      \* ghost: the vault when an order was taken up

crvars == <<asked, vault, idle, context, token, phase, resolved, judge, used, told, before>>

NoSecrets == <<>>
Orders == DOMAIN asked.orders
Order(o) == asked.orders[o]
Judges(o) == DOMAIN Order(o).wants
Places(case) == {<<f, l>> : f \in {"env", "cluster", "host", "uninstalled"}, l \in {0, 1, 2}}

CredentialsInit(cases) ==
  \E case \in cases :
    LET per(v) == [o \in DOMAIN case.orders |-> v]
        each(v) == [o \in DOMAIN case.orders |-> [n \in DOMAIN case.orders[o].wants |-> v]]
    IN  /\ asked = case /\ idle = TRUE
        /\ vault = [p \in Places(case) |-> 0]
        /\ context = [loop |-> NoSecrets, own |-> per(NoSecrets), judge |-> each(NoSecrets)]
        /\ token = per(<<>>) /\ phase = per("waiting") /\ resolved = per(NoSecrets)
        /\ judge = each("none") /\ used = each(<<>>) /\ told = per("")
        /\ before = per([p \in Places(case) |-> 0])

-----------------------------------------------------------------------------
(* References.                                                             *)

\* _merge_resolver_factories: the first entry point of a kind that loads,
\* unless the host registered another.
MergedFactories(points, registered) ==
  registered @@ FoldLeft(LAMBDA merged, p :
                           IF p.kind \in DOMAIN merged \/ ~p.loads THEN merged
                           ELSE merged @@ (p.kind :> p.factory), <<>>, points)

\* What resolving one reference may come to: a secret, "invalid" for a
\* ValueError, "broken" for any other exception.
Lookup(factory, at) ==
  IF factory = "uninstalled" THEN {<<"broken">>}
  ELSE IF at = 0 THEN {<<"invalid">>}
  ELSE (IF vault[<<factory, at>>] = 1 THEN {<<"invalid">>}
        ELSE {<<"secret", factory, at, vault[<<factory, at>>]>>})
       \union (IF factory = "cluster" THEN {<<"broken">>} ELSE {})
Resolve(ref, factories) ==
  IF ref.kind \in DOMAIN factories THEN Lookup(factories[ref.kind], ref.at) ELSE {<<"invalid">>}

-----------------------------------------------------------------------------
(* An order.                                                               *)

ByWorker(o) == Order(o).way = "worker"
ScopeOf(o) == IF ByWorker(o) THEN context.loop ELSE context.own[o]
Scoped(o, value) ==
  IF ByWorker(o) THEN [context EXCEPT !.loop = value] ELSE [context EXCEPT !.own[o] = value]

\* The loop claims a run, or a request comes.
TakeUp(o) ==
  /\ phase[o] = "waiting"
  /\ ByWorker(o) => idle /\ \A p \in 1 .. o - 1 : ByWorker(p) => phase[p] # "waiting"
  /\ idle' = (idle /\ ~ByWorker(o))
  /\ phase' = [phase EXCEPT ![o] = "resolving"]
  /\ before' = [before EXCEPT ![o] = vault]
  /\ UNCHANGED <<asked, vault, context, token, resolved, judge, used, told>>

\* The task ends or goes back to waiting; the variable is what it was.
ResetCredentials(o) == IF token[o] = <<>> THEN context ELSE Scoped(o, token[o][1])
GivesBack(o) ==
  /\ context' = ResetCredentials(o)
  /\ token' = [token EXCEPT ![o] = <<>>]
  /\ idle' = (idle \/ ByWorker(o))

\* One reference; every outcome but a secret ends the order.  A request hears
\* 400 for a ValueError, a run is failed.
ToldOf(o, how) == IF ByWorker(o) THEN "failed" ELSE IF how = "invalid" THEN "bad request" ELSE "internal"
ResolveNext(o) ==
  /\ phase[o] = "resolving" /\ Cardinality(DOMAIN resolved[o]) < Len(Order(o).refs)
  /\ LET ref == Order(o).refs[Cardinality(DOMAIN resolved[o]) + 1]
     IN  \E found \in Resolve(ref, MergedFactories(asked.points, asked.registered)) :
           IF found[1] = "secret"
             THEN /\ resolved' = [resolved EXCEPT ![o] = @ @@ (ref.name :> found)]
                  /\ UNCHANGED <<phase, told, context, token, idle>>
             ELSE /\ phase' = [phase EXCEPT ![o] = "refused"]
                  /\ told' = [told EXCEPT ![o] = ToldOf(o, found[1])]
                  /\ GivesBack(o)
                  /\ UNCHANGED resolved
  /\ UNCHANGED <<asked, vault, judge, used, before>>

\* set_resolved_credentials, when there is anything to set.
Scope(o) ==
  /\ phase[o] = "resolving" /\ Cardinality(DOMAIN resolved[o]) = Len(Order(o).refs)
  /\ phase' = [phase EXCEPT ![o] = "scoped"]
  /\ IF Order(o).refs = <<>> THEN UNCHANGED <<context, token>>
     ELSE /\ context' = Scoped(o, resolved[o])
          /\ token' = [token EXCEPT ![o] = <<ScopeOf(o)>>]
  /\ UNCHANGED <<asked, vault, idle, resolved, judge, used, told, before>>

\* gather makes a task of every evaluator, each with a copy of the context.
Spawn(o) ==
  /\ phase[o] = "scoped"
  /\ phase' = [phase EXCEPT ![o] = "judging"]
  /\ judge' = [judge EXCEPT ![o] = [n \in Judges(o) |-> "ready"]]
  /\ context' = [context EXCEPT !.judge[o] = [n \in Judges(o) |-> ScopeOf(o)]]
  /\ UNCHANGED <<asked, vault, idle, token, resolved, used, told, before>>

\* get_resolved_credential and _inject_judge_credential: a name that was not
\* provided is an error, never whatever the process has.
Judge(o, n) ==
  LET wants == Order(o).wants[n] has == context.judge[o][n]
  IN  /\ judge[o][n] = "ready"
      /\ judge' = [judge EXCEPT ![o][n] = IF wants = "" \/ wants \in DOMAIN has THEN "used" ELSE "unprovided"]
      /\ used' = IF wants \in DOMAIN has THEN [used EXCEPT ![o][n] = has[wants]] ELSE used
      /\ UNCHANGED <<asked, vault, idle, context, token, phase, resolved, told, before>>

\* The judge is done, or the callback that is told of it raises.
JudgeEnds(o, n) ==
  /\ judge[o][n] \in {"used", "unprovided"}
  /\ \E how \in {"done", "raised"} : judge' = [judge EXCEPT ![o][n] = how]
  /\ UNCHANGED <<asked, vault, idle, context, token, phase, resolved, used, told, before>>

\* The group is over when all judges are, or one raised; the others run on.
EvaluationOver(o) ==
  /\ phase[o] = "judging"
  /\ \/ \A n \in Judges(o) : judge[o][n] \in {"done", "raised"}
     \/ \E n \in Judges(o) : judge[o][n] = "raised"
  /\ phase' = [phase EXCEPT ![o] = "over"]
  /\ GivesBack(o)
  /\ UNCHANGED <<asked, vault, resolved, judge, used, told, before>>

\* The deadline of a run, or a client that leaves: the tasks are cancelled.
CutShort(o) ==
  /\ phase[o] = "judging" \/ (phase[o] \in {"resolving", "scoped"} /\ ~ByWorker(o))
  /\ phase' = [phase EXCEPT ![o] = "over"]
  /\ judge' = [judge EXCEPT ![o] =
                 [n \in Judges(o) |-> IF @[n] \in {"done", "raised"} THEN @[n] ELSE "gone"]]
  /\ GivesBack(o)
  /\ UNCHANGED <<asked, vault, resolved, used, told, before>>

\* Somebody replaces a secret.
Rotate ==
  /\ \E p \in asked.rotating : vault[p] < 2 /\ vault' = [vault EXCEPT ![p] = @ + 1]
  /\ UNCHANGED <<asked, idle, context, token, phase, resolved, judge, used, told, before>>

CredentialsNext ==
  \/ Rotate
  \/ \E o \in Orders : TakeUp(o) \/ ResolveNext(o) \/ Scope(o) \/ Spawn(o) \/ EvaluationOver(o) \/ CutShort(o)
  \/ \E o \in Orders : \E n \in Judges(o) : Judge(o, n) \/ JudgeEnds(o, n)

-----------------------------------------------------------------------------
(* Properties.                                                             *)

\* The factory a reference must reach: the host's own, else one that works.
Serves(kind, factory) ==
  IF kind \in DOMAIN asked.registered THEN factory = asked.registered[kind]
  ELSE \E p \in Range(asked.points) : p.kind = kind /\ p.loads /\ p.factory = factory

\* A judge authenticates with the secret its own order named, read while that
\* order was being prepared, whatever else ran in the same task before it or
\* runs beside it; one whose name the order does not provide uses none.
SecretsAreOwn ==
  \A o \in Orders : \A n \in Judges(o) :
    /\ used[o][n] # <<>> =>
         \E ref \in Range(Order(o).refs) :
           /\ ref.name = Order(o).wants[n]
           /\ Serves(ref.kind, used[o][n][2]) /\ used[o][n][3] = ref.at
           /\ used[o][n][4] >= before[o][<<used[o][n][2], ref.at>>]
    /\ judge[o][n] = "used" => (used[o][n] = <<>>) = (Order(o).wants[n] = "")

\* A loop that waits, and a task that is over, hold no secret.
NothingIsLeftBehind ==
  /\ idle => context.loop = NoSecrets
  /\ \A o \in Orders : phase[o] \in {"over", "refused"} => context.own[o] = NoSecrets

\* An order with a reference that cannot be resolved is not evaluated at all,
\* and is told that the request is at fault only when it is, and that the
\* server is only when a plug-in that works may fail.
AtFault(ref) ==
  \/ ref.at = 0
  \/ \A p \in Range(asked.points) : ~(p.kind = ref.kind /\ p.loads) /\ ref.kind \notin DOMAIN asked.registered
  \/ \E place \in asked.rotating : place[2] = ref.at
RefusedMeansUntouched ==
  \A o \in Orders :
    /\ phase[o] = "refused" => \A n \in Judges(o) : judge[o][n] = "none"
    /\ told[o] = "bad request" => \E ref \in Range(Order(o).refs) : AtFault(ref)
    /\ told[o] = "internal" =>
         \E ref \in Range(Order(o).refs) : Serves(ref.kind, "cluster") \/ Serves(ref.kind, "uninstalled")

\* Secrets stay with the order that named them (resolvers/__init__.py:6-10,
\* worker.py:115-138, evaluation.py:115-135, routes.py:75-107).
SecretsStayWithTheirRun == SecretsAreOwn /\ NothingIsLeftBehind /\ RefusedMeansUntouched
=============================================================================
