------------------------------- MODULE Catalog -------------------------------
(***************************************************************************)
(* The embedding catalog that all pages share (brands.tsx): one promise,   *)
(* kept for the life of the tab, which views subscribe to when they mount  *)
(* and which the settings page replaces. Its value is the set of providers *)
(* that are ready to use; the models themselves never change. A key of a   *)
(* provider is the provider it was typed for and whether it works.         *)
(***************************************************************************)
EXTENDS Client

CONSTANTS
    Providers,      \* hosted embedding providers, which need a key
    Ready           \* those that need none: local, or set in the environment

\* pending is none, a promise with a call in flight, or one with its value
NoCatalog == [promise |-> 0, value |-> None]

ProviderKey == [of : Providers, works : BOOLEAN]

\* server.provider holds the key of each provider, or None
Available == Ready \cup {p \in Providers : server.provider[p] # None}

PromiseInUse == {catalog.promise} \cup
    {calls[i].arg.promise : i \in {j \in DOMAIN calls : calls[j].op = "models"}}
FreshPromise == CHOOSE n \in 1 .. MaxInFlight + 2 : n \notin PromiseInUse

ModelsCall(n, everyone) == Call("models", [promise |-> n, everyone |-> everyone])

\* useEmbeddingCatalog: a view that mounts waits for the promise there is,
\* which may have its value already, or makes one
Subscribed == IF catalog.promise # 0 THEN catalog
              ELSE [promise |-> FreshPromise, value |-> None]
SubscribeCalls == IF catalog.promise # 0 THEN <<>>
                  ELSE <<ModelsCall(FreshPromise, FALSE)>>
NewModels == [seen |-> Subscribed.value, promise |-> Subscribed.promise]
NoModels == [seen |-> None, promise |-> 0]

\* refreshEmbeddingCatalog: a new promise, whose value all mounted views see
\* (in the behaviours that look at the models)
Refreshed == IF "models" \in visits THEN [promise |-> FreshPromise, value |-> None] ELSE catalog
RefreshCalls == IF "models" \in visits THEN <<ModelsCall(FreshPromise, TRUE)>> ELSE <<>>

ServeModels == \E i \in Pending("models") :
    /\ Answer(i, Available)
    /\ UNCHANGED <<app, view, server>>
=============================================================================
