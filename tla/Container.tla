------------------------------ MODULE Container ------------------------------
(***************************************************************************)
(* The ServiceContainer of the HTTP API (api/runtime.py): which services a *)
(* process composes from the assets it finds, the order in which component *)
(* initializers run, how an unavailable asset degrades readiness instead   *)
(* of stopping startup, and the idempotent close.                          *)
(*                                                                         *)
(* Two profiles are composed by two factories: "local" by                  *)
(* build_default_container and "demo" by create_demo_container.            *)
(***************************************************************************)
EXTENDS Naturals, Sequences

CONSTANT Profile      \* "local" or "demo": the factory this process was started with

ASSUME ProfileAssumption == Profile \in {"local", "demo"}

VARIABLES
    stage,        \* where the application lifespan is
    services,     \* components whose service object is not None
    ready,        \* _components: readiness by component name
    pendingInit,  \* component initializers not yet run, in registration order
    initialized,  \* _initialized
    closed        \* _closed

containerVars == <<stage, services, ready, pendingInit, initialized, closed>>

Components == {"corpus", "retrieval", "answer",
               "extraction_deterministic", "extraction_hybrid"}

(* "unbuilt": factory not called; "initializing": initialize() running in  *)
(* its thread; "serving"; "draining": no new requests, in-flight ones are  *)
(* finishing; "stopped": close() returned; "failed": startup raised.       *)
Stages == {"unbuilt", "initializing", "serving", "draining", "stopped", "failed"}

PublicDemo == Profile = "demo"

Required == IF PublicDemo THEN {"retrieval", "answer"}
                          ELSE {"corpus", "retrieval", "answer"}

(***************************************************************************)
(* Composition.  An asset record says which local assets the factory finds *)
(* present; each later bundle needs the earlier ones.                      *)
(***************************************************************************)
AssetNames == {"corpus", "configuration", "indexes", "resolver", "generation", "hybrid"}

RetrievalBuilt(assets)  == {"configuration", "indexes"} \subseteq assets
ResolverBuilt(assets)   == RetrievalBuilt(assets) /\ {"corpus", "resolver"} \subseteq assets
AnswererBuilt(assets)   == ResolverBuilt(assets) /\ "generation" \in assets
HybridBuilt(assets)     == "hybrid" \in assets

BuiltServices(assets) ==
    IF PublicDemo
    THEN {"retrieval", "answer", "extraction_deterministic"}
    ELSE {"extraction_deterministic"}
         \cup {c \in {"corpus"} : "corpus" \in assets}
         \cup {c \in {"retrieval"} : RetrievalBuilt(assets)}
         \cup {c \in {"answer"} : AnswererBuilt(assets)}
         \cup {c \in {"extraction_hybrid"} : HybridBuilt(assets)}

(* Readiness before any initializer ran.  The demo container declares its  *)
(* answer component ready from the start: it has no model of its own.      *)
DeclaredReady(assets) ==
    [c \in Components |->
        \/ c = "extraction_deterministic"
        \/ c = "corpus" /\ (PublicDemo \/ "corpus" \in assets)
        \/ c = "answer" /\ PublicDemo]

(* component_initializers is a dict filled in this order. *)
Initializers(assets) ==
    LET registered == IF PublicDemo THEN {"retrieval"} ELSE BuiltServices(assets)
        ifBuilt(c) == IF c \in registered THEN <<c>> ELSE <<>>
    IN ifBuilt("retrieval") \o ifBuilt("answer") \o ifBuilt("extraction_hybrid")

ContainerInit ==
    /\ stage = "unbuilt"
    /\ services = {}
    /\ ready = [c \in Components |-> FALSE]
    /\ pendingInit = <<>>
    /\ initialized = FALSE
    /\ closed = FALSE

(* The lifespan calls the factory: missing assets are suppressed one by one. *)
BuildContainer ==
    /\ stage = "unbuilt"
    /\ \E assets \in SUBSET AssetNames :
          /\ services' = BuiltServices(assets)
          /\ ready' = DeclaredReady(assets)
          /\ pendingInit' = Initializers(assets)
    /\ stage' = "initializing"
    /\ UNCHANGED <<initialized, closed>>

(* Anything but a missing asset (a corrupt or mismatched frozen artifact)  *)
(* escapes the factory and the lifespan: the server never starts.          *)
BuildRaises ==
    /\ stage = "unbuilt"
    /\ stage' = "failed"
    /\ UNCHANGED <<services, ready, pendingInit, initialized, closed>>

(* Fault: the answer model is loaded whatever became of retrieval. *)
MayInitializeAlways(c) == TRUE

(* initialize_answer refuses before it touches its model unless retrieval  *)
(* came up; the demo registers no initializer for "answer".                *)
MayInitialize(c) == c = "answer" => ready["retrieval"]

ComponentInitialized ==
    /\ stage = "initializing"
    /\ pendingInit # <<>>
    /\ MayInitialize(Head(pendingInit))
    /\ ready' = [ready EXCEPT ![Head(pendingInit)] = TRUE]
    /\ pendingInit' = Tail(pendingInit)
    /\ UNCHANGED <<stage, services, initialized, closed>>

(* ExpectedAssetUnavailable marks the component not ready and goes on with *)
(* the next one.  DemoRetriever.initialize raises no such error.           *)
ComponentUnavailable ==
    /\ stage = "initializing"
    /\ pendingInit # <<>>
    /\ ~PublicDemo
    /\ ready' = [ready EXCEPT ![Head(pendingInit)] = FALSE]
    /\ pendingInit' = Tail(pendingInit)
    /\ UNCHANGED <<stage, services, initialized, closed>>

(* Any other exception leaves initialize(): _initialized stays false and   *)
(* the lifespan, which has not entered its try block, never closes.        *)
InitializerRaises ==
    /\ stage = "initializing"
    /\ pendingInit # <<>>
    /\ MayInitialize(Head(pendingInit))
    /\ stage' = "failed"
    /\ UNCHANGED <<services, ready, pendingInit, initialized, closed>>

FinishInitialize ==
    /\ stage = "initializing"
    /\ pendingInit = <<>>
    /\ initialized' = TRUE
    /\ closed' = FALSE
    /\ stage' = "serving"
    /\ UNCHANGED <<services, ready, pendingInit>>

(* The server stops accepting connections (external: uvicorn). *)
BeginShutdown ==
    /\ stage = "serving"
    /\ stage' = "draining"
    /\ UNCHANGED <<services, ready, pendingInit, initialized, closed>>

(* ServiceContainer.close, called once by the lifespan's finally block. *)
Close ==
    /\ stage = "draining"
    /\ closed' = (initialized \/ closed)
    /\ stage' = "stopped"
    /\ UNCHANGED <<services, ready, pendingInit, initialized>>

Startup == \/ BuildContainer \/ BuildRaises
           \/ ComponentInitialized \/ ComponentUnavailable \/ InitializerRaises
           \/ FinishInitialize

(* health(): degraded as soon as one required component is not ready. *)
Healthy == \A c \in Required : ready[c]

(***************************************************************************)
(* Properties.                                                             *)
(***************************************************************************)
ContainerTypeOK ==
    /\ stage \in Stages
    /\ services \subseteq Components
    /\ ready \in [Components -> BOOLEAN]
    /\ pendingInit \in Seq(Components)
    /\ initialized \in BOOLEAN
    /\ closed \in BOOLEAN

(* While the API serves, answering is never ready without retrieval: the   *)
(* answer pipeline always retrieves first (initialize_answer's check, and  *)
(* the fatal errors of the demo's only initializer).                       *)
AnswerNeedsRetrieval ==
    stage \in {"serving", "draining"} => (ready["answer"] => ready["retrieval"])
=============================================================================
