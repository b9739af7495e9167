----------------------------- MODULE MCPipeline -----------------------------
(***************************************************************************)
(* Instances of Pipeline for TLC.  "web" is watched and enforced by its    *)
(* labels only; "side" is watched by name and outside the enforcement      *)
(* scope.                                                                  *)
(***************************************************************************)
EXTENDS Pipeline

None == {}
Web == {"web"}
Side == {"side"}
WebAndSide == {"web", "side"}

\* Isolation, the DNS grace and restarts of one container.
IsolationKinds == [c \in {"web"} |-> {"kill", "exit", "connect", "answer"}]

\* Every other kind of event, for a container in and one outside the scope.
ScopeKinds ==
  [c \in WebAndSide |->
     IF c = "web" THEN {"start", "exit", "step1", "step2", "connect"} ELSE {"kill", "killDry", "alert"}]

\* Normal events around a connection whose name is learned during its grace.
RateKinds == [c \in {"web"} |-> {"normal", "connect", "answer"}]
=============================================================================
