------------------------------ MODULE Cluster ------------------------------
(***************************************************************************)
(* The two services that act through the Kubernetes API: sandbox-runner    *)
(* with the contestants' pods and bot-coordinator with the benchmarks'     *)
(* Jobs.  Their namespaces are disjoint, so a behaviour is one of either.  *)
(***************************************************************************)
EXTENDS Sandbox, Coordinator

VARIABLE namespace    \* the namespace that is looked at

clusterVars == <<namespace, vars, coordinatorVars>>

ClusterInit ==
    /\ namespace \in {"sandboxes", "bots"}
    /\ Init
    /\ CoordinatorInit

InSandboxes(A) == namespace = "sandboxes" /\ A /\ UNCHANGED <<namespace, coordinatorVars>>
InBots(A) == namespace = "bots" /\ A /\ UNCHANGED <<namespace, vars>>

ClusterNext == InSandboxes(Next) \/ InBots(CoordinatorNext)

\* The watch goroutine of the runner runs and each waitReady ends at its
\* timeout; the garbage collector and the kubelets do their work.
ClusterSpec ==
    /\ ClusterInit
    /\ [][ClusterNext]_clusterVars
    /\ WF_clusterVars(InSandboxes(WatchOpen)) /\ WF_clusterVars(InSandboxes(Observe))
    /\ \A c \in Calls : WF_clusterVars(InSandboxes(waitReady(c)))
    /\ \A i \in Benchmarks : WF_clusterVars(InBots(Controller(i)))
    /\ WF_clusterVars(InBots(Kubelet))
=============================================================================
