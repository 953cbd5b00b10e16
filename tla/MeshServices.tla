---------------------------- MODULE MeshServices ----------------------------
(* Five services of the mesh that share no state, side by side: an initial  *)
(* state picks one, and only its actions are enabled while the others stay  *)
(* as they began.                                                           *)
EXTENDS TaskRouter, BrowserProvider, SettlementForwarder, BlobTransfer, GossipMembership

VARIABLE service    \* the one this behaviour is about

meshVars == <<gossipVars, routerVars, browserVars, forwarderVars, blobVars, service>>

NotRouter    == UNCHANGED <<service, browserVars, forwarderVars, blobVars, gossipVars>>
NotBrowser   == UNCHANGED <<service, routerVars, forwarderVars, blobVars, gossipVars>>
NotForwarder == UNCHANGED <<service, routerVars, browserVars, blobVars, gossipVars>>
NotBlob      == UNCHANGED <<service, routerVars, browserVars, forwarderVars, gossipVars>>
NotGossip    == UNCHANGED <<service, routerVars, browserVars, forwarderVars, blobVars>>

MeshInit ==
    /\ service \in {"router", "browser", "forwarder", "blob", "gossip"}
    /\ RouterInit /\ BrowserInit /\ ForwarderInit /\ BlobInit /\ GossipInit

MeshNext ==
    \/ service = "router" /\ RouterNext /\ NotRouter
    \/ service = "browser" /\ BrowserNext /\ NotBrowser
    \/ service = "forwarder" /\ ForwarderNext /\ NotForwarder
    \/ service = "blob" /\ BlobNext /\ NotBlob
    \/ service = "gossip" /\ GossipNext /\ NotGossip

\* The fairness each service states, while it is the one that runs.
MeshFair ==
    /\ \A t \in Tasks :
         /\ WF_meshVars(service = "router" /\ Dispatch(t) /\ NotRouter)
         /\ WF_meshVars(service = "router" /\ Watchdog(t) /\ NotRouter)
    /\ \A n \in Notices :
         /\ SF_meshVars(service = "forwarder" /\ RetryPost(n) /\ NotForwarder)
         /\ WF_meshVars(service = "forwarder" /\ PauseEnds(n) /\ NotForwarder)
         /\ WF_meshVars(service = "forwarder" /\ FinishedPost(n) /\ NotForwarder)
         /\ SF_meshVars(service = "forwarder" /\ CreditedPost(n) /\ NotForwarder)
         /\ SF_meshVars(service = "forwarder" /\ AckedPost(n) /\ NotForwarder)
    /\ WF_meshVars(service = "gossip" /\ Tick /\ NotGossip)
    /\ \A n \in Peers :
         /\ WF_meshVars(service = "gossip" /\ Gossip(n) /\ NotGossip)
         /\ WF_meshVars(service = "gossip" /\ n \notin alive /\ SeedForget(n) /\ NotGossip)

MeshSpec == MeshInit /\ [][MeshNext]_meshVars /\ MeshFair

\* Every variable of every service stays in its type.
MeshTypeOK == RouterTypeOK /\ BrowserTypeOK /\ ForwarderTypeOK /\ BlobTypeOK /\ GossipTypeOK
=============================================================================
