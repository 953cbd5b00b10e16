--------------------------- MODULE GossipMembership ---------------------------
(***************************************************************************)
(* Who a node believes to be in the mesh: v2/core/gossip_discovery.py as   *)
(* v2/tools/auto_mesh.py drives it.  A view maps the other nodes to the    *)
(* time since they were last seen.  Each round asks a few of them for their*)
(* views and drops what has grown stale; the /peers answer names the       *)
(* responder and takes the caller into the responder's own view; a poll of *)
(* the seed server takes in all it lists as seen now.                      *)
(*                                                                         *)
(* A request lasts at most three seconds and a view's entry 180, so a      *)
(* request and its answer are one step.  Clocks agree.  An entry's address *)
(* is the one its node uses, Home; two nodes may share one, one after the  *)
(* other, and then whoever lives there answers for both.                   *)
(***************************************************************************)
EXTENDS Naturals, FiniteSets, FiniteSetsExt

CONSTANTS
    Peers, Home,        \* the nodes and the address each one advertises
    Stale,              \* STALE_TTL_S, in ticks
    Fanout,             \* GOSSIP_FANOUT_K
    Seeded,             \* the nodes that can reach the seed server
    Mortal              \* the nodes that may stop: a bound of the instance

ASSUME StaleAssumption == Stale \in Nat

VARIABLES
    alive,      \* nodes whose process runs
    listed,     \* nodes in the seed server's table
    age         \* age[n][m]: ticks since n believes m was seen

gossipVars == <<alive, listed, age>>

\* The age of a node that is not in the view: older than any that is.
Gone == Stale + 2
NoView == [m \in Peers |-> Gone]

GossipInit ==
    /\ alive = {} /\ listed = {}
    /\ age = [n \in Peers |-> NoView]

-----------------------------------------------------------------------------
View(n) == {m \in Peers : age[n][m] # Gone}

\* The live nodes a request to m's address reaches: at most one.
Answering(m) == {q \in alive : Home[q] = Home[m]}

\* reap_stale.
Reap(a) == IF a > Stale THEN Gone ELSE a

\* A fault: a relayed entry counts as seen now.
SeenNow(a) == IF a = Gone THEN Gone ELSE 0

\* from_wire: a relayed entry keeps the last_seen of the node that relays it.
FromWire(a) == a

\* A fault: a node takes in what others tell it about itself.
LearnedSelf(n, m, asked, heard) ==
    IF m \in heard \/ (m \in asked /\ Answering(m) # {}) THEN 0
    ELSE Min({FromWire(age[q][m]) : q \in heard} \cup {age[n][m]})

\* What n has of m once it asked the nodes in asked and those in heard answered:
\* an entry answered for is fresh, so is a responder, and the views are merged.
Learned(n, m, asked, heard) ==
    IF m = n THEN Gone
    ELSE IF m \in heard \/ (m \in asked /\ Answering(m) # {}) THEN 0
    ELSE Min({FromWire(age[q][m]) : q \in heard} \cup {age[n][m]})

-----------------------------------------------------------------------------
\* A node starts and asks its configured bootstrap peers, those that answer
\* being boots, with its own identity attached; then its loop begins.
StartNode(n, boots) ==
    /\ n \notin alive /\ Answering(n) = {}
    /\ alive' = alive \cup {n}
    /\ age' = [q \in Peers |->
                 IF q = n THEN [m \in Peers |-> IF m \in boots THEN 0 ELSE Gone]
                 ELSE IF q \in boots THEN [age[q] EXCEPT ![n] = 0] ELSE age[q]]
    /\ UNCHANGED listed

\* The process ends; the view was in its memory.
StopNode(n) ==
    /\ n \in alive \cap Mortal /\ alive' = alive \ {n}
    /\ age' = [age EXCEPT ![n] = NoView]
    /\ UNCHANGED listed

Tick ==
    /\ age' = [n \in Peers |-> [m \in Peers |->
                 IF age[n][m] <= Stale THEN age[n][m] + 1 ELSE age[n][m]]]
    /\ UNCHANGED <<alive, listed>>

SeedRegister(n) ==
    /\ n \in alive \cap Seeded /\ listed' = listed \cup {n}
    /\ UNCHANGED <<alive, age>>

\* expire, or a restart of the seed, whose table is in memory: also a live node
\* whose registrations did not get through is forgotten.
SeedForget(n) ==
    /\ n \in listed /\ listed' = listed \ {n}
    /\ UNCHANGED <<alive, age>>

\* Every node the seed lists enters the view as seen now (a seed that lists
\* more than fifty answers with fifty of them).
SeedPoll(n) ==
    /\ n \in alive \cap Seeded
    /\ age' = [age EXCEPT ![n] = [m \in Peers |-> IF m \in listed \ {n} THEN 0 ELSE @[m]]]
    /\ UNCHANGED <<alive, listed>>

\* gossip_round: random targets from the view, their answers merged, the
\* stale reaped (add_or_update keeps the newer); each responder takes the caller into its own view.
GossipRound(n, asked) ==
    LET heard == UNION {Answering(p) : p \in asked}
    IN  /\ n \in alive /\ asked # {}
        /\ UNCHANGED <<alive, listed>>
        /\ age' = [q \in Peers |->
                     IF q = n THEN [m \in Peers |-> Reap(Learned(n, m, asked, heard))]
                     ELSE IF q \in heard THEN [age[q] EXCEPT ![n] = 0] ELSE age[q]]

\* random_sample: Fanout nodes of the view, or all of them when it has fewer.
Sample(n) == {asked \in SUBSET View(n) :
                \/ Cardinality(asked) = Fanout
                \/ Cardinality(asked) < Fanout /\ asked = View(n)}

Gossip(n) == \E asked \in Sample(n) : GossipRound(n, asked)

GossipNext ==
    \/ Tick
    \/ \E n \in Peers : \/ \E boots \in SUBSET alive : StartNode(n, boots)
                        \/ StopNode(n) \/ Gossip(n)
                        \/ SeedRegister(n) \/ SeedForget(n) \/ SeedPoll(n)

\* Time passes, every live node keeps running its loop, and the seed forgets
\* the dead; no node need start, stop, register or poll.
GossipFair ==
    /\ WF_gossipVars(Tick)
    /\ \A n \in Peers : WF_gossipVars(Gossip(n)) /\ WF_gossipVars(n \notin alive /\ SeedForget(n))

GossipSpec == GossipInit /\ [][GossipNext]_gossipVars /\ GossipFair

-----------------------------------------------------------------------------
GossipTypeOK ==
    /\ alive \subseteq Peers /\ listed \subseteq Peers
    /\ age \in [Peers -> [Peers -> 0..Gone]]
    /\ \A n \in Peers : age[n][n] = Gone
    /\ \A n \in Peers \ alive : age[n] = NoView

\* A node that is gone for good leaves every view: what the others tell each
\* other about it never makes it younger (header, lines 22-25).  Concerns
\* add_or_update, from_wire, the reply of /peers and reap_stale together.
GhostsFade ==
    \A m \in Mortal :
        m \notin alive ~> \/ m \in alive
                          \/ \A n \in alive : age[n][m] = Gone

=============================================================================
