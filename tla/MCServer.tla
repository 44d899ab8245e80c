------------------------------ MODULE MCServer ------------------------------
(***************************************************************************)
(* A small server and its client, one part per behaviour: "commands" is    *)
(* SisdbServer with two clients, a single key and a table; "net" is        *)
(* NetServer with two places for connections; "client" is the client       *)
(* worker with two users, whose connection breaks.  The parts that are not *)
(* chosen keep their initial states.                                       *)
(***************************************************************************)
EXTENDS SisdbServer, NetServer

CONSTANT Parts     \* bound: the parts a run chooses from

MCCovers == [p \in {"*", "*.*", "a,b"} |->
                CASE p = "*" -> {"a"} [] p = "*.*" -> {"a.t"} [] p = "a,b" -> {"a"}]
Cmds(ms, ks) == {[m |-> x, key |-> k] : x \in ms, k \in ks}
One == Cmds({"bset"}, {"a"}) \cup Cmds({"set", "get", "del"}, {"a.t"}) \cup Cmds({"sub", "unsub"}, {"a,b"})
       \cup Cmds({"dels"}, {"*.*", "a,b"}) \cup Cmds({"auth", "gets", "clear"}, {"*"})
Two == Cmds({"set", "sub", "unsub"}, {"a"}) \cup Cmds({"unsub"}, {"*"})
MCCommands == [c \in {"c1", "c2"} |-> IF c = "c1" THEN One ELSE Two]
MCMaxGen == [c \in {"c1", "c2"} |-> IF c = "c1" THEN 1 ELSE 2]

VARIABLES part,
    api, cauth, status, link, wire, cready, asks, request, upc, ccur, crpc, returned,
    loggedin, csubs, cconn, npub, sno, accepted, dropped, cut

C == INSTANCE SisdbClient WITH
        Users <- {"u1", "u2"}, Keys <- {"k"}, MaxAsks <- 2, MaxConns <- 2, MaxPubs <- 1,
        auth <- cauth, ready <- cready, cur <- ccur, rpc <- crpc, subs <- csubs, nconn <- cconn

clientvars == <<api, cauth, status, link, wire, cready, asks, request, upc, ccur, crpc, returned,
                loggedin, csubs, cconn, npub, sno, accepted, dropped, cut>>
all == <<part, vars, netvars, clientvars>>

\* bound: a part that is left alone has one configuration
MCInit == /\ part \in Parts /\ Init /\ NetInit /\ C!Init
          /\ part # "commands" => auth = FALSE
          /\ part # "net" => proto = "tcp" /\ ~mayBreak
          /\ part # "client" => api

Served(A) == part = "commands" /\ A /\ UNCHANGED <<part, netvars, clientvars>>
\* bound: the second connection sends one request
Net(A)    == part = "net" /\ A /\ sent'[2] <= 2 /\ UNCHANGED <<part, vars, clientvars>>
Client(A) == part = "client" /\ A /\ UNCHANGED <<part, vars, netvars>>

MCNext == Served(Next) \/ Net(NetNext) \/ Client(C!Next)

\* The fairness of SisdbServer, NetServer and SisdbClient.  Of two actions of
\* different parts only one is ever enabled in a behaviour, so that fairness for
\* their disjunction is fairness for each.
MCSpec ==
    /\ MCInit /\ [][MCNext]_all
    /\ WF_all(Served(RStep) \/ Net(TStep) \/ Client(C!RStep))
    /\ WF_all(Net(LStep) \/ Client(C!Connect)) /\ SF_all(Net(LNotice))
    /\ WF_all(Net(AStep) \/ Client(C!Serve))   /\ SF_all(Net(ANotice))
    /\ \A u \in {"u1", "u2"} : WF_all(Client(C!UStep(u)))

\* who waits for an answer comes back: see SisdbClient
AsksReturn == part = "client" => C!AsksReturn
=============================================================================
