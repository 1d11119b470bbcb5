-------------------------------- MODULE STCC --------------------------------
(***************************************************************************)
(* capDL-tool: the access analysis of STCC.hs (leakMatrix), with the       *)
(* matrices of Matrix.hs as sets of pairs.  Which TCB may pass             *)
(* capabilities to which, what each may hold in the end, and between whom  *)
(* information may flow.                                                   *)
(*                                                                         *)
(* TCBs are numbered in the order of Map.toList.  A model gives the caps   *)
(* in the slots of every TCB and in every CNode, page directory and page   *)
(* table.  A cap has a type, an object and rights; plain tells the frame   *)
(* caps that projectFrame matches (cached, neither mapped nor with an      *)
(* ASID) from the others.                                                  *)
(***************************************************************************)
EXTENDS Naturals, FiniteSets

CONSTANTS Models,   \* models, as above
          N         \* the number of TCBs

(* A model without TCBs has nothing to analyse. *)
ASSUME NAssumption == N \in Nat \ {0}

VARIABLES m,
          phase,            \* where leakMatrix is
          cspaces,          \* the caps in the CSpace of every TCB
          authMatrix, infoMatrix,
          k, i,             \* warshall: the outer loops
          head,             \* saturateCSpaces: the TCB in front of the list
          newcspaces,       \* ... and the CSpaces as they are then
          added             \* updateModel: the caps put into the root CNode of every TCB

vars == <<m, phase, cspaces, authMatrix, infoMatrix, k, i, head, newcspaces, added>>
loops == <<k, i, head>>

TCBs == 1 .. N

AllCaps == UNION {m.tcbs[t] : t \in TCBs} \cup UNION {m.slots[o] : o \in DOMAIN m.slots}

(* Mutant of CapsBelow: only the caps in the first container. *)
CapsInFirst(follow, visited, cap) ==
    IF cap.type \in follow THEN {cap} \cup m.slots[cap.obj] ELSE {cap}

(* getCaps' and getFrames': a cap and, for a container that has not been   *)
(* visited on the way, what is below it.                                   *)
CapsBelow(follow, visited, cap) ==
    LET below[v \in SUBSET DOMAIN m.slots, c \in AllCaps] ==
            CASE c.type \notin follow -> {c}
              [] c.type \in follow /\ c.obj \in v -> {}
              [] OTHER -> {c} \cup UNION {below[v \cup {c.obj}, d] : d \in m.slots[c.obj]}
    IN  below[visited, cap]

OfTcb(t, type) == {c \in m.tcbs[t] : c.type = type}
GetCaps(t) == UNION {CapsBelow({"CNode"}, {}, c) : c \in OfTcb(t, "CNode")}
GetFrames(t) ==
    {d \in UNION {CapsBelow({"PD", "PT"}, {}, c) : c \in OfTcb(t, "PD")} :
        d.type \in {"PD", "PT", "Frame"}}
-----------------------------------------------------------------------------
(* grantReadOverlap and writeReadOverlap: S has the right r to an object   *)
(* that T may read.                                                        *)
Overlap(S, T, type, r) ==
    \E c \in S, d \in T :
        /\ c.type = type /\ d.type = type /\ c.obj = d.obj
        /\ c.plain /\ d.plain
        /\ r \in c.rights /\ "read" \in d.rights

ShareCSpace(S, T) ==
    \E c \in S, d \in T : c.type = "CNode" /\ d.type = "CNode" /\ c.obj = d.obj

HasTcb(S, t) == \E c \in S : c.type = "TCB" /\ c.obj = t

(* outCon and inCon for the pair of t, with the caps S, and u after it in  *)
(* the list, with the caps T.                                              *)
LeaksOut(S, T, u) == ShareCSpace(S, T) \/ HasTcb(S, u) \/ Overlap(S, T, "EP", "grant")
LeaksIn(S, T, t) == ShareCSpace(S, T) \/ HasTcb(T, t) \/ Overlap(T, S, "EP", "grant")

EndpointFlow(S, T) == Overlap(S, T, "EP", "write") \/ Overlap(T, S, "EP", "write")
FlowsOut(S, T) == EndpointFlow(S, T) \/ Overlap(S, T, "Frame", "write") \/ Overlap(S, T, "Ntfn", "write")

Pairs == {p \in TCBs \X TCBs : p[1] < p[2]}
Flip(p) == <<p[2], p[1]>>

DirectTCBConnections(cs) ==
    {p \in Pairs : LeaksOut(cs[p[1]], cs[p[2]], p[2])}
    \cup {Flip(p) : p \in {q \in Pairs : LeaksIn(cs[q[1]], cs[q[2]], q[1])}}

DirectTCBFlows(cs) ==
    {p \in Pairs : FlowsOut(cs[p[1]], cs[p[2]])}
    \cup {Flip(p) : p \in {q \in Pairs : FlowsOut(cs[q[2]], cs[q[1]])}}
-----------------------------------------------------------------------------
Init ==
    /\ m \in Models
    /\ phase = "caps"
    /\ cspaces = [t \in TCBs |-> {}] /\ newcspaces = cspaces /\ added = cspaces
    /\ authMatrix = {} /\ infoMatrix = {}
    /\ k = 1 /\ i = 1 /\ head = 1

CollectCaps ==
    /\ phase = "caps" /\ phase' = "leaks"
    /\ cspaces' = [t \in TCBs |-> GetCaps(t)]
    /\ UNCHANGED <<m, authMatrix, infoMatrix, loops, newcspaces, added>>

LeaksTos ==
    /\ phase = "leaks" /\ phase' = "auth"
    /\ authMatrix' = DirectTCBConnections(cspaces)
    /\ newcspaces' = cspaces
    /\ UNCHANGED <<m, cspaces, infoMatrix, loops, added>>

(* The rounds of warshall for all j: the round for j reads (i,k) and       *)
(* (k,j), which the rounds of the same i and k leave alone.                *)
Row(M) == M \cup {<<i, j>> : j \in {x \in TCBs : <<i, k>> \in M /\ <<k, x>> \in M}}

(* Mutant of NextRow: the intermediate TCB in the inner loop. *)
NextRowInner ==
    \/ k < N /\ k' = k + 1 /\ i' = i /\ UNCHANGED phase
    \/ k = N /\ i < N /\ k' = 1 /\ i' = i + 1 /\ UNCHANGED phase
    \/ k = N /\ i = N /\ k' = 1 /\ i' = 1
       /\ phase' = IF phase = "auth" THEN "saturate" ELSE "reflexive"

NextRow ==
    \/ i < N /\ i' = i + 1 /\ k' = k /\ UNCHANGED phase
    \/ i = N /\ k < N /\ i' = 1 /\ k' = k + 1 /\ UNCHANGED phase
    \/ i = N /\ k = N /\ i' = 1 /\ k' = 1
       /\ phase' = IF phase = "auth" THEN "saturate" ELSE "reflexive"

WarshallAuth ==
    /\ phase = "auth"
    /\ authMatrix' = Row(authMatrix)
    /\ NextRow
    /\ UNCHANGED <<m, cspaces, infoMatrix, head, newcspaces, added>>

IsLeak(t, u) == <<t, u>> \in authMatrix

(* The head gets the caps of the TCBs behind it, they get its old ones. *)
SaturateHead ==
    /\ phase = "saturate" /\ head <= N
    /\ newcspaces' =
         [t \in TCBs |->
            CASE t < head -> newcspaces[t]
              [] t = head -> newcspaces[t] \cup UNION {newcspaces[u] : u \in {x \in head + 1 .. N : IsLeak(x, head)}}
              [] t > head -> newcspaces[t] \cup (IF IsLeak(head, t) THEN newcspaces[head] ELSE {})]
    /\ head' = head + 1
    /\ UNCHANGED <<m, phase, cspaces, authMatrix, infoMatrix, k, i, added>>

(* cspaceUpdates and updateModel. *)
UpdateModel ==
    /\ phase = "saturate" /\ head > N
    /\ added' = [t \in TCBs |-> cspaces[t] \ newcspaces[t]]
    /\ phase' = "flows"
    /\ UNCHANGED <<m, cspaces, authMatrix, infoMatrix, loops, newcspaces>>

(* Mutant of SharingFlows: only in the direction of the leak. *)
SharingFlowsOneWay == authMatrix

SharingFlows == authMatrix \cup {Flip(p) : p \in authMatrix}

(* authSharingFlows and flowsTos. *)
FlowsTos ==
    /\ phase = "flows" /\ phase' = "info"
    /\ infoMatrix' = SharingFlows \cup DirectTCBFlows([t \in TCBs |-> GetFrames(t) \cup cspaces[t]])
    /\ UNCHANGED <<m, cspaces, authMatrix, loops, newcspaces, added>>

WarshallInfo ==
    /\ phase = "info"
    /\ infoMatrix' = Row(infoMatrix)
    /\ NextRow
    /\ UNCHANGED <<m, cspaces, authMatrix, head, newcspaces, added>>

RemoveReflexive ==
    /\ phase = "reflexive" /\ phase' = "done"
    /\ infoMatrix' = {p \in infoMatrix : p[1] # p[2]}
    /\ UNCHANGED <<m, cspaces, authMatrix, loops, newcspaces, added>>

Step == CollectCaps \/ LeaksTos \/ WarshallAuth \/ SaturateHead \/ UpdateModel
        \/ FlowsTos \/ WarshallInfo \/ RemoveReflexive
Next == Step \/ (phase = "done" /\ UNCHANGED vars)

Spec == Init /\ [][Next]_vars
-----------------------------------------------------------------------------
(* The containers below a set of caps, by walks of any length. *)
Containers(caps, type) ==
    LET objs(S) == {c.obj : c \in {d \in S : d.type = type}}
        below[n \in 0 .. Cardinality(DOMAIN m.slots)] ==
            IF n = 0 THEN objs(caps)
            ELSE LET b == below[n - 1] IN b \cup objs(UNION {m.slots[o] : o \in b})
    IN  below[Cardinality(DOMAIN m.slots)]

(* "Returns all the caps in a TCB's CSpace", in spite of CNodes that are   *)
(* reached on several ways or contain themselves: every CNode that can be  *)
(* reached is known, and every other cap in one of them.                   *)
CSpacesComplete ==
    phase = "leaks" =>
        \A t \in TCBs :
            LET cnodes == Containers(OfTcb(t, "CNode"), "CNode")
            IN  /\ {c.obj : c \in {d \in cspaces[t] : d.type = "CNode"}} = cnodes
                /\ {c \in cspaces[t] : c.type # "CNode"}
                     = {c \in UNION {m.slots[o] : o \in cnodes} : c.type # "CNode"}

(* t may pass caps to u: they share a CNode, or t holds the TCB of u, or   *)
(* t may grant through an endpoint that u reads.                           *)
Passes(cs, t, u) ==
    /\ t # u
    /\ ShareCSpace(cs[t], cs[u]) \/ HasTcb(cs[t], u) \/ Overlap(cs[t], cs[u], "EP", "grant")

(* The pairs of TCBs that a chain of passes connects: u is in every set    *)
(* that has the TCBs t passes to and those its members pass to.            *)
Chains ==
    {p \in TCBs \X TCBs :
        \A S \in SUBSET TCBs :
            (\A x \in TCBs : (\E w \in S \cup {p[1]} : Passes(cspaces, w, x)) => x \in S) => p[2] \in S}

(* One pass over the list of TCBs, which mixes CSpaces that are already    *)
(* saturated with some that are not, gives every TCB the caps of exactly   *)
(* those that leak to it.                                                  *)
CSpacesSaturated ==
    phase = "flows" =>
        LET c == Chains
        IN  \A t \in TCBs :
                newcspaces[t] = cspaces[t] \cup UNION {cspaces[u] : u \in {x \in TCBs : <<x, t>> \in c}}

(* The flow matrix stays right when capabilities leak: what may flow       *)
(* directly between saturated CSpaces is in it, although only the flows of *)
(* the original ones were entered.                                         *)
FlowsStable ==
    phase = "done" =>
        \A p \in DirectTCBFlows([t \in TCBs |-> GetFrames(t) \cup newcspaces[t]]) : p \in infoMatrix
(***************************************************************************)
(* The inductive invariant of the analysis, by parts.                      *)
(***************************************************************************)
STCCTypeOK ==
    /\ phase \in {"caps", "leaks", "auth", "saturate", "flows", "info", "reflexive", "done"}
    /\ k \in TCBs /\ i \in TCBs /\ head \in 1 .. N + 1
    /\ authMatrix \subseteq TCBs \X TCBs /\ infoMatrix \subseteq TCBs \X TCBs
    /\ DOMAIN cspaces = TCBs /\ DOMAIN newcspaces = TCBs
    /\ phase \notin {"auth", "info"} => k = 1 /\ i = 1
    /\ phase \in {"caps", "leaks", "auth"} => head = 1

(* In the middle of a round of warshall a way through a TCB of an earlier  *)
(* round is a step, or leads through the TCB of this round; the rows       *)
(* before i have their steps through it.                                   *)
RoundsDone(M) ==
    /\ \A x \in 1 .. k - 1 : \A a, b \in TCBs :
          <<a, x>> \in M /\ <<x, b>> \in M =>
             <<a, b>> \in M \/ (<<a, k>> \in M /\ <<k, b>> \in M)
    /\ \A a \in 1 .. i - 1 : \A b \in TCBs :
          <<a, k>> \in M /\ <<k, b>> \in M => <<a, b>> \in M

TransitiveOn(M) ==
    \A a, b, c \in TCBs : <<a, b>> \in M /\ <<b, c>> \in M => <<a, c>> \in M

(* The caps of t and of the TCBs of U that leak to it. *)
WithLeaks(t, U) == cspaces[t] \cup UNION {cspaces[u] : u \in {x \in U : <<x, t>> \in authMatrix}}

(* The TCBs before the head have all caps that leak to them, the others    *)
(* those of the TCBs before the head.                                      *)
SaturatedSoFar ==
    \A t \in TCBs :
        newcspaces[t] = IF t < head THEN WithLeaks(t, TCBs) ELSE WithLeaks(t, 1 .. head - 1)

DirectPasses == {p \in TCBs \X TCBs : Passes(cspaces, p[1], p[2])}
EnteredFlows == SharingFlows \cup DirectTCBFlows([t \in TCBs |-> GetFrames(t) \cup cspaces[t]])

AnalysisInv ==
    /\ phase = "auth" =>
          /\ DirectPasses \subseteq authMatrix /\ authMatrix \subseteq Chains
          /\ RoundsDone(authMatrix) /\ newcspaces = cspaces
    /\ phase \notin {"caps", "leaks", "auth"} =>
          authMatrix = Chains /\ TransitiveOn(authMatrix) /\ SaturatedSoFar
    /\ phase \notin {"caps", "leaks", "auth", "saturate"} => head = N + 1
    /\ phase \in {"info", "reflexive"} => EnteredFlows \subseteq infoMatrix
    /\ phase = "info" => RoundsDone(infoMatrix)
    /\ phase = "reflexive" => TransitiveOn(infoMatrix)
    /\ FlowsStable
=============================================================================
