----------------------------- MODULE ToolProofs -----------------------------
(***************************************************************************)
(* Proofs about the tools that run before the loader.                      *)
(*                                                                         *)
(* The access analysis, for every number of TCBs and every set of models:  *)
(* the rounds of warshall end with the chains of direct leaks, one pass    *)
(* over the list saturates the CSpaces, and the flow matrix has the flows  *)
(* between saturated CSpaces.                                              *)
(*                                                                         *)
(* untyped_gen.py, for every machine description: the free memory is the   *)
(* memory that is not reserved, unless a reserved region spans several     *)
(* available ones, and the untypeds are aligned, apart, and lose nothing   *)
(* but slivers.                                                            *)
(***************************************************************************)
EXTENDS STCC, UntypedGen, ProofLemmas

Inv == STCCTypeOK /\ AnalysisInv

-----------------------------------------------------------------------------
(* The matrices of direct connections and flows, without the order of the  *)
(* list of TCBs.                                                           *)
LEMMA DirectConnections ==
    ASSUME NEW cs
    PROVE  DirectTCBConnections(cs) = {p \in TCBs \X TCBs : Passes(cs, p[1], p[2])}
<1>1. \A S, T : ShareCSpace(S, T) <=> ShareCSpace(T, S)
  BY DEF ShareCSpace
<1>2. \A t, u \in TCBs : t \in Nat /\ u \in Nat /\ (t # u <=> t < u \/ u < t) /\ ~(t < u /\ u < t)
  BY NAssumption DEF TCBs
<1>3. ASSUME NEW t \in TCBs, NEW u \in TCBs
      PROVE  <<t, u>> \in DirectTCBConnections(cs) <=> Passes(cs, t, u)
  <2>1. <<t, u>> \in {p \in Pairs : LeaksOut(cs[p[1]], cs[p[2]], p[2])}
           <=> t < u /\ LeaksOut(cs[t], cs[u], u)
    BY DEF Pairs
  <2>2. <<t, u>> \in {Flip(p) : p \in {q \in Pairs : LeaksIn(cs[q[1]], cs[q[2]], q[1])}}
           <=> u < t /\ LeaksIn(cs[u], cs[t], u)
    <3>1. ASSUME NEW p \in Pairs, <<t, u>> = Flip(p) PROVE p = <<u, t>>
      BY <3>1 DEF Pairs, Flip
    <3>2. u < t => <<u, t>> \in Pairs /\ Flip(<<u, t>>) = <<t, u>>
      BY DEF Pairs, Flip
    <3>3. <<u, t>> \in Pairs => u < t
      BY DEF Pairs
    <3>. QED
      BY <3>1, <3>2, <3>3
  <2>3. LeaksOut(cs[t], cs[u], u) <=>
          ShareCSpace(cs[t], cs[u]) \/ HasTcb(cs[t], u) \/ Overlap(cs[t], cs[u], "EP", "grant")
    BY DEF LeaksOut
  <2>4. LeaksIn(cs[u], cs[t], u) <=>
          ShareCSpace(cs[t], cs[u]) \/ HasTcb(cs[t], u) \/ Overlap(cs[t], cs[u], "EP", "grant")
    BY <1>1 DEF LeaksIn
  <2>. QED
    BY <1>2, <2>1, <2>2, <2>3, <2>4 DEF DirectTCBConnections, Passes
<1>4. DirectTCBConnections(cs) \subseteq TCBs \X TCBs
  BY DEF DirectTCBConnections, Pairs, Flip
<1>. QED
  BY <1>3, <1>4

LEMMA DirectFlows ==
    ASSUME NEW cs
    PROVE  DirectTCBFlows(cs) =
             {p \in TCBs \X TCBs : p[1] # p[2] /\ FlowsOut(cs[p[1]], cs[p[2]])}
<1>1. \A t, u \in TCBs : t \in Nat /\ u \in Nat /\ (t # u <=> t < u \/ u < t) /\ ~(t < u /\ u < t)
  BY NAssumption DEF TCBs
<1>2. ASSUME NEW t \in TCBs, NEW u \in TCBs
      PROVE  <<t, u>> \in DirectTCBFlows(cs) <=> t # u /\ FlowsOut(cs[t], cs[u])
  <2>1. <<t, u>> \in {p \in Pairs : FlowsOut(cs[p[1]], cs[p[2]])}
           <=> t < u /\ FlowsOut(cs[t], cs[u])
    BY DEF Pairs
  <2>2. <<t, u>> \in {Flip(p) : p \in {q \in Pairs : FlowsOut(cs[q[2]], cs[q[1]])}}
           <=> u < t /\ FlowsOut(cs[t], cs[u])
    <3>1. ASSUME NEW p \in Pairs, <<t, u>> = Flip(p) PROVE p = <<u, t>>
      BY <3>1 DEF Pairs, Flip
    <3>2. u < t => <<u, t>> \in Pairs /\ Flip(<<u, t>>) = <<t, u>>
      BY DEF Pairs, Flip
    <3>3. <<u, t>> \in Pairs => u < t
      BY DEF Pairs
    <3>. QED
      BY <3>1, <3>2, <3>3
  <2>. QED
    BY <1>1, <2>1, <2>2 DEF DirectTCBFlows
<1>3. DirectTCBFlows(cs) \subseteq TCBs \X TCBs
  BY DEF DirectTCBFlows, Pairs, Flip
<1>. QED
  BY <1>2, <1>3
-----------------------------------------------------------------------------
(* Chains is a relation that has the direct passes and is transitive, and  *)
(* it is in every other one.                                               *)
LEMMA ChainsTransitive ==
    /\ DirectPasses \subseteq Chains
    /\ TransitiveOn(Chains)
<1>1. ASSUME NEW t \in TCBs, NEW u \in TCBs, Passes(cspaces, t, u)
      PROVE  <<t, u>> \in Chains
  BY <1>1 DEF Chains
<1>2. ASSUME NEW a \in TCBs, NEW b \in TCBs, NEW c \in TCBs,
             <<a, b>> \in Chains, <<b, c>> \in Chains
      PROVE  <<a, c>> \in Chains
  <2>1. SUFFICES ASSUME NEW S \in SUBSET TCBs,
                        \A x \in TCBs : (\E w \in S \cup {a} : Passes(cspaces, w, x)) => x \in S
                 PROVE  c \in S
    BY DEF Chains
  <2>2. b \in S
    BY <1>2, <2>1 DEF Chains
  <2>3. \A x \in TCBs : (\E w \in S \cup {b} : Passes(cspaces, w, x)) => x \in S
    BY <2>1, <2>2
  <2>. QED
    BY <1>2, <2>1, <2>3 DEF Chains
<1>. QED
  BY <1>1, <1>2 DEF DirectPasses, TransitiveOn

LEMMA ChainsLeast ==
    ASSUME NEW M, DirectPasses \subseteq M, TransitiveOn(M)
    PROVE  Chains \subseteq M
<1>1. SUFFICES ASSUME NEW t \in TCBs, NEW u \in TCBs, <<t, u>> \in Chains
               PROVE  <<t, u>> \in M
  BY DEF Chains
<1>. DEFINE S == {x \in TCBs : <<t, x>> \in M}
<1>2. ASSUME NEW x \in TCBs, NEW w \in S \cup {t}, Passes(cspaces, w, x)
      PROVE  x \in S
  <2>1. w \in TCBs /\ <<w, x>> \in M
    BY <1>2 DEF DirectPasses
  <2>. QED
    BY <2>1 DEF TransitiveOn
<1>3. S \in SUBSET TCBs
  OBVIOUS
<1>. HIDE DEF S
<1>4. u \in S
  BY <1>1, <1>2, <1>3 DEF Chains
<1>. QED
  BY <1>4 DEF S
-----------------------------------------------------------------------------
(* A row of warshall. *)

LEMMA RowFacts ==
    ASSUME NEW M, k \in TCBs, i \in TCBs
    PROVE  /\ \A a, b \in TCBs : <<a, b>> \in Row(M) <=>
                <<a, b>> \in M \/ (a = i /\ <<i, k>> \in M /\ <<k, b>> \in M)
           /\ M \subseteq Row(M)
           /\ M \subseteq TCBs \X TCBs => Row(M) \subseteq TCBs \X TCBs
<1>. DEFINE Through == {<<i, j>> : j \in {x \in TCBs : <<i, k>> \in M /\ <<k, x>> \in M}}
<1>1. Row(M) = M \cup Through
  BY DEF Row
<1>2. \A a, b \in TCBs : <<a, b>> \in Through <=> a = i /\ <<i, k>> \in M /\ <<k, b>> \in M
  <2>1. \A a, b, c, d : <<a, b>> = <<c, d>> <=> a = c /\ b = d
    OBVIOUS
  <2>. QED
    BY <2>1, Zenon
<1>3. Through \subseteq TCBs \X TCBs
  <2>1. \A j \in TCBs : <<i, j>> \in TCBs \X TCBs
    OBVIOUS
  <2>. QED
    BY <2>1
<1>. HIDE DEF Through
<1>. QED
  BY <1>1, <1>2, <1>3

(* Row i gets its steps through k; no step from k or to k is new. *)
LEMMA RowKeepsRounds ==
    ASSUME k \in TCBs, i \in TCBs, NEW M, RoundsDone(M)
    PROVE  LET After == Row(M)
           IN  /\ \A x \in 1 .. k - 1 : \A a, b \in TCBs :
                    <<a, x>> \in After /\ <<x, b>> \in After =>
                       <<a, b>> \in After \/ (<<a, k>> \in After /\ <<k, b>> \in After)
               /\ \A a \in 1 .. i : \A b \in TCBs :
                    <<a, k>> \in After /\ <<k, b>> \in After => <<a, b>> \in After
<1>. DEFINE After == Row(M)
<1>1. /\ \A a, b \in TCBs : <<a, b>> \in After <=>
           <<a, b>> \in M \/ (a = i /\ <<i, k>> \in M /\ <<k, b>> \in M)
  BY RowFacts
<1>. HIDE DEF After
<1>2. \A a \in TCBs : (<<a, k>> \in After <=> <<a, k>> \in M) /\ (<<k, a>> \in After <=> <<k, a>> \in M)
  BY <1>1
<1>3. 1 .. k - 1 \subseteq TCBs /\ 1 .. i \subseteq TCBs /\ \A a \in 1 .. i : a = i \/ a \in 1 .. i - 1
  BY NAssumption DEF TCBs
<1>4. ASSUME NEW x \in 1 .. k - 1, NEW a \in TCBs, NEW b \in TCBs,
             <<a, x>> \in After, <<x, b>> \in After
      PROVE  <<a, b>> \in After \/ (<<a, k>> \in After /\ <<k, b>> \in After)
  <2>1. x \in TCBs
    BY <1>3
  <2>2. \A c, d \in TCBs : <<c, x>> \in M /\ <<x, d>> \in M =>
            <<c, d>> \in M \/ (<<c, k>> \in M /\ <<k, d>> \in M)
    BY DEF RoundsDone
  <2>3. CASE <<a, x>> \in M /\ <<x, b>> \in M
    BY <1>1, <1>2, <2>2, <2>3
  <2>4. CASE <<a, x>> \notin M
    <3>1. a = i /\ <<i, k>> \in M /\ <<k, x>> \in M
      BY <1>1, <1>4, <2>1, <2>4
    <3>2. <<k, b>> \in M
      BY <1>1, <1>4, <2>1, <2>2, <3>1
    <3>. QED
      BY <1>2, <3>1, <3>2
  <2>5. CASE <<x, b>> \notin M
    <3>1. x = i /\ <<i, k>> \in M /\ <<k, b>> \in M
      BY <1>1, <1>4, <2>1, <2>5
    <3>2. <<a, k>> \in M
      BY <1>1, <1>4, <2>1, <2>2, <3>1
    <3>. QED
      BY <1>2, <3>1, <3>2
  <2>. QED
    BY <2>3, <2>4, <2>5
<1>5. ASSUME NEW a \in 1 .. i, NEW b \in TCBs, <<a, k>> \in After, <<k, b>> \in After
      PROVE  <<a, b>> \in After
  <2>1. a \in TCBs
    BY <1>3
  <2>2. <<a, k>> \in M /\ <<k, b>> \in M
    BY <1>2, <1>5, <2>1
  <2>3. CASE a = i
    BY <1>1, <2>1, <2>2, <2>3
  <2>4. CASE a \in 1 .. i - 1
    BY <1>1, <2>1, <2>2, <2>4 DEF RoundsDone
  <2>. QED
    BY <1>3, <2>3, <2>4
<1>. QED
  BY <1>4, <1>5 DEF After

LEMMA NextRowRounds ==
    ASSUME STCCTypeOK, NEW M, RoundsDone(M), NextRow
    PROVE  /\ k' \in TCBs /\ i' \in TCBs
           /\ phase' = phase \/ (k' = 1 /\ i' = 1)
           /\ \/ /\ phase' = phase
                 /\ LET After == Row(M)
                    IN  /\ \A x \in 1 .. k' - 1 : \A a, b \in TCBs :
                             <<a, x>> \in After /\ <<x, b>> \in After =>
                                <<a, b>> \in After \/ (<<a, k'>> \in After /\ <<k', b>> \in After)
                        /\ \A a \in 1 .. i' - 1 : \A b \in TCBs :
                             <<a, k'>> \in After /\ <<k', b>> \in After => <<a, b>> \in After
              \/ /\ phase' = IF phase = "auth" THEN "saturate" ELSE "reflexive"
                 /\ k' = 1 /\ i' = 1
                 /\ TransitiveOn(Row(M))
<1>. DEFINE After == Row(M)
<1>1. k \in TCBs /\ i \in TCBs /\ k \in Nat /\ i \in Nat
  BY NAssumption DEF STCCTypeOK, TCBs
<1>2. /\ \A x \in 1 .. k - 1 : \A a, b \in TCBs :
            <<a, x>> \in After /\ <<x, b>> \in After =>
               <<a, b>> \in After \/ (<<a, k>> \in After /\ <<k, b>> \in After)
      /\ \A a \in 1 .. i : \A b \in TCBs :
            <<a, k>> \in After /\ <<k, b>> \in After => <<a, b>> \in After
  BY <1>1, RowKeepsRounds
<1>. HIDE DEF After
<1>3. i = N => \A x \in 1 .. k : \A a, b \in TCBs :
                  <<a, x>> \in After /\ <<x, b>> \in After => <<a, b>> \in After
  <2>1. ASSUME i = N, NEW x \in 1 .. k, NEW a \in TCBs, NEW b \in TCBs,
               <<a, x>> \in After, <<x, b>> \in After
        PROVE  <<a, b>> \in After
    <3>1. x = k \/ x \in 1 .. k - 1
      BY <1>1
    <3>2. a \in 1 .. i
      BY <2>1 DEF TCBs
    <3>. QED
      BY <1>2, <2>1, <3>1, <3>2
  <2>. QED
    BY <2>1
<1>4. CASE i < N /\ i' = i + 1 /\ k' = k /\ UNCHANGED phase
  <2>1. i' \in TCBs /\ i' - 1 = i
    BY <1>1, <1>4, NAssumption DEF TCBs
  <2>. QED
    BY <1>1, <1>2, <1>4, <2>1 DEF After
<1>5. CASE i = N /\ k < N /\ i' = 1 /\ k' = k + 1 /\ UNCHANGED phase
  <2>1. k' \in TCBs /\ i' \in TCBs /\ k' - 1 = k /\ 1 .. i' - 1 = {}
    BY <1>1, <1>5, NAssumption DEF TCBs
  <2>. QED
    BY <1>3, <1>5, <2>1 DEF After
<1>6. CASE /\ i = N /\ k = N /\ i' = 1 /\ k' = 1
           /\ phase' = IF phase = "auth" THEN "saturate" ELSE "reflexive"
  <2>1. 1 \in TCBs
    BY NAssumption DEF TCBs
  <2>2. 1 .. k = TCBs
    BY <1>6, Zenon DEF TCBs
  <2>3. TransitiveOn(After)
    <3>1. \A x, a, b \in TCBs : <<a, x>> \in After /\ <<x, b>> \in After => <<a, b>> \in After
      BY <1>3, <1>6, <2>2, Zenon
    <3>. QED
      BY <3>1, Zenon DEF TransitiveOn
  <2>4. k' \in TCBs /\ i' \in TCBs
    BY <1>6, <2>1
  <2>. QED
    BY <1>6, <2>3, <2>4, Zenon DEF After
<1>. QED
  BY <1>4, <1>5, <1>6 DEF NextRow
-----------------------------------------------------------------------------
(* What is computed from the model and the CSpaces stays as they do. *)
LEMMA FramesKept ==
    ASSUME m' = m, NEW t
    PROVE  GetFrames(t)' = GetFrames(t)
<1>. QED
  BY DEF GetFrames, CapsBelow, OfTcb, AllCaps

LEMMA ChainsKept ==
    ASSUME cspaces' = cspaces
    PROVE  Chains' = Chains /\ DirectPasses' = DirectPasses
<1>. QED
  BY DEF Chains, DirectPasses

LEMMA EnteredKept ==
    ASSUME m' = m, cspaces' = cspaces, authMatrix' = authMatrix
    PROVE  EnteredFlows' = EnteredFlows
<1>1. \A t : GetFrames(t)' = GetFrames(t)
  BY FramesKept
<1>. QED
  BY <1>1 DEF EnteredFlows, SharingFlows
-----------------------------------------------------------------------------
(* The steps of the invariant, action by action. *)
LEMMA CollectCapsInv ==
    ASSUME Inv, CollectCaps
    PROVE  Inv'
<1>. QED
  BY DEF Inv, STCCTypeOK, AnalysisInv, CollectCaps, loops, TCBs, FlowsStable

LEMMA LeaksTosInv ==
    ASSUME Inv, LeaksTos
    PROVE  Inv'
<1>. USE DEF Inv
<1>1. STCCTypeOK'
  BY DirectConnections DEF STCCTypeOK, LeaksTos, loops, TCBs
<1>2. authMatrix' = DirectPasses
  BY DirectConnections DEF LeaksTos, DirectPasses
<1>3. Chains' = Chains /\ DirectPasses' = DirectPasses
  BY ChainsKept DEF LeaksTos
<1>4. k' = 1 /\ i' = 1 /\ k \in TCBs
  BY DEF LeaksTos, loops, STCCTypeOK
<1>5. RoundsDone(authMatrix)'
  <2>1. 1 .. k' - 1 = {} /\ 1 .. i' - 1 = {}
    BY <1>4
  <2>. QED
    BY <2>1 DEF RoundsDone
<1>. QED
  BY <1>1, <1>2, <1>3, <1>5, ChainsTransitive DEF AnalysisInv, LeaksTos, FlowsStable

LEMMA WarshallAuthInv ==
    ASSUME Inv, WarshallAuth
    PROVE  Inv'
<1>. USE DEF Inv
<1>1. /\ phase = "auth" /\ authMatrix' = Row(authMatrix) /\ NextRow
      /\ m' = m /\ cspaces' = cspaces /\ infoMatrix' = infoMatrix
      /\ head' = head /\ newcspaces' = newcspaces
  BY DEF WarshallAuth
<1>2. /\ k \in TCBs /\ i \in TCBs /\ head = 1 /\ newcspaces = cspaces
      /\ DirectPasses \subseteq authMatrix /\ authMatrix \subseteq Chains
      /\ RoundsDone(authMatrix) /\ authMatrix \subseteq TCBs \X TCBs
  BY <1>1 DEF STCCTypeOK, AnalysisInv
<1>3. Chains' = Chains /\ DirectPasses' = DirectPasses
  BY <1>1, ChainsKept
<1>4. DirectPasses \subseteq authMatrix' /\ authMatrix' \subseteq TCBs \X TCBs
  BY <1>1, <1>2, RowFacts
<1>5. authMatrix' \subseteq Chains
  <2>1. \A a, b \in TCBs : <<a, b>> \in authMatrix' <=>
           <<a, b>> \in authMatrix \/ (a = i /\ <<i, k>> \in authMatrix /\ <<k, b>> \in authMatrix)
    BY <1>1, <1>2, RowFacts
  <2>2. \A a, b \in TCBs : <<a, b>> \in authMatrix' => <<a, b>> \in Chains
    BY <1>2, <2>1, ChainsTransitive DEF TransitiveOn
  <2>. QED
    BY <1>4, <2>2
<1>6. CASE /\ phase' = phase
           /\ LET After == Row(authMatrix)
              IN  /\ \A x \in 1 .. k' - 1 : \A a, b \in TCBs :
                       <<a, x>> \in After /\ <<x, b>> \in After =>
                          <<a, b>> \in After \/ (<<a, k'>> \in After /\ <<k', b>> \in After)
                  /\ \A a \in 1 .. i' - 1 : \A b \in TCBs :
                       <<a, k'>> \in After /\ <<k', b>> \in After => <<a, b>> \in After
  <2>1. RoundsDone(authMatrix)'
    BY <1>1, <1>6 DEF RoundsDone
  <2>2. k' \in TCBs /\ i' \in TCBs
    BY <1>1, <1>2, NextRowRounds
  <2>3. STCCTypeOK'
    BY <1>1, <1>2, <1>4, <1>6, <2>2 DEF STCCTypeOK
  <2>. QED
    BY <1>1, <1>2, <1>3, <1>4, <1>5, <1>6, <2>1, <2>3 DEF AnalysisInv, FlowsStable
<1>7. CASE /\ phase' = IF phase = "auth" THEN "saturate" ELSE "reflexive"
           /\ k' = 1 /\ i' = 1
           /\ TransitiveOn(Row(authMatrix))
  <2>1. authMatrix' = Chains /\ TransitiveOn(authMatrix)'
    <3>1. TransitiveOn(authMatrix')
      BY <1>1, <1>7
    <3>2. Chains \subseteq authMatrix'
      BY <1>4, <3>1, ChainsLeast
    <3>. QED
      BY <1>5, <3>1, <3>2 DEF TransitiveOn
  <2>2. SaturatedSoFar'
    <3>1. ASSUME NEW t \in TCBs
          PROVE  ~(t < 1) /\ 1 .. 1 - 1 = {}
      BY NAssumption DEF TCBs
    <3>2. ASSUME NEW t \in TCBs
          PROVE  newcspaces'[t] = IF t < head' THEN WithLeaks(t, TCBs)' ELSE WithLeaks(t, 1 .. head - 1)'
      BY <1>1, <1>2, <3>1 DEF WithLeaks
    <3>. QED
      BY <3>2 DEF SaturatedSoFar
  <2>3. phase' = "saturate" /\ 1 \in TCBs
    BY <1>1, <1>7, NAssumption DEF TCBs
  <2>4. STCCTypeOK'
    BY <1>1, <1>2, <1>4, <1>7, <2>3 DEF STCCTypeOK
  <2>. QED
    BY <1>3, <2>1, <2>2, <2>3, <2>4 DEF AnalysisInv, FlowsStable
<1>. QED
  BY <1>1, <1>2, <1>6, <1>7, NextRowRounds

(* The head takes from the TCBs behind it, which have the caps of those    *)
(* before it: chains through an earlier TCB are chains.                    *)
LEMMA SaturateHeadInv ==
    ASSUME Inv, SaturateHead
    PROVE  Inv'
<1>. USE DEF Inv
<1>1. /\ phase = "saturate" /\ phase' = phase /\ head <= N /\ head' = head + 1
      /\ m' = m /\ cspaces' = cspaces /\ authMatrix' = authMatrix /\ infoMatrix' = infoMatrix
      /\ k' = k /\ i' = i
  BY DEF SaturateHead
<1>2. /\ authMatrix = Chains /\ TransitiveOn(authMatrix) /\ SaturatedSoFar
      /\ authMatrix \subseteq TCBs \X TCBs
      /\ head \in Nat /\ head \in TCBs /\ head' \in 1 .. N + 1
  BY <1>1, NAssumption DEF STCCTypeOK, AnalysisInv, TCBs
<1>3. Chains' = Chains /\ DirectPasses' = DirectPasses
  BY <1>1, ChainsKept
<1>4. \A t \in TCBs : newcspaces'[t] =
         CASE t < head -> newcspaces[t]
           [] t = head -> newcspaces[t] \cup UNION {newcspaces[u] : u \in {x \in head + 1 .. N : IsLeak(x, head)}}
           [] t > head -> newcspaces[t] \cup (IF IsLeak(head, t) THEN newcspaces[head] ELSE {})
  BY DEF SaturateHead
<1>5. (\A t \in TCBs : newcspaces'[t] = IF t < head' THEN WithLeaks(t, TCBs)
                                      ELSE WithLeaks(t, 1 .. head' - 1))
         => SaturatedSoFar'
  <2>1. \A t : /\ WithLeaks(t, TCBs)' = WithLeaks(t, TCBs)
               /\ WithLeaks(t, 1 .. head - 1)' = WithLeaks(t, 1 .. head' - 1)
    BY <1>1, Zenon DEF WithLeaks
  <2>. QED
    BY <2>1 DEF SaturatedSoFar
<1>6. \A t \in TCBs : /\ t \in Nat
                      /\ (t < head' <=> t < head \/ t = head)
                      /\ (t < head \/ t = head \/ t > head)
                      /\ ~(t < head /\ t = head) /\ ~(t < head /\ t > head) /\ ~(t = head /\ t > head)
  BY <1>1, <1>2 DEF TCBs
<1>7. /\ 1 .. head' - 1 = (1 .. head - 1) \cup {head}
      /\ TCBs = (1 .. head - 1) \cup {head} \cup (head + 1 .. N)
      /\ \A t \in head + 1 .. N : ~(t < head)
  BY <1>1, <1>2, NAssumption DEF TCBs
<1>8. ASSUME NEW t \in TCBs, t < head
      PROVE  newcspaces'[t] = WithLeaks(t, TCBs)
  <2>1. newcspaces'[t] = newcspaces[t]
    BY <1>4, <1>6, <1>8
  <2>. QED
    BY <1>2, <1>8, <2>1 DEF SaturatedSoFar
<1>9. newcspaces'[head] = WithLeaks(head, TCBs)
  <2>. DEFINE Behind == {x \in head + 1 .. N : IsLeak(x, head)}
  <2>1. newcspaces'[head] = newcspaces[head] \cup UNION {newcspaces[u] : u \in Behind}
    BY <1>2, <1>4, <1>6
  <2>2. newcspaces[head] = WithLeaks(head, 1 .. head - 1)
    BY <1>2, <1>6 DEF SaturatedSoFar
  <2>3. \A u \in Behind : u \in TCBs /\ <<u, head>> \in authMatrix
                          /\ newcspaces[u] = WithLeaks(u, 1 .. head - 1)
    BY <1>2, <1>7 DEF SaturatedSoFar, IsLeak
  <2>4. \A u \in head + 1 .. N : <<u, head>> \in authMatrix => u \in Behind
    BY DEF IsLeak
  <2>. HIDE DEF Behind
  <2>5. \A x \in 1 .. head - 1, u \in Behind : <<x, u>> \in authMatrix => <<x, head>> \in authMatrix
    BY <1>2, <1>7, <2>3 DEF TransitiveOn
  <2>6. ASSUME NEW c \in newcspaces'[head]
        PROVE  c \in cspaces[head] \/ \E x \in TCBs : <<x, head>> \in authMatrix /\ c \in cspaces[x]
    <3>1. CASE c \in newcspaces[head]
      <4>1. \A x \in 1 .. head - 1 : x \in TCBs
        BY <1>7
      <4>. QED
        BY <2>2, <3>1, <4>1 DEF WithLeaks
    <3>2. ASSUME NEW u \in Behind, c \in newcspaces[u]
          PROVE  \E x \in TCBs : <<x, head>> \in authMatrix /\ c \in cspaces[x]
      <4>1. \A x \in 1 .. head - 1 : x \in TCBs
        BY <1>7
      <4>2. c \in WithLeaks(u, 1 .. head - 1) /\ u \in TCBs /\ <<u, head>> \in authMatrix
        BY <2>3, <3>2
      <4>3. c \in cspaces[u] \/ \E x \in 1 .. head - 1 : <<x, u>> \in authMatrix /\ c \in cspaces[x]
        BY <4>2 DEF WithLeaks
      <4>. QED
        BY <2>5, <4>1, <4>2, <4>3
    <3>. QED
      BY <2>1, <3>1, <3>2
  <2>7. ASSUME NEW c, NEW x \in TCBs, <<x, head>> \in authMatrix, c \in cspaces[x]
        PROVE  c \in newcspaces'[head]
    <3>1. CASE x \in 1 .. head - 1
      BY <2>1, <2>2, <2>7, <3>1 DEF WithLeaks
    <3>2. CASE x = head
      BY <2>1, <2>2, <2>7, <3>2 DEF WithLeaks
    <3>3. CASE x \in head + 1 .. N
      <4>1. x \in Behind /\ c \in newcspaces[x]
        BY <2>3, <2>4, <2>7, <3>3 DEF WithLeaks
      <4>. QED
        BY <2>1, <4>1
    <3>. QED
      BY <1>7, <3>1, <3>2, <3>3
  <2>8. cspaces[head] \subseteq newcspaces'[head]
    BY <2>1, <2>2 DEF WithLeaks
  <2>9. newcspaces'[head] = cspaces[head] \cup UNION {cspaces[u] : u \in {x \in TCBs : <<x, head>> \in authMatrix}}
    BY <2>6, <2>7, <2>8
  <2>. QED
    BY <2>9 DEF WithLeaks
<1>10. ASSUME NEW t \in TCBs, t > head
       PROVE  newcspaces'[t] = WithLeaks(t, 1 .. head' - 1)
  <2>1. newcspaces[t] = WithLeaks(t, 1 .. head - 1)
    BY <1>2, <1>6, <1>10 DEF SaturatedSoFar
  <2>2. newcspaces[head] = WithLeaks(head, 1 .. head - 1)
    BY <1>2, <1>6 DEF SaturatedSoFar
  <2>3. newcspaces'[t] = newcspaces[t] \cup (IF <<head, t>> \in authMatrix THEN newcspaces[head] ELSE {})
    BY <1>4, <1>6, <1>10 DEF IsLeak
  <2>4. \A x \in 1 .. head - 1 :
           <<x, head>> \in authMatrix /\ <<head, t>> \in authMatrix => <<x, t>> \in authMatrix
    BY <1>2, <1>7 DEF TransitiveOn
  <2>5. newcspaces'[t] = cspaces[t] \cup UNION {cspaces[u] :
           u \in {x \in (1 .. head - 1) \cup {head} : <<x, t>> \in authMatrix}}
    <3>1. CASE <<head, t>> \in authMatrix
      BY <2>1, <2>2, <2>3, <2>4, <3>1 DEF WithLeaks
    <3>2. CASE <<head, t>> \notin authMatrix
      BY <2>1, <2>3, <3>2 DEF WithLeaks
    <3>. QED
      BY <3>1, <3>2
  <2>. QED
    BY <1>7, <2>5 DEF WithLeaks
<1>11. SaturatedSoFar'
  BY <1>5, <1>6, <1>8, <1>9, <1>10
<1>12. STCCTypeOK'
  BY <1>1, <1>2 DEF STCCTypeOK, SaturateHead
<1>. QED
  BY <1>1, <1>2, <1>3, <1>11, <1>12 DEF AnalysisInv, FlowsStable, TransitiveOn

(* What holds of the saturated CSpaces after the analysis of leaks. *)
Saturated == authMatrix = Chains /\ TransitiveOn(authMatrix) /\ SaturatedSoFar

LEMMA SaturatedKept ==
    ASSUME Saturated, UNCHANGED <<cspaces, authMatrix, newcspaces, head>>
    PROVE  Saturated'
<1>1. Chains' = Chains
  BY ChainsKept
<1>2. SaturatedSoFar'
  <2>1. \A t, U : WithLeaks(t, U)' = WithLeaks(t, U)
    BY DEF WithLeaks
  <2>2. PICK h : h = head /\ h = head'
    OBVIOUS
  <2>3. ASSUME NEW t \in TCBs
        PROVE  newcspaces'[t] = IF t < h THEN WithLeaks(t, TCBs)' ELSE WithLeaks(t, 1 .. h - 1)'
    BY <2>1, <2>2, Zenon DEF Saturated, SaturatedSoFar
  <2>. QED
    BY <2>2, <2>3, Zenon DEF SaturatedSoFar
<1>. QED
  BY <1>1, <1>2 DEF Saturated, TransitiveOn

LEMMA UpdateModelInv ==
    ASSUME Inv, UpdateModel
    PROVE  Inv'
<1>. USE DEF Inv
<1>1. Saturated'
  BY SaturatedKept DEF Saturated, UpdateModel, AnalysisInv, loops
<1>2. STCCTypeOK'
  BY DEF STCCTypeOK, UpdateModel, loops
<1>3. phase' = "flows" /\ head' = N + 1
  BY NAssumption DEF UpdateModel, loops, STCCTypeOK
<1>. QED
  BY <1>1, <1>2, <1>3 DEF AnalysisInv, Saturated, FlowsStable

LEMMA FlowsTosInv ==
    ASSUME Inv, FlowsTos
    PROVE  Inv'
<1>. USE DEF Inv
<1>1. Saturated'
  BY SaturatedKept DEF Saturated, FlowsTos, AnalysisInv, loops
<1>2. infoMatrix' = EnteredFlows /\ EnteredFlows' = EnteredFlows
  BY EnteredKept DEF FlowsTos, EnteredFlows
<1>3. EnteredFlows \subseteq TCBs \X TCBs
  <2>1. SharingFlows \subseteq TCBs \X TCBs
    BY DEF STCCTypeOK, SharingFlows, Flip
  <2>. QED
    BY <2>1, DirectFlows DEF EnteredFlows
<1>4. STCCTypeOK'
  BY <1>2, <1>3 DEF STCCTypeOK, FlowsTos, loops
<1>5. k' = 1 /\ i' = 1 /\ phase' = "info" /\ head' = N + 1
  BY DEF FlowsTos, loops, STCCTypeOK, AnalysisInv
<1>6. RoundsDone(infoMatrix)'
  <2>1. 1 .. k' - 1 = {} /\ 1 .. i' - 1 = {}
    BY <1>5
  <2>. QED
    BY <2>1 DEF RoundsDone
<1>. QED
  BY <1>1, <1>2, <1>4, <1>5, <1>6 DEF AnalysisInv, Saturated, FlowsStable

LEMMA WarshallInfoInv ==
    ASSUME Inv, WarshallInfo
    PROVE  Inv'
<1>. USE DEF Inv
<1>1. /\ phase = "info" /\ infoMatrix' = Row(infoMatrix) /\ NextRow
      /\ m' = m /\ cspaces' = cspaces /\ authMatrix' = authMatrix
      /\ head' = head /\ newcspaces' = newcspaces
  BY DEF WarshallInfo
<1>2. /\ k \in TCBs /\ i \in TCBs /\ head = N + 1
      /\ EnteredFlows \subseteq infoMatrix
      /\ RoundsDone(infoMatrix) /\ infoMatrix \subseteq TCBs \X TCBs
  BY <1>1 DEF STCCTypeOK, AnalysisInv
<1>3. Saturated'
  BY <1>1, SaturatedKept DEF Saturated, AnalysisInv
<1>4. EnteredFlows' \subseteq infoMatrix' /\ infoMatrix' \subseteq TCBs \X TCBs
  BY <1>1, <1>2, RowFacts, EnteredKept
<1>5. CASE /\ phase' = phase
           /\ LET After == Row(infoMatrix)
              IN  /\ \A x \in 1 .. k' - 1 : \A a, b \in TCBs :
                       <<a, x>> \in After /\ <<x, b>> \in After =>
                          <<a, b>> \in After \/ (<<a, k'>> \in After /\ <<k', b>> \in After)
                  /\ \A a \in 1 .. i' - 1 : \A b \in TCBs :
                       <<a, k'>> \in After /\ <<k', b>> \in After => <<a, b>> \in After
  <2>1. RoundsDone(infoMatrix)'
    BY <1>1, <1>5 DEF RoundsDone
  <2>2. k' \in TCBs /\ i' \in TCBs
    BY <1>1, <1>2, NextRowRounds
  <2>3. STCCTypeOK'
    BY <1>1, <1>2, <1>4, <1>5, <2>2 DEF STCCTypeOK
  <2>. QED
    BY <1>1, <1>2, <1>3, <1>4, <1>5, <2>1, <2>3 DEF AnalysisInv, Saturated, FlowsStable
<1>6. CASE /\ phase' = IF phase = "auth" THEN "saturate" ELSE "reflexive"
           /\ k' = 1 /\ i' = 1
           /\ TransitiveOn(Row(infoMatrix))
  <2>1. TransitiveOn(infoMatrix)'
    <3>1. TransitiveOn(infoMatrix')
      BY <1>1, <1>6
    <3>. QED
      BY <3>1 DEF TransitiveOn
  <2>2. phase' = "reflexive" /\ 1 \in TCBs
    BY <1>1, <1>6, NAssumption DEF TCBs
  <2>3. STCCTypeOK'
    BY <1>1, <1>2, <1>4, <1>6, <2>2 DEF STCCTypeOK
  <2>. QED
    BY <1>1, <1>2, <1>3, <1>4, <2>1, <2>2, <2>3 DEF AnalysisInv, Saturated, FlowsStable
<1>. QED
  BY <1>1, <1>2, <1>5, <1>6, NextRowRounds
-----------------------------------------------------------------------------
(* A flow between saturated CSpaces goes along a flow that was entered, or *)
(* along the sharing between the TCBs that the caps have leaked to.        *)
LEMMA SaturatedFlows ==
    ASSUME STCCTypeOK, SaturatedSoFar, head = N + 1,
           EnteredFlows \subseteq infoMatrix, TransitiveOn(infoMatrix),
           NEW t \in TCBs, NEW u \in TCBs, t # u,
           FlowsOut(GetFrames(t) \cup newcspaces[t], GetFrames(u) \cup newcspaces[u])
    PROVE  <<t, u>> \in infoMatrix
<1>. DEFINE F(x) == GetFrames(x) \cup cspaces[x]
            G(x) == GetFrames(x) \cup newcspaces[x]
<1>1. ASSUME NEW x \in TCBs, NEW c \in G(x)
      PROVE  \E y \in TCBs : c \in F(y) /\ (y = x \/ <<y, x>> \in authMatrix)
  <2>1. x < head
    BY NAssumption DEF TCBs
  <2>2. newcspaces[x] = WithLeaks(x, TCBs)
    BY <2>1 DEF SaturatedSoFar
  <2>. QED
    BY <1>1, <2>2 DEF WithLeaks
<1>2. ASSUME NEW x, NEW y, <<y, x>> \in authMatrix
      PROVE  <<x, y>> \in infoMatrix /\ <<y, x>> \in infoMatrix
  <2>1. <<y, x>> \in SharingFlows /\ Flip(<<y, x>>) \in SharingFlows
    BY <1>2 DEF SharingFlows
  <2>2. Flip(<<y, x>>) = <<x, y>>
    BY DEF Flip
  <2>. QED
    BY <2>1, <2>2 DEF EnteredFlows
<1>3. ASSUME NEW x \in TCBs, NEW y \in TCBs, x # y, FlowsOut(F(x), F(y))
      PROVE  <<x, y>> \in infoMatrix
  <2>. DEFINE cs == [z \in TCBs |-> F(z)]
  <2>1. DirectTCBFlows(cs) \subseteq infoMatrix
    BY DEF EnteredFlows
  <2>2. cs[x] = F(x) /\ cs[y] = F(y)
    OBVIOUS
  <2>. HIDE DEF cs, F
  <2>3. <<x, y>> \in DirectTCBFlows(cs)
    BY <1>3, <2>2, DirectFlows
  <2>. QED
    BY <2>1, <2>3
<1>. HIDE DEF F, G
<1>4. \E c \in G(t), d \in G(u) :
         \A S, T : c \in S /\ d \in T => FlowsOut(S, T)
  <2>1. FlowsOut(G(t), G(u))
    BY DEF G
  <2>2. \A S, T : FlowsOut(S, T) <=>
            \/ Overlap(S, T, "EP", "write") \/ Overlap(T, S, "EP", "write")
            \/ Overlap(S, T, "Frame", "write") \/ Overlap(S, T, "Ntfn", "write")
    BY DEF FlowsOut, EndpointFlow
  <2>3. ASSUME NEW type, NEW r, Overlap(G(t), G(u), type, r)
        PROVE  \E c \in G(t), d \in G(u) : \A S, T : c \in S /\ d \in T => Overlap(S, T, type, r)
    BY <2>3, Zenon DEF Overlap
  <2>4. ASSUME NEW type, NEW r, Overlap(G(u), G(t), type, r)
        PROVE  \E c \in G(t), d \in G(u) : \A S, T : c \in S /\ d \in T => Overlap(T, S, type, r)
    BY <2>4, Zenon DEF Overlap
  <2>. QED
    BY <2>1, <2>2, <2>3, <2>4
<1>5. PICK c \in G(t), d \in G(u) : \A S, T : c \in S /\ d \in T => FlowsOut(S, T)
  BY <1>4
<1>6. PICK x \in TCBs : c \in F(x) /\ (x = t \/ <<x, t>> \in authMatrix)
  BY <1>1
<1>7. PICK y \in TCBs : d \in F(y) /\ (y = u \/ <<y, u>> \in authMatrix)
  BY <1>1
<1>8. x = y \/ <<x, y>> \in infoMatrix
  BY <1>3, <1>5, <1>6, <1>7
<1>9. (t = x \/ <<t, x>> \in infoMatrix) /\ (y = u \/ <<y, u>> \in infoMatrix)
  BY <1>2, <1>6, <1>7
<1>. QED
  BY <1>8, <1>9 DEF TransitiveOn

LEMMA RemoveReflexiveInv ==
    ASSUME Inv, RemoveReflexive
    PROVE  Inv'
<1>. USE DEF Inv
<1>1. /\ phase = "reflexive" /\ phase' = "done"
      /\ infoMatrix' = {p \in infoMatrix : p[1] # p[2]}
      /\ m' = m /\ cspaces' = cspaces /\ authMatrix' = authMatrix
      /\ head' = head /\ newcspaces' = newcspaces /\ k' = k /\ i' = i
  BY DEF RemoveReflexive, loops
<1>2. Saturated'
  BY <1>1, SaturatedKept DEF Saturated, AnalysisInv
<1>3. STCCTypeOK'
  BY <1>1 DEF STCCTypeOK
<1>4. FlowsStable'
  <2>. DEFINE cs == [t \in TCBs |-> GetFrames(t) \cup newcspaces[t]]
  <2>1. DirectTCBFlows([t \in TCBs |-> GetFrames(t) \cup newcspaces[t]])' = DirectTCBFlows(cs)
    <3>1. \A t : GetFrames(t)' = GetFrames(t)
      BY <1>1, FramesKept
    <3>. QED
      BY <1>1, <3>1
  <2>2. ASSUME NEW t \in TCBs, NEW u \in TCBs, t # u, FlowsOut(cs[t], cs[u])
        PROVE  <<t, u>> \in infoMatrix'
    <3>1. FlowsOut(GetFrames(t) \cup newcspaces[t], GetFrames(u) \cup newcspaces[u])
      BY <2>2
    <3>2. <<t, u>> \in infoMatrix
      BY <1>1, <2>2, <3>1, SaturatedFlows DEF AnalysisInv
    <3>. QED
      BY <1>1, <2>2, <3>2
  <2>. HIDE DEF cs
  <2>3. \A p \in DirectTCBFlows(cs) : p \in infoMatrix'
    BY <2>2, DirectFlows
  <2>. QED
    BY <2>1, <2>3 DEF FlowsStable
<1>. QED
  BY <1>1, <1>2, <1>3, <1>4 DEF AnalysisInv, Saturated
-----------------------------------------------------------------------------
LEMMA AnalysisStep ==
    ASSUME Inv, [Next]_vars
    PROVE  Inv'
<1>1. CASE Step
  BY <1>1, CollectCapsInv, LeaksTosInv, WarshallAuthInv, SaturateHeadInv, UpdateModelInv,
     FlowsTosInv, WarshallInfoInv, RemoveReflexiveInv DEF Step
<1>2. CASE UNCHANGED vars
  <2>1. /\ UNCHANGED <<m, phase, cspaces, authMatrix, infoMatrix, k, i, head, newcspaces>>
    BY <1>2 DEF vars
  <2>2. STCCTypeOK'
    BY <2>1 DEF Inv, STCCTypeOK
  <2>3. Chains' = Chains /\ DirectPasses' = DirectPasses /\ EnteredFlows' = EnteredFlows
    BY <2>1, ChainsKept, EnteredKept
  <2>4. Saturated => Saturated'
    BY <2>1, SaturatedKept
  <2>5. /\ RoundsDone(authMatrix)' <=> RoundsDone(authMatrix)
        /\ RoundsDone(infoMatrix)' <=> RoundsDone(infoMatrix)
        /\ TransitiveOn(infoMatrix)' <=> TransitiveOn(infoMatrix)
    BY <2>1 DEF RoundsDone, TransitiveOn
  <2>6. FlowsStable => FlowsStable'
    <3>1. \A t : GetFrames(t)' = GetFrames(t)
      BY <2>1, FramesKept
    <3>. QED
      BY <2>1, <3>1 DEF FlowsStable
  <2>. QED
    BY <2>1, <2>2, <2>3, <2>4, <2>5, <2>6 DEF Inv, AnalysisInv, Saturated
<1>. QED
  BY <1>1, <1>2 DEF Next

(* The analysis keeps its invariant: the rounds of warshall, the           *)
(* saturation of the CSpaces and the entered flows are as far as the loops *)
(* say.                                                                    *)
THEOREM Analysis == Spec => []Inv
<1>1. Init => Inv
  <2>1. ASSUME Init PROVE STCCTypeOK
    <3>1. 1 \in TCBs /\ 1 \in 1 .. N + 1
      BY NAssumption DEF TCBs
    <3>. QED
      BY <2>1, <3>1 DEF Init, STCCTypeOK
  <2>2. ASSUME Init PROVE AnalysisInv
    BY <2>2 DEF Init, AnalysisInv, FlowsStable
  <2>. QED
    BY <2>1, <2>2 DEF Inv
<1>2. Inv /\ [Next]_vars => Inv'
  BY AnalysisStep
<1>. QED
  BY <1>1, <1>2, PTL DEF Spec

(* warshall of Matrix.hs: when the leak matrix is used, it has exactly the *)
(* pairs that a chain of direct leaks connects, for every number of TCBs.  *)
THEOREM WarshallClosure ==
    Spec => [](phase \notin {"caps", "leaks", "auth"} => authMatrix = Chains)
<1>1. Inv => (phase \notin {"caps", "leaks", "auth"} => authMatrix = Chains)
  BY DEF Inv, AnalysisInv
<1>. QED
  BY <1>1, Analysis, PTL

(* saturateCSpaces: one pass over the list gives every TCB the caps of     *)
(* exactly those that leak to it, for every number and order of TCBs.      *)
THEOREM Saturation == Spec => []CSpacesSaturated
<1>1. Inv => CSpacesSaturated
  <2>1. SUFFICES ASSUME Inv, phase = "flows", NEW t \in TCBs
                 PROVE  newcspaces[t] = cspaces[t]
                          \cup UNION {cspaces[u] : u \in {x \in TCBs : <<x, t>> \in Chains}}
    BY DEF CSpacesSaturated
  <2>2. authMatrix = Chains /\ SaturatedSoFar /\ t < head
    BY <2>1, NAssumption DEF Inv, AnalysisInv, TCBs
  <2>. QED
    BY <2>2 DEF SaturatedSoFar, WithLeaks
<1>. QED
  BY <1>1, Analysis, PTL

(* leakMatrix: the flow matrix has what may flow directly between the      *)
(* saturated CSpaces, although only the original ones were looked at.      *)
THEOREM FlowsAreStable == Spec => []FlowsStable
<1>1. Inv => FlowsStable
  BY DEF Inv, AnalysisInv
<1>. QED
  BY <1>1, Analysis, PTL

-----------------------------------------------------------------------------
(* Lists of regions and the addresses that are in them. *)

Block(r) == r.start .. r.end - 1

LEMMA RegionIs ==
    ASSUME NEW a \in Nat, NEW b \in Nat, a <= b
    PROVE  Region(a, b) \in Extents /\ Region(a, b).start = a /\ Region(a, b).end = b
  BY DEF Region, Extents

LEMMA InAddresses ==
    ASSUME NEW s \in Seq(Extents)
    PROVE  \A a : a \in Addresses(s) <=> \E j \in 1 .. Len(s) : a \in Block(s[j])
  BY DEF Addresses, Block

LEMMA HeadAddresses ==
    ASSUME NEW s \in Seq(Extents), s # <<>>
    PROVE  /\ Head(s) \in Extents /\ Head(s) = s[1] /\ Tail(s) \in Seq(Extents)
           /\ Len(s) \in Nat \ {0} /\ Len(Tail(s)) = Len(s) - 1
           /\ \A j \in 1 .. Len(s) - 1 : Tail(s)[j] = s[j + 1]
           /\ Addresses(s) = Block(s[1]) \cup Addresses(Tail(s))
<1>1. /\ Head(s) \in Extents /\ Head(s) = s[1] /\ Tail(s) \in Seq(Extents)
      /\ Len(s) \in Nat \ {0} /\ Len(Tail(s)) = Len(s) - 1
  OBVIOUS
<1>2. \A j \in 1 .. Len(s) - 1 : Tail(s)[j] = s[j + 1]
  OBVIOUS
<1>3. ASSUME NEW a PROVE a \in Addresses(s) <=> a \in Block(s[1]) \/ a \in Addresses(Tail(s))
  <2>1. a \in Addresses(s) <=> \E j \in 1 .. Len(s) : a \in Block(s[j])
    BY InAddresses
  <2>2. a \in Addresses(Tail(s)) <=> \E j \in 1 .. Len(s) - 1 : a \in Block(s[j + 1])
    <3>1. a \in Addresses(Tail(s)) <=> \E j \in 1 .. Len(Tail(s)) : a \in Block(Tail(s)[j])
      BY <1>1, InAddresses
    <3>. QED
      BY <1>1, <1>2, <3>1
  <2>3. ASSUME NEW j \in 1 .. Len(s), j # 1 PROVE \E p \in 1 .. Len(s) - 1 : j = p + 1
    <3>1. j - 1 \in 1 .. Len(s) - 1 /\ j = (j - 1) + 1
      BY <1>1, <2>3
    <3>. QED
      BY <3>1
  <2>4. 1 \in 1 .. Len(s) /\ \A j \in 1 .. Len(s) - 1 : j + 1 \in 1 .. Len(s)
    BY <1>1
  <2>. QED
    BY <2>1, <2>2, <2>3, <2>4
<1>. QED
  BY <1>1, <1>2, <1>3

LEMMA AppendedAddresses ==
    ASSUME NEW s \in Seq(Extents), NEW r \in Extents
    PROVE  /\ Append(s, r) \in Seq(Extents) /\ Len(Append(s, r)) = Len(s) + 1 /\ Len(s) \in Nat
           /\ \A j \in 1 .. Len(s) : Append(s, r)[j] = s[j]
           /\ Append(s, r)[Len(s) + 1] = r
           /\ Addresses(Append(s, r)) = Addresses(s) \cup Block(r)
<1>1. /\ Append(s, r) \in Seq(Extents) /\ Len(Append(s, r)) = Len(s) + 1 /\ Len(s) \in Nat
      /\ \A j \in 1 .. Len(s) : Append(s, r)[j] = s[j]
      /\ Append(s, r)[Len(s) + 1] = r
  OBVIOUS
<1>2. ASSUME NEW a PROVE a \in Addresses(Append(s, r)) <=> a \in Addresses(s) \/ a \in Block(r)
  <2>1. a \in Addresses(s) <=> \E j \in 1 .. Len(s) : a \in Block(s[j])
    BY InAddresses
  <2>2. a \in Addresses(Append(s, r)) <=> \E j \in 1 .. Len(s) + 1 : a \in Block(Append(s, r)[j])
    BY <1>1, InAddresses
  <2>3. \A j \in 1 .. Len(s) + 1 : j \in 1 .. Len(s) \/ j = Len(s) + 1
    BY <1>1
  <2>4. Len(s) + 1 \in 1 .. Len(s) + 1 /\ \A j \in 1 .. Len(s) : j \in 1 .. Len(s) + 1
    BY <1>1
  <2>. QED
    BY <1>1, <2>1, <2>2, <2>3, <2>4
<1>. QED
  BY <1>1, <1>2

LEMMA JoinedAddresses ==
    ASSUME NEW s \in Seq(Extents), NEW t \in Seq(Extents)
    PROVE  Addresses(s \o t) = Addresses(s) \cup Addresses(t)
<1>1. /\ s \o t \in Seq(Extents) /\ Len(s \o t) = Len(s) + Len(t)
      /\ \A j \in 1 .. Len(s) : (s \o t)[j] = s[j]
      /\ \A j \in 1 .. Len(t) : (s \o t)[Len(s) + j] = t[j]
  BY JoinedFacts
<1>2. Len(s) \in Nat /\ Len(t) \in Nat
  OBVIOUS
<1>3. ASSUME NEW a PROVE a \in Addresses(s \o t) <=> a \in Addresses(s) \/ a \in Addresses(t)
  <2>1. /\ a \in Addresses(s) <=> \E j \in 1 .. Len(s) : a \in Block(s[j])
        /\ a \in Addresses(t) <=> \E j \in 1 .. Len(t) : a \in Block(t[j])
        /\ a \in Addresses(s \o t) <=> \E j \in 1 .. Len(s) + Len(t) : a \in Block((s \o t)[j])
    BY <1>1, InAddresses
  <2>2. /\ \A j \in 1 .. Len(s) : j \in 1 .. Len(s) + Len(t)
        /\ \A j \in 1 .. Len(t) : Len(s) + j \in 1 .. Len(s) + Len(t)
    BY <1>2
  <2>3. ASSUME NEW j \in 1 .. Len(s) + Len(t)
        PROVE  j \in 1 .. Len(s) \/ \E p \in 1 .. Len(t) : j = Len(s) + p
    <3>1. CASE j > Len(s)
      <4>1. j - Len(s) \in 1 .. Len(t) /\ j = Len(s) + (j - Len(s))
        BY <1>2, <3>1
      <4>. QED
        BY <4>1
    <3>. QED
      BY <1>2, <3>1
  <2>. QED
    BY <1>1, <2>1, <2>2, <2>3
<1>. QED
  BY <1>3

LEMMA MovedHead ==
    ASSUME NEW s \in Seq(Extents), s # <<>>, NEW a \in Nat, a <= s[1].end
    PROVE  \E t \in Seq(Extents) : /\ t = [s EXCEPT ![1].start = a]
                                   /\ t # <<>> /\ Len(t) = Len(s)
                                   /\ t[1] = Region(a, s[1].end)
                                   /\ \A j \in 2 .. Len(s) : t[j] = s[j]
                                   /\ Tail(t) = Tail(s)
<1>. DEFINE t == [s EXCEPT ![1].start = a]
<1>1. Len(s) \in Nat \ {0} /\ DOMAIN s = 1 .. Len(s) /\ s[1] \in Extents
  OBVIOUS
<1>2. t[1] = Region(a, s[1].end)
  <2>1. t[1] = [s[1] EXCEPT !.start = a]
    BY <1>1
  <2>2. s[1] \in [start : Nat, end : Nat]
    BY <1>1 DEF Extents
  <2>. QED
    BY <2>1, <2>2 DEF Region
<1>3. DOMAIN t = 1 .. Len(s) /\ \A j \in 2 .. Len(s) : t[j] = s[j]
  BY <1>1
<1>4. t[1] \in Extents
  BY <1>1, <1>2, RegionIs DEF Extents
<1>. HIDE DEF t
<1>5. \A j \in 1 .. Len(s) : t[j] \in Extents
  <2>1. \A j \in 1 .. Len(s) : j = 1 \/ j \in 2 .. Len(s)
    BY <1>1
  <2>. QED
    BY <1>3, <1>4, <2>1
<1>6. t \in Seq(Extents) /\ Len(t) = Len(s)
  <2>1. t = [j \in 1 .. Len(s) |-> t[j]]
    BY <1>3 DEF t
  <2>2. t \in [1 .. Len(s) -> Extents]
    BY <1>5, <2>1
  <2>. QED
    BY <1>1, <1>3, <2>2
<1>7. t # <<>>
  BY <1>1, <1>6
<1>8. Tail(t) = Tail(s)
  <2>1. /\ Tail(t) \in Seq(Extents) /\ Len(Tail(t)) = Len(s) - 1
        /\ Tail(s) \in Seq(Extents) /\ Len(Tail(s)) = Len(s) - 1
        /\ \A j \in 1 .. Len(s) - 1 : Tail(t)[j] = t[j + 1] /\ Tail(s)[j] = s[j + 1]
    BY <1>6, <1>7, HeadAddresses
  <2>2. \A j \in 1 .. Len(s) - 1 : j + 1 \in 2 .. Len(s)
    BY <1>1
  <2>3. \A j \in 1 .. Len(s) - 1 : Tail(t)[j] = Tail(s)[j]
    BY <1>3, <2>1, <2>2
  <2>. QED
    BY <2>1, <2>3
<1>9. t = [s EXCEPT ![1].start = a]
  BY DEF t
<1>. QED
  BY <1>2, <1>3, <1>6, <1>7, <1>8, <1>9

-----------------------------------------------------------------------------
(* Trimmed: main's list of memory. *)

Ascending(s) == \A p, q \in DOMAIN s : p < q => s[p].end <= s[q].start
Inside(r, x) == x.start <= r.start /\ r.end <= x.end

LEMMA BelowFacts ==
    ASSUME NEW r \in Extents, NEW top \in Nat
    PROVE  /\ Below(r, top) \in Extents
           /\ Below(r, top).start # Below(r, top).end =>
                 Below(r, top).start < Below(r, top).end /\ Inside(Below(r, top), r)
  BY DEF Below, Region, Least, Extents, Inside

LEMMA TrimmedFacts ==
    ASSUME GoodMachine(in)
    PROVE  /\ Trimmed \in Seq(Extents)
           /\ Ascending(Trimmed)
           /\ \A q \in DOMAIN Trimmed : \E j \in DOMAIN in.memory : Inside(Trimmed[q], in.memory[j])
<1>. DEFINE all == {Below(in.memory[j], in.top) : j \in DOMAIN in.memory}
            left == {r \in all : r.start # r.end}
            S == {r.start : r \in left}
            starts == InOrder(S)
<1>1. in.memory \in Seq(Extents) /\ in.devices \in Seq(Extents) /\ in.top \in Nat
  BY DEF GoodMachine
<1>2. ASSUME NEW r \in left
      PROVE  r \in Extents /\ r.start < r.end /\ \E j \in DOMAIN in.memory : Inside(r, in.memory[j])
  <2>1. PICK j \in DOMAIN in.memory : r = Below(in.memory[j], in.top) /\ r.start # r.end
    OBVIOUS
  <2>2. in.memory[j] \in Extents
    BY <1>1
  <2>. QED
    BY <1>1, <2>1, <2>2, BelowFacts
<1>3. ASSUME NEW j \in DOMAIN in.memory, NEW p \in DOMAIN in.memory, j # p
      PROVE  Apart(in.memory[j], in.memory[p])
  <2>1. PICK mem \in Seq(Extents), dev \in Seq(Extents) : mem = in.memory /\ dev = in.devices
    BY <1>1
  <2>2. /\ mem \o dev \in Seq(Extents) /\ Len(mem \o dev) = Len(mem) + Len(dev)
        /\ \A q \in 1 .. Len(mem) : (mem \o dev)[q] = mem[q]
    BY JoinedFacts
  <2>3. j \in 1 .. Len(mem) /\ p \in 1 .. Len(mem)
    BY <2>1
  <2>4. j \in DOMAIN (mem \o dev) /\ p \in DOMAIN (mem \o dev)
    BY <2>2, <2>3
  <2>5. Apart((mem \o dev)[j], (mem \o dev)[p])
    <3>1. \A x, y \in DOMAIN (mem \o dev) : x # y => Apart((mem \o dev)[x], (mem \o dev)[y])
      BY <2>1, Zenon DEF GoodMachine
    <3>. QED
      BY <1>3, <2>4, <3>1
  <2>. QED
    BY <2>1, <2>2, <2>3, <2>5
<1>4. IsFiniteSet(S) /\ S \subseteq Nat
  <2>1. DOMAIN in.memory = 1 .. Len(in.memory) /\ Len(in.memory) \in Nat
    BY <1>1
  <2>2. IsFiniteSet(1 .. Len(in.memory))
    BY <2>1, FS_Interval
  <2>3. IsFiniteSet(all)
    <3>. DEFINE f == [j \in DOMAIN in.memory |-> Below(in.memory[j], in.top)]
    <3>1. all = {f[j] : j \in DOMAIN in.memory} /\ DOMAIN f = DOMAIN in.memory
      OBVIOUS
    <3>. HIDE DEF f, all
    <3>. QED
      BY <2>1, <2>2, <3>1, FiniteImage
  <2>4. IsFiniteSet(left)
    BY <2>3, FS_Subset
  <2>5. IsFiniteSet(S)
    <3>. DEFINE f == [r \in left |-> r.start]
    <3>1. S = {f[r] : r \in left} /\ DOMAIN f = left
      OBVIOUS
    <3>. HIDE DEF f, left, S
    <3>. QED
      BY <2>4, <3>1, FiniteImage
  <2>. QED
    BY <1>2, <2>5 DEF Extents
<1>5. /\ starts \in Seq(S) /\ Elements(starts) = S
      /\ \A j, p \in 1 .. Len(starts) : j < p => starts[j] < starts[p]
  <2>. HIDE DEF S
  <2>. QED
    BY <1>4, InOrderFacts
<1>6. Trimmed = [q \in DOMAIN starts |-> CHOOSE r \in left : r.start = starts[q]]
  BY DEF Trimmed
<1>7. Len(starts) \in Nat /\ DOMAIN starts = 1 .. Len(starts)
  BY <1>5
<1>8. ASSUME NEW q \in 1 .. Len(starts)
      PROVE  Trimmed[q] \in left /\ Trimmed[q].start = starts[q]
  <2>1. starts[q] \in S
    <3>. HIDE DEF S, starts
    <3>. QED
      BY <1>5, <1>7
  <2>2. PICK r \in left : r.start = starts[q]
    BY <2>1
  <2>3. Trimmed[q] = CHOOSE x \in left : x.start = starts[q]
    BY <1>6, <1>7
  <2>. HIDE DEF left, starts
  <2>. QED
    BY <2>2, <2>3
<1>. HIDE DEF starts, left
<1>9. DOMAIN Trimmed = 1 .. Len(starts)
  BY <1>6, <1>7
<1>10. Trimmed \in Seq(Extents)
  <2>1. \A q \in 1 .. Len(starts) : Trimmed[q] \in Extents
    BY <1>2, <1>8
  <2>2. Trimmed = [q \in 1 .. Len(starts) |-> Trimmed[q]]
    BY <1>6, <1>9
  <2>3. Trimmed \in [1 .. Len(starts) -> Extents]
    BY <2>1, <2>2
  <2>. QED
    BY <1>7, <2>3
<1>11. ASSUME NEW p \in 1 .. Len(starts), NEW q \in 1 .. Len(starts), p < q
       PROVE  Trimmed[p].end <= Trimmed[q].start
  <2>1. PICK r \in Extents, s \in Extents :
            /\ r = Trimmed[p] /\ s = Trimmed[q] /\ r \in left /\ s \in left
            /\ r.start < r.end /\ s.start < s.end /\ r.start < s.start
    BY <1>2, <1>5, <1>8, <1>11
  <2>2. PICK j \in DOMAIN in.memory : Inside(r, in.memory[j]) /\ r = Below(in.memory[j], in.top)
    <3>1. PICK j \in DOMAIN in.memory : r = Below(in.memory[j], in.top) /\ r.start # r.end
      BY <2>1 DEF left
    <3>2. in.memory[j] \in Extents
      BY <1>1
    <3>. QED
      BY <1>1, <3>1, <3>2, BelowFacts
  <2>3. PICK l \in DOMAIN in.memory : Inside(s, in.memory[l]) /\ s = Below(in.memory[l], in.top)
    <3>1. PICK l \in DOMAIN in.memory : s = Below(in.memory[l], in.top) /\ s.start # s.end
      BY <2>1 DEF left
    <3>2. in.memory[l] \in Extents
      BY <1>1
    <3>. QED
      BY <1>1, <3>1, <3>2, BelowFacts
  <2>4. j # l
    <3>1. r # s
      BY <2>1 DEF Extents
    <3>. QED
      BY <2>2, <2>3, <3>1
  <2>5. Apart(in.memory[j], in.memory[l])
    BY <1>3, <2>4
  <2>6. in.memory[j] \in Extents /\ in.memory[l] \in Extents
    BY <1>1
  <2>. QED
    BY <2>1, <2>2, <2>3, <2>5, <2>6 DEF Extents, Apart, Inside
<1>12. \A q \in 1 .. Len(starts) : \E j \in DOMAIN in.memory : Inside(Trimmed[q], in.memory[j])
  BY <1>2, <1>8
<1>. QED
  BY <1>9, <1>10, <1>11, <1>12 DEF Ascending
-----------------------------------------------------------------------------
(* init_freemem.  av, rs and fr are its two queues and its result. *)

SuffixOf(s, t) ==
    Len(s) <= Len(t) /\ \A p \in 1 .. Len(s) : s[p] = t[Len(t) - Len(s) + p]

(* The queue holds the last regions of Trimmed, the first of them perhaps  *)
(* with a later start.                                                     *)
Original(av, p) == Trimmed[Len(Trimmed) - Len(av) + p]
AvailableLeft(av) ==
    /\ Len(av) <= Len(Trimmed)
    /\ \A p \in 1 .. Len(av) : /\ Inside(av[p], Original(av, p)) /\ av[p].end = Original(av, p).end
                               /\ p # 1 => av[p] = Original(av, p)

(* What is free already, or still in the queue and not reserved. *)
Accounted(av, rs, fr) ==
    Addresses(fr) \cup (Addresses(av) \ Addresses(rs)) = Addresses(Trimmed) \ Addresses(in.reserved)

FreeInOrder(av, fr) ==
    /\ Ascending(fr)
    /\ \A p \in 1 .. Len(fr) :
          /\ \A q \in 1 .. Len(av) : fr[p].end <= av[q].start
          /\ \E q \in DOMAIN Trimmed : Inside(fr[p], Trimmed[q])

Queues(av, rs, fr) ==
    /\ SuffixOf(rs, in.reserved)
    /\ AvailableLeft(av)
    /\ ~Spanning => Accounted(av, rs, fr)
    /\ FreeInOrder(av, fr)

(* A region whose start was moved starts behind something reserved, and    *)
(* nothing that is left of the reserved regions is before it.              *)
StartsBehind(av, rs) ==
    av # <<>> => \/ av[1].start = Original(av, 1).start
                 \/ /\ av[1].start - 1 \in Addresses(in.reserved)
                    /\ \A p \in 1 .. Len(rs) : av[1].start <= rs[p].start

LEMMA SuffixTail ==
    ASSUME NEW s \in Seq(Extents), NEW t \in Seq(Extents), SuffixOf(s, t), s # <<>>
    PROVE  SuffixOf(Tail(s), t)
<1>1. /\ Tail(s) \in Seq(Extents) /\ Len(s) \in Nat \ {0} /\ Len(Tail(s)) = Len(s) - 1
      /\ \A p \in 1 .. Len(s) - 1 : Tail(s)[p] = s[p + 1]
  BY HeadAddresses
<1>2. Len(t) \in Nat
  OBVIOUS
<1>3. ASSUME NEW p \in 1 .. Len(s) - 1 PROVE Tail(s)[p] = t[Len(t) - (Len(s) - 1) + p]
  <2>1. p + 1 \in 1 .. Len(s) /\ Len(t) - (Len(s) - 1) + p = Len(t) - Len(s) + (p + 1)
    BY <1>1, <1>2
  <2>2. s[p + 1] = t[Len(t) - Len(s) + (p + 1)]
    BY <2>1 DEF SuffixOf
  <2>. QED
    BY <1>1, <2>1, <2>2
<1>. QED
  BY <1>1, <1>2, <1>3 DEF SuffixOf

LEMMA SuffixAscending ==
    ASSUME NEW s \in Seq(Extents), NEW t \in Seq(Extents), SuffixOf(s, t), Ascending(t)
    PROVE  Ascending(s)
<1>1. ASSUME NEW p \in 1 .. Len(s), NEW q \in 1 .. Len(s), p < q PROVE s[p].end <= s[q].start
  <2>. DEFINE o == Len(t) - Len(s)
  <2>1. o \in Nat /\ o + p \in 1 .. Len(t) /\ o + q \in 1 .. Len(t) /\ o + p < o + q
    BY <1>1 DEF SuffixOf
  <2>2. s[p] = t[o + p] /\ s[q] = t[o + q]
    BY DEF SuffixOf
  <2>3. DOMAIN t = 1 .. Len(t)
    OBVIOUS
  <2>. HIDE DEF o
  <2>4. t[o + p].end <= t[o + q].start
    BY <2>1, <2>3 DEF Ascending
  <2>. QED
    BY <2>2, <2>4
<1>. QED
  BY <1>1 DEF Ascending

LEMMA ReservedOrder ==
    ASSUME GoodMachine(in)
    PROVE  in.reserved \in Seq(Extents) /\ Ascending(in.reserved)
  BY DEF GoodMachine, Ascending

(* The first region of the queue is before the others. *)
LEMMA AvailableOrder ==
    ASSUME GoodMachine(in), NEW av \in Seq(Extents), AvailableLeft(av), av # <<>>
    PROVE  /\ \A q \in 2 .. Len(av) : av[1].end <= av[q].start
           /\ Original(av, 1) \in Extents /\ Len(Trimmed) - Len(av) + 1 \in DOMAIN Trimmed
           /\ Inside(av[1], Original(av, 1)) /\ av[1].end = Original(av, 1).end
<1>1. Trimmed \in Seq(Extents) /\ Ascending(Trimmed)
  BY TrimmedFacts
<1>2. PICK o \in Nat : o = Len(Trimmed) - Len(av) /\ Len(Trimmed) = o + Len(av)
  BY <1>1 DEF AvailableLeft
<1>3. Len(av) \in Nat \ {0} /\ 1 \in 1 .. Len(av) /\ DOMAIN Trimmed = 1 .. Len(Trimmed)
  BY <1>1
<1>4. o + 1 \in DOMAIN Trimmed /\ Original(av, 1) = Trimmed[o + 1]
  BY <1>2, <1>3 DEF Original
<1>5. Inside(av[1], Original(av, 1)) /\ av[1].end = Original(av, 1).end
  BY <1>3 DEF AvailableLeft
<1>6. ASSUME NEW q \in 2 .. Len(av) PROVE av[1].end <= av[q].start
  <2>1. q \in 1 .. Len(av) /\ q # 1 /\ o + q \in DOMAIN Trimmed /\ o + 1 < o + q
    BY <1>2, <1>3
  <2>2. av[q] = Trimmed[o + q]
    BY <1>2, <2>1 DEF AvailableLeft, Original
  <2>3. Trimmed[o + 1].end <= Trimmed[o + q].start
    BY <1>1, <1>4, <2>1 DEF Ascending
  <2>. QED
    BY <1>4, <1>5, <2>2, <2>3
<1>7. Original(av, 1) \in Extents
  BY <1>1, <1>4
<1>. QED
  BY <1>2, <1>4, <1>5, <1>6, <1>7
(* A reserved region may go once nothing in the queue is in it. *)
LEMMA DropReserved ==
    ASSUME GoodMachine(in), NEW av \in Seq(Extents), NEW rs \in Seq(Extents), NEW fr \in Seq(Extents),
           Queues(av, rs, fr), rs # <<>>,
           ~Spanning => Block(rs[1]) \cap Addresses(av) = {}
    PROVE  Queues(av, Tail(rs), fr)
<1>1. SuffixOf(Tail(rs), in.reserved)
  BY ReservedOrder, SuffixTail DEF Queues
<1>2. ASSUME ~Spanning PROVE Accounted(av, Tail(rs), fr)
  <2>1. Addresses(rs) = Block(rs[1]) \cup Addresses(Tail(rs))
    BY HeadAddresses
  <2>2. Addresses(av) \ Addresses(rs) = Addresses(av) \ Addresses(Tail(rs))
    BY <1>2, <2>1
  <2>. QED
    BY <1>2, <2>2 DEF Queues, Accounted
<1>. QED
  BY <1>1, <1>2 DEF Queues

(* An available region may go once everything in it is reserved. *)
LEMMA DropAvailable ==
    ASSUME GoodMachine(in), NEW av \in Seq(Extents), NEW rs \in Seq(Extents), NEW fr \in Seq(Extents),
           Queues(av, rs, fr), av # <<>>, Block(av[1]) \subseteq Addresses(rs)
    PROVE  Queues(Tail(av), rs, fr) /\ StartsBehind(Tail(av), rs)
<1>1. /\ Tail(av) \in Seq(Extents) /\ Len(av) \in Nat \ {0} /\ Len(Tail(av)) = Len(av) - 1
      /\ \A p \in 1 .. Len(av) - 1 : Tail(av)[p] = av[p + 1]
      /\ Addresses(av) = Block(av[1]) \cup Addresses(Tail(av))
  BY HeadAddresses
<1>2. Trimmed \in Seq(Extents) /\ Len(Trimmed) \in Nat
  BY TrimmedFacts
<1>3. AvailableLeft(av)
  BY DEF Queues
<1>4. ASSUME NEW p \in 1 .. Len(av) - 1
      PROVE  Tail(av)[p] = Original(Tail(av), p) /\ Tail(av)[p] \in Extents
  <2>1. p + 1 \in 1 .. Len(av) /\ p + 1 # 1
        /\ Len(Trimmed) - (Len(av) - 1) + p = Len(Trimmed) - Len(av) + (p + 1)
    BY <1>1, <1>2
  <2>2. Original(Tail(av), p) = Original(av, p + 1)
    BY <1>1, <2>1 DEF Original
  <2>3. av[p + 1] = Original(av, p + 1)
    BY <1>3, <2>1 DEF AvailableLeft
  <2>. QED
    BY <1>1, <2>1, <2>2, <2>3
<1>5. AvailableLeft(Tail(av))
  <2>1. \A p \in 1 .. Len(av) - 1 : Inside(Tail(av)[p], Original(Tail(av), p))
    <3>1. \A r \in Extents : Inside(r, r)
      BY DEF Inside, Extents
    <3>. QED
      BY <1>4, <3>1
  <2>2. Len(Tail(av)) <= Len(Trimmed)
    BY <1>1, <1>2, <1>3 DEF AvailableLeft
  <2>. QED
    BY <1>1, <1>4, <2>1, <2>2 DEF AvailableLeft
<1>6. ASSUME ~Spanning PROVE Accounted(Tail(av), rs, fr)
  <2>1. Addresses(av) \ Addresses(rs) = Addresses(Tail(av)) \ Addresses(rs)
    BY <1>1
  <2>. QED
    BY <1>6, <2>1 DEF Queues, Accounted
<1>7. FreeInOrder(Tail(av), fr)
  <2>1. ASSUME NEW p \in 1 .. Len(fr), NEW q \in 1 .. Len(av) - 1
        PROVE  fr[p].end <= Tail(av)[q].start
    <3>1. q + 1 \in 1 .. Len(av)
      BY <1>1
    <3>. QED
      BY <1>1, <3>1 DEF Queues, FreeInOrder
  <2>. QED
    BY <1>1, <2>1 DEF Queues, FreeInOrder
<1>8. StartsBehind(Tail(av), rs)
  <2>1. ASSUME Tail(av) # <<>> PROVE Tail(av)[1] = Original(Tail(av), 1)
    <3>1. 1 \in 1 .. Len(av) - 1
      BY <1>1, <2>1
    <3>. QED
      BY <1>4, <3>1
  <2>. QED
    BY <2>1 DEF StartsBehind
<1>. QED
  BY <1>5, <1>6, <1>7, <1>8 DEF Queues

LEMMA MovedLeft ==
    ASSUME GoodMachine(in), NEW av \in Seq(Extents), AvailableLeft(av), av # <<>>,
           NEW x \in Nat, av[1].start <= x, x <= av[1].end
    PROVE  AvailableLeft([av EXCEPT ![1].start = x])
<1>1. PICK u \in Seq(Extents) :
          /\ u = [av EXCEPT ![1].start = x] /\ u # <<>> /\ Len(u) = Len(av)
          /\ u[1] = Region(x, av[1].end)
          /\ \A j \in 2 .. Len(av) : u[j] = av[j]
  BY MovedHead
<1>2. Len(av) \in Nat \ {0} /\ av[1] \in Extents
  OBVIOUS
<1>3. u[1].start = x /\ u[1].end = av[1].end
  BY <1>1, <1>2, RegionIs DEF Extents
<1>4. \A j \in 1 .. Len(av) : Original(u, j) = Original(av, j)
  BY <1>1 DEF Original
<1>5. ASSUME NEW j \in 2 .. Len(av)
      PROVE  Inside(u[j], Original(u, j)) /\ u[j].end = Original(u, j).end /\ u[j] = Original(u, j)
  <2>1. j \in 1 .. Len(av) /\ j # 1
    BY <1>2
  <2>2. /\ Inside(av[j], Original(av, j)) /\ av[j].end = Original(av, j).end
        /\ av[j] = Original(av, j)
    BY <2>1 DEF AvailableLeft
  <2>3. u[j] = av[j] /\ Original(u, j) = Original(av, j)
    BY <1>1, <1>4, <2>1
  <2>. QED
    BY <2>2, <2>3
<1>6. Inside(u[1], Original(u, 1)) /\ u[1].end = Original(u, 1).end
  <2>1. Inside(av[1], Original(av, 1)) /\ av[1].end = Original(av, 1).end /\ Original(av, 1) \in Extents
    BY AvailableOrder
  <2>2. Original(u, 1) = Original(av, 1)
    BY <1>2, <1>4
  <2>. QED
    BY <1>2, <1>3, <2>1, <2>2 DEF Inside, Extents
<1>7. \A j \in 1 .. Len(av) : j = 1 \/ j \in 2 .. Len(av)
  BY <1>2
<1>8. Len(u) <= Len(Trimmed)
  BY <1>1 DEF AvailableLeft
<1>9. AvailableLeft(u)
  BY <1>1, <1>5, <1>6, <1>7, <1>8 DEF AvailableLeft
<1>. QED
  BY <1>1, <1>9

(* The start of the first region may move over what is reserved. *)
LEMMA MoveStart ==
    ASSUME GoodMachine(in), NEW av \in Seq(Extents), NEW rs \in Seq(Extents), NEW fr \in Seq(Extents),
           Queues(av, rs, fr), av # <<>>,
           NEW x \in Nat, av[1].start <= x, x <= av[1].end,
           av[1].start .. x - 1 \subseteq Addresses(rs)
    PROVE  Queues([av EXCEPT ![1].start = x], rs, fr)
<1>1. PICK t \in Seq(Extents) :
          /\ t = [av EXCEPT ![1].start = x] /\ t # <<>> /\ Len(t) = Len(av)
          /\ t[1] = Region(x, av[1].end)
          /\ \A j \in 2 .. Len(av) : t[j] = av[j]
          /\ Tail(t) = Tail(av)
  BY MovedHead
<1>2. Len(av) \in Nat \ {0} /\ av[1] \in Extents
  OBVIOUS
<1>3. t[1].start = x /\ t[1].end = av[1].end
  BY <1>1, <1>2, RegionIs DEF Extents
<1>4. \A j \in 1 .. Len(av) : j = 1 \/ j \in 2 .. Len(av)
  BY <1>2
<1>5. AvailableLeft(t)
  BY <1>1, MovedLeft DEF Queues
<1>6. ASSUME ~Spanning PROVE Accounted(t, rs, fr)
  <2>1. Addresses(av) = Block(av[1]) \cup Addresses(Tail(av))
    BY HeadAddresses
  <2>2. Addresses(t) = Block(t[1]) \cup Addresses(Tail(av))
    BY <1>1, HeadAddresses
  <2>3. Block(av[1]) = (av[1].start .. x - 1) \cup Block(t[1])
    <3>1. PICK a \in Nat, b \in Nat : a = av[1].start /\ b = av[1].end /\ a <= x /\ x <= b
      BY <1>2 DEF Extents
    <3>2. a .. b - 1 = (a .. x - 1) \cup (x .. b - 1)
      BY <3>1
    <3>. QED
      BY <1>3, <3>1, <3>2 DEF Block
  <2>4. Addresses(av) \ Addresses(rs) = Addresses(t) \ Addresses(rs)
    BY <2>1, <2>2, <2>3
  <2>. QED
    BY <1>6, <2>4 DEF Queues, Accounted
<1>7. FreeInOrder(t, fr)
  <2>1. ASSUME NEW p \in 1 .. Len(fr) PROVE fr[p].end <= t[1].start
    <3>1. fr[p].end <= av[1].start /\ fr[p] \in Extents
      BY <1>2 DEF Queues, FreeInOrder
    <3>. QED
      BY <1>2, <1>3, <3>1, SMTT(60) DEF Extents
  <2>2. \A p \in 1 .. Len(fr) : \A q \in 2 .. Len(av) : fr[p].end <= t[q].start
    BY <1>1, <1>2 DEF Queues, FreeInOrder
  <2>3. \A p \in 1 .. Len(fr) : \A q \in 1 .. Len(t) : fr[p].end <= t[q].start
    BY <1>1, <1>4, <2>1, <2>2
  <2>. QED
    BY <2>3 DEF Queues, FreeInOrder
<1>. QED
  BY <1>1, <1>5, <1>6, <1>7 DEF Queues
LEMMA MovedTwice ==
    ASSUME NEW s \in Seq(Extents), s # <<>>, NEW a \in Nat, NEW b \in Nat
    PROVE  [[s EXCEPT ![1].start = a] EXCEPT ![1].start = b] = [s EXCEPT ![1].start = b]
<1>1. 1 \in DOMAIN s
  OBVIOUS
<1>2. s[1] \in [start : Nat, end : Nat]
  BY <1>1 DEF Extents
<1>3. [[s[1] EXCEPT !.start = a] EXCEPT !.start = b] = [s[1] EXCEPT !.start = b]
  BY <1>2
<1>. QED
  BY <1>1, <1>3

(* The first bytes of the first region are free if none is reserved. *)
LEMMA TakeFirst ==
    ASSUME GoodMachine(in), NEW av \in Seq(Extents), NEW rs \in Seq(Extents), NEW fr \in Seq(Extents),
           Queues(av, rs, fr), av # <<>>,
           NEW x \in Nat, av[1].start <= x, x <= av[1].end,
           (av[1].start .. x - 1) \cap Addresses(rs) = {}
    PROVE  /\ Queues([av EXCEPT ![1].start = x], rs, Append(fr, Region(av[1].start, x)))
           /\ Append(fr, Region(av[1].start, x)) \in Seq(Extents)
<1>1. PICK u \in Seq(Extents) :
          /\ u = [av EXCEPT ![1].start = x] /\ u # <<>> /\ Len(u) = Len(av)
          /\ u[1] = Region(x, av[1].end)
          /\ \A j \in 2 .. Len(av) : u[j] = av[j]
          /\ Tail(u) = Tail(av)
  BY MovedHead
<1>2. Len(av) \in Nat \ {0} /\ av[1] \in Extents
  OBVIOUS
<1>3. u[1].start = x /\ u[1].end = av[1].end
  BY <1>1, <1>2, RegionIs DEF Extents
<1>4. \A j \in 1 .. Len(av) : j = 1 \/ j \in 2 .. Len(av)
  BY <1>2
<1>5. PICK c \in Extents : c = Region(av[1].start, x) /\ c.start = av[1].start /\ c.end = x
  BY <1>2, RegionIs DEF Extents
<1>6. PICK g \in Seq(Extents) :
          /\ g = Append(fr, c) /\ Len(g) = Len(fr) + 1
          /\ \A j \in 1 .. Len(fr) : g[j] = fr[j]
          /\ g[Len(fr) + 1] = c
          /\ Addresses(g) = Addresses(fr) \cup Block(c)
  BY AppendedAddresses
<1>7. AvailableLeft(u)
  BY <1>1, MovedLeft DEF Queues
<1>8. ASSUME ~Spanning PROVE Accounted(u, rs, g)
  <2>1. Addresses(av) = Block(av[1]) \cup Addresses(Tail(av))
    BY HeadAddresses
  <2>2. Addresses(u) = Block(u[1]) \cup Addresses(Tail(av))
    BY <1>1, HeadAddresses
  <2>3. Block(av[1]) = Block(c) \cup Block(u[1]) /\ Block(c) \cap Addresses(rs) = {}
    <3>1. PICK a \in Nat, b \in Nat : a = av[1].start /\ b = av[1].end /\ a <= x /\ x <= b
      BY <1>2 DEF Extents
    <3>2. a .. b - 1 = (a .. x - 1) \cup (x .. b - 1)
      BY <3>1, SMTT(60)
    <3>. QED
      BY <1>3, <1>5, <3>1, <3>2 DEF Block
  <2>4. Addresses(fr) \cup (Addresses(av) \ Addresses(rs)) = Addresses(g) \cup (Addresses(u) \ Addresses(rs))
    BY <1>6, <2>1, <2>2, <2>3
  <2>. QED
    BY <1>8, <2>4 DEF Queues, Accounted
<1>9. FreeInOrder(u, g)
  <2>1. FreeInOrder(av, fr) /\ AvailableLeft(av)
    BY DEF Queues
  <2>2. Len(fr) \in Nat /\ DOMAIN fr = 1 .. Len(fr) /\ DOMAIN g = 1 .. Len(fr) + 1
    BY <1>6
  <2>3. \A j \in 1 .. Len(fr) + 1 : j \in 1 .. Len(fr) \/ j = Len(fr) + 1
    BY <2>2
  <2>4. ASSUME NEW p \in 1 .. Len(fr) PROVE fr[p].end <= c.start /\ fr[p].end <= x /\ fr[p] \in Extents
    <3>1. fr[p].end <= av[1].start /\ fr[p] \in Extents
      BY <1>2, <2>1 DEF FreeInOrder
    <3>. QED
      BY <1>2, <1>5, <3>1, SMTT(60) DEF Extents
  <2>5. Ascending(g)
    <3>1. ASSUME NEW p \in 1 .. Len(fr) + 1, NEW q \in 1 .. Len(fr) + 1, p < q
          PROVE  g[p].end <= g[q].start
      <4>1. p \in 1 .. Len(fr) /\ g[p] = fr[p]
        BY <1>6, <2>2, <3>1
      <4>2. CASE q \in 1 .. Len(fr)
        BY <1>6, <2>1, <2>2, <3>1, <4>1, <4>2 DEF FreeInOrder, Ascending
      <4>3. CASE q = Len(fr) + 1
        BY <1>6, <2>4, <4>1, <4>3
      <4>. QED
        BY <2>3, <4>2, <4>3
    <3>. QED
      BY <2>2, <3>1 DEF Ascending
  <2>6. ASSUME NEW q \in 1 .. Len(av) PROVE c.end <= u[q].start /\ \A p \in 1 .. Len(fr) : fr[p].end <= u[q].start
    <3>1. CASE q = 1
      BY <1>3, <1>5, <2>4, <3>1
    <3>2. CASE q \in 2 .. Len(av)
      <4>1. av[1].end <= av[q].start
        BY <2>1, <3>2, AvailableOrder
      <4>2. av[q] \in Extents /\ u[q] = av[q]
        BY <1>1, <3>2
      <4>3. c.end <= u[q].start
        BY <1>2, <1>5, <4>1, <4>2, SMTT(60) DEF Extents
      <4>4. \A p \in 1 .. Len(fr) : fr[p].end <= u[q].start
        BY <2>1, <4>2 DEF FreeInOrder
      <4>. QED
        BY <4>3, <4>4
    <3>. QED
      BY <1>4, <3>1, <3>2
  <2>7. \E q \in DOMAIN Trimmed : Inside(c, Trimmed[q])
    <3>1. PICK o \in DOMAIN Trimmed : Original(av, 1) = Trimmed[o]
      BY <2>1, AvailableOrder DEF Original
    <3>2. Inside(av[1], Original(av, 1)) /\ Original(av, 1) \in Extents
      BY <2>1, AvailableOrder
    <3>3. Inside(c, Trimmed[o])
      BY <1>2, <1>5, <3>1, <3>2 DEF Inside, Extents
    <3>. QED
      BY <3>3
  <2>8. ASSUME NEW p \in 1 .. Len(fr) + 1
        PROVE  /\ \A q \in 1 .. Len(u) : g[p].end <= u[q].start
               /\ \E q \in DOMAIN Trimmed : Inside(g[p], Trimmed[q])
    <3>1. CASE p \in 1 .. Len(fr)
      BY <1>1, <1>6, <2>1, <2>6, <3>1 DEF FreeInOrder
    <3>2. CASE p = Len(fr) + 1
      BY <1>1, <1>6, <2>6, <2>7, <3>2
    <3>. QED
      BY <2>3, <3>1, <3>2
  <2>. QED
    BY <1>6, <2>5, <2>8 DEF FreeInOrder
<1>. QED
  BY <1>1, <1>5, <1>6, <1>7, <1>8, <1>9 DEF Queues
LEMMA BehindTail ==
    ASSUME NEW av \in Seq(Extents), NEW rs \in Seq(Extents), StartsBehind(av, rs), rs # <<>>
    PROVE  StartsBehind(av, Tail(rs))
<1>1. /\ Len(rs) \in Nat \ {0} /\ Len(Tail(rs)) = Len(rs) - 1
      /\ \A p \in 1 .. Len(rs) - 1 : Tail(rs)[p] = rs[p + 1]
  BY HeadAddresses
<1>2. \A p \in 1 .. Len(rs) - 1 : p + 1 \in 1 .. Len(rs)
  BY <1>1
<1>. QED
  BY <1>1, <1>2 DEF StartsBehind

(* What is left of the reserved regions is reserved. *)
LEMMA SuffixReserved ==
    ASSUME GoodMachine(in), NEW rs \in Seq(Extents), SuffixOf(rs, in.reserved), NEW p \in 1 .. Len(rs)
    PROVE  rs[p] \in Range(in.reserved) /\ Block(rs[p]) \subseteq Addresses(in.reserved)
<1>1. PICK t \in Seq(Extents) : t = in.reserved
  BY DEF GoodMachine
<1>2. PICK q \in 1 .. Len(t) : rs[p] = t[q]
  <2>1. Len(t) - Len(rs) + p \in 1 .. Len(t)
    BY <1>1 DEF SuffixOf
  <2>. QED
    BY <1>1, <2>1 DEF SuffixOf
<1>3. Block(t[q]) \subseteq Addresses(t)
  BY InAddresses
<1>. QED
  BY <1>1, <1>2, <1>3 DEF Range

(* The queues as init_freemem has them at the start of a round. *)
FreememInv ==
    /\ in \in Inputs
    /\ available \in Seq(Extents) /\ reserved \in Seq(Extents) /\ freemem \in Seq(Extents)
    /\ Queues(available, reserved, freemem)
    /\ StartsBehind(available, reserved)

LEMMA RestFacts ==
    ASSUME FreememInv, reserved # <<>>
    PROVE  /\ GoodMachine(in)
           /\ Rest \in Seq(Extents)
           /\ Queues(available, Rest, freemem) /\ StartsBehind(available, Rest)
           /\ Rest # <<>> => /\ R = Rest[1] /\ R \in Extents /\ R.start < R.end
                             /\ Tail(Rest) \in Seq(Extents)
                             /\ \A p \in 1 .. Len(Tail(Rest)) : R.end <= Tail(Rest)[p].start
                             /\ \A p \in 1 .. Len(Rest) : R.start <= Rest[p].start
                             /\ Block(R) \subseteq Addresses(Rest)
                             /\ Block(R) \subseteq Addresses(in.reserved)
<1>1. GoodMachine(in)
  BY InputsAssumption DEF FreememInv
<1>2. PICK rs \in Seq(Extents), av \in Seq(Extents), fr \in Seq(Extents), t \in Seq(Extents) :
          /\ rs = reserved /\ rs # <<>> /\ av = available /\ fr = freemem /\ t = in.reserved
          /\ Queues(av, rs, fr) /\ StartsBehind(av, rs)
  BY <1>1, ReservedOrder DEF FreememInv
<1>3. /\ Head(rs) = rs[1] /\ Head(rs) \in Extents /\ Tail(rs) \in Seq(Extents)
      /\ Len(rs) \in Nat \ {0} /\ Len(Tail(rs)) = Len(rs) - 1
      /\ \A j \in 1 .. Len(rs) - 1 : Tail(rs)[j] = rs[j + 1]
  BY <1>2, HeadAddresses
<1>4. Rest = IF rs[1].start = rs[1].end THEN Tail(rs) ELSE rs
  BY <1>2, <1>3 DEF Rest
<1>5. PICK ls \in Seq(Extents) : ls = Rest
  BY <1>3, <1>4
<1>6. Queues(av, ls, fr) /\ StartsBehind(av, ls)
  <2>1. CASE rs[1].start = rs[1].end
    <3>1. ls = Tail(rs)
      BY <1>4, <1>5, <2>1
    <3>2. Block(rs[1]) = {}
      BY <1>3, <2>1 DEF Block, Extents
    <3>. QED
      BY <1>1, <1>2, <3>1, <3>2, DropReserved, BehindTail
  <2>2. CASE rs[1].start # rs[1].end
    BY <1>2, <1>4, <1>5, <2>2
  <2>. QED
    BY <2>1, <2>2
<1>7. SuffixOf(ls, t) /\ Ascending(t) /\ SuffixOf(rs, t)
  BY <1>1, <1>2, <1>6, ReservedOrder DEF Queues
<1>8. Ascending(ls)
  BY <1>7, SuffixAscending
<1>9. ASSUME ls # <<>>
      PROVE  /\ R = ls[1] /\ R \in Extents /\ R.start < R.end
             /\ Tail(ls) \in Seq(Extents)
             /\ \A p \in 1 .. Len(Tail(ls)) : R.end <= Tail(ls)[p].start
             /\ \A p \in 1 .. Len(ls) : R.start <= ls[p].start
             /\ Block(R) \subseteq Addresses(ls)
             /\ Block(R) \subseteq Addresses(in.reserved)
  <2>1. /\ Head(ls) = ls[1] /\ Head(ls) \in Extents /\ Tail(ls) \in Seq(Extents)
        /\ Len(ls) \in Nat \ {0} /\ Len(Tail(ls)) = Len(ls) - 1
        /\ \A j \in 1 .. Len(ls) - 1 : Tail(ls)[j] = ls[j + 1]
        /\ Addresses(ls) = Block(ls[1]) \cup Addresses(Tail(ls))
    BY <1>9, HeadAddresses
  <2>2. PICK r \in Extents : r = R /\ r = ls[1]
    BY <1>5, <2>1 DEF R
  <2>3. r.start < r.end
    <3>1. CASE rs[1].start = rs[1].end
      <4>1. ls = Tail(rs) /\ 1 \in 1 .. Len(rs) - 1
        BY <1>3, <1>4, <1>5, <2>1, <3>1
      <4>2. r = rs[2] /\ 2 \in 1 .. Len(rs) /\ 1 \in 1 .. Len(rs)
        BY <1>3, <2>2, <4>1
      <4>3. PICK o \in Nat : o = Len(t) - Len(rs) /\ Len(t) = o + Len(rs)
        <5>1. Len(rs) <= Len(t) /\ Len(t) \in Nat /\ Len(rs) \in Nat
          BY <1>3, <1>7 DEF SuffixOf
        <5>2. Len(t) - Len(rs) \in Nat /\ Len(t) = (Len(t) - Len(rs)) + Len(rs)
          BY <5>1
        <5>. QED
          BY <5>2
      <4>4. /\ rs[1] = t[o + 1] /\ rs[2] = t[o + 2] /\ o + 1 # o + 2
            /\ o + 1 \in DOMAIN t /\ o + 2 \in DOMAIN t
        BY <1>7, <4>2, <4>3 DEF SuffixOf
      <4>5. t[o + 2].start # t[o + 2].end
        <5>1. \A x, y \in DOMAIN t : t[x].start = t[x].end /\ t[y].start = t[y].end => x = y
          BY <1>1, <1>2, Zenon DEF GoodMachine
        <5>. QED
          BY <3>1, <4>4, <5>1
      <4>. QED
        BY <4>2, <4>4, <4>5 DEF Extents
    <3>2. CASE rs[1].start # rs[1].end
      BY <1>4, <1>5, <2>2, <3>2 DEF Extents
    <3>. QED
      BY <3>1, <3>2
  <2>4. DOMAIN ls = 1 .. Len(ls) /\ 1 \in 1 .. Len(ls)
    BY <2>1
  <2>5. ASSUME NEW p \in 2 .. Len(ls) PROVE r.end <= ls[p].start /\ r.start <= ls[p].start
    <3>1. p \in 1 .. Len(ls) /\ 1 < p /\ ls[p] \in Extents
      BY <2>1
    <3>2. ls[1].end <= ls[p].start
      BY <1>8, <2>4, <3>1 DEF Ascending
    <3>. QED
      BY <2>2, <3>1, <3>2 DEF Extents
  <2>6. \A p \in 1 .. Len(ls) - 1 : p + 1 \in 2 .. Len(ls)
    BY <2>1
  <2>7. \A p \in 1 .. Len(ls) : p = 1 \/ p \in 2 .. Len(ls)
    BY <2>1
  <2>8. r.start <= r.start
    BY DEF Extents
  <2>9. \A p \in 1 .. Len(Tail(ls)) : r.end <= Tail(ls)[p].start
    BY <2>1, <2>5, <2>6
  <2>10. \A p \in 1 .. Len(ls) : r.start <= ls[p].start
    BY <2>2, <2>5, <2>7, <2>8
  <2>11. Block(r) \subseteq Addresses(in.reserved)
    BY <1>1, <1>2, <1>7, <2>2, <2>4, SuffixReserved
  <2>. QED
    BY <2>1, <2>2, <2>3, <2>9, <2>10, <2>11
<1>. QED
  BY <1>1, <1>2, <1>5, <1>6, <1>9
(* Nothing in the queue is before a, if the first region is not. *)
LEMMA NothingBefore ==
    ASSUME GoodMachine(in), NEW av \in Seq(Extents), AvailableLeft(av), av # <<>>,
           NEW a \in Nat, a <= av[1].start, NEW r \in Extents, r.end <= a
    PROVE  Block(r) \cap Addresses(av) = {}
<1>1. SUFFICES ASSUME NEW c, c \in Block(r), c \in Addresses(av) PROVE FALSE
  OBVIOUS
<1>2. PICK q \in 1 .. Len(av) : c \in Block(av[q])
  BY <1>1, InAddresses
<1>3. c \in Int /\ c < r.end /\ av[q].start <= c /\ av[q] \in Extents
  BY <1>1, <1>2 DEF Block, Extents
<1>4. av[1].start <= av[q].start
  <2>1. CASE q = 1
    BY <1>3, <2>1 DEF Extents
  <2>2. CASE q # 1
    <3>1. q \in 2 .. Len(av) /\ av[1] \in Extents
      BY <2>2
    <3>2. av[1].end <= av[q].start
      BY <3>1, AvailableOrder
    <3>. QED
      BY <1>3, <3>1, <3>2 DEF Extents
  <2>. QED
    BY <2>1, <2>2
<1>5. av[1] \in Extents
  OBVIOUS
<1>. QED
  BY <1>3, <1>4, <1>5 DEF Extents

(* Nothing before the first reserved region is reserved. *)
LEMMA NothingReservedBefore ==
    ASSUME NEW rs \in Seq(Extents), NEW b \in Nat, NEW a \in Nat,
           \A p \in 1 .. Len(rs) : b <= rs[p].start
    PROVE  (a .. b - 1) \cap Addresses(rs) = {}
<1>1. SUFFICES ASSUME NEW c, c \in a .. b - 1, c \in Addresses(rs) PROVE FALSE
  OBVIOUS
<1>2. PICK q \in 1 .. Len(rs) : c \in Block(rs[q])
  BY <1>1, InAddresses
<1>3. rs[q] \in Extents /\ b <= rs[q].start
  OBVIOUS
<1>. QED
  BY <1>1, <1>2, <1>3 DEF Block, Extents

LEMMA SkipAvailableInv ==
    ASSUME FreememInv, SkipAvailable
    PROVE  /\ available' \in Seq(Extents) /\ reserved' \in Seq(Extents) /\ freemem' \in Seq(Extents)
           /\ Queues(available', reserved', freemem') /\ StartsBehind(available', reserved')
<1>1. /\ available # <<>> /\ reserved # <<>> /\ A.start >= A.end
      /\ available' = Tail(available) /\ reserved' = Rest /\ freemem' = freemem
  BY DEF SkipAvailable, Round
<1>2. GoodMachine(in) /\ Rest \in Seq(Extents) /\ Queues(available, Rest, freemem)
  BY <1>1, RestFacts
<1>3. PICK av \in Seq(Extents), rs \in Seq(Extents), fr \in Seq(Extents) :
          /\ av = available /\ rs = Rest /\ fr = freemem /\ Queues(av, rs, fr)
  BY <1>2 DEF FreememInv
<1>4. A = av[1] /\ av[1] \in Extents /\ Tail(av) \in Seq(Extents)
  BY <1>1, <1>3, HeadAddresses DEF A
<1>5. Block(av[1]) = {}
  BY <1>1, <1>4 DEF Block, Extents
<1>6. Queues(Tail(av), rs, fr) /\ StartsBehind(Tail(av), rs)
  BY <1>1, <1>2, <1>3, <1>5, DropAvailable
<1>. QED
  BY <1>1, <1>3, <1>4, <1>6

LEMMA SkipReservedInv ==
    ASSUME FreememInv, SkipReserved
    PROVE  /\ available' \in Seq(Extents) /\ reserved' \in Seq(Extents) /\ freemem' \in Seq(Extents)
           /\ Queues(available', reserved', freemem') /\ StartsBehind(available', reserved')
<1>1. /\ available # <<>> /\ reserved # <<>> /\ Rest # <<>> /\ R.end <= A.start
      /\ available' = available /\ reserved' = Tail(Rest) /\ freemem' = freemem
  BY DEF SkipReserved, Compare, Round
<1>2. /\ GoodMachine(in) /\ Rest \in Seq(Extents)
      /\ Queues(available, Rest, freemem) /\ StartsBehind(available, Rest)
      /\ R = Rest[1] /\ R \in Extents /\ Tail(Rest) \in Seq(Extents)
  BY <1>1, RestFacts
<1>3. PICK av \in Seq(Extents), rs \in Seq(Extents), fr \in Seq(Extents) :
          /\ av = available /\ rs = Rest /\ fr = freemem
          /\ Queues(av, rs, fr) /\ StartsBehind(av, rs) /\ AvailableLeft(av)
  BY <1>2 DEF FreememInv, Queues
<1>4. A = av[1] /\ av[1] \in Extents /\ av # <<>> /\ rs # <<>> /\ rs[1] = R /\ rs[1] \in Extents
  BY <1>1, <1>2, <1>3, HeadAddresses DEF A
<1>5. Block(rs[1]) \cap Addresses(av) = {}
  <2>1. PICK a \in Nat : a = av[1].start /\ a <= av[1].start /\ rs[1].end <= a
    BY <1>1, <1>4, SMTT(60) DEF Extents
  <2>. QED
    BY <1>2, <1>3, <1>4, <2>1, NothingBefore
<1>6. Queues(av, Tail(rs), fr) /\ StartsBehind(av, Tail(rs))
  BY <1>2, <1>3, <1>4, <1>5, DropReserved, BehindTail
<1>. QED
  BY <1>1, <1>2, <1>3, <1>6

LEMMA TakeRegionInv ==
    ASSUME FreememInv, TakeRegion
    PROVE  /\ available' \in Seq(Extents) /\ reserved' \in Seq(Extents) /\ freemem' \in Seq(Extents)
           /\ Queues(available', reserved', freemem') /\ StartsBehind(available', reserved')
<1>1. /\ available # <<>> /\ reserved # <<>> /\ Rest # <<>> /\ R.start >= A.end
      /\ available' = Tail(available) /\ reserved' = Rest /\ freemem' = Append(freemem, A)
  BY DEF TakeRegion, Compare, Round
<1>2. /\ GoodMachine(in) /\ Rest \in Seq(Extents)
      /\ Queues(available, Rest, freemem) /\ R \in Extents
      /\ \A p \in 1 .. Len(Rest) : R.start <= Rest[p].start
  BY <1>1, RestFacts
<1>3. PICK av \in Seq(Extents), rs \in Seq(Extents), fr \in Seq(Extents) :
          av = available /\ rs = Rest /\ fr = freemem /\ Queues(av, rs, fr)
  BY <1>2 DEF FreememInv
<1>4. A = av[1] /\ av[1] \in Extents /\ av # <<>> /\ Tail(av) \in Seq(Extents)
  BY <1>1, <1>3, HeadAddresses DEF A
<1>5. PICK a \in Nat, x \in Nat : a = av[1].start /\ x = av[1].end /\ a <= x /\ av[1] = Region(a, x)
  BY <1>4 DEF Extents, Region
<1>6. (a .. x - 1) \cap Addresses(rs) = {}
  <2>1. \A p \in 1 .. Len(rs) : x <= rs[p].start
    <3>1. PICK y \in Nat : y = R.start /\ x <= y
      BY <1>1, <1>2, <1>4, <1>5 DEF Extents
    <3>2. \A p \in 1 .. Len(rs) : y <= rs[p].start /\ rs[p].start \in Nat
      BY <1>2, <1>3, <3>1 DEF Extents
    <3>. QED
      BY <3>1, <3>2
  <2>. QED
    BY <2>1, NothingReservedBefore
<1>7. PICK g \in Seq(Extents) : g = Append(fr, av[1]) /\ Queues([av EXCEPT ![1].start = x], rs, g)
  <2>1. /\ Queues([av EXCEPT ![1].start = x], rs, Append(fr, Region(av[1].start, x)))
        /\ Append(fr, Region(av[1].start, x)) \in Seq(Extents)
    <3>1. av[1].start <= x /\ x <= av[1].end /\ (av[1].start .. x - 1) \cap Addresses(rs) = {}
      BY <1>5, <1>6
    <3>. QED
      BY <1>2, <1>3, <1>4, <3>1, TakeFirst
  <2>. QED
    BY <1>5, <2>1
<1>8. PICK u \in Seq(Extents) : /\ u = [av EXCEPT ![1].start = x] /\ u # <<>>
                               /\ Tail(u) = Tail(av) /\ u[1] = Region(x, x)
  <2>1. x <= av[1].end
    BY <1>5
  <2>2. \E u \in Seq(Extents) : /\ u = [av EXCEPT ![1].start = x] /\ u # <<>>
                                /\ Tail(u) = Tail(av) /\ u[1] = Region(x, av[1].end)
    BY <1>4, <2>1, MovedHead
  <2>. QED
    BY <1>5, <2>2
<1>9. Block(u[1]) = {}
  BY <1>8 DEF Block, Region
<1>10. Queues(Tail(av), rs, g) /\ StartsBehind(Tail(av), rs)
  BY <1>2, <1>7, <1>8, <1>9, DropAvailable
<1>. QED
  BY <1>1, <1>3, <1>4, <1>7, <1>10
(* A reserved region that takes the start of the first available one goes  *)
(* on into a later one only in the case that Spanning describes.           *)
LEMMA SpanningFound ==
    ASSUME GoodMachine(in), NEW av \in Seq(Extents), NEW rs \in Seq(Extents), av # <<>>, rs # <<>>,
           SuffixOf(rs, in.reserved), AvailableLeft(av), StartsBehind(av, rs),
           rs[1].end > av[1].start, rs[1].start < av[1].end, rs[1].start <= av[1].start,
           NEW q \in 2 .. Len(av), av[q].start < rs[1].end
    PROVE  Spanning
<1>1. av[1] \in Extents /\ rs[1] \in Extents /\ 1 \in 1 .. Len(rs)
  OBVIOUS
<1>2. rs[1] \in Range(in.reserved)
  BY <1>1, SuffixReserved
<1>3. Trimmed \in Seq(Extents)
  BY TrimmedFacts
<1>4. PICK o \in Nat : o = Len(Trimmed) - Len(av) /\ Len(Trimmed) = o + Len(av)
  <2>1. Len(av) <= Len(Trimmed) /\ Len(av) \in Nat /\ Len(Trimmed) \in Nat
    BY <1>3 DEF AvailableLeft
  <2>2. Len(Trimmed) - Len(av) \in Nat /\ Len(Trimmed) = (Len(Trimmed) - Len(av)) + Len(av)
    BY <2>1
  <2>. QED
    BY <2>2
<1>5. /\ o + 1 \in DOMAIN Trimmed /\ o + q \in DOMAIN Trimmed /\ o + 1 < o + q
      /\ q \in 1 .. Len(av) /\ q # 1 /\ 1 \in 1 .. Len(av)
  BY <1>3, <1>4
<1>6. PICK x \in Extents : x = Trimmed[o + 1] /\ x = Original(av, 1) /\ Inside(av[1], x) /\ av[1].end = x.end
  BY <1>3, <1>4, <1>5 DEF AvailableLeft, Original
<1>7. Trimmed[o + q] = av[q]
  BY <1>4, <1>5 DEF AvailableLeft, Original
<1>8. x.start < rs[1].end /\ rs[1].start < x.end
  BY <1>1, <1>6, SMTT(60) DEF Inside, Extents
<1>9. rs[1].start <= x.start \/ rs[1].start - 1 \in Addresses(in.reserved)
  <2>1. CASE av[1].start = x.start
    BY <2>1
  <2>2. CASE av[1].start # x.start
    <3>1. av[1].start - 1 \in Addresses(in.reserved) /\ av[1].start <= rs[1].start
      BY <1>1, <1>6, <2>2 DEF StartsBehind
    <3>2. av[1].start = rs[1].start
      BY <1>1, <3>1, SMTT(60) DEF Extents
    <3>. QED
      BY <3>1, <3>2
  <2>. QED
    BY <2>1, <2>2
<1>. QED
  BY <1>2, <1>5, <1>6, <1>7, <1>8, <1>9 DEF Spanning

LEMMA TrimStartInv ==
    ASSUME FreememInv, TrimStart
    PROVE  /\ available' \in Seq(Extents) /\ reserved' \in Seq(Extents) /\ freemem' \in Seq(Extents)
           /\ Queues(available', reserved', freemem') /\ StartsBehind(available', reserved')
<1>1. /\ available # <<>> /\ reserved # <<>> /\ Rest # <<>>
      /\ A.start < A.end /\ R.end > A.start /\ R.start < A.end /\ R.start <= A.start
      /\ available' = [available EXCEPT ![1].start = Least(A.end, R.end)]
      /\ reserved' = Tail(Rest) /\ freemem' = freemem
  BY DEF TrimStart, Overlapping, Compare, Round
<1>2. /\ GoodMachine(in) /\ Rest \in Seq(Extents)
      /\ Queues(available, Rest, freemem) /\ StartsBehind(available, Rest)
      /\ R = Rest[1] /\ R \in Extents /\ Tail(Rest) \in Seq(Extents)
      /\ \A p \in 1 .. Len(Tail(Rest)) : R.end <= Tail(Rest)[p].start
      /\ Block(R) \subseteq Addresses(Rest) /\ Block(R) \subseteq Addresses(in.reserved)
  BY <1>1, RestFacts
<1>3. PICK av \in Seq(Extents), rs \in Seq(Extents), fr \in Seq(Extents), r \in Extents :
          /\ av = available /\ rs = Rest /\ fr = freemem /\ r = R /\ rs[1] = r
          /\ Queues(av, rs, fr) /\ StartsBehind(av, rs)
          /\ AvailableLeft(av) /\ SuffixOf(rs, in.reserved)
  BY <1>2 DEF FreememInv, Queues
<1>4. A = av[1] /\ av[1] \in Extents /\ av # <<>> /\ rs # <<>> /\ Len(av) \in Nat \ {0}
  BY <1>1, <1>3, HeadAddresses DEF A
<1>5. PICK a \in Nat, b \in Nat, c \in Nat, d \in Nat :
          /\ a = av[1].start /\ b = av[1].end /\ c = r.start /\ d = r.end
          /\ a < b /\ d > a /\ c < b /\ c <= a
  BY <1>1, <1>3, <1>4 DEF Extents
<1>6. PICK x \in Nat : x = Least(A.end, R.end) /\ a < x /\ x <= b /\ x <= d /\ (x = b \/ x = d)
  <2>1. Least(A.end, R.end) = IF b <= d THEN b ELSE d
    BY <1>3, <1>4, <1>5 DEF Least
  <2>. QED
    BY <1>5, <2>1
<1>7. PICK u \in Seq(Extents) :
          /\ u = [av EXCEPT ![1].start = x] /\ u # <<>> /\ Len(u) = Len(av)
          /\ u[1] = Region(x, av[1].end) /\ \A j \in 2 .. Len(av) : u[j] = av[j]
  <2>1. x <= av[1].end
    BY <1>5, <1>6
  <2>. QED
    BY <1>4, <2>1, MovedHead
<1>8. u[1].start = x /\ u[1].end = b
  BY <1>5, <1>7 DEF Region
<1>9. Block(r) = c .. d - 1
  BY <1>5 DEF Block
<1>10. Queues(u, rs, fr)
  <2>1. av[1].start <= x /\ x <= av[1].end
    BY <1>5, <1>6
  <2>2. av[1].start .. x - 1 \subseteq Block(r)
    <3>1. a .. x - 1 \subseteq c .. d - 1
      BY <1>5, <1>6, SMTT(60)
    <3>. QED
      BY <1>5, <1>9, <3>1
  <2>3. av[1].start .. x - 1 \subseteq Addresses(rs)
    BY <1>2, <1>3, <2>2
  <2>. QED
    BY <1>2, <1>3, <1>4, <1>7, <2>1, <2>3, MoveStart
<1>11. ASSUME ~Spanning PROVE Block(rs[1]) \cap Addresses(u) = {}
  <2>1. SUFFICES ASSUME NEW e, e \in Block(r), e \in Addresses(u) PROVE FALSE
    BY <1>3
  <2>2. e \in Int /\ e < d
    BY <1>9, <2>1
  <2>3. PICK q \in 1 .. Len(u) : e \in Block(u[q])
    BY <2>1, InAddresses
  <2>4. CASE q = 1
    <3>1. e \in x .. b - 1
      BY <1>8, <2>3, <2>4 DEF Block
    <3>. QED
      BY <1>6, <2>2, <3>1
  <2>5. CASE q # 1
    <3>1. q \in 2 .. Len(av) /\ u[q] = av[q] /\ av[q] \in Extents
      BY <1>4, <1>7, <2>5
    <3>2. av[q].start < d
      <4>1. PICK y \in Nat, z \in Nat : y = av[q].start /\ z = av[q].end
        BY <3>1 DEF Extents
      <4>2. e \in y .. z - 1
        BY <2>3, <3>1, <4>1 DEF Block
      <4>. QED
        BY <2>2, <4>1, <4>2
    <3>3. /\ rs[1].end > av[1].start /\ rs[1].start < av[1].end /\ rs[1].start <= av[1].start
          /\ av[q].start < rs[1].end
      BY <1>3, <1>5, <3>2
    <3>4. Spanning
      BY <1>2, <1>3, <1>4, <3>1, <3>3, SpanningFound
    <3>. QED
      BY <1>11, <3>4
  <2>. QED
    BY <2>4, <2>5
<1>12. Queues(u, Tail(rs), fr)
  BY <1>2, <1>4, <1>10, <1>11, DropReserved
<1>13. StartsBehind(u, Tail(rs))
  <2>1. x - 1 \in Block(r)
    BY <1>5, <1>6, <1>9, SMTT(60)
  <2>2. \A p \in 1 .. Len(Tail(rs)) : x <= Tail(rs)[p].start
    <3>1. \A p \in 1 .. Len(Tail(rs)) : d <= Tail(rs)[p].start /\ Tail(rs)[p].start \in Nat
      <4>1. Tail(rs) \in Seq(Extents) /\ \A p \in 1 .. Len(Tail(rs)) : d <= Tail(rs)[p].start
        BY <1>2, <1>3, <1>5
      <4>2. \A p \in 1 .. Len(Tail(rs)) : Tail(rs)[p] \in Extents
        BY <4>1
      <4>. QED
        BY <4>1, <4>2 DEF Extents
    <3>. QED
      BY <1>6, <3>1
  <2>. QED
    BY <1>2, <1>3, <1>8, <2>1, <2>2 DEF StartsBehind
<1>. QED
  BY <1>1, <1>2, <1>3, <1>6, <1>7, <1>12, <1>13
LEMMA TakeChunkInv ==
    ASSUME FreememInv, TakeChunk
    PROVE  /\ available' \in Seq(Extents) /\ reserved' \in Seq(Extents) /\ freemem' \in Seq(Extents)
           /\ Queues(available', reserved', freemem') /\ StartsBehind(available', reserved')
<1>1. /\ available # <<>> /\ reserved # <<>> /\ Rest # <<>>
      /\ R.start < A.end /\ R.start > A.start
      /\ freemem' = Append(freemem, Region(A.start, R.start))
      /\ \/ /\ A.end > R.end
            /\ available' = [available EXCEPT ![1].start = R.end]
            /\ reserved' = Tail(Rest)
         \/ /\ A.end <= R.end
            /\ available' = Tail(available)
            /\ reserved' = Rest
  BY DEF TakeChunk, Overlapping, Compare, Round
<1>2. /\ GoodMachine(in) /\ Rest \in Seq(Extents)
      /\ Queues(available, Rest, freemem)
      /\ R = Rest[1] /\ R \in Extents /\ R.start < R.end /\ Tail(Rest) \in Seq(Extents)
      /\ \A p \in 1 .. Len(Tail(Rest)) : R.end <= Tail(Rest)[p].start
      /\ \A p \in 1 .. Len(Rest) : R.start <= Rest[p].start
      /\ Block(R) \subseteq Addresses(Rest) /\ Block(R) \subseteq Addresses(in.reserved)
  BY <1>1, RestFacts
<1>3. PICK av \in Seq(Extents), rs \in Seq(Extents), fr \in Seq(Extents), r \in Extents :
          /\ av = available /\ rs = Rest /\ fr = freemem /\ r = R /\ rs[1] = r
          /\ Queues(av, rs, fr)
  BY <1>2 DEF FreememInv
<1>4. A = av[1] /\ av[1] \in Extents /\ av # <<>> /\ rs # <<>>
  BY <1>1, <1>3, HeadAddresses DEF A
<1>5. PICK a \in Nat, b \in Nat, c \in Nat, d \in Nat :
          /\ a = av[1].start /\ b = av[1].end /\ c = r.start /\ d = r.end
          /\ a < c /\ c < b /\ c < d
  BY <1>1, <1>2, <1>3, <1>4 DEF Extents
<1>6. Block(r) = c .. d - 1 /\ Block(r) \subseteq Addresses(rs)
  BY <1>2, <1>3, <1>5 DEF Block
<1>7. PICK u \in Seq(Extents) :
          /\ u = [av EXCEPT ![1].start = c] /\ u # <<>>
          /\ u[1] = Region(c, av[1].end) /\ Tail(u) = Tail(av)
  <2>1. c <= av[1].end
    BY <1>5
  <2>. QED
    BY <1>4, <2>1, MovedHead
<1>8. u[1].start = c /\ u[1].end = b
  BY <1>5, <1>7 DEF Region
<1>9. PICK g \in Seq(Extents) : g = freemem' /\ Queues(u, rs, g)
  <2>1. \A p \in 1 .. Len(rs) : c <= rs[p].start
    BY <1>2, <1>3, <1>5
  <2>2. (a .. c - 1) \cap Addresses(rs) = {}
    BY <2>1, NothingReservedBefore
  <2>3. av[1].start <= c /\ c <= av[1].end /\ (av[1].start .. c - 1) \cap Addresses(rs) = {}
    BY <1>5, <2>2
  <2>4. /\ Queues([av EXCEPT ![1].start = c], rs, Append(fr, Region(av[1].start, c)))
        /\ Append(fr, Region(av[1].start, c)) \in Seq(Extents)
    BY <1>2, <1>3, <1>4, <2>3, TakeFirst
  <2>5. freemem' = Append(fr, Region(av[1].start, c))
    BY <1>1, <1>3, <1>4, <1>5
  <2>. QED
    BY <1>7, <2>4, <2>5
<1>10. CASE A.end > R.end
  <2>1. available' = [av EXCEPT ![1].start = d] /\ reserved' = Tail(rs) /\ d < b
    BY <1>1, <1>3, <1>4, <1>5, <1>10
  <2>2. PICK v \in Seq(Extents) :
            v = [u EXCEPT ![1].start = d] /\ v # <<>> /\ v[1] = Region(d, u[1].end)
    <3>1. d <= u[1].end
      BY <1>8, <2>1
    <3>. QED
      BY <1>7, <3>1, MovedHead, ZenonT(60)
  <2>3. v = [av EXCEPT ![1].start = d]
    <3>1. v = [[av EXCEPT ![1].start = c] EXCEPT ![1].start = d]
      BY <1>7, <2>2, Zenon
    <3>2. [[av EXCEPT ![1].start = c] EXCEPT ![1].start = d] = [av EXCEPT ![1].start = d]
      BY <1>4, MovedTwice, ZenonT(60)
    <3>. QED
      BY ONLY <3>1, <3>2, Zenon
  <2>4. v[1].start = d
    BY <2>2 DEF Region
  <2>5. Queues(v, rs, g)
    <3>1. u[1].start <= d /\ d <= u[1].end
      BY <1>5, <1>8, <2>1, SMTT(60)
    <3>2. u[1].start .. d - 1 \subseteq Addresses(rs)
      BY <1>6, <1>8
    <3>. QED
      BY <1>2, <1>7, <1>9, <2>2, <3>1, <3>2, MoveStart, ZenonT(60)
  <2>6. Block(rs[1]) \cap Addresses(v) = {}
    <3>1. d <= v[1].start /\ r.end <= d /\ AvailableLeft(v)
      BY <1>5, <2>4, <2>5 DEF Queues
    <3>. QED
      BY <1>2, <1>3, <2>2, <3>1, NothingBefore
  <2>7. Queues(v, Tail(rs), g)
    BY <1>2, <1>4, <2>5, <2>6, DropReserved
  <2>8. StartsBehind(v, Tail(rs))
    <3>1. d - 1 \in Block(r)
      BY <1>5, <1>6, SMTT(60)
    <3>2. \A p \in 1 .. Len(Tail(rs)) : d <= Tail(rs)[p].start
      BY <1>2, <1>3, <1>5
    <3>. QED
      BY <1>2, <1>3, <2>4, <3>1, <3>2 DEF StartsBehind
  <2>. QED
    BY <1>2, <1>3, <1>9, <2>1, <2>2, <2>3, <2>7, <2>8
<1>11. CASE A.end <= R.end
  <2>1. b <= d
    BY <1>3, <1>4, <1>5, <1>11
  <2>2. available' = Tail(av) /\ reserved' = rs
    <3>1. ~(A.end > R.end)
      BY <1>3, <1>4, <1>5, <2>1
    <3>. QED
      BY <1>1, <1>3, <3>1
  <2>3. Block(u[1]) \subseteq Addresses(rs)
    <3>1. Block(u[1]) = c .. b - 1
      BY <1>8 DEF Block
    <3>2. c .. b - 1 \subseteq c .. d - 1
      BY <2>1
    <3>. QED
      BY <1>6, <3>1, <3>2
  <2>4. Queues(Tail(u), rs, g) /\ StartsBehind(Tail(u), rs)
    BY <1>2, <1>7, <1>9, <2>3, DropAvailable
  <2>5. Tail(u) \in Seq(Extents)
    BY <1>7, HeadAddresses
  <2>. QED
    BY <1>7, <1>9, <2>2, <2>4, <2>5
<1>. QED
  BY <1>3, <1>4, <1>5, <1>10, <1>11
-----------------------------------------------------------------------------
(* create_untypeds_for_region: the size of the next piece. *)

LEMMA GreatestElement ==
    ASSUME NEW n \in Nat, NEW T \in SUBSET (0 .. n), T # {}
    PROVE  Max(T) \in T /\ \A y \in T : y <= Max(T)
<1>. DEFINE D == {n - y : y \in T}
<1>1. \A y \in T : y \in Nat /\ y <= n /\ n - y \in Nat
  OBVIOUS
<1>2. D \in SUBSET Nat /\ D # {}
  BY <1>1
<1>3. PICK z \in D : \A y \in D : z <= y
  <2>. HIDE DEF D
  <2>. QED
    BY <1>2, LeastElement
<1>4. PICK x \in T : z = n - x
  OBVIOUS
<1>5. \A y \in T : x >= y
  BY <1>1, <1>3, <1>4
<1>6. \E w \in T : \A y \in T : w >= y
  BY <1>5
<1>7. Max(T) \in T /\ \A y \in T : Max(T) >= y
  BY <1>6 DEF Max
<1>. QED
  BY <1>1, <1>7

LEMMA SmallestElement ==
    ASSUME NEW T \in SUBSET Nat, T # {}
    PROVE  Min(T) \in T /\ \A y \in T : Min(T) <= y
<1>1. \E w \in T : \A y \in T : w <= y
  BY LeastElement
<1>. QED
  BY <1>1 DEF Min

LEMMA Pow2Smaller ==
    ASSUME NEW b \in Nat, NEW c \in Nat, b <= c
    PROVE  /\ Pow2[b] \in Nat \ {0} /\ Pow2[c] \in Nat \ {0} /\ Pow2[b] <= Pow2[c]
           /\ \A x \in Nat : x % Pow2[c] = 0 => x % Pow2[b] = 0
<1>1. Pow2[b] \in Nat \ {0} /\ Pow2[c] \in Nat \ {0}
  BY Pow2Def
<1>2. c - b \in Nat /\ b + (c - b) = c
  OBVIOUS
<1>3. PICK q \in Nat \ {0} : Pow2[b + (c - b)] = q * Pow2[b]
  BY <1>2, Pow2Divides
<1>4. PICK s \in Nat \ {0}, t \in Nat \ {0} : s = Pow2[b] /\ t = Pow2[c] /\ t = q * s
  BY <1>1, <1>2, <1>3
<1>5. s <= t
  BY <1>4
<1>6. ASSUME NEW x \in Nat, x % t = 0 PROVE x % s = 0
  <2>1. x % (q * s) = 0
    BY <1>4, <1>6
  <2>2. x \in Int
    OBVIOUS
  <2>. QED
    BY <2>1, <2>2, ModDivisor, Zenon
<1>. QED
  BY <1>1, <1>4, <1>5, <1>6

LEMMA FloorBitsFacts ==
    ASSUME NEW n \in Nat \ {0}
    PROVE  /\ FloorBits(n) \in Nat /\ Pow2[FloorBits(n)] <= n
           /\ \A c \in Nat : Pow2[c] <= n => c <= FloorBits(n)
<1>. DEFINE T == {c \in 0 .. n : Pow2[c] <= n}
<1>1. T \in SUBSET (0 .. n) /\ FloorBits(n) = Max(T)
  BY DEF FloorBits
<1>2. 0 \in T
  BY Pow2Def
<1>3. \A c \in Nat : Pow2[c] <= n => c \in T
  <2>1. ASSUME NEW c \in Nat, Pow2[c] <= n PROVE c \in T
    <3>1. c < Pow2[c] /\ Pow2[c] \in Nat
      BY Pow2Above, Pow2Def
    <3>. QED
      BY <2>1, <3>1
  <2>. QED
    BY <2>1
<1>4. \A c \in T : c \in Nat /\ Pow2[c] <= n
  OBVIOUS
<1>. HIDE DEF T
<1>5. Max(T) \in T /\ \A y \in T : y <= Max(T)
  BY <1>1, <1>2, GreatestElement
<1>. QED
  BY <1>1, <1>3, <1>4, <1>5

LEMMA CtzFacts ==
    ASSUME NEW n \in Nat \ {0}
    PROVE  /\ Ctz(n) \in Nat /\ n % Pow2[Ctz(n)] = 0
           /\ \A c \in Nat : n % Pow2[c] = 0 => c <= Ctz(n)
<1>. DEFINE T == {c \in 0 .. n : n % Pow2[c] = 0}
<1>1. T \in SUBSET (0 .. n) /\ Ctz(n) = Max(T)
  BY DEF Ctz
<1>2. 0 \in T
  <2>1. n % 1 = 0
    OBVIOUS
  <2>. QED
    BY <2>1, Pow2Def
<1>3. \A c \in Nat : n % Pow2[c] = 0 => c \in T
  <2>1. ASSUME NEW c \in Nat, n % Pow2[c] = 0 PROVE c \in T
    <3>1. PICK s \in Nat \ {0} : s = Pow2[c] /\ c < s
      BY Pow2Above, Pow2Def
    <3>2. s <= n
      BY <2>1, <3>1, MultipleAtLeast
    <3>. QED
      BY <2>1, <3>1, <3>2
  <2>. QED
    BY <2>1
<1>4. \A c \in T : c \in Nat /\ n % Pow2[c] = 0
  OBVIOUS
<1>. HIDE DEF T
<1>5. Max(T) \in T /\ \A y \in T : y <= Max(T)
  BY <1>1, <1>2, GreatestElement
<1>. QED
  BY <1>1, <1>3, <1>4, <1>5

(* The piece is aligned, fits, and is the largest of that kind. *)
LEMMA SizeBitsFacts ==
    ASSUME NEW r, r.start \in Nat, r.end \in Nat, r.start < r.end
    PROVE  /\ SizeBits(r) \in Nat /\ Pow2[SizeBits(r)] \in Nat \ {0}
           /\ r.start + Pow2[SizeBits(r)] <= r.end
           /\ r.start % Pow2[SizeBits(r)] = 0
           /\ \A c \in Nat : c <= MaxBits /\ r.start + Pow2[c] <= r.end /\ r.start % Pow2[c] = 0
                                => c <= SizeBits(r)
<1>1. PICK a \in Nat, n \in Nat \ {0} : a = r.start /\ n = r.end - r.start /\ r.end = a + n
  OBVIOUS
<1>. DEFINE f == FloorBits(n)
            T == {f, MaxBits} \cup (IF a > 0 THEN {Ctz(a)} ELSE {})
<1>2. f \in Nat /\ Pow2[f] <= n /\ \A c \in Nat : Pow2[c] <= n => c <= f
  BY FloorBitsFacts
<1>3. a > 0 => /\ Ctz(a) \in Nat /\ a % Pow2[Ctz(a)] = 0
               /\ \A c \in Nat : a % Pow2[c] = 0 => c <= Ctz(a)
  BY CtzFacts
<1>4. SizeBits(r) = Min(T)
  BY <1>1 DEF SizeBits
<1>. HIDE DEF f
<1>5. T \in SUBSET Nat /\ f \in T /\ MaxBits \in T /\ (a > 0 => Ctz(a) \in T)
      /\ \A y \in T : y = f \/ y = MaxBits \/ (a > 0 /\ y = Ctz(a))
  BY <1>2, <1>3, BitsAssumption
<1>. HIDE DEF T
<1>6. PICK b \in Nat : b = Min(T) /\ b \in T /\ \A y \in T : b <= y
  BY <1>5, SmallestElement
<1>7. Pow2[b] \in Nat \ {0} /\ Pow2[b] <= n
  <2>1. b <= f /\ f \in Nat
    BY <1>2, <1>5, <1>6
  <2>2. Pow2[b] \in Nat \ {0} /\ Pow2[f] \in Nat \ {0} /\ Pow2[b] <= Pow2[f]
    BY <2>1, Pow2Smaller
  <2>. QED
    BY <1>2, <2>2
<1>8. a % Pow2[b] = 0
  <2>1. CASE a > 0
    <3>1. b <= Ctz(a) /\ Ctz(a) \in Nat /\ a % Pow2[Ctz(a)] = 0
      BY <1>3, <1>5, <1>6, <2>1
    <3>. QED
      BY <3>1, Pow2Smaller
  <2>2. CASE a = 0
    BY <1>7, <2>2, ModSelf
  <2>. QED
    BY <2>1, <2>2
<1>9. ASSUME NEW c \in Nat, c <= MaxBits, a + Pow2[c] <= a + n, a % Pow2[c] = 0 PROVE c <= b
  <2>1. Pow2[c] <= n
    BY <1>9, Pow2Def
  <2>2. c <= f
    BY <1>2, <2>1
  <2>3. a > 0 => c <= Ctz(a)
    BY <1>3, <1>9
  <2>. QED
    BY <1>5, <1>6, <1>9, <2>2, <2>3
<1>10. a + Pow2[b] <= r.end
  BY <1>1, <1>7
<1>. QED
  BY <1>1, <1>4, <1>6, <1>7, <1>8, <1>9, <1>10
-----------------------------------------------------------------------------
(* The cutting of the regions.  l is the list of all of them, rg what is   *)
(* left of it and ut the list of untypeds.                                 *)

Pieces == {r \in [start : Nat, end : Nat, device : BOOLEAN] : r.start <= r.end}
Blocks == [paddr : Nat, size : Nat \ {0}, device : BOOLEAN]

Parted(l) == \A p, q \in 1 .. Len(l) : p # q => Apart(l[p], l[q])

RegionsLeft(l, rg) ==
    /\ Len(rg) <= Len(l)
    /\ \A p \in 1 .. Len(rg) : LET x == l[Len(l) - Len(rg) + p]
                               IN  /\ x.start <= rg[p].start /\ rg[p].end = x.end
                                   /\ p # 1 => rg[p] = x

(* What is before a in region p has been cut. *)
CutBefore(l, rg, p, a) ==
    \/ p <= Len(l) - Len(rg)
    \/ rg # <<>> /\ p = Len(l) - Len(rg) + 1 /\ a <= rg[1].start

UntypedsPlaced(l, rg, ut) ==
    \A x \in 1 .. Len(ut) :
        /\ ut[x].paddr % ut[x].size = 0
        /\ \E p \in 1 .. Len(l) : /\ l[p].start <= ut[x].paddr /\ ut[x].paddr + ut[x].size <= l[p].end
                                  /\ CutBefore(l, rg, p, ut[x].paddr + ut[x].size)

UntypedsApart(ut) ==
    \A x, y \in 1 .. Len(ut) :
        x # y => \/ ut[x].paddr + ut[x].size <= ut[y].paddr
                 \/ ut[y].paddr + ut[y].size <= ut[x].paddr

(* The aligned blocks of the smallest size that is kept. *)
Smallest == Pow2[MinBits + 1]
CoveredBy(ut, a) == \E x \in 1 .. Len(ut) : ut[x].paddr <= a /\ a + Smallest <= ut[x].paddr + ut[x].size
BlocksCovered(l, rg, ut) ==
    \A p \in 1 .. Len(l) : \A a \in Nat :
        a % Smallest = 0 /\ l[p].start <= a /\ a + Smallest <= l[p].end /\ CutBefore(l, rg, p, a + 1)
            => CoveredBy(ut, a)

Cutting(l, rg, ut) ==
    Parted(l) /\ RegionsLeft(l, rg) /\ UntypedsPlaced(l, rg, ut) /\ UntypedsApart(ut)
    /\ BlocksCovered(l, rg, ut)

LEMMA BlocksFacts ==
    ASSUME NEW ut \in Seq(Blocks)
    PROVE  \A x \in 1 .. Len(ut) : /\ ut[x].paddr \in Nat /\ ut[x].size \in Nat \ {0}
                                   /\ ut[x].paddr + ut[x].size \in Nat
<1>1. \A u \in Blocks : u.paddr \in Nat /\ u.size \in Nat \ {0} /\ u.paddr + u.size \in Nat
  BY DEF Blocks
<1>. QED
  BY <1>1

LEMMA SmallestFacts ==
    Smallest \in Nat \ {0} /\ MinBits + 1 \in Nat /\ MinBits + 1 <= MaxBits
<1>1. MinBits + 1 \in Nat /\ MinBits + 1 <= MaxBits
  BY BitsAssumption
<1>. QED
  BY <1>1, Pow2Def DEF Smallest

LEMMA HeadPiece ==
    ASSUME NEW l \in Seq(Pieces), NEW rg \in Seq(Pieces), RegionsLeft(l, rg), rg # <<>>
    PROVE  \E o \in Nat : /\ o = Len(l) - Len(rg) /\ Len(rg) \in Nat \ {0}
                          /\ Len(l) = o + Len(rg) /\ o + 1 \in 1 .. Len(l)
                          /\ rg[1] \in Pieces /\ Head(rg) = rg[1]
                          /\ l[o + 1] \in Pieces /\ l[o + 1].start <= rg[1].start /\ rg[1].end = l[o + 1].end
                          /\ Tail(rg) \in Seq(Pieces) /\ Len(Tail(rg)) = Len(rg) - 1
                          /\ \A p \in 1 .. Len(rg) - 1 : Tail(rg)[p] = rg[p + 1]
<1>1. /\ Len(l) \in Nat /\ Len(rg) \in Nat \ {0} /\ rg[1] \in Pieces /\ Head(rg) = rg[1]
      /\ Tail(rg) \in Seq(Pieces) /\ Len(Tail(rg)) = Len(rg) - 1
  OBVIOUS
<1>2. \A p \in 1 .. Len(rg) - 1 : Tail(rg)[p] = rg[p + 1]
  OBVIOUS
<1>3. Len(rg) <= Len(l) /\ 1 \in 1 .. Len(rg)
  BY <1>1 DEF RegionsLeft
<1>4. PICK o \in Nat : o = Len(l) - Len(rg) /\ Len(l) = o + Len(rg)
  <2>1. Len(l) - Len(rg) \in Nat /\ Len(l) = (Len(l) - Len(rg)) + Len(rg)
    BY <1>1, <1>3
  <2>. QED
    BY <2>1
<1>5. o + 1 \in 1 .. Len(l)
  BY <1>1, <1>4
<1>6. l[o + 1].start <= rg[1].start /\ rg[1].end = l[o + 1].end
  BY <1>3, <1>4 DEF RegionsLeft
<1>7. l[o + 1] \in Pieces
  BY <1>5
<1>. QED
  BY <1>1, <1>2, <1>4, <1>5, <1>6, <1>7

LEMMA NextRegionCut ==
    ASSUME NEW l \in Seq(Pieces), NEW rg \in Seq(Pieces), NEW ut \in Seq(Blocks),
           Cutting(l, rg, ut), rg # <<>>, rg[1].start = rg[1].end
    PROVE  Cutting(l, Tail(rg), ut)
<1>1. RegionsLeft(l, rg)
  BY DEF Cutting
<1>2. PICK o \in Nat : /\ o = Len(l) - Len(rg) /\ Len(rg) \in Nat \ {0} /\ Len(l) = o + Len(rg)
                       /\ rg[1] \in Pieces
                       /\ l[o + 1] \in Pieces /\ rg[1].end = l[o + 1].end
                       /\ Tail(rg) \in Seq(Pieces) /\ Len(Tail(rg)) = Len(rg) - 1
                       /\ \A p \in 1 .. Len(rg) - 1 : Tail(rg)[p] = rg[p + 1]
  BY <1>1, HeadPiece
<1>3. Len(l) - Len(Tail(rg)) = o + 1 /\ Len(Tail(rg)) <= Len(l)
  BY <1>2
<1>4. RegionsLeft(l, Tail(rg))
  <2>1. ASSUME NEW p \in 1 .. Len(rg) - 1
        PROVE  Tail(rg)[p] = l[(o + 1) + p] /\ Tail(rg)[p] \in Pieces
    <3>1. p + 1 \in 1 .. Len(rg) /\ p + 1 # 1 /\ o + (p + 1) = (o + 1) + p
      BY <1>2
    <3>2. rg[p + 1] = l[o + (p + 1)]
      BY <1>1, <1>2, <3>1 DEF RegionsLeft
    <3>. QED
      BY <1>2, <3>1, <3>2
  <2>2. \A r \in Pieces : r.start <= r.start
    BY DEF Pieces
  <2>. QED
    BY <1>2, <1>3, <2>1, <2>2 DEF RegionsLeft
<1>5. UntypedsPlaced(l, Tail(rg), ut)
  <2>1. ASSUME NEW p \in 1 .. Len(l), NEW a \in Nat, CutBefore(l, rg, p, a)
        PROVE  CutBefore(l, Tail(rg), p, a)
    BY <1>2, <1>3, <2>1 DEF CutBefore
  <2>2. \A x \in 1 .. Len(ut) : ut[x].paddr + ut[x].size \in Nat
    BY BlocksFacts
  <2>. QED
    BY <2>1, <2>2 DEF Cutting, UntypedsPlaced
<1>6. BlocksCovered(l, Tail(rg), ut)
  <2>1. ASSUME NEW p \in 1 .. Len(l), NEW a \in Nat, a % Smallest = 0,
               l[p].start <= a, a + Smallest <= l[p].end, CutBefore(l, Tail(rg), p, a + 1)
        PROVE  CutBefore(l, rg, p, a + 1)
    <3>1. PICK s \in Nat \ {0} : s = Smallest
      BY SmallestFacts
    <3>2. CASE p <= o
      BY <1>2, <3>2 DEF CutBefore
    <3>3. CASE p = o + 1
      <4>1. a + 1 <= l[o + 1].end
        BY <2>1, <3>1, <3>3, <1>2 DEF Pieces
      <4>. QED
        BY <1>2, <3>3, <4>1 DEF CutBefore
    <3>4. CASE p > o + 1
      <4>1. Tail(rg) # <<>> /\ p = o + 2 /\ a + 1 <= Tail(rg)[1].start
        BY <1>2, <1>3, <2>1, <3>4, SMTT(60) DEF CutBefore
      <4>2. 1 \in 1 .. Len(Tail(rg)) /\ Tail(rg)[1] = l[(o + 1) + 1]
        <5>1. 1 \in 1 .. Len(Tail(rg))
          BY <1>2, <4>1
        <5>2. 1 + 1 \in 1 .. Len(rg) /\ 1 + 1 # 1 /\ o + (1 + 1) = (o + 1) + 1
          BY <1>2, <5>1
        <5>. QED
          BY <1>1, <1>2, <5>1, <5>2 DEF RegionsLeft
      <4>3. l[p] \in Pieces
        OBVIOUS
      <4>. QED
        <5>1. PICK y \in Nat : y = l[p].start
          BY <4>3 DEF Pieces
        <5>2. Tail(rg)[1] = l[p]
          BY <4>1, <4>2
        <5>3. a + 1 <= y /\ y <= a
          BY <2>1, <4>1, <5>1, <5>2
        <5>. QED
          BY <5>3
    <3>5. p <= o \/ p = o + 1 \/ p > o + 1
      OBVIOUS
    <3>. QED
      BY <3>2, <3>3, <3>4, <3>5
  <2>2. \A p \in 1 .. Len(l) : \A a \in Nat :
            a % Smallest = 0 /\ l[p].start <= a /\ a + Smallest <= l[p].end /\ CutBefore(l, Tail(rg), p, a + 1)
                => CoveredBy(ut, a)
    BY <2>1 DEF Cutting, BlocksCovered
  <2>. QED
    BY <2>2 DEF BlocksCovered
<1>. QED
  BY <1>4, <1>5, <1>6 DEF Cutting
LEMMA MovedPiece ==
    ASSUME NEW rg \in Seq(Pieces), rg # <<>>, NEW w \in Nat, rg[1].start + w <= rg[1].end
    PROVE  \E nrg \in Seq(Pieces) : /\ nrg = [rg EXCEPT ![1].start = @ + w]
                                    /\ nrg # <<>> /\ Len(nrg) = Len(rg)
                                    /\ nrg[1].start = rg[1].start + w /\ nrg[1].end = rg[1].end
                                    /\ \A p \in 2 .. Len(rg) : nrg[p] = rg[p]
<1>. DEFINE nrg == [rg EXCEPT ![1].start = @ + w]
<1>1. Len(rg) \in Nat \ {0} /\ DOMAIN rg = 1 .. Len(rg) /\ 1 \in DOMAIN rg /\ rg[1] \in Pieces
  OBVIOUS
<1>2. rg[1] \in [start : Nat, end : Nat, device : BOOLEAN]
  BY <1>1 DEF Pieces
<1>3. nrg[1] = [rg[1] EXCEPT !.start = rg[1].start + w]
  BY <1>1
<1>4. /\ nrg[1] \in [start : Nat, end : Nat, device : BOOLEAN]
      /\ nrg[1].start = rg[1].start + w /\ nrg[1].end = rg[1].end
  BY <1>2, <1>3
<1>5. nrg[1] \in Pieces
  BY <1>4 DEF Pieces
<1>6. DOMAIN nrg = 1 .. Len(rg) /\ \A p \in 2 .. Len(rg) : nrg[p] = rg[p]
  BY <1>1
<1>7. nrg = [rg EXCEPT ![1].start = @ + w] /\ nrg = [p \in 1 .. Len(rg) |-> nrg[p]]
  BY <1>6
<1>. HIDE DEF nrg
<1>8. \A p \in 1 .. Len(rg) : nrg[p] \in Pieces
  <2>1. \A p \in 1 .. Len(rg) : p = 1 \/ p \in 2 .. Len(rg)
    BY <1>1
  <2>. QED
    BY <1>5, <1>6, <2>1
<1>9. nrg \in [1 .. Len(rg) -> Pieces]
  BY <1>7, <1>8
<1>10. nrg \in Seq(Pieces) /\ Len(nrg) = Len(rg)
  BY <1>1, <1>6, <1>9
<1>11. nrg # <<>>
  BY <1>1, <1>10
<1>. QED
  BY <1>4, <1>6, <1>7, <1>10, <1>11

LEMMA CutPieceCut ==
    ASSUME NEW l \in Seq(Pieces), NEW rg \in Seq(Pieces), NEW ut \in Seq(Blocks),
           Cutting(l, rg, ut), rg # <<>>, rg[1].start # rg[1].end,
           NEW nrg, nrg = [rg EXCEPT ![1].start = @ + Pow2[SizeBits(rg[1])]],
           NEW nut, nut = IF Kept(SizeBits(rg[1]))
                          THEN Append(ut, [paddr |-> rg[1].start, size |-> Pow2[SizeBits(rg[1])],
                                           device |-> rg[1].device])
                          ELSE ut
    PROVE  nrg \in Seq(Pieces) /\ nut \in Seq(Blocks) /\ Cutting(l, nrg, nut)
<1>1. /\ Parted(l) /\ RegionsLeft(l, rg) /\ UntypedsPlaced(l, rg, ut) /\ UntypedsApart(ut)
      /\ BlocksCovered(l, rg, ut)
  BY DEF Cutting
<1>2. PICK o \in Nat : /\ o = Len(l) - Len(rg) /\ Len(rg) \in Nat \ {0} /\ Len(l) = o + Len(rg)
                       /\ o + 1 \in 1 .. Len(l) /\ rg[1] \in Pieces
                       /\ l[o + 1] \in Pieces /\ l[o + 1].start <= rg[1].start /\ rg[1].end = l[o + 1].end
  BY <1>1, HeadPiece
<1>3. PICK s \in Nat, e \in Nat, d \in BOOLEAN :
          s = rg[1].start /\ e = rg[1].end /\ d = rg[1].device /\ s < e
  <2>1. rg[1].start \in Nat /\ rg[1].end \in Nat /\ rg[1].start <= rg[1].end
    BY <1>2 DEF Pieces
  <2>2. rg[1].device \in BOOLEAN
    BY <1>2, Zenon DEF Pieces
  <2>3. rg[1].start < rg[1].end
    BY <2>1
  <2>. QED
    BY <2>1, <2>2, <2>3, Zenon
<1>4. PICK b \in Nat, w \in Nat \ {0} :
          /\ b = SizeBits(rg[1]) /\ w = Pow2[b] /\ s + w <= e /\ s % w = 0
          /\ \A c \in Nat : c <= MaxBits /\ s + Pow2[c] <= e /\ s % Pow2[c] = 0 => c <= b
  <2>1. rg[1].start \in Nat /\ rg[1].end \in Nat /\ rg[1].start < rg[1].end
    BY <1>3
  <2>. QED
    BY <1>3, <2>1, SizeBitsFacts
<1>5. /\ nrg \in Seq(Pieces) /\ nrg # <<>> /\ Len(nrg) = Len(rg)
      /\ nrg[1].start = s + w /\ nrg[1].end = e
      /\ \A p \in 2 .. Len(rg) : nrg[p] = rg[p]
  <2>1. rg[1].start + w <= rg[1].end /\ nrg = [rg EXCEPT ![1].start = @ + w]
    BY <1>3, <1>4
  <2>2. \E x \in Seq(Pieces) : /\ x = [rg EXCEPT ![1].start = @ + w]
                               /\ x # <<>> /\ Len(x) = Len(rg)
                               /\ x[1].start = rg[1].start + w /\ x[1].end = rg[1].end
                               /\ \A p \in 2 .. Len(rg) : x[p] = rg[p]
    BY <2>1, MovedPiece
  <2>. QED
    BY <1>3, <2>1, <2>2, ZenonT(60)
<1>6. PICK u \in Blocks : /\ u = [paddr |-> s, size |-> w, device |-> d]
                          /\ u.paddr = s /\ u.size = w
  <2>1. [paddr |-> s, size |-> w, device |-> d] \in Blocks
    BY Zenon DEF Blocks
  <2>. QED
    BY <2>1
<1>7. nut = IF b > MinBits THEN Append(ut, u) ELSE ut
  BY <1>3, <1>4, <1>6 DEF Kept
<1>8. PICK n \in Nat : n = Len(ut)
  BY SMTT(60)
<1>9. /\ nut \in Seq(Blocks)
      /\ \A x \in 1 .. n : nut[x] = ut[x]
      /\ Len(nut) = IF b > MinBits THEN n + 1 ELSE n
      /\ b > MinBits => nut[n + 1] = u
  <2>1. CASE b > MinBits
    <3>1. nut = Append(ut, u)
      BY <1>7, <2>1
    <3>2. /\ Append(ut, u) \in Seq(Blocks) /\ Len(Append(ut, u)) = Len(ut) + 1
          /\ \A x \in 1 .. Len(ut) : Append(ut, u)[x] = ut[x]
          /\ Append(ut, u)[Len(ut) + 1] = u
      OBVIOUS
    <3>. QED
      BY <1>8, <2>1, <3>1, <3>2
  <2>2. CASE ~(b > MinBits)
    BY <1>7, <1>8, <2>2
  <2>. QED
    BY <2>1, <2>2
<1>10. \A x \in 1 .. Len(nut) : x \in 1 .. n \/ (b > MinBits /\ x = n + 1)
  BY <1>9
<1>11. \A x \in 1 .. n : x \in 1 .. Len(nut)
  BY <1>9
<1>12. RegionsLeft(l, nrg)
  <2>1. l[o + 1].start <= nrg[1].start
    <3>1. PICK y \in Nat : y = l[o + 1].start
      BY <1>2 DEF Pieces
    <3>2. y <= s
      BY <1>2, <1>3, <3>1
    <3>. QED
      BY <1>5, <3>1, <3>2
  <2>2. \A p \in 1 .. Len(rg) : p = 1 \/ p \in 2 .. Len(rg)
    BY <1>2
  <2>3. ASSUME NEW p \in 2 .. Len(rg)
        PROVE  l[o + p].start <= nrg[p].start /\ nrg[p].end = l[o + p].end /\ nrg[p] = l[o + p]
    <3>1. p \in 1 .. Len(rg) /\ p # 1
      BY <1>2
    <3>2. l[o + p].start <= rg[p].start /\ rg[p].end = l[o + p].end /\ rg[p] = l[o + p]
      BY <1>1, <1>2, <3>1 DEF RegionsLeft
    <3>3. nrg[p] = rg[p]
      BY <1>5
    <3>. QED
      BY <3>2, <3>3
  <2>4. Len(nrg) <= Len(l) /\ Len(l) - Len(nrg) = o
    BY <1>2, <1>5
  <2>. QED
    BY <1>2, <1>3, <1>5, <2>1, <2>2, <2>3, <2>4 DEF RegionsLeft
<1>13. ASSUME NEW p \in 1 .. Len(l), NEW a \in Nat, CutBefore(l, rg, p, a)
       PROVE  CutBefore(l, nrg, p, a)
  BY <1>2, <1>3, <1>4, <1>5, <1>13 DEF CutBefore
<1>14. \A x \in 1 .. n : /\ ut[x].paddr \in Nat /\ ut[x].size \in Nat \ {0}
                         /\ ut[x].paddr + ut[x].size \in Nat
  BY <1>8, BlocksFacts
<1>15. UntypedsPlaced(l, nrg, nut)
  <2>1. ASSUME NEW x \in 1 .. n
        PROVE  /\ ut[x].paddr % ut[x].size = 0
               /\ \E p \in 1 .. Len(l) : /\ l[p].start <= ut[x].paddr /\ ut[x].paddr + ut[x].size <= l[p].end
                                         /\ CutBefore(l, nrg, p, ut[x].paddr + ut[x].size)
    BY <1>1, <1>8, <1>13, <1>14 DEF UntypedsPlaced
  <2>2. /\ u.paddr % u.size = 0
        /\ l[o + 1].start <= u.paddr /\ u.paddr + u.size <= l[o + 1].end
        /\ CutBefore(l, nrg, o + 1, u.paddr + u.size)
    <3>1. CutBefore(l, nrg, o + 1, s + w)
      BY <1>2, <1>5 DEF CutBefore
    <3>. QED
      BY <1>2, <1>3, <1>4, <1>6, <3>1
  <2>3. ASSUME NEW x \in 1 .. Len(nut)
        PROVE  /\ nut[x].paddr % nut[x].size = 0
               /\ \E p \in 1 .. Len(l) : /\ l[p].start <= nut[x].paddr /\ nut[x].paddr + nut[x].size <= l[p].end
                                         /\ CutBefore(l, nrg, p, nut[x].paddr + nut[x].size)
    <3>1. CASE x \in 1 .. n
      <4>1. nut[x] = ut[x]
        BY <1>9, <3>1
      <4>. QED
        BY <2>1, <3>1, <4>1
    <3>2. CASE b > MinBits /\ x = n + 1
      <4>1. nut[x] = u
        BY <1>9, <3>2
      <4>. QED
        BY <1>2, <2>2, <4>1
    <3>. QED
      BY <1>10, <3>1, <3>2
  <2>. QED
    BY <2>3 DEF UntypedsPlaced
<1>16. ASSUME NEW x \in 1 .. n
       PROVE  ut[x].paddr + ut[x].size <= s \/ s + w <= ut[x].paddr
  <2>1. PICK p \in 1 .. Len(l) : /\ l[p].start <= ut[x].paddr /\ ut[x].paddr + ut[x].size <= l[p].end
                                 /\ CutBefore(l, rg, p, ut[x].paddr + ut[x].size)
    BY <1>1, <1>8 DEF UntypedsPlaced
  <2>2. CASE p = o + 1
    BY <1>2, <1>3, <2>1, <2>2 DEF CutBefore
  <2>3. CASE p # o + 1
    <3>1. l[p] \in Pieces /\ (l[p].end <= l[o + 1].start \/ l[o + 1].end <= l[p].start)
      <4>1. Apart(l[p], l[o + 1])
        BY <1>1, <1>2, <2>3 DEF Parted
      <4>2. l[p] \in Pieces
        OBVIOUS
      <4>. QED
        BY <4>1, <4>2 DEF Apart
    <3>2. PICK y \in Nat, z \in Nat, g \in Nat, h \in Nat :
              y = l[p].start /\ z = l[p].end /\ g = l[o + 1].start /\ h = l[o + 1].end
      BY <1>2, <3>1 DEF Pieces
    <3>3. g <= s /\ h = e /\ (z <= g \/ h <= y)
      BY <1>2, <1>3, <3>1, <3>2
    <3>4. PICK c \in Nat, f \in Nat : c = ut[x].paddr /\ f = ut[x].paddr + ut[x].size
      BY <1>14
    <3>5. y <= c /\ f <= z
      BY <2>1, <3>2, <3>4
    <3>6. f <= s \/ s + w <= c
      BY <1>4, <3>3, <3>5, SMTT(60)
    <3>. QED
      BY <3>4, <3>6
  <2>. QED
    BY <2>2, <2>3
<1>17. UntypedsApart(nut)
  <2>1. ASSUME NEW x \in 1 .. Len(nut), NEW y \in 1 .. Len(nut), x # y
        PROVE  \/ nut[x].paddr + nut[x].size <= nut[y].paddr
               \/ nut[y].paddr + nut[y].size <= nut[x].paddr
    <3>1. CASE x \in 1 .. n /\ y \in 1 .. n
      BY <1>1, <1>8, <1>9, <2>1, <3>1 DEF UntypedsApart
    <3>2. CASE x \in 1 .. n /\ b > MinBits /\ y = n + 1
      <4>1. nut[x] = ut[x] /\ nut[y] = u
        BY <1>9, <3>2
      <4>. QED
        BY <1>6, <1>16, <3>2, <4>1
    <3>3. CASE y \in 1 .. n /\ b > MinBits /\ x = n + 1
      <4>1. nut[y] = ut[y] /\ nut[x] = u
        BY <1>9, <3>3
      <4>. QED
        BY <1>6, <1>16, <3>3, <4>1
    <3>. QED
      BY <1>10, <2>1, <3>1, <3>2, <3>3
  <2>. QED
    BY <2>1 DEF UntypedsApart
<1>18. BlocksCovered(l, nrg, nut)
  <2>1. PICK S \in Nat \ {0} : S = Smallest /\ S = Pow2[MinBits + 1]
    BY SmallestFacts DEF Smallest
  <2>2. MinBits \in Nat /\ MinBits + 1 \in Nat /\ MinBits + 1 <= MaxBits
    BY BitsAssumption, SMTT(60)
  <2>3. ASSUME NEW p \in 1 .. Len(l), NEW a \in Nat, a % Smallest = 0,
               l[p].start <= a, a + Smallest <= l[p].end, CutBefore(l, nrg, p, a + 1)
        PROVE  CoveredBy(nut, a)
    <3>1. CASE CutBefore(l, rg, p, a + 1)
      <4>1. CoveredBy(ut, a)
        BY <1>1, <2>3, <3>1 DEF BlocksCovered
      <4>. QED
        BY <1>8, <1>9, <1>11, <4>1 DEF CoveredBy
    <3>2. CASE ~CutBefore(l, rg, p, a + 1)
      <4>1. p = o + 1 /\ s <= a /\ a < s + w
        BY <1>2, <1>3, <1>5, <2>3, <3>2, SMTT(60) DEF CutBefore
      <4>2. a % S = 0 /\ a + S <= e
        BY <1>2, <1>3, <2>1, <2>3, <4>1
      <4>3. CASE b > MinBits
        <5>1. MinBits + 1 <= b
          BY <2>2, <4>3
        <5>2. s % S = 0 /\ w % S = 0
          <6>1. w % w = 0
            BY ModSelf
          <6>2. \A x \in Nat : x % Pow2[b] = 0 => x % Pow2[MinBits + 1] = 0
            BY <2>2, <5>1, Pow2Smaller
          <6>. QED
            BY <1>4, <2>1, <6>1, <6>2
        <5>3. (s + w) % S = 0
          <6>1. s \in Int /\ w \in Int
            OBVIOUS
          <6>. QED
            BY <5>2, <6>1, ModSum, Zenon
        <5>4. a + S <= s + w
          <6>1. a \in Int /\ s + w \in Int
            OBVIOUS
          <6>. QED
            BY <4>1, <4>2, <5>3, <6>1, ModGap, Zenon
        <5>5. n + 1 \in 1 .. Len(nut) /\ nut[n + 1] = u
          BY <1>9, <4>3, SMTT(60)
        <5>. QED
          BY <1>6, <2>1, <4>1, <5>4, <5>5 DEF CoveredBy
      <4>4. CASE ~(b > MinBits)
        <5>1. b <= MinBits + 1 /\ ~(MinBits + 1 <= b)
          BY <2>2, <4>4, SMTT(60)
        <5>2. a % w = 0
          <6>1. \A x \in Nat : x % Pow2[MinBits + 1] = 0 => x % Pow2[b] = 0
            BY <2>2, <5>1, Pow2Smaller
          <6>. QED
            BY <1>4, <2>1, <4>2, <6>1
        <5>3. ~(s < a)
          <6>1. a \in Int /\ s \in Int
            OBVIOUS
          <6>2. s < a => s + w <= a
            BY <1>4, <5>2, <6>1, ModGap, Zenon
          <6>. QED
            BY <4>1, <6>2
        <5>4. a = s
          BY <4>1, <5>3
        <5>5. s + Pow2[MinBits + 1] <= e /\ s % Pow2[MinBits + 1] = 0
          BY <2>1, <4>2, <5>4
        <5>6. MinBits + 1 <= b
          BY <1>4, <2>2, <5>5
        <5>. QED
          BY <5>1, <5>6
      <4>. QED
        BY <4>3, <4>4
    <3>. QED
      BY <3>1, <3>2
  <2>. QED
    BY <2>3 DEF BlocksCovered
<1>. QED
  BY <1>1, <1>5, <1>9, <1>12, <1>15, <1>17, <1>18 DEF Cutting
(* All regions: the free ones and the devices. *)
AllRegions == Cuttable(freemem, FALSE) \o Cuttable(in.devices, TRUE)

LEMMA CuttableFacts ==
    ASSUME NEW s \in Seq(Extents), NEW d \in BOOLEAN
    PROVE  /\ Cuttable(s, d) \in Seq(Pieces) /\ Len(Cuttable(s, d)) = Len(s)
           /\ \A p \in 1 .. Len(s) : Cuttable(s, d)[p].start = s[p].start /\ Cuttable(s, d)[p].end = s[p].end
<1>1. Len(s) \in Nat /\ DOMAIN s = 1 .. Len(s)
  OBVIOUS
<1>2. Cuttable(s, d) = [p \in 1 .. Len(s) |-> [start |-> s[p].start, end |-> s[p].end, device |-> d]]
  BY <1>1 DEF Cuttable
<1>3. ASSUME NEW p \in 1 .. Len(s)
      PROVE  [start |-> s[p].start, end |-> s[p].end, device |-> d] \in Pieces
  <2>1. PICK a \in Nat, b \in Nat : a = s[p].start /\ b = s[p].end /\ a <= b
    <3>1. s[p] \in Extents
      OBVIOUS
    <3>. QED
      BY <3>1 DEF Extents
  <2>2. [start |-> a, end |-> b, device |-> d] \in [start : Nat, end : Nat, device : BOOLEAN]
    BY Zenon
  <2>. QED
    BY <2>1, <2>2 DEF Pieces
<1>4. \A p \in 1 .. Len(s) : Cuttable(s, d)[p] = [start |-> s[p].start, end |-> s[p].end, device |-> d]
  BY <1>2
<1>5. Cuttable(s, d) \in [1 .. Len(s) -> Pieces]
  BY <1>2, <1>3, Zenon
<1>6. Cuttable(s, d) \in Seq(Pieces) /\ Len(Cuttable(s, d)) = Len(s)
  <2>1. PICK g \in [1 .. Len(s) -> Pieces], n \in Nat : g = Cuttable(s, d) /\ n = Len(s)
    BY <1>1, <1>5
  <2>2. g \in [1 .. n -> Pieces]
    BY <2>1
  <2>3. g \in Seq(Pieces) /\ Len(g) = n
    BY ONLY <2>2, n \in Nat
  <2>. QED
    BY <2>1, <2>3
<1>7. \A p \in 1 .. Len(s) : Cuttable(s, d)[p].start = s[p].start /\ Cuttable(s, d)[p].end = s[p].end
  <2>1. ASSUME NEW p \in 1 .. Len(s)
        PROVE  Cuttable(s, d)[p].start = s[p].start /\ Cuttable(s, d)[p].end = s[p].end
    <3>1. Cuttable(s, d)[p] = [start |-> s[p].start, end |-> s[p].end, device |-> d]
      BY <1>4
    <3>. QED
      BY ONLY <3>1
  <2>. QED
    BY <2>1
<1>. QED
  BY <1>6, <1>7

LEMMA DevicesApart ==
    ASSUME GoodMachine(in)
    PROVE  /\ \A j \in 1 .. Len(in.memory), q \in 1 .. Len(in.devices) : Apart(in.memory[j], in.devices[q])
           /\ \A p, q \in 1 .. Len(in.devices) : p # q => Apart(in.devices[p], in.devices[q])
<1>1. PICK mem \in Seq(Extents), dev \in Seq(Extents) : mem = in.memory /\ dev = in.devices
  BY DEF GoodMachine
<1>2. /\ mem \o dev \in Seq(Extents) /\ Len(mem \o dev) = Len(mem) + Len(dev)
      /\ \A q \in 1 .. Len(mem) : (mem \o dev)[q] = mem[q]
      /\ \A q \in 1 .. Len(dev) : (mem \o dev)[Len(mem) + q] = dev[q]
  BY JoinedFacts
<1>3. \A x, y \in DOMAIN (mem \o dev) : x # y => Apart((mem \o dev)[x], (mem \o dev)[y])
  BY <1>1, Zenon DEF GoodMachine
<1>4. PICK n \in Nat, d \in Nat : n = Len(mem) /\ d = Len(dev)
  OBVIOUS
<1>5. DOMAIN (mem \o dev) = 1 .. n + d
  BY <1>2, <1>4
<1>6. ASSUME NEW j \in 1 .. n, NEW q \in 1 .. d PROVE Apart(mem[j], dev[q])
  <2>1. j \in 1 .. n + d /\ n + q \in 1 .. n + d /\ j # n + q
    OBVIOUS
  <2>2. Apart((mem \o dev)[j], (mem \o dev)[n + q])
    BY <1>3, <1>5, <2>1
  <2>. QED
    BY <1>2, <1>4, <2>2
<1>7. ASSUME NEW p \in 1 .. d, NEW q \in 1 .. d, p # q PROVE Apart(dev[p], dev[q])
  <2>1. n + p \in 1 .. n + d /\ n + q \in 1 .. n + d /\ n + p # n + q
    BY <1>7
  <2>2. Apart((mem \o dev)[n + p], (mem \o dev)[n + q])
    BY <1>3, <1>5, <2>1
  <2>. QED
    BY <1>2, <1>4, <2>2
<1>. QED
  BY <1>1, <1>4, <1>6, <1>7

(* The free regions are in order and inside the memory. *)
InMemory(s) == Ascending(s) /\ \A p \in 1 .. Len(s) : \E j \in 1 .. Len(in.memory) : Inside(s[p], in.memory[j])

LEMMA FreeInMemory ==
    ASSUME GoodMachine(in), NEW av \in Seq(Extents), NEW fr \in Seq(Extents),
           AvailableLeft(av), FreeInOrder(av, fr)
    PROVE  fr \o av \in Seq(Extents) /\ InMemory(fr \o av)
<1>1. /\ fr \o av \in Seq(Extents) /\ Len(fr \o av) = Len(fr) + Len(av)
      /\ \A q \in 1 .. Len(fr) : (fr \o av)[q] = fr[q]
      /\ \A q \in 1 .. Len(av) : (fr \o av)[Len(fr) + q] = av[q]
  BY JoinedFacts
<1>2. PICK n \in Nat, d \in Nat : n = Len(fr) /\ d = Len(av)
  OBVIOUS
<1>3. ASSUME NEW p \in 1 .. n + d
      PROVE  p \in 1 .. n \/ \E q \in 1 .. d : p = n + q
  <2>1. CASE p > n
    <3>1. p - n \in 1 .. d /\ p = n + (p - n)
      BY <2>1
    <3>. QED
      BY <3>1
  <2>. QED
    BY <2>1
<1>4. /\ Trimmed \in Seq(Extents) /\ Ascending(Trimmed)
      /\ \A q \in DOMAIN Trimmed : \E j \in DOMAIN in.memory : Inside(Trimmed[q], in.memory[j])
  BY TrimmedFacts
<1>5. in.memory \in Seq(Extents) /\ DOMAIN in.memory = 1 .. Len(in.memory)
  BY DEF GoodMachine
<1>6. PICK o \in Nat : o = Len(Trimmed) - Len(av) /\ Len(Trimmed) = o + d
  <2>1. Len(av) <= Len(Trimmed) /\ Len(av) \in Nat /\ Len(Trimmed) \in Nat
    BY <1>4 DEF AvailableLeft
  <2>2. Len(Trimmed) - Len(av) \in Nat /\ Len(Trimmed) = (Len(Trimmed) - Len(av)) + Len(av)
    BY <2>1
  <2>. QED
    BY <1>2, <2>2
<1>7. \A p \in 1 .. d : o + p \in DOMAIN Trimmed /\ Trimmed[o + p] \in Extents
  BY <1>4, <1>6
<1>8. \A p \in 1 .. d : Inside(av[p], Trimmed[o + p]) /\ av[p] \in Extents
  BY <1>2, <1>6 DEF AvailableLeft, Original
<1>9. ASSUME NEW r \in Extents, NEW x \in Extents, NEW y \in Extents, Inside(r, x), Inside(x, y)
      PROVE  Inside(r, y)
  BY <1>9 DEF Inside, Extents
<1>10. ASSUME NEW q \in DOMAIN Trimmed, NEW r \in Extents, Inside(r, Trimmed[q])
       PROVE  \E j \in 1 .. Len(in.memory) : Inside(r, in.memory[j])
  <2>1. PICK j \in 1 .. Len(in.memory) : Inside(Trimmed[q], in.memory[j])
    BY <1>4, <1>5
  <2>2. Trimmed[q] \in Extents /\ in.memory[j] \in Extents
    BY <1>4, <1>5
  <2>. QED
    BY <1>9, <1>10, <2>1, <2>2
<1>11. ASSUME NEW p \in 1 .. n + d
       PROVE  \E j \in 1 .. Len(in.memory) : Inside((fr \o av)[p], in.memory[j])
  <2>1. CASE p \in 1 .. n
    <3>1. (fr \o av)[p] = fr[p] /\ fr[p] \in Extents /\ \E q \in DOMAIN Trimmed : Inside(fr[p], Trimmed[q])
      BY <1>1, <1>2, <2>1 DEF FreeInOrder
    <3>. QED
      BY <1>10, <3>1
  <2>2. ASSUME NEW q \in 1 .. d, p = n + q PROVE \E j \in 1 .. Len(in.memory) : Inside((fr \o av)[p], in.memory[j])
    <3>1. (fr \o av)[p] = av[q]
      BY <1>1, <1>2, <2>2
    <3>. QED
      BY <1>7, <1>8, <1>10, <3>1
  <2>. QED
    BY <1>3, <2>1, <2>2
<1>12. ASSUME NEW p \in 1 .. d, NEW q \in 1 .. d, p < q PROVE av[p].end <= av[q].start
  <2>1. Trimmed[o + p].end <= Trimmed[o + q].start
    <3>1. o + p < o + q
      BY <1>12
    <3>. QED
      BY <1>4, <1>7, <3>1 DEF Ascending
  <2>2. /\ Trimmed[o + p] \in Extents /\ Trimmed[o + q] \in Extents /\ av[p] \in Extents /\ av[q] \in Extents
        /\ Inside(av[p], Trimmed[o + p]) /\ Inside(av[q], Trimmed[o + q])
    BY <1>7, <1>8
  <2>3. \A a, b, c, e \in Extents : Inside(a, b) /\ Inside(c, e) /\ b.end <= e.start => a.end <= c.start
    BY DEF Inside, Extents
  <2>. QED
    BY <2>1, <2>2, <2>3
<1>13. ASSUME NEW p \in 1 .. n + d, NEW q \in 1 .. n + d, p < q
       PROVE  (fr \o av)[p].end <= (fr \o av)[q].start
  <2>1. CASE p \in 1 .. n /\ q \in 1 .. n
    BY <1>1, <1>2, <1>13, <2>1 DEF FreeInOrder, Ascending
  <2>2. ASSUME p \in 1 .. n, NEW y \in 1 .. d, q = n + y PROVE (fr \o av)[p].end <= (fr \o av)[q].start
    BY <1>1, <1>2, <2>2 DEF FreeInOrder
  <2>3. ASSUME NEW x \in 1 .. d, p = n + x, NEW y \in 1 .. d, q = n + y
        PROVE  (fr \o av)[p].end <= (fr \o av)[q].start
    <3>1. x < y /\ (fr \o av)[p] = av[x] /\ (fr \o av)[q] = av[y]
      BY <1>1, <1>2, <1>13, <2>3
    <3>. QED
      BY <1>12, <3>1
  <2>4. ASSUME NEW x \in 1 .. d, p = n + x PROVE q \notin 1 .. n
    BY <1>13, <2>4
  <2>. QED
    BY <1>3, <2>1, <2>2, <2>3, <2>4
<1>14. DOMAIN (fr \o av) = 1 .. n + d /\ Len(fr \o av) = n + d
  BY <1>1, <1>2
<1>. QED
  BY <1>1, <1>11, <1>13, <1>14 DEF InMemory, Ascending
LEMMA PartedJoin ==
    ASSUME NEW f \in Seq(Pieces), NEW g \in Seq(Pieces), Parted(f), Parted(g),
           \A p \in 1 .. Len(f), q \in 1 .. Len(g) : Apart(f[p], g[q])
    PROVE  f \o g \in Seq(Pieces) /\ Parted(f \o g)
<1>1. /\ f \o g \in Seq(Pieces) /\ Len(f \o g) = Len(f) + Len(g)
      /\ \A p \in 1 .. Len(f) : (f \o g)[p] = f[p]
      /\ \A p \in 1 .. Len(g) : (f \o g)[Len(f) + p] = g[p]
  BY JoinedFacts
<1>2. PICK n \in Nat, d \in Nat : n = Len(f) /\ d = Len(g)
  OBVIOUS
<1>3. ASSUME NEW p \in 1 .. n + d
      PROVE  p \in 1 .. n \/ \E q \in 1 .. d : p = n + q
  <2>1. CASE p > n
    <3>1. p - n \in 1 .. d /\ p = n + (p - n)
      BY <2>1
    <3>. QED
      BY <3>1
  <2>. QED
    BY <2>1
<1>4. PICK l : l = f \o g /\ Len(l) = n + d
               /\ (\A p \in 1 .. n : l[p] = f[p]) /\ (\A p \in 1 .. d : l[n + p] = g[p])
  BY <1>1, <1>2
<1>5. \A p \in 1 .. n, q \in 1 .. d : Apart(l[p], l[n + q]) /\ Apart(l[n + q], l[p])
  BY <1>2, <1>4 DEF Apart
<1>6. ASSUME NEW p \in 1 .. n + d, NEW q \in 1 .. n + d, p # q PROVE Apart(l[p], l[q])
  <2>1. CASE p \in 1 .. n /\ q \in 1 .. n
    BY <1>2, <1>4, <1>6, <2>1 DEF Parted
  <2>2. ASSUME p \in 1 .. n, NEW y \in 1 .. d, q = n + y PROVE Apart(l[p], l[q])
    BY <1>5, <2>2
  <2>3. ASSUME q \in 1 .. n, NEW x \in 1 .. d, p = n + x PROVE Apart(l[p], l[q])
    BY <1>5, <2>3
  <2>4. ASSUME NEW x \in 1 .. d, NEW y \in 1 .. d, p = n + x, q = n + y PROVE Apart(l[p], l[q])
    <3>1. x # y
      BY <1>6, <2>4
    <3>. QED
      BY <1>2, <1>4, <2>4, <3>1 DEF Parted
  <2>. QED
    BY <1>3, <2>1, <2>2, <2>3, <2>4
<1>. QED
  BY <1>1, <1>4, <1>6 DEF Parted

LEMMA AllParted ==
    ASSUME GoodMachine(in), NEW fr \in Seq(Extents), InMemory(fr)
    PROVE  /\ Cuttable(fr, FALSE) \o Cuttable(in.devices, TRUE) \in Seq(Pieces)
           /\ Parted(Cuttable(fr, FALSE) \o Cuttable(in.devices, TRUE))
<1>1. PICK dev \in Seq(Extents) : dev = in.devices
  BY DEF GoodMachine
<1>. DEFINE f == Cuttable(fr, FALSE)
            g == Cuttable(dev, TRUE)
<1>2. /\ f \in Seq(Pieces) /\ Len(f) = Len(fr)
      /\ \A p \in 1 .. Len(fr) : f[p].start = fr[p].start /\ f[p].end = fr[p].end
  BY CuttableFacts
<1>3. /\ g \in Seq(Pieces) /\ Len(g) = Len(dev)
      /\ \A p \in 1 .. Len(dev) : g[p].start = dev[p].start /\ g[p].end = dev[p].end
  BY CuttableFacts
<1>. HIDE DEF f, g
<1>4. Parted(f)
  <2>1. ASSUME NEW p \in 1 .. Len(fr), NEW q \in 1 .. Len(fr), p # q
        PROVE  fr[p].end <= fr[q].start \/ fr[q].end <= fr[p].start
    <3>1. p < q \/ q < p
      BY <2>1
    <3>2. DOMAIN fr = 1 .. Len(fr)
      OBVIOUS
    <3>. QED
      BY <3>1, <3>2 DEF InMemory, Ascending
  <2>. QED
    BY <1>2, <2>1 DEF Parted, Apart
<1>5. Parted(g)
  <2>1. \A p, q \in 1 .. Len(dev) : p # q => Apart(dev[p], dev[q])
    BY <1>1, DevicesApart
  <2>. QED
    BY <1>3, <2>1 DEF Parted, Apart
<1>6. ASSUME NEW p \in 1 .. Len(f), NEW q \in 1 .. Len(g) PROVE Apart(f[p], g[q])
  <2>1. p \in 1 .. Len(fr) /\ q \in 1 .. Len(dev)
    BY <1>2, <1>3
  <2>2. PICK j \in 1 .. Len(in.memory) : Inside(fr[p], in.memory[j])
    BY <2>1 DEF InMemory
  <2>3. Apart(in.memory[j], dev[q])
    BY <1>1, <2>1, DevicesApart
  <2>4. in.memory[j] \in Extents /\ fr[p] \in Extents /\ dev[q] \in Extents
    <3>1. PICK mem \in Seq(Extents) : mem = in.memory
      BY DEF GoodMachine
    <3>2. mem[j] \in Extents
      BY <3>1
    <3>. QED
      BY <2>1, <3>1, <3>2
  <2>5. fr[p].end <= dev[q].start \/ dev[q].end <= fr[p].start
    <3>1. \A r, x, y \in Extents : Inside(r, x) /\ Apart(x, y) => r.end <= y.start \/ y.end <= r.start
      BY DEF Apart, Inside, Extents
    <3>. QED
      BY <2>2, <2>3, <2>4, <3>1, Zenon
  <2>. QED
    BY <1>2, <1>3, <2>1, <2>5 DEF Apart
<1>7. f \o g \in Seq(Pieces) /\ Parted(f \o g)
  BY <1>2, <1>3, <1>4, <1>5, <1>6, PartedJoin
<1>. QED
  BY <1>1, <1>7 DEF f, g

(* Before the first piece is cut. *)
LEMMA CuttingStarts ==
    ASSUME NEW l \in Seq(Pieces), Parted(l)
    PROVE  Cutting(l, l, <<>>) /\ <<>> \in Seq(Blocks)
<1>1. PICK n \in Nat : n = Len(l) /\ Len(l) - Len(l) = 0
  OBVIOUS
<1>2. RegionsLeft(l, l)
  <2>1. ASSUME NEW p \in 1 .. n PROVE l[0 + p] = l[p] /\ l[p].start <= l[p].start
    <3>1. l[p] \in Pieces /\ 0 + p = p
      BY <1>1
    <3>. QED
      BY <3>1 DEF Pieces
  <2>. QED
    BY <1>1, <2>1 DEF RegionsLeft
<1>3. UntypedsPlaced(l, l, <<>>) /\ UntypedsApart(<<>>) /\ <<>> \in Seq(Blocks)
  BY DEF UntypedsPlaced, UntypedsApart
<1>4. ASSUME NEW p \in 1 .. n, NEW a \in Nat, l[p].start <= a, CutBefore(l, l, p, a + 1) PROVE FALSE
  <2>1. p = 1 /\ a + 1 <= l[1].start
    BY <1>1, <1>4 DEF CutBefore
  <2>2. PICK y \in Nat : y = l[p].start
    <3>1. l[p] \in Pieces
      BY <1>1
    <3>. QED
      BY <3>1 DEF Pieces
  <2>. QED
    BY <1>4, <2>1, <2>2
<1>5. BlocksCovered(l, l, <<>>)
  BY <1>1, <1>4 DEF BlocksCovered
<1>. QED
  BY <1>2, <1>3, <1>5 DEF Cutting
-----------------------------------------------------------------------------
(* The inductive invariant. *)

CuttingInv ==
    /\ freemem \in Seq(Extents)
    /\ ~Spanning => Addresses(freemem) = Addresses(Trimmed) \ Addresses(in.reserved)
    /\ AllRegions \in Seq(Pieces) /\ regions \in Seq(Pieces) /\ untyped \in Seq(Blocks)
    /\ Cutting(AllRegions, regions, untyped)

GenInv ==
    /\ in \in Inputs
    /\ gen \in {"freemem", "cut", "done", "error"}
    /\ gen = "freemem" => FreememInv
    /\ gen \in {"freemem", "error"} => untyped = <<>>
    /\ gen \in {"cut", "done"} => CuttingInv
    /\ gen = "done" => regions = <<>>

LEMMA InputKept ==
    ASSUME in' = in
    PROVE  Trimmed' = Trimmed /\ Spanning' = Spanning
<1>1. Trimmed' = Trimmed
  BY DEF Trimmed
<1>. QED
  BY <1>1 DEF Spanning

LEMMA QueuesKept ==
    ASSUME in' = in, in \in Inputs,
           available' \in Seq(Extents), reserved' \in Seq(Extents), freemem' \in Seq(Extents),
           Queues(available', reserved', freemem'), StartsBehind(available', reserved')
    PROVE  FreememInv'
<1>1. Trimmed' = Trimmed /\ Spanning' = Spanning
  BY InputKept
<1>2. SuffixOf(reserved, in.reserved)'
  BY DEF Queues
<1>3. AvailableLeft(available)'
  BY <1>1 DEF Queues, AvailableLeft, Original
<1>4. (~Spanning => Accounted(available, reserved, freemem))'
  BY <1>1 DEF Queues, Accounted
<1>5. FreeInOrder(available, freemem)'
  BY <1>1 DEF Queues, FreeInOrder
<1>6. StartsBehind(available, reserved)'
  BY <1>1 DEF StartsBehind, Original
<1>7. Queues(available, reserved, freemem)'
  BY <1>2, <1>3, <1>4, <1>5 DEF Queues
<1>. QED
  BY <1>6, <1>7 DEF FreememInv

LEMMA GenInitInv ==
    ASSUME GenInit
    PROVE  GenInv
<1>1. GoodMachine(in) /\ in \in Inputs
  BY InputsAssumption DEF GenInit
<1>2. PICK av \in Seq(Extents), rs \in Seq(Extents) :
          av = Trimmed /\ available = av /\ rs = in.reserved /\ reserved = rs
  BY <1>1, TrimmedFacts, ReservedOrder DEF GenInit
<1>3. freemem = <<>> /\ <<>> \in Seq(Extents) /\ gen = "freemem" /\ untyped = <<>>
  BY DEF GenInit
<1>4. SuffixOf(rs, in.reserved)
  <2>1. Len(rs) - Len(rs) = 0 /\ Len(rs) <= Len(rs) /\ \A p \in 1 .. Len(rs) : 0 + p = p
    OBVIOUS
  <2>. QED
    BY <1>2, <2>1 DEF SuffixOf
<1>5. \A p \in 1 .. Len(av) : Original(av, p) = av[p] /\ Inside(av[p], av[p])
  <2>1. Len(av) - Len(av) = 0 /\ \A p \in 1 .. Len(av) : 0 + p = p
    OBVIOUS
  <2>2. \A r \in Extents : Inside(r, r)
    BY DEF Inside, Extents
  <2>. QED
    BY <1>2, <2>1, <2>2 DEF Original
<1>6. AvailableLeft(av)
  <2>1. Len(av) <= Len(av)
    OBVIOUS
  <2>. QED
    BY <1>2, <1>5, <2>1 DEF AvailableLeft
<1>7. Accounted(av, rs, <<>>)
  <2>1. Addresses(<<>>) = {}
    BY DEF Addresses
  <2>. QED
    BY <1>2, <2>1 DEF Accounted
<1>8. FreeInOrder(av, <<>>)
  BY DEF FreeInOrder, Ascending
<1>9. StartsBehind(av, rs)
  <2>1. av # <<>> => 1 \in 1 .. Len(av)
    OBVIOUS
  <2>. QED
    BY <1>5, <2>1 DEF StartsBehind
<1>10. Queues(av, rs, <<>>)
  BY <1>4, <1>6, <1>7, <1>8 DEF Queues
<1>11. FreememInv
  BY <1>1, <1>2, <1>3, <1>9, <1>10 DEF FreememInv
<1>. QED
  BY <1>1, <1>3, <1>11 DEF GenInv

LEMMA EndFreememInv ==
    ASSUME GenInv, EndFreemem
    PROVE  GenInv'
<1>1. /\ FreememInv /\ untyped = <<>> /\ (available = <<>> \/ reserved = <<>>)
      /\ gen' = "cut" /\ freemem' = freemem \o available
      /\ regions' = Cuttable(freemem', FALSE) \o Cuttable(in.devices, TRUE)
      /\ in' = in /\ untyped' = untyped
  BY DEF GenInv, EndFreemem
<1>2. GoodMachine(in)
  BY InputsAssumption DEF GenInv
<1>3. PICK av \in Seq(Extents), rs \in Seq(Extents), fr \in Seq(Extents) :
          av = available /\ rs = reserved /\ fr = freemem /\ Queues(av, rs, fr)
  BY <1>1 DEF FreememInv
<1>4. PICK g \in Seq(Extents) : g = fr \o av /\ InMemory(g)
  BY <1>2, FreeInMemory, <1>3 DEF Queues
<1>5. freemem' = g
  BY <1>1, <1>3, <1>4
<1>6. ASSUME ~Spanning PROVE Addresses(g) = Addresses(Trimmed) \ Addresses(in.reserved)
  <2>1. Addresses(g) = Addresses(fr) \cup Addresses(av)
    BY <1>4, JoinedAddresses
  <2>2. Addresses(fr) \cup (Addresses(av) \ Addresses(rs)) = Addresses(Trimmed) \ Addresses(in.reserved)
    BY <1>3, <1>6 DEF Queues, Accounted
  <2>3. Addresses(<<>>) = {}
    BY DEF Addresses
  <2>. QED
    BY <1>1, <1>3, <2>1, <2>2, <2>3
<1>7. PICK l \in Seq(Pieces) : l = Cuttable(g, FALSE) \o Cuttable(in.devices, TRUE) /\ Parted(l)
  BY <1>2, <1>4, AllParted
<1>8. AllRegions' = l /\ regions' = l /\ untyped' = <<>>
  BY <1>1, <1>5, <1>7 DEF AllRegions
<1>9. Cutting(l, l, <<>>) /\ <<>> \in Seq(Blocks)
  BY <1>7, CuttingStarts
<1>10. Cutting(AllRegions, regions, untyped)'
  BY <1>8, <1>9
<1>11. (~Spanning => Addresses(freemem) = Addresses(Trimmed) \ Addresses(in.reserved))'
  BY <1>1, <1>5, <1>6, InputKept
<1>12. CuttingInv'
  BY <1>5, <1>8, <1>9, <1>10, <1>11 DEF CuttingInv
<1>. QED
  BY <1>1, <1>12 DEF GenInv
LEMMA CutPieceInv ==
    ASSUME GenInv, CutPiece
    PROVE  GenInv'
<1>1. /\ gen = "cut" /\ regions # <<>> /\ gen' = gen /\ in' = in /\ freemem' = freemem
      /\ Head(regions).start # Head(regions).end /\ CuttingInv
  BY DEF GenInv, CutPiece
<1>2. PICK l \in Seq(Pieces), rg \in Seq(Pieces), ut \in Seq(Blocks) :
          l = AllRegions /\ rg = regions /\ ut = untyped /\ Cutting(l, rg, ut) /\ rg # <<>>
  BY <1>1 DEF CuttingInv
<1>3. Head(regions) = rg[1] /\ rg[1].start # rg[1].end
  BY <1>1, <1>2
<1>4. PICK nrg, nut :
          /\ nrg = regions' /\ nut = untyped'
          /\ nrg = [rg EXCEPT ![1].start = @ + Pow2[SizeBits(rg[1])]]
          /\ nut = IF Kept(SizeBits(rg[1]))
                   THEN Append(ut, [paddr |-> rg[1].start, size |-> Pow2[SizeBits(rg[1])],
                                    device |-> rg[1].device])
                   ELSE ut
  BY <1>2, <1>3 DEF CutPiece
<1>5. nrg \in Seq(Pieces) /\ nut \in Seq(Blocks) /\ Cutting(l, nrg, nut)
  BY <1>2, <1>3, <1>4, CutPieceCut
<1>6. AllRegions' = l
  BY <1>1, <1>2 DEF AllRegions
<1>7. Cutting(AllRegions, regions, untyped)'
  BY <1>4, <1>5, <1>6
<1>8. CuttingInv'
  BY <1>1, <1>4, <1>5, <1>6, <1>7, InputKept DEF CuttingInv
<1>. QED
  BY <1>1, <1>8 DEF GenInv

LEMMA NextRegionInv ==
    ASSUME GenInv, NextRegion
    PROVE  GenInv'
<1>1. /\ gen = "cut" /\ regions # <<>> /\ gen' = gen /\ in' = in /\ freemem' = freemem
      /\ untyped' = untyped /\ regions' = Tail(regions)
      /\ Head(regions).start = Head(regions).end /\ CuttingInv
  BY DEF GenInv, NextRegion
<1>2. PICK l \in Seq(Pieces), rg \in Seq(Pieces), ut \in Seq(Blocks) :
          l = AllRegions /\ rg = regions /\ ut = untyped /\ Cutting(l, rg, ut) /\ rg # <<>>
  BY <1>1 DEF CuttingInv
<1>3. rg[1].start = rg[1].end /\ Tail(rg) \in Seq(Pieces)
  BY <1>1, <1>2
<1>4. Cutting(l, Tail(rg), ut)
  BY <1>2, <1>3, NextRegionCut
<1>5. AllRegions' = l /\ regions' = Tail(rg) /\ untyped' = ut
  BY <1>1, <1>2 DEF AllRegions
<1>6. Cutting(AllRegions, regions, untyped)'
  BY <1>4, <1>5
<1>7. CuttingInv'
  BY <1>1, <1>3, <1>5, <1>6, InputKept DEF CuttingInv
<1>. QED
  BY <1>1, <1>7 DEF GenInv

LEMMA CuttingKept ==
    ASSUME CuttingInv, UNCHANGED <<in, freemem, regions, untyped>>
    PROVE  CuttingInv'
<1>1. AllRegions' = AllRegions
  BY DEF AllRegions
<1>. QED
  BY <1>1, InputKept DEF CuttingInv

LEMMA GenStepInv ==
    ASSUME GenInv, [GenNext]_genVars
    PROVE  GenInv'
<1>1. ASSUME gen = "freemem", gen' = gen, in' = in, untyped' = untyped,
             available' \in Seq(Extents), reserved' \in Seq(Extents), freemem' \in Seq(Extents),
             Queues(available', reserved', freemem'), StartsBehind(available', reserved')
      PROVE  GenInv'
  <2>1. FreememInv'
    BY <1>1, QueuesKept DEF GenInv
  <2>. QED
    BY <1>1, <2>1 DEF GenInv
<1>2. CASE SkipAvailable
  <2>1. gen = "freemem" /\ gen' = gen /\ in' = in /\ untyped' = untyped /\ FreememInv
    BY <1>2 DEF SkipAvailable, Round, GenInv
  <2>. QED
    BY <1>1, <1>2, <2>1, SkipAvailableInv
<1>3. CASE SkipReserved
  <2>1. gen = "freemem" /\ gen' = gen /\ in' = in /\ untyped' = untyped /\ FreememInv
    BY <1>3 DEF SkipReserved, Compare, Round, GenInv
  <2>. QED
    BY <1>1, <1>3, <2>1, SkipReservedInv
<1>4. CASE TakeRegion
  <2>1. gen = "freemem" /\ gen' = gen /\ in' = in /\ untyped' = untyped /\ FreememInv
    BY <1>4 DEF TakeRegion, Compare, Round, GenInv
  <2>. QED
    BY <1>1, <1>4, <2>1, TakeRegionInv
<1>5. CASE TrimStart
  <2>1. gen = "freemem" /\ gen' = gen /\ in' = in /\ untyped' = untyped /\ FreememInv
    BY <1>5 DEF TrimStart, Overlapping, Compare, Round, GenInv
  <2>. QED
    BY <1>1, <1>5, <2>1, TrimStartInv
<1>6. CASE TakeChunk
  <2>1. gen = "freemem" /\ gen' = gen /\ in' = in /\ untyped' = untyped /\ FreememInv
    BY <1>6 DEF TakeChunk, Overlapping, Compare, Round, GenInv
  <2>. QED
    BY <1>1, <1>6, <2>1, TakeChunkInv
<1>7. CASE NothingReserved
  BY <1>7 DEF NothingReserved, Round, GenInv
<1>8. CASE Finish
  <2>1. CuttingInv /\ UNCHANGED <<in, freemem, regions, untyped>> /\ gen' = "done" /\ regions = <<>>
    BY <1>8 DEF Finish, GenInv
  <2>2. CuttingInv'
    BY <2>1, CuttingKept
  <2>. QED
    BY <2>1, <2>2 DEF GenInv
<1>9. CASE UNCHANGED genVars
  <2>1. /\ in' = in /\ gen' = gen /\ available' = available /\ reserved' = reserved
        /\ freemem' = freemem /\ regions' = regions /\ untyped' = untyped
    BY <1>9 DEF genVars
  <2>2. gen \in {"cut", "done"} => CuttingInv'
    BY <2>1, CuttingKept DEF GenInv
  <2>3. gen = "freemem" => FreememInv'
    <3>1. ASSUME FreememInv PROVE FreememInv'
      <4>1. /\ available' \in Seq(Extents) /\ reserved' \in Seq(Extents) /\ freemem' \in Seq(Extents)
            /\ Queues(available', reserved', freemem') /\ StartsBehind(available', reserved')
        BY <2>1, <3>1 DEF FreememInv
      <4>. QED
        BY <2>1, <4>1, QueuesKept DEF GenInv
    <3>. QED
      BY <3>1 DEF GenInv
  <2>. QED
    BY <2>1, <2>2, <2>3 DEF GenInv
<1>. QED
  BY <1>2, <1>3, <1>4, <1>5, <1>6, <1>7, <1>8, <1>9, EndFreememInv, CutPieceInv, NextRegionInv
     DEF GenNext, GenStep

LEMMA GenInvariant == GenSpec => []GenInv
  BY GenInitInv, GenStepInv, PTL DEF GenSpec

(* One pass over the two lists leaves exactly the memory that is available *)
(* and not reserved, for every platform and every pair of images, unless a *)
(* reserved region spans several available ones.                           *)
THEOREM FreeAlwaysUnreserved == GenSpec => []FreeIsUnreserved
<1>1. GenInv => FreeIsUnreserved
  BY DEF GenInv, CuttingInv, FreeIsUnreserved
<1>. QED
  BY <1>1, GenInvariant, PTL

(* Every untyped of the list is aligned to its size and none overlaps      *)
(* another, as add_untyped demands; and at the end every aligned block of  *)
(* the smallest size that is kept is in one of them.                       *)
THEOREM UntypedsAlwaysAccepted == GenSpec => []UntypedsAccepted
<1>1. ASSUME GenInv PROVE UntypedsAccepted
  <2>1. CASE gen \in {"freemem", "error"}
    <3>1. untyped = <<>> /\ gen # "done"
      BY <1>1, <2>1 DEF GenInv
    <3>. QED
      BY <3>1 DEF UntypedsAccepted, Aligned, BlocksKept
  <2>2. CASE gen \in {"cut", "done"}
    <3>1. PICK l \in Seq(Pieces), rg \in Seq(Pieces), ut \in Seq(Blocks) :
              /\ l = AllRegions /\ rg = regions /\ ut = untyped /\ Cutting(l, rg, ut)
      BY <1>1, <2>2 DEF GenInv, CuttingInv
    <3>2. DOMAIN ut = 1 .. Len(ut)
      OBVIOUS
    <3>3. Aligned
      BY <3>1, <3>2 DEF Aligned, Cutting, UntypedsPlaced, UntypedsApart
    <3>4. BlocksKept
      <4>1. SUFFICES ASSUME gen = "done",
                            NEW r \in Range(freemem) \cup Range(in.devices), NEW a \in r.start .. r.end - 1,
                            a % Smallest = 0, a + Smallest <= r.end
                     PROVE  \E x \in DOMAIN untyped : untyped[x].paddr <= a /\ a + Smallest <= untyped[x].paddr + untyped[x].size
        BY DEF BlocksKept, Smallest
      <4>2. PICK fr \in Seq(Extents), dev \in Seq(Extents) : fr = freemem /\ dev = in.devices
        BY <1>1, <2>2, InputsAssumption DEF GenInv, CuttingInv, GoodMachine
      <4>3. rg = <<>> /\ Len(rg) = 0
        BY <1>1, <3>1, <4>1 DEF GenInv
      <4>4. PICK p \in 1 .. Len(l) : l[p].start = r.start /\ l[p].end = r.end
        <5>. DEFINE f == Cuttable(fr, FALSE)
                    g == Cuttable(dev, TRUE)
        <5>1. /\ f \in Seq(Pieces) /\ Len(f) = Len(fr)
              /\ \A p \in 1 .. Len(fr) : f[p].start = fr[p].start /\ f[p].end = fr[p].end
          BY CuttableFacts
        <5>2. /\ g \in Seq(Pieces) /\ Len(g) = Len(dev)
              /\ \A p \in 1 .. Len(dev) : g[p].start = dev[p].start /\ g[p].end = dev[p].end
          BY CuttableFacts
        <5>3. l = f \o g
          BY <3>1, <4>2 DEF AllRegions
        <5>. HIDE DEF f, g
        <5>4. /\ Len(f \o g) = Len(f) + Len(g)
              /\ \A p \in 1 .. Len(f) : (f \o g)[p] = f[p]
              /\ \A p \in 1 .. Len(g) : (f \o g)[Len(f) + p] = g[p]
          <6>1. ASSUME NEW s \in Seq(Pieces), NEW t \in Seq(Pieces)
                PROVE  /\ Len(s \o t) = Len(s) + Len(t)
                       /\ \A p \in 1 .. Len(s) : (s \o t)[p] = s[p]
                       /\ \A p \in 1 .. Len(t) : (s \o t)[Len(s) + p] = t[p]
            BY ONLY s \in Seq(Pieces), t \in Seq(Pieces), JoinedFacts
          <6>2. f \in Seq(Pieces) /\ g \in Seq(Pieces)
            BY <5>1, <5>2
          <6>. QED
            BY ONLY <6>1, <6>2
        <5>5. Len(fr) \in Nat /\ Len(dev) \in Nat
          OBVIOUS
        <5>6. CASE r \in Range(freemem)
          <6>1. PICK q \in 1 .. Len(fr) : r = fr[q]
            BY <4>2, <5>6 DEF Range
          <6>2. q \in 1 .. Len(l) /\ l[q] = f[q]
            BY <5>1, <5>2, <5>3, <5>4, <5>5
          <6>. QED
            BY <5>1, <6>1, <6>2
        <5>7. CASE r \in Range(in.devices)
          <6>1. PICK q \in 1 .. Len(dev) : r = dev[q]
            BY <4>2, <5>7 DEF Range
          <6>2. Len(fr) + q \in 1 .. Len(l) /\ l[Len(fr) + q] = g[q]
            BY <5>1, <5>2, <5>3, <5>4, <5>5
          <6>. QED
            BY <5>2, <6>1, <6>2
        <5>. QED
          BY <5>6, <5>7
      <4>5. a \in Nat /\ r.start <= a
        <5>1. r \in Extents
          BY <4>2 DEF Range
        <5>. QED
          BY <5>1 DEF Extents
      <4>6. CutBefore(l, rg, p, a + 1)
        BY <4>3 DEF CutBefore
      <4>7. CoveredBy(ut, a)
        BY <3>1, <4>1, <4>4, <4>5, <4>6 DEF Cutting, BlocksCovered
      <4>. QED
        BY <3>1, <3>2, <4>7 DEF CoveredBy
    <3>. QED
      BY <3>3, <3>4 DEF UntypedsAccepted
  <2>. QED
    BY <1>1, <2>1, <2>2 DEF GenInv
<1>. QED
  BY <1>1, GenInvariant, PTL
=============================================================================
