----------------------- MODULE ProviderManagerProofs -----------------------
(***************************************************************************)
(* ProviderManager for every set of agents and of providers: the table's   *)
(* invariant is inductive together with HeldUnlessExpired, which relates   *)
(* it to the copies the agents go on using.                                *)
(***************************************************************************)
EXTENDS ProviderManager, ProvidersProofs

USE ProvidersAssumption

IInv ==
  /\ TypeOK
  /\ TableInv
  /\ HeldUnlessExpired

LEMMA InitIInv == Init => IInv
  BY InitTable DEF Init, IInv, TypeOK, TableInv, HeldUnlessExpired

\* The agent id has called getUrl, which returned r.
LEMMA AfterGetUrl ==
  ASSUME IInv, NEW id \in Ids, NEW r, GetUrl(id, r),
         got' = [got EXCEPT ![id] = r],
         call' \in [Ids -> {"idle", "renew"}],
         \A x \in Ids \ {id} : call'[x] = call[x]
  PROVE  IInv'
<1> USE DEF IInv, TypeOK
<1>1. TableInv' /\ r \in Urls \union {NoUrl}
  BY GetUrlTable, GetUrlOwners
<1>2. TypeOK'
  BY <1>1 DEF TableInv
<1>3. ASSUME NEW x \in Ids, call'[x] = "idle", got'[x] # NoUrl, got'[x] \notin expired'
      PROVE  owner'[got'[x]] = x
  <2>1. CASE x = id
    BY <1>3, <2>1, GetUrlOwners
  <2>2. CASE x # id
    <3>1. got'[x] = got[x] /\ got[x] \in Urls /\ call[x] = "idle" /\ expired' = expired
      BY <1>3, <2>2, GetUrlOwners
    <3>2. owner[got[x]] = x
      BY <1>3, <3>1 DEF HeldUnlessExpired
    <3>3. \A u \in Urls : \/ owner'[u] = owner[u]
                          \/ u \in expired /\ owner'[u] = NoId
                          \/ u = r /\ owner[u] = NoId /\ owner'[u] = id
      BY GetUrlOwners
    <3>4. x # NoId
      OBVIOUS
    <3> QED BY <1>3, <3>1, <3>2, <3>3, <3>4
  <2> QED BY <2>1, <2>2
<1> QED BY <1>1, <1>2, <1>3 DEF HeldUnlessExpired

\* The agent id has called removeAgent, and uses no provider it had.
LEMMA AfterRemoveAgent ==
  ASSUME IInv, NEW id \in Ids, NEW t \in BOOLEAN, RemoveAgent(id, t),
         got' \in [Ids -> Urls \union {NoUrl}],
         call' \in [Ids -> {"idle", "renew"}],
         call'[id] = "renew" \/ got'[id] = NoUrl,
         \A x \in Ids \ {id} : call'[x] = call[x] /\ got'[x] = got[x]
  PROVE  IInv'
<1> USE DEF IInv, TypeOK
<1>1. /\ TableInv' /\ expired' = expired
      /\ \A u \in Urls : owner'[u] = owner[u] \/ owner[u] = id
  BY RemoveAgentTable
<1>2. TypeOK'
  BY <1>1 DEF TableInv
<1>3. ASSUME NEW x \in Ids, call'[x] = "idle", got'[x] # NoUrl, got'[x] \notin expired'
      PROVE  owner'[got'[x]] = x
  <2>1. x # id /\ got'[x] = got[x] /\ got[x] \in Urls /\ call[x] = "idle"
    BY <1>3
  <2>2. owner[got[x]] = x
    BY <1>1, <1>3, <2>1 DEF HeldUnlessExpired
  <2> QED BY <1>1, <2>1, <2>2
<1> QED BY <1>1, <1>2, <1>3 DEF HeldUnlessExpired

LEMMA NextIInv == IInv /\ [Next]_vars => IInv'
<1> SUFFICES ASSUME IInv, [Next]_vars PROVE IInv'
  OBVIOUS
<1> USE DEF IInv, TypeOK
<1>1. ASSUME NEW id \in Ids, AgentGetUrl(id) PROVE IInv'
  BY <1>1, AfterGetUrl DEF AgentGetUrl
<1>2. ASSUME NEW id \in Ids, AgentRequestNewUrl(id) PROVE IInv'
  <2>1. /\ RemoveAgent(id, TRUE) /\ got' = got
        /\ call' = [call EXCEPT ![id] = "renew"]
    BY <1>2 DEF AgentRequestNewUrl
  <2> QED BY <2>1, AfterRemoveAgent
<1>3. ASSUME NEW id \in Ids, AgentRenew(id) PROVE IInv'
  BY <1>3, AfterGetUrl DEF AgentRenew
<1>4. ASSUME NEW id \in Ids, AgentLeave(id) PROVE IInv'
  <2>1. /\ RemoveAgent(id, FALSE) /\ call' = call
        /\ got' = [got EXCEPT ![id] = NoUrl]
    BY <1>4 DEF AgentLeave
  <2> QED BY <2>1, AfterRemoveAgent
<1>5. ASSUME NEW id \in Ids, AgentThrows(id) PROVE IInv'
  <2>1. /\ TableInv' /\ expired' = expired
        /\ \A u \in Urls : owner'[u] = owner[u] \/ u \in expired
    BY <1>5, GetUrlThrowsTable DEF AgentThrows
  <2>2. /\ call' = [call EXCEPT ![id] = "idle"]
        /\ got' = [got EXCEPT ![id] = NoUrl]
    BY <1>5 DEF AgentThrows
  <2> QED BY <2>1, <2>2 DEF HeldUnlessExpired, TableInv
<1>6. CASE ControllerAsks
  BY <1>6, HasValidAgentsTable DEF ControllerAsks, HeldUnlessExpired, TableInv
<1>7. CASE Environment
  BY <1>7, EnvironmentTable DEF Environment, HeldUnlessExpired, TableInv
<1>8. CASE UNCHANGED vars
  BY <1>8, UnchangedTable DEF vars, provVars, HeldUnlessExpired, TableInv
<1> QED BY <1>1, <1>2, <1>3, <1>4, <1>5, <1>6, <1>7, <1>8 DEF Next

LEMMA Invariance == Spec => []IInv
  BY InitIInv, NextIInv, PTL DEF Spec

\* Every variable keeps its type, and no provider is entered in the list twice.
THEOREM TypeCorrect == Spec => []TypeOK
<1>1. IInv => TypeOK
  BY DEF IInv
<1> QED BY Invariance, <1>1, PTL

\* No agent ever owns two providers, and a provider in timeout has no owner.
THEOREM TableSafe == Spec => [](OneProviderPerAgent /\ TimedOutUnowned)
<1>1. IInv => OneProviderPerAgent /\ TimedOutUnowned
  BY DEF IInv, TableInv
<1> QED BY Invariance, <1>1, PTL

\* The provider an agent uses outside a call is recorded as its own, whatever
\* the other agents and the controller call meanwhile, unless its link expired.
THEOREM HeldSafe == Spec => []HeldUnlessExpired
<1>1. IInv => HeldUnlessExpired
  BY DEF IInv
<1> QED BY Invariance, <1>1, PTL

\* Two agents never use the same live provider.
THEOREM Exclusive == Spec => []ExclusiveProvider
<1>1. IInv => ExclusiveProvider
  <2> SUFFICES ASSUME IInv, NEW id1 \in Ids, NEW id2 \in Ids,
                      call[id1] = "idle", call[id2] = "idle",
                      got[id1] = got[id2], got[id1] \in Urls \ expired
               PROVE  id1 = id2
    BY DEF ExclusiveProvider
  <2>1. got[id1] # NoUrl
    OBVIOUS
  <2>2. owner[got[id1]] = id1 /\ owner[got[id2]] = id2
    BY <2>1 DEF IInv, HeldUnlessExpired
  <2> QED BY <2>2
<1> QED BY Invariance, <1>1, PTL

----------------------------------------------------------------------------
\* A call that gives the agent a free entry takes the first usable one offered.
LEMMA GetUrlTakesFirst ==
  ASSUME TableInv, NEW id \in Ids, NEW r, GetUrl(id, r),
         NEW u \in Urls, owner[u] = NoId, owner'[u] # NoId
  PROVE  /\ u \in Offered(arrived') \ inTimeOut
         /\ \A i, j \in DOMAIN arrived' :
               (i < j /\ arrived'[j] = u)
                  => (\/ arrived'[i] \in inTimeOut \union expired
                      \/ owner'[arrived'[i]] # NoId)
<1>1. u = r /\ u \notin inTimeOut /\ u \notin expired
  BY GetUrlOwners
<1>2. /\ \A v \in Urls : owner'[v] = owner[v] \/ v \in expired \/ owner'[v] # NoId
      /\ u # NoUrl /\ id # NoId
      /\ expired' = expired
  BY GetUrlOwners
<1>3. /\ arrived' \in Seq(Urls)
      /\ \A i, j \in DOMAIN arrived' : arrived'[i] = arrived'[j] => i = j
      /\ \A v \in listed' : \E i \in DOMAIN arrived' : arrived'[i] = v
      /\ Offered(arrived') \subseteq listed'
  BY <1>1, <1>2, GetUrlList DEF NamedOnce, ListedWereNamed, Offered
<1>4. u \in listed' /\ u \in First(Free(listed'), arrived')
  <2>1. u \notin First(OwnedBy(id), arrived)
    BY <1>2, FirstIsMember DEF OwnedBy
  <2>2. \/ u \in First(Free(Cleaned), arrived) /\ listed' = Cleaned /\ arrived' = arrived
        \/ u \in First(Free(listed'), arrived')
    BY <1>1, <1>2, <2>1 DEF GetUrl
  <2>3. u \in First(Free(listed'), arrived')
    BY <2>2
  <2> QED BY <2>3, FirstIsMember DEF Free
<1>5. PICK k \in DOMAIN arrived' :
        arrived'[k] = u /\ \A m \in 1..(k - 1) : arrived'[m] \notin Free(listed')
  BY <1>4 DEF First
<1>6. u \in Offered(arrived') \ inTimeOut
  BY <1>1, <1>5 DEF Offered
<1>7. ASSUME NEW i \in DOMAIN arrived', NEW j \in DOMAIN arrived', i < j, arrived'[j] = u,
             arrived'[i] \notin inTimeOut, arrived'[i] \notin expired
      PROVE  owner'[arrived'[i]] # NoId
  <2>1. j = k
    BY <1>3, <1>5, <1>7
  <2>2. i \in 1..(k - 1) /\ arrived'[i] \in Urls
    BY <1>3, <1>7, <2>1
  <2>3. arrived'[i] \in listed'
    BY <1>3, <1>7 DEF Offered
  <2>4. owner[arrived'[i]] # NoId
    BY <1>5, <1>7, <2>2, <2>3 DEF Free
  <2> QED BY <1>2, <1>7, <2>2, <2>4
<1> QED BY <1>6, <1>7

\* A provider an agent receives anew is the most preferred usable one.
THEOREM Preferred == Spec => PreferredFirst
<1>1. IInv /\ [Next]_vars =>
        \A u \in Urls : (owner[u] = NoId /\ owner'[u] # NoId)
          => /\ u \in Offered(arrived') \ inTimeOut
             /\ \A i, j \in DOMAIN arrived' :
                   (i < j /\ arrived'[j] = u)
                      => (\/ arrived'[i] \in inTimeOut \union expired
                          \/ owner'[arrived'[i]] # NoId)
  <2> SUFFICES ASSUME IInv, [Next]_vars,
                      NEW u \in Urls, owner[u] = NoId, owner'[u] # NoId
               PROVE  /\ u \in Offered(arrived') \ inTimeOut
                      /\ \A i, j \in DOMAIN arrived' :
                            (i < j /\ arrived'[j] = u)
                               => (\/ arrived'[i] \in inTimeOut \union expired
                                   \/ owner'[arrived'[i]] # NoId)
    OBVIOUS
  <2>1. \E id \in Ids, r \in Urls \union {NoUrl} : GetUrl(id, r)
    <3>1. ASSUME NEW id \in Ids, RemoveAgent(id, TRUE) \/ RemoveAgent(id, FALSE) PROVE FALSE
      BY <3>1, RemoveAgentTable DEF IInv
    <3>2. ASSUME NEW id \in Ids, GetUrlThrows(id) PROVE FALSE
      BY <3>2, GetUrlThrowsTable DEF IInv
    <3>3. ASSUME NEW v \in Urls, TimeOutEnds(v) \/ Expire(v) PROVE FALSE
      BY <3>3, EnvironmentTable DEF IInv
    <3>4. ASSUME NEW res \in BOOLEAN, HasValidAgents(res) PROVE FALSE
      BY <3>4, HasValidAgentsTable DEF IInv
    <3> QED BY <3>1, <3>2, <3>3, <3>4 DEF Next, vars, AgentGetUrl, AgentRequestNewUrl,
               AgentRenew, AgentLeave, AgentThrows, ControllerAsks, Environment
  <2> QED BY <2>1, GetUrlTakesFirst DEF IInv
<1> QED BY Invariance, <1>1, PTL DEF Spec, PreferredFirst

\* getUrl gives up only when every provider on offer is owned or in timeout.
THEOREM NullMeansNone == Spec => NullOnlyWhenNoneFree
<1>1. IInv => [\A id \in Ids :
                 (call'[id] = "idle" /\ got'[id] = NoUrl /\ AgentRenew(id))
                   => \A u \in Offered(arrived') : owner'[u] # NoId \/ u \in inTimeOut']_vars
  <2> SUFFICES ASSUME IInv, NEW id \in Ids, got'[id] = NoUrl, AgentRenew(id),
                      NEW u \in Offered(arrived')
               PROVE  owner'[u] # NoId \/ u \in inTimeOut'
    OBVIOUS
  <2>1. GetUrl(id, NoUrl)
    BY DEF AgentRenew, IInv, TypeOK
  <2>2. /\ NoUrl \notin First(OwnedBy(id), arrived)
        /\ \A l \in SUBSET Urls : NoUrl \notin Free(l)
        /\ Cleaned \in SUBSET Urls
    BY FirstIsMember DEF OwnedBy, Free, Cleaned, IInv, TableInv, ProvidersTypeOK
  <2>3. /\ listed' = Cleaned \union Offered(arrived') /\ arrived' \in Fetched
        /\ Free(listed') = {} /\ owner' = CleanedOwner
        /\ expired' = expired /\ inTimeOut' = inTimeOut \ expired
    <3>1. listed' \in SUBSET Urls
      BY <2>1, GetUrlList DEF IInv
    <3> QED BY <2>1, <2>2, <3>1, FirstIsMember DEF GetUrl
  <2>4. u \in Urls /\ u \notin expired
    BY <2>1, GetUrlList, OfferNamed DEF IInv
  <2>5. owner[u] # NoId \/ u \in inTimeOut
    BY <2>3 DEF Free
  <2> QED BY <2>3, <2>4, <2>5 DEF CleanedOwner
<1> QED BY Invariance, <1>1, PTL DEF Spec, NullOnlyWhenNoneFree
=============================================================================
