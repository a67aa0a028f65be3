-------------------------- MODULE ProvidersProofs --------------------------
(***************************************************************************)
(* The provider table keeps its invariant through every critical section   *)
(* of ProviderManager, whoever calls it and in whatever order; what a call *)
(* of getUrl may change.  The lemmas are stated of one section, so that    *)
(* the proofs about ProviderManager and about WebGet can both cite them.   *)
(***************************************************************************)
EXTENDS Providers, TLAPS

USE ProvidersAssumption

\* Init gives the table its invariant.
LEMMA InitTable == ProvidersInit => TableInv
  BY DEF ProvidersInit, TableInv, ProvidersTypeOK, OneProviderPerAgent, TimedOutUnowned,
         OwnedAreListed, NamedOnce, ListedWereNamed, FilledWithOffer

\* The web service names at most one provider more, and none twice.
LEMMA FetchedNames ==
  ASSUME arrived \in Seq(Urls), NamedOnce, NEW list \in Fetched
  PROVE  /\ list \in Seq(Urls)
         /\ \A i, j \in DOMAIN list : list[i] = list[j] => i = j
         /\ \A i \in DOMAIN arrived : i \in DOMAIN list /\ list[i] = arrived[i]
<1>1. CASE list = arrived
  BY <1>1 DEF NamedOnce
<1>2. CASE \E u \in Urls : /\ \A i \in DOMAIN arrived : arrived[i] # u
                           /\ list = Append(arrived, u)
  <2>1. PICK u \in Urls : /\ \A i \in DOMAIN arrived : arrived[i] # u
                          /\ list = Append(arrived, u)
    BY <1>2
  <2>2. /\ list \in Seq(Urls)
        /\ DOMAIN arrived = 1..Len(arrived)
        /\ DOMAIN list = 1..(Len(arrived) + 1)
        /\ \A i \in 1..Len(arrived) : list[i] = arrived[i]
        /\ list[Len(arrived) + 1] = u
        /\ Len(arrived) \in Nat
    BY <2>1
  <2>3. \A i, j \in DOMAIN list : list[i] = list[j] => i = j
    BY <2>1, <2>2 DEF NamedOnce
  <2> QED BY <2>2, <2>3
<1> QED BY <1>1, <1>2 DEF Fetched

\* What is on offer was named and has not expired.
LEMMA OfferNamed ==
  ASSUME NEW list \in Seq(Urls), NEW u \in Offered(list)
  PROVE  u \in Urls /\ u \notin expired /\ \E i \in DOMAIN list : list[i] = u
BY DEF Offered

LEMMA FirstIsMember == \A S, list : First(S, list) \subseteq S
BY DEF First

\* getUrl takes away nobody's entry: an owner changes only when its link has
\* expired or when the caller takes a free entry.
LEMMA GetUrlOwners ==
  ASSUME TableInv, NEW id \in Ids, NEW r, GetUrl(id, r)
  PROVE  /\ r \in Urls \union {NoUrl}
         /\ r # NoUrl => owner'[r] = id /\ r \in listed' /\ r \notin expired
         /\ \A u \in Urls : \/ owner'[u] = owner[u]
                            \/ u \in expired /\ owner'[u] = NoId
                            \/ /\ u = r /\ owner[u] = NoId /\ owner'[u] = id
                               /\ u \notin inTimeOut
         /\ \A u \in expired : owner'[u] = NoId
         /\ \A u \in Urls : owner[u] = id => u = r \/ u \in expired
         /\ owner' \in [Urls -> Ids \union {NoId}]
         /\ expired' = expired
         /\ inTimeOut' = inTimeOut \ expired
<1> USE DEF TableInv, ProvidersTypeOK
<1>0. /\ expired' = expired
      /\ inTimeOut' = inTimeOut \ expired
      /\ CleanedOwner \in [Urls -> Ids \union {NoId}]
      /\ \A u \in Urls : CleanedOwner[u] = IF u \in expired THEN NoId ELSE owner[u]
  BY DEF GetUrl, CleanedOwner
<1>1. CASE /\ r \in First(OwnedBy(id), arrived)
           /\ listed' = Cleaned
           /\ owner' = CleanedOwner
  <2>1. r \in OwnedBy(id)
    BY <1>1, FirstIsMember
  <2>2. r \in listed /\ r \notin expired /\ owner[r] = id
    BY <2>1 DEF OwnedBy, Cleaned
  <2>3. \A u \in Urls : owner[u] = id => u = r
    BY <2>2 DEF OneProviderPerAgent
  <2> QED BY <1>0, <1>1, <2>2, <2>3 DEF Cleaned
<1>2. ASSUME OwnedBy(id) = {}
      PROVE  \A u \in Urls : owner[u] = id => u \in expired
  BY <1>2 DEF OwnedBy, Cleaned, OwnedAreListed
<1>3. CASE /\ OwnedBy(id) = {}
           /\ r \in First(Free(Cleaned), arrived)
           /\ listed' = Cleaned
           /\ owner' = [CleanedOwner EXCEPT ![r] = id]
  <2>1. r \in Free(Cleaned)
    BY <1>3, FirstIsMember
  <2>2. r \in Urls /\ r \in listed /\ r \notin expired /\ r \notin inTimeOut /\ owner[r] = NoId
    BY <2>1 DEF Free, Cleaned
  <2> QED BY <1>0, <1>2, <1>3, <2>2 DEF Cleaned
<1>4. CASE /\ OwnedBy(id) = {}
           /\ arrived' \in Fetched
           /\ listed' = Cleaned \union Offered(arrived')
           /\ r \in First(Free(listed'), arrived')
           /\ owner' = [CleanedOwner EXCEPT ![r] = id]
  <2>1. r \in Free(listed') /\ arrived' \in Seq(Urls)
    BY <1>4, FirstIsMember, FetchedNames
  <2>2. r \in Urls /\ r \in listed' /\ r \notin expired /\ r \notin inTimeOut /\ owner[r] = NoId
    BY <2>1, <1>4, OfferNamed DEF Free, Cleaned
  <2> QED BY <1>0, <1>2, <1>4, <2>2
<1>5. CASE OwnedBy(id) = {} /\ r = NoUrl /\ owner' = CleanedOwner
  BY <1>0, <1>2, <1>5
<1> QED BY <1>1, <1>3, <1>4, <1>5 DEF GetUrl

\* What getUrl does to the list.
LEMMA GetUrlList ==
  ASSUME TableInv, NEW id \in Ids, NEW r, GetUrl(id, r)
  PROVE  /\ arrived' \in Seq(Urls)
         /\ NamedOnce'
         /\ listed' \subseteq Urls
         /\ Cleaned \subseteq listed'
         /\ ListedWereNamed'
         /\ FilledWithOffer'
         /\ r # NoUrl => Offered(arrived') \subseteq listed'
<1> USE DEF TableInv, ProvidersTypeOK
<1>1. expired' = expired
  BY DEF GetUrl
<1>2. CASE arrived' = arrived /\ listed' = Cleaned
  <2>1. FilledWithOffer'
    BY <1>1, <1>2 DEF FilledWithOffer, Offered, Cleaned
  <2>2. ASSUME r # NoUrl PROVE Cleaned # {}
    BY <1>2, <2>2, FirstIsMember DEF GetUrl, OwnedBy, Free, Cleaned
  <2> QED BY <1>1, <1>2, <2>1, <2>2
          DEF NamedOnce, ListedWereNamed, Cleaned, FilledWithOffer, Offered
<1>3. CASE arrived' \in Fetched /\ listed' = Cleaned \union Offered(arrived')
  <2>1. /\ arrived' \in Seq(Urls)
        /\ NamedOnce'
        /\ \A i \in DOMAIN arrived : i \in DOMAIN arrived' /\ arrived'[i] = arrived[i]
    BY <1>3, FetchedNames DEF NamedOnce
  <2>2. listed' \subseteq Urls /\ ListedWereNamed'
    BY <1>3, <2>1, OfferNamed DEF Cleaned, ListedWereNamed
  <2>3. FilledWithOffer'
    BY <1>1, <1>3 DEF FilledWithOffer, Offered
  <2> QED BY <1>3, <2>1, <2>2, <2>3
<1> QED BY <1>2, <1>3 DEF GetUrl

LEMMA GetUrlTable ==
  ASSUME TableInv, NEW id \in Ids, NEW r, GetUrl(id, r)
  PROVE  TableInv'
<1>1. ProvidersTypeOK'
  BY GetUrlOwners, GetUrlList DEF TableInv, ProvidersTypeOK
<1>2. OneProviderPerAgent'
  BY GetUrlOwners DEF TableInv, OneProviderPerAgent, ProvidersTypeOK
<1>3. TimedOutUnowned'
  BY GetUrlOwners DEF TableInv, TimedOutUnowned, ProvidersTypeOK
<1>4. OwnedAreListed'
  BY GetUrlOwners, GetUrlList DEF TableInv, OwnedAreListed, Cleaned, ProvidersTypeOK
<1> QED BY <1>1, <1>2, <1>3, <1>4, GetUrlList DEF TableInv

LEMMA GetUrlThrowsTable ==
  ASSUME TableInv, NEW id \in Ids, GetUrlThrows(id)
  PROVE  /\ TableInv'
         /\ expired' = expired
         /\ \A u \in Urls : owner'[u] = owner[u] \/ (u \in expired /\ owner'[u] = NoId)
<1> USE DEF TableInv, ProvidersTypeOK, GetUrlThrows, Cleaned, CleanedOwner
<1>1. /\ owner' \in [Urls -> Ids \union {NoId}]
      /\ \A u \in Urls : owner'[u] = IF u \in expired THEN NoId ELSE owner[u]
  OBVIOUS
<1>2. ProvidersTypeOK' /\ OneProviderPerAgent' /\ TimedOutUnowned' /\ OwnedAreListed'
  BY <1>1 DEF OneProviderPerAgent, TimedOutUnowned, OwnedAreListed
<1>3. NamedOnce' /\ ListedWereNamed' /\ FilledWithOffer'
  BY DEF NamedOnce, ListedWereNamed, FilledWithOffer, Offered
<1> QED BY <1>1, <1>2, <1>3

\* removeAgent frees the caller's entry and touches no other.
LEMMA RemoveAgentTable ==
  ASSUME TableInv, NEW id \in Ids, NEW t \in BOOLEAN, RemoveAgent(id, t)
  PROVE  /\ TableInv'
         /\ expired' = expired
         /\ \A u \in Urls : owner'[u] = owner[u] \/ (owner[u] = id /\ owner'[u] = NoId)
         /\ \A u \in Urls : owner'[u] # id
<1> USE DEF TableInv, ProvidersTypeOK
<1>0. UNCHANGED <<arrived, listed, expired>>
  BY DEF RemoveAgent
<1>1. CASE \A v \in listed : owner[v] # id
  <2>1. UNCHANGED <<owner, inTimeOut>>
    BY <1>1, FirstIsMember DEF RemoveAgent
  <2>2. \A u \in Urls : owner[u] # id
    BY <1>1 DEF OwnedAreListed
  <2> QED BY <1>0, <2>1, <2>2 DEF OneProviderPerAgent, TimedOutUnowned, OwnedAreListed,
          NamedOnce, ListedWereNamed, FilledWithOffer, Offered
<1>2. CASE \E v \in listed : owner[v] = id
  <2>1. PICK u \in Urls : /\ owner[u] = id /\ u \in listed
                          /\ owner' = [owner EXCEPT ![u] = NoId]
                          /\ inTimeOut' = IF t THEN inTimeOut \union {u} ELSE inTimeOut
    BY <1>2, FirstIsMember DEF RemoveAgent
  <2>2. \A v \in Urls : owner[v] = id => v = u
    BY <2>1 DEF OneProviderPerAgent
  <2>3. /\ owner' \in [Urls -> Ids \union {NoId}]
        /\ \A v \in Urls : owner'[v] = IF v = u THEN NoId ELSE owner[v]
    BY <2>1
  <2>4. ProvidersTypeOK' /\ OneProviderPerAgent' /\ TimedOutUnowned' /\ OwnedAreListed'
    BY <1>0, <2>1, <2>3 DEF OneProviderPerAgent, TimedOutUnowned, OwnedAreListed
  <2>5. NamedOnce' /\ ListedWereNamed' /\ FilledWithOffer'
    BY <1>0 DEF NamedOnce, ListedWereNamed, FilledWithOffer, Offered
  <2> QED BY <1>0, <2>1, <2>2, <2>3, <2>4, <2>5
<1> QED BY <1>1, <1>2

LEMMA HasValidAgentsTable ==
  ASSUME TableInv, NEW res, HasValidAgents(res)
  PROVE  TableInv' /\ UNCHANGED <<owner, inTimeOut, expired>>
<1> USE DEF TableInv, ProvidersTypeOK
<1>1. UNCHANGED <<owner, inTimeOut, expired>>
  BY DEF HasValidAgents
<1>2. CASE UNCHANGED <<arrived, listed>>
  BY <1>1, <1>2 DEF OneProviderPerAgent, TimedOutUnowned, OwnedAreListed,
          NamedOnce, ListedWereNamed, FilledWithOffer, Offered
<1>3. CASE listed = {} /\ arrived' \in Fetched /\ listed' = Offered(arrived')
  <2>1. arrived' \in Seq(Urls) /\ NamedOnce'
    BY <1>3, FetchedNames DEF NamedOnce
  <2>2. listed' \subseteq Urls /\ ListedWereNamed'
    BY <1>3, <2>1, OfferNamed DEF ListedWereNamed
  <2>3. FilledWithOffer' /\ OwnedAreListed'
    BY <1>1, <1>3 DEF FilledWithOffer, Offered, OwnedAreListed
  <2> QED BY <1>1, <2>1, <2>2, <2>3 DEF OneProviderPerAgent, TimedOutUnowned
<1> QED BY <1>2, <1>3 DEF HasValidAgents

LEMMA EnvironmentTable ==
  ASSUME TableInv, NEW u \in Urls, TimeOutEnds(u) \/ Expire(u)
  PROVE  TableInv' /\ UNCHANGED <<owner, arrived, listed>> /\ expired \subseteq expired'
<1> USE DEF TableInv, ProvidersTypeOK
<1>1. /\ UNCHANGED <<owner, arrived, listed>>
      /\ expired \subseteq expired' /\ expired' \subseteq Urls
      /\ inTimeOut' \subseteq inTimeOut
  BY DEF TimeOutEnds, Expire, Offered
<1>2. FilledWithOffer'
  BY <1>1 DEF FilledWithOffer, Offered
<1> QED BY <1>1, <1>2 DEF OneProviderPerAgent, TimedOutUnowned, OwnedAreListed,
          NamedOnce, ListedWereNamed

LEMMA UnchangedTable == TableInv /\ UNCHANGED provVars => TableInv'
  BY DEF TableInv, provVars, ProvidersTypeOK, OneProviderPerAgent, TimedOutUnowned,
         OwnedAreListed, NamedOnce, ListedWereNamed, FilledWithOffer, Offered
=============================================================================
